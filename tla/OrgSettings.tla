----------------------------- MODULE OrgSettings -----------------------------
(* The settings of one organization (Organization.name and .settings, a JSON   *)
(* text): its appearance, its module pack or module list, and whether the      *)
(* owner finished the module onboarding (organization.service.ts,              *)
(* org-settings.util.ts).  Organizations do not share settings.                *)
(*                                                                             *)
(* Each update reads the row, changes some fields of the parsed JSON and       *)
(* writes name and settings back as a whole; another request may run in        *)
(* between.  Who may send which update (OWNER, for the pack also ADMIN) does   *)
(* not matter here: roles are in Workspace.  The appearance fields are a       *)
(* function; a deleted branding key has its Default, as in the UI.             *)
EXTENDS Naturals

CONSTANTS
    Fields,       \* organizationName and the branding keys
    Values,       \* normalised values of a field
    Default,      \* the value of a field nobody has set
    Modules,      \* module keys
    Required,     \* modules mergeRequiredModules adds to every list
    Packs,        \* pack ids
    Core,         \* the pack served while the onboarding is pending
    PackModules,  \* MODULE_PACKS
    Reqs          \* request slots

NoPack == "null"
NoModules == {}

ASSUME OrgSettingsAssumption ==
    /\ Default \in Values
    /\ Required \subseteq Modules /\ Required # {}
    /\ Core \in Packs
    /\ NoPack \notin Packs
    /\ PackModules \in [Packs -> SUBSET Modules]
    /\ \A p \in Packs : Required \subseteq PackModules[p]

VARIABLES
    row,     \* the organization: appearance and parsed settings
    req,     \* local state of the updates in flight
    chosen,  \* history: the modules chosen last
    wanted,  \* history: the value each appearance field was set to last
    stale    \* history: some update was written over one it had not read

vars == <<row, req, chosen, wanted, stale>>

Rows == [look : [Fields -> Values],
         onboarding : {"unset", "false", "true"},
         pack : Packs \cup {NoPack},
         modules : SUBSET Modules]

\* A field a request leaves out is not in the domain of its change.
Changes == UNION {[F -> Values] : F \in SUBSET Fields}

Idle == [op |-> "none"]
Update == [op : {"appearance"}, read : Rows, change : Changes, overtaken : BOOLEAN]
          \cup [op : {"pack"}, read : Rows, pack : Packs, overtaken : BOOLEAN]
          \cup [op : {"modules"}, read : Rows, list : SUBSET Modules, overtaken : BOOLEAN]

-----------------------------------------------------------------------------
\* org-settings.util.ts: what the settings mean.

ModuleSetupPending(s) == s.onboarding = "false"

ResolveEnabledModules(s) ==
    IF ModuleSetupPending(s) THEN PackModules[Core]
    ELSE IF s.modules # {} THEN s.modules
    ELSE IF s.pack # NoPack THEN PackModules[s.pack]
    ELSE Modules

NeedsPackOnboarding(s) == s.onboarding = "false" /\ s.pack = NoPack

-----------------------------------------------------------------------------
\* The three updates: what they make of the row they read.

\* Bug: the settings are built from the branding alone.
BugForgetSettings(s, change) ==
    [look |-> [f \in Fields |-> IF f \in DOMAIN change THEN change[f] ELSE s.look[f]],
     onboarding |-> "unset", pack |-> NoPack, modules |-> NoModules]

WithAppearance(s, change) ==
    [s EXCEPT !.look = [f \in Fields |-> IF f \in DOMAIN change THEN change[f] ELSE @[f]]]

\* Bug: the onboarding is not marked complete.
BugStillPending(s, p) == [s EXCEPT !.pack = p, !.modules = PackModules[p]]

WithPack(s, p) ==
    [s EXCEPT !.pack = p, !.onboarding = "true", !.modules = PackModules[p]]

\* Bug: an empty list is taken for a missing pack.
BugPackFromList(s, list) ==
    [s EXCEPT !.pack = IF list = {} THEN "none" ELSE NoPack, !.onboarding = "true",
              !.modules = list \cup Required]

\* Bug: the pack chosen before is kept.
BugKeepPack(s, list) ==
    [s EXCEPT !.onboarding = "true", !.modules = list \cup Required]

WithModules(s, list) ==
    [s EXCEPT !.pack = NoPack, !.onboarding = "true", !.modules = list \cup Required]

-----------------------------------------------------------------------------
Read(r, update) ==
    /\ req[r] = Idle
    /\ req' = [req EXCEPT ![r] = update]
    /\ UNCHANGED <<row, chosen, wanted, stale>>

\* A write makes what the other updates in flight have read out of date.
Write(r, newRow) ==
    /\ row' = newRow
    /\ stale' = (stale \/ req[r].overtaken)
    /\ req' = [s \in Reqs |-> IF s = r \/ req[s] = Idle THEN Idle
                              ELSE [req[s] EXCEPT !.overtaken = TRUE]]

ReadForAppearance(r, change) ==
    Read(r, [op |-> "appearance", read |-> row, change |-> change, overtaken |-> FALSE])

ReadForPack(r, p) ==
    Read(r, [op |-> "pack", read |-> row, pack |-> p, overtaken |-> FALSE])

ReadForModules(r, list) ==
    Read(r, [op |-> "modules", read |-> row, list |-> list, overtaken |-> FALSE])

UpdateWorkspaceAppearance(r) ==
    /\ req[r].op = "appearance"
    /\ Write(r, WithAppearance(req[r].read, req[r].change))
    /\ wanted' = [f \in Fields |-> IF f \in DOMAIN req[r].change THEN req[r].change[f]
                                   ELSE wanted[f]]
    /\ UNCHANGED chosen

UpdateOrgPack(r) ==
    /\ req[r].op = "pack"
    /\ Write(r, WithPack(req[r].read, req[r].pack))
    /\ chosen' = PackModules[req[r].pack]
    /\ UNCHANGED wanted

UpdateOrgModules(r) ==
    /\ req[r].op = "modules"
    /\ Write(r, WithModules(req[r].read, req[r].list))
    /\ chosen' = req[r].list \cup Required
    /\ UNCHANGED wanted

\* A crash or redeploy of the API process.
Restart ==
    /\ \E r \in Reqs : req[r] # Idle
    /\ req' = [r \in Reqs |-> Idle]
    /\ UNCHANGED <<row, chosen, wanted, stale>>

\* An organization just founded, or one older than the onboarding (settings null).
Init ==
    /\ row \in {[look |-> [f \in Fields |-> Default], onboarding |-> onboarding,
                 pack |-> NoPack, modules |-> NoModules] : onboarding \in {"false", "unset"}}
    /\ req = [r \in Reqs |-> Idle]
    /\ chosen = ResolveEnabledModules(row)
    /\ wanted = row.look
    /\ stale = FALSE

Next ==
    \/ \E r \in Reqs :
        \/ \E change \in Changes : ReadForAppearance(r, change)
        \/ \E p \in Packs : ReadForPack(r, p)
        \/ \E list \in SUBSET Modules : ReadForModules(r, list)
        \/ UpdateWorkspaceAppearance(r) \/ UpdateOrgPack(r) \/ UpdateOrgModules(r)
    \/ Restart

Spec == Init /\ [][Next]_vars

-----------------------------------------------------------------------------
TypeOK ==
    /\ row \in Rows
    /\ req \in [Reqs -> Update \cup {Idle}]
    /\ chosen \subseteq Modules
    /\ wanted \in [Fields -> Values]
    /\ stale \in BOOLEAN

\* A pack that GET /organization/workspace names is the one whose modules it
\* lists, however pack, module and appearance updates overwrite each other.
PackMatches(s) == s.pack # NoPack => ResolveEnabledModules(s) = PackModules[s.pack]
PackMatchesModules == PackMatches(row)

\* While the organization is held back to the core pack the owner is asked for a
\* choice (organizationModuleSetupPending and needsPackOnboarding agree): no order
\* of stale writes leaves it held back for good.
OwnerAsked(s) == ModuleSetupPending(s) => NeedsPackOnboarding(s)
PendingOwnerIsAsked == OwnerAsked(row)

\* A choice or an appearance is lost only to an update that had read the row
\* before and was written after it.
NothingLostWithoutOverlap ==
    ~stale => row.look = wanted /\ ResolveEnabledModules(row) = chosen

\* What an update in flight has read was the row once.
ReadsWereRows ==
    \A r \in Reqs : req[r] # Idle =>
        /\ PackMatches(req[r].read) /\ OwnerAsked(req[r].read)
        /\ ~req[r].overtaken => req[r].read = row

\* The inductive invariant.
Inductive ==
    /\ TypeOK
    /\ PackMatchesModules
    /\ PendingOwnerIsAsked
    /\ NothingLostWithoutOverlap
    /\ ReadsWereRows

\* "Explizit abgeschlossenes Modul-Onboarding (neue Orgs: false bis Auswahl)"
\* (org-settings.util.ts:24): once the owner has chosen, it is not false again.
OnboardingStaysComplete ==
    [][row.onboarding = "true" => row'.onboarding # "false"]_vars
=============================================================================
