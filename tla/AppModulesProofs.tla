-------------------------- MODULE AppModulesProofs ---------------------------
(* Proofs about AppModules.  OrgSettings: the inductive invariant, for every    *)
(* set of fields, values, modules and packs and any number of updates in        *)
(* flight.  Each update is a function from the row read to the row written; the *)
(* lemmas say what these functions keep, and the invariant that what was read   *)
(* were such rows.  Navigation: where a person comes to rest, and a budget that *)
(* every redirect spends, for any module lists, goals and number of acts.       *)
EXTENDS AppModules, SequenceTheorems, TLAPS

\* What the module list of a row is once a choice was made.
LEMMA ChoiceResolved ==
    ASSUME NEW s \in Rows, s.onboarding = "true", s.modules # {}
    PROVE  ResolveEnabledModules(s) = s.modules
BY DEF ResolveEnabledModules, ModuleSetupPending

LEMMA AppearanceKeeps ==
    ASSUME NEW s \in Rows, NEW change \in Changes
    PROVE  /\ WithAppearance(s, change) \in Rows
           /\ WithAppearance(s, change).look =
                [f \in Fields |-> IF f \in DOMAIN change THEN change[f] ELSE s.look[f]]
           /\ ResolveEnabledModules(WithAppearance(s, change)) = ResolveEnabledModules(s)
           /\ PackMatches(s) => PackMatches(WithAppearance(s, change))
           /\ OwnerAsked(s) => OwnerAsked(WithAppearance(s, change))
<1> DEFINE look == [f \in Fields |-> IF f \in DOMAIN change THEN change[f] ELSE s.look[f]]
           w == [s EXCEPT !.look = look]
<1>1. look \in [Fields -> Values]
  <2>1. PICK F \in SUBSET Fields : change \in [F -> Values]
      BY DEF Changes
  <2> QED BY <2>1 DEF Rows
<1>2. w \in Rows /\ w.look = look /\ w.onboarding = s.onboarding /\ w.pack = s.pack
      /\ w.modules = s.modules
  <2> HIDE DEF look
  <2> QED BY <1>1 DEF Rows
<1>3. WithAppearance(s, change) = w
    BY DEF WithAppearance, Rows
<1> HIDE DEF w
<1>4. ResolveEnabledModules(w) = ResolveEnabledModules(s)
    BY <1>2 DEF ResolveEnabledModules, ModuleSetupPending
<1>5. PackMatches(s) => PackMatches(w)
    BY <1>2, <1>4 DEF PackMatches
<1>6. OwnerAsked(s) => OwnerAsked(w)
    BY <1>2 DEF OwnerAsked, ModuleSetupPending, NeedsPackOnboarding
<1> QED BY <1>2, <1>3, <1>4, <1>5, <1>6

LEMMA PackKeeps ==
    ASSUME NEW s \in Rows, NEW p \in Packs
    PROVE  /\ WithPack(s, p) \in Rows
           /\ WithPack(s, p).look = s.look
           /\ ResolveEnabledModules(WithPack(s, p)) = PackModules[p]
           /\ PackMatches(WithPack(s, p))
           /\ OwnerAsked(WithPack(s, p))
<1> DEFINE w == WithPack(s, p)
<1>1. /\ w \in Rows /\ w.look = s.look /\ w.onboarding = "true" /\ w.pack = p
      /\ w.modules = PackModules[p]
    BY OrgSettingsAssumption DEF WithPack, Rows
<1>2. PackModules[p] # {}
    BY OrgSettingsAssumption
<1> HIDE DEF w
<1>3. ResolveEnabledModules(w) = PackModules[p]
    BY <1>1, <1>2, ChoiceResolved
<1>4. PackMatches(w) /\ OwnerAsked(w)
    BY <1>1, <1>3 DEF PackMatches, OwnerAsked, ModuleSetupPending
<1> QED BY <1>1, <1>3, <1>4 DEF w

LEMMA ModulesKeeps ==
    ASSUME NEW s \in Rows, NEW list \in SUBSET Modules
    PROVE  /\ WithModules(s, list) \in Rows
           /\ WithModules(s, list).look = s.look
           /\ ResolveEnabledModules(WithModules(s, list)) = list \cup Required
           /\ PackMatches(WithModules(s, list))
           /\ OwnerAsked(WithModules(s, list))
<1> DEFINE w == WithModules(s, list)
<1>1. /\ w \in Rows /\ w.look = s.look /\ w.onboarding = "true" /\ w.pack = NoPack
      /\ w.modules = list \cup Required
    BY OrgSettingsAssumption DEF WithModules, Rows
<1>2. list \cup Required # {}
    BY OrgSettingsAssumption
<1> HIDE DEF w
<1>3. ResolveEnabledModules(w) = list \cup Required
    BY <1>1, <1>2, ChoiceResolved
<1>4. PackMatches(w) /\ OwnerAsked(w)
    BY <1>1 DEF PackMatches, OwnerAsked, ModuleSetupPending
<1> QED BY <1>1, <1>3, <1>4 DEF w

-----------------------------------------------------------------------------
LEMMA InitInductive == Init => Inductive
<1> SUFFICES ASSUME Init PROVE Inductive
    OBVIOUS
<1>1. PICK onboarding \in {"false", "unset"} :
        row = [look |-> [f \in Fields |-> Default], onboarding |-> onboarding,
               pack |-> NoPack, modules |-> NoModules]
    BY DEF Init
<1>2. row \in Rows
    BY <1>1, OrgSettingsAssumption DEF Rows, NoModules
<1>3. ResolveEnabledModules(row) \subseteq Modules
    BY <1>1, OrgSettingsAssumption DEF ResolveEnabledModules, ModuleSetupPending, NoModules
<1>4. TypeOK
    BY <1>2, <1>3 DEF Init, TypeOK, Rows
<1>5. PackMatchesModules /\ PendingOwnerIsAsked
    BY <1>1 DEF PackMatchesModules, PackMatches, PendingOwnerIsAsked, OwnerAsked,
                NeedsPackOnboarding, ModuleSetupPending
<1>6. NothingLostWithoutOverlap /\ ReadsWereRows
    BY DEF Init, NothingLostWithoutOverlap, ReadsWereRows
<1> QED BY <1>4, <1>5, <1>6 DEF Inductive

\* Reading the row starts an update that is not overtaken.
LEMMA ReadInductive ==
    ASSUME Inductive, NEW r \in Reqs, NEW update \in Update, Read(r, update),
           update.read = row, ~update.overtaken
    PROVE  Inductive'
<1>1. /\ req' \in [Reqs -> Update \cup {Idle}] /\ req'[r] = update
      /\ \A s \in Reqs \ {r} : req'[s] = req[s]
    BY DEF Inductive, TypeOK, Read
<1>2. UNCHANGED <<row, chosen, wanted, stale>>
    BY DEF Read
<1>3. TypeOK'
    BY <1>1, <1>2 DEF Inductive, TypeOK
<1>4. PackMatchesModules' /\ PendingOwnerIsAsked' /\ NothingLostWithoutOverlap'
    BY <1>2 DEF Inductive, PackMatchesModules, PendingOwnerIsAsked, NothingLostWithoutOverlap
<1>5. ReadsWereRows'
    BY <1>1, <1>2 DEF Inductive, ReadsWereRows, PackMatchesModules, PendingOwnerIsAsked
<1> QED BY <1>3, <1>4, <1>5 DEF Inductive

\* Marking an update as overtaken changes nothing else of it.
LEMMA Overtaking ==
    ASSUME NEW q \in Update
    PROVE  /\ [q EXCEPT !.overtaken = TRUE] \in Update
           /\ [q EXCEPT !.overtaken = TRUE].read = q.read
           /\ [q EXCEPT !.overtaken = TRUE].overtaken
           /\ q.read \in Rows
<1>1. CASE q \in [op : {"appearance"}, read : Rows, change : Changes, overtaken : BOOLEAN]
    BY <1>1 DEF Update
<1>2. CASE q \in [op : {"pack"}, read : Rows, pack : Packs, overtaken : BOOLEAN]
    BY <1>2 DEF Update
<1>3. CASE q \in [op : {"modules"}, read : Rows, list : SUBSET Modules, overtaken : BOOLEAN]
    BY <1>3 DEF Update
<1> QED BY <1>1, <1>2, <1>3 DEF Update

\* A write keeps the invariant when the row it writes is well formed and, unless
\* it was overtaken, holds what was chosen and wanted last.
LEMMA WriteInductive ==
    ASSUME Inductive, NEW r \in Reqs, NEW w \in Rows, Write(r, w),
           PackMatches(w), OwnerAsked(w),
           chosen' \subseteq Modules, wanted' \in [Fields -> Values],
           ~stale /\ ~req[r].overtaken =>
               w.look = wanted' /\ ResolveEnabledModules(w) = chosen'
    PROVE  Inductive'
<1>1. row' = w
    BY DEF Write
<1>2. \A s \in Reqs :
        \/ req'[s] = Idle
        \/ /\ req[s] \in Update /\ req[s] # Idle
           /\ req'[s] = [req[s] EXCEPT !.overtaken = TRUE]
    BY DEF Inductive, TypeOK, Write
<1>3. req' \in [Reqs -> Update \cup {Idle}]
  <2>1. req' = [s \in Reqs |-> IF s = r \/ req[s] = Idle THEN Idle
                               ELSE [req[s] EXCEPT !.overtaken = TRUE]]
      BY DEF Write
  <2>2. \A s \in Reqs : req'[s] \in Update \cup {Idle}
      BY <1>2, Overtaking
  <2> QED BY <2>1, <2>2
<1>4. stale' \in BOOLEAN
    BY DEF Write, Inductive, TypeOK
<1>5. TypeOK'
    BY <1>1, <1>3, <1>4 DEF TypeOK
<1>6. PackMatchesModules' /\ PendingOwnerIsAsked'
    BY <1>1 DEF PackMatchesModules, PendingOwnerIsAsked, PackMatches, OwnerAsked,
                ResolveEnabledModules, ModuleSetupPending, NeedsPackOnboarding
<1>7. NothingLostWithoutOverlap'
  <2>1. ~stale' => ~stale /\ ~req[r].overtaken
      BY DEF Write
  <2> QED BY <1>1, <2>1 DEF NothingLostWithoutOverlap, ResolveEnabledModules, ModuleSetupPending
<1>8. ReadsWereRows'
  <2> SUFFICES ASSUME NEW s \in Reqs, req'[s] # Idle
               PROVE  /\ PackMatches(req'[s].read) /\ OwnerAsked(req'[s].read)
                      /\ req'[s].overtaken
      BY DEF ReadsWereRows, PackMatches, OwnerAsked, ResolveEnabledModules,
             ModuleSetupPending, NeedsPackOnboarding
  <2>1. /\ req[s] \in Update /\ req[s] # Idle
        /\ req'[s] = [req[s] EXCEPT !.overtaken = TRUE]
      BY <1>2
  <2>2. PackMatches(req[s].read) /\ OwnerAsked(req[s].read)
      BY <2>1 DEF Inductive, ReadsWereRows
  <2>3. req'[s].read = req[s].read /\ req'[s].overtaken
      BY <2>1, Overtaking
  <2> QED BY <2>2, <2>3
<1> QED BY <1>5, <1>6, <1>7, <1>8 DEF Inductive

LEMMA NextInductive == Inductive /\ [Next]_vars => Inductive'
<1> SUFFICES ASSUME Inductive, [Next]_vars PROVE Inductive'
    OBVIOUS
<1> USE DEF Inductive, TypeOK
<1>0. row \in Rows /\ PackMatches(row) /\ OwnerAsked(row)
    BY DEF PackMatchesModules, PendingOwnerIsAsked
<1>1. ASSUME NEW r \in Reqs, NEW change \in Changes, ReadForAppearance(r, change)
      PROVE  Inductive'
  <2> DEFINE u == [op |-> "appearance", read |-> row, change |-> change, overtaken |-> FALSE]
  <2>1. u \in Update /\ u.read = row /\ ~u.overtaken
      BY <1>0 DEF Update
  <2>2. Read(r, u)
      BY <1>1 DEF ReadForAppearance
  <2> HIDE DEF u
  <2> QED BY <2>1, <2>2, ReadInductive
<1>2. ASSUME NEW r \in Reqs, NEW p \in Packs, ReadForPack(r, p) PROVE Inductive'
  <2> DEFINE u == [op |-> "pack", read |-> row, pack |-> p, overtaken |-> FALSE]
  <2>1. u \in Update /\ u.read = row /\ ~u.overtaken
      BY <1>0 DEF Update
  <2>2. Read(r, u)
      BY <1>2 DEF ReadForPack
  <2> HIDE DEF u
  <2> QED BY <2>1, <2>2, ReadInductive
<1>3. ASSUME NEW r \in Reqs, NEW list \in SUBSET Modules, ReadForModules(r, list)
      PROVE  Inductive'
  <2> DEFINE u == [op |-> "modules", read |-> row, list |-> list, overtaken |-> FALSE]
  <2>1. u \in Update /\ u.read = row /\ ~u.overtaken
      BY <1>0 DEF Update
  <2>2. Read(r, u)
      BY <1>3 DEF ReadForModules
  <2> HIDE DEF u
  <2> QED BY <2>1, <2>2, ReadInductive
<1>4. ASSUME NEW r \in Reqs, UpdateWorkspaceAppearance(r) PROVE Inductive'
  <2> DEFINE q == req[r]
             w == WithAppearance(q.read, q.change)
  <2>1. q.read \in Rows /\ q.change \in Changes /\ q # Idle
      BY <1>4 DEF UpdateWorkspaceAppearance, Update, Idle
  <2>2. PackMatches(q.read) /\ OwnerAsked(q.read) /\ (~q.overtaken => q.read = row)
      BY <2>1 DEF ReadsWereRows
  <2>3. /\ w \in Rows /\ PackMatches(w) /\ OwnerAsked(w)
        /\ w.look = [f \in Fields |-> IF f \in DOMAIN q.change THEN q.change[f] ELSE q.read.look[f]]
        /\ ResolveEnabledModules(w) = ResolveEnabledModules(q.read)
      BY <2>1, <2>2, AppearanceKeeps
  <2>4. /\ Write(r, w) /\ chosen' = chosen
        /\ wanted' = [f \in Fields |-> IF f \in DOMAIN q.change THEN q.change[f] ELSE wanted[f]]
      BY <1>4 DEF UpdateWorkspaceAppearance
  <2>5. wanted' \in [Fields -> Values]
    <3>1. PICK F \in SUBSET Fields : q.change \in [F -> Values]
        BY <2>1 DEF Changes
    <3> QED BY <2>4, <3>1
  <2>6. ~stale /\ ~q.overtaken => w.look = wanted' /\ ResolveEnabledModules(w) = chosen'
      BY <2>2, <2>3, <2>4 DEF NothingLostWithoutOverlap
  <2> HIDE DEF w
  <2>7. w \in Rows /\ Write(r, w) /\ chosen' \subseteq Modules
      BY <2>3, <2>4
  <2> QED BY <2>3, <2>5, <2>6, <2>7, WriteInductive
<1>5. ASSUME NEW r \in Reqs, UpdateOrgPack(r) PROVE Inductive'
  <2> DEFINE q == req[r]
             w == WithPack(q.read, q.pack)
  <2>1. q.read \in Rows /\ q.pack \in Packs /\ q # Idle
      BY <1>5 DEF UpdateOrgPack, Update, Idle
  <2>2. ~q.overtaken => q.read = row
      BY <2>1 DEF ReadsWereRows
  <2>3. /\ w \in Rows /\ PackMatches(w) /\ OwnerAsked(w)
        /\ w.look = q.read.look /\ ResolveEnabledModules(w) = PackModules[q.pack]
      BY <2>1, PackKeeps
  <2>4. Write(r, w) /\ chosen' = PackModules[q.pack] /\ wanted' = wanted
      BY <1>5 DEF UpdateOrgPack
  <2>5. chosen' \subseteq Modules /\ wanted' \in [Fields -> Values]
      BY <2>1, <2>4, OrgSettingsAssumption
  <2>6. ~stale /\ ~q.overtaken => w.look = wanted' /\ ResolveEnabledModules(w) = chosen'
      BY <2>2, <2>3, <2>4 DEF NothingLostWithoutOverlap
  <2> HIDE DEF w
  <2>7. w \in Rows /\ Write(r, w)
      BY <2>3, <2>4
  <2> QED BY <2>3, <2>5, <2>6, <2>7, WriteInductive
<1>6. ASSUME NEW r \in Reqs, UpdateOrgModules(r) PROVE Inductive'
  <2> DEFINE q == req[r]
             w == WithModules(q.read, q.list)
  <2>1. q.read \in Rows /\ q.list \in SUBSET Modules /\ q # Idle
      BY <1>6 DEF UpdateOrgModules, Update, Idle
  <2>2. ~q.overtaken => q.read = row
      BY <2>1 DEF ReadsWereRows
  <2>3. /\ w \in Rows /\ PackMatches(w) /\ OwnerAsked(w)
        /\ w.look = q.read.look /\ ResolveEnabledModules(w) = q.list \cup Required
      BY <2>1, ModulesKeeps
  <2>4. Write(r, w) /\ chosen' = q.list \cup Required /\ wanted' = wanted
      BY <1>6 DEF UpdateOrgModules
  <2>5. chosen' \subseteq Modules /\ wanted' \in [Fields -> Values]
      BY <2>1, <2>4, OrgSettingsAssumption
  <2>6. ~stale /\ ~q.overtaken => w.look = wanted' /\ ResolveEnabledModules(w) = chosen'
      BY <2>2, <2>3, <2>4 DEF NothingLostWithoutOverlap
  <2> HIDE DEF w
  <2>7. w \in Rows /\ Write(r, w)
      BY <2>3, <2>4
  <2> QED BY <2>3, <2>5, <2>6, <2>7, WriteInductive
<1>7. CASE Restart \/ UNCHANGED vars
  <2>1. /\ UNCHANGED <<row, chosen, wanted, stale>>
        /\ req' = [r \in Reqs |-> Idle] \/ req' = req
      BY <1>7 DEF Restart, vars
  <2> QED BY <2>1 DEF PackMatchesModules, PendingOwnerIsAsked, NothingLostWithoutOverlap,
                      ReadsWereRows
<1> QED BY <1>1, <1>2, <1>3, <1>4, <1>5, <1>6, <1>7 DEF Next

-----------------------------------------------------------------------------
\* The rows an update has read, and the row it writes, keep pack, modules and
\* onboarding consistent, in every interleaving.
THEOREM SettingsInductive == Spec => []Inductive
<1>1. Init => Inductive
    BY InitInductive
<1>2. Inductive /\ [Next]_vars => Inductive'
    BY NextInductive
<1> QED BY <1>1, <1>2, PTL DEF Spec

\* The row, the updates in flight and the histories keep their types.
THEOREM SettingsTypeCorrect == Spec => []TypeOK
<1>1. Inductive => TypeOK
    BY DEF Inductive
<1> QED BY <1>1, SettingsInductive, PTL

\* The pack shown is the pack served.
THEOREM PackCorrect == Spec => []PackMatchesModules
<1>1. Inductive => PackMatchesModules
    BY DEF Inductive
<1> QED BY <1>1, SettingsInductive, PTL

\* An organization held back to the core pack has an owner who is asked.
THEOREM OnboardingCorrect == Spec => []PendingOwnerIsAsked
<1>1. Inductive => PendingOwnerIsAsked
    BY DEF Inductive
<1> QED BY <1>1, SettingsInductive, PTL

\* No update is lost but to one that overlapped it.
THEOREM NoLostUpdate == Spec => []NothingLostWithoutOverlap
<1>1. Inductive => NothingLostWithoutOverlap
    BY DEF Inductive
<1> QED BY <1>1, SettingsInductive, PTL

-----------------------------------------------------------------------------
(* Navigation: what the tables say of profiles and of the steps of the tour.   *)
Tours(m) == [open : BOOLEAN, step : 1 .. Len(TourSteps(m)), done : BOOLEAN, timer : BOOLEAN]

\* A step leads to a page that the modules allow, and points at something there.
GoodStep(step, m) ==
    /\ IsPathAllowed(step.place.path, m.modules)
    /\ step.place.path \notin {"nowhere", "onboarding"}
    /\ step.selector = "nav" =>
           IsNavItemVisible(step.nav, m.modules) /\ step.place.path = "dashboard" /\ step.nav # ""
    /\ step.selector = "page" => step.place.path \in PagesWithTarget
    /\ step.selector \in {"settings-workspace", "workspace-invite-code"} =>
           step.place.tab \in {"workspace", "invite"} /\ CanManageWorkspace(m.role)
AllSteps ==
    {Step(At("dashboard"), "app-main")}
    \cup {NavStep(href) : href \in {"projects", "tasks", "command-feed"}}
    \cup {PageStep(path) : path \in PagesWithTarget}
    \cup {Step(Tab(tab), selector) :
              tab \in {"profile", "security", "notifications", "personalization", "workspace",
                      "invite"},
              selector \in {"settings-tabs", "settings-workspace", "workspace-invite-code"}}
GoodSteps(m) == {step \in AllSteps : GoodStep(step, m)}

LEMMA ProfileFacts ==
    ASSUME NEW m \in Profiles
    PROVE  /\ m.needs \in BOOLEAN /\ m.role \in Roles /\ "overview" \in m.modules
           /\ \A path \in {"dashboard", "onboarding", "command-feed", "deals"} :
                  IsPathAllowed(path, m.modules)
  <1>1. PICK o \in Orgs : m = ProfileOf(o)
    BY DEF Profiles
  <1>2. o.role \in Roles /\ o.pending \in BOOLEAN /\ o.modules \in ModuleLists
    BY DEF Orgs
  <1>3. /\ m.role = o.role /\ m.needs = (o.role = "OWNER" /\ o.pending)
        /\ m.modules \in ModuleLists
    BY <1>1, <1>2, NavigationAssumption DEF ProfileOf
  <1>4. MergeRequiredModules(m.modules) = m.modules
    BY <1>3, NavigationAssumption
  <1>5. "overview" \in m.modules
    BY <1>4 DEF MergeRequiredModules
  <1> QED BY <1>2, <1>3, <1>5 DEF IsPathAllowed, RequiredModuleForPath, ModuleKeys

\* Steps that depend on a condition are good when that implies it of each.
LEMMA ConditionalSteps ==
    ASSUME NEW S, NEW condition \in BOOLEAN, NEW steps, condition => steps \in Seq(S)
    PROVE  Steps(condition, steps) \in Seq(S)
BY DEF Steps

LEMMA PageSteps ==
    ASSUME NEW m \in Profiles, NEW path \in PagesWithTarget
    PROVE  /\ IsPathAllowed(path, m.modules) => PageStep(path) \in GoodSteps(m)
           /\ Steps(IsPathAllowed(path, m.modules), <<PageStep(path)>>) \in Seq(GoodSteps(m))
  <1>1. IsPathAllowed(path, m.modules) => PageStep(path) \in GoodSteps(m)
    <2>1. PageStep(path) \in AllSteps
      BY DEF AllSteps
    <2>2. PageStep(path).place.path = path /\ PageStep(path).selector = "page"
      BY DEF PageStep, Step, At
    <2> QED BY <2>1, <2>2 DEF GoodSteps, GoodStep, PagesWithTarget
  <1>2. IsPathAllowed(path, m.modules) \in BOOLEAN
    BY DEF IsPathAllowed
  <1> QED BY <1>1, <1>2 DEF Steps

LEMMA SettingsSteps ==
    ASSUME NEW m \in Profiles, IsPathAllowed("settings", m.modules)
    PROVE  SettingsTourSteps \o Steps(CanManageWorkspace(m.role), WorkspaceTourSteps)
               \in Seq(GoodSteps(m))
  <1>1. \A tab \in {"profile", "security", "notifications", "personalization"} :
            Step(Tab(tab), "settings-tabs") \in GoodSteps(m)
    <2> TAKE tab \in {"profile", "security", "notifications", "personalization"}
    <2> DEFINE step == Step(Tab(tab), "settings-tabs")
    <2>0. step \in AllSteps
      BY DEF AllSteps
    <2>1. step.place.path = "settings" /\ step.selector = "settings-tabs"
      BY DEF Step, Tab
    <2> HIDE DEF step
    <2>2. step \in GoodSteps(m)
      BY <2>0, <2>1 DEF GoodSteps, GoodStep
    <2> QED BY <2>2 DEF step
  <1>2. SettingsTourSteps \in Seq(GoodSteps(m))
    BY <1>1 DEF SettingsTourSteps
  <1>3. ASSUME CanManageWorkspace(m.role)
        PROVE  WorkspaceTourSteps \in Seq(GoodSteps(m))
    <2>1. ASSUME NEW tab \in {"workspace", "invite"},
                 NEW selector \in {"settings-workspace", "workspace-invite-code"}
          PROVE  Step(Tab(tab), selector) \in GoodSteps(m)
      <3> DEFINE step == Step(Tab(tab), selector)
      <3>0. step \in AllSteps
        BY DEF AllSteps
      <3>1. /\ step.place.path = "settings" /\ step.place.tab = tab
            /\ step.selector = selector
        BY DEF Step, Tab
      <3> HIDE DEF step
      <3>2. step \in GoodSteps(m)
        BY <1>3, <3>0, <3>1 DEF GoodSteps, GoodStep
      <3> QED BY <3>2 DEF step
    <2> QED BY <2>1 DEF WorkspaceTourSteps
  <1>4. Steps(CanManageWorkspace(m.role), WorkspaceTourSteps) \in Seq(GoodSteps(m))
    BY <1>3 DEF Steps
  <1> QED BY <1>2, <1>4, ConcatProperties

\* The sidebar shows the item that the second step points at.
LEMMA SidebarStep ==
    ASSUME NEW m \in Profiles
    PROVE  NavStep(IF IsPathAllowed("projects", m.modules) THEN "projects"
                   ELSE IF IsPathAllowed("tasks", m.modules) THEN "tasks" ELSE "command-feed")
               \in GoodSteps(m)
  <1>1. ASSUME NEW href \in {"projects", "tasks", "command-feed"},
               href # "command-feed" => IsPathAllowed(href, m.modules)
        PROVE  NavStep(href) \in GoodSteps(m)
    <2>1. IsNavItemVisible(href, m.modules)
      BY <1>1 DEF IsNavItemVisible, AlwaysShown, NavModule, ModuleKeys, IsPathAllowed,
                  RequiredModuleForPath
    <2> DEFINE step == NavStep(href)
    <2>0. step \in AllSteps
      BY DEF AllSteps
    <2>2. /\ step.place.path = "dashboard" /\ step.selector = "nav" /\ step.nav = href
      BY DEF NavStep, At
    <2> HIDE DEF step
    <2>3. step \in GoodSteps(m)
      BY <2>0, <2>1, <2>2, ProfileFacts DEF GoodSteps, GoodStep
    <2> QED BY <2>3 DEF step
  <1> QED BY <1>1

LEMMA TourStepsAreGood ==
    ASSUME NEW m \in Profiles
    PROVE  /\ TourSteps(m) \in Seq(GoodSteps(m))
           /\ Len(TourSteps(m)) \in Nat \ {0}
  <1> DEFINE S == GoodSteps(m)
             Page(path) == Steps(IsPathAllowed(path, m.modules), <<PageStep(path)>>)
             nav == NavStep(IF IsPathAllowed("projects", m.modules) THEN "projects"
                            ELSE IF IsPathAllowed("tasks", m.modules) THEN "tasks"
                            ELSE "command-feed")
             settings == Steps(IsPathAllowed("settings", m.modules),
                               SettingsTourSteps \o Steps(CanManageWorkspace(m.role),
                                                          WorkspaceTourSteps))
             main == Step(At("dashboard"), "app-main")
  <1>1. main \in S
    <2>0. main \in AllSteps
      BY DEF AllSteps
    <2>1. main.place.path = "dashboard" /\ main.selector = "app-main"
      BY DEF Step, At
    <2> HIDE DEF main
    <2> QED BY <2>0, <2>1, ProfileFacts DEF GoodSteps, GoodStep
  <1>2. nav \in S
    BY SidebarStep
  <1>3. \A path \in PagesWithTarget : Page(path) \in Seq(S)
    BY PageSteps
  <1>4. PageStep("command-feed") \in S /\ PageStep("deals") \in S
    BY PageSteps, ProfileFacts DEF PagesWithTarget
  <1>5. settings \in Seq(S)
    <2>1. IsPathAllowed("settings", m.modules) \in BOOLEAN
      BY DEF IsPathAllowed
    <2> QED BY <2>1, SettingsSteps, ConditionalSteps
  <1>6. /\ Page("projects") \in Seq(S) /\ Page("tasks") \in Seq(S) /\ Page("team") \in Seq(S)
        /\ Page("notifications") \in Seq(S) /\ Page("analytics") \in Seq(S)
        /\ Page("invoices") \in Seq(S) /\ Page("customers") \in Seq(S)
    BY <1>3 DEF PagesWithTarget
  <1>7. BuildTourSteps(m) =
            <<main, nav>>
            \o Page("projects") \o Page("tasks") \o Page("team") \o Page("notifications")
            \o <<PageStep("command-feed"), PageStep("deals")>>
            \o Page("analytics") \o Page("invoices") \o Page("customers") \o settings
    BY DEF BuildTourSteps
  <1> HIDE DEF S, Page, nav, settings, main
  <1>8. <<main, nav>> \in Seq(S) /\ <<PageStep("command-feed"), PageStep("deals")>> \in Seq(S)
        /\ <<main>> \in Seq(S)
    BY <1>1, <1>2, <1>4
  <1>9. BuildTourSteps(m) \in Seq(S)
    BY <1>5, <1>6, <1>7, <1>8, ConcatProperties
  <1>10. TourSteps(m) = BuildTourSteps(m) \o <<main>>
    BY DEF TourSteps, main
  <1> QED BY <1>8, <1>9, <1>10, ConcatProperties DEF S

LEMMA StepFacts ==
    ASSUME NEW m \in Profiles, NEW t \in Tours(m)
    PROVE  /\ TourSteps(m)[t.step] \in GoodSteps(m)
           /\ GoodStep(TourSteps(m)[t.step], m)
           /\ TourSteps(m)[t.step].place # Nowhere
           /\ StepMatchesLocation(TourSteps(m)[t.step].place, TourSteps(m)[t.step])
  <1>1. TourSteps(m)[t.step] \in GoodSteps(m)
    BY TourStepsAreGood DEF Tours
  <1> DEFINE step == TourSteps(m)[t.step]
  <1> HIDE DEF step
  <1>2. GoodStep(step, m)
    BY <1>1 DEF step, GoodSteps
  <1>3. step.place # Nowhere
    <2>1. step.place.path # "nowhere" /\ Nowhere.path = "nowhere"
      BY <1>2 DEF GoodStep, Nowhere, At
    <2> QED BY <2>1
  <1>4. StepMatchesLocation(step.place, step)
    BY DEF StepMatchesLocation
  <1> QED BY <1>1, <1>2, <1>3, <1>4 DEF step

-----------------------------------------------------------------------------
(* Navigation: the invariant.  A page is left at once that the profile does    *)
(* not allow, and so is the onboarding page once it is done with; an open tour *)
(* takes the person to its step.                                               *)
StepOf(m, t) == TourSteps(m)[t.step]
RestsAt(p, m, t, n) ==
    n = Nowhere =>
        /\ IsPathAllowed(p.path, m.modules)
        /\ p.path = "onboarding" => m.needs
        /\ t.open => StepMatchesLocation(p, StepOf(m, t))

NavTyped ==
    /\ org \in Orgs /\ me \in Profiles
    /\ asking \in [at : {"none", "asked", "served"}, profile : Profiles]
    /\ tour \in Tours(me)
    /\ choosing \in {"no", "onboarding", "settings"}
    /\ drawer \in {"wide", "hidden", "open"}
    /\ hops \in Nat
Rests == RestsAt(place, me, tour, next)
\* The tour is shown with its step in sight.
Guided ==
    /\ tour.timer => place.path = "dashboard"
    /\ tour.open /\ me.needs => torn
    /\ tour.open /\ StepOf(me, tour).nav # "" /\ place.path = "dashboard" => drawer # "hidden"
\* Who has to choose the modules and is elsewhere will be sent to choose.
Owed ==
    /\ choosing # "no" => ~ org.pending
    /\ me.needs /\ place.path # "onboarding" /\ ~ torn =>
           \/ asking.at # "none" \/ choosing # "no"
           \/ next # Nowhere /\ next.path # place.path
Steady == NavTyped /\ Rests /\ Guided /\ Owed

\* Pages that are left at once.
Bad(p, m) == ~ IsPathAllowed(p.path, m.modules) \/ (p.path = "onboarding" /\ ~ m.needs)

LEMMA RedirectLeads ==
    ASSUME NEW p, NEW m, NEW t, NEW pending
    PROVE  /\ Bad(p, m) => Redirect(p, m, t, pending) = At("dashboard")
           /\ ~ Bad(p, m) => Redirect(p, m, t, pending) = TourPushes(p, m, t, pending)
BY DEF Bad, Redirect, ModuleGuard, OnboardingPage

LEMMA TourLeads ==
    ASSUME NEW p, NEW m, NEW t, NEW pending
    PROVE  /\ t.open /\ ~ StepMatchesLocation(p, StepOf(m, t)) =>
                  TourPushes(p, m, t, pending) = StepOf(m, t).place
           /\ ~ (t.open /\ ~ StepMatchesLocation(p, StepOf(m, t))) =>
                  TourPushes(p, m, t, pending) = pending
BY DEF TourPushes, StepOf

LEMMA RedirectRests ==
    ASSUME NEW p, NEW m \in Profiles, NEW t \in Tours(m), NEW pending
    PROVE  RestsAt(p, m, t, Redirect(p, m, t, pending))
  <1>1. At("dashboard") # Nowhere
    <2>1. At("dashboard").path # Nowhere.path
      BY DEF At, Nowhere
    <2> QED BY <2>1
  <1>2. StepOf(m, t).place # Nowhere
    BY StepFacts DEF StepOf
  <1> QED BY <1>1, <1>2, RedirectLeads, TourLeads DEF RestsAt, Bad

LEMMA TourRests ==
    ASSUME NEW p, NEW m \in Profiles, NEW t \in Tours(m), NEW pending, NEW u,
           RestsAt(p, m, u, pending)
    PROVE  RestsAt(p, m, t, TourPushes(p, m, t, pending))
  <1>1. StepOf(m, t).place # Nowhere
    BY StepFacts DEF StepOf
  <1> QED BY <1>1, TourLeads DEF RestsAt

\* What every step that ends with a rendering establishes.
LEMMA RenderGuides ==
    ASSUME NEW m \in Profiles, NEW t \in Tours(m), NEW p, NEW leads,
           drawer \in {"wide", "hidden", "open"}, t.timer => p.path = "dashboard",
           RestsAt(p, m, t, leads), Render(p, m, t, leads)
    PROVE  /\ place' = p /\ me' = m /\ tour' = t /\ next' = leads
           /\ drawer' \in {"wide", "hidden", "open"}
           /\ torn => torn'
           /\ Rests' /\ Guided'
  <1>1. place' = p /\ me' = m /\ tour' = t /\ next' = leads /\ drawer' = Drawer(p, m, t)
    BY DEF Render
  <1>2. drawer' \in {"wide", "hidden", "open"}
    BY <1>1 DEF Drawer
  <1>3. (torn => torn') /\ (t.open /\ m.needs => torn')
    BY DEF Render
  <1>4. t.open /\ StepOf(m, t).nav # "" /\ p.path = "dashboard" => drawer' # "hidden"
    BY <1>1 DEF Drawer, StepOf
  <1> QED BY <1>1, <1>2, <1>3, <1>4 DEF Rests, Guided

LEMMA ClampFacts ==
    ASSUME NEW m \in Profiles, NEW u \in Profiles, NEW t \in Tours(u)
    PROVE  /\ Clamp(t, m) \in Tours(m)
           /\ Clamp(t, m).open = t.open /\ Clamp(t, m).timer = t.timer
           /\ m = u => Clamp(t, m) = t
  <1> DEFINE last == Len(TourSteps(m))
             step == IF t.step <= last THEN t.step ELSE last
  <1>1. last \in Nat \ {0} /\ Len(TourSteps(u)) \in Nat \ {0}
    BY TourStepsAreGood
  <1>2. t.step \in 1 .. Len(TourSteps(u))
    BY DEF Tours
  <1>3. step \in 1 .. last /\ (m = u => step = t.step)
    BY <1>1, <1>2
  <1>4. Clamp(t, m) = [t EXCEPT !.step = step]
    BY DEF Clamp
  <1> HIDE DEF step, last
  <1>5. [t EXCEPT !.step = step] \in Tours(m)
    BY <1>3 DEF Tours, last
  <1>6. /\ [t EXCEPT !.step = step].open = t.open /\ [t EXCEPT !.step = step].timer = t.timer
        /\ step = t.step => [t EXCEPT !.step = step] = t
    BY DEF Tours
  <1> QED BY <1>3, <1>4, <1>5, <1>6

-----------------------------------------------------------------------------
(* Every step keeps Steady.                                                    *)
LEMMA CountsHops ==
    ASSUME NEW pending, hops \in Nat, Acts \/ Hops(pending)
    PROVE  hops' \in Nat
BY DEF Acts, Hops

LEMMA NotAskedTyped ==
    /\ NotAsked.profile \in Profiles
    /\ NotAsked = [at |-> "none", profile |-> NotAsked.profile]
  <1> DEFINE o == [role |-> "MEMBER", pending |-> TRUE, modules |-> ModulesForPack["core"]]
             asked == [role |-> "MEMBER", pending |-> TRUE]
  <1>1. o \in Orgs
    BY NavigationAssumption DEF Orgs, Roles
  <1>2. ProfileOf(o) = ProfileOf(asked)
    BY DEF ProfileOf
  <1>3. ProfileOf(asked) \in Profiles
    BY <1>1, <1>2 DEF Profiles
  <1> QED BY <1>3 DEF NotAsked

LEMMA ArriveSteady ==
    ASSUME Steady, Arrive
    PROVE  Steady' /\ place' # Nowhere
  <1> DEFINE turned == next.path # place.path
             t == IF turned THEN [tour EXCEPT !.timer = next.path = "dashboard" /\ ~ tour.done]
                  ELSE tour
             leads == Redirect(next, me, t, Nowhere)
  <1>1. /\ next # Nowhere /\ Render(next, me, t, leads) /\ Hops(Nowhere)
        /\ asking' = IF turned THEN [NotAsked EXCEPT !.at = "asked"] ELSE asking
        /\ UNCHANGED <<org, choosing>>
    BY DEF Arrive
  <1>2. /\ t \in Tours(me) /\ t.open = tour.open
        /\ t.timer => next.path = "dashboard"
    <2>1. CASE turned
      BY <2>1 DEF Steady, NavTyped, Tours
    <2>2. CASE ~ turned
      BY <2>2 DEF Steady, NavTyped, Guided
    <2> QED BY <2>1, <2>2
  <1>3. asking' \in [at : {"none", "asked", "served"}, profile : Profiles]
    <2>1. NotAsked.profile \in Profiles \/ ~ turned
      BY NotAskedTyped
    <2> QED BY <1>1, <2>1 DEF Steady, NavTyped, NotAsked
  <1>4. turned => asking'.at = "asked"
    BY <1>1 DEF NotAsked
  <1>5. ~ turned => asking' = asking
    BY <1>1
  <1> HIDE DEF t, leads
  <1>6. RestsAt(next, me, t, leads)
    BY <1>2, RedirectRests DEF leads, Steady, NavTyped
  <1>7. /\ place' = next /\ me' = me /\ tour' = t /\ next' = leads
        /\ drawer' \in {"wide", "hidden", "open"} /\ (torn => torn') /\ Rests' /\ Guided'
    BY <1>1, <1>2, <1>6, RenderGuides DEF Steady, NavTyped
  <1>8. NavTyped'
    BY <1>1, <1>2, <1>3, <1>7, CountsHops DEF Steady, NavTyped
  <1>9. Owed'
    BY <1>1, <1>4, <1>5, <1>7 DEF Steady, Owed
  <1> QED BY <1>1, <1>7, <1>8, <1>9 DEF Steady

LEMMA ServeMeSteady ==
    ASSUME Steady, ServeMe
    PROVE  Steady'
  <1>1. ProfileOf(org) \in Profiles
    BY DEF Steady, NavTyped, Profiles
  <1>2. /\ asking'.at = "served" /\ asking' \in [at : {"none", "asked", "served"}, profile : Profiles]
        /\ UNCHANGED <<org, me, place, next, choosing, tour, drawer, acts, hops, torn>>
    BY <1>1 DEF ServeMe
  <1> QED BY <1>2 DEF Steady, NavTyped, Rests, Guided, Owed

\* Who has to choose is sent to the onboarding page, or to the dashboard first.
LEMMA SentToChoose ==
    ASSUME NEW m \in Profiles, NEW t, NEW p, m.needs, p.path # "onboarding", ~ t.open
    PROVE  /\ Redirect(p, m, t, At("onboarding")) # Nowhere
           /\ Redirect(p, m, t, At("onboarding")).path # p.path
  <1>1. /\ At("dashboard").path = "dashboard" /\ At("onboarding").path = "onboarding"
        /\ Nowhere.path = "nowhere"
    BY DEF At, Nowhere
  <1>2. CASE Bad(p, m)
    <2>1. p.path # "dashboard"
      BY <1>2, ProfileFacts DEF Bad
    <2> QED BY <1>1, <1>2, <2>1, RedirectLeads
  <1>3. CASE ~ Bad(p, m)
    BY <1>1, <1>3, RedirectLeads, TourLeads
  <1> QED BY <1>2, <1>3

LEMMA AnswerMeSteady ==
    ASSUME Steady, place # Nowhere, AnswerMe
    PROVE  Steady' /\ place' # Nowhere
  <1> DEFINE m == asking.profile
             t == Clamp(tour, m)
             pending == IF m.needs /\ place.path # "onboarding" THEN At("onboarding") ELSE next
             leads == Redirect(place, m, t, pending)
  <1>1. /\ asking' = NotAsked /\ Render(place, m, t, leads) /\ Hops(next)
        /\ UNCHANGED <<org, choosing>>
    BY DEF AnswerMe
  <1>2. m \in Profiles
    BY DEF Steady, NavTyped
  <1>3. t \in Tours(m) /\ t.open = tour.open /\ (t.timer => place.path = "dashboard")
    <2>1. me \in Profiles /\ tour \in Tours(me) /\ (tour.timer => place.path = "dashboard")
      BY DEF Steady, NavTyped, Guided
    <2> HIDE DEF m
    <2> QED BY <1>2, <2>1, ClampFacts
  <1>4. asking' \in [at : {"none", "asked", "served"}, profile : Profiles]
    BY <1>1, NotAskedTyped DEF NotAsked
  <1>5. ASSUME m.needs, place.path # "onboarding", ~ t.open
        PROVE  leads # Nowhere /\ leads.path # place.path
    BY <1>2, <1>5, SentToChoose
  <1> HIDE DEF m, t, leads
  <1>6. RestsAt(place, m, t, leads)
    BY <1>2, <1>3, RedirectRests DEF leads
  <1>7. /\ place' = place /\ me' = m /\ tour' = t /\ next' = leads
        /\ drawer' \in {"wide", "hidden", "open"} /\ (torn => torn') /\ Rests' /\ Guided'
    BY <1>1, <1>2, <1>3, <1>6, RenderGuides DEF Steady, NavTyped
  <1>8. NavTyped'
    BY <1>1, <1>2, <1>3, <1>4, <1>7, CountsHops DEF Steady, NavTyped
  <1>9. Owed'
    BY <1>1, <1>5, <1>7 DEF Steady, Owed, Guided
  <1> QED BY <1>7, <1>8, <1>9 DEF Steady

\* The timer and the buttons of the tour.
LEMMA TourSteady ==
    ASSUME Steady, place # Nowhere, NEW t \in Tours(me), NEW pending,
           t.timer => place.path = "dashboard",
           pending = Nowhere => next = Nowhere,
           pending = next \/ (pending # Nowhere /\ (tour.open \/ pending.path # place.path)),
           Render(place, me, t, TourPushes(place, me, t, pending)),
           Acts \/ Hops(next), UNCHANGED <<org, asking, choosing>>
    PROVE  Steady' /\ place' # Nowhere
  <1> DEFINE leads == TourPushes(place, me, t, pending)
  <1>1. RestsAt(place, me, tour, pending)
    BY DEF Steady, Rests, RestsAt
  <1>2. me \in Profiles /\ drawer \in {"wide", "hidden", "open"} /\ hops \in Nat
    BY DEF Steady, NavTyped
  <1>3. RestsAt(place, me, t, leads)
    BY <1>1, <1>2, TourRests
  <1>4. ~ t.open => leads = pending
    BY TourLeads
  <1> HIDE DEF leads
  <1>5. /\ place' = place /\ me' = me /\ tour' = t /\ next' = leads
        /\ drawer' \in {"wide", "hidden", "open"} /\ (torn => torn') /\ Rests' /\ Guided'
    BY <1>2, <1>3, RenderGuides DEF leads
  <1>6. NavTyped'
    BY <1>2, <1>5, CountsHops DEF Steady, NavTyped
  <1>7. Owed'
    BY <1>4, <1>5 DEF Steady, Owed, Guided
  <1> QED BY <1>5, <1>6, <1>7 DEF Steady

LEMMA TourSwitches ==
    ASSUME NEW m, NEW t \in Tours(m), NEW b \in BOOLEAN
    PROVE  /\ [t EXCEPT !.open = b] \in Tours(m)
           /\ [t EXCEPT !.open = b].timer = t.timer
           /\ [t EXCEPT !.done = b] \in Tours(m)
           /\ [t EXCEPT !.done = b].timer = t.timer
           /\ [t EXCEPT !.timer = b] \in Tours(m)
           /\ [t EXCEPT !.timer = b].timer = b
  <1>1. /\ t.open \in BOOLEAN /\ t.done \in BOOLEAN /\ t.timer \in BOOLEAN
        /\ t.step \in 1 .. Len(TourSteps(m))
    BY DEF Tours
  <1> QED BY <1>1 DEF Tours

LEMMA TourMoves ==
    ASSUME NEW m, NEW t \in Tours(m), NEW i \in 1 .. Len(TourSteps(m))
    PROVE  [t EXCEPT !.step = i] \in Tours(m) /\ [t EXCEPT !.step = i].timer = t.timer
  <1>1. /\ t.open \in BOOLEAN /\ t.done \in BOOLEAN /\ t.timer \in BOOLEAN
        /\ t.step \in 1 .. Len(TourSteps(m))
    BY DEF Tours
  <1> QED BY <1>1 DEF Tours

LEMMA TourOpensSteady ==
    ASSUME Steady, place # Nowhere, TourOpens
    PROVE  Steady' /\ place' # Nowhere
  <1> DEFINE t == [tour EXCEPT !.open = TRUE, !.timer = FALSE]
  <1>1. t = [[tour EXCEPT !.open = TRUE] EXCEPT !.timer = FALSE]
    BY DEF Steady, NavTyped, Tours
  <1>2. t \in Tours(me) /\ ~ t.timer
    <2>1. tour \in Tours(me)
      BY DEF Steady, NavTyped
    <2>2. PICK u \in Tours(me) : u = [tour EXCEPT !.open = TRUE]
      BY <2>1, TourSwitches
    <2>3. t = [u EXCEPT !.timer = FALSE]
      BY <1>1, <2>2
    <2> QED BY <2>2, <2>3, TourSwitches
  <1>3. /\ Render(place, me, t, TourPushes(place, me, t, next)) /\ Hops(next)
        /\ UNCHANGED <<org, asking, choosing>>
    BY DEF TourOpens
  <1> HIDE DEF t
  <1> QED BY <1>2, <1>3, TourSteady

LEMMA ButtonsSteady ==
    ASSUME Steady, place # Nowhere,
           NextStep \/ PreviousStep \/ SkipTour \/ OutroLink \/ RestartTour
    PROVE  Steady' /\ place' # Nowhere
  <1>1. /\ me \in Profiles /\ tour \in Tours(me) /\ (tour.timer => place.path = "dashboard")
    BY DEF Steady, NavTyped, Guided
  <1>2. Len(TourSteps(me)) \in Nat \ {0} /\ tour.step \in 1 .. Len(TourSteps(me))
    BY <1>1, TourStepsAreGood DEF Tours
  <1>3. ASSUME NEW t \in Tours(me), t.timer = tour.timer, NEW pending, TourGoes(t, pending),
               pending = next \/ (pending # Nowhere /\ (tour.open \/ pending.path # place.path))
        PROVE  Steady' /\ place' # Nowhere
    BY <1>1, <1>3, TourSteady DEF TourGoes
  <1>4. CASE NextStep \/ PreviousStep
    <2>1. PICK i \in 1 .. Len(TourSteps(me)) : TourGoes([tour EXCEPT !.step = i], next)
      <3>1. /\ tour.step < Len(TourSteps(me)) => tour.step + 1 \in 1 .. Len(TourSteps(me))
            /\ tour.step > 1 => tour.step - 1 \in 1 .. Len(TourSteps(me))
        BY <1>2
      <3>2. CASE NextStep
        BY <3>1, <3>2 DEF NextStep, LastStep
      <3>3. CASE PreviousStep
        BY <3>1, <3>3 DEF PreviousStep
      <3> QED BY <1>4, <3>2, <3>3
    <2>2. [tour EXCEPT !.step = i] \in Tours(me) /\ [tour EXCEPT !.step = i].timer = tour.timer
      BY <1>1, TourMoves
    <2> QED BY <1>3, <2>1, <2>2
  <1>5. ASSUME NEW b \in BOOLEAN, NEW c \in BOOLEAN, NEW i \in 1 .. Len(TourSteps(me))
        PROVE  /\ [tour EXCEPT !.open = b, !.done = c] \in Tours(me)
               /\ [tour EXCEPT !.open = b, !.done = c].timer = tour.timer
               /\ [tour EXCEPT !.step = i, !.done = c, !.open = b] \in Tours(me)
               /\ [tour EXCEPT !.step = i, !.done = c, !.open = b].timer = tour.timer
    <2>1. /\ [tour EXCEPT !.open = b, !.done = c] = [[tour EXCEPT !.open = b] EXCEPT !.done = c]
          /\ [tour EXCEPT !.step = i, !.done = c, !.open = b]
                = [[[tour EXCEPT !.step = i] EXCEPT !.done = c] EXCEPT !.open = b]
      BY <1>1 DEF Tours
    <2>2. PICK u \in Tours(me) : u = [tour EXCEPT !.open = b] /\ u.timer = tour.timer
      <3>1. [tour EXCEPT !.open = b] \in Tours(me) /\ [tour EXCEPT !.open = b].timer = tour.timer
        BY <1>1, TourSwitches
      <3> QED BY <3>1, Zenon
    <2>3. PICK v \in Tours(me) : v = [tour EXCEPT !.step = i] /\ v.timer = tour.timer
      <3>1. [tour EXCEPT !.step = i] \in Tours(me) /\ [tour EXCEPT !.step = i].timer = tour.timer
        BY <1>1, TourMoves
      <3> QED BY <3>1, Zenon
    <2>4. PICK w \in Tours(me) : w = [v EXCEPT !.done = c] /\ w.timer = tour.timer
      <3>1. [v EXCEPT !.done = c] \in Tours(me) /\ [v EXCEPT !.done = c].timer = v.timer
        BY TourSwitches
      <3> QED BY <2>3, <3>1, Zenon
    <2>5. [u EXCEPT !.done = c] \in Tours(me) /\ [u EXCEPT !.done = c].timer = tour.timer
      <3>1. [u EXCEPT !.done = c] \in Tours(me) /\ [u EXCEPT !.done = c].timer = u.timer
        BY TourSwitches
      <3> QED BY <2>2, <3>1, Zenon
    <2>6. [w EXCEPT !.open = b] \in Tours(me) /\ [w EXCEPT !.open = b].timer = tour.timer
      <3>1. [w EXCEPT !.open = b] \in Tours(me) /\ [w EXCEPT !.open = b].timer = w.timer
        BY TourSwitches
      <3> QED BY <2>4, <3>1, Zenon
    <2> QED BY <2>1, <2>2, <2>3, <2>4, <2>5, <2>6
  <1>6. CASE SkipTour
    <2>1. TourGoes([tour EXCEPT !.open = FALSE, !.done = TRUE], next)
      BY <1>6 DEF SkipTour
    <2> QED BY <1>2, <1>3, <1>5, <2>1
  <1>7. CASE OutroLink
    <2>1. tour.open /\ TourGoes([tour EXCEPT !.open = FALSE, !.done = TRUE], Tab("personalization"))
      BY <1>7 DEF OutroLink
    <2>2. Tab("personalization").path # Nowhere.path
      BY DEF Tab, Nowhere, At
    <2>3. Tab("personalization") # Nowhere
      BY <2>2
    <2> QED BY <1>2, <1>3, <1>5, <2>1, <2>3
  <1>8. CASE RestartTour
    <2>1. /\ tour.open \/ place.path = "settings"
          /\ TourGoes([tour EXCEPT !.step = 1, !.done = FALSE,
                                   !.open = @ \/ place.path = "dashboard"], At("dashboard"))
      BY <1>8 DEF RestartTour
    <2>2. At("dashboard").path = "dashboard" /\ Nowhere.path = "nowhere"
      BY DEF At, Nowhere
    <2>3. At("dashboard") # Nowhere /\ (tour.open \/ At("dashboard").path # place.path)
      BY <2>1, <2>2
    <2>4. (tour.open \/ place.path = "dashboard") \in BOOLEAN /\ 1 \in 1 .. Len(TourSteps(me))
      BY <1>2
    <2> QED BY <1>3, <1>5, <2>1, <2>3, <2>4
  <1> QED BY <1>4, <1>6, <1>7, <1>8

LEMMA GoSteady ==
    ASSUME Steady, place # Nowhere, NEW p \in Goals, Go(p)
    PROVE  Steady' /\ place' # Nowhere
  <1>1. /\ p.path = place.path => next = Nowhere
        /\ next' = p /\ hops' = 0
        /\ UNCHANGED <<org, me, place, asking, choosing, tour, drawer, torn>>
    BY DEF Go, Acts
  <1>2. p # Nowhere
    BY NavigationAssumption
  <1> QED BY <1>1, <1>2 DEF Steady, NavTyped, Rests, RestsAt, Guided, Owed

LEMMA LoadSteady ==
    ASSUME Steady, NEW p \in Goals, Load(p)
    PROVE  Steady' /\ place' # Nowhere
  <1> DEFINE timer == p.path = "dashboard" /\ ~ tour.done
             t == [open |-> FALSE, step |-> 1, done |-> tour.done, timer |-> timer]
             leads == Redirect(p, me, t, Nowhere)
  <1>1. /\ Render(p, me, t, leads) /\ hops' = 0 /\ choosing' = "no" /\ org' = org
        /\ asking' = [NotAsked EXCEPT !.at = "asked"]
    BY DEF Load, Acts
  <1>2. me \in Profiles /\ drawer \in {"wide", "hidden", "open"} /\ p # Nowhere
    BY NavigationAssumption DEF Steady, NavTyped
  <1>3. t \in Tours(me)
    <2>1. 1 \in 1 .. Len(TourSteps(me)) /\ tour.done \in BOOLEAN
      BY <1>2, TourStepsAreGood DEF Steady, NavTyped, Tours
    <2>2. timer \in BOOLEAN
      OBVIOUS
    <2> QED BY <2>1, <2>2 DEF Tours
  <1>4. asking' \in [at : {"none", "asked", "served"}, profile : Profiles]
        /\ asking'.at = "asked"
    <2>1. asking' = [at |-> "asked", profile |-> NotAsked.profile]
      BY <1>1 DEF NotAsked
    <2> QED BY <2>1, NotAskedTyped
  <1>5. t.timer => p.path = "dashboard"
    OBVIOUS
  <1> HIDE DEF t, leads
  <1>6. RestsAt(p, me, t, leads)
    BY <1>2, <1>3, RedirectRests DEF leads
  <1>7. /\ place' = p /\ me' = me /\ tour' = t /\ next' = leads
        /\ drawer' \in {"wide", "hidden", "open"} /\ Rests' /\ Guided'
    BY <1>1, <1>2, <1>3, <1>5, <1>6, RenderGuides
  <1> QED BY <1>1, <1>2, <1>3, <1>4, <1>7 DEF Steady, NavTyped, Owed

LEMMA ChooseModulesSteady ==
    ASSUME Steady, place # Nowhere, NEW list \in ModuleLists,
           NEW where \in {"onboarding", "settings"}, ChooseModules(list, where)
    PROVE  Steady' /\ place' # Nowhere
  <1>1. /\ org' = [org EXCEPT !.pending = FALSE, !.modules = MergeRequiredModules(list)]
        /\ choosing' = where /\ hops' = 0
        /\ UNCHANGED <<me, place, next, asking, tour, drawer, torn>>
    BY DEF ChooseModules, Acts
  <1>2. MergeRequiredModules(list) = list
    BY NavigationAssumption
  <1>3. org' \in Orgs /\ ~ org'.pending
    <2>1. org \in Orgs
      BY DEF Steady, NavTyped
    <2>2. org' = [role |-> org.role, pending |-> FALSE, modules |-> list]
      BY <1>1, <1>2, <2>1 DEF Orgs
    <2> QED BY <2>1, <2>2 DEF Orgs
  <1> QED BY <1>1, <1>3 DEF Steady, NavTyped, Rests, Guided, Owed

LEMMA ChosenSteady ==
    ASSUME Steady, place # Nowhere, Chosen
    PROVE  Steady' /\ place' # Nowhere
  <1> DEFINE m == ProfileOf(org)
             t == Clamp(tour, m)
             leads == IF choosing = "onboarding" THEN At("dashboard")
                      ELSE Redirect(place, m, t, next)
  <1>1. /\ choosing # "no" /\ choosing' = "no" /\ Render(place, m, t, leads) /\ Hops(next)
        /\ UNCHANGED <<org, asking>>
    BY DEF Chosen
  <1>2. m \in Profiles /\ ~ m.needs
    <2>1. org \in Orgs /\ ~ org.pending
      BY <1>1 DEF Steady, NavTyped, Owed
    <2> QED BY <2>1 DEF ProfileOf, Profiles
  <1>3. /\ me \in Profiles /\ tour \in Tours(me) /\ (tour.timer => place.path = "dashboard")
        /\ drawer \in {"wide", "hidden", "open"} /\ hops \in Nat
    BY DEF Steady, NavTyped, Guided
  <1>4. t \in Tours(m) /\ (t.timer => place.path = "dashboard")
    <2> HIDE DEF m
    <2> QED BY <1>2, <1>3, ClampFacts
  <1>5. At("dashboard") # Nowhere
    <2>1. At("dashboard").path # Nowhere.path
      BY DEF At, Nowhere
    <2> QED BY <2>1
  <1> HIDE DEF m, t
  <1>6. RestsAt(place, m, t, leads)
    BY <1>2, <1>4, <1>5, RedirectRests DEF RestsAt
  <1> HIDE DEF leads
  <1>7. /\ place' = place /\ me' = m /\ tour' = t /\ next' = leads
        /\ drawer' \in {"wide", "hidden", "open"} /\ Rests' /\ Guided'
    BY <1>1, <1>2, <1>3, <1>4, <1>6, RenderGuides
  <1>8. NavTyped'
    BY <1>1, <1>2, <1>3, <1>4, <1>7, CountsHops DEF Steady, NavTyped
  <1> QED BY <1>1, <1>2, <1>7, <1>8 DEF Steady, Owed

LEMMA OthersChangeSteady ==
    ASSUME Steady, place # Nowhere, NEW o \in Orgs, OthersChange(o)
    PROVE  Steady' /\ place' # Nowhere
  <1>1. /\ o.pending => org.pending
        /\ org' = o /\ hops' = 0
        /\ UNCHANGED <<me, place, next, asking, choosing, tour, drawer, torn>>
    BY DEF OthersChange, Acts
  <1> QED BY <1>1 DEF Steady, NavTyped, Rests, Guided, Owed

LEMMA NavSteady ==
    ASSUME Steady, place # Nowhere, NavNext
    PROVE  Steady' /\ place' # Nowhere
  <1>1. CASE ServeMe
    BY <1>1, ServeMeSteady DEF ServeMe
  <1>2. CASE Arrive \/ AnswerMe \/ TourOpens \/ Chosen
    BY <1>2, ArriveSteady, AnswerMeSteady, TourOpensSteady, ChosenSteady
  <1>3. CASE NextStep \/ PreviousStep \/ SkipTour \/ OutroLink \/ RestartTour
    BY <1>3, ButtonsSteady
  <1>4. ASSUME NEW p \in Goals, Go(p) \/ Load(p) PROVE Steady' /\ place' # Nowhere
    BY <1>4, GoSteady, LoadSteady
  <1>5. ASSUME NEW list \in ModuleLists, NEW where \in {"onboarding", "settings"},
               ChooseModules(list, where)
        PROVE  Steady' /\ place' # Nowhere
    BY <1>5, ChooseModulesSteady
  <1>6. ASSUME NEW o \in Orgs, OthersChange(o) PROVE Steady' /\ place' # Nowhere
    BY <1>6, OthersChangeSteady
  <1> QED BY <1>1, <1>2, <1>3, <1>4, <1>5, <1>6 DEF NavNext

LEMMA NavStarts ==
    ASSUME NavInit
    PROVE  Steady /\ place # Nowhere
  <1>1. /\ org \in Orgs /\ me = ProfileOf(org) /\ drawer \in {"wide", "hidden"}
        /\ choosing = "no" /\ hops = 0 /\ next = Nowhere
    BY DEF NavInit
  <1>2. me \in Profiles
    BY <1>1 DEF Profiles
  <1>3. Len(TourSteps(me)) \in Nat \ {0}
    BY <1>2, TourStepsAreGood
  <1>4. CASE /\ place = At(IF me.needs THEN "onboarding" ELSE "dashboard")
             /\ asking = [NotAsked EXCEPT !.at = "asked"]
             /\ \E done \in BOOLEAN :
                   tour = [open |-> FALSE, step |-> 1, done |-> done,
                           timer |-> place.path = "dashboard" /\ ~ done]
    <2>1. PICK done \in BOOLEAN :
               tour = [open |-> FALSE, step |-> 1, done |-> done,
                       timer |-> place.path = "dashboard" /\ ~ done]
      BY <1>4
    <2>2. /\ place.path = IF me.needs THEN "onboarding" ELSE "dashboard"
          /\ place.path # Nowhere.path
      BY <1>4 DEF At, Nowhere
    <2>3. asking = [at |-> "asked", profile |-> NotAsked.profile]
      BY <1>4 DEF NotAsked
    <2>4. asking.at = "asked" /\ asking \in [at : {"none", "asked", "served"}, profile : Profiles]
      BY <2>3, NotAskedTyped
    <2>5. tour \in Tours(me) /\ ~ tour.open /\ (tour.timer => place.path = "dashboard")
      <3>1. 1 \in 1 .. Len(TourSteps(me)) /\ (place.path = "dashboard" /\ ~ done) \in BOOLEAN
        BY <1>3
      <3> QED BY <2>1, <3>1 DEF Tours
    <2>6. IsPathAllowed(place.path, me.modules)
      BY <1>2, <2>2, ProfileFacts
    <2> QED BY <1>1, <1>2, <2>2, <2>4, <2>5, <2>6
            DEF Steady, NavTyped, Rests, RestsAt, Guided, Owed
  <1>5. CASE /\ ~ me.needs
             /\ \E i \in 1 .. LastStep :
                   /\ place = TourSteps(me)[i].place
                   /\ TourSteps(me)[i].nav = "" \/ drawer = "wide"
                   /\ tour = [open |-> TRUE, step |-> i, done |-> FALSE, timer |-> FALSE]
             /\ asking = NotAsked
    <2>1. PICK i \in 1 .. Len(TourSteps(me)) :
                   /\ place = TourSteps(me)[i].place
                   /\ TourSteps(me)[i].nav = "" \/ drawer = "wide"
                   /\ tour = [open |-> TRUE, step |-> i, done |-> FALSE, timer |-> FALSE]
      BY <1>5 DEF LastStep
    <2>2. tour \in Tours(me) /\ tour.open /\ ~ tour.timer /\ tour.step = i
      BY <2>1 DEF Tours
    <2>3. place = StepOf(me, tour).place /\ (StepOf(me, tour).nav = "" \/ drawer = "wide")
      BY <2>1, <2>2 DEF StepOf
    <2>4. /\ GoodStep(StepOf(me, tour), me) /\ place # Nowhere
          /\ StepMatchesLocation(place, StepOf(me, tour))
      BY <1>2, <2>2, <2>3, StepFacts DEF StepOf
    <2>5. IsPathAllowed(place.path, me.modules) /\ place.path # "onboarding"
      BY <2>3, <2>4 DEF GoodStep
    <2>6. asking \in [at : {"none", "asked", "served"}, profile : Profiles]
      <3>1. asking = [at |-> "none", profile |-> NotAsked.profile]
        BY <1>5, NotAskedTyped
      <3> QED BY <3>1, NotAskedTyped
    <2> QED BY <1>1, <1>2, <1>5, <2>2, <2>3, <2>4, <2>5, <2>6
            DEF Steady, NavTyped, Rests, RestsAt, Guided, Owed
  <1> QED BY <1>1, <1>4, <1>5 DEF NavInit

-----------------------------------------------------------------------------
(* The redirects.  What is left to come, apart from a change of the profile or *)
(* the opening of the tour, is at most two redirects; each of those, of which  *)
(* there are at most four, adds two.                                           *)
Here == StepMatchesLocation(place, StepOf(me, tour))
Calm ==
    /\ ~ Bad(place, me)
    /\ \/ next = Nowhere /\ (me.needs => place.path = "onboarding")
       \/ tour.open /\ ~ Here /\ next = StepOf(me, tour).place
       \/ me.needs /\ next = At("onboarding")
Left == IF Calm THEN 0 ELSE IF next \in {At("dashboard"), Nowhere} THEN 1 ELSE 2
\* How often the profile may change yet by what the server has answered or will.
Stale ==
    IF asking.at = "served" /\ asking.profile # ProfileOf(org) THEN 2
    ELSE IF me # ProfileOf(org) THEN 1 ELSE 0
Unread == IF choosing = "no" THEN 0 ELSE 1
Closed == IF tour.open THEN 0 ELSE 1
Redirects == 10
Due == 2 * (Stale + Unread + Closed) + Left
Budget == torn \/ hops + Due <= Redirects

LEMMA Bounds ==
    /\ Stale \in 0 .. 2 /\ Unread \in 0 .. 1 /\ Closed \in 0 .. 1 /\ Left \in 0 .. 2
    /\ Stale' \in 0 .. 2 /\ Unread' \in 0 .. 1 /\ Closed' \in 0 .. 1 /\ Left' \in 0 .. 2
BY DEF Stale, Unread, Closed, Left

LEMMA DueTyped == Due \in 0 .. 10
  <1>1. PICK i \in 0 .. 2 : i = Stale
    BY Bounds
  <1>2. PICK j \in 0 .. 1 : j = Unread
    BY Bounds
  <1>3. PICK k \in 0 .. 1 : k = Closed
    BY Bounds
  <1>4. PICK l \in 0 .. 2 : l = Left
    BY Bounds
  <1>5. 2 * (i + j + k) + l \in 0 .. 10
    OBVIOUS
  <1> QED BY <1>1, <1>2, <1>3, <1>4, <1>5 DEF Due

LEMMA DueNextTyped == Due' \in 0 .. 10
  <1>1. PICK i \in 0 .. 2 : i = Stale'
    BY Bounds
  <1>2. PICK j \in 0 .. 1 : j = Unread'
    BY Bounds
  <1>3. PICK k \in 0 .. 1 : k = Closed'
    BY Bounds
  <1>4. PICK l \in 0 .. 2 : l = Left'
    BY Bounds
  <1>5. 2 * (i + j + k) + l \in 0 .. 10
    OBVIOUS
  <1> QED BY <1>1, <1>2, <1>3, <1>4, <1>5 DEF Due

\* What a person does starts the count anew.
LEMMA ActsBudget ==
    ASSUME hops' = 0
    PROVE  Budget'
  <1>1. PICK d \in 0 .. 10 : d = Due'
    BY DueNextTyped
  <1>2. hops' + d <= 10
    OBVIOUS
  <1> QED BY <1>1, <1>2 DEF Budget, Redirects

LEMMA Spends ==
    ASSUME Budget, hops \in Nat, torn => torn',
           ~ torn' => \E h \in 0 .. 1 : hops' = hops + h /\ h + Due' <= Due
    PROVE  Budget'
  <1>1. CASE torn'
    BY <1>1 DEF Budget
  <1>2. CASE ~ torn'
    <2>1. PICK h \in 0 .. 1 : hops' = hops + h /\ h + Due' <= Due
      BY <1>2
    <2>2. hops + Due <= Redirects
      BY <1>2 DEF Budget
    <2>3. PICK d \in 0 .. 10 : d = Due
      BY DueTyped
    <2>4. PICK e \in 0 .. 10 : e = Due'
      BY DueNextTyped
    <2>5. hops' = hops + h /\ h + e <= d /\ hops + d <= Redirects
      BY <2>1, <2>2, <2>3, <2>4
    <2>6. hops' + e <= Redirects
      BY <2>5 DEF Redirects
    <2> QED BY <2>4, <2>6 DEF Budget
  <1> QED BY <1>1, <1>2

LEMMA HopCount ==
    ASSUME NEW pending, hops \in Nat, Hops(pending)
    PROVE  \E h \in 0 .. 1 : hops' = hops + h /\ (h = 1 => next' # pending /\ next' # Nowhere)
BY DEF Hops

\* Where the effects lead after a rendering, and what is left to come then.
LEMMA AfterRedirect ==
    ASSUME NEW m, NEW t, NEW p, NEW pending, place' = p, me' = m, tour' = t,
           next' = Redirect(p, m, t, pending)
    PROVE  /\ Bad(p, m) => next' = At("dashboard") /\ Left' <= 1
           /\ ~ Bad(p, m) /\ t.open /\ ~ StepMatchesLocation(p, StepOf(m, t)) =>
                  next' = StepOf(m, t).place /\ Left' = 0
           /\ ~ Bad(p, m) /\ ~ (t.open /\ ~ StepMatchesLocation(p, StepOf(m, t))) =>
                  next' = pending
  <1>1. CASE Bad(p, m)
    BY <1>1, RedirectLeads DEF Left
  <1>2. CASE ~ Bad(p, m) /\ t.open /\ ~ StepMatchesLocation(p, StepOf(m, t))
    <2>1. next' = StepOf(m, t).place
      BY <1>2, RedirectLeads, TourLeads
    <2>2. Calm'
      BY <1>2, <2>1 DEF Calm, Here
    <2> QED BY <1>2, <2>1, <2>2 DEF Left
  <1>3. CASE ~ Bad(p, m) /\ ~ (t.open /\ ~ StepMatchesLocation(p, StepOf(m, t)))
    BY <1>3, RedirectLeads, TourLeads
  <1> QED BY <1>1, <1>2, <1>3

\* Nothing is left only where nothing is under way, or what leads to the rest.
LEMMA CalmLeads ==
    ASSUME Steady, ~ torn, Calm, next # Nowhere
    PROVE  /\ ~ Bad(next, me)
           /\ tour.open => next = StepOf(me, tour).place
           /\ ~ tour.open => me.needs /\ next = At("onboarding")
  <1>1. me \in Profiles /\ tour \in Tours(me) /\ (tour.open => ~ me.needs)
    BY DEF Steady, NavTyped, Guided
  <1>2. CASE tour.open
    <2>1. next = StepOf(me, tour).place
      BY <1>1, <1>2 DEF Calm
    <2>2. GoodStep(StepOf(me, tour), me)
      BY <1>1, StepFacts DEF StepOf
    <2> QED BY <1>2, <2>1, <2>2 DEF Bad, GoodStep
  <1>3. CASE ~ tour.open
    <2>1. me.needs /\ next = At("onboarding")
      BY <1>3 DEF Calm
    <2>2. IsPathAllowed(next.path, me.modules)
      BY <1>1, <2>1, ProfileFacts DEF At
    <2> QED BY <1>3, <2>1, <2>2 DEF Bad
  <1> QED BY <1>2, <1>3

LEMMA DueFalls ==
    ASSUME NEW h \in 0 .. 1, Stale' <= Stale, Unread' <= Unread, Closed' <= Closed,
           \/ h + Left' <= Left
           \/ h + Left' <= 2 /\ (Stale' < Stale \/ Unread' < Unread \/ Closed' < Closed)
    PROVE  h + Due' <= Due
  <1>1. PICK i \in 0 .. 2, j \in 0 .. 1, k \in 0 .. 1, l \in 0 .. 2 :
            i = Stale /\ j = Unread /\ k = Closed /\ l = Left
    BY Bounds
  <1>2. PICK ii \in 0 .. 2, jj \in 0 .. 1, kk \in 0 .. 1, ll \in 0 .. 2 :
            ii = Stale' /\ jj = Unread' /\ kk = Closed' /\ ll = Left'
    BY Bounds
  <1>3. /\ ii <= i /\ jj <= j /\ kk <= k
        /\ h + ll <= l \/ (h + ll <= 2 /\ (ii < i \/ jj < j \/ kk < k))
    BY <1>1, <1>2
  <1>4. h + (2 * (ii + jj + kk) + ll) <= 2 * (i + j + k) + l
    BY <1>3
  <1> QED BY <1>1, <1>2, <1>4 DEF Due

LEMMA LeftOnly ==
    ASSUME NEW h \in 0 .. 1
    PROVE  /\ Left' <= 1 => h + Left' <= 2
           /\ Left' = 0 => h + Left' <= 1
           /\ h = 0 => h + Left' <= 2
           /\ h = 0 /\ Left' <= Left => h + Left' <= Left
           /\ Left' = 0 /\ (Left = 0 => h = 0) => h + Left' <= Left
           /\ Left' <= 1 /\ (Left = 2 \/ (Left = 1 /\ h = 0)) => h + Left' <= Left
           /\ Left' = Left => Left' <= Left
           /\ Stale <= Stale /\ Unread <= Unread /\ Closed <= Closed
  <1>1. PICK i \in 0 .. 2, j \in 0 .. 1, k \in 0 .. 1, l \in 0 .. 2 :
            i = Stale /\ j = Unread /\ k = Closed /\ l = Left
    BY Bounds
  <1>2. PICK ll \in 0 .. 2 : ll = Left'
    BY Bounds
  <1>3. /\ ll <= 1 => h + ll <= 2
        /\ ll = 0 => h + ll <= 1
        /\ h = 0 => h + ll <= 2
        /\ h = 0 /\ ll <= l => h + ll <= l
        /\ ll = 0 /\ (l = 0 => h = 0) => h + ll <= l
        /\ ll <= 1 /\ (l = 2 \/ (l = 1 /\ h = 0)) => h + ll <= l
        /\ ll = l => ll <= l
    OBVIOUS
  <1>4. i <= i /\ j <= j /\ k <= k
    OBVIOUS
  <1> QED BY <1>1, <1>2, <1>3, <1>4

LEMMA BoundsLess ==
    (Stale' < Stale => Stale' <= Stale) /\ (Unread' < Unread => Unread' <= Unread)
        /\ (Closed' < Closed => Closed' <= Closed)
  <1>1. PICK i \in 0 .. 2, j \in 0 .. 1, k \in 0 .. 1 :
            i = Stale /\ j = Unread /\ k = Closed
    BY Bounds
  <1>2. PICK ii \in 0 .. 2, jj \in 0 .. 1, kk \in 0 .. 1 :
            ii = Stale' /\ jj = Unread' /\ kk = Closed'
    BY Bounds
  <1> QED BY <1>1, <1>2

LEMMA LeftZero ==
    ASSUME NEW h \in 0 .. 1, Left' = 0
    PROVE  h + Left' <= 2
  <1>1. h + 0 <= 2
    OBVIOUS
  <1> QED BY <1>1

LEMMA DashboardIsGood ==
    ASSUME NEW m \in Profiles, NEW p, p.path = "dashboard" \/ p = At("dashboard")
    PROVE  ~ Bad(p, m)
  <1>1. At("dashboard").path = "dashboard"
    BY DEF At
  <1>2. p.path = "dashboard"
    BY <1>1
  <1> QED BY <1>2, ProfileFacts DEF Bad

LEMMA ArriveBudget ==
    ASSUME Steady, Budget, Arrive
    PROVE  Budget'
  <1> DEFINE turned == next.path # place.path
             t == IF turned THEN [tour EXCEPT !.timer = next.path = "dashboard" /\ ~ tour.done]
                  ELSE tour
  <1>1. /\ next # Nowhere /\ place' = next /\ me' = me /\ tour' = t
        /\ next' = Redirect(next, me, t, Nowhere) /\ Hops(Nowhere)
        /\ asking' = IF turned THEN [NotAsked EXCEPT !.at = "asked"] ELSE asking
        /\ UNCHANGED <<org, choosing>> /\ (torn => torn') /\ hops \in Nat
        /\ me \in Profiles
    BY DEF Arrive, Render, Steady, NavTyped
  <1>2. t.open = tour.open /\ StepOf(me, t) = StepOf(me, tour)
    BY DEF Steady, NavTyped, Tours, StepOf
  <1>3. Stale' <= Stale /\ Unread' = Unread /\ Closed' = Closed
    <2>1. turned => asking'.at = "asked"
      BY <1>1 DEF NotAsked
    <2>2. ~ turned => asking' = asking
      BY <1>1
    <2>3. Stale' <= Stale
      BY <1>1, <2>1, <2>2 DEF Stale, ProfileOf
    <2> QED BY <1>1, <1>2, <2>3 DEF Unread, Closed
  <1> HIDE DEF t
  <1>4. PICK h \in 0 .. 1 : hops' = hops + h /\ (h = 1 => next' # Nowhere)
    BY <1>1, HopCount
  <1>5. ASSUME ~ torn' PROVE h + Left' <= Left
    <2>1. ~ torn /\ (Calm => ~ Bad(next, me))
      BY <1>1, <1>5, CalmLeads
    <2>2. CASE Bad(next, me)
      <3>1. Left' <= 1
        BY <1>1, <2>2, AfterRedirect
      <3>2. next # At("dashboard")
        BY <1>1, <2>2, DashboardIsGood
      <3>3. Left = 2
        BY <1>1, <2>1, <2>2, <3>2 DEF Left
      <3> QED BY <3>1, <3>3, LeftOnly
    <2>3. CASE ~ Bad(next, me) /\ t.open /\ ~ StepMatchesLocation(next, StepOf(me, t))
      <3>1. Left' = 0
        BY <1>1, <2>3, AfterRedirect
      <3>2. ~ Calm
        <4>1. StepMatchesLocation(StepOf(me, tour).place, StepOf(me, tour))
          BY StepFacts DEF StepOf, Steady, NavTyped
        <4> QED BY <1>1, <1>2, <2>1, <2>3, <4>1, CalmLeads
      <3> QED BY <3>1, <3>2 DEF Left
    <2>4. CASE ~ Bad(next, me) /\ ~ (t.open /\ ~ StepMatchesLocation(next, StepOf(me, t)))
      <3>1. next' = Nowhere
        BY <1>1, <2>4, AfterRedirect
      <3>2. h = 0
        BY <1>4, <3>1
      <3>3. Calm => Calm'
        <4> SUFFICES ASSUME Calm PROVE Calm'
          OBVIOUS
        <4>1. me.needs => next = At("onboarding")
          BY <1>1, <2>1, CalmLeads DEF Steady, Guided
        <4>0. At("onboarding").path = "onboarding"
          BY DEF At
        <4>2. me.needs => place'.path = "onboarding"
          BY <1>1, <4>0, <4>1
        <4>3. ~ Bad(place', me')
          BY <1>1, <2>4
        <4> QED BY <1>1, <3>1, <4>2, <4>3 DEF Calm
      <3>4. Left' <= 1
        BY <3>1 DEF Left
      <3>5. Left' <= Left
        BY <3>3, <3>4 DEF Left
      <3> QED BY <3>2, <3>5, LeftOnly
    <2> QED BY <2>2, <2>3, <2>4
  <1>6. ~ torn' => h + Due' <= Due
    BY <1>3, <1>5, LeftOnly, DueFalls
  <1> QED BY <1>1, <1>4, <1>6, Spends

LEMMA ServeMeBudget ==
    ASSUME Steady, Budget, ServeMe
    PROVE  Budget'
  <1>1. /\ asking.at = "asked" /\ asking'.profile = ProfileOf(org)
        /\ UNCHANGED <<org, me, place, next, choosing, tour, hops, torn>>
    BY DEF ServeMe
  <1>2. Stale' = Stale
    BY <1>1 DEF Stale, ProfileOf
  <1>3. Unread' = Unread /\ Closed' = Closed /\ Left' = Left
    BY <1>1 DEF Unread, Closed, Left, Calm, Here, Bad
  <1> QED BY <1>1, <1>2, <1>3 DEF Budget, Due

\* A rendering of another profile: it redirects at once, or leads where it led.
LEMMA ProfileBudget ==
    ASSUME NEW m, NEW t, NEW pending, place' = place, me' = m, tour' = t,
           next' = Redirect(place, m, t, pending), t.open => ~ m.needs,
           pending = next \/ (m.needs /\ pending = At("onboarding"))
    PROVE  next' = next \/ Left' <= 1
  <1>1. CASE Bad(place, m) \/ (t.open /\ ~ StepMatchesLocation(place, StepOf(m, t)))
    BY <1>1, AfterRedirect
  <1>2. CASE ~ Bad(place, m) /\ ~ (t.open /\ ~ StepMatchesLocation(place, StepOf(m, t)))
    <2>1. next' = pending
      BY <1>2, AfterRedirect
    <2>2. CASE m.needs /\ pending = At("onboarding")
      <3>1. Calm'
        BY <1>2, <2>1, <2>2 DEF Calm
      <3> QED BY <3>1 DEF Left
    <2> QED BY <2>1, <2>2
  <1> QED BY <1>1, <1>2

LEMMA AnswerMeBudget ==
    ASSUME Steady, Budget, place # Nowhere, AnswerMe
    PROVE  Budget'
  <1> DEFINE m == asking.profile
             t == Clamp(tour, m)
             pending == IF m.needs /\ place.path # "onboarding" THEN At("onboarding") ELSE next
  <1>1. /\ asking.at = "served" /\ asking' = NotAsked /\ place' = place /\ me' = m /\ tour' = t
        /\ next' = Redirect(place, m, t, pending) /\ Hops(next)
        /\ UNCHANGED <<org, choosing>> /\ (torn => torn') /\ (t.open /\ m.needs => torn')
    BY DEF AnswerMe, Render
  <1>2. m \in Profiles /\ me \in Profiles /\ tour \in Tours(me) /\ hops \in Nat
    BY DEF Steady, NavTyped
  <1>3. t.open = tour.open /\ (m = me => t = tour)
    <2> HIDE DEF m
    <2> QED BY <1>2, ClampFacts
  <1>4. Unread' = Unread /\ Closed' = Closed
    BY <1>1, <1>3 DEF Unread, Closed
  <1>5. PICK h \in 0 .. 1 : hops' = hops + h /\ (h = 1 => next' # next)
    BY <1>1, <1>2, HopCount
  <1>6. asking'.at = "none" /\ ProfileOf(org)' = ProfileOf(org)
    BY <1>1 DEF NotAsked, ProfileOf
  <1>7. pending = next \/ (m.needs /\ pending = At("onboarding") /\ place.path # "onboarding")
    OBVIOUS
  <1>8. Stale' < Stale \/ (Stale' = Stale /\ m = me)
    <2> HIDE DEF t
    <2> QED BY <1>1, <1>6 DEF Stale
  <1> HIDE DEF m, t, pending
  <1>9. CASE torn'
    BY <1>9 DEF Budget
  <1>10. CASE ~ torn' /\ Stale' < Stale
    <2>1. next' = next \/ Left' <= 1
      BY <1>1, <1>7, <1>10, ProfileBudget
    <2>2. h + Left' <= 2
      BY <1>5, <2>1, LeftOnly
    <2>3. Stale' <= Stale
      BY <1>10, BoundsLess
    <2>4. h + Due' <= Due
      BY <1>4, <1>10, <2>2, <2>3, LeftOnly, DueFalls
    <2> QED BY <1>1, <1>2, <1>5, <2>4, Spends
  <1>11. CASE ~ torn' /\ Stale' = Stale /\ m = me
    <2>1. t = tour /\ ~ torn /\ (tour.open => ~ me.needs)
      BY <1>1, <1>3, <1>11
    <2>2. h + Left' <= Left
      <3>1. CASE Bad(place, me)
        <4>1. next' = At("dashboard") /\ Left' <= 1
          BY <1>1, <1>11, <2>1, <3>1, AfterRedirect
        <4>2. next # Nowhere /\ ~ Calm
          BY <3>1 DEF Steady, Rests, RestsAt, Bad, Calm
        <4>3. next = At("dashboard") => Left = 1 /\ h = 0
          BY <1>5, <4>1, <4>2 DEF Left
        <4>4. next # At("dashboard") => Left = 2
          BY <4>2 DEF Left
        <4> QED BY <4>1, <4>3, <4>4, LeftOnly
      <3>2. CASE ~ Bad(place, me) /\ tour.open /\ ~ Here
        <4>1. next' = StepOf(me, tour).place /\ Left' = 0
          BY <1>1, <1>11, <2>1, <3>2, AfterRedirect DEF Here
        <4>2. Calm => next = StepOf(me, tour).place
          <5>1. next # Nowhere
            BY <3>2 DEF Steady, Rests, RestsAt, Here
          <5> QED BY <2>1, <3>2, <5>1 DEF Calm
        <4>3. Left = 0 => h = 0
          BY <1>5, <4>1, <4>2 DEF Left
        <4> QED BY <4>1, <4>3, LeftOnly
      <3>3. CASE ~ Bad(place, me) /\ ~ (tour.open /\ ~ Here)
        <4>1. next' = pending
          BY <1>1, <1>11, <2>1, <3>3, AfterRedirect DEF Here
        <4>2. CASE pending = next
          <5>1. h = 0 /\ UNCHANGED <<place, me, tour, next>>
            BY <1>1, <1>5, <1>11, <2>1, <4>1, <4>2
          <5>2. Left' = Left
            BY <5>1 DEF Left, Calm, Here, Bad
          <5> QED BY <5>1, <5>2, LeftOnly
        <4>3. CASE pending # next
          <5>1. me.needs /\ pending = At("onboarding") /\ place.path # "onboarding"
            BY <1>7, <1>11, <4>3
          <5>2. ~ Calm
            BY <2>1, <4>3, <5>1 DEF Calm
          <5>3. Calm'
            BY <1>1, <1>11, <3>3, <4>1, <5>1 DEF Calm
          <5> QED BY <5>2, <5>3, LeftOnly DEF Left
        <4> QED BY <4>2, <4>3
      <3> QED BY <3>1, <3>2, <3>3
    <2>3. h + Due' <= Due
      BY <1>4, <1>11, <2>2, LeftOnly, DueFalls
    <2> QED BY <1>1, <1>2, <1>5, <2>3, Spends
  <1> QED BY <1>8, <1>9, <1>10, <1>11

LEMMA TourOpensBudget ==
    ASSUME Steady, Budget, place # Nowhere, TourOpens
    PROVE  Budget'
  <1> DEFINE t == [tour EXCEPT !.open = TRUE, !.timer = FALSE]
  <1>1. /\ tour.timer /\ place' = place /\ me' = me /\ tour' = t
        /\ next' = TourPushes(place, me, t, next) /\ Hops(next)
        /\ UNCHANGED <<org, asking, choosing>> /\ (torn => torn') /\ (t.open /\ me.needs => torn')
    BY DEF TourOpens, Render
  <1>2. t.open /\ t.step = tour.step
    BY DEF Steady, NavTyped, Tours
  <1>3. /\ me \in Profiles /\ tour \in Tours(me) /\ hops \in Nat /\ place.path = "dashboard"
    BY <1>1 DEF Steady, NavTyped, Guided
  <1> HIDE DEF t
  <1>4. StepOf(me, t) = StepOf(me, tour) /\ ~ Bad(place, me)
    BY <1>2, <1>3, DashboardIsGood DEF StepOf
  <1>5. PICK h \in 0 .. 1 : hops' = hops + h /\ (h = 1 => next' # next)
    BY <1>1, <1>3, HopCount
  <1>6. Stale' = Stale /\ Unread' = Unread /\ (tour.open => Closed' = Closed)
        /\ (~ tour.open => Closed' < Closed)
    BY <1>1, <1>2 DEF Stale, Unread, Closed, ProfileOf
  <1>7. ~ torn' => ~ torn /\ ~ me.needs
    BY <1>1, <1>2
  <1>8. CASE ~ Here /\ ~ torn'
    <2>1. next' = StepOf(me, tour).place
      BY <1>1, <1>2, <1>4, <1>8, TourLeads DEF Here
    <2>2. Calm'
      BY <1>1, <1>2, <1>4, <1>8, <2>1 DEF Calm, Here
    <2>3. Left' = 0
      BY <2>2 DEF Left
    <2>4. CASE tour.open
      <3>1. Calm => next = StepOf(me, tour).place
        <4>1. next # Nowhere
          BY <1>8, <2>4 DEF Steady, Rests, RestsAt, Here
        <4> QED BY <1>7, <1>8, <4>1 DEF Calm
      <3>2. Left = 0 => h = 0
        BY <1>5, <2>1, <3>1 DEF Left
      <3>3. h + Left' <= Left
        BY <2>3, <3>2, LeftOnly
      <3>4. h + Due' <= Due
        BY <1>6, <2>4, <3>3, LeftOnly, DueFalls
      <3> QED BY <1>1, <1>3, <1>5, <3>4, Spends
    <2>5. CASE ~ tour.open
      <3>1. h + Left' <= 2
        BY <2>3, LeftOnly, LeftZero
      <3>2. h + Due' <= Due
        BY <1>6, <2>5, <3>1, LeftOnly, BoundsLess, DueFalls
      <3> QED BY <1>1, <1>3, <1>5, <3>2, Spends
    <2> QED BY <2>4, <2>5
  <1>9. CASE Here /\ ~ torn'
    <2>1. next' = next
      BY <1>1, <1>4, <1>9, TourLeads DEF Here
    <2>2. h = 0
      BY <1>5, <2>1
    <2>3. CASE tour.open
      <3>1. Calm' <=> Calm
        BY <1>1, <1>2, <1>4, <1>9, <2>1, <2>3 DEF Calm, Here, Bad
      <3>2. Left' = Left
        BY <2>1, <3>1 DEF Left
      <3>3. h + Due' <= Due
        BY <1>6, <2>2, <2>3, <3>2, LeftOnly, DueFalls
      <3> QED BY <1>1, <1>3, <1>5, <3>3, Spends
    <2>4. CASE ~ tour.open
      <3>1. h + Left' <= 2
        BY <2>2, LeftOnly
      <3>2. h + Due' <= Due
        BY <1>6, <2>4, <3>1, LeftOnly, BoundsLess, DueFalls
      <3> QED BY <1>1, <1>3, <1>5, <3>2, Spends
    <2> QED BY <2>3, <2>4
  <1>10. CASE torn'
    BY <1>10 DEF Budget
  <1> QED BY <1>8, <1>9, <1>10

LEMMA ChosenBudget ==
    ASSUME Steady, Budget, place # Nowhere, Chosen
    PROVE  Budget'
  <1> DEFINE m == ProfileOf(org)
             t == Clamp(tour, m)
  <1>1. /\ choosing # "no" /\ choosing' = "no" /\ place' = place /\ me' = m /\ tour' = t
        /\ next' = IF choosing = "onboarding" THEN At("dashboard")
                   ELSE Redirect(place, m, t, next)
        /\ Hops(next) /\ UNCHANGED <<org, asking>> /\ (torn => torn')
        /\ (t.open /\ m.needs => torn')
    BY DEF Chosen, Render
  <1>2. m \in Profiles /\ me \in Profiles /\ tour \in Tours(me) /\ hops \in Nat
    BY DEF Steady, NavTyped, Profiles
  <1>3. t.open = tour.open
    <2> HIDE DEF m
    <2> QED BY <1>2, ClampFacts
  <1>4. Stale' <= Stale
    <2>1. ProfileOf(org)' = m
      BY <1>1 DEF ProfileOf
    <2>2. me' = m
      BY <1>1
    <2> HIDE DEF t
    <2>3. asking.at = "served" /\ asking.profile # m => Stale = 2 /\ Stale' = 2
      BY <1>1, <2>1 DEF Stale
    <2>4. ~ (asking.at = "served" /\ asking.profile # m) => Stale' = 0
      BY <1>1, <2>1, <2>2 DEF Stale
    <2>5. \A i \in 0 .. 2 : 0 <= i /\ i <= i
      OBVIOUS
    <2> QED BY <2>3, <2>4, <2>5, Bounds
  <1>5. Unread' < Unread /\ Closed' = Closed
    BY <1>1, <1>3 DEF Unread, Closed
  <1>6. PICK h \in 0 .. 1 : hops' = hops + h /\ (h = 1 => next' # next)
    BY <1>1, <1>2, HopCount
  <1> HIDE DEF m, t
  <1>7. ASSUME ~ torn' PROVE next' = next \/ Left' <= 1
    <2>1. CASE choosing = "onboarding"
      BY <1>1, <2>1 DEF Left
    <2>2. CASE choosing # "onboarding"
      BY <1>1, <1>7, <2>2, ProfileBudget
    <2> QED BY <2>1, <2>2
  <1>8. CASE ~ torn'
    <2>1. h + Left' <= 2
      BY <1>6, <1>7, <1>8, LeftOnly
    <2>2. h + Due' <= Due
      BY <1>4, <1>5, <2>1, LeftOnly, BoundsLess, DueFalls
    <2> QED BY <1>1, <1>2, <1>6, <2>2, Spends
  <1>9. CASE torn'
    BY <1>9 DEF Budget
  <1> QED BY <1>8, <1>9

LEMMA NavBudget ==
    ASSUME Steady, Budget, place # Nowhere, NavNext
    PROVE  Budget'
  <1>1. CASE Arrive \/ ServeMe \/ AnswerMe \/ TourOpens \/ Chosen
    BY <1>1, ArriveBudget, ServeMeBudget, AnswerMeBudget, TourOpensBudget, ChosenBudget
  <1>2. CASE NextStep \/ PreviousStep \/ SkipTour \/ OutroLink \/ RestartTour
    BY <1>2, ActsBudget DEF NextStep, PreviousStep, SkipTour, OutroLink, RestartTour, TourGoes,
                            Acts
  <1>3. ASSUME NEW p \in Goals, Go(p) \/ Load(p) PROVE Budget'
    BY <1>3, ActsBudget DEF Go, Load, Acts
  <1>4. ASSUME NEW list \in ModuleLists, NEW where \in {"onboarding", "settings"},
               ChooseModules(list, where)
        PROVE  Budget'
    BY <1>4, ActsBudget DEF ChooseModules, Acts
  <1>5. ASSUME NEW o \in Orgs, OthersChange(o) PROVE Budget'
    BY <1>5, ActsBudget DEF OthersChange, Acts
  <1> QED BY <1>1, <1>2, <1>3, <1>4, <1>5 DEF NavNext

-----------------------------------------------------------------------------
(* The theorems of the whole.                                                  *)
Whole == <<vars, navVars>>
NavInv ==
    /\ place # Nowhere => Steady /\ Budget
    /\ place = Nowhere => hops = 0

\* Where the other half is not followed its settings are those of an older
\* organization.
LEMMA AppStarts ==
    ASSUME AppInit
    PROVE  Inductive /\ NavInv
  <1>1. SettingsOff => Init
    <2> SUFFICES ASSUME SettingsOff PROVE Init
      OBVIOUS
    <2>1. NoRow = [look |-> [f \in Fields |-> Default], onboarding |-> "unset", pack |-> NoPack,
                   modules |-> NoModules]
      BY DEF NoRow
    <2>2. row \in {[look |-> [f \in Fields |-> Default], onboarding |-> onboarding,
                    pack |-> NoPack, modules |-> NoModules] : onboarding \in {"false", "unset"}}
      BY <2>1 DEF SettingsOff
    <2> QED BY <2>2 DEF SettingsOff, Init
  <1>2. NavInit => NavInv
    <2> SUFFICES ASSUME NavInit PROVE Steady /\ Budget
      BY NavStarts DEF NavInv
    <2>1. Steady /\ hops = 0
      BY NavStarts DEF NavInit
    <2>2. PICK d \in 0 .. 10 : d = Due
      BY DueTyped
    <2>3. hops + d <= 10
      BY <2>1
    <2> QED BY <2>1, <2>2, <2>3 DEF Budget, Redirects
  <1>3. NavOff => NavInv
    BY DEF NavOff, NavInv
  <1> QED BY <1>1, <1>2, <1>3, InitInductive DEF AppInit

LEMMA NavInvKept ==
    ASSUME NavInv, UNCHANGED navVars
    PROVE  NavInv'
  <1>1. UNCHANGED <<org, me, place, next, asking, choosing, tour, drawer, acts, hops, torn>>
    BY DEF navVars
  <1>2. Steady' <=> Steady
    BY <1>1 DEF Steady, NavTyped, Rests, Guided, Owed
  <1>3. Stale' = Stale /\ Unread' = Unread /\ Closed' = Closed
    BY <1>1 DEF Stale, Unread, Closed, ProfileOf
  <1>4. Left' = Left
    BY <1>1 DEF Left, Calm, Here, Bad
  <1>5. Budget' <=> Budget
    BY <1>1, <1>3, <1>4 DEF Budget, Due
  <1> QED BY <1>1, <1>2, <1>5 DEF NavInv

LEMMA AppKeeps ==
    ASSUME Inductive, NavInv, [AppNext]_Whole
    PROVE  Inductive' /\ NavInv'
  <1>1. CASE place = Nowhere /\ Next /\ UNCHANGED navVars
    BY <1>1, NextInductive, NavInvKept
  <1>2. CASE NavNext /\ UNCHANGED vars
    <2>1. place # Nowhere
      BY <1>2 DEF NavNext
    <2>2. Steady' /\ Budget' /\ place' # Nowhere
      BY <1>2, <2>1, NavSteady, NavBudget DEF NavInv
    <2> QED BY <1>2, <2>2, NextInductive DEF NavInv
  <1>3. CASE UNCHANGED Whole
    <2>1. UNCHANGED vars /\ UNCHANGED navVars
      BY <1>3 DEF Whole
    <2> QED BY <2>1, NextInductive, NavInvKept
  <1> QED BY <1>1, <1>2, <1>3 DEF AppNext

\* The two inductive invariants, of the settings and of the navigation, hold of the
\* composition.
THEOREM AppInvariant == AppSpec => [](Inductive /\ NavInv)
  <1>1. AppInit => Inductive /\ NavInv
    BY AppStarts
  <1>2. Inductive /\ NavInv /\ [AppNext]_Whole => Inductive' /\ NavInv'
    BY AppKeeps
  <1> QED BY <1>1, <1>2, PTL DEF AppSpec, Whole

\* The variables of the settings and of the navigation keep their types: after every
\* change of the modules the tour stands at a step that there is.
THEOREM AppTypes == AppSpec => []AppTypeOK
  <1>1. Inductive /\ NavInv => AppTypeOK
    <2> SUFFICES ASSUME Inductive, NavInv PROVE TypeOK /\ NavTypeOK
      BY DEF AppTypeOK
    <2>1. TypeOK
      BY DEF Inductive
    <2>2. NavTypeOK
      <3> SUFFICES ASSUME place # Nowhere, NavTyped PROVE NavTypeOK
        BY DEF NavInv, Steady, NavTypeOK
      <3>1. tour.step \in 1 .. Len(TourSteps(me))
        BY DEF NavTyped, Tours
      <3> QED BY <3>1 DEF NavTyped, NavTypeOK
    <2> QED BY <2>1, <2>2
  <1> QED BY <1>1, AppInvariant, PTL

\* Of the composition too: the pack shown is the pack served, an organization held
\* back to the core pack has an owner who is asked, and no update is lost but to one
\* that overlapped it.
THEOREM AppSettings ==
    AppSpec => [](PackMatchesModules /\ PendingOwnerIsAsked /\ NothingLostWithoutOverlap)
  <1>1. Inductive => PackMatchesModules /\ PendingOwnerIsAsked /\ NothingLostWithoutOverlap
    BY DEF Inductive
  <1> QED BY <1>1, AppInvariant, PTL

\* Whatever happens to the modules and the role, and whatever order the guard, its
\* answer, the onboarding page and the tour act in, a person comes to rest on a page
\* of the modules, on the onboarding page if and only if they have to choose, and
\* with the step of an open tour in sight.
THEOREM AppRests == AppSpec => []RestsWhereItShould
  <1>1. ASSUME NavInv PROVE RestsWhereItShould
    <2> SUFFICES ASSUME place # Nowhere, next = Nowhere, asking.at = "none", choosing = "no"
                 PROVE  /\ IsPathAllowed(place.path, me.modules)
                        /\ (place.path = "onboarding") = me.needs \/ torn
                        /\ tour.open => LET step == TourSteps(me)[tour.step]
                                        IN torn \/ (StepMatchesLocation(place, step)
                                                    /\ TargetShown(step))
      BY DEF RestsWhereItShould
    <2>1. Steady
      BY <1>1 DEF NavInv
    <2>2. me \in Profiles /\ tour \in Tours(me) /\ me.needs \in BOOLEAN
      BY <2>1, ProfileFacts DEF Steady, NavTyped
    <2>3. IsPathAllowed(place.path, me.modules) /\ (place.path = "onboarding" => me.needs)
      BY <2>1 DEF Steady, Rests, RestsAt
    <2>4. me.needs => place.path = "onboarding" \/ torn
      BY <2>1 DEF Steady, Owed
    <2>5. (place.path = "onboarding") = me.needs \/ torn
      BY <2>2, <2>3, <2>4
    <2>6. ASSUME tour.open
          PROVE  StepMatchesLocation(place, StepOf(me, tour)) /\ TargetShown(StepOf(me, tour))
      <3> DEFINE step == StepOf(me, tour)
      <3>1. GoodStep(step, me)
        BY <2>2, StepFacts DEF StepOf
      <3>2. StepMatchesLocation(place, step)
        BY <2>1, <2>6 DEF Steady, Rests, RestsAt
      <3>3. step.nav # "" /\ place.path = "dashboard" => drawer # "hidden"
        BY <2>1, <2>6 DEF Steady, Guided
      <3> HIDE DEF step
      <3>4. TargetShown(step)
        BY <3>1, <3>2, <3>3 DEF TargetShown, GoodStep, StepMatchesLocation
      <3> QED BY <3>2, <3>4 DEF step
    <2> QED BY <2>3, <2>5, <2>6 DEF StepOf
  <1> QED BY <1>1, AppInvariant, PTL

\* For any module lists and goals: after what a person or others do, at most ten
\* redirects follow, unless the tour is open while the modules have to be chosen.
THEOREM AppRedirectsEnd ==
    ASSUME MaxHops >= Redirects
    PROVE  AppSpec => []RedirectsEnd
  <1>1. ASSUME NavInv, place # Nowhere PROVE RedirectsEnd
    <2>1. CASE torn
      BY <2>1 DEF RedirectsEnd
    <2>2. CASE ~ torn
      <3>1. PICK d \in 0 .. 10 : d = Due
        BY DueTyped
      <3>2. hops \in Nat /\ hops + d <= 10 /\ MaxHops >= 10 /\ MaxHops \in Nat
        BY <1>1, <2>2, <3>1, NavigationAssumption
           DEF NavInv, Steady, NavTyped, Budget, Redirects
      <3>3. hops <= MaxHops
        BY <3>2
      <3> QED BY <3>3 DEF RedirectsEnd
    <2> QED BY <2>1, <2>2
  <1>2. NavInv => RedirectsEnd
    <2>1. CASE place = Nowhere
      <3>1. 0 <= MaxHops
        BY NavigationAssumption
      <3> QED BY <2>1, <3>1 DEF NavInv, RedirectsEnd
    <2> QED BY <1>1, <2>1
  <1> QED BY <1>2, AppInvariant, PTL
=============================================================================
