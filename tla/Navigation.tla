----------------------------- MODULE Navigation -----------------------------
(* Where a person is in the web app, and everything that takes them           *)
(* somewhere else: links, AppShell's guard and its GET /users/me, the         *)
(* onboarding page, and the product tour with its timer.  Each of them acts   *)
(* on its own when the page, the profile or the tour changes; a navigation    *)
(* under way is replaced by the next one.                                     *)
EXTENDS NavTables

CONSTANTS
    ModuleLists,   \* the module lists an organization may have
    Goals,         \* the places a person may go to
    MaxActs,       \* bound on what people do
    MaxHops        \* how many redirects may follow each other

ASSUME NavigationAssumption ==
    /\ ModulesForPack["core"] \in ModuleLists
    /\ \A list \in ModuleLists :
            list \subseteq ModuleKeys /\ MergeRequiredModules(list) = list
    /\ Nowhere \notin Goals
    /\ {MaxActs, MaxHops} \subseteq Nat

VARIABLES
    org,       \* the server: the person's role, the module list, whether it is pending
    me,        \* the profile in the store: role, modules, needs (needsPackSelection)
    place,     \* what is on the screen
    next,      \* the navigation under way, or Nowhere
    asking,    \* AppShell's GET /users/me for the page
    choosing,  \* a choice of modules that is saved: the profile is read again
    tour,      \* open, step, done (localStorage), timer (of half a second)
    drawer,    \* on a narrow screen the sidebar is hidden, or open
    acts,      \* ghost: what people have done
    hops,      \* ghost: redirects since then
    torn       \* ghost: the tour was open while a choice of modules was outstanding

navVars == <<org, me, place, next, asking, choosing, tour, drawer, acts, hops, torn>>

ProfileOf(o) ==
    [role |-> o.role, needs |-> o.role = "OWNER" /\ o.pending,
     modules |-> IF o.pending THEN ModulesForPack["core"] ELSE o.modules]
Roles == {"OWNER", "ADMIN", "MEMBER"}
Orgs == [role : Roles, pending : BOOLEAN, modules : ModuleLists]
Profiles == {ProfileOf(o) : o \in Orgs}
NotAsked == [at |-> "none", profile |-> ProfileOf([role |-> "MEMBER", pending |-> TRUE])]

----------------------------------------------------------------------------
\* The effects that run after a rendering, in React's order; the last call of
\* the router counts.
TourPushes(p, m, t, pending) ==
    LET step == TourSteps(m)[t.step]
    IN IF t.open /\ ~ StepMatchesLocation(p, step) THEN step.place ELSE pending
OnboardingPage(p, m, pending) ==
    IF p.path = "onboarding" /\ ~ m.needs THEN At("dashboard") ELSE pending
ModuleGuard(p, m, pending) ==
    IF IsPathAllowed(p.path, m.modules) THEN pending ELSE At("dashboard")
\* Bug: the guard does not run again when the modules change.
BugRedirect(p, m, t, pending) ==
    ModuleGuard(p, me, OnboardingPage(p, m, TourPushes(p, m, t, pending)))

Redirect(p, m, t, pending) ==
    ModuleGuard(p, m, OnboardingPage(p, m, TourPushes(p, m, t, pending)))

\* A list that has become shorter takes the tour back.
Clamp(t, m) == [t EXCEPT !.step = IF @ <= Len(TourSteps(m)) THEN @ ELSE Len(TourSteps(m))]
\* The tour opens the hidden sidebar for its step there, and closes it elsewhere.
Drawer(p, m, t) ==
    IF ~ t.open \/ drawer = "wide" THEN drawer
    ELSE IF p.path # "dashboard" THEN "hidden"
    ELSE IF TourSteps(m)[t.step].nav # "" THEN "open" ELSE drawer

\* What a step ends with: the place, the profile and the tour, and where the
\* effects lead from there.
Render(p, m, t, leads) ==
    /\ place' = p /\ me' = m /\ tour' = t
    /\ next' = leads
    /\ drawer' = Drawer(p, m, t)
    /\ torn' = (torn \/ (t.open /\ m.needs))

Acts == acts < MaxActs /\ acts' = acts + 1 /\ hops' = 0
Hops(pending) ==
    /\ acts' = acts
    /\ hops' = IF next' \in {pending, Nowhere} \/ hops > MaxHops THEN hops ELSE hops + 1

----------------------------------------------------------------------------
\* A navigation arrives.  The effects of another path ask for the profile, and
\* the dashboard starts the tour in half a second.
Arrive ==
    LET turned == next.path # place.path
        t == IF turned THEN [tour EXCEPT !.timer = next.path = "dashboard" /\ ~ tour.done]
             ELSE tour
    IN /\ next # Nowhere
       /\ Render(next, me, t, Redirect(next, me, t, Nowhere))
       /\ Hops(Nowhere)
       /\ asking' = IF turned THEN [NotAsked EXCEPT !.at = "asked"] ELSE asking
       /\ UNCHANGED <<org, choosing>>

ServeMe ==
    /\ asking.at = "asked"
    /\ asking' = [at |-> "served", profile |-> ProfileOf(org)]
    /\ UNCHANGED <<org, me, place, next, choosing, tour, drawer, acts, hops, torn>>

\* Who has to choose the modules is sent to the onboarding page.
AnswerMe ==
    LET m == asking.profile
        t == Clamp(tour, m)
        pending == IF m.needs /\ place.path # "onboarding" THEN At("onboarding") ELSE next
    IN /\ asking.at = "served"
       /\ asking' = NotAsked
       /\ Render(place, m, t, Redirect(place, m, t, pending))
       /\ Hops(next)
       /\ UNCHANGED <<org, choosing>>

TourOpens ==
    LET t == [tour EXCEPT !.open = TRUE, !.timer = FALSE]
    IN /\ tour.timer
       /\ Render(place, me, t, TourPushes(place, me, t, next))
       /\ Hops(next)
       /\ UNCHANGED <<org, asking, choosing>>

----------------------------------------------------------------------------
\* A link, a shortcut, a search result, or back.  Nobody asks for another tab of
\* the page within the moment that a redirect takes.
Go(p) ==
    /\ p # place /\ (p.path = place.path => next = Nowhere)
    /\ next' = p
    /\ Acts
    /\ UNCHANGED <<org, me, place, asking, choosing, tour, drawer, torn>>

\* A document: what the components keep is gone, and the profile is the stored one.
Load(p) ==
    LET t == [open |-> FALSE, step |-> 1, done |-> tour.done,
              timer |-> p.path = "dashboard" /\ ~ tour.done]
    IN /\ Render(p, me, t, Redirect(p, me, t, Nowhere))
       /\ Acts
       /\ asking' = [NotAsked EXCEPT !.at = "asked"]
       /\ choosing' = "no"
       /\ UNCHANGED org

\* The buttons of the tour.
TourGoes(t, pending) ==
    /\ Render(place, me, t, TourPushes(place, me, t, pending))
    /\ Acts
    /\ UNCHANGED <<org, asking, choosing>>
LastStep == Len(TourSteps(me))
NextStep ==
    tour.open /\ tour.step < LastStep /\ TourGoes([tour EXCEPT !.step = @ + 1], next)
PreviousStep ==
    tour.open /\ tour.step > 1 /\ TourGoes([tour EXCEPT !.step = @ - 1], next)
SkipTour == tour.open /\ TourGoes([tour EXCEPT !.open = FALSE, !.done = TRUE], next)
OutroLink ==
    /\ tour.open /\ tour.step = LastStep
    /\ TourGoes([tour EXCEPT !.open = FALSE, !.done = TRUE], Tab("personalization"))
\* Again: from the last step, or from the settings.
RestartTour ==
    /\ IF tour.open THEN tour.step = LastStep ELSE place.path = "settings"
    /\ TourGoes([tour EXCEPT !.step = 1, !.done = FALSE,
                             !.open = @ \/ place.path = "dashboard"], At("dashboard"))

\* An owner chooses the modules: on the onboarding page, which leads to the
\* dashboard when the profile has been read again, or in the settings.
ChooseModules(list, where) ==
    /\ place.path = where /\ me.role = "OWNER" /\ ~ tour.open
    /\ (where = "onboarding" => me.needs)
    /\ org.role = "OWNER" /\ choosing = "no"
    /\ org' = [org EXCEPT !.pending = FALSE, !.modules = MergeRequiredModules(list)]
    /\ choosing' = where
    /\ Acts
    /\ UNCHANGED <<me, place, next, asking, tour, drawer, torn>>
Chosen ==
    LET m == ProfileOf(org)
        t == Clamp(tour, m)
        leads == Redirect(place, m, t, next)
    IN /\ choosing # "no"
       /\ choosing' = "no"
       /\ Render(place, m, t, IF choosing = "onboarding" THEN At("dashboard") ELSE leads)
       /\ Hops(next)
       /\ UNCHANGED <<org, asking>>

\* Others change the person's role or the modules.
OthersChange(o) ==
    /\ o \in Orgs /\ o # org /\ (o.pending => org.pending)
    /\ o.role = org.role \/ [o EXCEPT !.role = org.role] = org
    /\ org' = o
    /\ Acts
    /\ UNCHANGED <<me, place, next, asking, choosing, tour, drawer, torn>>

----------------------------------------------------------------------------
NavOff ==
    /\ org = Nowhere /\ me = Nowhere /\ place = Nowhere /\ next = Nowhere
    /\ asking = Nowhere /\ tour = Nowhere
    /\ choosing = "no" /\ drawer = "wide" /\ acts = 0 /\ hops = 0 /\ torn = FALSE

\* Just signed in or set up, or somewhere in the tour.
NavInit ==
    /\ org \in Orgs /\ (org.pending => org.modules = ModulesForPack["core"])
    /\ me = ProfileOf(org)
    /\ drawer \in {"wide", "hidden"}
    /\ choosing = "no" /\ acts = 0 /\ hops = 0 /\ torn = FALSE
    /\ \/ /\ place = At(IF me.needs THEN "onboarding" ELSE "dashboard")
          /\ next = Nowhere
          /\ asking = [NotAsked EXCEPT !.at = "asked"]
          /\ \E done \in BOOLEAN :
                tour = [open |-> FALSE, step |-> 1, done |-> done,
                        timer |-> place.path = "dashboard" /\ ~ done]
       \/ /\ ~ me.needs
          /\ \E i \in 1 .. LastStep :
                /\ place = TourSteps(me)[i].place
                /\ TourSteps(me)[i].nav = "" \/ drawer = "wide"
                /\ tour = [open |-> TRUE, step |-> i, done |-> FALSE, timer |-> FALSE]
          /\ next = Nowhere /\ asking = NotAsked

NavNext ==
    /\ place # Nowhere
    /\ \/ Arrive \/ ServeMe \/ AnswerMe \/ TourOpens \/ Chosen
       \/ NextStep \/ PreviousStep \/ SkipTour \/ OutroLink \/ RestartTour
       \/ \E p \in Goals : Go(p) \/ Load(p)
       \/ \E list \in ModuleLists, where \in {"onboarding", "settings"} :
                ChooseModules(list, where)
       \/ \E o \in Orgs : OthersChange(o)

----------------------------------------------------------------------------
NavTypeOK ==
    place # Nowhere =>
    /\ org \in Orgs /\ me \in Profiles
    /\ asking.profile \in Profiles /\ asking.at \in {"none", "asked", "served"}
    /\ tour.step \in 1 .. Len(TourSteps(me))
    /\ choosing \in {"no", "onboarding", "settings"}
    /\ drawer \in {"wide", "hidden", "open"}

\* The redirects that follow what somebody does come to an end: AppShell's
\* guard, its answer, the onboarding page and the tour do not send a person to
\* and fro, unless the tour is open while the modules have to be chosen.
RedirectsEnd == hops <= MaxHops \/ torn

TargetShown(step) ==
    CASE step.selector = "nav" ->
            IsNavItemVisible(step.nav, me.modules) /\ drawer # "hidden"
      [] step.selector = "page" -> place.path \in PagesWithTarget
      [] step.selector \in {"settings-workspace", "workspace-invite-code"} ->
            place.tab \in {"workspace", "invite"} /\ CanManageWorkspace(me.role)
      [] OTHER -> TRUE

\* When nothing is under way a person is on a page of the organization's
\* modules, on the onboarding page if and only if the modules have to be chosen,
\* and an open tour points at something that is there.
RestsWhereItShould ==
    (place # Nowhere /\ next = Nowhere /\ asking.at = "none" /\ choosing = "no") =>
        /\ IsPathAllowed(place.path, me.modules)
        /\ (place.path = "onboarding") = me.needs \/ torn
        /\ tour.open => LET step == TourSteps(me)[tour.step]
                        IN torn \/ (StepMatchesLocation(place, step) /\ TargetShown(step))
=============================================================================
