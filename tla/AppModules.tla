----------------------------- MODULE AppModules -----------------------------
(* The modules an organization uses, from both ends: the settings the API      *)
(* keeps of it (OrgSettings), and where the web app leads a person by the      *)
(* profile, which names the modules (Navigation).  They share no state: for    *)
(* Navigation the settings change at once.  One is followed at a time.         *)
EXTENDS OrgSettings, Navigation

NoRow == [look |-> [f \in Fields |-> Default], onboarding |-> "unset", pack |-> NoPack,
          modules |-> NoModules]

SettingsOff ==
    /\ row = NoRow /\ req = [r \in Reqs |-> Idle]
    /\ chosen = ResolveEnabledModules(NoRow) /\ wanted = NoRow.look /\ stale = FALSE

AppInit ==
    \/ Init /\ NavOff
    \/ SettingsOff /\ NavInit

AppNext ==
    \/ place = Nowhere /\ Next /\ UNCHANGED navVars
    \/ NavNext /\ UNCHANGED vars

AppSpec == AppInit /\ [][AppNext]_<<vars, navVars>>

\* The variables of both parts have their types.
AppTypeOK == TypeOK /\ NavTypeOK
=============================================================================
