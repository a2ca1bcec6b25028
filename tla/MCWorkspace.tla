---------------------------- MODULE MCWorkspace ----------------------------
(* A small instance of Workspace.  Users and request slots are interchangeable: *)
(* no definition but the constant GlobalManagers tells two users apart, and it  *)
(* is empty here.  Of the two organization ids one is older than the default    *)
(* team: a behaviour starts with it, or with no organization at all.            *)
EXTENDS Workspace, TLC

CONSTANTS MaxTeam   \* bound on the number of teams

MCTeams == 1 .. MaxTeam
Symmetry == Permutations(Users) \cup Permutations(Reqs)

MCSpec == StartWith({"MEMBER"}, Teams) /\ [][Next]_vars

Legacy == \E o \in LegacyOrgs : Exists(o)

\* Where there is a legacy organization: joins and reads of the teams only.  Nobody
\* founds another one, signs in, switches, changes a role, creates a team or adds to it.
LegacyTeams ==
    Legacy => /\ req' # req \/ onTeam' # onTeam
              /\ \A r \in Reqs : req'[r].op \notin {"add", "role"}
              /\ \A o \in Orgs \ LegacyOrgs : role'[o] = role[o]
=============================================================================
