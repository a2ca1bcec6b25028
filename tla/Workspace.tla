------------------------------ MODULE Workspace ------------------------------
(* Workspaces (organizations), their members and their teams, as the API keeps *)
(* them: auth.service.ts (login, switch), organization.service.ts (found,      *)
(* join, member roles) and team.service.ts (teams, default-team backfill).     *)
(*                                                                             *)
(* Every `await` on the database is a point where another request may run, so  *)
(* a handler that reads and then writes is a process of several steps with its *)
(* local variables in req[r].  A handler whose steps cannot be told apart from *)
(* one step (a single statement, one insert-only transaction, or checks of     *)
(* rows that are never deleted) is a single action.  Restart is a crash or     *)
(* redeploy of the API: every request in flight is lost, committed rows stay.  *)
(*                                                                             *)
(* The role of a team member (a string no handler reads) is abstracted away,   *)
(* and with it PATCH /team/member/:id, which changes nothing else.             *)
EXTENDS Integers, FiniteSets

CONSTANTS
    Users,          \* verified accounts
    Orgs,           \* organization ids the database may hand out
    LegacyOrgs,     \* ids of organizations older than the column defaultMemberTeam
    Teams,          \* team ids, a set of numbers in the order of createdAt
    Reqs,           \* request slots: how many handlers may be in flight at once
    GlobalManagers, \* users whose account role is ADMIN or MANAGER
    NoOrg           \* null organization id

ASSUME WorkspaceAssumption ==
    /\ IsFiniteSet(Users)
    /\ IsFiniteSet(Teams)
    /\ Teams \subseteq Nat \ {0}
    /\ LegacyOrgs \subseteq Orgs
    /\ GlobalManagers \subseteq Users
    /\ NoOrg \notin Orgs

VARIABLES
    role,       \* OrganizationMember rows: role[o][u]
    activeOrg,  \* User.activeOrganizationId
    teamOrg,    \* Team rows: the organization of a team, NoOrg if there is no row
    isDefault,  \* teams whose defaultMemberTeam is true
    onTeam,     \* TeamMember rows: the users on a team
    tokens,     \* organizationId claims, other than null, of a user's JWTs
    req,        \* local state of the handlers in flight
    alone       \* history: nothing else ran since this team request began

vars == <<role, activeOrg, teamOrg, isDefault, onTeam, tokens, req, alone>>
rows == <<role, activeOrg, teamOrg, isDefault, onTeam, tokens>>

None == "none"
OrgRoles == {"OWNER", "ADMIN", "MEMBER"}

-----------------------------------------------------------------------------
\* Reads of the database.

IsMember(u, o) == role[o][u] # None
MembersOf(o) == {u \in Users : IsMember(u, o)}
Exists(o) == MembersOf(o) # {}
TeamsOf(o) == {t \in Teams : teamOrg[t] = o}
DefaultsOf(o) == TeamsOf(o) \cap isDefault
IsOldest(t, S) == t \in S /\ \A s \in S : t <= s

CanManage(u, o) == u \in GlobalManagers \/ role[o][u] \in {"OWNER", "ADMIN"}

\* Rows the transactions in flight have inserted and not yet committed.
Reserved == {req[r].keep : r \in {s \in Reqs : req[s].pc \in {"txMembers", "txCommit"}}}
Taken == {t \in Teams : teamOrg[t] # NoOrg} \cup Reserved
IsNextTeam(t) ==
    /\ t \in Teams \ Taken
    /\ \A s \in Taken : s < t
    /\ t > 1 => t - 1 \in Taken

\* The organization a request acts in: the one the JWT names, else the active
\* one, else the first membership by id (ids are random: any of them).
PickOrgs(u, hint) ==
    LET all == {o \in Orgs : IsMember(u, o)}
    IN  IF hint \in all THEN {hint}
        ELSE IF activeOrg[u] \in all THEN {activeOrg[u]}
        ELSE IF all # {} THEN all ELSE {NoOrg}

\* Anybody can sign in, so a JWT without an organization is always at hand.
ServedIn(u) == UNION {PickOrgs(u, hint) : hint \in tokens[u] \cup {NoOrg}} \ {NoOrg}

\* Bug: tolerates one member missing from the default team.
BugSyncOffByOne(memberCount, defaultCount, onDefaultTeam) ==
    \/ defaultCount # 1
    \/ memberCount # 0 /\ onDefaultTeam + 1 < memberCount

\* team-default-sync.policy.ts
DefaultTeamSyncRequired(memberCount, defaultCount, onDefaultTeam) ==
    \/ defaultCount # 1
    \/ memberCount # 0 /\ onDefaultTeam < memberCount

-----------------------------------------------------------------------------
\* Local state of a handler.  Fields a handler does not use keep Idle's value.

NoUser == "nobody"
NoTeam == 0
Unread == -1

Idle == [op |-> "none", pc |-> "idle", user |-> NoUser, org |-> NoOrg,
         count |-> Unread, seen |-> {}, keep |-> NoTeam, flagged |-> {},
         missing |-> {},
         team |-> NoTeam, target |-> NoUser, newRole |-> None, actorRole |-> None]

Steps == {"idle",
          "create", "findDefault", "findOldest", "upsert", "activate",
          "reads", "readCount", "readDefaults", "decide",
          "txDefaults", "txChoose", "txMembers", "txCommit", "serve",
          "readTarget", "write"}

\* A handler in flight has an authenticated user, an organization and the
\* validated parameters of its request.
Request == {q \in
    [op : {"none", "join", "list", "add", "role"}, pc : Steps,
     user : Users \cup {NoUser}, org : Orgs \cup {NoOrg},
     count : Int, seen : SUBSET Teams, keep : Teams \cup {NoTeam},
     flagged : SUBSET Teams, missing : SUBSET Users,
     team : Teams \cup {NoTeam}, target : Users \cup {NoUser},
     newRole : OrgRoles \cup {None}, actorRole : OrgRoles \cup {None}] :
    q.pc # "idle" =>
        /\ q.user \in Users /\ q.org \in Orgs
        /\ q.op \in {"add", "role"} => q.target \in Users
        /\ q.op = "add" => q.team \in Teams
        /\ q.op = "role" => q.newRole \in {"MEMBER", "ADMIN"}
        /\ q.pc \in {"readTarget", "write"} => q.op = "role"}

JoinRequest(u, o) == [Idle EXCEPT !.op = "join", !.user = u, !.org = o, !.pc = "create"]
List == [Idle EXCEPT !.op = "list"]
Add(t, target) == [Idle EXCEPT !.op = "add", !.team = t, !.target = target]
TeamRequest(local, u, o) == [local EXCEPT !.user = u, !.org = o, !.pc = "reads"]
RoleRequest(u, o, target, newRole, actorRole) ==
    [Idle EXCEPT !.op = "role", !.user = u, !.org = o, !.target = target,
                 !.newRole = newRole, !.actorRole = actorRole, !.pc = "readTarget"]

At(r, pc) == req[r].pc = pc
Goto(r, pc) == req' = [req EXCEPT ![r].pc = pc]
Finish(r) == req' = [req EXCEPT ![r] = Idle]

\* A new request disturbs the ones in flight, and is disturbed by them.
Begin(r, local) ==
    /\ At(r, "idle")
    /\ req' = [req EXCEPT ![r] = local]
    /\ alone' = [s \in Reqs |-> s = r /\ \A q \in Reqs : At(q, "idle")]
Disturb == alone' = [r \in Reqs |-> FALSE]

-----------------------------------------------------------------------------
\* Sign-in and the active organization.

Login(u) ==
    /\ \E o \in PickOrgs(u, NoOrg) \ {NoOrg} :
            tokens' = [tokens EXCEPT ![u] = @ \cup {o}]
    /\ UNCHANGED <<role, activeOrg, teamOrg, isDefault, onTeam, req, alone>>

\* Bug: the membership is not checked.
BugSwitchUnchecked(u, o) ==
    /\ Exists(o)
    /\ activeOrg' = [activeOrg EXCEPT ![u] = o]
    /\ UNCHANGED <<role, tokens, teamOrg, isDefault, onTeam, req, alone>>

SwitchActiveOrganization(u, o) ==
    /\ IsMember(u, o)
    /\ activeOrg' = [activeOrg EXCEPT ![u] = o]
    /\ tokens' = [tokens EXCEPT ![u] = @ \cup {o}]
    /\ UNCHANGED <<role, teamOrg, isDefault, onTeam, req, alone>>

\* One transaction: the organization, its OWNER, the default team, its MANAGER.
CreateForUser(u, o) ==
    /\ o \notin LegacyOrgs /\ ~Exists(o)
    /\ \E t \in Teams :
        /\ IsNextTeam(t)
        /\ teamOrg' = [teamOrg EXCEPT ![t] = o]
        /\ isDefault' = isDefault \cup {t}
        /\ onTeam' = [onTeam EXCEPT ![t] = @ \cup {u}]
    /\ role' = [role EXCEPT ![o][u] = "OWNER"]
    /\ activeOrg' = [activeOrg EXCEPT ![u] = o]
    /\ tokens' = [tokens EXCEPT ![u] = @ \cup {o}]
    /\ Disturb
    /\ UNCHANGED req

-----------------------------------------------------------------------------
\* joinWithCode: five statements, no transaction.

JoinLookup(r, u, o) ==
    /\ Exists(o)
    /\ ~IsMember(u, o)
    /\ Begin(r, JoinRequest(u, o))
    /\ UNCHANGED rows

\* Bug: an upsert where the code inserts, which overwrites the role.
BugJoinUpserts(r) ==
    /\ At(r, "create")
    /\ role' = [role EXCEPT ![req[r].org][req[r].user] = "MEMBER"]
    /\ Goto(r, "findDefault")
    /\ UNCHANGED <<activeOrg, teamOrg, isDefault, onTeam, tokens, alone>>

\* Bug: a role that does not exist.
BugJoinAsGuest(r) ==
    /\ At(r, "create")
    /\ role' = [role EXCEPT ![req[r].org][req[r].user] = "USER"]
    /\ Goto(r, "findDefault")
    /\ UNCHANGED <<activeOrg, teamOrg, isDefault, onTeam, tokens, alone>>

\* Unique (userId, organizationId): the loser of two joins fails here.
JoinCreateMember(r) ==
    LET u == req[r].user
        o == req[r].org
    IN  /\ At(r, "create")
        /\ \/ /\ ~IsMember(u, o)
              /\ role' = [role EXCEPT ![o][u] = "MEMBER"]
              /\ Goto(r, "findDefault")
           \/ /\ IsMember(u, o)
              /\ Finish(r)
              /\ UNCHANGED role
        /\ UNCHANGED <<activeOrg, teamOrg, isDefault, onTeam, tokens, alone>>

\* findFirst without orderBy: any default team.
JoinFindDefault(r) ==
    /\ At(r, "findDefault")
    /\ \/ \E t \in DefaultsOf(req[r].org) :
            req' = [req EXCEPT ![r].pc = "upsert", ![r].keep = t]
       \/ DefaultsOf(req[r].org) = {} /\ Goto(r, "findOldest")
    /\ UNCHANGED <<rows, alone>>

JoinFindOldest(r) ==
    /\ At(r, "findOldest")
    /\ \/ \E t \in Teams :
            /\ IsOldest(t, TeamsOf(req[r].org))
            /\ req' = [req EXCEPT ![r].pc = "upsert", ![r].keep = t]
       \/ TeamsOf(req[r].org) = {} /\ Goto(r, "activate")
    /\ UNCHANGED <<rows, alone>>

JoinUpsert(r) ==
    LET u == req[r].user
        t == req[r].keep
    IN  /\ At(r, "upsert")
        /\ onTeam' = [onTeam EXCEPT ![t] = @ \cup {u}]
        /\ Goto(r, "activate")
        /\ UNCHANGED <<role, activeOrg, teamOrg, isDefault, tokens, alone>>

JoinActivate(r) ==
    LET u == req[r].user
        o == req[r].org
    IN  /\ At(r, "activate")
        /\ activeOrg' = [activeOrg EXCEPT ![u] = o]
        /\ tokens' = [tokens EXCEPT ![u] = @ \cup {o}]
        /\ Finish(r)
        /\ UNCHANGED <<role, teamOrg, isDefault, onTeam, alone>>

-----------------------------------------------------------------------------
\* Teams.  GET /team, GET /team/:id and POST /team/:id/member first check
\* whether the default team needs a backfill, and run it if so.

StartTeamRequest(r, u, o, local) ==
    /\ Begin(r, TeamRequest(local, u, o))
    /\ o \in ServedIn(u)
    /\ UNCHANGED rows

FindAll(r, u, o) == StartTeamRequest(r, u, o, List)

StartAddMember(r, u, o, t, target) ==
    teamOrg[t] # NoOrg /\ StartTeamRequest(r, u, o, Add(t, target))

\* Promise.all: the two reads in either order, with other requests between.
CountOrgMembers(r) ==
    /\ req[r].pc \in {"reads", "readCount"}
    /\ req' = [req EXCEPT
                 ![r].count = Cardinality(MembersOf(req[r].org)),
                 ![r].pc = IF At(r, "reads") THEN "readDefaults" ELSE "decide"]
    /\ UNCHANGED <<rows, alone>>

FindDefaultTeams(r) ==
    /\ req[r].pc \in {"reads", "readDefaults"}
    /\ req' = [req EXCEPT
                 ![r].seen = DefaultsOf(req[r].org),
                 ![r].pc = IF At(r, "reads") THEN "readCount" ELSE "decide"]
    /\ UNCHANGED <<rows, alone>>

ShouldRunDefaultTeamSync(r) ==
    LET seen == req[r].seen
        onDefault == UNION {onTeam[t] : t \in seen}
        required == DefaultTeamSyncRequired(req[r].count, Cardinality(seen),
                                            Cardinality(onDefault))
    IN  /\ At(r, "decide")
        /\ req' = [req EXCEPT ![r].pc = IF required THEN "txDefaults" ELSE "serve",
                              ![r].count = Unread, ![r].seen = {}]
        /\ UNCHANGED <<rows, alone>>

\* ensureDefaultTeamAndOrgMembers: one transaction, READ COMMITTED.  Each query
\* sees what is committed when it runs; the writes become visible together, at
\* TxCommit.  Until then the rows it updates are locked: another transaction
\* that would update one of them waits.
TxFindDefaults(r) ==
    /\ At(r, "txDefaults")
    /\ req' = [req EXCEPT ![r].pc = "txChoose", ![r].seen = DefaultsOf(req[r].org)]
    /\ UNCHANGED <<rows, alone>>

LockedBy(r) == IF req[r].pc \in {"txMembers", "txCommit"}
               THEN req[r].seen \cup req[r].flagged ELSE {}

\* Bug: with several default teams the others keep their flag.
BugNoClear(r) ==
    LET o == req[r].org
        seen == req[r].seen
        Choose(t, cleared, flagged) ==
            req' = [req EXCEPT ![r].pc = "txMembers", ![r].keep = t,
                               ![r].seen = cleared, ![r].flagged = flagged]
    IN  /\ At(r, "txChoose")
        /\ \E t \in Teams :
             \/ IsOldest(t, seen) /\ Choose(t, {}, {})
             \/ seen = {} /\ IsOldest(t, TeamsOf(o)) /\ Choose(t, TeamsOf(o) \ {t}, {t})
             \/ seen = {} /\ TeamsOf(o) = {} /\ IsNextTeam(t) /\ Choose(t, {}, {t})
        /\ UNCHANGED <<rows, alone>>

\* Keep the oldest default team, or make the oldest team the default, or create
\* one.  `seen` becomes the teams whose flag is cleared, `flagged` those whose
\* flag is set.
TxChooseDefault(r) ==
    LET o == req[r].org
        seen == req[r].seen
        Choose(t, cleared, flagged) ==
            /\ \A q \in Reqs \ {r} : LockedBy(q) \cap (cleared \cup {t}) = {}
            /\ req' = [req EXCEPT ![r].pc = "txMembers", ![r].keep = t,
                                  ![r].seen = cleared, ![r].flagged = flagged]
    IN  /\ At(r, "txChoose")
        /\ \E t \in Teams :
             \/ /\ IsOldest(t, seen)
                /\ Choose(t, IF Cardinality(seen) > 1 THEN DefaultsOf(o) \ {t} ELSE {},
                          {})
             \/ /\ seen = {}
                /\ IsOldest(t, TeamsOf(o))
                /\ Choose(t, TeamsOf(o) \ {t}, {t})
             \/ /\ seen = {}
                /\ TeamsOf(o) = {}
                /\ IsNextTeam(t)
                /\ Choose(t, {}, {t})
        /\ UNCHANGED <<rows, alone>>

TxReadMembers(r) ==
    LET o == req[r].org
    IN  /\ At(r, "txMembers")
        /\ req' = [req EXCEPT
                     ![r].pc = "txCommit",
                     ![r].missing = MembersOf(o) \ onTeam[req[r].keep]]
        /\ UNCHANGED <<rows, alone>>

TxCommit(r) ==
    LET k == req[r].keep
    IN  /\ At(r, "txCommit")
        /\ teamOrg' = [teamOrg EXCEPT ![k] = req[r].org]
        /\ isDefault' = (isDefault \ req[r].seen) \cup req[r].flagged
        /\ onTeam' = [onTeam EXCEPT ![k] = @ \cup req[r].missing]
        /\ req' = [req EXCEPT ![r].pc = "serve", ![r].keep = NoTeam, ![r].seen = {},
                              ![r].flagged = {}, ![r].missing = {}]
        /\ UNCHANGED <<role, activeOrg, tokens, alone>>

\* A timed-out or deadlocked transaction is rolled back and the request fails.
TxAbort(r) ==
    /\ req[r].pc \in {"txDefaults", "txChoose", "txMembers", "txCommit"}
    /\ Finish(r)
    /\ UNCHANGED <<rows, alone>>

ServeList(r) ==
    /\ At(r, "serve")
    /\ req[r].op = "list"
    /\ Finish(r)
    /\ UNCHANGED <<rows, alone>>

\* Bug: addMember does not look for the organization membership.
BugAddStranger(r) ==
    /\ At(r, "serve")
    /\ req[r].op = "add"
    /\ teamOrg[req[r].team] = req[r].org
    /\ onTeam' = [onTeam EXCEPT ![req[r].team] = @ \cup {req[r].target}]
    /\ Finish(r)
    /\ UNCHANGED <<role, activeOrg, teamOrg, isDefault, tokens, alone>>

\* addMember after findOne: 404, 400, or the insert, which fails on a duplicate.
AddMember(r) ==
    LET t == req[r].team
        m == req[r].target
    IN  /\ At(r, "serve")
        /\ req[r].op = "add"
        /\ onTeam' = IF /\ teamOrg[t] = req[r].org
                        /\ IsMember(m, req[r].org)
                     THEN [onTeam EXCEPT ![t] = @ \cup {m}]
                     ELSE onTeam
        /\ Finish(r)
        /\ UNCHANGED <<role, activeOrg, teamOrg, isDefault, tokens, alone>>

\* Bug: a team created by hand is flagged too.
BugTeamIsDefault(u, o) ==
    /\ o \in ServedIn(u)
    /\ \E t \in Teams : /\ IsNextTeam(t)
                        /\ teamOrg' = [teamOrg EXCEPT ![t] = o]
                        /\ isDefault' = isDefault \cup {t}
    /\ Disturb
    /\ UNCHANGED <<role, activeOrg, onTeam, tokens, req>>

CreateTeam(u, o) ==
    /\ o \in ServedIn(u)
    /\ \E t \in Teams : IsNextTeam(t) /\ teamOrg' = [teamOrg EXCEPT ![t] = o]
    /\ Disturb
    /\ UNCHANGED <<role, activeOrg, isDefault, onTeam, tokens, req>>

RemoveTeamMember(u, o, t, m) ==
    /\ teamOrg[t] = o /\ m \in onTeam[t]
    /\ CanManage(u, o) /\ o \in ServedIn(u)
    /\ onTeam' = [onTeam EXCEPT ![t] = @ \ {m}]
    /\ Disturb
    /\ UNCHANGED <<role, activeOrg, teamOrg, isDefault, tokens, req>>

-----------------------------------------------------------------------------
\* updateOrganizationMemberRole: the actor's role is the one the JWT strategy
\* read when the request came in, the target's is read later, the write later
\* still.

StartRoleChange(r, u, o, target, newRole) ==
    /\ role[o][u] \in {"OWNER", "ADMIN"}
    /\ u # target
    /\ Begin(r, RoleRequest(u, o, target, newRole, role[o][u]))
    /\ o \in ServedIn(u)
    /\ UNCHANGED rows

\* Bug: the OWNER's entry is not excluded.
BugOwnerIsATarget(actorRole, targetRole, newRole) ==
    /\ targetRole # None
    /\ actorRole = "ADMIN" => "ADMIN" \notin {newRole, targetRole}

MayChange(actorRole, targetRole, newRole) ==
    /\ targetRole \notin {None, "OWNER"}
    /\ actorRole = "ADMIN" => "ADMIN" \notin {newRole, targetRole}

ReadRoleTarget(r) ==
    LET q == req[r]
    IN  /\ At(r, "readTarget")
        /\ IF MayChange(q.actorRole, role[q.org][q.target], q.newRole)
           THEN Goto(r, "write") ELSE Finish(r)
        /\ UNCHANGED <<rows, alone>>

WriteRole(r) ==
    LET q == req[r]
    IN  /\ At(r, "write")
        /\ role' = [role EXCEPT ![q.org][q.target] = q.newRole]
        /\ Finish(r)
        /\ UNCHANGED <<activeOrg, teamOrg, isDefault, onTeam, tokens, alone>>

\* A crash or redeploy of the API process.
Restart ==
    /\ \E r \in Reqs : ~At(r, "idle")
    /\ req' = [r \in Reqs |-> Idle]
    /\ Disturb
    /\ UNCHANGED rows

-----------------------------------------------------------------------------
\* A legacy organization, where there is one, has one OWNER, other members with
\* these roles and some of these teams, none of them flagged: the migration added
\* the column with default false.
StartWith(legacyRoles, legacyTeams) ==
    /\ role \in [Orgs -> [Users -> {"OWNER", None} \cup legacyRoles]]
    /\ \A o \in Orgs \ LegacyOrgs : \A u \in Users : role[o][u] = None
    /\ \A o \in LegacyOrgs : Exists(o) => \E u \in Users : \A v \in Users :
            role[o][v] = "OWNER" <=> v = u
    /\ activeOrg = [u \in Users |-> NoOrg]
    /\ teamOrg \in {f \in [Teams -> LegacyOrgs \cup {NoOrg}] :
                        /\ \A t \in Teams \ legacyTeams : f[t] = NoOrg
                        /\ \A t \in Teams : f[t] # NoOrg => Exists(f[t])}
    /\ \A s, t \in Teams : s < t /\ teamOrg[s] = NoOrg => teamOrg[t] = NoOrg
    /\ isDefault = {}
    /\ onTeam \in [Teams -> SUBSET Users]
    /\ \A t \in Teams : \A u \in onTeam[t] :
            teamOrg[t] # NoOrg /\ IsMember(u, teamOrg[t])
    /\ tokens = [u \in Users |-> {}]
    /\ req = [r \in Reqs |-> Idle]
    /\ alone = [r \in Reqs |-> FALSE]

Init == StartWith({"ADMIN", "MEMBER"}, Teams)

AccountStep ==
    \E u \in Users : Login(u) \/ \E o \in Orgs : SwitchActiveOrganization(u, o)
                                                 \/ CreateForUser(u, o)

JoinStep ==
    \E r \in Reqs :
        \/ \E u \in Users, o \in Orgs : JoinLookup(r, u, o)
        \/ JoinCreateMember(r) \/ JoinFindDefault(r) \/ JoinFindOldest(r)
        \/ JoinUpsert(r) \/ JoinActivate(r)

TeamSyncStep(r) ==
    \/ CountOrgMembers(r) \/ FindDefaultTeams(r) \/ ShouldRunDefaultTeamSync(r)
    \/ TxFindDefaults(r) \/ TxChooseDefault(r) \/ TxReadMembers(r) \/ TxCommit(r)
    \/ TxAbort(r)
    \/ ServeList(r) \/ AddMember(r)

TeamStep ==
    \/ \E r \in Reqs, u \in Users, o \in Orgs :
        \/ FindAll(r, u, o)
        \/ \E t \in Teams, m \in Users : StartAddMember(r, u, o, t, m)
    \/ \E r \in Reqs : TeamSyncStep(r)
    \/ \E u \in Users, o \in Orgs :
        \/ CreateTeam(u, o)
        \/ \E t \in Teams, m \in Users : RemoveTeamMember(u, o, t, m)

RoleStep ==
    \E r \in Reqs :
        \/ \E u, target \in Users, o \in Orgs, newRole \in {"MEMBER", "ADMIN"} :
              StartRoleChange(r, u, o, target, newRole)
        \/ ReadRoleTarget(r) \/ WriteRole(r)

Next == AccountStep \/ JoinStep \/ TeamStep \/ RoleStep \/ Restart

Spec == Init /\ [][Next]_vars

-----------------------------------------------------------------------------
TypeOK ==
    /\ role \in [Orgs -> [Users -> OrgRoles \cup {None}]]
    /\ activeOrg \in [Users -> Orgs \cup {NoOrg}]
    /\ teamOrg \in [Teams -> Orgs \cup {NoOrg}]
    /\ isDefault \subseteq Teams
    /\ onTeam \in [Teams -> SUBSET Users]
    /\ tokens \in [Users -> SUBSET Orgs]
    /\ req \in [Reqs -> Request]
    /\ alone \in [Reqs -> BOOLEAN]

\* An active organization, and the organization a JWT names, is one the user is
\* a member of, whatever joins, switches and restarts interleave
\* (schema.prisma, User.activeOrganizationId).
SessionOrgIsMembership ==
    \A u \in Users : \A o \in Orgs :
        activeOrg[u] = o \/ o \in tokens[u] => IsMember(u, o)

\* Nobody is on a team of an organization they do not belong to: a join that
\* stops half-way, a backfill from a stale read and addMember all keep it.
TeamMembersAreOrgMembers ==
    \A t \in Teams : \A u \in onTeam[t] :
        teamOrg[t] \in Orgs /\ IsMember(u, teamOrg[t])

\* The comparison of two counts by which team-default-sync.policy.ts skips the
\* backfill never skips one that is needed (on committed state): when it says
\* no, the one default team holds every member of the organization.
SkipIsSound ==
    \A o \in Orgs :
        LET onDefault == UNION {onTeam[t] : t \in DefaultsOf(o)}
        IN  ~DefaultTeamSyncRequired(Cardinality(MembersOf(o)),
                                     Cardinality(DefaultsOf(o)),
                                     Cardinality(onDefault))
            => MembersOf(o) \subseteq onDefault

\* An organization founded through createForUser has exactly one default team
\* from then on: no backfill of two concurrent GETs clears or doubles it.
OneDefaultTeam ==
    \A o \in Orgs \ LegacyOrgs : Exists(o) => \E t \in Teams : DefaultsOf(o) = {t}

\* A team request that ran alone leaves exactly one default team with every
\* member of the organization on it (team.service.ts:15-18), whatever earlier
\* requests, crashes included, had left behind.
UndisturbedRequestRepairs ==
    \A r \in Reqs :
        At(r, "serve") /\ alone[r] =>
            \E t \in Teams : /\ DefaultsOf(req[r].org) = {t}
                             /\ MembersOf(req[r].org) \subseteq onTeam[t]

\* Every organization keeps exactly one OWNER (no operation transfers it), also
\* when role changes, joins and foundations interleave.
OneOwner ==
    \A o \in Orgs : Exists(o) => \E u \in Users : \A v \in Users :
        role[o][v] = "OWNER" <=> u = v

\* A membership is never lost, and its role only changes by a role request; who
\* becomes ADMIN does so at the hand of the current OWNER.  In particular a
\* second concurrent join never resets the role of a member.
RoleChangesAuthorised ==
    [][\A o \in Orgs, u \in Users :
         role[o][u] # None /\ role'[o][u] # role[o][u] =>
            \E r \in Reqs :
                /\ At(r, "write") /\ req[r].org = o /\ req[r].target = u
                /\ role'[o][u] = req[r].newRole
                /\ req[r].newRole = "ADMIN" => role[o][req[r].user] = "OWNER"]_vars

\* What the handlers in flight may rely on, step by step; with it the
\* invariants above are inductive.
MemberSteps == {"findDefault", "findOldest", "upsert", "activate", "reads", "readCount",
                "readDefaults", "decide", "txDefaults", "txChoose", "txMembers",
                "txCommit", "serve"}
KeepSteps == {"txMembers", "txCommit"}

LocalInv(q) ==
    /\ q.pc = "create" => Exists(q.org)
    /\ q.pc \in MemberSteps => IsMember(q.user, q.org)
    /\ q.pc = "upsert" => q.keep \in Teams /\ teamOrg[q.keep] = q.org
    /\ q.pc \in KeepSteps =>
        /\ q.keep \in Teams
        /\ teamOrg[q.keep] \in {NoOrg, q.org}
        /\ q.flagged \subseteq {q.keep}
    /\ q.pc \in KeepSteps \cup {"txChoose"} => \A t \in q.seen : teamOrg[t] = q.org
    /\ q.pc = "txCommit" => q.missing \subseteq MembersOf(q.org)
    /\ q.pc = "write" =>
        /\ role[q.org][q.target] \in {"ADMIN", "MEMBER"}
        /\ q.newRole = "ADMIN" => q.actorRole = "OWNER"
    /\ q.pc = "readTarget" => q.actorRole \in {"OWNER", "ADMIN"}
    /\ q.pc \in {"readTarget", "write"} /\ q.actorRole = "OWNER" =>
        role[q.org][q.user] = "OWNER"
    /\ q.org \in Orgs \ LegacyOrgs =>
        /\ q.pc = "txChoose" => q.seen = DefaultsOf(q.org)
        /\ q.pc \in KeepSteps =>
            DefaultsOf(q.org) = {q.keep} /\ q.seen = {} /\ q.flagged = {}

Agree(p, q) == p.pc \in KeepSteps /\ q.pc \in KeepSteps /\ p.keep = q.keep => p.org = q.org

TeamsInv ==
    /\ \A t \in Teams : teamOrg[t] \in Orgs => Exists(teamOrg[t])
    /\ \A t \in isDefault : teamOrg[t] \in Orgs

RowsInv ==
    /\ SessionOrgIsMembership
    /\ TeamMembersAreOrgMembers
    /\ OneOwner
    /\ TeamsInv
    /\ OneDefaultTeam

\* The inductive invariant: no step of a handler finds less than the steps
\* before it established, whatever ran in between.
Inductive ==
    /\ TypeOK
    /\ RowsInv
    /\ \A r \in Reqs : LocalInv(req[r])
    /\ \A r, s \in Reqs : r # s => Agree(req[r], req[s])
=============================================================================
