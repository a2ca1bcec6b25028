-------------------------- MODULE WorkspaceProofs --------------------------
(* Theorems about Workspace for any number of users, organizations, teams and  *)
(* requests in flight.  TypeOK first; then the inductive invariant, preserved  *)
(* action by action; then the properties it implies.                           *)
EXTENDS Workspace, FiniteSetTheorems, TLAPS

USE DEF OrgRoles, None, NoTeam, NoUser, Unread

-----------------------------------------------------------------------------
(* Type correctness.                                                           *)

LEMMA IdleType == Idle \in Request
BY DEF Idle, Request, Steps

\* The fields of a local state.
LEMMA RequestFields ==
    ASSUME NEW q \in Request
    PROVE  /\ q.pc # "idle" =>
                /\ q.user \in Users /\ q.org \in Orgs
                /\ q.op \in {"add", "role"} => q.target \in Users
                /\ q.op = "add" => q.team \in Teams
                /\ q.op = "role" => q.newRole \in {"MEMBER", "ADMIN"}
                /\ q.pc \in {"readTarget", "write"} => q.op = "role"
           /\ q.keep \in Teams \cup {NoTeam}
           /\ q.seen \in SUBSET Teams /\ q.flagged \in SUBSET Teams
           /\ q.missing \in SUBSET Users
           /\ q.count \in Int
BY DEF Request

\* What the handlers' updates of their local state leave well typed.
LEMMA LocalPc ==
    ASSUME NEW q \in Request, q.pc # "idle",
           NEW pc \in Steps, pc # "idle", pc \in {"readTarget", "write"} => q.op = "role"
    PROVE  [q EXCEPT !.pc = pc] \in Request
BY DEF Request

LEMMA LocalKeep ==
    ASSUME NEW q \in Request, NEW k \in Teams \cup {NoTeam}
    PROVE  [q EXCEPT !.keep = k] \in Request
BY DEF Request

LEMMA LocalSeen ==
    ASSUME NEW q \in Request, NEW S \in SUBSET Teams
    PROVE  [q EXCEPT !.seen = S] \in Request
BY DEF Request

LEMMA LocalCount ==
    ASSUME NEW q \in Request, NEW n \in Int
    PROVE  [q EXCEPT !.count = n] \in Request
BY DEF Request

LEMMA LocalFlagged ==
    ASSUME NEW q \in Request, NEW S \in SUBSET Teams
    PROVE  [q EXCEPT !.flagged = S] \in Request
BY DEF Request

LEMMA LocalMissing ==
    ASSUME NEW q \in Request, NEW U \in SUBSET Users
    PROVE  [q EXCEPT !.missing = U] \in Request
BY DEF Request

LEMMA LocalCountPc ==
    ASSUME NEW q \in Request, NEW n \in Int,
           NEW pc \in Steps, pc \notin {"idle", "readTarget", "write"}, q.pc # "idle"
    PROVE  [[q EXCEPT !.count = n] EXCEPT !.pc = pc] \in Request
BY DEF Request

LEMMA LocalSeenPc ==
    ASSUME NEW q \in Request, NEW S \in SUBSET Teams,
           NEW pc \in Steps, pc \notin {"idle", "readTarget", "write"}, q.pc # "idle"
    PROVE  [[q EXCEPT !.seen = S] EXCEPT !.pc = pc] \in Request
BY DEF Request

\* The local state of a request that is about to start, field by field; the
\* step comes last.
LEMMA StartOp ==
    ASSUME NEW q \in Request, q.pc = "idle", NEW v \in {"join", "list", "add", "role"}, NEW x, x = [q EXCEPT !.op = v]
    PROVE  x \in Request /\ x.pc = "idle" /\ x.op = v
BY DEF Request

LEMMA StartTeam ==
    ASSUME NEW q \in Request, q.pc = "idle", NEW v \in Teams, NEW x, x = [q EXCEPT !.team = v]
    PROVE  x \in Request /\ x.pc = "idle" /\ x.team = v
           /\ x.op = q.op
BY DEF Request

LEMMA StartUser ==
    ASSUME NEW q \in Request, q.pc = "idle", NEW v \in Users, NEW x, x = [q EXCEPT !.user = v]
    PROVE  x \in Request /\ x.pc = "idle" /\ x.user = v
           /\ x.op = q.op /\ x.team = q.team /\ x.target = q.target
BY DEF Request

LEMMA StartOrg ==
    ASSUME NEW q \in Request, q.pc = "idle", NEW v \in Orgs, NEW x, x = [q EXCEPT !.org = v]
    PROVE  x \in Request /\ x.pc = "idle" /\ x.org = v
           /\ x.op = q.op /\ x.user = q.user /\ x.team = q.team /\ x.target = q.target
BY DEF Request

LEMMA StartTarget ==
    ASSUME NEW q \in Request, q.pc = "idle", NEW v \in Users, NEW x, x = [q EXCEPT !.target = v]
    PROVE  x \in Request /\ x.pc = "idle" /\ x.target = v
           /\ x.op = q.op /\ x.user = q.user /\ x.org = q.org /\ x.team = q.team
BY DEF Request

LEMMA StartNewRole ==
    ASSUME NEW q \in Request, q.pc = "idle", NEW v \in OrgRoles, NEW x, x = [q EXCEPT !.newRole = v]
    PROVE  x \in Request /\ x.pc = "idle" /\ x.newRole = v
           /\ x.op = q.op /\ x.user = q.user /\ x.org = q.org /\ x.target = q.target
BY DEF Request

LEMMA StartActorRole ==
    ASSUME NEW q \in Request, q.pc = "idle", NEW v \in OrgRoles, NEW x, x = [q EXCEPT !.actorRole = v]
    PROVE  x \in Request /\ x.pc = "idle" /\ x.actorRole = v
           /\ x.op = q.op /\ x.user = q.user /\ x.org = q.org /\ x.target = q.target /\ x.newRole = q.newRole
BY DEF Request

LEMMA StartPc ==
    ASSUME NEW q \in Request, NEW pc \in Steps, pc # "idle",
           pc \in {"readTarget", "write"} => q.op = "role", q.user \in Users, q.org \in Orgs,
           q.op \in {"add", "role"} => q.target \in Users,
           q.op = "add" => q.team \in Teams,
           q.op = "role" => q.newRole \in {"MEMBER", "ADMIN"},
           NEW x, x = [q EXCEPT !.pc = pc]
    PROVE  x \in Request /\ x.pc = pc /\ x.op = q.op /\ x.user = q.user /\ x.org = q.org
           /\ x.target = q.target /\ x.actorRole = q.actorRole
BY DEF Request

LEMMA JoinLocal ==
    ASSUME NEW u \in Users, NEW o \in Orgs, NEW q, q = JoinRequest(u, o)
    PROVE  q \in Request /\ q.pc = "create" /\ q.user = u /\ q.org = o
<1> DEFINE q1 == [Idle EXCEPT !.op = "join"]
           q2 == [q1 EXCEPT !.user = u]
           q3 == [q2 EXCEPT !.org = o]
           q4 == [q3 EXCEPT !.pc = "create"]
<1>1. q1 \in Request /\ q1.pc = "idle" /\ q1.op = "join"
    BY IdleType, StartOp DEF Idle
<1> HIDE DEF q1
<1>2. q2 \in Request /\ q2.pc = "idle" /\ q2.op = "join" /\ q2.user = u
    BY <1>1, StartUser
<1> HIDE DEF q2
<1>3. q3 \in Request /\ q3.op = "join" /\ q3.user = u /\ q3.org = o
    BY <1>2, StartOrg
<1> HIDE DEF q3
<1>4. q4 \in Request /\ q4.pc = "create" /\ q4.user = u /\ q4.org = o
    BY <1>3, StartPc DEF Steps
<1>5. q4 = q
    BY DEF q1, q2, q3, JoinRequest
<1> QED BY <1>4, <1>5

LEMMA TeamLocal ==
    ASSUME NEW u \in Users, NEW o \in Orgs, NEW local \in Request,
           local.pc = "idle", local.op \in {"list", "add"},
           local.op = "add" => local.team \in Teams /\ local.target \in Users,
           NEW q, q = TeamRequest(local, u, o)
    PROVE  q \in Request /\ q.pc = "reads" /\ q.user = u /\ q.org = o
<1> DEFINE q1 == [local EXCEPT !.user = u]
           q2 == [q1 EXCEPT !.org = o]
           q3 == [q2 EXCEPT !.pc = "reads"]
<1>1. /\ q1 \in Request /\ q1.pc = "idle" /\ q1.user = u /\ q1.op = local.op
      /\ q1.team = local.team /\ q1.target = local.target
    BY StartUser
<1> HIDE DEF q1
<1>2. /\ q2 \in Request /\ q2.user = u /\ q2.org = o /\ q2.op = local.op
      /\ q2.team = local.team /\ q2.target = local.target
    BY <1>1, StartOrg
<1> HIDE DEF q2
<1>3. q3 \in Request /\ q3.pc = "reads" /\ q3.user = u /\ q3.org = o
    BY <1>2, StartPc DEF Steps
<1>4. q3 = q
    BY DEF q1, q2, TeamRequest
<1> QED BY <1>3, <1>4

LEMMA ListLocal ==
    List \in Request /\ List.pc = "idle" /\ List.op = "list"
BY IdleType, StartOp DEF Idle, List

LEMMA AddLocal ==
    ASSUME NEW t \in Teams, NEW m \in Users, NEW q, q = Add(t, m)
    PROVE  q \in Request /\ q.pc = "idle" /\ q.op = "add" /\ q.team = t /\ q.target = m
<1> DEFINE q1 == [Idle EXCEPT !.op = "add"]
           q2 == [q1 EXCEPT !.team = t]
           q3 == [q2 EXCEPT !.target = m]
<1>1. q1 \in Request /\ q1.pc = "idle" /\ q1.op = "add"
    BY IdleType, StartOp DEF Idle
<1> HIDE DEF q1
<1>2. q2 \in Request /\ q2.pc = "idle" /\ q2.op = "add" /\ q2.team = t
    BY <1>1, StartTeam
<1> HIDE DEF q2
<1>3. q3 \in Request /\ q3.pc = "idle" /\ q3.op = "add" /\ q3.team = t /\ q3.target = m
    BY <1>2, StartTarget
<1>4. q3 = q
    BY DEF q1, q2, Add
<1> QED BY <1>3, <1>4

LEMMA RoleLocal ==
    ASSUME NEW u \in Users, NEW target \in Users, NEW o \in Orgs,
           NEW newRole \in {"MEMBER", "ADMIN"}, NEW actorRole \in OrgRoles, NEW q,
           q = RoleRequest(u, o, target, newRole, actorRole)
    PROVE  /\ q \in Request /\ q.pc = "readTarget"
           /\ q.user = u /\ q.org = o /\ q.actorRole = actorRole
<1> DEFINE q1 == [Idle EXCEPT !.op = "role"]
           q2 == [q1 EXCEPT !.user = u]
           q3 == [q2 EXCEPT !.org = o]
           q4 == [q3 EXCEPT !.target = target]
           q5 == [q4 EXCEPT !.newRole = newRole]
           q6 == [q5 EXCEPT !.actorRole = actorRole]
           q7 == [q6 EXCEPT !.pc = "readTarget"]
<1>1. q1 \in Request /\ q1.pc = "idle" /\ q1.op = "role"
    BY IdleType, StartOp DEF Idle
<1> HIDE DEF q1
<1>2. q2 \in Request /\ q2.pc = "idle" /\ q2.op = "role" /\ q2.user = u
    BY <1>1, StartUser
<1> HIDE DEF q2
<1>3. q3 \in Request /\ q3.pc = "idle" /\ q3.op = "role" /\ q3.user = u /\ q3.org = o
    BY <1>2, StartOrg
<1> HIDE DEF q3
<1>4. /\ q4 \in Request /\ q4.pc = "idle" /\ q4.op = "role" /\ q4.user = u
      /\ q4.org = o /\ q4.target = target
    BY <1>3, StartTarget
<1> HIDE DEF q4
<1>5. /\ q5 \in Request /\ q5.pc = "idle" /\ q5.op = "role" /\ q5.user = u
      /\ q5.org = o /\ q5.target = target /\ q5.newRole = newRole
    BY <1>4, StartNewRole
<1> HIDE DEF q5
<1>6. /\ q6 \in Request /\ q6.op = "role" /\ q6.user = u
      /\ q6.org = o /\ q6.target = target /\ q6.newRole = newRole
      /\ q6.actorRole = actorRole
    BY <1>5, StartActorRole
<1> HIDE DEF q6
<1>7. /\ q7 \in Request /\ q7.pc = "readTarget"
      /\ q7.user = u /\ q7.org = o /\ q7.actorRole = actorRole
    BY <1>6, StartPc DEF Steps
<1>8. q7 = q
    BY DEF q1, q2, q3, q4, q5, q6, RoleRequest
<1> QED BY <1>7, <1>8

LEMMA TypeFinish ==
    ASSUME req \in [Reqs -> Request], NEW r \in Reqs, Finish(r)
    PROVE  req' \in [Reqs -> Request]
BY IdleType DEF Finish

LEMMA TypeGoto ==
    ASSUME req \in [Reqs -> Request], NEW r \in Reqs, ~At(r, "idle"),
           NEW pc \in Steps, pc # "idle", pc \in {"readTarget", "write"} => req[r].op = "role", Goto(r, pc)
    PROVE  req' \in [Reqs -> Request]
<1>1. [req[r] EXCEPT !.pc = pc] \in Request
    BY LocalPc DEF At
<1> QED BY <1>1 DEF Goto

LEMMA TypeBegin ==
    ASSUME TypeOK, NEW r \in Reqs, NEW local \in Request, Begin(r, local), UNCHANGED rows
    PROVE  TypeOK'
BY DEF TypeOK, Begin, rows

LEMMA TypeInit == Init => TypeOK
BY IdleType, WorkspaceAssumption DEF Init, StartWith, TypeOK, OrgRoles

LEMMA TypeAccount == TypeOK /\ AccountStep => TypeOK'
<1> SUFFICES ASSUME TypeOK, AccountStep PROVE TypeOK'
    OBVIOUS
<1>1. ASSUME NEW u \in Users, Login(u) PROVE TypeOK'
  <2>1. PickOrgs(u, NoOrg) \ {NoOrg} \subseteq Orgs
    BY <1>1 DEF PickOrgs, TypeOK
  <2> QED BY <1>1, <2>1 DEF TypeOK, Login
<1>2. ASSUME NEW u \in Users, NEW o \in Orgs, SwitchActiveOrganization(u, o)
      PROVE  TypeOK'
    BY <1>2 DEF TypeOK, SwitchActiveOrganization
<1>3. ASSUME NEW u \in Users, NEW o \in Orgs, CreateForUser(u, o) PROVE TypeOK'
  <2>1. /\ role' \in [Orgs -> [Users -> OrgRoles \cup {None}]]
        /\ activeOrg' \in [Users -> Orgs \cup {NoOrg}]
        /\ tokens' \in [Users -> SUBSET Orgs]
    BY <1>3 DEF TypeOK, CreateForUser
  <2>2. /\ teamOrg' \in [Teams -> Orgs \cup {NoOrg}]
        /\ isDefault' \subseteq Teams
        /\ onTeam' \in [Teams -> SUBSET Users]
    BY <1>3 DEF TypeOK, CreateForUser
  <2>3. req' \in [Reqs -> Request] /\ alone' \in [Reqs -> BOOLEAN]
    BY <1>3 DEF TypeOK, CreateForUser, Disturb
  <2> QED BY <2>1, <2>2, <2>3 DEF TypeOK
<1> QED BY <1>1, <1>2, <1>3 DEF AccountStep

LEMMA TypeJoin == TypeOK /\ JoinStep => TypeOK'
<1> SUFFICES ASSUME TypeOK, NEW r \in Reqs,
                    \/ \E u \in Users, o \in Orgs : JoinLookup(r, u, o)
                    \/ JoinCreateMember(r) \/ JoinFindDefault(r) \/ JoinFindOldest(r)
                    \/ JoinUpsert(r) \/ JoinActivate(r)
             PROVE  TypeOK'
    BY DEF JoinStep
<1> DEFINE q == req[r]
<1>q. q \in Request /\ req \in [Reqs -> Request]
    BY DEF TypeOK
<1>f. q.pc # "idle" => q.user \in Users /\ q.org \in Orgs
    BY <1>q, RequestFields
<1>s. {"findDefault", "findOldest", "upsert", "activate"} \subseteq Steps
    BY DEF Steps
<1>1. ASSUME NEW u \in Users, NEW o \in Orgs, JoinLookup(r, u, o) PROVE TypeOK'
  <2>1. JoinRequest(u, o) \in Request
    BY <1>1, JoinLocal
  <2> QED BY <1>1, <2>1, TypeBegin DEF JoinLookup
<1>2. CASE JoinCreateMember(r)
  <2>1. req' \in [Reqs -> Request]
    BY <1>2, <1>q, <1>s, TypeFinish, TypeGoto DEF JoinCreateMember, At
  <2>2. role' \in [Orgs -> [Users -> OrgRoles \cup {None}]]
    BY <1>2 DEF TypeOK, JoinCreateMember
  <2> QED BY <1>2, <2>1, <2>2 DEF TypeOK, JoinCreateMember
<1>3. CASE JoinFindDefault(r)
  <2>1. ASSUME NEW t \in DefaultsOf(q.org),
               req' = [req EXCEPT ![r].pc = "upsert", ![r].keep = t]
        PROVE  req' \in [Reqs -> Request]
    <3>1. [[q EXCEPT !.pc = "upsert"] EXCEPT !.keep = t] \in Request
        BY <1>3, <1>q, <1>s, LocalPc, LocalKeep DEF DefaultsOf, TeamsOf, JoinFindDefault, At
    <3> QED BY <1>q, <2>1, <3>1
  <2>2. req' \in [Reqs -> Request]
    BY <1>3, <1>q, <1>s, <2>1, TypeGoto DEF JoinFindDefault, At
  <2> QED BY <1>3, <2>2 DEF TypeOK, JoinFindDefault, rows
<1>4. CASE JoinFindOldest(r)
  <2>1. ASSUME NEW t \in Teams, req' = [req EXCEPT ![r].pc = "upsert", ![r].keep = t]
        PROVE  req' \in [Reqs -> Request]
    <3>1. [[q EXCEPT !.pc = "upsert"] EXCEPT !.keep = t] \in Request
        BY <1>4, <1>q, <1>s, LocalPc, LocalKeep DEF JoinFindOldest, At
    <3> QED BY <1>q, <2>1, <3>1
  <2>2. req' \in [Reqs -> Request]
    BY <1>4, <1>q, <1>s, <2>1, TypeGoto DEF JoinFindOldest, At
  <2> QED BY <1>4, <2>2 DEF TypeOK, JoinFindOldest, rows
<1>5. CASE JoinUpsert(r)
  <2>1. req' \in [Reqs -> Request]
    BY <1>5, <1>q, <1>s, TypeGoto DEF JoinUpsert, At
  <2>2. onTeam' \in [Teams -> SUBSET Users]
    BY <1>5, <1>f DEF TypeOK, JoinUpsert, At
  <2> QED BY <1>5, <2>1, <2>2 DEF TypeOK, JoinUpsert
<1>6. CASE JoinActivate(r)
  <2>1. req' \in [Reqs -> Request]
    BY <1>6, <1>q, TypeFinish DEF JoinActivate
  <2>2. /\ activeOrg' \in [Users -> Orgs \cup {NoOrg}]
        /\ tokens' \in [Users -> SUBSET Orgs]
    BY <1>6, <1>f DEF TypeOK, JoinActivate, At
  <2> QED BY <1>6, <2>1, <2>2 DEF TypeOK, JoinActivate
<1> QED BY <1>1, <1>2, <1>3, <1>4, <1>5, <1>6

\* What the transaction decides: the team it keeps, the flags it clears and sets.
Choice(r, t, cleared, flagged) ==
    LET o == req[r].org
        seen == req[r].seen
    IN  /\ req' = [req EXCEPT ![r].pc = "txMembers", ![r].keep = t,
                              ![r].seen = cleared, ![r].flagged = flagged]
        /\ flagged \subseteq {t}
        /\ cleared \subseteq TeamsOf(o)
        /\ \/ /\ IsOldest(t, seen)
              /\ cleared = IF Cardinality(seen) > 1 THEN DefaultsOf(o) \ {t} ELSE {}
              /\ flagged = {}
           \/ seen = {} /\ t \in TeamsOf(o)
           \/ seen = {} /\ IsNextTeam(t)

LEMMA Chosen ==
    ASSUME NEW r \in Reqs, TxChooseDefault(r)
    PROVE  \E t \in Teams, cleared \in SUBSET Teams, flagged \in SUBSET Teams :
              Choice(r, t, cleared, flagged)
<1> DEFINE o == req[r].org
           seen == req[r].seen
           Becomes(t, cleared, flagged) ==
                req' = [req EXCEPT ![r].pc = "txMembers", ![r].keep = t,
                                   ![r].seen = cleared, ![r].flagged = flagged]
           others(t) == IF Cardinality(seen) > 1 THEN DefaultsOf(o) \ {t} ELSE {}
<1>1. PICK t \in Teams :
        \/ IsOldest(t, seen) /\ Becomes(t, others(t), {})
        \/ /\ seen = {} /\ IsOldest(t, TeamsOf(o))
           /\ Becomes(t, TeamsOf(o) \ {t}, {t})
        \/ seen = {} /\ IsNextTeam(t) /\ Becomes(t, {}, {t})
    BY DEF TxChooseDefault
<1>2. TeamsOf(o) \subseteq Teams /\ others(t) \subseteq TeamsOf(o)
    BY DEF TeamsOf, DefaultsOf
<1>3. CASE IsOldest(t, seen) /\ Becomes(t, others(t), {})
  <2>1. Choice(r, t, others(t), {})
    BY <1>2, <1>3 DEF Choice
  <2>2. others(t) \in SUBSET Teams
    BY <1>2
  <2> QED BY <2>1, <2>2
<1>4. CASE /\ seen = {} /\ IsOldest(t, TeamsOf(o))
           /\ Becomes(t, TeamsOf(o) \ {t}, {t})
  <2>1. Choice(r, t, TeamsOf(o) \ {t}, {t})
    BY <1>4 DEF Choice, IsOldest
  <2>2. TeamsOf(o) \ {t} \in SUBSET Teams
    BY <1>2
  <2> QED BY <2>1, <2>2
<1>5. CASE seen = {} /\ IsNextTeam(t) /\ Becomes(t, {}, {t})
  <2>1. Choice(r, t, {}, {t})
    BY <1>5 DEF Choice
  <2> QED BY <2>1
<1> QED BY <1>1, <1>3, <1>4, <1>5

\* The backfill of the default team.
LEMMA TypeTeamSync ==
    ASSUME TypeOK, NEW r \in Reqs, TeamSyncStep(r)
    PROVE  TypeOK'
<1> DEFINE q == req[r]
<1>q. q \in Request /\ req \in [Reqs -> Request]
    BY DEF TypeOK
<1>f. /\ q.pc # "idle" => q.user \in Users /\ q.org \in Orgs
      /\ q.seen \in SUBSET Teams /\ q.flagged \in SUBSET Teams /\ q.missing \in SUBSET Users
    BY <1>q, RequestFields
<1>s. {"readCount", "readDefaults", "decide", "txDefaults", "txChoose", "txMembers",
       "txCommit", "serve"} \subseteq Steps
    BY DEF Steps
<1>k. ASSUME req' \in [Reqs -> Request], UNCHANGED <<rows, alone>> PROVE TypeOK'
    BY <1>k DEF TypeOK, rows
<1>1. CASE CountOrgMembers(r)
  <2> DEFINE n == Cardinality(MembersOf(q.org))
             pc == IF At(r, "reads") THEN "readDefaults" ELSE "decide"
  <2>1. n \in Int
    BY WorkspaceAssumption, FS_Subset, FS_CardinalityType DEF MembersOf
  <2>2. pc \in Steps /\ pc \notin {"idle", "readTarget", "write"} /\ q.pc # "idle"
    BY <1>1, <1>s DEF CountOrgMembers
  <2>3. [[q EXCEPT !.count = n] EXCEPT !.pc = pc] \in Request
    <3> HIDE DEF n, pc
    <3> QED BY <1>q, <2>1, <2>2, LocalCountPc
  <2>4. req' = [req EXCEPT ![r] = [[q EXCEPT !.count = n] EXCEPT !.pc = pc]]
    BY <1>1, <1>q DEF CountOrgMembers
  <2> QED BY <1>1, <1>k, <1>q, <2>3, <2>4 DEF CountOrgMembers
<1>2. CASE FindDefaultTeams(r)
  <2> DEFINE S == DefaultsOf(q.org)
             pc == IF At(r, "reads") THEN "readCount" ELSE "decide"
  <2>2. pc \in Steps /\ pc \notin {"idle", "readTarget", "write"} /\ q.pc # "idle"
    BY <1>2, <1>s DEF FindDefaultTeams
  <2>3. [[q EXCEPT !.seen = S] EXCEPT !.pc = pc] \in Request
    <3>1. S \in SUBSET Teams
        BY DEF DefaultsOf, TeamsOf
    <3> HIDE DEF S, pc
    <3> QED BY <1>q, <2>2, <3>1, LocalSeenPc
  <2>4. req' = [req EXCEPT ![r] = [[q EXCEPT !.seen = S] EXCEPT !.pc = pc]]
    BY <1>2, <1>q DEF FindDefaultTeams
  <2> QED BY <1>2, <1>k, <1>q, <2>3, <2>4 DEF FindDefaultTeams
<1>3. CASE ShouldRunDefaultTeamSync(r)
  <2>1. PICK pc \in {"txDefaults", "serve"} :
            req' = [req EXCEPT ![r].pc = pc, ![r].count = Unread, ![r].seen = {}]
    BY <1>3 DEF ShouldRunDefaultTeamSync
  <2> DEFINE q1 == [q EXCEPT !.pc = pc]
             q2 == [q1 EXCEPT !.count = Unread]
             q3 == [q2 EXCEPT !.seen = {}]
  <2>2. q1 \in Request
    BY <1>3, <1>q, <1>s, LocalPc DEF ShouldRunDefaultTeamSync, At
  <2>3. q2 \in Request
    <3> HIDE DEF q1
    <3> QED BY <2>2, LocalCount
  <2>4. q3 \in Request
    <3> HIDE DEF q2
    <3> QED BY <2>3, LocalSeen
  <2>5. req' = [req EXCEPT ![r] = q3]
    BY <2>1, <1>q
  <2> HIDE DEF q3
  <2>6. UNCHANGED <<rows, alone>>
    BY <1>3 DEF ShouldRunDefaultTeamSync
  <2> QED BY <1>k, <1>q, <2>4, <2>5, <2>6
<1>4. CASE TxFindDefaults(r)
  <2>1. [[q EXCEPT !.pc = "txChoose"] EXCEPT !.seen = DefaultsOf(q.org)] \in Request
    <3>1. [q EXCEPT !.pc = "txChoose"] \in Request
        BY <1>4, <1>q, <1>s, LocalPc DEF TxFindDefaults, At
    <3>2. DefaultsOf(q.org) \in SUBSET Teams
        BY DEF DefaultsOf, TeamsOf
    <3> QED BY <3>1, <3>2, LocalSeen
  <2>2. req' = [req EXCEPT ![r] =
            [[q EXCEPT !.pc = "txChoose"] EXCEPT !.seen = DefaultsOf(q.org)]]
    BY <1>4, <1>q DEF TxFindDefaults
  <2> QED BY <1>4, <1>k, <1>q, <2>1, <2>2 DEF TxFindDefaults
<1>5. CASE TxChooseDefault(r)
  <2>1. PICK t \in Teams, cleared \in SUBSET Teams, flagged \in SUBSET Teams :
            Choice(r, t, cleared, flagged)
    BY <1>5, Chosen
  <2> DEFINE q1 == [q EXCEPT !.pc = "txMembers"]
             q2 == [q1 EXCEPT !.keep = t]
             q3 == [q2 EXCEPT !.seen = cleared]
             q4 == [q3 EXCEPT !.flagged = flagged]
  <2>2. q1 \in Request
    BY <1>5, <1>q, <1>s, LocalPc DEF TxChooseDefault, At
  <2>3. q2 \in Request
    BY <2>2, LocalKeep
  <2>4. q3 \in Request
    BY <2>3, LocalSeen
  <2>5. q4 \in Request
    BY <2>4, LocalFlagged
  <2>6. req' = [req EXCEPT ![r] = q4]
    BY <2>1, <1>q DEF Choice
  <2> HIDE DEF q4
  <2> QED BY <1>5, <1>k, <1>q, <2>5, <2>6 DEF TxChooseDefault
<1>6. CASE TxReadMembers(r)
  <2> DEFINE U == MembersOf(q.org) \ onTeam[q.keep]
             q1 == [q EXCEPT !.pc = "txCommit"]
             q2 == [q1 EXCEPT !.missing = U]
  <2>1. U \in SUBSET Users
    BY DEF MembersOf
  <2>2. q1 \in Request
    BY <1>6, <1>q, <1>s, LocalPc DEF TxReadMembers, At
  <2>3. q2 \in Request
    BY <2>1, <2>2, LocalMissing
  <2>4. req' = [req EXCEPT ![r] = q2]
    BY <1>6, <1>q DEF TxReadMembers
  <2> HIDE DEF q2
  <2> QED BY <1>6, <1>k, <1>q, <2>3, <2>4 DEF TxReadMembers
<1>7. CASE TxCommit(r)
  <2> DEFINE q1 == [q EXCEPT !.pc = "serve"]
             q2 == [q1 EXCEPT !.keep = NoTeam]
             q3 == [q2 EXCEPT !.seen = {}]
             q4 == [q3 EXCEPT !.flagged = {}]
             q5 == [q4 EXCEPT !.missing = {}]
  <2>1. q1 \in Request
    BY <1>7, <1>q, <1>s, LocalPc DEF TxCommit, At
  <2>2. q2 \in Request
    BY <2>1, LocalKeep
  <2>3. q3 \in Request
    BY <2>2, LocalSeen
  <2>4. q4 \in Request
    BY <2>3, LocalFlagged
  <2>5. q5 \in Request
    BY <2>4, LocalMissing
  <2>6. req' = [req EXCEPT ![r] = q5]
    BY <1>7, <1>q DEF TxCommit
  <2> HIDE DEF q5
  <2>7. req' \in [Reqs -> Request]
    BY <1>q, <2>5, <2>6
  <2>8. /\ teamOrg' \in [Teams -> Orgs \cup {NoOrg}]
        /\ isDefault' \subseteq Teams
        /\ onTeam' \in [Teams -> SUBSET Users]
    BY <1>7, <1>f DEF TxCommit, TypeOK, At
  <2> QED BY <1>7, <2>7, <2>8 DEF TxCommit, TypeOK
<1>8. CASE TxAbort(r)
    BY <1>8, <1>k, <1>q, TypeFinish DEF TxAbort
<1>9. CASE ServeList(r)
    BY <1>9, <1>k, <1>q, TypeFinish DEF ServeList
<1>10. CASE AddMember(r)
  <2>1. req' \in [Reqs -> Request]
    BY <1>10, <1>q, TypeFinish DEF AddMember
  <2>2. q.target \in Users
    BY <1>10, <1>q, RequestFields DEF AddMember, At
  <2>3. onTeam' \in [Teams -> SUBSET Users]
    BY <1>10, <2>2 DEF AddMember, TypeOK
  <2> QED BY <1>10, <2>1, <2>3 DEF AddMember, TypeOK
<1> QED BY <1>1, <1>2, <1>3, <1>4, <1>5, <1>6, <1>7, <1>8, <1>9, <1>10 DEF TeamSyncStep

LEMMA TypeTeam == TypeOK /\ TeamStep => TypeOK'
<1> SUFFICES ASSUME TypeOK, TeamStep PROVE TypeOK'
    OBVIOUS
<1>0. ASSUME NEW r \in Reqs, NEW u \in Users, NEW o \in Orgs, NEW local \in Request,
             local.pc = "idle", local.op \in {"list", "add"},
             local.op = "add" => local.team \in Teams /\ local.target \in Users,
             StartTeamRequest(r, u, o, local)
      PROVE  TypeOK'
  <2>1. TeamRequest(local, u, o) \in Request
    BY <1>0, TeamLocal
  <2> QED BY <1>0, <2>1, TypeBegin DEF StartTeamRequest
<1>1. ASSUME NEW r \in Reqs, NEW u \in Users, NEW o \in Orgs, FindAll(r, u, o)
      PROVE  TypeOK'
    BY <1>0, <1>1, ListLocal DEF FindAll
<1>2. ASSUME NEW r \in Reqs, NEW u \in Users, NEW o \in Orgs, NEW t \in Teams,
             NEW m \in Users, StartAddMember(r, u, o, t, m)
      PROVE  TypeOK'
    BY <1>0, <1>2, AddLocal DEF StartAddMember
<1>3. ASSUME NEW u \in Users, NEW o \in Orgs, CreateTeam(u, o) PROVE TypeOK'
    BY <1>3 DEF TypeOK, CreateTeam, Disturb
<1>4. ASSUME NEW u \in Users, NEW o \in Orgs, NEW t \in Teams, NEW m \in Users,
             RemoveTeamMember(u, o, t, m)
      PROVE  TypeOK'
    BY <1>4 DEF TypeOK, RemoveTeamMember, Disturb
<1> QED BY <1>1, <1>2, <1>3, <1>4, TypeTeamSync DEF TeamStep

LEMMA TypeRole == TypeOK /\ RoleStep => TypeOK'
<1> SUFFICES ASSUME TypeOK, RoleStep PROVE TypeOK'
    OBVIOUS
<1>q. req \in [Reqs -> Request]
    BY DEF TypeOK
<1>1. ASSUME NEW r \in Reqs, NEW u \in Users, NEW target \in Users, NEW o \in Orgs,
             NEW newRole \in {"MEMBER", "ADMIN"}, StartRoleChange(r, u, o, target, newRole)
      PROVE  TypeOK'
  <2>1. role[o][u] \in OrgRoles
    BY <1>1 DEF StartRoleChange
  <2>2. RoleRequest(u, o, target, newRole, role[o][u]) \in Request
    BY <1>1, <2>1, RoleLocal
  <2> QED BY <1>1, <2>2, TypeBegin DEF StartRoleChange
<1>2. ASSUME NEW r \in Reqs, ReadRoleTarget(r) PROVE TypeOK'
  <2>1. req' \in [Reqs -> Request]
    BY <1>2, <1>q, RequestFields, TypeFinish, TypeGoto DEF ReadRoleTarget, At, Steps
  <2> QED BY <1>2, <2>1 DEF ReadRoleTarget, TypeOK, rows
<1>3. ASSUME NEW r \in Reqs, WriteRole(r) PROVE TypeOK'
  <2>1. req' \in [Reqs -> Request]
    BY <1>3, <1>q, TypeFinish DEF WriteRole
  <2>2. req[r].newRole \in OrgRoles
    BY <1>3, <1>q, RequestFields DEF WriteRole, At
  <2>3. role' \in [Orgs -> [Users -> OrgRoles \cup {None}]]
    BY <1>3, <2>2 DEF WriteRole, TypeOK
  <2> QED BY <1>3, <2>1, <2>3 DEF WriteRole, TypeOK
<1> QED BY <1>1, <1>2, <1>3 DEF RoleStep

LEMMA TypeNext == TypeOK /\ [Next]_vars => TypeOK'
<1> SUFFICES ASSUME TypeOK, [Next]_vars PROVE TypeOK'
    OBVIOUS
<1>1. CASE Restart
    BY <1>1, IdleType DEF Restart, Disturb, TypeOK, rows
<1>2. CASE UNCHANGED vars
    BY <1>2 DEF TypeOK, vars
<1> QED BY <1>1, <1>2, TypeAccount, TypeJoin, TypeTeam, TypeRole DEF Next

\* Every reachable state is well typed: each handler in flight has a user, an
\* organization and parameters of the kinds its steps rely on.
THEOREM TypeCorrect == Spec => []TypeOK
BY TypeInit, TypeNext, PTL DEF Spec

-----------------------------------------------------------------------------
(* The inductive invariant.  A step either changes one handler's local state   *)
(* and no row (Quiet), or changes rows so that what the other handlers rely on *)
(* still holds (Grows).                                                        *)

LEMMA IdleInv == LocalInv(Idle) /\ \A q : Agree(Idle, q) /\ Agree(q, Idle)
BY WorkspaceAssumption DEF LocalInv, Idle, MemberSteps, KeepSteps, Agree

LEMMA RowsFrame ==
    ASSUME RowsInv, UNCHANGED rows
    PROVE  RowsInv'
BY DEF RowsInv, rows, SessionOrgIsMembership, TeamMembersAreOrgMembers, OneOwner, TeamsInv,
       OneDefaultTeam, IsMember, Exists, MembersOf, DefaultsOf, TeamsOf

LEMMA LocalFrame ==
    ASSUME NEW q, LocalInv(q), UNCHANGED rows
    PROVE  LocalInv(q)'
BY DEF LocalInv, rows, IsMember, Exists, MembersOf, DefaultsOf, TeamsOf

\* One handler moves on, no row changes.
LEMMA Quiet ==
    ASSUME Inductive, TypeOK', UNCHANGED rows,
           NEW r \in Reqs, NEW q, req' = [req EXCEPT ![r] = q], LocalInv(q),
           \A s \in Reqs \ {r} : Agree(req[s], q) /\ Agree(q, req[s])
    PROVE  Inductive'
<1>1. RowsInv'
    BY RowsFrame DEF Inductive
<1>r. req \in [Reqs -> Request]
    BY DEF Inductive, TypeOK
<1>v. req'[r] = q /\ \A s \in Reqs \ {r} : req'[s] = req[s]
    BY <1>r
<1>2. ASSUME NEW s \in Reqs PROVE LocalInv(req[s])'
  <2>1. PICK x : x = req'[s] /\ LocalInv(x)
    BY <1>v DEF Inductive
  <2>2. LocalInv(x)'
    BY <2>1, LocalFrame
  <2> QED BY <2>1, <2>2 DEF LocalInv
<1>3. ASSUME NEW s \in Reqs, NEW t \in Reqs, s # t PROVE Agree(req'[s], req'[t])
  <2>1. CASE s = r
    BY <1>3, <1>v, <2>1
  <2>2. CASE t = r
    BY <1>3, <1>v, <2>2
  <2>3. CASE s # r /\ t # r
    BY <1>3, <1>v, <2>3 DEF Inductive
  <2> QED BY <2>1, <2>2, <2>3
<1> QED BY <1>1, <1>2, <1>3 DEF Inductive, Agree

\* What the rows another handler changes may do to this one.
Grows ==
    /\ \A o \in Orgs, u \in Users :
        /\ role[o][u] # None => role'[o][u] # None
        /\ role[o][u] \in {"ADMIN", "MEMBER"} => role'[o][u] \in {"ADMIN", "MEMBER"}
        /\ role[o][u] = "OWNER" => role'[o][u] = "OWNER"
    /\ \A t \in Teams : teamOrg[t] \in Orgs => teamOrg'[t] = teamOrg[t]
    /\ \A o \in Orgs \ LegacyOrgs : Exists(o) => DefaultsOf(o)' = DefaultsOf(o)

KeepFits(q) == q.pc \in KeepSteps => teamOrg'[q.keep] \in {NoOrg, q.org}

LEMMA LocalGrows ==
    ASSUME NEW q \in Request, LocalInv(q), TypeOK, TypeOK', Grows, KeepFits(q)
    PROVE  LocalInv(q)'
<1>f. q.pc # "idle" => /\ q.user \in Users /\ q.org \in Orgs
                       /\ q.pc = "write" => q.target \in Users
      /\ q.missing \in SUBSET Users /\ q.seen \in SUBSET Teams
    BY RequestFields
<1>e. \A o \in Orgs : Exists(o) => Exists(o)'
    BY DEF Grows, Exists, MembersOf, IsMember
<1>m. \A o \in Orgs : MembersOf(o) \subseteq MembersOf(o)'
    BY DEF Grows, MembersOf, IsMember
<1>1. (q.pc = "create" => Exists(q.org))'
    BY <1>e, <1>f DEF LocalInv
<1>2. (q.pc \in MemberSteps => IsMember(q.user, q.org))'
    BY <1>f DEF LocalInv, Grows, IsMember, MemberSteps
<1>3. (q.pc = "upsert" => q.keep \in Teams /\ teamOrg[q.keep] = q.org)'
    BY <1>f DEF LocalInv, Grows
<1>4. (q.pc \in KeepSteps =>
        /\ q.keep \in Teams
        /\ teamOrg[q.keep] \in {NoOrg, q.org}
        /\ q.flagged \subseteq {q.keep})'
    BY <1>f DEF LocalInv, Grows, KeepFits, KeepSteps
<1>9. (q.pc \in KeepSteps \cup {"txChoose"} => \A t \in q.seen : teamOrg[t] = q.org)'
    BY <1>f DEF LocalInv, Grows, KeepSteps
<1>5. (q.pc = "txCommit" => q.missing \subseteq MembersOf(q.org))'
    BY <1>f, <1>m DEF LocalInv
<1>6. (q.pc = "write" =>
        /\ role[q.org][q.target] \in {"ADMIN", "MEMBER"}
        /\ q.newRole = "ADMIN" => q.actorRole = "OWNER")'
    BY <1>f DEF LocalInv, Grows
<1>10. (/\ q.pc = "readTarget" => q.actorRole \in {"OWNER", "ADMIN"}
        /\ q.pc \in {"readTarget", "write"} /\ q.actorRole = "OWNER" =>
                role[q.org][q.user] = "OWNER")'
    BY <1>f DEF LocalInv, Grows
<1>7. ASSUME q.org \in Orgs \ LegacyOrgs, q.pc \in {"txChoose", "txMembers", "txCommit"}
      PROVE  DefaultsOf(q.org)' = DefaultsOf(q.org)
  <2>1. IsMember(q.user, q.org) /\ q.user \in Users
    BY <1>7, <1>f DEF LocalInv, MemberSteps
  <2> QED BY <1>7, <2>1 DEF Grows, Exists, MembersOf
<1>8. (q.org \in Orgs \ LegacyOrgs =>
        /\ q.pc = "txChoose" => q.seen = DefaultsOf(q.org)
        /\ q.pc \in KeepSteps =>
            DefaultsOf(q.org) = {q.keep} /\ q.seen = {} /\ q.flagged = {})'
    BY <1>7 DEF LocalInv, KeepSteps
<1> QED BY <1>1, <1>2, <1>3, <1>4, <1>5, <1>6, <1>8, <1>9, <1>10
        DEF LocalInv

\* Rows change, one handler moves on (or none: q is what it was).
LEMMA Noisy ==
    ASSUME Inductive, TypeOK', RowsInv', Grows,
           NEW r \in Reqs, NEW q \in Request, req' = [req EXCEPT ![r] = q], LocalInv(q)',
           \A s \in Reqs \ {r} : Agree(req[s], q) /\ Agree(q, req[s]) /\ KeepFits(req[s])
    PROVE  Inductive'
<1>r. req \in [Reqs -> Request] /\ TypeOK
    BY DEF Inductive, TypeOK
<1>v. req'[r] = q /\ \A s \in Reqs \ {r} : req'[s] = req[s]
    BY <1>r
<1>2. ASSUME NEW s \in Reqs PROVE LocalInv(req[s])'
  <2>1. CASE s = r
    BY <1>v, <2>1 DEF LocalInv
  <2>2. CASE s # r
    <3>1. PICK x \in Request : x = req[s] /\ x = req'[s] /\ LocalInv(x) /\ KeepFits(x)
        BY <1>r, <1>v, <2>2 DEF Inductive
    <3>2. LocalInv(x)'
        BY <1>r, <3>1, LocalGrows
    <3> QED BY <3>1, <3>2 DEF LocalInv
  <2> QED BY <2>1, <2>2
<1>3. ASSUME NEW s \in Reqs, NEW t \in Reqs, s # t PROVE Agree(req'[s], req'[t])
  <2>1. CASE s = r
    BY <1>3, <1>v, <2>1
  <2>2. CASE t = r
    BY <1>3, <1>v, <2>2
  <2>3. CASE s # r /\ t # r
    BY <1>3, <1>v, <2>3 DEF Inductive
  <2> QED BY <2>1, <2>2, <2>3
<1> QED BY <1>2, <1>3 DEF Inductive, Agree

\* Rows change and no handler moves.
LEMMA NoisyAll ==
    ASSUME Inductive, TypeOK', RowsInv', Grows, UNCHANGED req,
           \A s \in Reqs : KeepFits(req[s])
    PROVE  Inductive'
<1>r. req \in [Reqs -> Request] /\ TypeOK
    BY DEF Inductive, TypeOK
<1>2. ASSUME NEW s \in Reqs PROVE LocalInv(req[s])'
  <2>1. PICK x \in Request : x = req[s] /\ LocalInv(x) /\ KeepFits(x)
    BY <1>r DEF Inductive
  <2>2. LocalInv(x)'
    BY <1>r, <2>1, LocalGrows
  <2> QED BY <2>1, <2>2 DEF LocalInv
<1> QED BY <1>2 DEF Inductive, Agree

LEMMA InductiveInit == Init => Inductive
<1> SUFFICES ASSUME Init PROVE Inductive
    OBVIOUS
<1>1. TypeOK
    BY TypeInit
<1>2. \A r \in Reqs : req[r] = Idle
    BY DEF Init, StartWith
<1>3. \A r, s \in Reqs : LocalInv(req[r]) /\ Agree(req[r], req[s])
    BY <1>2, IdleInv
<1>4. \A o \in Orgs : Exists(o) => o \in LegacyOrgs
    BY DEF Init, StartWith, Exists, MembersOf, IsMember
<1>5. \A t \in Teams : teamOrg[t] \in Orgs => Exists(teamOrg[t])
    BY WorkspaceAssumption DEF Init, StartWith
<1>6. TeamsInv
    BY <1>5, WorkspaceAssumption DEF Init, StartWith, TeamsInv
<1>7. SessionOrgIsMembership
    BY WorkspaceAssumption DEF Init, StartWith, SessionOrgIsMembership
<1>8. TeamMembersAreOrgMembers
    BY WorkspaceAssumption DEF Init, StartWith, TeamMembersAreOrgMembers
<1>9. OneOwner
    BY <1>4 DEF Init, StartWith, OneOwner
<1>10. OneDefaultTeam
    BY <1>4 DEF OneDefaultTeam
<1> QED BY <1>1, <1>3, <1>6, <1>7, <1>8, <1>9, <1>10 DEF Inductive, RowsInv

-----------------------------------------------------------------------------
(* Handlers that read, and starts of handlers: Quiet.                          *)

\* Every step but the first leaves the other handlers agreeing when the team it
\* keeps, if any, is the one it kept before.
LEMMA AgreeFrame ==
    ASSUME Inductive, NEW r \in Reqs, NEW q,
           q.pc \in KeepSteps =>
                /\ req[r].pc \in KeepSteps
                /\ q.keep = req[r].keep /\ q.org = req[r].org
    PROVE  \A s \in Reqs \ {r} : Agree(req[s], q) /\ Agree(q, req[s])
<1>1. \A s \in Reqs \ {r} : Agree(req[s], req[r]) /\ Agree(req[r], req[s])
    BY DEF Inductive
<1> QED BY <1>1 DEF Agree

LEMMA ServedMember ==
    ASSUME NEW u \in Users, NEW o \in Orgs, o \in ServedIn(u)
    PROVE  IsMember(u, o)
<1> DEFINE all == {p \in Orgs : IsMember(u, p)}
<1>1. PICK hint \in tokens[u] \cup {NoOrg} : o \in PickOrgs(u, hint)
    BY Zenon DEF ServedIn
<1>2. o # NoOrg
    BY WorkspaceAssumption
<1>3. PickOrgs(u, hint) = IF hint \in all THEN {hint}
                         ELSE IF activeOrg[u] \in all THEN {activeOrg[u]}
                         ELSE IF all # {} THEN all ELSE {NoOrg}
    BY DEF PickOrgs
<1> HIDE DEF all
<1>4. o \in all
    BY <1>1, <1>2, <1>3
<1> QED BY <1>4 DEF all

LEMMA FinishInv ==
    ASSUME Inductive, TypeOK', UNCHANGED rows, NEW r \in Reqs, Finish(r)
    PROVE  Inductive'
BY IdleInv, Quiet DEF Finish

\* One step to another step of a member's handler that keeps no team.
LEMMA GotoInv ==
    ASSUME Inductive, TypeOK', UNCHANGED rows, NEW r \in Reqs, NEW q,
           req' = [req EXCEPT ![r] = q], IsMember(q.user, q.org), q.org \in Orgs,
           q.pc \in MemberSteps \ (KeepSteps \cup {"upsert", "txChoose"})
    PROVE  Inductive'
<1>1. LocalInv(q)
    BY DEF LocalInv, MemberSteps, KeepSteps
<1>2. \A s \in Reqs \ {r} : Agree(req[s], q) /\ Agree(q, req[s])
    BY DEF Agree
<1> QED BY <1>1, <1>2, Quiet

LEMMA JoinLookupInv ==
    ASSUME Inductive, TypeOK', NEW r \in Reqs, NEW u \in Users, NEW o \in Orgs,
           JoinLookup(r, u, o)
    PROVE  Inductive'
<1>1. PICK q : q = JoinRequest(u, o)
    OBVIOUS
<1>2. q.pc = "create" /\ q.org = o
    BY <1>1, JoinLocal
<1>3. LocalInv(q)
    BY <1>2 DEF JoinLookup, LocalInv, MemberSteps, KeepSteps
<1>4. \A s \in Reqs \ {r} : Agree(req[s], q) /\ Agree(q, req[s])
    BY <1>2 DEF Agree, KeepSteps
<1> QED BY <1>1, <1>3, <1>4, Quiet DEF JoinLookup, Begin

LEMMA StartTeamInv ==
    ASSUME Inductive, TypeOK', NEW r \in Reqs, NEW u \in Users, NEW o \in Orgs,
           NEW local \in Request, local.pc = "idle", local.op \in {"list", "add"},
           local.op = "add" => local.team \in Teams /\ local.target \in Users,
           StartTeamRequest(r, u, o, local)
    PROVE  Inductive'
<1>1. PICK q : q = TeamRequest(local, u, o)
    OBVIOUS
<1>2. q.pc = "reads" /\ q.user = u /\ q.org = o
    BY <1>1, TeamLocal
<1>3. IsMember(q.user, q.org) /\ q.org \in Orgs
    BY <1>2, ServedMember DEF StartTeamRequest
<1> QED BY <1>1, <1>2, <1>3, GotoInv DEF StartTeamRequest, Begin, MemberSteps, KeepSteps

LEMMA StartRoleInv ==
    ASSUME Inductive, TypeOK', NEW r \in Reqs, NEW u \in Users, NEW target \in Users,
           NEW o \in Orgs, NEW newRole \in {"MEMBER", "ADMIN"},
           StartRoleChange(r, u, o, target, newRole)
    PROVE  Inductive'
<1>1. PICK q : q = RoleRequest(u, o, target, newRole, role[o][u])
    OBVIOUS
<1>2. q.pc = "readTarget" /\ q.user = u /\ q.org = o /\ q.actorRole = role[o][u]
    BY <1>1, RoleLocal DEF StartRoleChange
<1>3. LocalInv(q)
    BY <1>2 DEF LocalInv, MemberSteps, KeepSteps, StartRoleChange
<1>4. \A s \in Reqs \ {r} : Agree(req[s], q) /\ Agree(q, req[s])
    BY <1>2 DEF Agree, KeepSteps
<1> QED BY <1>1, <1>3, <1>4, Quiet DEF StartRoleChange, Begin

LEMMA ReadRoleInv ==
    ASSUME Inductive, TypeOK', NEW r \in Reqs, ReadRoleTarget(r)
    PROVE  Inductive'
<1> DEFINE p == req[r]
<1>p. p \in Request /\ req \in [Reqs -> Request]
    BY DEF Inductive, TypeOK
<1>1. CASE Finish(r)
    BY <1>1, FinishInv DEF ReadRoleTarget
<1>2. CASE /\ MayChange(p.actorRole, role[p.org][p.target], p.newRole)
           /\ Goto(r, "write")
  <2>1. PICK q : q = [p EXCEPT !.pc = "write"]
    OBVIOUS
  <2>2. /\ q.pc = "write" /\ q.org = p.org /\ q.target = p.target
        /\ q.user = p.user /\ q.newRole = p.newRole /\ q.actorRole = p.actorRole
    BY <1>p, <2>1 DEF Request
  <2>3. role[q.org][q.target] \in {"ADMIN", "MEMBER"}
    <3>1. p.org \in Orgs /\ p.target \in Users
        BY <1>p, RequestFields DEF ReadRoleTarget, At
    <3>2. role[p.org][p.target] \in OrgRoles \cup {None}
        BY <3>1 DEF Inductive, TypeOK
    <3> QED BY <1>2, <2>2, <3>2 DEF MayChange
  <2>4. LocalInv(q)
    <3>1. p.pc = "readTarget" /\ LocalInv(p)
        BY DEF ReadRoleTarget, At, Inductive
    <3> QED BY <1>2, <2>2, <2>3, <3>1 DEF LocalInv, MemberSteps, KeepSteps, MayChange
  <2>5. \A s \in Reqs \ {r} : Agree(req[s], q) /\ Agree(q, req[s])
    BY <2>2 DEF Agree, KeepSteps
  <2>6. req' = [req EXCEPT ![r] = q]
    BY <1>2, <1>p, <2>1 DEF Goto
  <2> QED BY <2>4, <2>5, <2>6, Quiet DEF ReadRoleTarget
<1> QED BY <1>1, <1>2 DEF ReadRoleTarget

\* The reads of a member's handler, one by one.
LEMMA ReadsInv ==
    ASSUME Inductive, TypeOK', NEW r \in Reqs,
           \/ JoinFindDefault(r) \/ JoinFindOldest(r)
           \/ CountOrgMembers(r) \/ FindDefaultTeams(r) \/ ShouldRunDefaultTeamSync(r)
    PROVE  Inductive'
<1> DEFINE p == req[r]
<1>p. p \in Request /\ req \in [Reqs -> Request]
    BY DEF Inductive, TypeOK
<1>m. p.pc # "idle" => p.org \in Orgs
    BY <1>p, RequestFields
<1>1. ASSUME NEW q, req' = [req EXCEPT ![r] = q], UNCHANGED rows,
             p.pc \in MemberSteps, q.user = p.user, q.org = p.org,
             q.pc \in MemberSteps \ (KeepSteps \cup {"upsert", "txChoose"})
      PROVE  Inductive'
  <2>1. IsMember(q.user, q.org) /\ q.org \in Orgs
    BY <1>1, <1>m DEF Inductive, LocalInv, MemberSteps
  <2> QED BY <1>1, <2>1, GotoInv
<1>2. ASSUME NEW t \in Teams, teamOrg[t] = p.org, p.pc \in {"findDefault", "findOldest"},
             UNCHANGED rows, req' = [req EXCEPT ![r].pc = "upsert", ![r].keep = t]
      PROVE  Inductive'
  <2>1. PICK q : q = [p EXCEPT !.pc = "upsert", !.keep = t]
    OBVIOUS
  <2>2. q.pc = "upsert" /\ q.user = p.user /\ q.org = p.org /\ q.keep = t
    BY <1>p, <2>1 DEF Request
  <2>3. LocalInv(q)
    <3>1. LocalInv(p)
        BY DEF Inductive
    <3> QED BY <1>2, <2>2, <3>1 DEF LocalInv, MemberSteps, KeepSteps
  <2>4. \A s \in Reqs \ {r} : Agree(req[s], q) /\ Agree(q, req[s])
    BY <2>2 DEF Agree, KeepSteps
  <2>5. req' = [req EXCEPT ![r] = q]
    BY <1>2, <1>p, <2>1
  <2> QED BY <1>2, <2>3, <2>4, <2>5, Quiet
<1>3. CASE JoinFindDefault(r)
  <2>1. CASE DefaultsOf(p.org) = {} /\ Goto(r, "findOldest")
    <3>1. PICK q : q = [p EXCEPT !.pc = "findOldest"]
        OBVIOUS
    <3>2. q.pc = "findOldest" /\ q.user = p.user /\ q.org = p.org
        BY <1>p, <3>1 DEF Request
    <3>3. req' = [req EXCEPT ![r] = q]
        BY <1>p, <2>1, <3>1 DEF Goto
    <3> QED BY <1>1, <1>3, <3>2, <3>3 DEF JoinFindDefault, At, MemberSteps, KeepSteps
  <2> QED BY <1>2, <1>3, <2>1 DEF JoinFindDefault, At, DefaultsOf, TeamsOf
<1>4. CASE JoinFindOldest(r)
  <2>1. CASE TeamsOf(p.org) = {} /\ Goto(r, "activate")
    <3>1. PICK q : q = [p EXCEPT !.pc = "activate"]
        OBVIOUS
    <3>2. q.pc = "activate" /\ q.user = p.user /\ q.org = p.org
        BY <1>p, <3>1 DEF Request
    <3>3. req' = [req EXCEPT ![r] = q]
        BY <1>p, <2>1, <3>1 DEF Goto
    <3> QED BY <1>1, <1>4, <3>2, <3>3 DEF JoinFindOldest, At, MemberSteps, KeepSteps
  <2> QED BY <1>2, <1>4, <2>1 DEF JoinFindOldest, At, IsOldest, TeamsOf
<1>5. CASE CountOrgMembers(r)
  <2>1. PICK q : q = [p EXCEPT !.count = Cardinality(MembersOf(p.org)),
                               !.pc = IF At(r, "reads") THEN "readDefaults" ELSE "decide"]
    OBVIOUS
  <2>2. q.pc \in {"readDefaults", "decide"} /\ q.user = p.user /\ q.org = p.org
    BY <1>p, <2>1 DEF Request
  <2>3. req' = [req EXCEPT ![r] = q]
    BY <1>5, <1>p, <2>1 DEF CountOrgMembers
  <2> QED BY <1>1, <1>5, <2>2, <2>3 DEF CountOrgMembers, MemberSteps, KeepSteps
<1>6. CASE FindDefaultTeams(r)
  <2>1. PICK q : q = [p EXCEPT !.seen = DefaultsOf(p.org),
                               !.pc = IF At(r, "reads") THEN "readCount" ELSE "decide"]
    OBVIOUS
  <2>2. q.pc \in {"readCount", "decide"} /\ q.user = p.user /\ q.org = p.org
    BY <1>p, <2>1 DEF Request
  <2>3. req' = [req EXCEPT ![r] = q]
    BY <1>6, <1>p, <2>1 DEF FindDefaultTeams
  <2> QED BY <1>1, <1>6, <2>2, <2>3 DEF FindDefaultTeams, MemberSteps, KeepSteps
<1>7. CASE ShouldRunDefaultTeamSync(r)
  <2>1. PICK pc \in {"txDefaults", "serve"} :
            req' = [req EXCEPT ![r].pc = pc, ![r].count = Unread, ![r].seen = {}]
    BY <1>7 DEF ShouldRunDefaultTeamSync
  <2>2. PICK q : q = [p EXCEPT !.pc = pc, !.count = Unread, !.seen = {}]
    OBVIOUS
  <2>3. q.pc = pc /\ q.user = p.user /\ q.org = p.org
    BY <1>p, <2>2 DEF Request
  <2>4. req' = [req EXCEPT ![r] = q]
    BY <1>p, <2>1, <2>2
  <2> QED BY <1>1, <1>7, <2>3, <2>4 DEF ShouldRunDefaultTeamSync, At, MemberSteps, KeepSteps
<1> QED BY <1>3, <1>4, <1>5, <1>6, <1>7

LEMMA TxReadsInv ==
    ASSUME Inductive, TypeOK', NEW r \in Reqs,
           \/ TxFindDefaults(r) \/ TxChooseDefault(r) \/ TxReadMembers(r)
    PROVE  Inductive'
<1> DEFINE p == req[r]
<1>p. p \in Request /\ req \in [Reqs -> Request] /\ LocalInv(p)
    BY DEF Inductive, TypeOK
<1>m. p.pc # "idle" => p.org \in Orgs /\ p.user \in Users
    BY <1>p, RequestFields
<1>o. p.org \in Orgs => p.org # NoOrg
    BY WorkspaceAssumption
<1>1. CASE TxFindDefaults(r)
  <2>1. PICK q : q = [p EXCEPT !.pc = "txChoose", !.seen = DefaultsOf(p.org)]
    OBVIOUS
  <2>2. /\ q.pc = "txChoose" /\ q.user = p.user /\ q.org = p.org
        /\ q.seen = DefaultsOf(p.org)
    BY <1>p, <2>1 DEF Request
  <2>3. LocalInv(q)
    BY <1>1, <1>p, <2>2 DEF LocalInv, MemberSteps, KeepSteps, TxFindDefaults, At,
        DefaultsOf, TeamsOf
  <2>4. \A s \in Reqs \ {r} : Agree(req[s], q) /\ Agree(q, req[s])
    BY <2>2 DEF Agree, KeepSteps
  <2>5. req' = [req EXCEPT ![r] = q]
    BY <1>1, <1>p, <2>1 DEF TxFindDefaults
  <2> QED BY <1>1, <2>3, <2>4, <2>5, Quiet DEF TxFindDefaults
<1>2. CASE TxReadMembers(r)
  <2>1. PICK q : q = [p EXCEPT !.pc = "txCommit",
                               !.missing = MembersOf(p.org) \ onTeam[p.keep]]
    OBVIOUS
  <2>2. /\ q.pc = "txCommit" /\ q.user = p.user /\ q.org = p.org /\ q.seen = p.seen
        /\ q.keep = p.keep /\ q.flagged = p.flagged
        /\ q.missing \subseteq MembersOf(p.org)
    BY <1>p, <2>1 DEF Request
  <2>3. LocalInv(q)
    BY <1>2, <1>p, <2>2 DEF LocalInv, MemberSteps, KeepSteps, TxReadMembers, At
  <2>4. \A s \in Reqs \ {r} : Agree(req[s], q) /\ Agree(q, req[s])
    BY <1>2, <2>2, AgreeFrame DEF TxReadMembers, At, KeepSteps
  <2>5. req' = [req EXCEPT ![r] = q]
    BY <1>2, <1>p, <2>1 DEF TxReadMembers
  <2> QED BY <1>2, <2>3, <2>4, <2>5, Quiet DEF TxReadMembers
<1>3. CASE TxChooseDefault(r)
  <2>0. p.pc = "txChoose" /\ IsMember(p.user, p.org) /\ p.org \in Orgs /\ p.user \in Users
    BY <1>3, <1>m, <1>p DEF TxChooseDefault, At, LocalInv, MemberSteps
  <2>1. PICK t \in Teams, cleared \in SUBSET Teams, flagged \in SUBSET Teams :
          Choice(r, t, cleared, flagged)
    BY <1>3, Chosen
  <2>2. PICK q : q = [p EXCEPT !.pc = "txMembers", !.keep = t,
                               !.seen = cleared, !.flagged = flagged]
    OBVIOUS
  <2>3. /\ q.pc = "txMembers" /\ q.user = p.user /\ q.org = p.org
        /\ q.keep = t /\ q.seen = cleared /\ q.flagged = flagged
    BY <1>p, <2>2 DEF Request
  <2>4. req' = [req EXCEPT ![r] = q]
    BY <1>p, <2>1, <2>2 DEF Choice
  <2>5. teamOrg[t] = p.org \/ IsNextTeam(t)
    <3>1. \A d \in p.seen : teamOrg[d] = p.org
        BY <1>p, <2>0 DEF LocalInv
    <3> QED BY <2>1, <3>1 DEF Choice, IsOldest, TeamsOf
  <2>6. teamOrg[t] \in {NoOrg, p.org}
    BY <2>5 DEF IsNextTeam, Taken
  <2>7. p.org \notin LegacyOrgs =>
            DefaultsOf(p.org) = {t} /\ cleared = {} /\ flagged = {}
    <3> SUFFICES ASSUME p.org \notin LegacyOrgs
                 PROVE  DefaultsOf(p.org) = {t} /\ cleared = {} /\ flagged = {}
        OBVIOUS
    <3>1. Exists(p.org)
        BY <2>0 DEF Exists, MembersOf
    <3>2. PICK d \in Teams : DefaultsOf(p.org) = {d}
        BY <2>0, <3>1 DEF Inductive, RowsInv, OneDefaultTeam
    <3>3. p.seen = {d}
        BY <1>p, <2>0, <3>2 DEF LocalInv
    <3>4. Cardinality(p.seen) = 1
        BY <3>3, FS_Singleton
    <3> QED BY <2>1, <3>2, <3>3, <3>4 DEF Choice, IsOldest
  <2>8. LocalInv(q)
    <3>1. \A d \in cleared : teamOrg[d] = p.org
        BY <2>1 DEF Choice, TeamsOf
    <3> QED BY <2>0, <2>1, <2>3, <2>6, <2>7, <3>1 DEF Choice, LocalInv, MemberSteps, KeepSteps
  <2>9. \A s \in Reqs \ {r} : Agree(req[s], q) /\ Agree(q, req[s])
    <3> SUFFICES ASSUME NEW s \in Reqs, req[s].pc \in KeepSteps, req[s].keep = t
                 PROVE  req[s].org = p.org
        BY <2>3 DEF Agree
    <3>1. t \in Reserved
        BY DEF Reserved, KeepSteps
    <3>2. teamOrg[t] = p.org
        BY <2>5, <3>1 DEF IsNextTeam, Taken
    <3>3. LocalInv(req[s])
        BY DEF Inductive
    <3> QED BY <1>o, <2>0, <3>2, <3>3 DEF LocalInv
  <2> QED BY <1>3, <2>4, <2>8, <2>9, Quiet DEF TxChooseDefault
<1> QED BY <1>1, <1>2, <1>3

-----------------------------------------------------------------------------
(* Handlers that write: Noisy.                                                 *)

\* Where no membership ends and no team moves, the others lose nothing.
LEMMA SameTeamsGrow ==
    ASSUME Inductive, UNCHANGED <<role, teamOrg, isDefault>>
    PROVE  Grows /\ \A s \in Reqs : KeepFits(req[s])
<1>1. Grows
    BY DEF Grows, DefaultsOf, TeamsOf
<1>2. \A s \in Reqs : KeepFits(req[s])
    BY DEF Inductive, LocalInv, KeepFits
<1> QED BY <1>1, <1>2

\* A member's role changes, or a new member comes; nobody gains or loses OWNER.
LEMMA RoleRows ==
    ASSUME Inductive, NEW o \in Orgs, NEW u \in Users, NEW v \in {"MEMBER", "ADMIN"},
           role[o][u] # "OWNER", Exists(o), role' = [role EXCEPT ![o][u] = v],
           UNCHANGED <<activeOrg, teamOrg, isDefault, onTeam, tokens>>
    PROVE  RowsInv' /\ Grows /\ \A s \in Reqs : KeepFits(req[s])
<1>t. TypeOK /\ RowsInv
    BY DEF Inductive
<1>1. /\ \A p \in Orgs, w \in Users : IsMember(w, p) => IsMember(w, p)'
      /\ \A p \in Orgs, w \in Users :
            role[p][w] \in {"ADMIN", "MEMBER"} => role'[p][w] \in {"ADMIN", "MEMBER"}
      /\ \A p \in Orgs, w \in Users : role'[p][w] = "OWNER" <=> role[p][w] = "OWNER"
      /\ \A p \in Orgs \ {o} : \A w \in Users : role'[p][w] = role[p][w]
    BY <1>t DEF TypeOK, IsMember
<1>2. \A p \in Orgs : Exists(p)' <=> Exists(p)
    BY <1>1 DEF Exists, MembersOf, IsMember
<1>3. SessionOrgIsMembership'
    BY <1>t, <1>1 DEF RowsInv, SessionOrgIsMembership
<1>4. TeamMembersAreOrgMembers'
    BY <1>t, <1>1 DEF RowsInv, TeamMembersAreOrgMembers, TypeOK
<1>5. OneOwner'
  <2> SUFFICES ASSUME NEW p \in Orgs, Exists(p)'
               PROVE  \E w \in Users : \A x \in Users : role'[p][x] = "OWNER" <=> w = x
    BY DEF OneOwner
  <2>1. PICK w \in Users : \A x \in Users : role[p][x] = "OWNER" <=> w = x
    BY <1>t, <1>2 DEF RowsInv, OneOwner
  <2> QED BY <1>1, <2>1
<1>6. TeamsInv'
    BY <1>t, <1>2 DEF RowsInv, TeamsInv
<1>7. \A p : DefaultsOf(p)' = DefaultsOf(p)
    BY DEF DefaultsOf, TeamsOf
<1>8. OneDefaultTeam'
    BY <1>t, <1>2, <1>7 DEF RowsInv, OneDefaultTeam
<1>9. Grows
    BY <1>1, <1>7 DEF Grows, IsMember
<1>10. \A s \in Reqs : KeepFits(req[s])
    BY DEF Inductive, LocalInv, KeepFits
<1> QED BY <1>3, <1>4, <1>5, <1>6, <1>8, <1>9, <1>10 DEF RowsInv

\* Only the sessions change, or only the rosters of teams.
LEMMA SessionRows ==
    ASSUME Inductive, UNCHANGED <<role, teamOrg, isDefault>>,
           SessionOrgIsMembership', TeamMembersAreOrgMembers'
    PROVE  RowsInv'
<1>1. OneOwner' /\ TeamsInv' /\ OneDefaultTeam'
    BY DEF Inductive, RowsInv, OneOwner, TeamsInv, OneDefaultTeam, Exists, MembersOf,
        IsMember, DefaultsOf, TeamsOf
<1> QED BY <1>1 DEF RowsInv

LEMMA SessionsKeep ==
    ASSUME Inductive, UNCHANGED <<role, activeOrg, tokens>>
    PROVE  SessionOrgIsMembership'
BY DEF Inductive, RowsInv, SessionOrgIsMembership, IsMember

LEMMA RostersKeep ==
    ASSUME Inductive, UNCHANGED <<role, teamOrg, onTeam>>
    PROVE  TeamMembersAreOrgMembers'
BY DEF Inductive, RowsInv, TeamMembersAreOrgMembers, IsMember

\* A member signs in to or activates one of their organizations.
LEMMA SessionsJoin ==
    ASSUME Inductive, NEW u \in Users, NEW o \in Orgs, IsMember(u, o), UNCHANGED role,
           \/ activeOrg' = activeOrg
           \/ activeOrg' = [activeOrg EXCEPT ![u] = o],
           tokens' = [tokens EXCEPT ![u] = @ \cup {o}]
    PROVE  SessionOrgIsMembership'
<1>1. TypeOK /\ SessionOrgIsMembership
    BY DEF Inductive, RowsInv
<1> QED BY <1>1 DEF TypeOK, SessionOrgIsMembership, IsMember

LEMMA RosterJoin ==
    ASSUME Inductive, NEW t \in Teams, NEW U \in SUBSET Users, UNCHANGED <<role, teamOrg>>,
           U # {} => teamOrg[t] \in Orgs, \A u \in U : IsMember(u, teamOrg[t]),
           onTeam' = [onTeam EXCEPT ![t] = @ \cup U]
    PROVE  TeamMembersAreOrgMembers'
<1>1. TypeOK /\ TeamMembersAreOrgMembers
    BY DEF Inductive, RowsInv
<1> SUFFICES ASSUME NEW s \in Teams, NEW u \in onTeam'[s]
             PROVE  teamOrg[s] \in Orgs /\ IsMember(u, teamOrg[s])
    BY DEF TeamMembersAreOrgMembers, IsMember
<1>2. CASE u \in onTeam[s]
    BY <1>1, <1>2 DEF TeamMembersAreOrgMembers
<1>3. CASE s = t /\ u \in U
    BY <1>3
<1> QED BY <1>1, <1>2, <1>3 DEF TypeOK

LEMMA RosterAdd ==
    ASSUME Inductive, NEW t \in Teams, NEW u \in Users, UNCHANGED <<role, teamOrg>>,
           teamOrg[t] \in Orgs, IsMember(u, teamOrg[t]),
           onTeam' = [onTeam EXCEPT ![t] = @ \cup {u}]
    PROVE  TeamMembersAreOrgMembers'
<1>1. PICK U \in SUBSET Users : U = {u}
    OBVIOUS
<1> QED BY <1>1, RosterJoin

LEMMA LoginInv ==
    ASSUME Inductive, TypeOK', NEW u \in Users, Login(u)
    PROVE  Inductive'
<1>1. PICK o \in PickOrgs(u, NoOrg) \ {NoOrg} : tokens' = [tokens EXCEPT ![u] = @ \cup {o}]
    BY DEF Login
<1>2. o \in Orgs /\ IsMember(u, o)
    BY <1>1 DEF PickOrgs
<1>3. SessionOrgIsMembership' /\ TeamMembersAreOrgMembers'
    BY <1>1, <1>2, SessionsJoin, RostersKeep DEF Login
<1> QED BY <1>3, SessionRows, SameTeamsGrow, NoisyAll DEF Login

LEMMA SwitchInv ==
    ASSUME Inductive, TypeOK', NEW u \in Users, NEW o \in Orgs, SwitchActiveOrganization(u, o)
    PROVE  Inductive'
<1>1. SessionOrgIsMembership' /\ TeamMembersAreOrgMembers'
    BY SessionsJoin, RostersKeep DEF SwitchActiveOrganization
<1> QED BY <1>1, SessionRows, SameTeamsGrow, NoisyAll DEF SwitchActiveOrganization

\* A handler that finishes keeps nothing; one that goes on to a step without a
\* team keeps nothing either.
LEMMA NoisyFinish ==
    ASSUME Inductive, TypeOK', RowsInv', Grows, \A s \in Reqs : KeepFits(req[s]),
           NEW r \in Reqs, Finish(r)
    PROVE  Inductive'
<1>1. LocalInv(Idle)'
    BY WorkspaceAssumption DEF LocalInv, Idle, MemberSteps, KeepSteps
<1> QED BY <1>1, IdleInv, IdleType, Noisy DEF Finish

LEMMA NoisyGoto ==
    ASSUME Inductive, TypeOK', RowsInv', Grows, \A s \in Reqs : KeepFits(req[s]),
           NEW r \in Reqs, NEW q \in Request, req' = [req EXCEPT ![r] = q],
           IsMember(q.user, q.org)',
           q.pc \in {"findDefault", "activate", "serve"}
    PROVE  Inductive'
<1>1. LocalInv(q)'
  <2>1. q.org \in Orgs
    BY RequestFields
  <2> QED BY <2>1 DEF LocalInv, MemberSteps, KeepSteps
<1>2. \A s \in Reqs : Agree(req[s], q) /\ Agree(q, req[s])
    BY DEF Agree, KeepSteps
<1> QED BY <1>1, <1>2, Noisy

LEMMA JoinCreateInv ==
    ASSUME Inductive, TypeOK', NEW r \in Reqs, JoinCreateMember(r)
    PROVE  Inductive'
<1> DEFINE p == req[r]
<1>p. p \in Request /\ req \in [Reqs -> Request] /\ LocalInv(p) /\ TypeOK
    BY DEF Inductive, TypeOK
<1>f. p.pc = "create" /\ p.org \in Orgs /\ p.user \in Users /\ Exists(p.org)
    BY <1>p, RequestFields DEF JoinCreateMember, At, LocalInv
<1>1. CASE Finish(r) /\ UNCHANGED role
    BY <1>1, FinishInv DEF JoinCreateMember, rows
<1>2. CASE /\ ~IsMember(p.user, p.org)
           /\ role' = [role EXCEPT ![p.org][p.user] = "MEMBER"]
           /\ Goto(r, "findDefault")
  <2>1. RowsInv' /\ Grows /\ \A s \in Reqs : KeepFits(req[s])
    BY <1>2, <1>f, RoleRows DEF JoinCreateMember, IsMember
  <2>2. PICK q : q = [p EXCEPT !.pc = "findDefault"]
    OBVIOUS
  <2>3. q \in Request /\ q.pc = "findDefault" /\ q.user = p.user /\ q.org = p.org
    <3>1. q \in Request
        BY <1>p, <1>f, <2>2, LocalPc DEF Steps
    <3> QED BY <1>p, <2>2, <3>1 DEF Request
  <2>4. IsMember(q.user, q.org)'
    BY <1>2, <1>f, <1>p, <2>3 DEF IsMember, TypeOK
  <2>5. req' = [req EXCEPT ![r] = q]
    BY <1>2, <1>p, <2>2 DEF Goto
  <2> QED BY <2>1, <2>3, <2>4, <2>5, NoisyGoto
<1> QED BY <1>1, <1>2 DEF JoinCreateMember

LEMMA JoinUpsertInv ==
    ASSUME Inductive, TypeOK', NEW r \in Reqs, JoinUpsert(r)
    PROVE  Inductive'
<1> DEFINE p == req[r]
<1>p. p \in Request /\ req \in [Reqs -> Request] /\ LocalInv(p)
    BY DEF Inductive, TypeOK
<1>f. /\ p.pc = "upsert" /\ p.org \in Orgs /\ p.user \in Users
      /\ p.keep \in Teams /\ teamOrg[p.keep] = p.org /\ IsMember(p.user, p.org)
    BY <1>p, RequestFields DEF JoinUpsert, At, LocalInv, MemberSteps
<1>1. TeamMembersAreOrgMembers'
  <2>1. onTeam' = [onTeam EXCEPT ![p.keep] = @ \cup {p.user}]
    BY DEF JoinUpsert
  <2> QED BY <1>f, <2>1, RosterAdd DEF JoinUpsert
<1>2. RowsInv' /\ Grows /\ \A s \in Reqs : KeepFits(req[s])
    BY <1>1, SessionsKeep, SessionRows, SameTeamsGrow DEF JoinUpsert
<1>3. PICK q : q = [p EXCEPT !.pc = "activate"]
    OBVIOUS
<1>4. q \in Request /\ q.pc = "activate" /\ q.user = p.user /\ q.org = p.org
  <2>1. q \in Request
    BY <1>p, <1>f, <1>3, LocalPc DEF Steps
  <2> QED BY <1>p, <1>3, <2>1 DEF Request
<1>5. IsMember(q.user, q.org)'
    BY <1>f, <1>4 DEF IsMember, JoinUpsert
<1>6. req' = [req EXCEPT ![r] = q]
    BY <1>p, <1>3 DEF Goto, JoinUpsert
<1> QED BY <1>2, <1>4, <1>5, <1>6, NoisyGoto

LEMMA JoinActivateInv ==
    ASSUME Inductive, TypeOK', NEW r \in Reqs, JoinActivate(r)
    PROVE  Inductive'
<1> DEFINE p == req[r]
<1>p. p \in Request /\ LocalInv(p)
    BY DEF Inductive, TypeOK
<1>f. p.org \in Orgs /\ p.user \in Users /\ IsMember(p.user, p.org)
    BY <1>p, RequestFields DEF JoinActivate, At, LocalInv, MemberSteps
<1>1. SessionOrgIsMembership' /\ TeamMembersAreOrgMembers'
    BY <1>f, SessionsJoin, RostersKeep DEF JoinActivate
<1> QED BY <1>1, SessionRows, SameTeamsGrow, NoisyFinish DEF JoinActivate

LEMMA AddMemberInv ==
    ASSUME Inductive, TypeOK', NEW r \in Reqs, AddMember(r)
    PROVE  Inductive'
<1> DEFINE p == req[r]
<1>p. p \in Request
    BY DEF Inductive, TypeOK
<1>f. p.org \in Orgs /\ p.target \in Users /\ p.team \in Teams
    BY <1>p, RequestFields DEF AddMember, At
<1>1. TeamMembersAreOrgMembers'
  <2>1. CASE onTeam' = onTeam
    BY <2>1, RostersKeep DEF AddMember
  <2>2. CASE /\ teamOrg[p.team] = p.org /\ IsMember(p.target, p.org)
             /\ onTeam' = [onTeam EXCEPT ![p.team] = @ \cup {p.target}]
    BY <1>f, <2>2, RosterAdd DEF AddMember
  <2> QED BY <2>1, <2>2 DEF AddMember
<1> QED BY <1>1, SessionsKeep, SessionRows, SameTeamsGrow, NoisyFinish DEF AddMember

LEMMA RemoveMemberInv ==
    ASSUME Inductive, TypeOK', NEW u \in Users, NEW o \in Orgs, NEW t \in Teams,
           NEW m \in Users, RemoveTeamMember(u, o, t, m)
    PROVE  Inductive'
<1>1. TeamMembersAreOrgMembers'
  <2>1. TypeOK /\ TeamMembersAreOrgMembers
    BY DEF Inductive, RowsInv
  <2> QED BY <2>1 DEF TypeOK, TeamMembersAreOrgMembers, RemoveTeamMember, IsMember
<1> QED BY <1>1, SessionsKeep, SessionRows, SameTeamsGrow, NoisyAll DEF RemoveTeamMember

LEMMA WriteRoleInv ==
    ASSUME Inductive, TypeOK', NEW r \in Reqs, WriteRole(r)
    PROVE  Inductive'
<1> DEFINE p == req[r]
<1>p. p \in Request /\ LocalInv(p)
    BY DEF Inductive, TypeOK
<1>f. /\ p.org \in Orgs /\ p.target \in Users /\ p.newRole \in {"MEMBER", "ADMIN"}
      /\ role[p.org][p.target] \in {"ADMIN", "MEMBER"}
    BY <1>p, RequestFields DEF WriteRole, At, LocalInv
<1>1. Exists(p.org)
    BY <1>f DEF Exists, MembersOf, IsMember
<1>2. RowsInv' /\ Grows /\ \A s \in Reqs : KeepFits(req[s])
  <2>1. role' = [role EXCEPT ![p.org][p.target] = p.newRole]
    BY DEF WriteRole
  <2> HIDE DEF p
  <2> QED BY <1>f, <1>1, <2>1, RoleRows DEF WriteRole
<1> QED BY <1>2, NoisyFinish DEF WriteRole

\* A team nobody has, nor is about to have, is not a default team, has no
\* members, and is kept by no transaction.
LEMMA NextTeamIsNew ==
    ASSUME Inductive, NEW t \in Teams, IsNextTeam(t)
    PROVE  /\ teamOrg[t] = NoOrg /\ t \notin isDefault /\ onTeam[t] = {}
           /\ \A s \in Reqs : req[s].pc \in KeepSteps => req[s].keep # t
<1>1. teamOrg[t] = NoOrg /\ t \notin Reserved
    BY DEF IsNextTeam, Taken
<1>2. t \notin isDefault
    BY <1>1, WorkspaceAssumption DEF Inductive, RowsInv, TeamsInv
<1>3. onTeam[t] = {}
    BY <1>1, WorkspaceAssumption DEF Inductive, RowsInv, TeamMembersAreOrgMembers
<1>4. \A s \in Reqs : req[s].pc \in KeepSteps => req[s].keep # t
    BY <1>1 DEF Reserved, KeepSteps
<1> QED BY <1>1, <1>2, <1>3, <1>4

LEMMA CreateTeamInv ==
    ASSUME Inductive, TypeOK', NEW u \in Users, NEW o \in Orgs, CreateTeam(u, o)
    PROVE  Inductive'
<1>t. TypeOK /\ RowsInv
    BY DEF Inductive
<1>1. PICK t \in Teams : IsNextTeam(t) /\ teamOrg' = [teamOrg EXCEPT ![t] = o]
    BY DEF CreateTeam
<1>2. /\ teamOrg[t] = NoOrg /\ t \notin isDefault /\ onTeam[t] = {}
      /\ \A s \in Reqs : req[s].pc \in KeepSteps => req[s].keep # t
    BY <1>1, NextTeamIsNew
<1>3. \A s \in Teams : teamOrg'[s] = IF s = t THEN o ELSE teamOrg[s]
    BY <1>1, <1>t DEF TypeOK
<1>4. \A p \in Orgs : DefaultsOf(p)' = DefaultsOf(p)
    BY <1>2, <1>3 DEF DefaultsOf, TeamsOf, CreateTeam
<1>5. \A p \in Orgs : Exists(p)' <=> Exists(p)
    BY DEF Exists, MembersOf, IsMember, CreateTeam
<1>6. Exists(o)
    BY ServedMember DEF CreateTeam, Exists, MembersOf
<1>7. SessionOrgIsMembership'
    BY SessionsKeep DEF CreateTeam
<1>8. TeamMembersAreOrgMembers'
    BY <1>t, <1>2, <1>3 DEF RowsInv, TeamMembersAreOrgMembers, IsMember, CreateTeam
<1>9. OneOwner' /\ OneDefaultTeam'
    BY <1>t, <1>4, <1>5 DEF RowsInv, OneOwner, OneDefaultTeam, CreateTeam
<1>10. TeamsInv'
    BY <1>t, <1>3, <1>5, <1>6 DEF RowsInv, TeamsInv, CreateTeam
<1>11. Grows
    BY <1>2, <1>3, <1>4, WorkspaceAssumption DEF Grows, CreateTeam
<1>12. \A s \in Reqs : KeepFits(req[s])
  <2> SUFFICES ASSUME NEW s \in Reqs, req[s].pc \in KeepSteps
               PROVE  teamOrg'[req[s].keep] \in {NoOrg, req[s].org}
    BY DEF KeepFits
  <2>1. LocalInv(req[s])
    BY DEF Inductive
  <2> QED BY <1>2, <1>3, <2>1 DEF LocalInv
<1> QED BY <1>7, <1>8, <1>9, <1>10, <1>11, <1>12, NoisyAll DEF RowsInv, CreateTeam

LEMMA CreateForUserInv ==
    ASSUME Inductive, TypeOK', NEW u \in Users, NEW o \in Orgs, CreateForUser(u, o)
    PROVE  Inductive'
<1>t. TypeOK /\ RowsInv
    BY DEF Inductive
<1>1. PICK t \in Teams : /\ IsNextTeam(t)
                         /\ teamOrg' = [teamOrg EXCEPT ![t] = o]
                         /\ isDefault' = isDefault \cup {t}
                         /\ onTeam' = [onTeam EXCEPT ![t] = @ \cup {u}]
    BY DEF CreateForUser
<1>2. /\ teamOrg[t] = NoOrg /\ t \notin isDefault /\ onTeam[t] = {}
      /\ \A s \in Reqs : req[s].pc \in KeepSteps => req[s].keep # t
    BY <1>1, NextTeamIsNew
<1>3. \A s \in Teams : /\ teamOrg'[s] = IF s = t THEN o ELSE teamOrg[s]
                       /\ onTeam'[s] = IF s = t THEN {u} ELSE onTeam[s]
    BY <1>1, <1>2, <1>t DEF TypeOK
<1>4. \A v \in Users : role[o][v] = None
    BY DEF CreateForUser, Exists, MembersOf, IsMember
<1>5. /\ \A v \in Users : role'[o][v] = IF v = u THEN "OWNER" ELSE None
      /\ \A p \in Orgs \ {o} : \A v \in Users : role'[p][v] = role[p][v]
    BY <1>t, <1>4 DEF TypeOK, CreateForUser
<1>6. /\ \A p \in Orgs, v \in Users : IsMember(v, p) => IsMember(v, p)'
      /\ \A p \in Orgs \ {o} : Exists(p)' <=> Exists(p)
      /\ IsMember(u, o)' /\ Exists(o)'
    BY <1>4, <1>5 DEF IsMember, Exists, MembersOf
<1>7. \A s \in Teams : teamOrg[s] # o
    BY <1>t DEF RowsInv, TeamsInv, CreateForUser
<1>8. /\ DefaultsOf(o)' = {t}
      /\ \A p \in Orgs \ {o} : DefaultsOf(p)' = DefaultsOf(p)
    BY <1>1, <1>2, <1>3, <1>7, WorkspaceAssumption DEF DefaultsOf, TeamsOf
<1>9. SessionOrgIsMembership'
  <2>1. /\ activeOrg' = [activeOrg EXCEPT ![u] = o]
        /\ tokens' = [tokens EXCEPT ![u] = @ \cup {o}]
    BY DEF CreateForUser
  <2>2. \A v \in Users, p \in Orgs :
            activeOrg'[v] = p \/ p \in tokens'[v] =>
                \/ v = u /\ p = o
                \/ activeOrg[v] = p \/ p \in tokens[v]
    BY <1>t, <2>1 DEF TypeOK
  <2>3. \A v \in Users, p \in Orgs :
            activeOrg[v] = p \/ p \in tokens[v] => IsMember(v, p)
    BY <1>t DEF RowsInv, SessionOrgIsMembership
  <2> QED BY <1>6, <2>2, <2>3 DEF SessionOrgIsMembership
<1>10. TeamMembersAreOrgMembers'
  <2>1. \A s \in Teams : \A v \in onTeam[s] :
            v \in Users /\ teamOrg[s] \in Orgs /\ IsMember(v, teamOrg[s])
    BY <1>t DEF RowsInv, TeamMembersAreOrgMembers, TypeOK
  <2>2. \A s \in Teams : \A v \in onTeam'[s] :
            teamOrg'[s] \in Orgs /\ role'[teamOrg'[s]][v] # None
    BY <1>2, <1>3, <1>6, <2>1 DEF IsMember
  <2> QED BY <2>2 DEF TeamMembersAreOrgMembers, IsMember
<1>11. OneOwner'
  <2> SUFFICES ASSUME NEW p \in Orgs, Exists(p)'
               PROVE  \E w \in Users : \A x \in Users : role'[p][x] = "OWNER" <=> w = x
    BY DEF OneOwner
  <2>1. CASE p = o
    BY <1>5, <2>1
  <2>2. CASE p # o
    <3>1. PICK w \in Users : \A x \in Users : role[p][x] = "OWNER" <=> w = x
        BY <1>t, <1>6, <2>2 DEF RowsInv, OneOwner
    <3> QED BY <1>5, <2>2, <3>1
  <2> QED BY <2>1, <2>2
<1>12. OneDefaultTeam'
    BY <1>t, <1>6, <1>8 DEF RowsInv, OneDefaultTeam
<1>13. TeamsInv'
    BY <1>t, <1>1, <1>3, <1>6 DEF RowsInv, TeamsInv
<1>14. Grows
  <2>1. \A s \in Teams : teamOrg[s] \in Orgs => teamOrg'[s] = teamOrg[s]
    BY <1>2, <1>3, WorkspaceAssumption
  <2>2. \A p \in Orgs : Exists(p) => DefaultsOf(p)' = DefaultsOf(p)
    BY <1>8 DEF CreateForUser
  <2>3. \A p \in Orgs, v \in Users :
            /\ role[p][v] # None => role'[p][v] # None
            /\ role[p][v] \in {"ADMIN", "MEMBER"} => role'[p][v] \in {"ADMIN", "MEMBER"}
            /\ role[p][v] = "OWNER" => role'[p][v] = "OWNER"
    BY <1>4, <1>5
  <2> QED BY <2>1, <2>2, <2>3 DEF Grows
<1>15. \A s \in Reqs : KeepFits(req[s])
  <2> SUFFICES ASSUME NEW s \in Reqs, req[s].pc \in KeepSteps
               PROVE  teamOrg'[req[s].keep] \in {NoOrg, req[s].org}
    BY DEF KeepFits
  <2>1. LocalInv(req[s])
    BY DEF Inductive
  <2> QED BY <1>2, <1>3, <2>1 DEF LocalInv
<1> QED BY <1>9, <1>10, <1>11, <1>12, <1>13, <1>14, <1>15, NoisyAll DEF RowsInv, CreateForUser

\* The backfill of an organization founded through the API adds members only:
\* the flags it clears and sets are those of legacy organizations.
LEMMA TxCommitInv ==
    ASSUME Inductive, TypeOK', NEW r \in Reqs, TxCommit(r)
    PROVE  Inductive'
<1> DEFINE p == req[r]
           k == p.keep
           o == p.org
<1>t. p \in Request /\ req \in [Reqs -> Request] /\ LocalInv(p) /\ TypeOK /\ RowsInv
    BY DEF Inductive, TypeOK
<1>f. p.pc = "txCommit" /\ o \in Orgs /\ p.user \in Users /\ IsMember(p.user, o)
    BY <1>t, RequestFields DEF TxCommit, At, LocalInv, MemberSteps
<1>l. /\ k \in Teams /\ teamOrg[k] \in {NoOrg, o}
      /\ p.flagged \subseteq {k} /\ p.missing \subseteq MembersOf(o)
      /\ \A t \in p.seen : teamOrg[t] = o
      /\ o \notin LegacyOrgs => DefaultsOf(o) = {k} /\ p.seen = {} /\ p.flagged = {}
    BY <1>t, <1>f DEF LocalInv, KeepSteps
<1>1. \A s \in Teams :
        /\ teamOrg'[s] = IF s = k THEN o ELSE teamOrg[s]
        /\ onTeam'[s] = IF s = k THEN onTeam[s] \cup p.missing ELSE onTeam[s]
    BY <1>t DEF TypeOK, TxCommit
<1>2. isDefault' = (isDefault \ p.seen) \cup p.flagged
    BY DEF TxCommit
<1>3. /\ \A q \in Orgs : Exists(q)' <=> Exists(q)
      /\ \A q \in Orgs, v \in Users : IsMember(v, q)' <=> IsMember(v, q)
    BY DEF Exists, MembersOf, IsMember, TxCommit
<1>4. ASSUME NEW q \in Orgs \ LegacyOrgs PROVE DefaultsOf(q)' = DefaultsOf(q)
  <2>1. CASE q = o
    <3>1. teamOrg[k] = o
        BY <1>l, <2>1 DEF DefaultsOf, TeamsOf
    <3> QED BY <1>1, <1>2, <1>l, <2>1, <3>1 DEF DefaultsOf, TeamsOf
  <2>2. CASE q # o
    <3>q. q # NoOrg
        BY <1>4, WorkspaceAssumption
    <3>1. ASSUME NEW s \in Teams PROVE teamOrg'[s] = q <=> teamOrg[s] = q
        <4>1. CASE s = k
            BY <1>1, <1>l, <2>2, <3>q, <4>1
        <4>2. CASE s # k
            BY <1>1, <4>2
        <4> QED BY <4>1, <4>2
    <3>2. \A s \in Teams : teamOrg[s] = q => s \notin p.seen /\ s \notin p.flagged
        BY <1>l, <2>2, WorkspaceAssumption
    <3> QED BY <1>2, <3>1, <3>2 DEF DefaultsOf, TeamsOf
  <2> QED BY <2>1, <2>2
<1>5. SessionOrgIsMembership'
    BY SessionsKeep DEF TxCommit
<1>6. TeamMembersAreOrgMembers'
  <2> SUFFICES ASSUME NEW s \in Teams, NEW v \in onTeam'[s]
               PROVE  teamOrg'[s] \in Orgs /\ IsMember(v, teamOrg'[s])
    BY DEF TeamMembersAreOrgMembers, IsMember, TxCommit
  <2>1. CASE v \in onTeam[s]
    <3>1. teamOrg[s] \in Orgs /\ IsMember(v, teamOrg[s])
        BY <1>t, <2>1 DEF RowsInv, TeamMembersAreOrgMembers
    <3> QED BY <1>1, <1>l, <3>1, WorkspaceAssumption
  <2>2. CASE s = k /\ v \in p.missing
    BY <1>1, <1>f, <1>l, <2>2 DEF MembersOf
  <2> QED BY <1>1, <2>1, <2>2
<1>7. OneOwner' /\ OneDefaultTeam'
    BY <1>t, <1>3, <1>4 DEF RowsInv, OneOwner, OneDefaultTeam, TxCommit
<1>8. TeamsInv'
  <2>1. Exists(o)
    BY <1>f DEF Exists, MembersOf
  <2>2. \A t \in Teams : teamOrg'[t] \in Orgs => Exists(teamOrg'[t])
    BY <1>t, <1>1, <2>1 DEF RowsInv, TeamsInv
  <2>3. \A t \in isDefault' : teamOrg'[t] \in Orgs
    <3>1. \A t \in isDefault : t \in Teams /\ teamOrg[t] \in Orgs
        BY <1>t DEF RowsInv, TeamsInv, TypeOK
    <3> QED BY <1>1, <1>2, <1>f, <1>l, <3>1
  <2> QED BY <1>3, <2>2, <2>3 DEF TeamsInv
<1>9. Grows
  <2>1. \A s \in Teams : teamOrg[s] \in Orgs => teamOrg'[s] = teamOrg[s]
    BY <1>1, <1>l, WorkspaceAssumption
  <2> QED BY <1>4, <2>1 DEF Grows, TxCommit
<1>10. \A s \in Reqs : KeepFits(req[s])
  <2> SUFFICES ASSUME NEW s \in Reqs, req[s].pc \in KeepSteps
               PROVE  teamOrg'[req[s].keep] \in {NoOrg, req[s].org}
    BY DEF KeepFits
  <2>1. LocalInv(req[s])
    BY DEF Inductive
  <2>2. req[s].keep = k => req[s].org = o
    BY <1>f DEF Inductive, Agree, KeepSteps
  <2> QED BY <1>1, <2>1, <2>2 DEF LocalInv
<1>11. PICK q : q = [p EXCEPT !.pc = "serve", !.keep = NoTeam, !.seen = {},
                              !.flagged = {}, !.missing = {}]
    OBVIOUS
<1>12. req' = [req EXCEPT ![r] = q]
    BY <1>t, <1>11 DEF TxCommit
<1>13. q \in Request /\ q.pc = "serve" /\ q.user = p.user /\ q.org = p.org
  <2>1. q.pc = "serve" /\ q.user = p.user /\ q.org = p.org
    BY <1>t, <1>11 DEF Request
  <2>2. req'[r] \in Request
    BY DEF TypeOK
  <2> QED BY <1>12, <1>t, <2>1, <2>2
<1>14. IsMember(q.user, q.org)'
    BY <1>f, <1>13 DEF IsMember, TxCommit
<1>15. RowsInv'
    BY <1>5, <1>6, <1>7, <1>8 DEF RowsInv
<1> QED
  <2> HIDE DEF p
  <2> QED BY <1>9, <1>10, <1>12, <1>13, <1>14, <1>15, NoisyGoto

-----------------------------------------------------------------------------
(* The invariant of the specification, and what it implies.                    *)

LEMMA InductiveAccount ==
    ASSUME Inductive, TypeOK', AccountStep
    PROVE  Inductive'
BY LoginInv, SwitchInv, CreateForUserInv DEF AccountStep

LEMMA InductiveJoin ==
    ASSUME Inductive, TypeOK', JoinStep
    PROVE  Inductive'
BY JoinLookupInv, JoinCreateInv, ReadsInv, JoinUpsertInv, JoinActivateInv DEF JoinStep

LEMMA InductiveTeam ==
    ASSUME Inductive, TypeOK', TeamStep
    PROVE  Inductive'
<1>1. ASSUME NEW r \in Reqs, NEW u \in Users, NEW o \in Orgs, FindAll(r, u, o)
      PROVE  Inductive'
    BY <1>1, ListLocal, StartTeamInv DEF FindAll
<1>2. ASSUME NEW r \in Reqs, NEW u \in Users, NEW o \in Orgs, NEW t \in Teams,
             NEW m \in Users, StartAddMember(r, u, o, t, m)
      PROVE  Inductive'
    BY <1>2, AddLocal, StartTeamInv DEF StartAddMember
<1>3. ASSUME NEW r \in Reqs, TeamSyncStep(r) PROVE Inductive'
  <2>1. CASE TxAbort(r) \/ ServeList(r)
    BY <2>1, FinishInv DEF TxAbort, ServeList
  <2> QED BY <1>3, <2>1, ReadsInv, TxReadsInv, TxCommitInv, AddMemberInv DEF TeamSyncStep
<1> QED BY <1>1, <1>2, <1>3, CreateTeamInv, RemoveMemberInv DEF TeamStep

LEMMA InductiveRole ==
    ASSUME Inductive, TypeOK', RoleStep
    PROVE  Inductive'
BY StartRoleInv, ReadRoleInv, WriteRoleInv DEF RoleStep

LEMMA InductiveNext == Inductive /\ [Next]_vars => Inductive'
<1> SUFFICES ASSUME Inductive, [Next]_vars PROVE Inductive'
    OBVIOUS
<1>1. TypeOK'
    BY TypeNext DEF Inductive
<1>2. CASE Restart
  <2>1. RowsInv'
    BY <1>2, RowsFrame DEF Inductive, Restart
  <2>2. \A r \in Reqs : req'[r] = Idle
    BY <1>2 DEF Restart
  <2>3. LocalInv(Idle)'
    BY WorkspaceAssumption DEF LocalInv, Idle, MemberSteps, KeepSteps
  <2>4. \A r \in Reqs : LocalInv(req[r])'
    BY <2>2, <2>3 DEF LocalInv
  <2>5. \A r, s \in Reqs : Agree(req'[r], req'[s])
    BY <2>2, IdleInv
  <2> QED BY <1>1, <2>1, <2>4, <2>5 DEF Inductive, Agree
<1>3. CASE UNCHANGED vars
  <2>1. UNCHANGED rows /\ UNCHANGED req
    BY <1>3 DEF vars, rows
  <2>2. RowsInv'
    BY <2>1, RowsFrame DEF Inductive
  <2>3. \A r \in Reqs : LocalInv(req[r])'
    <3> SUFFICES ASSUME NEW r \in Reqs PROVE LocalInv(req[r])'
        OBVIOUS
    <3>1. PICK q : q = req[r] /\ LocalInv(q)
        BY DEF Inductive
    <3>2. LocalInv(q)'
        BY <2>1, <3>1, LocalFrame
    <3> QED BY <2>1, <3>1, <3>2 DEF LocalInv
  <2> QED BY <1>1, <2>1, <2>2, <2>3 DEF Inductive, Agree
<1> QED BY <1>1, <1>2, <1>3, InductiveAccount, InductiveJoin, InductiveTeam, InductiveRole
        DEF Next

\* What each handler established by its earlier steps still holds at its next
\* one, whatever the other handlers and restarts do in between.
THEOREM InductiveCorrect == Spec => []Inductive
BY InductiveInit, InductiveNext, PTL DEF Spec

\* An active organization, and the organization a JWT names, is always one the
\* user is a member of.
THEOREM SessionsCorrect == Spec => []SessionOrgIsMembership
<1>1. Inductive => SessionOrgIsMembership
    BY DEF Inductive, RowsInv
<1> QED BY <1>1, InductiveCorrect, PTL

\* Nobody is ever on a team of an organization they do not belong to.
THEOREM TeamsCorrect == Spec => []TeamMembersAreOrgMembers
<1>1. Inductive => TeamMembersAreOrgMembers
    BY DEF Inductive, RowsInv
<1> QED BY <1>1, InductiveCorrect, PTL

\* Every organization always has exactly one OWNER.
THEOREM OwnersCorrect == Spec => []OneOwner
<1>1. Inductive => OneOwner
    BY DEF Inductive, RowsInv
<1> QED BY <1>1, InductiveCorrect, PTL

\* An organization founded through the API always has exactly one default team.
THEOREM DefaultTeamCorrect == Spec => []OneDefaultTeam
<1>1. Inductive => OneDefaultTeam
    BY DEF Inductive, RowsInv
<1> QED BY <1>1, InductiveCorrect, PTL

\* The policy, read off committed rows: the counts agree where the sets do.
LEMMA SkipSound == Inductive => SkipIsSound
<1> SUFFICES ASSUME Inductive, NEW o \in Orgs
             PROVE  LET onDefault == UNION {onTeam[t] : t \in DefaultsOf(o)}
                    IN  ~DefaultTeamSyncRequired(Cardinality(MembersOf(o)),
                                                 Cardinality(DefaultsOf(o)),
                                                 Cardinality(onDefault))
                        => MembersOf(o) \subseteq onDefault
  BY DEF SkipIsSound
<1> DEFINE onDefault == UNION {onTeam[t] : t \in DefaultsOf(o)}
<1>1. onDefault \subseteq MembersOf(o)
  BY DEF Inductive, TypeOK, RowsInv, TeamMembersAreOrgMembers, DefaultsOf, TeamsOf,
      MembersOf
<1>2. IsFiniteSet(MembersOf(o))
  BY WorkspaceAssumption, FS_Subset DEF MembersOf
<1>3. /\ IsFiniteSet(onDefault)
      /\ Cardinality(onDefault) <= Cardinality(MembersOf(o))
      /\ Cardinality(onDefault) = Cardinality(MembersOf(o)) => onDefault = MembersOf(o)
  <2> HIDE DEF onDefault
  <2> QED BY <1>1, <1>2, FS_Subset
<1>4. Cardinality(MembersOf(o)) \in Nat /\ Cardinality(onDefault) \in Nat
  <2> HIDE DEF onDefault
  <2> QED BY <1>2, <1>3, FS_CardinalityType
<1>5. Cardinality(MembersOf(o)) = 0 => MembersOf(o) = {}
  BY <1>2, FS_EmptySet
<1> HIDE DEF onDefault
<1>6. ~DefaultTeamSyncRequired(Cardinality(MembersOf(o)), Cardinality(DefaultsOf(o)),
                               Cardinality(onDefault))
      => MembersOf(o) \subseteq onDefault
  BY <1>3, <1>4, <1>5 DEF DefaultTeamSyncRequired
<1> QED BY <1>6 DEF onDefault

\* Comparing the two counts is as good as comparing the two sets: the backfill
\* is never skipped while a member is missing from the default team.
THEOREM SkipCorrect == Spec => []SkipIsSound
BY SkipSound, InductiveCorrect, PTL

\* A membership is never lost and its role changes only at the hand of a role
\* request; only the OWNER of that moment makes somebody ADMIN.
THEOREM RolesAuthorised == Spec => RoleChangesAuthorised
<1> DEFINE A == \A o \in Orgs, u \in Users :
                  role[o][u] # None /\ role'[o][u] # role[o][u] =>
                    \E r \in Reqs :
                        /\ At(r, "write") /\ req[r].org = o /\ req[r].target = u
                        /\ role'[o][u] = req[r].newRole
                        /\ req[r].newRole = "ADMIN" => role[o][req[r].user] = "OWNER"
<1>1. Inductive /\ [Next]_vars => [A]_vars
  <2> SUFFICES ASSUME Inductive, Next, NEW o \in Orgs, NEW u \in Users,
                      role[o][u] # None, role'[o][u] # role[o][u]
               PROVE  \E r \in Reqs :
                        /\ At(r, "write") /\ req[r].org = o /\ req[r].target = u
                        /\ role'[o][u] = req[r].newRole
                        /\ req[r].newRole = "ADMIN" => role[o][req[r].user] = "OWNER"
    OBVIOUS
  <2>t. role \in [Orgs -> [Users -> OrgRoles \cup {None}]] /\ req \in [Reqs -> Request]
    BY DEF Inductive, TypeOK
  <2>1. ASSUME NEW r \in Reqs, JoinCreateMember(r) PROVE FALSE
    <3>1. PICK p \in Request : p = req[r] /\ p.pc = "create"
        BY <2>1, <2>t DEF JoinCreateMember, At
    <3>2. p.org \in Orgs /\ p.user \in Users
        BY <3>1, RequestFields
    <3>3. role[p.org][p.user] = None /\ role' = [role EXCEPT ![p.org][p.user] = "MEMBER"]
        BY <2>1, <3>1 DEF JoinCreateMember, IsMember
    <3> QED BY <2>t, <3>2, <3>3
  <2>2. ASSUME NEW v \in Users, NEW p \in Orgs, CreateForUser(v, p) PROVE FALSE
    <3>1. \A w \in Users : role[p][w] = None
        BY <2>2 DEF CreateForUser, Exists, MembersOf, IsMember
    <3> QED BY <2>2, <2>t, <3>1 DEF CreateForUser
  <2>3. ASSUME NEW r \in Reqs, WriteRole(r)
        PROVE  /\ At(r, "write") /\ req[r].org = o /\ req[r].target = u
               /\ role'[o][u] = req[r].newRole
               /\ req[r].newRole = "ADMIN" => role[o][req[r].user] = "OWNER"
    <3>1. PICK p \in Request : p = req[r] /\ p.pc = "write" /\ LocalInv(p)
        BY <2>3, <2>t DEF WriteRole, At, Inductive
    <3>2. p.org \in Orgs /\ p.target \in Users
        BY <3>1, RequestFields
    <3>3. role' = [role EXCEPT ![p.org][p.target] = p.newRole]
        BY <2>3, <3>1 DEF WriteRole
    <3>4. p.org = o /\ p.target = u /\ role'[o][u] = p.newRole
        BY <2>t, <3>2, <3>3
    <3>5. p.newRole = "ADMIN" => role[p.org][p.user] = "OWNER"
        BY <3>1 DEF LocalInv
    <3> QED BY <3>1, <3>4, <3>5 DEF At
  <2>4. CASE AccountStep
    BY <2>2, <2>4 DEF AccountStep, Login, SwitchActiveOrganization
  <2>5. CASE JoinStep
    BY <2>1, <2>5 DEF JoinStep, JoinLookup, JoinFindDefault, JoinFindOldest, JoinUpsert,
        JoinActivate, rows
  <2>6. CASE TeamStep
    BY <2>6 DEF TeamStep, FindAll, StartAddMember, StartTeamRequest, CreateTeam,
        RemoveTeamMember, TeamSyncStep, CountOrgMembers, FindDefaultTeams,
        ShouldRunDefaultTeamSync, TxFindDefaults, TxChooseDefault, TxReadMembers,
        TxCommit, TxAbort, ServeList, AddMember, rows
  <2>7. CASE RoleStep
    BY <2>3, <2>7 DEF RoleStep, StartRoleChange, ReadRoleTarget, rows
  <2>8. CASE Restart
    BY <2>8 DEF Restart, rows
  <2> QED BY <2>4, <2>5, <2>6, <2>7, <2>8 DEF Next
<1> QED BY <1>1, InductiveCorrect, PTL DEF Spec, RoleChangesAuthorised
-----------------------------------------------------------------------------
(* A team request that nothing disturbs: what it read is what the database     *)
(* still says, so the decision it takes and the rows it writes fit.            *)

Repaired(o) == \E t \in Teams : DefaultsOf(o) = {t} /\ MembersOf(o) \subseteq onTeam[t]

Fresh(q) ==
    /\ q.pc \in {"readDefaults", "decide"} => q.count = Cardinality(MembersOf(q.org))
    /\ q.pc \in {"readCount", "decide", "txChoose"} => q.seen = DefaultsOf(q.org)
    /\ q.pc \in KeepSteps => (DefaultsOf(q.org) \ q.seen) \cup q.flagged = {q.keep}
    /\ q.pc = "txCommit" => q.missing = MembersOf(q.org) \ onTeam[q.keep]
    /\ q.pc = "serve" => Repaired(q.org)

Undisturbed ==
    \A r \in Reqs : alone[r] => /\ \A s \in Reqs \ {r} : At(s, "idle")
                                /\ Fresh(req[r])

LEMMA FreshFrame ==
    ASSUME NEW q, Fresh(q), UNCHANGED <<role, teamOrg, isDefault, onTeam>>
    PROVE  Fresh(q)'
BY DEF Fresh, Repaired, MembersOf, IsMember, DefaultsOf, TeamsOf

\* Steps that a local state has nothing to keep for.
LEMMA NothingRead ==
    ASSUME NEW q, q.pc \notin {"readCount", "readDefaults", "decide", "txChoose",
                               "txMembers", "txCommit", "serve"}
    PROVE  Fresh(q)'
BY DEF Fresh, KeepSteps

\* A request that is not idle is the only one that can be alone.
LEMMA OwnStep ==
    ASSUME TypeOK, Undisturbed, NEW r \in Reqs, ~At(r, "idle"),
           NEW q, req' = [req EXCEPT ![r] = q], alone' = alone,
           alone[r] => Fresh(q)'
    PROVE  Undisturbed'
<1> SUFFICES ASSUME NEW s \in Reqs, alone[s]
             PROVE  /\ \A o \in Reqs \ {s} : At(o, "idle")'
                    /\ Fresh(req[s])'
    BY DEF Undisturbed
<1>1. s = r /\ \A o \in Reqs \ {r} : At(o, "idle")
    BY DEF Undisturbed
<1>2. req'[r] = q /\ \A o \in Reqs \ {r} : req'[o] = req[o]
    BY DEF TypeOK
<1>3. Fresh(req[s])'
    BY <1>1, <1>2 DEF Fresh
<1> QED BY <1>1, <1>2, <1>3 DEF At

LEMMA Started ==
    ASSUME TypeOK, NEW r \in Reqs, NEW local, Begin(r, local),
           local.pc \in {"create", "reads", "readTarget"}
    PROVE  Undisturbed'
<1> SUFFICES ASSUME NEW s \in Reqs, alone'[s]
             PROVE  /\ \A o \in Reqs \ {s} : At(o, "idle")'
                    /\ Fresh(req[s])'
    BY DEF Undisturbed
<1>1. s = r /\ \A o \in Reqs : At(o, "idle")
    BY DEF Begin
<1>2. req'[r] = local /\ \A o \in Reqs \ {r} : req'[o] = req[o]
    BY DEF TypeOK, Begin
<1>3. Fresh(req[s])'
    BY <1>1, <1>2 DEF Fresh, KeepSteps
<1> QED BY <1>1, <1>2, <1>3 DEF At

LEMMA Disturbed ==
    ASSUME Disturb
    PROVE  Undisturbed'
BY DEF Disturb, Undisturbed

LEMMA NoRequest ==
    ASSUME Undisturbed, UNCHANGED <<role, teamOrg, isDefault, onTeam, req, alone>>
    PROVE  Undisturbed'
<1> SUFFICES ASSUME NEW r \in Reqs, alone[r]
             PROVE  /\ \A s \in Reqs \ {r} : At(s, "idle")'
                    /\ Fresh(req[r])'
    BY DEF Undisturbed
<1>1. PICK q : q = req[r] /\ Fresh(q) /\ \A s \in Reqs \ {r} : At(s, "idle")
    BY DEF Undisturbed
<1>2. Fresh(q)'
    BY <1>1, FreshFrame
<1>3. Fresh(req[r])'
    BY <1>1, <1>2 DEF Fresh
<1> QED BY <1>1, <1>3 DEF At

\* A handler moves on, or ends, where it has nothing to keep.
LEMMA MovesOn ==
    ASSUME TypeOK, Undisturbed, NEW r \in Reqs, ~At(r, "idle"), alone' = alone,
           \/ Finish(r)
           \/ \E pc \in {"findDefault", "findOldest", "upsert", "activate", "write",
                         "txDefaults"} : Goto(r, pc)
           \/ \E t \in Teams : req' = [req EXCEPT ![r].pc = "upsert", ![r].keep = t]
    PROVE  Undisturbed'
<1>1. PICK q : /\ req' = [req EXCEPT ![r] = q]
               /\ q.pc \notin {"readCount", "readDefaults", "decide", "txChoose",
                               "txMembers", "txCommit", "serve"}
  <2>1. req[r] \in Request /\ Idle.pc = "idle"
    BY DEF TypeOK, Idle
  <2>2. CASE Finish(r)
    BY <2>1, <2>2 DEF Finish
  <2>3. ASSUME NEW pc \in {"findDefault", "findOldest", "upsert", "activate", "write",
                           "txDefaults"}, Goto(r, pc)
        PROVE  \E q : /\ req' = [req EXCEPT ![r] = q]
                      /\ q.pc \notin {"readCount", "readDefaults", "decide", "txChoose",
                                      "txMembers", "txCommit", "serve"}
    <3>1. req' = [req EXCEPT ![r] = [req[r] EXCEPT !.pc = pc]]
        BY <2>3 DEF Goto
    <3>2. [req[r] EXCEPT !.pc = pc].pc = pc
        BY <2>1 DEF Request
    <3> QED BY <3>1, <3>2
  <2>4. ASSUME NEW t \in Teams, req' = [req EXCEPT ![r].pc = "upsert", ![r].keep = t]
        PROVE  \E q : /\ req' = [req EXCEPT ![r] = q]
                      /\ q.pc \notin {"readCount", "readDefaults", "decide", "txChoose",
                                      "txMembers", "txCommit", "serve"}
    <3>1. req' = [req EXCEPT ![r] = [req[r] EXCEPT !.pc = "upsert", !.keep = t]]
        BY <2>4
    <3>2. [req[r] EXCEPT !.pc = "upsert", !.keep = t].pc = "upsert"
        BY <2>1 DEF Request
    <3> QED BY <3>1, <3>2
  <2> QED BY <2>2, <2>3, <2>4
<1>2. Fresh(q)'
    BY <1>1, NothingRead
<1> QED BY <1>1, <1>2, OwnStep

\* The reads of a team request, alone: they see what the decision is about.
LEMMA FreshReads ==
    ASSUME Inductive, Undisturbed, NEW r \in Reqs,
           \/ CountOrgMembers(r) \/ FindDefaultTeams(r) \/ TxFindDefaults(r)
           \/ TxReadMembers(r)
    PROVE  Undisturbed'
<1>t. TypeOK /\ UNCHANGED <<role, teamOrg, isDefault, onTeam>> /\ alone' = alone
    BY DEF Inductive, CountOrgMembers, FindDefaultTeams, TxFindDefaults, TxReadMembers, rows
<1>i. ~At(r, "idle")
    BY DEF CountOrgMembers, FindDefaultTeams, TxFindDefaults, TxReadMembers, At
<1>p. PICK p \in Request : p = req[r]
    BY <1>t DEF TypeOK
<1>f. alone[r] => Fresh(p)
    BY <1>p DEF Undisturbed
<1>1. CASE CountOrgMembers(r)
  <2>1. PICK q : q = [p EXCEPT !.count = Cardinality(MembersOf(p.org)),
                               !.pc = IF At(r, "reads") THEN "readDefaults" ELSE "decide"]
    OBVIOUS
  <2>2. req' = [req EXCEPT ![r] = q]
    BY <1>1, <1>p, <2>1 DEF CountOrgMembers
  <2>3. /\ q.pc = IF p.pc = "reads" THEN "readDefaults" ELSE "decide"
        /\ q.org = p.org /\ q.seen = p.seen /\ q.count = Cardinality(MembersOf(p.org))
    BY <1>p, <2>1 DEF Request, At
  <2>4. p.pc \in {"reads", "readCount"}
    BY <1>1, <1>p DEF CountOrgMembers
  <2>5. alone[r] => Fresh(q)
    BY <1>f, <2>3, <2>4 DEF Fresh, KeepSteps
  <2> QED BY <1>t, <1>i, <2>2, <2>5, FreshFrame, OwnStep
<1>2. CASE FindDefaultTeams(r)
  <2>1. PICK q : q = [p EXCEPT !.seen = DefaultsOf(p.org),
                               !.pc = IF At(r, "reads") THEN "readCount" ELSE "decide"]
    OBVIOUS
  <2>2. req' = [req EXCEPT ![r] = q]
    BY <1>2, <1>p, <2>1 DEF FindDefaultTeams
  <2>3. /\ q.pc = IF p.pc = "reads" THEN "readCount" ELSE "decide"
        /\ q.org = p.org /\ q.count = p.count /\ q.seen = DefaultsOf(p.org)
    BY <1>p, <2>1 DEF Request, At
  <2>4. p.pc \in {"reads", "readDefaults"}
    BY <1>2, <1>p DEF FindDefaultTeams
  <2>5. alone[r] => Fresh(q)
    BY <1>f, <2>3, <2>4 DEF Fresh, KeepSteps
  <2> QED BY <1>t, <1>i, <2>2, <2>5, FreshFrame, OwnStep
<1>3. CASE TxFindDefaults(r)
  <2>1. PICK q : q = [p EXCEPT !.pc = "txChoose", !.seen = DefaultsOf(p.org)]
    OBVIOUS
  <2>2. req' = [req EXCEPT ![r] = q]
    BY <1>3, <1>p, <2>1 DEF TxFindDefaults
  <2>3. q.pc = "txChoose" /\ q.org = p.org /\ q.seen = DefaultsOf(p.org)
    BY <1>p, <2>1 DEF Request
  <2>4. Fresh(q)
    BY <2>3 DEF Fresh, KeepSteps
  <2> QED BY <1>t, <1>i, <2>2, <2>4, FreshFrame, OwnStep
<1>4. CASE TxReadMembers(r)
  <2>1. PICK q : q = [p EXCEPT !.pc = "txCommit",
                               !.missing = MembersOf(p.org) \ onTeam[p.keep]]
    OBVIOUS
  <2>2. req' = [req EXCEPT ![r] = q]
    BY <1>4, <1>p, <2>1 DEF TxReadMembers
  <2>3. /\ q.pc = "txCommit" /\ q.org = p.org /\ q.seen = p.seen /\ q.flagged = p.flagged
        /\ q.keep = p.keep /\ q.missing = MembersOf(p.org) \ onTeam[p.keep]
    BY <1>p, <2>1 DEF Request
  <2>4. p.pc = "txMembers"
    BY <1>4, <1>p DEF TxReadMembers, At
  <2>5. alone[r] => Fresh(q)
    BY <1>f, <2>3, <2>4 DEF Fresh, KeepSteps
  <2> QED BY <1>t, <1>i, <2>2, <2>5, FreshFrame, OwnStep
<1> QED BY <1>1, <1>2, <1>3, <1>4

\* The backfill is skipped only where the one default team holds every member.
LEMMA FreshDecision ==
    ASSUME Inductive, Undisturbed, NEW r \in Reqs, ShouldRunDefaultTeamSync(r)
    PROVE  Undisturbed'
<1>t. TypeOK /\ UNCHANGED <<role, teamOrg, isDefault, onTeam>> /\ alone' = alone
    BY DEF Inductive, ShouldRunDefaultTeamSync, rows
<1>p. PICK p \in Request : p = req[r] /\ p.pc = "decide"
    BY <1>t DEF TypeOK, ShouldRunDefaultTeamSync, At
<1>o. p.org \in Orgs
    BY <1>p, RequestFields
<1> DEFINE onDefault == UNION {onTeam[t] : t \in p.seen}
           required == DefaultTeamSyncRequired(p.count, Cardinality(p.seen),
                                               Cardinality(onDefault))
<1>1. PICK q : q = [p EXCEPT !.pc = IF required THEN "txDefaults" ELSE "serve",
                             !.count = Unread, !.seen = {}]
    OBVIOUS
<1>2. req' = [req EXCEPT ![r] = q]
    BY <1>p, <1>1 DEF ShouldRunDefaultTeamSync
<1>3. q.pc = (IF required THEN "txDefaults" ELSE "serve") /\ q.org = p.org
    BY <1>1 DEF Request
<1>4. ASSUME alone[r], ~required PROVE Repaired(p.org)
  <2>1. p.count = Cardinality(MembersOf(p.org)) /\ p.seen = DefaultsOf(p.org)
    BY <1>4, <1>p DEF Undisturbed, Fresh
  <2>2. MembersOf(p.org) \subseteq onDefault
    BY <1>o, <1>4, <2>1, SkipSound DEF SkipIsSound
  <2>3. Cardinality(p.seen) = 1
    BY <1>4 DEF DefaultTeamSyncRequired
  <2>4. IsFiniteSet(p.seen)
    BY <2>1, WorkspaceAssumption, FS_Subset DEF DefaultsOf, TeamsOf
  <2>5. PICK t : p.seen = {t}
    BY <2>3, <2>4, FS_Singleton
  <2>6. t \in Teams /\ DefaultsOf(p.org) = {t}
    BY <2>1, <2>5 DEF DefaultsOf, TeamsOf
  <2>7. onDefault = onTeam[t]
    BY <2>5
  <2> QED BY <2>2, <2>6, <2>7 DEF Repaired
<1> HIDE DEF required
<1>5. alone[r] => Fresh(q)
    BY <1>3, <1>4 DEF Fresh, KeepSteps
<1>6. ~At(r, "idle")
    BY <1>p DEF At
<1> QED BY <1>t, <1>2, <1>5, <1>6, FreshFrame, OwnStep

\* Whichever team the transaction keeps, its flags make it the one default.
LEMMA FreshChoice ==
    ASSUME Inductive, Undisturbed, NEW r \in Reqs, TxChooseDefault(r)
    PROVE  Undisturbed'
<1>t. TypeOK /\ UNCHANGED <<role, teamOrg, isDefault, onTeam>> /\ alone' = alone
    BY DEF Inductive, TxChooseDefault, rows
<1>p. PICK p \in Request : p = req[r] /\ p.pc = "txChoose"
    BY <1>t DEF TypeOK, TxChooseDefault, At
<1> DEFINE o == p.org
           seen == p.seen
           others(t) == IF Cardinality(seen) > 1 THEN DefaultsOf(o) \ {t} ELSE {}
           Becomes(t, cleared, flagged) ==
                req' = [req EXCEPT ![r].pc = "txMembers", ![r].keep = t,
                                   ![r].seen = cleared, ![r].flagged = flagged]
<1>0. PICK t \in Teams : \E cleared, flagged :
        /\ Becomes(t, cleared, flagged)
        /\ \/ t \in seen /\ cleared = others(t) /\ flagged = {}
           \/ seen = {} /\ flagged = {t}
    BY <1>p DEF TxChooseDefault, IsOldest
<1>1. PICK cleared, flagged :
        /\ Becomes(t, cleared, flagged)
        /\ \/ t \in seen /\ cleared = others(t) /\ flagged = {}
           \/ seen = {} /\ flagged = {t}
    BY <1>0
<1>2. PICK q : q = [p EXCEPT !.pc = "txMembers", !.keep = t,
                             !.seen = cleared, !.flagged = flagged]
    OBVIOUS
<1>3. req' = [req EXCEPT ![r] = q]
    BY <1>p, <1>1, <1>2
<1>4. /\ q.pc = "txMembers" /\ q.org = o /\ q.keep = t
      /\ q.seen = cleared /\ q.flagged = flagged
    BY <1>2 DEF Request
<1>5. ASSUME alone[r] PROVE (DefaultsOf(o) \ cleared) \cup flagged = {t}
  <2>1. seen = DefaultsOf(o)
    BY <1>5, <1>p DEF Undisturbed, Fresh
  <2>2. IsFiniteSet(seen)
    BY <2>1, WorkspaceAssumption, FS_Subset DEF DefaultsOf, TeamsOf
  <2>3. ASSUME t \in seen, ~(Cardinality(seen) > 1) PROVE seen = {t}
    <3>1. Cardinality({t}) = 1 /\ Cardinality(seen) \in Nat
        BY <2>2, FS_Singleton, FS_CardinalityType
    <3>2. /\ Cardinality({t}) <= Cardinality(seen)
          /\ Cardinality({t}) = Cardinality(seen) => {t} = seen
        BY <2>2, <2>3, FS_Subset
    <3> QED BY <2>3, <3>1, <3>2
  <2> QED BY <1>1, <2>1, <2>3
<1>6. alone[r] => Fresh(q)
    BY <1>4, <1>5 DEF Fresh, KeepSteps
<1>7. ~At(r, "idle")
    BY <1>p DEF At
<1> HIDE DEF o, seen, others, Becomes
<1> QED BY <1>t, <1>3, <1>6, <1>7, FreshFrame, OwnStep

\* The transaction commits: one default team, and every member on it.
LEMMA FreshCommit ==
    ASSUME Inductive, Undisturbed, NEW r \in Reqs, TxCommit(r)
    PROVE  Undisturbed'
<1>t. TypeOK /\ role' = role /\ alone' = alone
    BY DEF Inductive, TxCommit
<1>p. PICK p \in Request : p = req[r] /\ p.pc = "txCommit" /\ LocalInv(p)
    BY <1>t DEF TypeOK, TxCommit, At, Inductive
<1> DEFINE k == p.keep
           o == p.org
<1>o. o \in Orgs /\ o # NoOrg
    BY <1>p, RequestFields, WorkspaceAssumption
<1>k. k \in Teams /\ teamOrg[k] \in {NoOrg, o} /\ p.flagged \subseteq {k}
    BY <1>p DEF LocalInv, KeepSteps
<1>1. PICK q : q = [p EXCEPT !.pc = "serve", !.keep = NoTeam, !.seen = {},
                             !.flagged = {}, !.missing = {}]
    OBVIOUS
<1>2. req' = [req EXCEPT ![r] = q]
    BY <1>p, <1>1 DEF TxCommit
<1>3. q.pc = "serve" /\ q.org = o
    BY <1>1 DEF Request
<1>4. ASSUME alone[r] PROVE Repaired(o)'
  <2>1. (DefaultsOf(o) \ p.seen) \cup p.flagged = {k} /\ p.missing = MembersOf(o) \ onTeam[k]
    BY <1>4, <1>p DEF Undisturbed, Fresh, KeepSteps
  <2>2. \A s \in Teams :
          /\ teamOrg'[s] = IF s = k THEN o ELSE teamOrg[s]
          /\ onTeam'[s] = IF s = k THEN onTeam[s] \cup p.missing ELSE onTeam[s]
    BY <1>t, <1>p DEF TypeOK, TxCommit
  <2>3. isDefault' = (isDefault \ p.seen) \cup p.flagged
    BY <1>p DEF TxCommit
  <2>4. \A s \in isDefault : teamOrg[s] \in Orgs
    BY DEF Inductive, RowsInv, TeamsInv
  <2>5. DefaultsOf(o)' = {k}
    <3>1. ASSUME NEW s \in Teams PROVE s \in DefaultsOf(o)' <=> s = k
      <4>1. s \in DefaultsOf(o)' <=> teamOrg'[s] = o /\ s \in isDefault'
        BY DEF DefaultsOf, TeamsOf
      <4>2. s \in DefaultsOf(o) <=> teamOrg[s] = o /\ s \in isDefault
        BY DEF DefaultsOf, TeamsOf
      <4>3. CASE s = k
        BY <1>o, <1>k, <2>1, <2>2, <2>3, <2>4, <4>1, <4>2, <4>3
      <4>4. CASE s # k
        BY <1>k, <2>1, <2>2, <2>3, <4>1, <4>2, <4>4
      <4> QED BY <4>3, <4>4
    <3>2. DefaultsOf(o)' \subseteq Teams
        BY DEF DefaultsOf, TeamsOf
    <3> QED BY <1>k, <3>1, <3>2
  <2>6. MembersOf(o)' \subseteq onTeam'[k]
    BY <1>t, <1>k, <2>1, <2>2 DEF MembersOf, IsMember
  <2> QED BY <1>k, <2>5, <2>6 DEF Repaired
<1>5. alone[r] => Fresh(q)'
    BY <1>3, <1>4 DEF Fresh, KeepSteps
<1>6. ~At(r, "idle")
    BY <1>p DEF At
<1> HIDE DEF k, o
<1> QED BY <1>t, <1>2, <1>5, <1>6, OwnStep

LEMMA UndisturbedJoin ==
    ASSUME Inductive, Undisturbed, JoinStep
    PROVE  Undisturbed'
<1>t. TypeOK
    BY DEF Inductive
<1>1. ASSUME NEW r \in Reqs, NEW u \in Users, NEW o \in Orgs, JoinLookup(r, u, o)
      PROVE  Undisturbed'
  <2>1. JoinRequest(u, o).pc = "create"
    BY DEF JoinRequest, Idle
  <2> QED BY <1>t, <1>1, <2>1, Started DEF JoinLookup
<1>2. ASSUME NEW r \in Reqs,
             \/ JoinCreateMember(r) \/ JoinFindDefault(r) \/ JoinFindOldest(r)
             \/ JoinUpsert(r) \/ JoinActivate(r)
      PROVE  Undisturbed'
  <2>1. ~At(r, "idle") /\ alone' = alone
    BY <1>2 DEF JoinCreateMember, JoinFindDefault, JoinFindOldest, JoinUpsert, JoinActivate,
        At
  <2>2. \/ Finish(r)
        \/ \E pc \in {"findDefault", "findOldest", "upsert", "activate", "write",
                      "txDefaults"} : Goto(r, pc)
        \/ \E t \in Teams : req' = [req EXCEPT ![r].pc = "upsert", ![r].keep = t]
    BY <1>2 DEF JoinCreateMember, JoinFindDefault, JoinFindOldest, JoinUpsert, JoinActivate,
        DefaultsOf, TeamsOf
  <2> QED BY <1>t, <2>1, <2>2, MovesOn
<1> QED BY <1>1, <1>2 DEF JoinStep

LEMMA UndisturbedTeam ==
    ASSUME Inductive, Undisturbed, TeamStep
    PROVE  Undisturbed'
<1>t. TypeOK
    BY DEF Inductive
<1>1. ASSUME NEW r \in Reqs, NEW u \in Users, NEW o \in Orgs, NEW local,
             TeamRequest(local, u, o).pc = "reads", StartTeamRequest(r, u, o, local)
      PROVE  Undisturbed'
    BY <1>t, <1>1, Started DEF StartTeamRequest
<1>2. ASSUME NEW r \in Reqs, NEW u \in Users, NEW o \in Orgs,
             \/ FindAll(r, u, o)
             \/ \E t \in Teams, m \in Users : StartAddMember(r, u, o, t, m)
      PROVE  Undisturbed'
  <2>1. TeamRequest(List, u, o).pc = "reads"
    BY DEF TeamRequest, List, Idle
  <2>2. \A t \in Teams, m \in Users : TeamRequest(Add(t, m), u, o).pc = "reads"
    BY DEF TeamRequest, Add, Idle
  <2> QED BY <1>1, <1>2, <2>1, <2>2 DEF FindAll, StartAddMember
<1>3. ASSUME NEW r \in Reqs, TxAbort(r) \/ ServeList(r) \/ AddMember(r)
      PROVE  Undisturbed'
  <2>1. ~At(r, "idle") /\ alone' = alone /\ Finish(r)
    BY <1>3 DEF TxAbort, ServeList, AddMember, At
  <2> QED BY <1>t, <2>1, MovesOn
<1>4. ASSUME NEW u \in Users, NEW o \in Orgs,
             CreateTeam(u, o) \/ \E t \in Teams, m \in Users : RemoveTeamMember(u, o, t, m)
      PROVE  Undisturbed'
    BY <1>4, Disturbed DEF CreateTeam, RemoveTeamMember
<1> QED BY <1>2, <1>3, <1>4, FreshReads, FreshDecision, FreshChoice, FreshCommit
        DEF TeamStep, TeamSyncStep

LEMMA UndisturbedRole ==
    ASSUME Inductive, Undisturbed, RoleStep
    PROVE  Undisturbed'
<1>t. TypeOK
    BY DEF Inductive
<1>1. ASSUME NEW r \in Reqs, NEW u \in Users, NEW target \in Users, NEW o \in Orgs,
             NEW newRole \in {"MEMBER", "ADMIN"}, StartRoleChange(r, u, o, target, newRole)
      PROVE  Undisturbed'
  <2>1. RoleRequest(u, o, target, newRole, role[o][u]).pc = "readTarget"
    BY DEF RoleRequest, Idle
  <2> QED BY <1>t, <1>1, <2>1, Started DEF StartRoleChange
<1>2. ASSUME NEW r \in Reqs, ReadRoleTarget(r) \/ WriteRole(r)
      PROVE  Undisturbed'
  <2>1. ~At(r, "idle") /\ alone' = alone /\ (Goto(r, "write") \/ Finish(r))
    BY <1>2 DEF ReadRoleTarget, WriteRole, At
  <2> QED BY <1>t, <2>1, MovesOn
<1> QED BY <1>1, <1>2 DEF RoleStep

LEMMA UndisturbedNext == Inductive /\ Undisturbed /\ [Next]_vars => Undisturbed'
<1> SUFFICES ASSUME Inductive, Undisturbed, [Next]_vars PROVE Undisturbed'
    OBVIOUS
<1>1. CASE AccountStep
  <2>1. \/ Disturb
        \/ UNCHANGED <<role, teamOrg, isDefault, onTeam, req, alone>>
    BY <1>1 DEF AccountStep, Login, SwitchActiveOrganization, CreateForUser
  <2> QED BY <2>1, Disturbed, NoRequest
<1>2. CASE Restart
    BY <1>2, Disturbed DEF Restart
<1>3. CASE UNCHANGED vars
    BY <1>3, NoRequest DEF vars
<1> QED BY <1>1, <1>2, <1>3, UndisturbedJoin, UndisturbedTeam, UndisturbedRole DEF Next

\* A team request that ran alone leaves exactly one default team with every
\* member of the organization on it, whatever the requests before it, crashed
\* ones included, had left behind.
THEOREM RepairCorrect == Spec => []UndisturbedRequestRepairs
<1>1. Init => Undisturbed
    BY DEF Init, StartWith, Undisturbed
<1>2. Undisturbed => UndisturbedRequestRepairs
    BY DEF Undisturbed, Fresh, Repaired, UndisturbedRequestRepairs, At
<1> QED BY <1>1, <1>2, UndisturbedNext, InductiveCorrect, PTL DEF Spec
=============================================================================
