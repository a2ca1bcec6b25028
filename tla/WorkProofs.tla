------------------------------ MODULE WorkProofs ------------------------------
(***************************************************************************)
(* Whatever requests of other organizations do between its queries, a      *)
(* request writes only rows of its own organization and lets them name     *)
(* only rows of that organization, but for the project of a comment, time  *)
(* entry or file that is created under a task as well: nobody looks it up, *)
(* and the row crosses (crossed).  Nothing spreads from such rows.         *)
(***************************************************************************)
EXTENDS Reads, SequenceTheorems, TLAPS

\* The queries a request has still to make.
Pending(todo) == {todo[j] : j \in 1..Len(todo)}

\* The kinds that may be created under a task and a project, of which only the
\* task is looked up then.
TwoParents == {"comment", "entry", "file"}
WithTask(r, k) == r.act = "create" /\ k[r.id] \in TwoParents /\ r.new["task"] # None

\* A column names a row of the kind it is called after.
Called(new, k) == \A c \in Columns : new[c] # None => k[new[c]] = c

\* What is known of a request: a row it names is of its organization or will be
\* looked up; so is the row it is for, if not by itself then by a row of the
\* same organization.  k, h and x stand for kind, home and crossed.
NamesHonest(r, k, h) ==
    \A c \in Columns : \/ r.new[c] = None
                       \/ h[r.new[c]] = r.org
                       \/ c \in Pending(r.todo)
                       \/ c = "project" /\ WithTask(r, k)

TargetHonest(r, k, h, x) ==
    \/ h[r.id] = r.org
    \/ r.id \in x
    \/ k[r.id] # "comment" /\ Pending(r.todo) \intersect {"self", "linked"} # {}
    \/ \E c \in Columns \intersect Pending(r.todo) : r.new[c] # None /\ h[r.new[c]] = h[r.id]

Hangs(new) == new["task"] # None \/ new["project"] # None

Shaped(r, k) ==
    /\ k[r.id] = "comment" => r.act \in {"create", "remove"}
    /\ (k[r.id] = "comment" /\ r.act = "create") => Hangs(r.new)
    /\ (k[r.id] = "milestone" /\ "self" \in Pending(r.todo)) =>
          r.todo \in {<<"deal", "self">>, <<"self">>} /\ r.new["deal"] # None
    /\ (k[r.id] \in TwoParents /\ r.act = "update") => \A c \in Columns : r.new[c] = None

\* Taking a tag off looks up only what the tag is on.
UntagHonest(r, h) ==
    \E c \in {"task", "project"} : /\ r.new[c] # None
                                  /\ (h[r.new[c]] = r.org \/ c \in Pending(r.todo))

Honest(r, k, h, x) ==
    /\ Called(r.new, k)
    /\ r.act = "untag" => UntagHonest(r, h)
    /\ r.act # "untag" => NamesHonest(r, k, h)
    /\ r.act \notin {"untag", "bulk"} =>
          r.id \in DOMAIN k /\ TargetHonest(r, k, h, x) /\ Shaped(r, k)
    /\ r.act = "create" => h[r.id] = r.org

RequestsHonest == \A s \in Slots : reqs[s] # Idle => Honest(reqs[s], kind, home, crossed)

\* A comment hangs on a task or a project.
CommentsHang == \A i \in Rows : (kind[i] = "comment" /\ Live(i)) => Hangs(ref[i])

\* Nothing hangs on the rows that name a project of another organization.
RowsCalled == \A i \in Rows : Called(ref[i], kind)
CrossedHang == \A i \in crossed : kind[i] \in TwoParents

Inductive == /\ TypeOK /\ RefsStayInOrg /\ WritesStayInOrg /\ CommentsHang
             /\ RowsCalled /\ CrossedHang /\ RequestsHonest

------------------------------------------------------------------------------
\* Sequences of queries.
LEMMA PendingTail ==
  ASSUME NEW todo \in Seq(Looks), todo # <<>>
  PROVE  /\ Tail(todo) \in Seq(Looks) /\ Head(todo) \in Looks
         /\ Pending(todo) = {Head(todo)} \union Pending(Tail(todo))
  <1>1. Len(todo) \in Nat \ {0} /\ Len(Tail(todo)) = Len(todo) - 1 /\ Tail(todo) \in Seq(Looks)
    BY LenProperties
  <1>2. \A j \in 1..Len(Tail(todo)) : Tail(todo)[j] = todo[j + 1]
    OBVIOUS
  <1>3. Head(todo) = todo[1]
    OBVIOUS
  <1>4. \A j \in 1..Len(todo) : j = 1 \/ (j - 1 \in 1..Len(Tail(todo)) /\ todo[j] = Tail(todo)[j - 1])
    BY <1>1, <1>2
  <1>5. Head(todo) \in Looks
    BY <1>1, <1>3
  <1>6. Pending(todo) \subseteq {Head(todo)} \union Pending(Tail(todo))
    BY <1>3, <1>4 DEF Pending
  <1>7. {Head(todo)} \union Pending(Tail(todo)) \subseteq Pending(todo)
    <2>1. Head(todo) \in Pending(todo)
      BY <1>1, <1>3 DEF Pending
    <2>2. ASSUME NEW j \in 1..Len(Tail(todo)) PROVE Tail(todo)[j] \in Pending(todo)
      <3>1. j + 1 \in 1..Len(todo)
        BY <1>1
      <3> QED BY <1>2, <3>1 DEF Pending
    <2> QED BY <2>1, <2>2 DEF Pending
  <1> QED BY <1>1, <1>5, <1>6, <1>7

LEMMA PendingOne ==
  ASSUME NEW x \in Looks
  PROVE  <<x>> \in Seq(Looks) /\ Pending(<<x>>) = {x} /\ Head(<<x>>) = x /\ <<x>> # <<>>
  BY DEF Pending

LEMMA PendingNone == <<>> \in Seq(Looks) /\ Pending(<<>>) = {}
  BY DEF Pending

LEMMA PendingJoin ==
  ASSUME NEW p \in Seq(Looks), NEW q \in Seq(Looks)
  PROVE  p \o q \in Seq(Looks) /\ Pending(p \o q) = Pending(p) \union Pending(q)
  <1>1. p \o q \in Seq(Looks) /\ Len(p \o q) = Len(p) + Len(q) /\ Len(p) \in Nat /\ Len(q) \in Nat
    BY ConcatProperties, LenProperties
  <1>2. \A j \in 1..Len(p) : (p \o q)[j] = p[j]
    BY ConcatProperties, <1>1
  <1>3. \A j \in 1..Len(q) : (p \o q)[Len(p) + j] = q[j]
    BY <1>1
  <1>4. Pending(p) \subseteq Pending(p \o q)
    BY <1>1, <1>2 DEF Pending
  <1>5. Pending(q) \subseteq Pending(p \o q)
    <2> SUFFICES ASSUME NEW j \in 1..Len(q) PROVE q[j] \in Pending(p \o q)
      BY DEF Pending
    <2>1. Len(p) + j \in 1..Len(p \o q)
      BY <1>1
    <2> QED BY <1>3, <2>1 DEF Pending
  <1>6. Pending(p \o q) \subseteq Pending(p) \union Pending(q)
    <2> SUFFICES ASSUME NEW j \in 1..Len(p \o q)
                 PROVE  (p \o q)[j] \in Pending(p) \union Pending(q)
      BY DEF Pending
    <2>1. CASE j \in 1..Len(p)
      BY <1>2, <2>1 DEF Pending
    <2>2. CASE j \notin 1..Len(p)
      <3>1. j - Len(p) \in 1..Len(q) /\ Len(p) + (j - Len(p)) = j
        BY <1>1, <2>2
      <3>2. (p \o q)[j] = q[j - Len(p)]
        BY <1>3, <3>1
      <3> QED BY <3>1, <3>2 DEF Pending
    <2> QED BY <2>1, <2>2
  <1> QED BY <1>1, <1>4, <1>5, <1>6

LEMMA PendingGiven ==
  ASSUME NEW new \in Refs, NEW c \in Columns
  PROVE  /\ Given(new, c) \in Seq(Looks)
         /\ Pending(Given(new, c)) = IF new[c] = None THEN {} ELSE {c}
  <1>1. c \in Looks
    BY DEF Looks
  <1> QED BY <1>1, PendingOne, PendingNone DEF Given

\* What stands in front is looked up first.
LEMMA HeadOfJoin ==
  ASSUME NEW x \in Looks, NEW q \in Seq(Looks)
  PROVE  /\ <<x>> \o q \in Seq(Looks) /\ <<x>> \o q # <<>>
         /\ Head(<<x>> \o q) = x /\ Pending(<<x>> \o q) = {x} \union Pending(q)
  <1>1. <<x>> \o q \in Seq(Looks) /\ Pending(<<x>> \o q) = {x} \union Pending(q)
    BY PendingOne, PendingJoin
  <1>2. Len(<<x>>) = 1 /\ <<x>> \in Seq(Looks) /\ <<x>>[1] = x
    OBVIOUS
  <1>3. Len(<<x>> \o q) = 1 + Len(q) /\ Len(q) \in Nat
    BY <1>2, ConcatProperties, LenProperties
  <1>4. (<<x>> \o q)[1] = x
    BY <1>2, ConcatProperties
  <1>5. <<x>> \o q # <<>>
    BY <1>3
  <1> QED BY <1>1, <1>4, <1>5

------------------------------------------------------------------------------
\* The initial state satisfies the inductive invariant.
LEMMA InitInductive == Init => Inductive
  <1> SUFFICES ASSUME Init PROVE Inductive
    OBVIOUS
  <1>0. PICK sc \in Scenes : kind = sc.kind /\ home = sc.home
    BY DEF Init
  <1>1. kind \in [Rows -> Kinds] /\ home \in [Rows -> Orgs] /\ None \notin Rows
    BY <1>0, WorkAssumption DEF Rows
  <1>2. TypeOK
    BY <1>1 DEF Init, TypeOK, Refs, NoRef, NoAmount, NoWrite
  <1>3. /\ RefsStayInOrg /\ WritesStayInOrg /\ CommentsHang
        /\ RowsCalled /\ CrossedHang /\ RequestsHonest
    BY DEF Init, RefsStayInOrg, WritesStayInOrg, CommentsHang, RowsCalled, Called, CrossedHang,
           RequestsHonest, NoRef, NoWrite, Live
  <1> QED BY <1>2, <1>3 DEF Inductive

------------------------------------------------------------------------------
\* What a query that finds its row says of the organization.
LEMMA OwnedIsHome ==
  ASSUME NEW i, NEW org, Owned(i, org)
  PROVE  i # None /\ home[i] = org
  BY DEF Owned

LEMMA NotCrossed ==
  ASSUME Inductive, NEW i \in Rows, kind[i] \notin TwoParents
  PROVE  i \notin crossed /\ \A c \in Columns : ref[i][c] # None => home[ref[i][c]] = home[i]
  BY DEF Inductive, CrossedHang, RefsStayInOrg

LEMMA TaskIsHome ==
  ASSUME Inductive, NEW i \in Rows, NEW org, TaskIn(i, org), kind[i] = "task"
  PROVE  home[i] = org
  <1>1. ref[i]["project"] # None /\ home[ref[i]["project"]] = org
    BY OwnedIsHome DEF TaskIn
  <1>2. "project" \in Columns /\ kind[i] \notin TwoParents
    BY DEF Columns, TwoParents
  <1> QED BY <1>1, <1>2, NotCrossed

LEMMA NamedIsRow ==
  ASSUME Inductive, NEW i \in Rows, NEW c \in Columns, ref[i][c] # None
  PROVE  ref[i][c] \in Rows /\ kind[ref[i][c]] = c
  BY DEF Inductive, TypeOK, Refs, RowsCalled, Called

LEMMA InOrgIsHome ==
  ASSUME Inductive, NEW i \in Rows, NEW org, InOrg(i, org)
  PROVE  home[i] = org \/ i \in crossed
  <1>1. CASE kind[i] = "task"
    BY <1>1, TaskIsHome DEF InOrg
  <1>2. CASE kind[i] = "entry"
    <2>1. TaskIn(ref[i]["task"], org) \/ Owned(ref[i]["project"], org)
      BY <1>2 DEF InOrg, EntryIn
    <2>2. CASE TaskIn(ref[i]["task"], org)
      <3>1. ref[i]["task"] # None /\ "task" \in Columns
        BY <2>2 DEF TaskIn, Columns
      <3>2. home[ref[i]["task"]] = org
        BY <2>2, <3>1, NamedIsRow, TaskIsHome
      <3> QED BY <3>1, <3>2 DEF Inductive, RefsStayInOrg
    <2>3. CASE Owned(ref[i]["project"], org)
      BY <2>3, OwnedIsHome DEF Inductive, RefsStayInOrg, Columns
    <2> QED BY <2>1, <2>2, <2>3
  <1>3. CASE kind[i] \notin {"task", "entry"}
    <2>1. Owned(i, org)
      BY <1>3 DEF InOrg
    <2> QED BY <2>1, OwnedIsHome
  <1> QED BY <1>1, <1>2, <1>3

LEMMA ColumnIsHome ==
  ASSUME Inductive, NEW r \in Requests, Called(r.new, kind), NEW c \in Columns, Found(r, c)
  PROVE  r.new[c] \in Rows /\ home[r.new[c]] = r.org
  <1>1. c \notin {"max", "unlink", "self", "linked"} /\ r.new \in Refs
    BY DEF Columns, Requests
  <1>2. CASE c = "task"
    <2>1. TaskIn(r.new["task"], r.org)
      BY <1>1, <1>2 DEF Found
    <2>2. r.new["task"] \in Rows /\ kind[r.new["task"]] = "task"
      BY <1>1, <1>2, <2>1 DEF TaskIn, Refs, Called
    <2> QED BY <1>2, <2>1, <2>2, TaskIsHome
  <1>3. CASE c # "task"
    <2>1. Owned(r.new[c], r.org)
      BY <1>1, <1>3 DEF Found
    <2> QED BY <1>1, <2>1, OwnedIsHome DEF Refs
  <1> QED BY <1>2, <1>3

LEMMA PassedFields ==
  ASSUME NEW r \in Requests, r.todo # <<>>
  PROVE  /\ Passed(r) \in Requests /\ Passed(r).todo = Tail(r.todo)
         /\ Passed(r).act = r.act /\ Passed(r).id = r.id /\ Passed(r).org = r.org
         /\ Passed(r).new = r.new /\ Passed(r).sets = r.sets
  <1>1. Tail(r.todo) \in Seq(Looks)
    BY PendingTail DEF Requests
  <1> QED BY <1>1 DEF Passed, Requests

\* A query that finds its row leaves the request as honest as it was.
LEMMA FoundKeepsHonest ==
  ASSUME Inductive, NEW r \in Requests, r.todo # <<>>, Found(r, Head(r.todo)),
         Honest(r, kind, home, crossed)
  PROVE  Honest(Passed(r), kind, home, crossed)
  <1> DEFINE q == Passed(r)
  <1>0. Rows = DOMAIN kind /\ Called(r.new, kind)
    BY DEF Rows, Honest
  <1>1. /\ q.todo = Tail(r.todo) /\ q.act = r.act /\ q.id = r.id /\ q.org = r.org /\ q.new = r.new
        /\ r.todo \in Seq(Looks) /\ r.new \in Refs
    BY PassedFields DEF Requests
  <1> HIDE DEF q
  <1>2. Pending(r.todo) = {Head(r.todo)} \union Pending(q.todo) /\ Head(r.todo) \in Looks
    BY <1>1, PendingTail
  <1>3. ASSUME NEW c \in Columns, c = Head(r.todo) PROVE home[r.new[c]] = r.org
    BY <1>0, <1>3, ColumnIsHome
  <1>4. r.act # "untag" => NamesHonest(q, kind, home)
    BY <1>1, <1>2, <1>3 DEF Honest, NamesHonest, WithTask
  <1>5. ASSUME r.act \notin {"untag", "bulk"} PROVE r.id \in Rows /\ TargetHonest(q, kind, home, crossed) /\ Shaped(q, kind)
    <2>1. r.id \in Rows /\ TargetHonest(r, kind, home, crossed) /\ Shaped(r, kind)
      BY <1>0, <1>5 DEF Honest
    <2>2. Shaped(q, kind)
      <3>1. ASSUME kind[r.id] = "milestone", "self" \in Pending(q.todo)
            PROVE  q.todo = <<"self">>
        <4>1. r.todo \in {<<"deal", "self">>, <<"self">>}
          BY <1>2, <2>1, <3>1 DEF Shaped
        <4>2. CASE r.todo = <<"deal", "self">>
          BY <1>1, <4>2
        <4>3. CASE r.todo = <<"self">>
          <5>1. q.todo = <<>>
            BY <1>1, <4>3
          <5> QED BY <3>1, <5>1, PendingNone
        <4> QED BY <4>1, <4>2, <4>3
      <3> QED BY <1>1, <1>2, <2>1, <3>1 DEF Shaped
    <2> SUFFICES TargetHonest(q, kind, home, crossed)
      BY <2>1, <2>2
    <2>3. CASE home[r.id] = r.org \/ r.id \in crossed
      BY <1>1, <2>3 DEF TargetHonest
    <2>4. CASE kind[r.id] # "comment" /\ Pending(r.todo) \intersect {"self", "linked"} # {}
      <3>1. CASE Head(r.todo) \notin {"self", "linked"}
        BY <1>1, <1>2, <2>4, <3>1 DEF TargetHonest
      <3>2. CASE Head(r.todo) = "linked"
        <4>1. Owned(r.id, r.org)
          BY <3>2 DEF Found
        <4> QED BY <1>1, <4>1, OwnedIsHome DEF TargetHonest
      <3>3. CASE Head(r.todo) = "self" /\ kind[r.id] # "milestone"
        <4>1. InOrg(r.id, r.org)
          BY <2>4, <3>3 DEF Found
        <4> QED BY <1>1, <2>1, <4>1, InOrgIsHome DEF TargetHonest
      <3>4. CASE Head(r.todo) = "self" /\ kind[r.id] = "milestone"
        <4>1. ref[r.id]["deal"] = r.new["deal"]
          BY <3>4 DEF Found
        <4>2. r.todo = <<"self">> /\ r.new["deal"] # None
          <5>1. r.todo \in {<<"deal", "self">>, <<"self">>} /\ r.new["deal"] # None
            BY <1>2, <2>1, <3>4 DEF Shaped
          <5> QED BY <3>4, <5>1
        <4>3. home[r.new["deal"]] = r.org
          <5>1. Pending(r.todo) = {"self"}
            BY <4>2, PendingOne DEF Looks
          <5>2. "deal" \in Columns /\ "deal" \notin Pending(r.todo) /\ "deal" # "project"
            BY <5>1 DEF Columns
          <5> QED BY <1>5, <4>2, <5>2 DEF Honest, NamesHonest
        <4>4. home[r.id] = r.org
          <5>1. "deal" \in Columns /\ kind[r.id] \notin TwoParents
            BY <3>4 DEF Columns, TwoParents
          <5> QED BY <2>1, <4>1, <4>2, <4>3, <5>1, NotCrossed
        <4> QED BY <1>1, <4>4 DEF TargetHonest
      <3> QED BY <3>1, <3>2, <3>3, <3>4
    <2>5. CASE \E c \in Columns \intersect Pending(r.todo) : r.new[c] # None /\ home[r.new[c]] = home[r.id]
      <3>1. PICK c \in Columns \intersect Pending(r.todo) : r.new[c] # None /\ home[r.new[c]] = home[r.id]
        BY <2>5
      <3>2. CASE c = Head(r.todo)
        BY <1>1, <1>3, <3>1, <3>2 DEF TargetHonest
      <3>3. CASE c # Head(r.todo)
        BY <1>1, <1>2, <3>1, <3>3 DEF TargetHonest
      <3> QED BY <3>2, <3>3
    <2> QED BY <2>1, <2>3, <2>4, <2>5 DEF TargetHonest
  <1>6. r.act = "untag" => UntagHonest(q, home)
    <2> SUFFICES ASSUME r.act = "untag" PROVE UntagHonest(q, home)
      OBVIOUS
    <2>1. PICK c \in {"task", "project"} :
             r.new[c] # None /\ (home[r.new[c]] = r.org \/ c \in Pending(r.todo))
      BY DEF Honest, UntagHonest
    <2>2. home[r.new[c]] = r.org \/ c \in Pending(q.todo)
      <3>1. CASE c = Head(r.todo)
        BY <1>3, <2>1, <3>1 DEF Columns
      <3>2. CASE c # Head(r.todo)
        BY <1>2, <2>1, <3>2
      <3> QED BY <3>1, <3>2
    <2> QED BY <1>1, <2>1, <2>2 DEF UntagHonest
  <1> QED BY <1>0, <1>1, <1>4, <1>5, <1>6 DEF Honest, q

------------------------------------------------------------------------------
\* Steps of requests that write nothing.
LEMMA SameRows ==
  ASSUME UNCHANGED ids
  PROVE  /\ Rows' = Rows /\ kind' = kind /\ home' = home
         /\ Refs' = Refs /\ Requests' = Requests
  BY DEF ids, Rows, Refs, Requests

LEMMA OtherRequestsStay ==
  ASSUME Inductive, UNCHANGED ids, crossed \subseteq crossed', NEW s \in Slots, NEW q \in Requests \union {Idle},
         q # Idle => Honest(q, kind, home, crossed), reqs' = [reqs EXCEPT ![s] = q]
  PROVE  RequestsHonest' /\ reqs' \in [Slots -> Requests' \union {Idle}]
  <1>1. reqs \in [Slots -> Requests \union {Idle}]
    BY DEF Inductive, TypeOK
  <1>2. kind' = kind /\ home' = home /\ Requests' = Requests
    BY SameRows
  <1>3. ASSUME NEW r, Honest(r, kind, home, crossed) PROVE Honest(r, kind, home, crossed')
    BY <1>3 DEF Honest, TargetHonest
  <1>4. RequestsHonest'
    BY <1>1, <1>2, <1>3 DEF Inductive, RequestsHonest
  <1> QED BY <1>1, <1>2, <1>4

\* What such a step may note down.
HistoryFits ==
    /\ disk' \subseteq Rows /\ lost' \subseteq Rows /\ cut' \subseteq Rows /\ wiped' \subseteq Rows
    /\ UNCHANGED <<raced, placed, crossed>>

LEMMA QuietKeeps ==
  ASSUME Inductive, UNCHANGED <<ids, rows>>, last' = NoWrite, HistoryFits,
         RequestsHonest', reqs' \in [Slots -> Requests' \union {Idle}]
  PROVE  Inductive'
  <1>0. UNCHANGED ids /\ UNCHANGED <<st, ref, amount, rank>>
    BY DEF rows
  <1>1. Rows' = Rows /\ kind' = kind /\ home' = home /\ Refs' = Refs
    BY <1>0, SameRows
  <1>2. TypeOK'
    BY <1>0, <1>1 DEF Inductive, TypeOK, NoWrite, HistoryFits
  <1>3. RefsStayInOrg' /\ CommentsHang' /\ RowsCalled' /\ CrossedHang'
    BY <1>0, <1>1 DEF Inductive, RefsStayInOrg, CommentsHang, Hangs, Live, RowsCalled, Called,
                      CrossedHang, HistoryFits
  <1>4. WritesStayInOrg'
    BY DEF WritesStayInOrg, NoWrite
  <1> QED BY <1>2, <1>3, <1>4 DEF Inductive

LEMMA StartKeeps ==
  ASSUME Inductive, NEW r \in Requests, r.todo # <<>>,
         Found(r, Head(r.todo)) => Honest(r, kind, home, crossed), Start(r)
  PROVE  Inductive'
  <1>1. Found(r, Head(r.todo)) /\ UNCHANGED <<ids, rows, disk, history>> /\ last' = NoWrite
    BY DEF Start
  <1>2. Passed(r) \in Requests /\ Honest(Passed(r), kind, home, crossed)
    BY <1>1, PassedFields, FoundKeepsHonest
  <1>3. PICK s \in Slots : reqs' = [reqs EXCEPT ![s] = Passed(r)]
    BY DEF Start
  <1>4. RequestsHonest' /\ reqs' \in [Slots -> Requests' \union {Idle}]
    BY <1>1, <1>2, <1>3, OtherRequestsStay DEF history
  <1>5. HistoryFits
    BY <1>1 DEF Inductive, TypeOK, history, HistoryFits
  <1> QED BY <1>1, <1>4, <1>5, QuietKeeps

LEMMA RequestAt ==
  ASSUME Inductive, NEW s \in Slots, reqs[s] # Idle
  PROVE  reqs[s] \in Requests /\ Honest(reqs[s], kind, home, crossed)
  BY DEF Inductive, TypeOK, RequestsHonest

LEMMA LookKeeps ==
  ASSUME Inductive, NEW s \in Slots, Look(s) PROVE Inductive'
  <1>1. reqs[s] # Idle /\ reqs[s].todo # <<>> /\ Found(reqs[s], Head(reqs[s].todo))
        /\ UNCHANGED <<ids, rows, disk, history>> /\ last' = NoWrite
    BY DEF Look
  <1>2. reqs[s] \in Requests /\ Honest(reqs[s], kind, home, crossed)
    BY <1>1, RequestAt
  <1>3. Passed(reqs[s]) \in Requests /\ Honest(Passed(reqs[s]), kind, home, crossed)
    BY <1>1, <1>2, PassedFields, FoundKeepsHonest
  <1>4. reqs' = [reqs EXCEPT ![s] = Passed(reqs[s])]
    BY DEF Look, Inductive, TypeOK
  <1>5. RequestsHonest' /\ reqs' \in [Slots -> Requests' \union {Idle}]
    BY <1>1, <1>3, <1>4, OtherRequestsStay DEF history
  <1>6. HistoryFits
    BY <1>1 DEF Inductive, TypeOK, history, HistoryFits
  <1> QED BY <1>1, <1>5, <1>6, QuietKeeps

\* The other steps of a request that is not to write yet.
LEMMA PassingStaysHonest ==
  ASSUME NEW r \in Requests, r.todo # <<>>, Head(r.todo) \in {"max", "unlink"},
         Honest(r, kind, home, crossed)
  PROVE  Honest(Passed(r), kind, home, crossed)
  <1> DEFINE q == Passed(r)
  <1>1. /\ q.todo = Tail(r.todo) /\ q.act = r.act /\ q.id = r.id /\ q.org = r.org /\ q.new = r.new
        /\ r.todo \in Seq(Looks)
    BY PassedFields DEF Requests
  <1> HIDE DEF q
  <1>2. Pending(r.todo) = {Head(r.todo)} \union Pending(q.todo)
    BY <1>1, PendingTail
  <1>3. Head(r.todo) \notin Columns \union {"self", "linked"}
    BY DEF Columns
  <1>4. /\ r.act # "untag" => NamesHonest(q, kind, home)
        /\ r.act = "untag" => UntagHonest(q, home)
        /\ Called(q.new, kind)
    <2>1. \A c \in Columns \union {"task", "project"} : c \in Pending(r.todo) => c \in Pending(q.todo)
      BY <1>2, <1>3 DEF Columns
    <2> QED BY <1>1, <2>1 DEF Honest, NamesHonest, UntagHonest, WithTask
  <1>5. ASSUME r.act \notin {"untag", "bulk"} PROVE TargetHonest(q, kind, home, crossed)
    <2>1. TargetHonest(r, kind, home, crossed)
      BY <1>5 DEF Honest
    <2>2. Pending(q.todo) \intersect {"self", "linked"} = Pending(r.todo) \intersect {"self", "linked"}
          /\ Columns \intersect Pending(q.todo) = Columns \intersect Pending(r.todo)
      BY <1>2, <1>3
    <2> QED BY <1>1, <2>1, <2>2 DEF TargetHonest
  <1>6. ASSUME r.act \notin {"untag", "bulk"} PROVE Shaped(q, kind)
    <2>1. r.todo \notin {<<"deal", "self">>, <<"self">>}
      OBVIOUS
    <2>2. "self" \in Pending(q.todo) => "self" \in Pending(r.todo)
      BY <1>2
    <2> QED BY <1>1, <1>6, <2>1, <2>2 DEF Honest, Shaped
  <1> QED BY <1>1, <1>4, <1>5, <1>6 DEF Honest, q

LEMMA ReadMaxOrderKeeps ==
  ASSUME Inductive, NEW s \in Slots, ReadMaxOrder(s) PROVE Inductive'
  <1>1. reqs[s] # Idle /\ reqs[s].todo # <<>> /\ Head(reqs[s].todo) = "max"
        /\ UNCHANGED <<ids, rows, disk, history>> /\ last' = NoWrite
    BY DEF ReadMaxOrder, At
  <1>2. PICK n \in Places(reqs[s]) :
           reqs' = [reqs EXCEPT ![s] = [Passed(@) EXCEPT !.rank = n]]
    BY DEF ReadMaxOrder
  <1> DEFINE q == Passed(reqs[s])
             p == [q EXCEPT !.rank = n]
  <1>4. reqs[s] \in Requests /\ Honest(reqs[s], kind, home, crossed)
    BY <1>1, RequestAt
  <1>3. n \in Nat
    <2>1. reqs[s].rank \in Nat
      BY <1>4 DEF Requests
    <2>2. n = reqs[s].rank \/ n \in NextRanks(reqs[s].new["deal"])
      BY <1>2 DEF Places
    <2> QED BY <2>1, <2>2 DEF NextRanks, MilestonesOf, Of, Inductive, TypeOK
  <1>5. q \in Requests /\ Honest(q, kind, home, crossed)
    BY <1>1, <1>4, PassedFields, PassingStaysHonest
  <1>6. p \in Requests /\ p.act = q.act /\ p.id = q.id /\ p.org = q.org /\ p.new = q.new
        /\ p.todo = q.todo
    <2> HIDE DEF q
    <2> QED BY <1>3, <1>5 DEF Requests
  <1>7. reqs' = [reqs EXCEPT ![s] = p]
    BY <1>2 DEF Inductive, TypeOK
  <1> HIDE DEF q, p
  <1>8. Honest(p, kind, home, crossed)
    BY <1>5, <1>6 DEF Honest, NamesHonest, UntagHonest, TargetHonest, Shaped, WithTask
  <1>9. RequestsHonest' /\ reqs' \in [Slots -> Requests' \union {Idle}]
    BY <1>1, <1>6, <1>7, <1>8, OtherRequestsStay DEF history
  <1>10. HistoryFits
    BY <1>1 DEF Inductive, TypeOK, history, HistoryFits
  <1> QED BY <1>1, <1>9, <1>10, QuietKeeps

LEMMA UnlinkFileKeeps ==
  ASSUME Inductive, NEW s \in Slots, UnlinkFile(s) PROVE Inductive'
  <1>1. reqs[s] # Idle /\ reqs[s].todo # <<>> /\ Head(reqs[s].todo) = "unlink"
        /\ UNCHANGED <<ids, rows, history>> /\ last' = NoWrite /\ disk' \subseteq disk
    BY DEF UnlinkFile, At
  <1>2. reqs' = [reqs EXCEPT ![s] = Passed(reqs[s])]
    BY DEF UnlinkFile, Inductive, TypeOK
  <1>3. reqs[s] \in Requests /\ Honest(reqs[s], kind, home, crossed)
    BY <1>1, RequestAt
  <1>4. Passed(reqs[s]) \in Requests /\ Honest(Passed(reqs[s]), kind, home, crossed)
    BY <1>1, <1>3, PassedFields, PassingStaysHonest
  <1>5. RequestsHonest' /\ reqs' \in [Slots -> Requests' \union {Idle}]
    BY <1>1, <1>2, <1>4, OtherRequestsStay DEF history
  <1>6. HistoryFits
    BY <1>1 DEF Inductive, TypeOK, history, HistoryFits
  <1> QED BY <1>1, <1>5, <1>6, QuietKeeps

LEMMA DoneKeepsOthers ==
  ASSUME Inductive, UNCHANGED ids, crossed \subseteq crossed', NEW s \in Slots, Done(s)
  PROVE  RequestsHonest' /\ reqs' \in [Slots -> Requests' \union {Idle}]
  BY OtherRequestsStay DEF Done

LEMMA EndingKeeps ==
  ASSUME Inductive, NEW s \in Slots, Refuse(s) \/ WriteFails(s) PROVE Inductive'
  <1>1. UNCHANGED <<ids, rows, disk, history>> /\ last' = NoWrite /\ Done(s)
    BY DEF Refuse, WriteFails
  <1>2. RequestsHonest' /\ reqs' \in [Slots -> Requests' \union {Idle}]
    BY <1>1, DoneKeepsOthers DEF history
  <1>3. HistoryFits
    BY <1>1 DEF Inductive, TypeOK, history, HistoryFits
  <1> QED BY <1>1, <1>2, <1>3, QuietKeeps

LEMMA StopKeeps == ASSUME Inductive, Restart \/ Redeploy PROVE Inductive'
  <1>1. UNCHANGED <<ids, rows, lost, raced, placed, crossed>> /\ last' = NoWrite
        /\ reqs' = [s \in Slots |-> Idle]
        /\ cut' = cut \union {reqs[s].id : s \in {s \in Slots : /\ Writes(s, "remove")
                                                               /\ kind[reqs[s].id] = "file"}}
    BY DEF Restart, Redeploy, Stop
  <1>2. RequestsHonest' /\ reqs' \in [Slots -> Requests' \union {Idle}]
    BY <1>1 DEF RequestsHonest
  <1>3. cut' \subseteq Rows
    <2> SUFFICES ASSUME NEW s \in Slots, Writes(s, "remove") PROVE reqs[s].id \in Rows
      BY <1>1 DEF Inductive, TypeOK
    <2> QED BY RequestAt DEF Writes, Honest, Rows
  <1>4. disk' \subseteq Rows /\ wiped' \subseteq Rows
    BY DEF Inductive, TypeOK, Restart, Redeploy
  <1>5. HistoryFits
    BY <1>1, <1>3, <1>4 DEF Inductive, TypeOK, HistoryFits
  <1> QED BY <1>1, <1>2, <1>5, QuietKeeps

------------------------------------------------------------------------------
\* Steps that write rows.
LEMMA InsertKeeps ==
  ASSUME Inductive, NEW i \in Rows, NEW org \in Orgs, home[i] = org, kind[i] # "comment",
         st' = [st EXCEPT ![i] = "live"], last' = [ids |-> {i}, org |-> org],
         amount' \in [Rows -> [qty : Nat, price : Nat, total : Nat]],
         UNCHANGED <<ids, ref, rank, disk, reqs, history>>
  PROVE  Inductive'
  <1>1. Rows' = Rows /\ kind' = kind /\ home' = home /\ Refs' = Refs /\ Requests' = Requests
    BY SameRows
  <1>2. TypeOK'
    BY <1>1 DEF Inductive, TypeOK, history
  <1>3. /\ RefsStayInOrg' /\ WritesStayInOrg' /\ RequestsHonest'
        /\ RowsCalled' /\ CrossedHang'
    BY <1>1 DEF Inductive, RefsStayInOrg, WritesStayInOrg, RequestsHonest, RowsCalled, Called,
                CrossedHang, history
  <1>4. CommentsHang'
    BY <1>1 DEF Inductive, TypeOK, CommentsHang, Live, Hangs
  <1> QED BY <1>2, <1>3, <1>4 DEF Inductive

\* With nothing left to look up, a request names and writes only rows of its
\* organization, but for the project of a row created with a task as well.
LEMMA ReadyToWrite ==
  ASSUME NEW r \in Requests, r.todo = <<>>, Honest(r, kind, home, crossed)
  PROVE  /\ r.org \in Orgs /\ r.new \in Refs /\ Called(r.new, kind)
         /\ r.act # "untag" =>
               \A c \in Columns : \/ r.new[c] = None
                                  \/ home[r.new[c]] = r.org
                                  \/ c = "project" /\ WithTask(r, kind)
         /\ r.act \notin {"untag", "bulk"} =>
               r.id \in Rows /\ (home[r.id] = r.org \/ r.id \in crossed) /\ Shaped(r, kind)
         /\ r.act = "create" => home[r.id] = r.org
         /\ r.act = "untag" =>
               \E c \in {"task", "project"} : r.new[c] # None /\ home[r.new[c]] = r.org
  BY PendingNone DEF Honest, NamesHonest, UntagHonest, TargetHonest, Rows, Requests

LEMMA WriteCreateKeeps ==
  ASSUME Inductive, NEW s \in Slots, WriteCreate(s) PROVE Inductive'
  <1> DEFINE r == reqs[s]
  <1>1. r # Idle /\ r.todo = <<>> /\ r.act = "create"
    BY DEF WriteCreate, Writes
  <1>2. r \in Requests /\ Honest(r, kind, home, crossed)
    BY <1>1, RequestAt
  <1>3. /\ r.id \in Rows /\ home[r.id] = r.org /\ r.org \in Orgs
        /\ r.new \in Refs /\ Called(r.new, kind)
        /\ r.qty \in Nat /\ r.price \in Nat /\ r.rank \in Nat
        /\ \A c \in Columns : \/ r.new[c] = None
                              \/ home[r.new[c]] = r.org
                              \/ c = "project" /\ WithTask(r, kind)
    BY <1>1, <1>2, ReadyToWrite DEF Requests
  <1>4. /\ st' = [st EXCEPT ![r.id] = "live"] /\ ref' = [ref EXCEPT ![r.id] = r.new]
        /\ amount' = [amount EXCEPT ![r.id] = [qty |-> r.qty, price |-> r.price,
                                               total |-> r.qty * r.price]]
        /\ rank' = [rank EXCEPT ![r.id] = r.rank]
        /\ last' = [ids |-> {r.id}, org |-> r.org]
        /\ placed' \in {placed, placed \union {r.id}}
        /\ crossed' = IF Crosses(r) THEN crossed \union {r.id} ELSE crossed
        /\ Done(s) /\ UNCHANGED <<ids, disk, lost, cut, wiped>>
    BY DEF WriteCreate
  <1>5. RequestsHonest' /\ reqs' \in [Slots -> Requests' \union {Idle}]
    <2>1. crossed \subseteq crossed'
      BY <1>4
    <2> QED BY <1>4, <2>1, DoneKeepsOthers
  <1>6. Rows' = Rows /\ kind' = kind /\ home' = home /\ Refs' = Refs
    BY <1>4, SameRows
  <1>7. raced' \subseteq Rows
    <2>1. AlsoAdding(s) \subseteq Rows
      <3> SUFFICES ASSUME NEW q \in Slots, Writes(q, "create") PROVE reqs[q].id \in Rows
        BY DEF AlsoAdding
      <3> QED BY RequestAt DEF Writes, Honest, Rows
    <2>2. raced' = raced \union AlsoAdding(s) \/ raced' = raced
      BY DEF WriteCreate
    <2> QED BY <2>1, <2>2 DEF Inductive, TypeOK
  <1>8. kind[r.id] = "comment" => Hangs(r.new)
    BY <1>1, <1>2 DEF Honest, Shaped
  <1> HIDE DEF r
  <1>9. r.qty * r.price \in Nat
    BY <1>3
  <1>a. placed' \subseteq Rows /\ crossed' \subseteq Rows
    BY <1>3, <1>4 DEF Inductive, TypeOK
  <1>10. TypeOK'
    BY <1>3, <1>4, <1>5, <1>6, <1>7, <1>9, <1>a DEF Inductive, TypeOK
  <1>b. /\ crossed \subseteq crossed' /\ crossed' \subseteq crossed \union {r.id}
        /\ Crosses(r) => r.id \in crossed'
    BY <1>4
  <1>c. Crosses(r) => WithTask(r, kind)
    BY <1>3 DEF Crosses, Columns
  <1>d. \A c \in Columns : \/ r.new[c] = None
                           \/ home[r.new[c]] = r.org
                           \/ c = "project" /\ r.id \in crossed'
    BY <1>3, <1>b DEF Crosses, WithTask
  <1>11. RefsStayInOrg' /\ WritesStayInOrg'
    BY <1>3, <1>4, <1>6, <1>b, <1>d DEF Inductive, TypeOK, RefsStayInOrg, WritesStayInOrg
  <1>12. CommentsHang'
    BY <1>3, <1>4, <1>6, <1>8 DEF Inductive, TypeOK, CommentsHang, Live, Hangs
  <1>13. RowsCalled'
    BY <1>3, <1>4, <1>6 DEF Inductive, TypeOK, RowsCalled, Called
  <1>14. CrossedHang'
    BY <1>4, <1>6, <1>b, <1>c DEF Inductive, CrossedHang, WithTask
  <1> QED BY <1>5, <1>10, <1>11, <1>12, <1>13, <1>14 DEF Inductive

\* A change of the references of one row.
LEMMA RelinkKeeps ==
  ASSUME Inductive, NEW i \in Rows, NEW org \in Orgs, home[i] = org \/ i \in crossed,
         kind[i] # "comment", NEW new \in Refs,
         \A c \in Columns : \/ new[c] \in {None, ref[i][c]}
                            \/ home[new[c]] = home[i] /\ kind[new[c]] = c,
         ref' = [ref EXCEPT ![i] = new], last' = [ids |-> {i}, org |-> org],
         amount' \in [Rows -> [qty : Nat, price : Nat, total : Nat]],
         rank' \in [Rows -> Nat], placed' \subseteq Rows,
         UNCHANGED <<ids, st, disk, lost, cut, wiped, raced, crossed>>, NEW s \in Slots, Done(s)
  PROVE  Inductive'
  <1>1. Rows' = Rows /\ kind' = kind /\ home' = home /\ Refs' = Refs
    BY SameRows
  <1>2. RequestsHonest' /\ reqs' \in [Slots -> Requests' \union {Idle}]
    BY DoneKeepsOthers
  <1>3. TypeOK'
    BY <1>1, <1>2 DEF Inductive, TypeOK
  <1>4. RefsStayInOrg'
    BY <1>1 DEF Inductive, TypeOK, RefsStayInOrg
  <1>5. WritesStayInOrg'
    BY <1>1 DEF WritesStayInOrg
  <1>6. CommentsHang'
    BY <1>1 DEF Inductive, TypeOK, CommentsHang, Live, Hangs
  <1>7. RowsCalled' /\ CrossedHang'
    BY <1>1 DEF Inductive, TypeOK, RowsCalled, Called, CrossedHang
  <1> QED BY <1>2, <1>3, <1>4, <1>5, <1>6, <1>7 DEF Inductive

LEMMA WriteUpdateKeeps ==
  ASSUME Inductive, NEW s \in Slots, WriteUpdate(s) PROVE Inductive'
  <1> DEFINE r == reqs[s]
             new == [c \in Columns |-> IF c \in r.sets THEN r.new[c] ELSE ref[r.id][c]]
  <1>1. r # Idle /\ r.todo = <<>> /\ r.act = "update"
    BY DEF WriteUpdate, Writes
  <1>2. r \in Requests /\ Honest(r, kind, home, crossed)
    BY <1>1, RequestAt
  <1>3. /\ r.id \in Rows /\ (home[r.id] = r.org \/ r.id \in crossed) /\ r.org \in Orgs
        /\ r.new \in Refs /\ Called(r.new, kind) /\ Shaped(r, kind)
        /\ r.qty \in Nat /\ r.price \in Nat /\ r.rank \in Nat
        /\ \A c \in Columns : r.new[c] = None \/ home[r.new[c]] = r.org
    BY <1>1, <1>2, ReadyToWrite DEF Requests, WithTask
  <1>4. kind[r.id] # "comment"
    BY <1>1, <1>3 DEF Shaped
  <1>5. /\ ref' = [ref EXCEPT ![r.id] = new] /\ last' = [ids |-> {r.id}, org |-> r.org]
        /\ amount' = [amount EXCEPT ![r.id] = Repriced(r)]
        /\ rank' \in {rank, [rank EXCEPT ![r.id] = r.rank]}
        /\ placed' \in {placed, placed \union {r.id}}
        /\ Done(s) /\ UNCHANGED <<ids, st, disk, lost, cut, wiped, raced, crossed>>
    BY DEF WriteUpdate
  <1>a. r.id \in crossed => \A c \in Columns : r.new[c] = None
    BY <1>1, <1>3 DEF Shaped, Inductive, CrossedHang
  <1> HIDE DEF r
  <1>6. new \in Refs
    BY <1>3 DEF Refs, Inductive, TypeOK
  <1>7. \A c \in Columns : \/ new[c] \in {None, ref[r.id][c]}
                           \/ home[new[c]] = home[r.id] /\ kind[new[c]] = c
    BY <1>3, <1>a DEF Called
  <1>8. amount' \in [Rows -> [qty : Nat, price : Nat, total : Nat]]
    <2>1. r.qty * r.price \in Nat
      BY <1>3
    <2>2. Repriced(r) \in [qty : Nat, price : Nat, total : Nat]
      BY <1>3, <2>1 DEF Repriced, Inductive, TypeOK
    <2> QED BY <1>3, <1>5, <2>2 DEF Inductive, TypeOK
  <1>9. rank' \in [Rows -> Nat] /\ placed' \subseteq Rows
    BY <1>3, <1>5 DEF Inductive, TypeOK
  <1> HIDE DEF new
  <1> QED BY <1>3, <1>4, <1>5, <1>6, <1>7, <1>8, <1>9, RelinkKeeps

LEMMA WriteDetachKeeps ==
  ASSUME Inductive, NEW s \in Slots, WriteDetach(s) PROVE Inductive'
  <1> DEFINE r == reqs[s]
             new == [ref[r.id] EXCEPT !["deal"] = None]
  <1>1. r # Idle /\ r.todo = <<>> /\ r.act = "detach"
    BY DEF WriteDetach, Writes
  <1>2. r \in Requests /\ Honest(r, kind, home, crossed)
    BY <1>1, RequestAt
  <1>3. r.id \in Rows /\ (home[r.id] = r.org \/ r.id \in crossed) /\ r.org \in Orgs
    BY <1>1, <1>2, ReadyToWrite
  <1>4. kind[r.id] # "comment"
    BY <1>1, <1>2 DEF Honest, Shaped
  <1>5. /\ ref' = [ref EXCEPT ![r.id] = new] /\ last' = [ids |-> {r.id}, org |-> r.org]
        /\ Done(s) /\ UNCHANGED <<ids, st, amount, rank, disk, history>>
        /\ UNCHANGED <<lost, cut, wiped, raced, placed, crossed>>
    BY <1>3 DEF WriteDetach, Inductive, TypeOK, history
  <1>6. new \in Refs /\ \A c \in Columns : new[c] \in {None, ref[r.id][c]}
    BY <1>3 DEF Refs, Inductive, TypeOK
  <1>7. /\ amount' \in [Rows -> [qty : Nat, price : Nat, total : Nat]]
        /\ rank' \in [Rows -> Nat] /\ placed' \subseteq Rows
    BY <1>5 DEF Inductive, TypeOK
  <1> HIDE DEF new, r
  <1> QED BY <1>3, <1>4, <1>5, <1>6, <1>7, RelinkKeeps

\* Deleting rows of an organization touches only rows of that organization and
\* rows that name one of its projects.
LEMMA DeleteKeeps ==
  ASSUME Inductive, NEW gone \in SUBSET Rows, NEW org \in Orgs,
         \A i \in gone : home[i] = org \/ i \in crossed,
         Delete(gone, org), RequestsHonest', reqs' \in [Slots -> Requests' \union {Idle}]
  PROVE  Inductive'
  <1> DEFINE fallen == gone \union {i \in Rows : Falls(i, gone)}
             losing == {i \in Rows : \E c \in Columns : Loses(i, c, gone)}
  <1>1. /\ st' = [i \in Rows |-> IF i \in fallen THEN "gone" ELSE st[i]]
        /\ ref' = [i \in Rows |-> [c \in Columns |-> IF Loses(i, c, gone) THEN None
                                                     ELSE ref[i][c]]]
        /\ lost' = lost \union {i \in Rows : \E c \in {"task", "project"} : Loses(i, c, gone)}
        /\ last' = [ids |-> fallen \union losing, org |-> org]
        /\ UNCHANGED <<ids, amount, rank, disk, cut, wiped, raced, placed, crossed>>
    BY DEF Delete
  <1>2. Rows' = Rows /\ kind' = kind /\ home' = home /\ Refs' = Refs
    BY <1>1, SameRows
  <1>3. ASSUME NEW i \in Rows, NEW c \in Columns, Named(i, c, gone)
        PROVE  home[i] = org \/ i \in crossed
    <2>1. ref[i][c] \in gone /\ ref[i][c] # None
      BY <1>3 DEF Named, Inductive, TypeOK
    <2>2. kind[ref[i][c]] = c
      BY <2>1, NamedIsRow
    <2>3. ref[i][c] \notin crossed
      BY <2>2 DEF Inductive, CrossedHang, TwoParents, Columns
    <2> QED BY <2>1, <2>3 DEF Inductive, RefsStayInOrg
  <1>4. \A i \in fallen \union losing : i \in Rows /\ (home[i] = org \/ i \in crossed)
    BY <1>3 DEF Falls, Loses
  <1>5. TypeOK'
    <2>1. st' \in [Rows -> {"none", "live", "gone"}]
      BY <1>1 DEF Inductive, TypeOK
    <2>2. ref' \in [Rows -> Refs]
      BY <1>1 DEF Inductive, TypeOK, Refs
    <2>3. last' \in [ids : SUBSET Rows, org : Orgs \union {None}] /\ lost' \subseteq Rows
      BY <1>1, <1>4 DEF Inductive, TypeOK
    <2> QED BY <1>1, <1>2, <2>1, <2>2, <2>3 DEF Inductive, TypeOK
  <1>6. RefsStayInOrg' /\ RowsCalled' /\ CrossedHang'
    BY <1>1, <1>2 DEF Inductive, RefsStayInOrg, RowsCalled, Called, CrossedHang
  <1>7. WritesStayInOrg'
    BY <1>1, <1>2, <1>4 DEF WritesStayInOrg
  <1>8. CommentsHang'
    <2> SUFFICES ASSUME NEW i \in Rows, kind[i] = "comment", st'[i] = "live" PROVE Hangs(ref'[i])
      BY <1>2 DEF CommentsHang, Live, Hangs
    <2>1. st[i] = "live" /\ Hangs(ref[i])
      BY <1>1 DEF Inductive, CommentsHang, Live
    <2>2. ASSUME NEW c \in {"task", "project"} PROVE OnDelete("comment", c) = "Cascade"
      <3>1. <<"comment", c>> \in Cascades
        BY DEF Cascades
      <3>2. <<"comment", c>> \notin SetNulls
        BY DEF SetNulls
      <3> QED BY <3>1, <3>2 DEF OnDelete
    <2>3. \A c \in {"task", "project"} : ~Loses(i, c, gone)
      BY <2>2 DEF Loses
    <2>4. \A c \in {"task", "project"} : ref'[i][c] = ref[i][c]
      BY <1>1, <2>3 DEF Columns
    <2> QED BY <2>1, <2>4 DEF Hangs
  <1> QED BY <1>5, <1>6, <1>7, <1>8 DEF Inductive

LEMMA WriteRemoveKeeps ==
  ASSUME Inductive, NEW s \in Slots, WriteRemove(s) PROVE Inductive'
  <1>1. reqs[s] # Idle /\ reqs[s].todo = <<>> /\ reqs[s].act = "remove" /\ Done(s)
        /\ Delete({reqs[s].id}, reqs[s].org)
    BY DEF WriteRemove, Writes
  <1>2. reqs[s] \in Requests /\ Honest(reqs[s], kind, home, crossed)
    BY <1>1, RequestAt
  <1>3. /\ reqs[s].id \in Rows /\ reqs[s].org \in Orgs
        /\ home[reqs[s].id] = reqs[s].org \/ reqs[s].id \in crossed
    BY <1>1, <1>2, ReadyToWrite
  <1>4. UNCHANGED ids /\ crossed \subseteq crossed'
    BY <1>1 DEF Delete
  <1>5. RequestsHonest' /\ reqs' \in [Slots -> Requests' \union {Idle}]
    BY <1>1, <1>4, DoneKeepsOthers
  <1>6. /\ {reqs[s].id} \in SUBSET Rows
        /\ \A i \in {reqs[s].id} : home[i] = reqs[s].org \/ i \in crossed
    BY <1>3
  <1> QED BY <1>1, <1>3, <1>5, <1>6, DeleteKeeps

LEMMA WriteUntagKeeps ==
  ASSUME Inductive, NEW s \in Slots, WriteUntag(s) PROVE Inductive'
  <1> DEFINE r == reqs[s]
             gone == {i \in Rows : /\ kind[i] \in {"taskTag", "projectTag"}
                                   /\ Live(i) /\ ref[i] = r.new}
  <1>1. r # Idle /\ r.todo = <<>> /\ r.act = "untag" /\ Done(s) /\ Delete(gone, r.org)
    BY DEF WriteUntag, Writes
  <1>2. r \in Requests /\ Honest(r, kind, home, crossed)
    BY <1>1, RequestAt
  <1>3. r.org \in Orgs
    BY <1>2 DEF Requests
  <1>4. PICK c \in Columns : r.new[c] # None /\ home[r.new[c]] = r.org
    BY <1>1, <1>2, ReadyToWrite DEF Columns
  <1>5. \A i \in gone : home[i] = r.org \/ i \in crossed
    <2> SUFFICES ASSUME NEW i \in Rows, ref[i] = r.new PROVE home[i] = r.org \/ i \in crossed
      OBVIOUS
    <2> QED BY <1>3, <1>4 DEF Inductive, RefsStayInOrg
  <1>6. UNCHANGED ids /\ crossed \subseteq crossed'
    BY <1>1 DEF Delete
  <1>7. RequestsHonest' /\ reqs' \in [Slots -> Requests' \union {Idle}]
    BY <1>1, <1>6, DoneKeepsOthers
  <1> QED BY <1>1, <1>3, <1>5, <1>7, DeleteKeeps

\* The tasks a bulk update moves are of the organization, and so is the project.
LEMMA WriteBulkKeeps ==
  ASSUME Inductive, NEW s \in Slots, WriteBulk(s) PROVE Inductive'
  <1> DEFINE r == reqs[s]
             p == r.new["project"]
  <1>1. r # Idle /\ r.todo = <<>> /\ r.act = "bulk"
    BY DEF WriteBulk, Writes
  <1>2. r \in Requests /\ Honest(r, kind, home, crossed)
    BY <1>1, RequestAt
  <1>3. /\ r.org \in Orgs /\ p \in Rows \union {None}
        /\ p # None => home[p] = r.org /\ kind[p] = "project"
    BY <1>1, <1>2, ReadyToWrite DEF Refs, Called, WithTask, Columns
  <1>4. PICK asked \in (SUBSET Of("task")) \ {{}} :
           /\ ref' = [i \in Rows |-> IF i \in {j \in asked : TaskIn(j, r.org)}
                                     THEN [ref[i] EXCEPT !["project"] = p] ELSE ref[i]]
           /\ last' = [ids |-> {i \in asked : TaskIn(i, r.org)}, org |-> r.org]
    BY DEF WriteBulk
  <1>5. Done(s) /\ UNCHANGED <<ids, st, amount, rank, disk, history>>
        /\ UNCHANGED <<lost, cut, wiped, raced, placed, crossed>>
    BY DEF WriteBulk, history
  <1> DEFINE moved == {i \in asked : TaskIn(i, r.org)}
  <1>6. ASSUME NEW i \in moved PROVE i \in Rows /\ kind[i] = "task" /\ home[i] = r.org
    BY TaskIsHome DEF Of
  <1>7. RequestsHonest' /\ reqs' \in [Slots -> Requests' \union {Idle}]
    BY <1>5, DoneKeepsOthers
  <1>8. Rows' = Rows /\ kind' = kind /\ home' = home /\ Refs' = Refs
    BY <1>5, SameRows
  <1> HIDE DEF p, r
  <1>9. /\ ref' = [i \in Rows |-> IF i \in moved THEN [ref[i] EXCEPT !["project"] = p] ELSE ref[i]]
        /\ last' = [ids |-> moved, org |-> r.org]
    BY <1>4
  <1> HIDE DEF moved
  <1>10. ASSUME NEW i \in Rows
         PROVE  /\ ref'[i] \in Refs
                /\ \A c \in Columns : \/ ref'[i][c] = ref[i][c]
                                      \/ i \in moved /\ c = "project" /\ ref'[i][c] = p
    BY <1>3, <1>9 DEF Inductive, TypeOK, Refs
  <1>11. TypeOK'
    <2>1. ref' \in [Rows -> Refs]
      <3>1. DOMAIN ref' = Rows /\ ref' = [i \in Rows |-> ref'[i]]
        BY <1>9
      <3> QED BY <3>1, <1>10
    <2>2. moved \subseteq Rows
      BY <1>6
    <2> QED BY <1>3, <1>5, <1>7, <1>8, <1>9, <2>1, <2>2 DEF Inductive, TypeOK
  <1>12. RefsStayInOrg' /\ RowsCalled' /\ CrossedHang'
    BY <1>3, <1>5, <1>6, <1>8, <1>10
       DEF Inductive, RefsStayInOrg, RowsCalled, Called, CrossedHang
  <1>13. WritesStayInOrg'
    BY <1>6, <1>8, <1>9 DEF WritesStayInOrg
  <1>14. CommentsHang'
    <2> SUFFICES ASSUME NEW i \in Rows, kind[i] = "comment", Live(i) PROVE Hangs(ref'[i])
      BY <1>5, <1>8 DEF CommentsHang, Live, Hangs
    <2>1. ref'[i] = ref[i]
      BY <1>6, <1>9
    <2> QED BY <2>1 DEF Inductive, CommentsHang
  <1> QED BY <1>7, <1>11, <1>12, <1>13, <1>14 DEF Inductive

\* A bulk update that moves nothing, or a bulk deletion.
LEMMA BulkKeeps ==
  ASSUME Inductive, NEW org \in Orgs,
         NEW asked \in SUBSET Of("task"), UNCHANGED reqs,
         \/ /\ last' = [ids |-> {i \in asked : TaskIn(i, org)}, org |-> org]
            /\ UNCHANGED <<ids, rows, disk, history>>
         \/ Delete({i \in asked : TaskIn(i, org)}, org)
  PROVE  Inductive'
  <1> DEFINE found == {i \in asked : TaskIn(i, org)}
  <1>1. \A i \in found : i \in Rows /\ home[i] = org
    BY TaskIsHome DEF Of
  <1>2. CASE last' = [ids |-> found, org |-> org] /\ UNCHANGED <<ids, rows, disk, history>>
    <2>2. Rows' = Rows /\ kind' = kind /\ home' = home /\ Refs' = Refs /\ Requests' = Requests
      BY <1>2, SameRows
    <2>3. last'.ids \subseteq Rows /\ \A i \in last'.ids : home[i] = org
      BY <1>1, <1>2
    <2>4. TypeOK'
      BY <1>2, <2>2, <2>3 DEF Inductive, TypeOK, rows, history
    <2>5. WritesStayInOrg'
      BY <1>2, <2>2, <2>3 DEF WritesStayInOrg
    <2>6. /\ RefsStayInOrg' /\ CommentsHang' /\ RequestsHonest'
          /\ RowsCalled' /\ CrossedHang'
      BY <1>2, <2>2 DEF Inductive, RefsStayInOrg, CommentsHang, RequestsHonest, Live, Hangs, rows,
                        RowsCalled, Called, CrossedHang, history
    <2> QED BY <2>4, <2>5, <2>6 DEF Inductive
  <1>3. CASE Delete(found, org)
    <2>2. UNCHANGED <<ids, crossed>>
      BY <1>3 DEF Delete
    <2>3. RequestsHonest' /\ reqs' \in [Slots -> Requests' \union {Idle}]
      BY <2>2, SameRows DEF Inductive, TypeOK, RequestsHonest
    <2>4. found \in SUBSET Rows /\ \A i \in found : home[i] = org \/ i \in crossed
      BY <1>1
    <2> HIDE DEF found
    <2> QED BY <1>3, <2>3, <2>4, DeleteKeeps
  <1> QED BY <1>2, <1>3

------------------------------------------------------------------------------
\* Requests as the handlers make them.
LEMMA RequestFields ==
  ASSUME NEW act \in Acts, NEW i \in Rows \union {None}, NEW org \in Orgs, NEW new \in Refs,
         NEW sets \in SUBSET Fields, NEW todo \in Seq(Looks)
  PROVE  LET r == Request(act, i, org, new, sets, todo) IN
         /\ r \in Requests /\ r.act = act /\ r.id = i /\ r.org = org /\ r.new = new
         /\ r.todo = todo
  BY DEF Request, Requests

LEMMA FreshIsHome ==
  ASSUME NEW k, NEW org, NEW i \in Fresh(k, org)
  PROVE  i \in Rows /\ kind[i] = k /\ home[i] = org
  BY DEF Fresh, Of

\* A request to create a row looks up everything the row is to name, but for the
\* project beside a task.
CreatesHonestly(r, k) ==
  /\ r \in Requests /\ r.act = "create" /\ r.id \in Rows /\ kind[r.id] = k /\ home[r.id] = r.org
  /\ \A c \in Columns : \/ r.new[c] = None \/ c \in Pending(r.todo)
                        \/ c = "project" /\ k \in TwoParents /\ r.new["task"] # None
  /\ Called(r.new, kind) /\ "self" \notin Pending(r.todo)
  /\ k = "comment" => Hangs(r.new)

LEMMA CreateIsHonest ==
  ASSUME NEW k, NEW r, CreatesHonestly(r, k)
  PROVE  Honest(r, kind, home, crossed)
  BY DEF CreatesHonestly, Honest, NamesHonest, TargetHonest, Shaped, Rows, WithTask

LEMMA CreateKeeps ==
  ASSUME Inductive, NEW k, NEW org \in Orgs, NEW new \in Refs, NEW todo \in Seq(Looks),
         todo # <<>>, Called(new, kind),
         \A c \in Columns : \/ new[c] = None \/ c \in Pending(todo)
                            \/ c = "project" /\ k \in TwoParents /\ new["task"] # None,
         "self" \notin Pending(todo), k = "comment" => Hangs(new), Create(k, org, new, todo)
  PROVE  Inductive'
  <1>1. PICK i \in Fresh(k, org) : Start(Request("create", i, org, new, Columns, todo))
    BY DEF Create
  <1> DEFINE r == Request("create", i, org, new, Columns, todo)
  <1>2. i \in Rows /\ kind[i] = k /\ home[i] = org
    BY FreshIsHome
  <1>3. r \in Requests /\ r.act = "create" /\ r.id = i /\ r.org = org /\ r.new = new /\ r.todo = todo
    BY <1>2, RequestFields DEF Acts, Fields
  <1> HIDE DEF r
  <1>4. Honest(r, kind, home, crossed)
    <2>1. CreatesHonestly(r, k)
      BY <1>2, <1>3 DEF CreatesHonestly
    <2> QED BY <2>1, CreateIsHonest
  <1> QED BY <1>1, <1>3, <1>4, StartKeeps DEF r

\* A request for a row that is there looks it up under its organization.
LEMMA OnRowKeeps ==
  ASSUME Inductive, NEW r \in Requests, r.todo # <<>>, r.id \in Rows,
         kind[r.id] \notin {"comment", "milestone"}, r.act \in {"update", "detach", "remove"},
         \A c \in Columns : r.new[c] = None \/ c \in Pending(r.todo), Called(r.new, kind),
         kind[r.id] \in TwoParents => \A c \in Columns : r.new[c] = None,
         Pending(r.todo) \intersect {"self", "linked"} # {}, Start(r)
  PROVE  Inductive'
  <1>1. Honest(r, kind, home, crossed)
    BY DEF Honest, NamesHonest, TargetHonest, Shaped, Rows
  <1> QED BY <1>1, StartKeeps

LEMMA NoRefIsRefs == NoRef \in Refs /\ \A c \in Columns : NoRef[c] = None
  BY DEF NoRef, Refs

LEMMA LinkIsRefs ==
  ASSUME NEW c \in Columns, NEW x \in Rows \union {None}
  PROVE  /\ Link(c, x) \in Refs /\ Link(c, x)[c] = x
         /\ \A d \in Columns \ {c} : Link(c, x)[d] = None
  BY DEF Link, NoRef, Refs

LEMMA LinksAreRefs ==
  ASSUME NEW c \in Columns, NEW d \in Columns, c # d, NEW x \in Rows \union {None},
         NEW y \in Rows \union {None}
  PROVE  LET new == [Link(c, x) EXCEPT ![d] = y] IN
         /\ new \in Refs /\ new[c] = x /\ new[d] = y
         /\ \A e \in Columns \ {c, d} : new[e] = None
  BY DEF Link, NoRef, Refs

LEMMA LinkCalled ==
  ASSUME NEW c \in Columns, NEW x \in Of(c) \union {None} PROVE Called(Link(c, x), kind)
  <1>1. x \in Rows \union {None} /\ (x # None => kind[x] = c)
    BY DEF Of
  <1>2. Link(c, x)[c] = x /\ \A d \in Columns \ {c} : Link(c, x)[d] = None
    BY <1>1, LinkIsRefs
  <1> QED BY <1>1, <1>2 DEF Called

LEMMA LinksCalled ==
  ASSUME NEW c \in Columns, NEW d \in Columns, c # d,
         NEW x \in Of(c) \union {None}, NEW y \in Of(d) \union {None}
  PROVE  Called([Link(c, x) EXCEPT ![d] = y], kind)
  <1> DEFINE new == [Link(c, x) EXCEPT ![d] = y]
  <1>1. /\ x \in Rows \union {None} /\ (x # None => kind[x] = c)
        /\ y \in Rows \union {None} /\ (y # None => kind[y] = d)
    BY DEF Of
  <1>2. new \in Refs /\ new[c] = x /\ new[d] = y /\ \A e \in Columns \ {c, d} : new[e] = None
    BY <1>1, LinksAreRefs
  <1> HIDE DEF new
  <1>3. Called(new, kind)
    BY <1>1, <1>2 DEF Called
  <1> QED BY <1>3 DEF new

LEMMA ChangeKeeps ==
  ASSUME Inductive, NEW k \in Kinds \ {"comment", "milestone"}, NEW org \in Orgs,
         Change(k, org) \/ Remove(k, org)
  PROVE  Inductive'
  <1>1. PICK i \in Of(k), act \in {"update", "remove"} :
           Start(Request(act, i, org, NoRef, {}, <<"self">>))
    BY DEF Change, Remove
  <1> DEFINE r == Request(act, i, org, NoRef, {}, <<"self">>)
  <1>2. i \in Rows /\ kind[i] = k
    BY DEF Of
  <1>3. <<"self">> \in Seq(Looks) /\ Pending(<<"self">>) = {"self"} /\ <<"self">> # <<>>
    BY PendingOne DEF Looks
  <1>a. act \in Acts /\ i \in Rows \union {None} /\ {} \in SUBSET Fields /\ NoRef \in Refs
    BY <1>2, NoRefIsRefs DEF Acts
  <1>4. r \in Requests /\ r.act = act /\ r.id = i /\ r.new = NoRef /\ r.todo = <<"self">>
    BY <1>3, <1>a DEF Request, Requests
  <1> HIDE DEF r
  <1>5. Called(NoRef, kind)
    BY NoRefIsRefs DEF Called
  <1> QED BY <1>1, <1>2, <1>3, <1>4, <1>5, NoRefIsRefs, OnRowKeeps DEF r

LEMMA InsertAlone ==
  ASSUME Inductive, NEW k \in Kinds \ {"comment"}, NEW org \in Orgs, Insert(k, org)
  PROVE  Inductive'
  <1>1. PICK i \in Fresh(k, org) : /\ st' = [st EXCEPT ![i] = "live"]
                                   /\ last' = [ids |-> {i}, org |-> org]
                                   /\ UNCHANGED <<ids, ref, amount, rank, disk, reqs, history>>
    BY DEF Insert
  <1>2. i \in Rows /\ kind[i] = k /\ home[i] = org
    BY FreshIsHome
  <1>3. amount' \in [Rows -> [qty : Nat, price : Nat, total : Nat]]
    BY <1>1 DEF Inductive, TypeOK
  <1> QED BY <1>1, <1>2, <1>3, InsertKeeps

------------------------------------------------------------------------------
\* The handlers, route by route.
LEMMA ProjectsKeep ==
  ASSUME Inductive, NEW org \in Orgs, Projects(org) PROVE Inductive'
  <1> DEFINE new(team, deal) == [Link("team", team) EXCEPT !["deal"] = deal]
             todo(n) == Given(n, "team") \o Given(n, "deal")
  <1>0. "team" \in Columns /\ "deal" \in Columns /\ "self" \in Looks
    BY DEF Columns, Looks
  <1>1. ASSUME NEW team \in Of("team") \union {None}, NEW deal \in Of("deal") \union {None}
        PROVE  /\ new(team, deal) \in Refs /\ todo(new(team, deal)) \in Seq(Looks)
               /\ Called(new(team, deal), kind)
               /\ \A c \in Columns : \/ new(team, deal)[c] = None
                                     \/ c \in Pending(todo(new(team, deal)))
               /\ "self" \notin Pending(todo(new(team, deal)))
               /\ new(team, deal) # NoRef => todo(new(team, deal)) # <<>>
    <2>1. team \in Rows \union {None} /\ deal \in Rows \union {None}
      BY DEF Of
    <2>2. new(team, deal) \in Refs
          /\ \A c \in Columns \ {"team", "deal"} : new(team, deal)[c] = None
      BY <1>0, <2>1, LinksAreRefs
    <2>9. Called(new(team, deal), kind)
      BY <1>0, LinksCalled
    <2> DEFINE n == new(team, deal)
    <2> HIDE DEF n, new
    <2>3. n \in Refs /\ \A c \in Columns \ {"team", "deal"} : n[c] = None
      BY <2>2 DEF n
    <2>4. Given(n, "team") \in Seq(Looks) /\ Given(n, "deal") \in Seq(Looks)
          /\ Pending(Given(n, "team")) = (IF n["team"] = None THEN {} ELSE {"team"})
          /\ Pending(Given(n, "deal")) = (IF n["deal"] = None THEN {} ELSE {"deal"})
      BY <1>0, <2>3, PendingGiven
    <2>5. todo(n) \in Seq(Looks)
          /\ Pending(todo(n)) = Pending(Given(n, "team")) \union Pending(Given(n, "deal"))
      BY <2>4, PendingJoin
    <2> HIDE DEF todo
    <2>6. \A c \in Columns : n[c] = None \/ c \in Pending(todo(n))
      BY <2>3, <2>4, <2>5
    <2>7. "self" \notin Pending(todo(n))
      BY <2>4, <2>5
    <2>8. n # NoRef => todo(n) # <<>>
      <3>1. n # NoRef => \E c \in Columns : n[c] # None
        BY <2>3 DEF Refs, NoRef
      <3> QED BY <2>6, <3>1, PendingNone
    <2> QED BY <2>3, <2>5, <2>6, <2>7, <2>8, <2>9 DEF n
  <1>2. CASE ProjectCreate(org)
    <2>1. PICK team \in Of("team") \union {None}, deal \in Of("deal") \union {None} :
             IF new(team, deal) = NoRef THEN Insert("project", org)
             ELSE Create("project", org, new(team, deal), todo(new(team, deal)))
      BY <1>2 DEF ProjectCreate
    <2>2. CASE new(team, deal) = NoRef
      BY <2>1, <2>2, InsertAlone DEF Kinds
    <2>3. CASE new(team, deal) # NoRef
      <3>1. Create("project", org, new(team, deal), todo(new(team, deal)))
        BY <2>1, <2>3
      <3> HIDE DEF new, todo
      <3> DEFINE n == new(team, deal)
                 td == todo(n)
      <3>2. /\ n \in Refs /\ td \in Seq(Looks) /\ td # <<>> /\ Called(n, kind)
            /\ \A c \in Columns : n[c] = None \/ c \in Pending(td)
            /\ "self" \notin Pending(td)
        BY <1>1, <2>3
      <3>3. Create("project", org, n, td)
        BY <3>1
      <3> HIDE DEF n, td
      <3> QED BY <3>2, <3>3, CreateKeeps
    <2> QED BY <2>2, <2>3
  <1>3. CASE ProjectUpdate(org)
    <2>1. PICK i \in Of("project"), sets \in SUBSET {"team", "deal"},
               team \in Of("team") \union {None}, deal \in Of("deal") \union {None} :
             Start(Request("update", i, org, new(team, deal), sets,
                           <<"self">> \o Given(new(team, deal), "team")
                                      \o Given(new(team, deal), "deal")))
      BY <1>3 DEF ProjectUpdate
    <2> DEFINE n == new(team, deal)
               td == <<"self">> \o Given(n, "team") \o Given(n, "deal")
               r == Request("update", i, org, n, sets, td)
    <2>2. /\ n \in Refs /\ Called(n, kind)
          /\ \A c \in Columns : n[c] = None \/ c \in Pending(todo(n))
      BY <1>1
    <2> HIDE DEF new, n
    <2>3. Given(n, "team") \in Seq(Looks) /\ Given(n, "deal") \in Seq(Looks)
      BY <1>0, <2>2, PendingGiven
    <2>4. <<"self">> \o Given(n, "team") \in Seq(Looks)
          /\ Pending(<<"self">> \o Given(n, "team")) = {"self"} \union Pending(Given(n, "team"))
      BY <1>0, <2>3, HeadOfJoin
    <2>5. td \in Seq(Looks)
          /\ Pending(td) = {"self"} \union Pending(Given(n, "team")) \union Pending(Given(n, "deal"))
      BY <2>3, <2>4, PendingJoin
    <2>6. Pending(todo(n)) = Pending(Given(n, "team")) \union Pending(Given(n, "deal"))
      BY <2>3, PendingJoin
    <2> HIDE DEF td, todo
    <2>7. td # <<>> /\ \A c \in Columns : n[c] = None \/ c \in Pending(td)
      BY <2>2, <2>5, <2>6, PendingNone
    <2>8. /\ i \in Rows /\ kind[i] = "project" /\ sets \in SUBSET Fields /\ "update" \in Acts
          /\ kind[i] \notin TwoParents
      BY <1>0 DEF Of, Fields, Acts, TwoParents
    <2>9. r \in Requests /\ r.act = "update" /\ r.id = i /\ r.new = n /\ r.todo = td
      BY <2>2, <2>5, <2>8, RequestFields
    <2>10. Start(r)
      BY <2>1 DEF n, td
    <2> HIDE DEF r
    <2> QED BY <2>2, <2>5, <2>7, <2>8, <2>9, <2>10, OnRowKeeps
  <1>4. CASE ProjectRemove(org)
    BY <1>4, ChangeKeeps DEF ProjectRemove, Kinds
  <1> QED BY <1>2, <1>3, <1>4 DEF Projects

\* A request that names one row and looks up that row only.
LEMMA CreateForOne ==
  ASSUME Inductive, NEW k, NEW org \in Orgs, NEW c \in Columns, NEW x \in Of(c),
         k = "comment" => c \in {"task", "project"}, Create(k, org, Link(c, x), <<c>>)
  PROVE  Inductive'
  <1>1. x \in Rows /\ c \in Looks /\ c # "self"
    BY DEF Of, Looks, Columns
  <1>2. x # None
    BY <1>1 DEF Inductive, TypeOK
  <1>3. Link(c, x) \in Refs /\ Link(c, x)[c] = x /\ \A d \in Columns \ {c} : Link(c, x)[d] = None
    BY <1>1, LinkIsRefs
  <1>4. <<c>> \in Seq(Looks) /\ Pending(<<c>>) = {c} /\ <<c>> # <<>>
    BY <1>1, PendingOne
  <1>5. k = "comment" => Hangs(Link(c, x))
    BY <1>2, <1>3 DEF Hangs
  <1>6. Called(Link(c, x), kind)
    BY LinkCalled
  <1> QED BY <1>1, <1>3, <1>4, <1>5, <1>6, CreateKeeps

\* A request that has a row name another, looking up both.
LEMMA RelinkForOne ==
  ASSUME Inductive, NEW k \in Kinds \ (TwoParents \union {"milestone"}), NEW i \in Of(k),
         NEW org \in Orgs, NEW c \in Columns, NEW x \in Of(c) \union {None},
         NEW act \in {"update", "detach", "remove"},
         NEW todo \in Seq(Looks), Pending(todo) \intersect {"self", "linked"} # {},
         x = None \/ c \in Pending(todo), NEW sets \in SUBSET Fields,
         Start(Request(act, i, org, Link(c, x), sets, todo))
  PROVE  Inductive'
  <1> DEFINE r == Request(act, i, org, Link(c, x), sets, todo)
  <1>0. x \in Rows \union {None} /\ Called(Link(c, x), kind)
    BY LinkCalled DEF Of
  <1>1. Link(c, x) \in Refs /\ Link(c, x)[c] = x /\ \A d \in Columns \ {c} : Link(c, x)[d] = None
    BY <1>0, LinkIsRefs
  <1>2. /\ i \in Rows \union {None} /\ i \in Rows /\ kind[i] = k /\ act \in Acts
        /\ k \notin {"comment", "milestone"} /\ k \notin TwoParents
    BY DEF Of, Acts, TwoParents
  <1>3. r \in Requests /\ r.act = act /\ r.id = i /\ r.new = Link(c, x) /\ r.todo = todo
    BY <1>1, <1>2, RequestFields
  <1>4. Start(r) /\ todo # <<>>
    BY PendingNone
  <1>5. \A d \in Columns : r.new[d] = None \/ d \in Pending(r.todo)
    BY <1>1, <1>3
  <1> HIDE DEF r
  <1> QED BY <1>0, <1>2, <1>3, <1>4, <1>5, OnRowKeeps

LEMMA Queries ==
  /\ \A c \in Columns : c \in Looks /\ c # "self" /\ c # "linked"
  /\ {"task", "project", "deal", "customer", "supplier", "tag", "team"} \subseteq Columns
  /\ \A c \in Columns : <<"self", c>> \in Seq(Looks) /\ Pending(<<"self", c>>) = {"self", c}
  /\ \A c \in Columns : <<c, "self">> \in Seq(Looks) /\ Pending(<<c, "self">>) = {"self", c}
  /\ \A c \in Columns : <<c, "linked">> \in Seq(Looks) /\ Pending(<<c, "linked">>) = {"linked", c}
  /\ \A c, d \in Columns : <<c, d>> \in Seq(Looks) /\ Pending(<<c, d>>) = {c, d}
  /\ <<"deal", "max">> \in Seq(Looks) /\ Pending(<<"deal", "max">>) = {"deal", "max"}
  /\ <<"self", "unlink">> \in Seq(Looks) /\ Pending(<<"self", "unlink">>) = {"self", "unlink"}
  <1>1. \A c \in Columns : c \in Looks /\ c # "self" /\ c # "linked"
    BY DEF Looks, Columns
  <1>2. {"task", "project", "deal", "customer", "supplier", "tag", "team"} \subseteq Columns
    BY DEF Columns
  <1>3. ASSUME NEW x \in Looks, NEW y \in Looks
        PROVE  <<x, y>> \in Seq(Looks) /\ Pending(<<x, y>>) = {x, y}
    <2>1. Len(<<x, y>>) = 2 /\ <<x, y>>[1] = x /\ <<x, y>>[2] = y /\ <<x, y>> \in Seq(Looks)
      OBVIOUS
    <2>2. 1..2 = {1, 2}
      OBVIOUS
    <2> QED BY <2>1, <2>2 DEF Pending
  <1>4. {"self", "linked", "max", "unlink", "deal"} \subseteq Looks
    BY DEF Looks, Columns
  <1> QED BY <1>1, <1>2, <1>3, <1>4

LEMMA TasksKeep ==
  ASSUME Inductive, NEW org \in Orgs, Tasks(org) PROVE Inductive'
  <1>1. CASE TaskCreate(org)
    BY <1>1, CreateForOne, Queries DEF TaskCreate
  <1>2. CASE TaskUpdate(org)
    <2>1. CASE Change("task", org)
      BY <2>1, ChangeKeeps DEF Kinds
    <2>2. CASE ~Change("task", org)
      <3>1. PICK i \in Of("task"), p \in Of("project") :
               Start(Request("update", i, org, Link("project", p), {"project"},
                             <<"self", "project">>))
        BY <1>2, <2>2 DEF TaskUpdate
      <3>2. {"project"} \in SUBSET Fields /\ "task" \in Kinds \ (TwoParents \union {"milestone"})
        BY Queries DEF Fields, Kinds, TwoParents
      <3>3. <<"self", "project">> \in Seq(Looks) /\ Pending(<<"self", "project">>) = {"self", "project"}
        BY Queries
      <3> QED BY <3>1, <3>2, <3>3, RelinkForOne, Queries
    <2> QED BY <2>1, <2>2
  <1>3. CASE TaskRemove(org) \/ NudgeAssignee(org)
    BY <1>3, ChangeKeeps DEF TaskRemove, NudgeAssignee, Kinds
  <1>4. CASE BulkUpdate(org) \/ BulkDelete(org)
    <2>1. ASSUME NEW p \in Of("project"),
                 Start(Request("bulk", None, org, Link("project", p), {"project"}, <<"project">>))
          PROVE  Inductive'
      <3> DEFINE n == Link("project", p)
                 r == Request("bulk", None, org, n, {"project"}, <<"project">>)
      <3>1. p \in Rows \union {None} /\ "project" \in Columns /\ {"project"} \in SUBSET Fields
            /\ "bulk" \in Acts
        BY Queries DEF Of, Fields, Acts
      <3>2. n \in Refs /\ Called(n, kind) /\ \A d \in Columns \ {"project"} : n[d] = None
        BY <3>1, LinkIsRefs, LinkCalled
      <3>3. /\ <<"project">> \in Seq(Looks) /\ Pending(<<"project">>) = {"project"}
            /\ <<"project">> # <<>>
        BY <3>1, Queries, PendingOne
      <3> HIDE DEF n
      <3>4. r \in Requests /\ r.act = "bulk" /\ r.new = n /\ r.todo = <<"project">>
        BY <3>1, <3>2, <3>3 DEF Request, Requests
      <3>5. Start(r)
        BY <2>1 DEF n
      <3> HIDE DEF r
      <3>6. Honest(r, kind, home, crossed)
        BY <3>2, <3>3, <3>4 DEF Honest, NamesHonest
      <3> QED BY <3>3, <3>4, <3>5, <3>6, StartKeeps
    <2>2. ASSUME NEW asked \in SUBSET Of("task"), UNCHANGED reqs,
                 \/ /\ last' = [ids |-> {i \in asked : TaskIn(i, org)}, org |-> org]
                    /\ UNCHANGED <<ids, rows, disk, history>>
                 \/ Delete({i \in asked : TaskIn(i, org)}, org)
          PROVE  Inductive'
      BY <2>2, BulkKeeps
    <2>3. CASE BulkUpdate(org)
      BY <2>1, <2>2, <2>3 DEF BulkUpdate
    <2>4. CASE BulkDelete(org)
      BY <2>2, <2>4 DEF BulkDelete
    <2> QED BY <1>4, <2>3, <2>4
  <1> QED BY <1>1, <1>2, <1>3, <1>4 DEF Tasks

\* What a row with up to two parents names, and what is looked up of it.
LEMMA ParentsFit ==
  ASSUME Inductive, NEW new \in Parents
  PROVE  /\ new \in Refs /\ Called(new, kind) /\ Hangs(new)
         /\ \A c \in Columns \ {"task", "project"} : new[c] = None
         /\ FirstParent(new) \in {<<"task">>, <<"project">>}
         /\ FirstParent(new) \in Seq(Looks) /\ FirstParent(new) # <<>>
         /\ "self" \notin Pending(FirstParent(new))
         /\ \A c \in Columns : \/ new[c] = None \/ c \in Pending(FirstParent(new))
                               \/ c = "project" /\ new["task"] # None
  <1>1. PICK t \in Of("task") \union {None}, p \in Of("project") \union {None} :
           new = [Link("task", t) EXCEPT !["project"] = p]
    BY DEF Parents
  <1>2. "task" \in Columns /\ "project" \in Columns /\ "task" \in Looks /\ "project" \in Looks
    BY Queries
  <1>3. t \in Rows \union {None} /\ p \in Rows \union {None}
    BY DEF Of
  <1>4. /\ new \in Refs /\ Called(new, kind)
        /\ \A c \in Columns \ {"task", "project"} : new[c] = None
    BY <1>1, <1>2, <1>3, LinksAreRefs, LinksCalled
  <1>5. new # NoRef
    BY DEF Parents
  <1>6. Hangs(new)
    BY <1>4, <1>5 DEF Hangs, Refs, NoRef
  <1>7. \A c \in {"task", "project"} : <<c>> \in Seq(Looks) /\ Pending(<<c>>) = {c} /\ <<c>> # <<>>
    BY <1>2, PendingOne
  <1>8. CASE new["task"] # None
    BY <1>4, <1>6, <1>7, <1>8 DEF FirstParent
  <1>9. CASE new["task"] = None
    BY <1>4, <1>6, <1>7, <1>9 DEF FirstParent
  <1> QED BY <1>8, <1>9

\* A row that names a task, a project or both.
LEMMA CreateUnderKeeps ==
  ASSUME Inductive, NEW k \in TwoParents, NEW org \in Orgs, NEW new \in Parents,
         Create(k, org, new, FirstParent(new))
  PROVE  Inductive'
  BY ParentsFit, CreateKeeps

LEMMA CommentsKeep ==
  ASSUME Inductive, NEW org \in Orgs, Comments(org) PROVE Inductive'
  <1>1. CASE CommentCreate(org)
    BY <1>1, CreateUnderKeeps DEF CommentCreate, TwoParents
  <1>2. CASE CommentDelete(org)
    <2>1. PICK i \in Of("comment") :
             LET new == IF ref[i]["task"] # None THEN Link("task", ref[i]["task"])
                        ELSE Link("project", ref[i]["project"]) IN
             Start(Request("remove", i, org, new, {},
                           <<"self">> \o Given(new, "task") \o Given(new, "project")))
      BY <1>2 DEF CommentDelete
    <2> DEFINE c == IF ref[i]["task"] # None THEN "task" ELSE "project"
               n == Link(c, ref[i][c])
               td == <<"self">> \o Given(n, "task") \o Given(n, "project")
               r == Request("remove", i, org, n, {}, td)
    <2>2. Start(r)
      BY <2>1
    <2>3. i \in Rows /\ kind[i] = "comment" /\ c \in Columns /\ c \in {"task", "project"}
      BY Queries DEF Of
    <2>4. ref[i][c] \in Rows \union {None}
      BY <2>3 DEF Inductive, TypeOK, Refs
    <2>5. n \in Refs /\ n[c] = ref[i][c] /\ \A d \in Columns \ {c} : n[d] = None
      BY <2>3, <2>4, LinkIsRefs
    <2> HIDE DEF n
    <2>6. /\ Given(n, "task") \in Seq(Looks) /\ Given(n, "project") \in Seq(Looks)
          /\ Pending(Given(n, "task")) = IF n["task"] = None THEN {} ELSE {"task"}
          /\ Pending(Given(n, "project")) = IF n["project"] = None THEN {} ELSE {"project"}
      BY <2>5, PendingGiven, Queries
    <2>7. /\ td \in Seq(Looks)
          /\ Pending(td) = {"self"} \union Pending(Given(n, "task")) \union Pending(Given(n, "project"))
      <3>1. "self" \in Looks
        BY DEF Looks
      <3>2. <<"self">> \o Given(n, "task") \in Seq(Looks)
            /\ Pending(<<"self">> \o Given(n, "task")) = {"self"} \union Pending(Given(n, "task"))
        BY <2>6, <3>1, HeadOfJoin
      <3> QED BY <2>6, <3>2, PendingJoin
    <2> HIDE DEF td
    <2>8. td # <<>>
      BY <2>7, PendingNone
    <2>9. r \in Requests /\ r.act = "remove" /\ r.id = i /\ r.org = org /\ r.new = n /\ r.todo = td
      BY <2>3, <2>5, <2>7 DEF Request, Requests, Acts
    <2> HIDE DEF r
    <2>10. td = <<"self">> \o Given(n, "task") \o Given(n, "project")
      BY DEF td
    <2>11. ASSUME Found(r, Head(r.todo)) PROVE Honest(r, kind, home, crossed)
      <3>1. Head(td) = "self"
        <4>1. Given(n, "task") \o Given(n, "project") \in Seq(Looks) /\ "self" \in Looks
          BY <2>6, PendingJoin DEF Looks
        <4>2. td = <<"self">> \o (Given(n, "task") \o Given(n, "project"))
          BY <2>6, <2>10 DEF Given
        <4> QED BY <4>1, <4>2, HeadOfJoin
      <3>2. Live(i)
        BY <2>3, <2>9, <2>11, <3>1 DEF Found
      <3>3. n[c] # None
        BY <2>3, <2>5, <3>2 DEF Inductive, CommentsHang, Hangs
      <3>4. home[n[c]] = home[i] \/ i \in crossed
        BY <2>3, <2>5, <3>3 DEF Inductive, RefsStayInOrg
      <3>5. c \in Pending(td)
        BY <2>3, <2>6, <2>7, <3>3
      <3>7. Called(n, kind)
        BY <2>3, <2>5, NamedIsRow DEF Called
      <3> HIDE DEF c
      <3>6. NamesHonest(r, kind, home) /\ TargetHonest(r, kind, home, crossed) /\ Shaped(r, kind)
        BY <2>3, <2>5, <2>9, <3>3, <3>4, <3>5 DEF NamesHonest, TargetHonest, Shaped
      <3> QED BY <2>3, <2>9, <3>6, <3>7 DEF Honest, Rows
    <2> QED BY <2>2, <2>8, <2>9, <2>11, StartKeeps
  <1> QED BY <1>1, <1>2 DEF Comments

LEMMA TimeEntriesKeep ==
  ASSUME Inductive, NEW org \in Orgs, TimeEntries(org) PROVE Inductive'
  <1>1. CASE EntryCreate(org)
    BY <1>1, CreateUnderKeeps DEF EntryCreate, TwoParents
  <1>2. CASE EntryUpdate(org) \/ EntryDelete(org)
    BY <1>2, ChangeKeeps DEF EntryUpdate, EntryDelete, Kinds
  <1> QED BY <1>1, <1>2 DEF TimeEntries

LEMMA TagsKeep ==
  ASSUME Inductive, NEW org \in Orgs, Tags(org) PROVE Inductive'
  <1>1. CASE TagCreate(org)
    BY <1>1, InsertAlone DEF TagCreate, Kinds
  <1>2. CASE TagDelete(org)
    BY <1>2, ChangeKeeps DEF TagDelete, Kinds
  <1>3. CASE AddToTask(org) \/ AddToProject(org)
    <2>1. PICK k \in {"taskTag", "projectTag"}, c \in {"task", "project"} : AddTo(k, c, org)
      BY <1>3 DEF AddToTask, AddToProject
    <2>2. PICK x \in Of(c), tag \in Of("tag") :
             Create(k, org, [Link(c, x) EXCEPT !["tag"] = tag], <<c, "tag">>)
      BY <2>1 DEF AddTo
    <2> DEFINE n == [Link(c, x) EXCEPT !["tag"] = tag]
    <2>3. x \in Rows \union {None} /\ tag \in Rows \union {None} /\ c \in Columns /\ "tag" \in Columns
          /\ c # "tag"
      BY Queries DEF Of
    <2>4. n \in Refs /\ Called(n, kind) /\ \A d \in Columns \ {c, "tag"} : n[d] = None
      BY <2>3, LinksAreRefs, LinksCalled
    <2>5. <<c, "tag">> \in Seq(Looks) /\ Pending(<<c, "tag">>) = {c, "tag"} /\ <<c, "tag">> # <<>>
      BY <2>3, Queries
    <2>6. Create(k, org, n, <<c, "tag">>)
      BY <2>2
    <2> HIDE DEF n
    <2>7. "self" \notin Pending(<<c, "tag">>) /\ k # "comment"
          /\ \A d \in Columns : n[d] = None \/ d \in Pending(<<c, "tag">>)
      BY <2>4, <2>5
    <2> QED BY <2>4, <2>5, <2>6, <2>7, CreateKeeps
  <1>4. CASE RemoveFromTask(org) \/ RemoveFromProject(org)
    <2>1. PICK c \in {"task", "project"} : RemoveFrom(c, org)
      BY <1>4 DEF RemoveFromTask, RemoveFromProject
    <2>2. PICK x \in Of(c), tag \in Of("tag") :
             Start(Request("untag", None, org, [Link(c, x) EXCEPT !["tag"] = tag], {}, <<c>>))
      BY <2>1 DEF RemoveFrom
    <2> DEFINE n == [Link(c, x) EXCEPT !["tag"] = tag]
               r == Request("untag", None, org, n, {}, <<c>>)
    <2>3. x \in Rows \union {None} /\ tag \in Rows \union {None} /\ c \in Columns /\ "tag" \in Columns
          /\ c # "tag" /\ x # None
      BY Queries DEF Of, Inductive, TypeOK
    <2>4. n \in Refs /\ n[c] = x /\ Called(n, kind)
      BY <2>3, LinksAreRefs, LinksCalled
    <2>5. <<c>> \in Seq(Looks) /\ Pending(<<c>>) = {c} /\ <<c>> # <<>>
      BY <2>3, Queries, PendingOne
    <2>6. Start(r)
      BY <2>2
    <2> HIDE DEF n
    <2>7. r \in Requests /\ r.act = "untag" /\ r.new = n /\ r.todo = <<c>>
      BY <2>4, <2>5 DEF Request, Requests, Acts
    <2> HIDE DEF r
    <2>8. Honest(r, kind, home, crossed)
      BY <2>3, <2>4, <2>5, <2>7 DEF Honest, UntagHonest
    <2> QED BY <2>5, <2>6, <2>7, <2>8, StartKeeps
  <1> QED BY <1>1, <1>2, <1>3, <1>4 DEF Tags

LEMMA UploadsKeep ==
  ASSUME Inductive, NEW org \in Orgs, Uploads(org) PROVE Inductive'
  <1>1. CASE FileUpload(org)
    <2>1. PICK i \in Fresh("file", org), new \in Parents, s \in Slots :
             /\ reqs' = [reqs EXCEPT ![s] = Request("create", i, org, new, Columns, FirstParent(new))]
             /\ disk' = disk \union {i} /\ last' = NoWrite /\ UNCHANGED <<ids, rows, history>>
      BY <1>1 DEF FileUpload
    <2> DEFINE r == Request("create", i, org, new, Columns, FirstParent(new))
    <2>2. i \in Rows /\ kind[i] = "file" /\ home[i] = org /\ "file" \in TwoParents
      BY FreshIsHome DEF TwoParents
    <2>3. Columns \in SUBSET Fields /\ "create" \in Acts
      BY DEF Fields, Acts
    <2>4. r \in Requests /\ r.act = "create" /\ r.id = i /\ r.org = org /\ r.new = new
          /\ r.todo = FirstParent(new)
      BY <2>2, <2>3, ParentsFit DEF Request, Requests
    <2>5. reqs' = [reqs EXCEPT ![s] = r]
      BY <2>1
    <2> HIDE DEF r
    <2>6. CreatesHonestly(r, "file")
      BY <2>2, <2>4, ParentsFit DEF CreatesHonestly
    <2>7. RequestsHonest' /\ reqs' \in [Slots -> Requests' \union {Idle}]
      BY <2>1, <2>4, <2>5, <2>6, CreateIsHonest, OtherRequestsStay DEF history
    <2>8. HistoryFits
      BY <2>1, <2>2 DEF Inductive, TypeOK, history, HistoryFits
    <2> QED BY <2>1, <2>7, <2>8, QuietKeeps
  <1>2. CASE FileDelete(org)
    <2>1. PICK i \in Of("file") :
             Start(Request("remove", i, org, NoRef, {}, <<"self", "unlink">>))
      BY <1>2 DEF FileDelete
    <2> DEFINE r == Request("remove", i, org, NoRef, {}, <<"self", "unlink">>)
    <2>2. i \in Rows /\ kind[i] = "file"
      BY DEF Of
    <2>3. <<"self", "unlink">> \in Seq(Looks) /\ Pending(<<"self", "unlink">>) = {"self", "unlink"}
          /\ <<"self", "unlink">> # <<>>
      BY Queries
    <2>4. "remove" \in Acts /\ {} \in SUBSET Fields /\ NoRef \in Refs
      BY NoRefIsRefs DEF Acts
    <2>5. r \in Requests /\ r.act = "remove" /\ r.id = i /\ r.new = NoRef
          /\ r.todo = <<"self", "unlink">>
      BY <2>2, <2>3, <2>4 DEF Request, Requests
    <2> HIDE DEF r
    <2>6. Called(NoRef, kind)
      BY NoRefIsRefs DEF Called
    <2> QED BY <2>1, <2>2, <2>3, <2>5, <2>6, NoRefIsRefs, OnRowKeeps DEF r
  <1> QED BY <1>1, <1>2 DEF Uploads

\* A place asked for does not touch what a request looks up and names.
LEMMA PlacedFields ==
  ASSUME NEW r \in Requests, NEW n \in Nat
  PROVE  LET q == Placed(r, n) IN
         /\ q \in Requests /\ q.act = r.act /\ q.id = r.id /\ q.org = r.org
         /\ q.new = r.new /\ q.todo = r.todo /\ q.sets = r.sets \union {"rank"} /\ q.rank = n
  <1>1. "rank" \in Fields
    BY DEF Fields
  <1> QED BY <1>1 DEF Placed, Requests

LEMMA PlacedOrNot ==
  ASSUME NEW r \in Requests, StartPlacedOrNot(r)
  PROVE  \E q \in Requests :
            /\ q.act = r.act /\ q.id = r.id /\ q.org = r.org /\ q.new = r.new /\ q.todo = r.todo
            /\ q.sets \in {r.sets, r.sets \union {"rank"}}
            /\ Start(q)
  BY PlacedFields, WorkAssumption DEF StartPlacedOrNot

LEMMA MilestonesKeep ==
  ASSUME Inductive, NEW org \in Orgs,
         AddMilestone(org) \/ UpdateMilestone(org) \/ RemoveMilestone(org)
  PROVE  Inductive'
  <1>0. "deal" \in Columns
    BY Queries
  <1>1. CASE AddMilestone(org)
    <2>1. PICK d \in Of("deal"), i \in Fresh("milestone", org) :
             StartPlacedOrNot(Request("create", i, org, Link("deal", d), Columns, <<"deal", "max">>))
      BY <1>1 DEF AddMilestone
    <2> DEFINE n == Link("deal", d)
               r == Request("create", i, org, n, Columns, <<"deal", "max">>)
    <2>2. i \in Rows /\ kind[i] = "milestone" /\ home[i] = org /\ d \in Rows \union {None}
          /\ Columns \in SUBSET Fields /\ "create" \in Acts
      BY FreshIsHome DEF Of, Fields, Acts
    <2>3. n \in Refs /\ Called(n, kind) /\ \A c \in Columns \ {"deal"} : n[c] = None
      BY <1>0, <2>2, LinkIsRefs, LinkCalled
    <2>4. /\ <<"deal", "max">> \in Seq(Looks) /\ Pending(<<"deal", "max">>) = {"deal", "max"}
          /\ <<"deal", "max">> # <<>>
      BY Queries
    <2>5. StartPlacedOrNot(r)
      BY <2>1
    <2> HIDE DEF n
    <2>6. r \in Requests /\ r.act = "create" /\ r.id = i /\ r.org = org /\ r.new = n
          /\ r.todo = <<"deal", "max">>
      BY <2>2, <2>3, <2>4 DEF Request, Requests
    <2> HIDE DEF r
    <2>7. PICK q \in Requests :
             /\ q.act = r.act /\ q.id = r.id /\ q.org = r.org /\ q.new = r.new /\ q.todo = r.todo
             /\ Start(q)
      BY <2>5, <2>6, PlacedOrNot
    <2>8. CreatesHonestly(q, "milestone")
      BY <2>2, <2>3, <2>4, <2>6, <2>7 DEF CreatesHonestly
    <2> QED BY <2>4, <2>6, <2>7, <2>8, CreateIsHonest, StartKeeps
  <1>2. CASE UpdateMilestone(org) \/ RemoveMilestone(org)
    <2>1. PICK act \in {"update", "remove"}, d \in Of("deal"), i \in Of("milestone") :
             StartPlacedOrNot(Request(act, i, org, Link("deal", d), {}, <<"deal", "self">>))
      BY <1>2 DEF UpdateMilestone, RemoveMilestone, StartPlacedOrNot
    <2> DEFINE n == Link("deal", d)
               b == Request(act, i, org, n, {}, <<"deal", "self">>)
    <2>2. i \in Rows /\ kind[i] = "milestone" /\ d \in Rows \union {None} /\ d # None
      BY DEF Of, Inductive, TypeOK
    <2>3. n \in Refs /\ Called(n, kind) /\ n["deal"] = d /\ \A c \in Columns \ {"deal"} : n[c] = None
      BY <1>0, <2>2, LinkIsRefs, LinkCalled
    <2>4. /\ <<"deal", "self">> \in Seq(Looks) /\ Pending(<<"deal", "self">>) = {"deal", "self"}
          /\ <<"deal", "self">> # <<>>
      BY <1>0, Queries
    <2>a. StartPlacedOrNot(b)
      BY <2>1
    <2> HIDE DEF n
    <2>5. act \in Acts /\ {} \in SUBSET Fields
      BY DEF Acts
    <2>b. b \in Requests /\ b.act = act /\ b.id = i /\ b.new = n /\ b.todo = <<"deal", "self">>
      BY <2>2, <2>3, <2>4, <2>5 DEF Request, Requests
    <2> HIDE DEF b
    <2>6. PICK r \in Requests :
             /\ r.act = act /\ r.id = i /\ r.new = n /\ r.todo = <<"deal", "self">>
             /\ Start(r)
      BY <2>a, <2>b, PlacedOrNot
    <2>7. NamesHonest(r, kind, home)
      BY <2>3, <2>4, <2>6 DEF NamesHonest
    <2>8. TargetHonest(r, kind, home, crossed)
      BY <2>2, <2>4, <2>6 DEF TargetHonest
    <2>9. Shaped(r, kind)
      BY <2>2, <2>3, <2>6 DEF Shaped, TwoParents
    <2>10. Honest(r, kind, home, crossed)
      BY <2>2, <2>3, <2>5, <2>6, <2>7, <2>8, <2>9 DEF Honest, Rows
    <2> QED BY <2>4, <2>6, <2>10, StartKeeps
  <1> QED BY <1>1, <1>2

LEMMA DealsKeep ==
  ASSUME Inductive, NEW org \in Orgs, Deals(org) PROVE Inductive'
  <1>0. {"deal", "project"} \subseteq Kinds \ (TwoParents \union {"milestone"})
    BY DEF Kinds, TwoParents
  <1>a. {"deal", "project"} \subseteq Kinds \ {"comment", "milestone"}
    BY DEF Kinds
  <1>1. CASE DealCreate(org)
    BY <1>a, <1>1, InsertAlone, CreateForOne, Queries DEF DealCreate
  <1>2. CASE DealUpdate(org)
    <2>1. CASE Change("deal", org)
      BY <1>a, <2>1, ChangeKeeps
    <2>2. CASE ~Change("deal", org)
      <3>1. PICK i \in Of("deal"), x \in Of("customer") \union {None} :
               Start(Request("update", i, org, Link("customer", x), {"customer"},
                             <<"self">> \o Given(Link("customer", x), "customer")))
        BY <1>2, <2>2 DEF DealUpdate
      <3>2. x \in Rows \union {None} /\ {"customer"} \in SUBSET Fields /\ "customer" \in Columns
            /\ "self" \in Looks
        BY Queries DEF Of, Fields, Looks
      <3> DEFINE n == Link("customer", x)
                 g == Given(n, "customer")
                 td == <<"self">> \o g
      <3>3. n \in Refs /\ n["customer"] = x
        BY <3>2, LinkIsRefs
      <3>4. g \in Seq(Looks) /\ Pending(g) = IF x = None THEN {} ELSE {"customer"}
        <4> HIDE DEF n
        <4> QED BY <3>2, <3>3, PendingGiven
      <3>5. td \in Seq(Looks) /\ Pending(td) = {"self"} \union Pending(g)
        <4> HIDE DEF g
        <4> QED BY <3>2, <3>4, HeadOfJoin
      <3>6. Pending(td) \intersect {"self", "linked"} # {} /\ (x = None \/ "customer" \in Pending(td))
        <4> HIDE DEF g, td
        <4> QED BY <3>4, <3>5
      <3>7. Start(Request("update", i, org, Link("customer", x), {"customer"}, td))
        BY <3>1
      <3> HIDE DEF td
      <3> QED BY <1>0, <3>2, <3>5, <3>6, <3>7, RelinkForOne
    <2> QED BY <2>1, <2>2
  <1>3. CASE DealRemove(org)
    BY <1>a, <1>3, ChangeKeeps DEF DealRemove
  <1>4. CASE AddMilestone(org) \/ UpdateMilestone(org) \/ RemoveMilestone(org)
    BY <1>4, MilestonesKeep
  <1>5. CASE LinkProject(org) \/ UnlinkProject(org)
    <2>1. PICK d \in Of("deal"), i \in Of("project"), act \in {"update", "detach"},
               todo \in {<<"deal", "self">>, <<"deal", "linked">>} :
             Start(Request(act, i, org, Link("deal", d), {"deal"}, todo))
      BY <1>5 DEF LinkProject, UnlinkProject
    <2>2. {"deal"} \in SUBSET Fields /\ "deal" \in Columns
          /\ act \in {"update", "detach", "remove"}
      BY Queries DEF Of, Fields
    <2>3. todo \in Seq(Looks) /\ (Pending(todo) = {"self", "deal"} \/ Pending(todo) = {"linked", "deal"})
      <3>1. CASE todo = <<"deal", "self">>
        BY <2>2, <3>1, Queries
      <3>2. CASE todo = <<"deal", "linked">>
        BY <2>2, <3>2, Queries
      <3> QED BY <2>1, <3>1, <3>2
    <2>4. Pending(todo) \intersect {"self", "linked"} # {} /\ "deal" \in Pending(todo)
      BY <2>3
    <2> QED BY <1>0, <2>1, <2>2, <2>3, <2>4, RelinkForOne
  <1> QED BY <1>1, <1>2, <1>3, <1>4, <1>5 DEF Deals

\* Quantity and price do not touch what a request looks up and names.
LEMMA PricedFields ==
  ASSUME NEW r \in Requests, NEW qty \in Nat, NEW price \in Nat
  PROVE  LET q == Priced(r, qty, price) IN
         /\ q \in Requests /\ q.act = r.act /\ q.id = r.id /\ q.org = r.org
         /\ q.new = r.new /\ q.todo = r.todo /\ q.sets = r.sets
  BY DEF Priced, Requests

LEMMA PurchasingKeep ==
  ASSUME Inductive, NEW org \in Orgs, Purchasing(org) PROVE Inductive'
  <1>0. "order" \in Kinds \ {"comment", "milestone"} /\ "supplier" \in Columns /\ "supplier" \in Looks
        /\ "self" \in Looks /\ Numbers \subseteq Nat
    BY Queries, WorkAssumption DEF Kinds, Looks
  <1>1. CASE OrderCreate(org)
    <2> DEFINE Bare(i, x) == Request("create", i, org, Link("supplier", x), Columns, <<"supplier">>)
               Inserts(i, qty, price) ==
                 /\ st' = [st EXCEPT ![i] = "live"]
                 /\ amount' = [amount EXCEPT ![i] = [qty |-> qty, price |-> price,
                                                     total |-> qty * price]]
                 /\ last' = [ids |-> {i}, org |-> org]
                 /\ UNCHANGED <<ids, ref, rank, disk, reqs, history>>
    <2>1. PICK i \in Fresh("order", org), x \in Of("supplier") \union {None},
               qty \in Numbers, price \in Numbers :
             IF x = None THEN Inserts(i, qty, price) ELSE Start(Priced(Bare(i, x), qty, price))
      BY <1>1 DEF OrderCreate
    <2>2. i \in Rows /\ kind[i] = "order" /\ home[i] = org /\ x \in Rows \union {None}
          /\ qty \in Nat /\ price \in Nat
      BY <1>0, FreshIsHome DEF Of
    <2>3. CASE x = None
      <3>1. qty * price \in Nat
        BY <2>2
      <3>2. Inserts(i, qty, price)
        BY <2>1, <2>3
      <3>3. amount' \in [Rows -> [qty : Nat, price : Nat, total : Nat]]
        BY <2>2, <3>1, <3>2 DEF Inductive, TypeOK
      <3> QED BY <2>2, <3>2, <3>3, InsertKeeps
    <2>4. CASE x # None
      <3> DEFINE b == Bare(i, x)
                 r == Priced(b, qty, price)
      <3>1. /\ Link("supplier", x) \in Refs /\ Called(Link("supplier", x), kind)
            /\ \A d \in Columns \ {"supplier"} : Link("supplier", x)[d] = None
        BY <1>0, <2>2, LinkIsRefs, LinkCalled
      <3>2. /\ <<"supplier">> \in Seq(Looks) /\ Pending(<<"supplier">>) = {"supplier"}
            /\ <<"supplier">> # <<>>
        BY <1>0, PendingOne
      <3>3. "create" \in Acts /\ Columns \in SUBSET Fields
        BY DEF Acts, Fields
      <3>4. b \in Requests /\ b.act = "create" /\ b.id = i /\ b.org = org
            /\ b.new = Link("supplier", x) /\ b.todo = <<"supplier">>
        BY <2>2, <3>1, <3>2, <3>3 DEF Request, Requests
      <3> HIDE DEF b
      <3>5. r \in Requests /\ r.act = "create" /\ r.id = i /\ r.org = org
            /\ r.new = Link("supplier", x) /\ r.todo = <<"supplier">>
        BY <2>2, <3>4, PricedFields
      <3>6. Start(r)
        BY <2>1, <2>4 DEF b
      <3> HIDE DEF r
      <3>7. CreatesHonestly(r, "order")
        BY <2>2, <3>1, <3>2, <3>5 DEF CreatesHonestly
      <3> QED BY <3>2, <3>5, <3>6, <3>7, CreateIsHonest, StartKeeps
    <2> QED BY <2>3, <2>4
  <1>2. CASE OrderUpdate(org)
    <2>1. PICK i \in Of("order"), sets \in {{"qty"}, {"price"}, {"qty", "price"}},
               qty \in Numbers, price \in Numbers :
             Start(Priced(Request("update", i, org, NoRef, sets, <<"self">>), qty, price))
      BY <1>2 DEF OrderUpdate
    <2> DEFINE b == Request("update", i, org, NoRef, sets, <<"self">>)
               r == Priced(b, qty, price)
    <2>2. i \in Rows /\ kind[i] = "order" /\ qty \in Nat /\ price \in Nat /\ "update" \in Acts
          /\ sets \in SUBSET Fields
      BY <1>0 DEF Of, Acts, Fields
    <2>3. <<"self">> \in Seq(Looks) /\ Pending(<<"self">>) = {"self"} /\ <<"self">> # <<>>
      BY <1>0, PendingOne
    <2>4. b \in Requests /\ b.act = "update" /\ b.id = i /\ b.new = NoRef /\ b.todo = <<"self">>
      BY <2>2, <2>3, NoRefIsRefs DEF Request, Requests
    <2> HIDE DEF b
    <2>5. r \in Requests /\ r.act = "update" /\ r.id = i /\ r.new = NoRef /\ r.todo = <<"self">>
      BY <2>2, <2>4, PricedFields
    <2>6. Start(r)
      BY <2>1 DEF b
    <2> HIDE DEF r
    <2>7. Called(NoRef, kind)
      BY NoRefIsRefs DEF Called
    <2> QED BY <2>2, <2>3, <2>5, <2>6, <2>7, NoRefIsRefs, OnRowKeeps
  <1>3. CASE OrderRemove(org)
    BY <1>0, <1>3, ChangeKeeps DEF OrderRemove
  <1> QED BY <1>1, <1>2, <1>3 DEF Purchasing

\* Rows of one kind with no reference but an invoice's customer.
LEMMA OtherRoutesKeep ==
  ASSUME Inductive, NEW org \in Orgs,
         \/ Customers(org) \/ Invoices(org) \/ Suppliers(org) \/ Products(org)
         \/ Calendar(org) \/ TeamCreate(org)
  PROVE  Inductive'
  <1>1. {"customer", "invoice", "supplier", "product", "event", "team"}
           \subseteq Kinds \ {"comment", "milestone"}
    BY DEF Kinds
  <1>2. CASE Customers(org)
    BY <1>1, <1>2, InsertAlone, ChangeKeeps
       DEF Customers, CustomerCreate, CustomerUpdate, CustomerRemove
  <1>3. CASE Invoices(org)
    BY <1>1, <1>3, CreateForOne, ChangeKeeps, Queries
       DEF Invoices, InvoiceCreate, InvoiceUpdate, InvoiceRemove
  <1>4. CASE Suppliers(org)
    BY <1>1, <1>4, InsertAlone, ChangeKeeps
       DEF Suppliers, SupplierCreate, SupplierUpdate, SupplierRemove
  <1>5. CASE Products(org)
    BY <1>1, <1>5, InsertAlone, ChangeKeeps
       DEF Products, ProductCreate, ProductUpdate, ProductRemove
  <1>6. CASE Calendar(org)
    BY <1>1, <1>6, InsertAlone, ChangeKeeps DEF Calendar, EventCreate, EventUpdate, EventRemove
  <1>7. CASE TeamCreate(org)
    BY <1>1, <1>7, InsertAlone DEF TeamCreate
  <1> QED BY <1>2, <1>3, <1>4, <1>5, <1>6, <1>7

LEMMA RouteKeeps == ASSUME Inductive, NEW org \in Orgs, Route(org) PROVE Inductive'
  BY ProjectsKeep, TasksKeep, CommentsKeep, TimeEntriesKeep, TagsKeep, UploadsKeep, DealsKeep,
     PurchasingKeep, OtherRoutesKeep DEF Route

LEMMA WritingKeeps == ASSUME Inductive, NEW s \in Slots, Writing(s) PROVE Inductive'
  BY WriteCreateKeeps, WriteUpdateKeeps, WriteDetachKeeps, WriteRemoveKeeps, WriteUntagKeeps,
     WriteBulkKeeps, EndingKeeps DEF Writing

LEMMA StutterKeeps == ASSUME Inductive, UNCHANGED vars PROVE Inductive'
  <1>1. UNCHANGED ids /\ UNCHANGED <<st, ref, amount, rank, disk, reqs, last>>
        /\ UNCHANGED <<lost, cut, wiped, raced, placed, crossed>>
    BY DEF vars, ids
  <1>2. Rows' = Rows /\ kind' = kind /\ home' = home /\ Refs' = Refs /\ Requests' = Requests
    BY <1>1, SameRows
  <1>3. TypeOK'
    BY <1>1, <1>2 DEF Inductive, TypeOK
  <1>4. /\ RefsStayInOrg' /\ WritesStayInOrg' /\ CommentsHang' /\ RequestsHonest'
        /\ RowsCalled' /\ CrossedHang'
    BY <1>1, <1>2 DEF Inductive, RefsStayInOrg, WritesStayInOrg, CommentsHang, RequestsHonest, Hangs,
                      Live, RowsCalled, Called, CrossedHang
  <1> QED BY <1>3, <1>4 DEF Inductive

LEMMA NextKeeps == ASSUME Inductive, [Next]_vars PROVE Inductive'
  <1>1. CASE Next
    <2>1. CASE \E org \in Orgs : Route(org)
      BY <2>1, RouteKeeps
    <2>2. CASE \E s \in Slots : \/ Look(s) \/ Refuse(s) \/ ReadMaxOrder(s) \/ UnlinkFile(s)
                                \/ Writing(s)
      BY <2>2, LookKeeps, EndingKeeps, ReadMaxOrderKeeps, UnlinkFileKeeps, WritingKeeps
    <2>3. CASE Restart \/ Redeploy
      BY <2>3, StopKeeps
    <2> QED BY <1>1, <2>1, <2>2, <2>3 DEF Next
  <1>2. CASE UNCHANGED vars
    BY <1>2, StutterKeeps
  <1> QED BY <1>1, <1>2

------------------------------------------------------------------------------
\* A request under way never comes to hold a reference that is neither of its
\* organization nor still to be looked up (the order of the queries in the
\* services: every assert...InOrg stands before the write), but for the project of
\* a creation that names a task as well; and no other row of the organization
\* comes to name what such a creation has made.
THEOREM WorkInductive == Spec => []Inductive
  <1>1. Inductive /\ [Next]_vars => Inductive'
    BY NextKeeps
  <1> QED BY <1>1, InitInductive, PTL DEF Spec

\* Every column, request and stored file keeps its type, the order of the
\* milestones included.
THEOREM WorkTypeCorrect == Spec => []TypeOK
  <1>1. Inductive => TypeOK
    BY DEF Inductive
  <1> QED BY <1>1, WorkInductive, PTL

\* No row ever names a row of another organization, whatever the handlers of
\* several organizations do between the query for it and the write, but a row
\* that crosses, and that in its project alone.
THEOREM WorkRefsStayInOrg == Spec => []RefsStayInOrg
  <1>1. Inductive => RefsStayInOrg
    BY DEF Inductive
  <1> QED BY <1>1, WorkInductive, PTL

\* Nothing outside the organization of the token is written, deleted, or
\* deleted or cleared along with what is deleted, but rows that cross.
THEOREM WorkWritesStayInOrg == Spec => []WritesStayInOrg
  <1>1. Inductive => WritesStayInOrg
    BY DEF Inductive
  <1> QED BY <1>1, WorkInductive, PTL

------------------------------------------------------------------------------
\* A step changes only the rows it is recorded to have written.
Same(i) == /\ st'[i] = st[i] /\ ref'[i] = ref[i]
           /\ amount'[i] = amount[i] /\ rank'[i] = rank[i]
           /\ i \in crossed' => i \in crossed
Touched == /\ crossed \subseteq crossed'
           /\ \A i \in crossed' : i \in crossed \/ home[i] = last'.org
           /\ \A i \in Rows : i \in last'.ids \/ Same(i)

LEMMA QuietTouches == ASSUME UNCHANGED <<rows, crossed>> PROVE Touched
  BY DEF rows, Touched, Same

LEMMA StartTouches == ASSUME NEW r, Start(r) PROVE UNCHANGED <<rows, crossed>>
  BY DEF Start, history

LEMMA InsertTouches ==
  ASSUME Inductive, NEW i \in Rows, st' = [st EXCEPT ![i] = "live"], last'.ids = {i},
         \E x : amount' = [amount EXCEPT ![i] = x], UNCHANGED <<ref, rank, crossed>>
  PROVE  Touched
  BY DEF Touched, Same, Inductive, TypeOK

LEMMA InsertAloneTouches == ASSUME Inductive, NEW k, NEW org, Insert(k, org) PROVE Touched
  <1>1. PICK i \in Fresh(k, org) : /\ st' = [st EXCEPT ![i] = "live"]
                                   /\ last' = [ids |-> {i}, org |-> org]
                                   /\ UNCHANGED <<ids, ref, amount, rank, disk, reqs, history>>
    BY DEF Insert
  <1>2. i \in Rows
    BY FreshIsHome
  <1> QED BY <1>1, <1>2 DEF Touched, Same, Inductive, TypeOK, history

LEMMA CreateTouches == ASSUME NEW k, NEW org, NEW new, NEW todo, Create(k, org, new, todo)
                       PROVE  UNCHANGED <<rows, crossed>>
  BY StartTouches DEF Create

LEMMA ChangeTouches == ASSUME NEW k, NEW org, Change(k, org) \/ Remove(k, org)
                       PROVE  UNCHANGED <<rows, crossed>>
  BY StartTouches DEF Change, Remove

LEMMA DeleteTouches == ASSUME Inductive, NEW gone, NEW org, Delete(gone, org) PROVE Touched
  <1> DEFINE fallen == gone \union {i \in Rows : Falls(i, gone)}
             losing == {i \in Rows : \E c \in Columns : Loses(i, c, gone)}
  <1>1. /\ st' = [i \in Rows |-> IF i \in fallen THEN "gone" ELSE st[i]]
        /\ ref' = [i \in Rows |-> [c \in Columns |-> IF Loses(i, c, gone) THEN None ELSE ref[i][c]]]
        /\ last' = [ids |-> fallen \union losing, org |-> org]
        /\ UNCHANGED <<amount, rank, crossed>>
    BY DEF Delete
  <1> SUFFICES ASSUME NEW i \in Rows, i \notin fallen, i \notin losing
               PROVE  /\ st'[i] = st[i] /\ ref'[i] = ref[i]
                      /\ amount'[i] = amount[i] /\ rank'[i] = rank[i]
    BY <1>1 DEF Touched, Same
  <1>2. st'[i] = st[i] /\ amount'[i] = amount[i] /\ rank'[i] = rank[i]
    <2> HIDE DEF fallen, losing
    <2> QED BY <1>1
  <1>3. ref[i] = [c \in Columns |-> ref[i][c]]
    BY DEF Inductive, TypeOK, Refs
  <1>4. \A c \in Columns : ~Loses(i, c, gone)
    OBVIOUS
  <1>5. ref'[i] = [c \in Columns |-> ref[i][c]]
    BY <1>1, <1>4
  <1> QED BY <1>2, <1>3, <1>5

LEMMA RouteTouches == ASSUME Inductive, NEW org, Route(org) PROVE Touched
  <1>1. ASSUME NEW k, Change(k, org) \/ Remove(k, org) PROVE Touched
    BY <1>1, ChangeTouches, QuietTouches
  <1>2. ASSUME NEW k, NEW new, NEW todo, Create(k, org, new, todo) PROVE Touched
    BY <1>2, CreateTouches, QuietTouches
  <1>3. ASSUME NEW k, Insert(k, org) PROVE Touched
    BY <1>3, InsertAloneTouches
  <1>4. ASSUME NEW r, Start(r) PROVE Touched
    BY <1>4, StartTouches, QuietTouches
  <1>5. CASE Projects(org)
    BY <1>1, <1>2, <1>3, <1>4, <1>5 DEF Projects, ProjectCreate, ProjectUpdate, ProjectRemove
  <1>6. CASE Tasks(org)
    <2>1. CASE BulkDelete(org)
      BY <2>1, DeleteTouches DEF BulkDelete
    <2>2. CASE BulkUpdate(org)
      BY <1>4, <2>2, QuietTouches DEF BulkUpdate, history
    <2> QED BY <1>1, <1>2, <1>4, <1>6, <2>1, <2>2
            DEF Tasks, TaskCreate, TaskUpdate, TaskRemove, NudgeAssignee
  <1>7. CASE Comments(org)
    BY <1>2, <1>4, <1>7 DEF Comments, CommentCreate, CommentDelete
  <1>8. CASE TimeEntries(org)
    BY <1>1, <1>2, <1>8 DEF TimeEntries, EntryCreate, EntryUpdate, EntryDelete
  <1>9. CASE Tags(org)
    BY <1>1, <1>2, <1>3, <1>4, <1>9
       DEF Tags, TagCreate, TagDelete, AddToTask, AddToProject, AddTo, RemoveFromTask,
           RemoveFromProject, RemoveFrom
  <1>10. CASE Uploads(org)
    <2>1. CASE FileUpload(org)
      BY <2>1, QuietTouches DEF FileUpload, history
    <2> QED BY <1>4, <1>10, <2>1 DEF Uploads, FileDelete
  <1>11. CASE Deals(org)
    BY <1>1, <1>2, <1>3, <1>4, <1>11
       DEF Deals, DealCreate, DealUpdate, DealRemove, AddMilestone, UpdateMilestone, RemoveMilestone,
           StartPlacedOrNot, LinkProject, UnlinkProject
  <1>12. CASE Purchasing(org)
    <2>1. CASE OrderCreate(org)
      <3>1. PICK i \in Fresh("order", org), x \in Of("supplier") \union {None},
                 qty \in Numbers, price \in Numbers :
               IF x = None
               THEN /\ st' = [st EXCEPT ![i] = "live"]
                    /\ amount' = [amount EXCEPT ![i] = [qty |-> qty, price |-> price,
                                                        total |-> qty * price]]
                    /\ last' = [ids |-> {i}, org |-> org]
                    /\ UNCHANGED <<ids, ref, rank, disk, reqs, history>>
               ELSE Start(Priced(Request("create", i, org, Link("supplier", x), Columns,
                                         <<"supplier">>), qty, price))
        BY <2>1 DEF OrderCreate
      <3>2. i \in Rows
        BY FreshIsHome
      <3>3. CASE x = None
        <4> DEFINE total == [qty |-> qty, price |-> price, total |-> qty * price]
        <4>1. /\ st' = [st EXCEPT ![i] = "live"] /\ amount' = [amount EXCEPT ![i] = total]
              /\ last'.ids = {i} /\ UNCHANGED <<ref, rank, crossed>>
          BY <3>1, <3>3 DEF history
        <4> HIDE DEF total
        <4> QED BY <3>2, <4>1, InsertTouches
      <3> QED BY <1>4, <3>1, <3>3
    <2> QED BY <1>1, <1>4, <1>12, <2>1 DEF Purchasing, OrderUpdate, OrderRemove
  <1>13. CASE Customers(org) \/ Invoices(org) \/ Suppliers(org)
    BY <1>1, <1>2, <1>3, <1>13
       DEF Customers, CustomerCreate, CustomerUpdate, CustomerRemove, Invoices, InvoiceCreate,
           InvoiceUpdate, InvoiceRemove, Suppliers, SupplierCreate, SupplierUpdate, SupplierRemove
  <1>14. CASE Products(org) \/ Calendar(org) \/ TeamCreate(org)
    BY <1>1, <1>3, <1>14
       DEF Products, ProductCreate, ProductUpdate, ProductRemove, Calendar, EventCreate,
           EventUpdate, EventRemove, TeamCreate
  <1> QED BY <1>5, <1>6, <1>7, <1>8, <1>9, <1>10, <1>11, <1>12, <1>13, <1>14 DEF Route

LEMMA WritingTouches == ASSUME Inductive, NEW s \in Slots, Writing(s) PROVE Touched
  <1>0. /\ st \in [Rows -> {"none", "live", "gone"}] /\ ref \in [Rows -> Refs]
        /\ amount \in [Rows -> [qty : Nat, price : Nat, total : Nat]] /\ rank \in [Rows -> Nat]
    BY DEF Inductive, TypeOK
  <1>1. CASE WriteCreate(s)
    <2>1. reqs[s] \in Requests /\ home[reqs[s].id] = reqs[s].org
      BY <1>1, RequestAt DEF WriteCreate, Writes, Honest
    <2> QED BY <1>0, <1>1, <2>1 DEF WriteCreate, Touched, Same
  <1>2. CASE WriteUpdate(s)
    BY <1>0, <1>2 DEF WriteUpdate, Touched, Same
  <1>3. CASE WriteDetach(s)
    BY <1>0, <1>3 DEF WriteDetach, Touched, Same, history
  <1>4. CASE WriteRemove(s) \/ WriteUntag(s)
    BY <1>4, DeleteTouches DEF WriteRemove, WriteUntag
  <1>5. CASE WriteBulk(s)
    BY <1>0, <1>5 DEF WriteBulk, Touched, Same, history
  <1>6. CASE WriteFails(s)
    BY <1>6, QuietTouches DEF WriteFails, history
  <1> QED BY <1>1, <1>2, <1>3, <1>4, <1>5, <1>6 DEF Writing

\* The ids there are do not change.
LEMMA NextRigid == ASSUME Next PROVE UNCHANGED ids
  <1>1. ASSUME NEW r, Start(r) PROVE UNCHANGED ids
    BY <1>1 DEF Start
  <1>2. ASSUME NEW org \in Orgs, Route(org) PROVE UNCHANGED ids
    BY <1>1, <1>2
       DEF Route, Create, Insert, Change, Remove, Delete, Projects, ProjectCreate, ProjectUpdate,
           ProjectRemove, Tasks, TaskCreate, TaskUpdate, TaskRemove, NudgeAssignee, BulkUpdate,
           BulkDelete, Comments, CommentCreate, CommentDelete, TimeEntries, EntryCreate, EntryUpdate,
           EntryDelete, Tags, TagCreate, TagDelete, AddToTask, AddToProject, AddTo, RemoveFromTask,
           RemoveFromProject, RemoveFrom, Uploads, FileUpload, FileDelete, Deals, DealCreate,
           DealUpdate, DealRemove, AddMilestone, UpdateMilestone, RemoveMilestone,
           StartPlacedOrNot, LinkProject, UnlinkProject, Customers, CustomerCreate, CustomerUpdate, CustomerRemove, Invoices,
           InvoiceCreate, InvoiceUpdate, InvoiceRemove, Suppliers, SupplierCreate, SupplierUpdate,
           SupplierRemove, Purchasing, OrderCreate, OrderUpdate, OrderRemove, Products, ProductCreate,
           ProductUpdate, ProductRemove, Calendar, EventCreate, EventUpdate, EventRemove, TeamCreate
  <1>3. ASSUME NEW s \in Slots, Look(s) \/ Refuse(s) \/ ReadMaxOrder(s) \/ UnlinkFile(s) \/ Writing(s)
        PROVE  UNCHANGED ids
    BY <1>3 DEF Look, Refuse, ReadMaxOrder, UnlinkFile, Writing, WriteCreate, WriteUpdate, WriteDetach,
                WriteRemove, WriteUntag, WriteBulk, WriteFails, Delete
  <1>4. CASE Restart \/ Redeploy
    BY <1>4 DEF Restart, Redeploy, Stop
  <1> QED BY <1>2, <1>3, <1>4 DEF Next

LEMMA NextTouches == ASSUME Inductive, Next PROVE Touched
  <1>1. CASE \E org \in Orgs : Route(org)
    BY <1>1, RouteTouches
  <1>2. CASE \E s \in Slots : \/ Look(s) \/ Refuse(s) \/ ReadMaxOrder(s) \/ UnlinkFile(s)
    BY <1>2, QuietTouches DEF Look, Refuse, ReadMaxOrder, UnlinkFile, history
  <1>3. CASE \E s \in Slots : Writing(s)
    BY <1>3, WritingTouches
  <1>4. CASE Restart \/ Redeploy
    BY <1>4, QuietTouches DEF Restart, Redeploy, Stop
  <1> QED BY <1>1, <1>2, <1>3, <1>4 DEF Next

\* A row that names no project of another organization names only such rows.
LEMMA StoresClosed ==
  ASSUME Inductive
  PROVE  \A org \in Orgs : Apart!Closed(StoreOf(org))
  <1> SUFFICES ASSUME NEW org \in Orgs, NEW i \in Rows, home[i] = org, i \notin crossed,
                      NEW c \in Columns
               PROVE  ref[i][c] \in {j \in Rows : home[j] = org /\ j \notin crossed} \union {None}
    BY DEF Apart!Closed, StoreOf, Inductive, TypeOK, Refs
  <1>1. ref[i][c] # None => ref[i][c] \in Rows /\ kind[ref[i][c]] = c
    BY NamedIsRow
  <1>2. c \notin TwoParents
    BY DEF Columns, TwoParents
  <1> QED BY <1>1, <1>2 DEF Inductive, RefsStayInOrg, CrossedHang

LEMMA StoresStayClosed ==
  ASSUME Inductive'
  PROVE  \A org \in Orgs : Apart!Closed(StoreOf(org)')
  <1> SUFFICES ASSUME NEW org \in Orgs, NEW i \in Rows', home'[i] = org, i \notin crossed',
                      NEW c \in Columns
               PROVE  ref'[i][c] \in {j \in Rows' : home'[j] = org /\ j \notin crossed'} \union {None}
    BY DEF Apart!Closed, StoreOf, Inductive, TypeOK, Refs
  <1>1. ref'[i][c] # None => ref'[i][c] \in Rows' /\ kind'[ref'[i][c]] = c
    BY DEF Inductive, TypeOK, Refs, RowsCalled, Called
  <1>2. c \notin TwoParents
    BY DEF Columns, TwoParents
  <1> QED BY <1>1, <1>2 DEF Inductive, RefsStayInOrg, CrossedHang

LEMMA StoreStays ==
  ASSUME Touched, UNCHANGED ids, NEW org, \A i \in last'.ids : home[i] # org \/ i \in crossed
  PROVE  StoreOf(org)' = StoreOf(org)
  <1>1. Rows' = Rows /\ home' = home
    BY SameRows
  <1> DEFINE own == {i \in Rows : home[i] = org /\ i \notin crossed}
  <1>2. {i \in Rows : home[i] = org /\ i \notin crossed'} = own
    BY DEF Touched, Same
  <1>3. \A i \in own : /\ st'[i] = st[i] /\ ref'[i] = ref[i]
                       /\ amount'[i] = amount[i] /\ rank'[i] = rank[i]
    BY DEF Touched, Same
  <1> QED BY <1>1, <1>2, <1>3 DEF StoreOf

\* For the rows that do not cross the handlers implement Tenants: as if every
\* organization had a database to itself, for any number of organizations, rows
\* and requests under way.
THEOREM WorkKeepsOrgsApart == Spec => OrgsStayApart
  <1> DEFINE data == [org \in Orgs |-> StoreOf(org)]
  <1>1. Init => Apart!Init
    BY InitInductive, StoresClosed DEF Apart!Init
  <1>2. ASSUME Inductive, [Next]_vars PROVE [\E org \in Orgs : Apart!Step(org)]_data
    <2>1. Inductive' /\ UNCHANGED ids
      <3>1. CASE UNCHANGED vars
        BY <1>2, <3>1, NextKeeps DEF vars, ids
      <3>2. CASE Next
        BY <1>2, <3>2, NextKeeps, NextRigid
      <3> QED BY <1>2, <3>1, <3>2
    <2>2. CASE UNCHANGED vars
      <3>1. UNCHANGED ids /\ UNCHANGED <<rows, crossed>>
        BY <2>2 DEF vars, ids, rows
      <3>2. Touched /\ Rows' = Rows /\ home' = home
        BY <3>1, QuietTouches, SameRows
      <3>3. \A org \in Orgs : StoreOf(org)' = StoreOf(org)
        BY <3>1, <3>2 DEF StoreOf, rows
      <3> QED BY <3>3
    <2>3. CASE Next
      <3>1. Touched
        BY <1>2, <2>3, NextTouches
      <3>2. \A i \in last'.ids : home[i] = last'.org \/ i \in crossed
        BY <2>1, <3>1, SameRows DEF Inductive, WritesStayInOrg, Touched
      <3>3. CASE last'.org \in Orgs
        <4>0. PICK org \in Orgs : org = last'.org
          BY <3>3
        <4>1. \A other \in Orgs \ {org} : StoreOf(other)' = StoreOf(other)
          BY <2>1, <3>1, <3>2, <4>0, StoreStays
        <4>2. Apart!Closed(StoreOf(org)')
          BY <2>1, StoresStayClosed
        <4>3. Apart!Step(org)
          BY <4>1, <4>2 DEF Apart!Step
        <4> QED BY <4>3
      <3>4. CASE last'.org \notin Orgs
        <4>1. \A i \in last'.ids : i \in Rows /\ home[i] \in Orgs
          BY <1>2, <2>1, SameRows DEF Inductive, TypeOK
        <4>2. \A org \in Orgs : StoreOf(org)' = StoreOf(org)
          BY <2>1, <3>1, <3>2, <3>4, <4>1, StoreStays
        <4> QED BY <4>2
      <3> QED BY <3>3, <3>4
    <2> QED BY <1>2, <2>2, <2>3
  <1>3. Inductive /\ [Next]_vars => [\E org \in Orgs : Apart!Step(org)]_data
    BY <1>2
  <1> QED BY <1>1, <1>3, WorkInductive, PTL DEF Spec, OrgsStayApart, Apart!Spec

------------------------------------------------------------------------------
\* Amounts are only ever written together with their total.
Sums == \A i \in Rows : amount[i].total = amount[i].qty * amount[i].price

LEMMA SumStays ==
  ASSUME Inductive, Sums, NEW i \in Rows, NEW q \in Nat, NEW p \in Nat, UNCHANGED ids,
         amount' = [amount EXCEPT ![i] = [qty |-> q, price |-> p, total |-> q * p]]
  PROVE  Sums'
  <1>1. Rows' = Rows
    BY SameRows
  <1>2. amount \in [Rows -> [qty : Nat, price : Nat, total : Nat]]
    BY DEF Inductive, TypeOK
  <1>3. ASSUME NEW j \in Rows PROVE amount'[j].total = amount'[j].qty * amount'[j].price
    <2>1. CASE j = i
      <3>1. amount'[j] = [qty |-> q, price |-> p, total |-> q * p]
        BY <1>2, <2>1
      <3> QED BY <3>1
    <2>2. CASE j # i
      <3>1. amount'[j] = amount[j]
        BY <1>2, <2>2
      <3> QED BY <3>1 DEF Sums
    <2> QED BY <2>1, <2>2
  <1> QED BY <1>1, <1>3 DEF Sums

\* The other handlers and steps leave the amounts alone.
LEMMA AmountsStay ==
  ASSUME Next, ~\E org \in Orgs : OrderCreate(org), ~\E s \in Slots : WriteCreate(s) \/ WriteUpdate(s)
  PROVE  UNCHANGED amount
  <1>1. ASSUME NEW r, Start(r) PROVE UNCHANGED amount
    BY <1>1 DEF Start, rows
  <1>2. ASSUME NEW org \in Orgs, Route(org) PROVE UNCHANGED amount
    <2>1. ~OrderCreate(org)
      OBVIOUS
    <2> QED BY <1>1, <1>2, <2>1
       DEF Route, Create, Insert, Change, Remove, Delete, Projects, ProjectCreate, ProjectUpdate,
           ProjectRemove, Tasks, TaskCreate, TaskUpdate, TaskRemove, NudgeAssignee, BulkUpdate,
           BulkDelete, Comments, CommentCreate, CommentDelete, TimeEntries, EntryCreate, EntryUpdate,
           EntryDelete, Tags, TagCreate, TagDelete, AddToTask, AddToProject, AddTo, RemoveFromTask,
           RemoveFromProject, RemoveFrom, Uploads, FileUpload, FileDelete, Deals, DealCreate,
           DealUpdate, DealRemove, AddMilestone, UpdateMilestone, RemoveMilestone,
           StartPlacedOrNot, LinkProject, UnlinkProject, Customers, CustomerCreate, CustomerUpdate, CustomerRemove, Invoices,
           InvoiceCreate, InvoiceUpdate, InvoiceRemove, Suppliers, SupplierCreate, SupplierUpdate,
           SupplierRemove, Purchasing, OrderUpdate, OrderRemove, Products, ProductCreate,
           ProductUpdate, ProductRemove, Calendar, EventCreate, EventUpdate, EventRemove, TeamCreate, rows
  <1>3. ASSUME NEW s \in Slots, Look(s) \/ Refuse(s) \/ ReadMaxOrder(s) \/ UnlinkFile(s) \/ Writing(s)
        PROVE  UNCHANGED amount
    <2>1. ~WriteCreate(s) /\ ~WriteUpdate(s)
      OBVIOUS
    <2> QED BY <1>3, <2>1 DEF Look, Refuse, ReadMaxOrder, UnlinkFile, Writing, WriteDetach, WriteRemove,
                              WriteUntag, WriteBulk, WriteFails, Delete, rows
  <1>4. CASE Restart \/ Redeploy
    BY <1>4 DEF Restart, Redeploy, Stop, rows
  <1> QED BY <1>2, <1>3, <1>4 DEF Next

LEMMA SumsKeep == ASSUME Inductive, Sums, [Next]_vars PROVE Sums'
  <1>1. ASSUME Next, NEW org \in Orgs, OrderCreate(org) PROVE Sums'
    <2>1. PICK i \in Fresh("order", org), x \in Of("supplier") \union {None},
               qty \in Numbers, price \in Numbers :
             IF x = None
             THEN amount' = [amount EXCEPT ![i] = [qty |-> qty, price |-> price,
                                                   total |-> qty * price]]
             ELSE UNCHANGED amount
      BY <1>1 DEF OrderCreate, Start, rows
    <2>2. i \in Rows /\ qty \in Nat /\ price \in Nat
      BY WorkAssumption, FreshIsHome
    <2>3. UNCHANGED ids
      BY <1>1, NextRigid
    <2>4. CASE UNCHANGED amount
      BY <2>3, <2>4, SameRows DEF Sums
    <2> QED BY <2>1, <2>2, <2>3, <2>4, SumStays
  <1>2. ASSUME NEW s \in Slots, WriteCreate(s) PROVE Sums'
    <2>1. reqs[s] \in Requests /\ reqs[s].id \in Rows
      BY <1>2, RequestAt DEF WriteCreate, Writes, Honest, Rows
    <2>2. amount' = [amount EXCEPT ![reqs[s].id] =
                       [qty |-> reqs[s].qty, price |-> reqs[s].price,
                        total |-> reqs[s].qty * reqs[s].price]] /\ UNCHANGED ids
      BY <1>2 DEF WriteCreate
    <2>3. reqs[s].qty \in Nat /\ reqs[s].price \in Nat
      BY <2>1 DEF Requests
    <2> QED BY <2>1, <2>2, <2>3, SumStays
  <1>3. ASSUME NEW s \in Slots, WriteUpdate(s) PROVE Sums'
    <2>1. reqs[s] \in Requests /\ reqs[s].id \in Rows
      BY <1>3, RequestAt DEF WriteUpdate, Writes, Honest, Rows
    <2>2. amount' = [amount EXCEPT ![reqs[s].id] = Repriced(reqs[s])] /\ UNCHANGED ids
      BY <1>3 DEF WriteUpdate
    <2>3. reqs[s].qty \in Nat /\ reqs[s].price \in Nat
      BY <2>1 DEF Requests
    <2>4. CASE kind[reqs[s].id] = "order"
      <3>1. amount' = [amount EXCEPT ![reqs[s].id] =
                         [qty |-> reqs[s].qty, price |-> reqs[s].price,
                          total |-> reqs[s].qty * reqs[s].price]]
        BY <2>2, <2>4 DEF Repriced
      <3> QED BY <2>1, <2>2, <2>3, <3>1, SumStays
    <2>5. CASE kind[reqs[s].id] # "order"
      <3>1. amount' = amount
        BY <2>1, <2>2, <2>5 DEF Repriced, Inductive, TypeOK
      <3> QED BY <2>2, <3>1, SameRows DEF Sums
    <2> QED BY <2>4, <2>5
  <1>4. CASE UNCHANGED <<ids, amount>>
    BY <1>4, SameRows DEF Sums
  <1>5. CASE UNCHANGED vars
    BY <1>4, <1>5 DEF vars, ids
  <1> QED BY <1>1, <1>2, <1>3, <1>4, <1>5, AmountsStay, NextRigid

\* The total of an order is always its quantity times its price, whichever of
\* several updates is written last.
THEOREM WorkTotalsFit == Spec => []TotalsFit
  <1>1. Init => Sums
    BY DEF Init, Sums, NoAmount
  <1>2. Inductive /\ Sums /\ [Next]_vars => Sums'
    BY SumsKeep
  <1>3. Sums => TotalsFit
    BY DEF Sums, TotalsFit, Of
  <1> QED BY <1>1, <1>2, <1>3, WorkInductive, PTL DEF Spec

-----------------------------------------------------------------------------
\* What the schema and the handlers make of every row: the columns its kind has,
\* each naming a row of the kind it is called after, and what it hangs on.
HasColumn(k, c) ==
    <<k, c>> \in Cascades \union SetNulls \union {<<"file", "task">>, <<"file", "project">>}

Keyed(k, cols, new, kd) ==
    \A c \in cols : new[c] # None => kd[new[c]] = c /\ HasColumn(k, c)

Rooted(k, new) ==
    /\ k = "task" => new["project"] # None
    /\ k \in {"comment", "entry"} => Hangs(new)
    /\ k = "milestone" => new["deal"] # None

\* Requests that would write only such rows; kd stands for kind.
Regular(r, kd) ==
    IF r.act \in {"untag", "bulk"}
    THEN /\ r.id = None
         /\ r.act = "bulk" => /\ r.sets = {"project"} /\ r.new["project"] # None
                              /\ kd[r.new["project"]] = "project"
    ELSE
       /\ r.act \in {"create", "update"} =>
             Keyed(kd[r.id], r.sets \intersect Columns, r.new, kd)
       /\ r.act = "create" =>
             /\ Columns \subseteq r.sets /\ Rooted(kd[r.id], r.new)
             /\ kd[r.id] = "milestone" => r.todo \in {<<"deal", "max">>, <<"max">>, <<>>}
             /\ kd[r.id] = "file" => r.todo \in {<<"task">>, <<"project">>, <<>>}
       /\ r.act = "update" =>
             /\ kd[r.id] # "file"
             /\ kd[r.id] \in {"entry", "milestone"} => r.sets \intersect Columns = {}
             /\ (kd[r.id] = "task" /\ "project" \in r.sets) => r.new["project"] # None
       /\ r.act = "detach" => kd[r.id] = "project"
       /\ (r.act = "remove" /\ kd[r.id] = "file") =>
             r.todo \in {<<"self", "unlink">>, <<"unlink">>, <<>>}

RequestsRegular == \A s \in Slots : reqs[s] # Idle => Regular(reqs[s], kind)

\* How a route may begin: a request comes in, or a row that hangs on nothing is
\* inserted; a new row under an id nobody uses.
Unused(i) == st[i] = "none" /\ \A s \in Slots : reqs[s] # Idle => reqs[s].id # i

Arrives ==
    \E r \in Requests : /\ r.todo # <<>> /\ Regular(r, kind)
                        /\ r.act = "create" => kind[r.id] # "file" /\ Unused(r.id)
                        /\ Start(r)

Appears ==
    \E i \in Rows : /\ Unused(i) /\ kind[i] \notin Unowned \union {"file"}
                    /\ st' = [st EXCEPT ![i] = "live"]
                    /\ UNCHANGED <<ids, ref, rank, disk, reqs, history>>

\* ... or rows are written without a change to what they name.
Idles == UNCHANGED <<ids, rows, disk, reqs, history>>

LEMMA ColumnsThereAre ==
  /\ {"team", "project", "task", "tag", "deal", "customer", "supplier"} = Columns
  /\ HasColumn("project", "team") /\ HasColumn("project", "deal")
  /\ HasColumn("task", "project")
  /\ HasColumn("comment", "task") /\ HasColumn("comment", "project")
  /\ HasColumn("entry", "task") /\ HasColumn("entry", "project")
  /\ HasColumn("file", "task") /\ HasColumn("file", "project")
  /\ HasColumn("taskTag", "task") /\ HasColumn("taskTag", "tag")
  /\ HasColumn("projectTag", "project") /\ HasColumn("projectTag", "tag")
  /\ HasColumn("deal", "customer") /\ HasColumn("milestone", "deal")
  /\ HasColumn("invoice", "customer") /\ HasColumn("order", "supplier")
  BY DEF HasColumn, Cascades, SetNulls, Columns

LEMMA LinkKeyed ==
  ASSUME NEW k, NEW c \in Columns, HasColumn(k, c), NEW x \in Of(c) \union {None},
         NEW cols \in SUBSET Columns
  PROVE  /\ Link(c, x) \in Refs /\ Link(c, x)[c] = x
         /\ Keyed(k, cols, Link(c, x), kind)
  <1>1. x \in Rows \union {None} /\ (x # None => kind[x] = c)
    BY DEF Of
  <1>2. Link(c, x) \in Refs /\ Link(c, x)[c] = x /\ \A d \in Columns \ {c} : Link(c, x)[d] = None
    BY <1>1, LinkIsRefs
  <1> QED BY <1>1, <1>2 DEF Keyed

LEMMA LinksKeyed ==
  ASSUME NEW k, NEW c \in Columns, NEW d \in Columns, c # d, HasColumn(k, c), HasColumn(k, d),
         NEW x \in Of(c) \union {None}, NEW y \in Of(d) \union {None}, NEW cols \in SUBSET Columns
  PROVE  LET new == [Link(c, x) EXCEPT ![d] = y] IN
         new \in Refs /\ new[c] = x /\ Keyed(k, cols, new, kind)
  <1>1. /\ x \in Rows \union {None} /\ (x # None => kind[x] = c)
        /\ y \in Rows \union {None} /\ (y # None => kind[y] = d)
    BY DEF Of
  <1> DEFINE new == [Link(c, x) EXCEPT ![d] = y]
  <1>2. new \in Refs /\ new[c] = x /\ new[d] = y /\ \A e \in Columns \ {c, d} : new[e] = None
    BY <1>1, LinksAreRefs
  <1> HIDE DEF new
  <1>3. Keyed(k, cols, new, kind)
    BY <1>1, <1>2 DEF Keyed
  <1> QED BY <1>2, <1>3 DEF new

LEMMA CreateArrives ==
  ASSUME Inductive, NEW k \in Kinds \ {"file"}, NEW org \in Orgs, NEW new \in Refs,
         NEW todo \in Seq(Looks), todo # <<>>, Keyed(k, Columns, new, kind), Rooted(k, new),
         k = "milestone" => todo = <<"deal", "max">>, Create(k, org, new, todo)
  PROVE  Arrives
  <1>1. PICK i \in Fresh(k, org) : Start(Request("create", i, org, new, Columns, todo))
    BY DEF Create
  <1> DEFINE r == Request("create", i, org, new, Columns, todo)
  <1>2. i \in Rows /\ kind[i] = k /\ Unused(i)
    BY FreshIsHome DEF Fresh, Unused
  <1>3. r \in Requests
    BY <1>2, RequestFields DEF Acts, Fields
  <1>4. r.act = "create" /\ r.id = i /\ r.new = new /\ r.sets = Columns /\ r.todo = todo
    BY DEF Request
  <1>5. Start(r)
    BY <1>1
  <1> HIDE DEF r
  <1>6. r.sets \intersect Columns = Columns /\ r.act \notin {"untag", "bulk"} /\ r.act # "update"
        /\ r.act # "detach" /\ r.act # "remove"
    BY <1>4
  <1>7. Regular(r, kind)
    BY <1>2, <1>4, <1>6 DEF Regular
  <1> QED BY <1>2, <1>3, <1>4, <1>5, <1>7 DEF Arrives

\* A request for a row that is there, of whatever act.
LEMMA OnRowArrives ==
  ASSUME Inductive, NEW k \in Kinds, NEW i \in Of(k), NEW org \in Orgs, NEW new \in Refs,
         NEW sets \in SUBSET Columns, NEW todo \in Seq(Looks), todo # <<>>,
         NEW act \in {"update", "detach", "remove"},
         act = "update" => /\ Keyed(k, sets, new, kind)
                           /\ k # "file"
                           /\ k \in {"entry", "milestone"} => sets = {}
                           /\ (k = "task" /\ "project" \in sets) => new["project"] # None,
         act = "detach" => k = "project",
         (act = "remove" /\ k = "file") => todo = <<"self", "unlink">>,
         Start(Request(act, i, org, new, sets, todo))
  PROVE  Arrives
  <1> DEFINE r == Request(act, i, org, new, sets, todo)
  <1>1. i \in Rows /\ kind[i] = k
    BY DEF Of
  <1>2. r \in Requests
    BY <1>1, RequestFields DEF Acts, Fields
  <1>3. r.act = act /\ r.id = i /\ r.new = new /\ r.sets = sets /\ r.todo = todo
    BY DEF Request
  <1>4. Start(r)
    OBVIOUS
  <1> HIDE DEF r
  <1>5. r.sets \intersect Columns = sets
    BY <1>3
  <1>6. Regular(r, kind)
    BY <1>1, <1>3, <1>5 DEF Regular
  <1> QED BY <1>1, <1>2, <1>3, <1>4, <1>6 DEF Arrives

LEMMA ChangeArrives ==
  ASSUME Inductive, NEW k \in Kinds \ {"file"}, NEW org \in Orgs, Change(k, org) \/ Remove(k, org)
  PROVE  Arrives
  <1>1. PICK i \in Of(k), act \in {"update", "remove"} :
           Start(Request(act, i, org, NoRef, {}, <<"self">>))
    BY DEF Change, Remove
  <1>2. <<"self">> \in Seq(Looks) /\ <<"self">> # <<>>
    BY PendingOne DEF Looks
  <1>3. NoRef \in Refs /\ {} \in SUBSET Columns /\ Keyed(k, {}, NoRef, kind)
    BY NoRefIsRefs DEF Keyed
  <1> QED BY <1>1, <1>2, <1>3, OnRowArrives

LEMMA InsertAppears ==
  ASSUME Inductive, NEW k \in Kinds \ (Unowned \union {"file"}), NEW org \in Orgs, Insert(k, org)
  PROVE  Appears
  <1>1. PICK i \in Fresh(k, org) : /\ st' = [st EXCEPT ![i] = "live"]
                                   /\ UNCHANGED <<ids, ref, amount, rank, disk, reqs, history>>
    BY DEF Insert
  <1>2. i \in Rows /\ kind[i] = k /\ Unused(i)
    BY DEF Fresh, Of, Unused
  <1> QED BY <1>1, <1>2 DEF Appears

\* A row that names one other.
LEMMA CreateOneArrives ==
  ASSUME Inductive, NEW k \in Kinds \ {"file", "milestone"}, NEW org \in Orgs, NEW c \in Columns,
         HasColumn(k, c), NEW x \in Of(c), k = "task" => c = "project",
         k \in {"comment", "entry"} => c \in {"task", "project"},
         Create(k, org, Link(c, x), <<c>>)
  PROVE  Arrives
  <1>1. x # None /\ <<c>> \in Seq(Looks) /\ <<c>> # <<>>
    BY PendingOne, Queries DEF Of, Inductive, TypeOK
  <1>2. Link(c, x) \in Refs /\ Link(c, x)[c] = x /\ Keyed(k, Columns, Link(c, x), kind)
    BY LinkKeyed
  <1>3. Rooted(k, Link(c, x))
    BY <1>1, <1>2 DEF Rooted, Hangs
  <1> QED BY <1>1, <1>2, <1>3, CreateArrives

\* A row that names a task, a project or both.
LEMMA ParentsKeyed ==
  ASSUME Inductive, NEW new \in Parents, NEW k, HasColumn(k, "task"), HasColumn(k, "project")
  PROVE  Keyed(k, Columns, new, kind)
  <1>1. new \in Refs /\ Called(new, kind) /\ \A c \in Columns \ {"task", "project"} : new[c] = None
    BY ParentsFit
  <1> QED BY <1>1 DEF Keyed, Called

LEMMA CreateUnderArrives ==
  ASSUME Inductive, NEW k \in {"comment", "entry"}, NEW org \in Orgs, NEW new \in Parents,
         Create(k, org, new, FirstParent(new))
  PROVE  Arrives
  <1>1. k \in Kinds \ {"file"} /\ k # "milestone" /\ HasColumn(k, "task") /\ HasColumn(k, "project")
    BY ColumnsThereAre DEF Kinds
  <1>2. Keyed(k, Columns, new, kind)
    BY <1>1, ParentsKeyed
  <1>3. new \in Refs /\ Hangs(new) /\ FirstParent(new) \in Seq(Looks) /\ FirstParent(new) # <<>>
    BY ParentsFit
  <1>4. Rooted(k, new)
    BY <1>3 DEF Rooted
  <1> QED BY <1>1, <1>2, <1>3, <1>4, CreateArrives

\* The handlers, route by route.
LEMMA ProjectsArrive ==
  ASSUME Inductive, NEW org \in Orgs, Projects(org) PROVE Arrives \/ Appears
  <1> DEFINE new(team, deal) == [Link("team", team) EXCEPT !["deal"] = deal]
             todo(n) == Given(n, "team") \o Given(n, "deal")
  <1>0. "team" \in Columns /\ "deal" \in Columns /\ "self" \in Looks /\ "project" \in Kinds \ (Unowned \union {"file"})
    BY DEF Columns, Looks, Kinds, Unowned
  <1>1. ASSUME NEW team \in Of("team") \union {None}, NEW deal \in Of("deal") \union {None}
        PROVE  /\ new(team, deal) \in Refs
               /\ \A cols \in SUBSET Columns : Keyed("project", cols, new(team, deal), kind)
               /\ todo(new(team, deal)) \in Seq(Looks)
               /\ <<"self">> \o Given(new(team, deal), "team") \o Given(new(team, deal), "deal")
                     \in Seq(Looks) \ {<<>>}
               /\ new(team, deal) # NoRef => todo(new(team, deal)) # <<>>
    <2> DEFINE n == new(team, deal)
    <2>1. team \in Rows \union {None} /\ deal \in Rows \union {None}
      BY DEF Of
    <2>2. n \in Refs /\ \A c \in Columns \ {"team", "deal"} : n[c] = None
      BY <1>0, <2>1, LinksAreRefs
    <2>3. \A cols \in SUBSET Columns : Keyed("project", cols, n, kind)
      BY <1>0, LinksKeyed, ColumnsThereAre
    <2> HIDE DEF n, new
    <2>4. Given(n, "team") \in Seq(Looks) /\ Given(n, "deal") \in Seq(Looks)
          /\ Pending(Given(n, "team")) = (IF n["team"] = None THEN {} ELSE {"team"})
          /\ Pending(Given(n, "deal")) = (IF n["deal"] = None THEN {} ELSE {"deal"})
      BY <1>0, <2>2, PendingGiven
    <2>5. todo(n) \in Seq(Looks)
          /\ Pending(todo(n)) = Pending(Given(n, "team")) \union Pending(Given(n, "deal"))
      BY <2>4, PendingJoin
    <2>6. <<"self">> \o Given(n, "team") \in Seq(Looks)
          /\ Pending(<<"self">> \o Given(n, "team")) = {"self"} \union Pending(Given(n, "team"))
      BY <1>0, <2>4, HeadOfJoin
    <2>7. <<"self">> \o Given(n, "team") \o Given(n, "deal") \in Seq(Looks)
          /\ "self" \in Pending(<<"self">> \o Given(n, "team") \o Given(n, "deal"))
      BY <2>4, <2>6, PendingJoin
    <2>8. n # NoRef => todo(n) # <<>>
      <3>1. n # NoRef => \E c \in Columns : n[c] # None
        BY <2>2 DEF Refs, NoRef
      <3>2. n # NoRef => Pending(todo(n)) # {}
        BY <2>2, <2>4, <2>5, <3>1
      <3> QED BY <3>2, PendingNone
    <2> QED BY <2>2, <2>3, <2>5, <2>7, <2>8, PendingNone DEF n
  <1>2. CASE ProjectCreate(org)
    <2>1. PICK team \in Of("team") \union {None}, deal \in Of("deal") \union {None} :
             IF new(team, deal) = NoRef THEN Insert("project", org)
             ELSE Create("project", org, new(team, deal), todo(new(team, deal)))
      BY <1>2 DEF ProjectCreate
    <2>2. CASE new(team, deal) = NoRef
      BY <1>0, <2>1, <2>2, InsertAppears
    <2>3. CASE new(team, deal) # NoRef
      <3>1. Create("project", org, new(team, deal), todo(new(team, deal)))
        BY <2>1, <2>3
      <3>2. Rooted("project", new(team, deal))
        BY DEF Rooted
      <3> HIDE DEF new, todo
      <3> QED BY <1>0, <1>1, <2>3, <3>1, <3>2, CreateArrives
    <2> QED BY <2>2, <2>3
  <1>3. CASE ProjectUpdate(org)
    <2>1. PICK i \in Of("project"), sets \in SUBSET {"team", "deal"},
               team \in Of("team") \union {None}, deal \in Of("deal") \union {None} :
             Start(Request("update", i, org, new(team, deal), sets,
                           <<"self">> \o Given(new(team, deal), "team")
                                      \o Given(new(team, deal), "deal")))
      BY <1>3 DEF ProjectUpdate
    <2>2. sets \in SUBSET Columns
      BY <1>0
    <2> HIDE DEF new, todo
    <2> QED BY <1>0, <1>1, <2>1, <2>2, OnRowArrives
  <1>4. CASE ProjectRemove(org)
    BY <1>0, <1>4, ChangeArrives DEF ProjectRemove
  <1> QED BY <1>2, <1>3, <1>4 DEF Projects

LEMMA TasksArrive ==
  ASSUME Inductive, NEW org \in Orgs, Tasks(org)
  PROVE  Arrives \/ Idles \/ BulkDelete(org)
  <1>0. "task" \in Kinds \ {"file", "milestone"} /\ "project" \in Columns
        /\ HasColumn("task", "project")
    BY ColumnsThereAre DEF Kinds
  <1>1. CASE TaskCreate(org)
    BY <1>0, <1>1, CreateOneArrives DEF TaskCreate
  <1>2. CASE TaskUpdate(org)
    <2>1. CASE Change("task", org)
      BY <1>0, <2>1, ChangeArrives
    <2>2. CASE ~Change("task", org)
      <3>1. PICK i \in Of("task"), p \in Of("project") :
               Start(Request("update", i, org, Link("project", p), {"project"},
                             <<"self", "project">>))
        BY <1>2, <2>2 DEF TaskUpdate
      <3>2. <<"self", "project">> \in Seq(Looks) /\ <<"self", "project">> # <<>>
        BY <1>0, Queries
      <3>3. {"project"} \in SUBSET Columns /\ p # None
        BY <1>0 DEF Of, Inductive, TypeOK
      <3>4. Link("project", p) \in Refs /\ Link("project", p)["project"] = p
            /\ Keyed("task", {"project"}, Link("project", p), kind)
        BY <1>0, <3>3, LinkKeyed
      <3> QED BY <1>0, <3>1, <3>2, <3>3, <3>4, OnRowArrives
    <2> QED BY <2>1, <2>2
  <1>3. CASE TaskRemove(org) \/ NudgeAssignee(org)
    BY <1>0, <1>3, ChangeArrives DEF TaskRemove, NudgeAssignee
  <1>4. CASE BulkUpdate(org) /\ ~Idles
    <2>1. PICK p \in Of("project") :
             Start(Request("bulk", None, org, Link("project", p), {"project"}, <<"project">>))
      BY <1>4 DEF BulkUpdate, Idles
    <2> DEFINE n == Link("project", p)
               r == Request("bulk", None, org, n, {"project"}, <<"project">>)
    <2>2. p \in Rows /\ kind[p] = "project" /\ p # None
      BY DEF Of, Inductive, TypeOK
    <2>3. n \in Refs /\ n["project"] = p
      BY <1>0, <2>2, LinkIsRefs
    <2>4. <<"project">> \in Seq(Looks) /\ <<"project">> # <<>>
      BY Queries, PendingOne
    <2>5. Start(r)
      BY <2>1
    <2> HIDE DEF n
    <2>6. /\ r \in Requests /\ r.act = "bulk" /\ r.id = None /\ r.new = n
          /\ r.sets = {"project"} /\ r.todo = <<"project">>
      BY <1>0, <2>3, <2>4 DEF Request, Requests, Acts, Fields
    <2> HIDE DEF r
    <2>7. Regular(r, kind)
      BY <2>2, <2>3, <2>6 DEF Regular
    <2> QED BY <2>4, <2>5, <2>6, <2>7 DEF Arrives
  <1> QED BY <1>1, <1>2, <1>3, <1>4 DEF Tasks

LEMMA CommentsArrive ==
  ASSUME Inductive, NEW org \in Orgs, Comments(org) PROVE Arrives
  <1>0. "comment" \in Kinds \ {"file", "milestone"}
    BY DEF Kinds
  <1>1. CASE CommentCreate(org)
    BY <1>1, CreateUnderArrives DEF CommentCreate
  <1>2. CASE CommentDelete(org)
    <2>1. PICK i \in Of("comment") :
             LET new == IF ref[i]["task"] # None THEN Link("task", ref[i]["task"])
                        ELSE Link("project", ref[i]["project"]) IN
             Start(Request("remove", i, org, new, {},
                           <<"self">> \o Given(new, "task") \o Given(new, "project")))
      BY <1>2 DEF CommentDelete
    <2> DEFINE c == IF ref[i]["task"] # None THEN "task" ELSE "project"
               n == Link(c, ref[i][c])
               td == <<"self">> \o Given(n, "task") \o Given(n, "project")
    <2>2. Start(Request("remove", i, org, n, {}, td))
      BY <2>1
    <2>3. i \in Rows /\ c \in Columns
      BY Queries DEF Of
    <2>4. ref[i][c] \in Rows \union {None}
      BY <2>3 DEF Inductive, TypeOK, Refs
    <2>5. n \in Refs
      BY <2>3, <2>4, LinkIsRefs
    <2> HIDE DEF n
    <2>6. td \in Seq(Looks) /\ td # <<>>
      <3>1. Given(n, "task") \in Seq(Looks) /\ Given(n, "project") \in Seq(Looks) /\ "self" \in Looks
        BY <2>5, PendingGiven, Queries DEF Looks
      <3>2. <<"self">> \o Given(n, "task") \in Seq(Looks)
            /\ Pending(<<"self">> \o Given(n, "task")) = {"self"} \union Pending(Given(n, "task"))
        BY <3>1, HeadOfJoin
      <3>3. td \in Seq(Looks) /\ "self" \in Pending(td)
        BY <3>1, <3>2, PendingJoin
      <3> QED BY <3>3, PendingNone
    <2> HIDE DEF td
    <2> QED BY <1>0, <2>2, <2>5, <2>6, OnRowArrives
  <1> QED BY <1>1, <1>2 DEF Comments

LEMMA TagsArrive ==
  ASSUME Inductive, NEW org \in Orgs, Tags(org) PROVE Arrives \/ Appears
  <1>0. "tag" \in Kinds \ (Unowned \union {"file"})
    BY DEF Kinds, Unowned
  <1>1. CASE TagCreate(org) \/ TagDelete(org)
    BY <1>0, <1>1, InsertAppears, ChangeArrives DEF TagCreate, TagDelete
  <1>2. ASSUME NEW k \in {"taskTag", "projectTag"}, NEW c \in {"task", "project"}, HasColumn(k, c),
               AddTo(k, c, org)
        PROVE  Arrives
    <2>1. PICK x \in Of(c), tag \in Of("tag") :
             Create(k, org, [Link(c, x) EXCEPT !["tag"] = tag], <<c, "tag">>)
      BY <1>2 DEF AddTo
    <2> DEFINE n == [Link(c, x) EXCEPT !["tag"] = tag]
    <2>2. c \in Columns /\ "tag" \in Columns /\ c # "tag" /\ HasColumn(k, "tag")
          /\ k \in Kinds \ {"file"} /\ k # "milestone"
      BY ColumnsThereAre DEF Kinds
    <2>3. n \in Refs /\ Keyed(k, Columns, n, kind)
      BY <1>2, <2>2, LinksKeyed
    <2>4. <<c, "tag">> \in Seq(Looks) /\ <<c, "tag">> # <<>>
      BY <2>2, Queries
    <2>5. Rooted(k, n) /\ Create(k, org, n, <<c, "tag">>)
      BY <2>1 DEF Rooted
    <2> HIDE DEF n
    <2> QED BY <2>2, <2>3, <2>4, <2>5, CreateArrives
  <1>3. CASE AddToTask(org) \/ AddToProject(org)
    BY <1>2, <1>3, ColumnsThereAre DEF AddToTask, AddToProject
  <1>4. CASE RemoveFromTask(org) \/ RemoveFromProject(org)
    <2>1. PICK c \in {"task", "project"} : RemoveFrom(c, org)
      BY <1>4 DEF RemoveFromTask, RemoveFromProject
    <2>2. PICK x \in Of(c), tag \in Of("tag") :
             Start(Request("untag", None, org, [Link(c, x) EXCEPT !["tag"] = tag], {}, <<c>>))
      BY <2>1 DEF RemoveFrom
    <2> DEFINE n == [Link(c, x) EXCEPT !["tag"] = tag]
               r == Request("untag", None, org, n, {}, <<c>>)
    <2>3. x \in Rows \union {None} /\ tag \in Rows \union {None} /\ c \in Columns /\ "tag" \in Columns
          /\ c # "tag"
      BY Queries DEF Of
    <2>4. n \in Refs
      BY <2>3, LinksAreRefs
    <2>5. <<c>> \in Seq(Looks) /\ <<c>> # <<>>
      BY <2>3, Queries, PendingOne
    <2>6. Start(r)
      BY <2>2
    <2> HIDE DEF n
    <2>7. r \in Requests /\ r.act = "untag" /\ r.id = None /\ r.todo = <<c>>
      BY <2>4, <2>5 DEF Request, Requests, Acts
    <2> HIDE DEF r
    <2> QED BY <2>5, <2>6, <2>7 DEF Arrives, Regular
  <1> QED BY <1>1, <1>3, <1>4 DEF Tags

LEMMA FileDeleteArrives ==
  ASSUME Inductive, NEW org \in Orgs, FileDelete(org) PROVE Arrives
  <1>1. PICK i \in Of("file") : Start(Request("remove", i, org, NoRef, {}, <<"self", "unlink">>))
    BY DEF FileDelete
  <1>2. <<"self", "unlink">> \in Seq(Looks) /\ <<"self", "unlink">> # <<>> /\ "file" \in Kinds
    BY Queries DEF Kinds
  <1> QED BY <1>1, <1>2, NoRefIsRefs, OnRowArrives

\* A client's place changes nothing of what a request would link.
LEMMA PlacedArrives ==
  ASSUME Inductive, NEW r \in Requests, r.todo # <<>>, Regular(r, kind), r.sets \subseteq Columns,
         kind[r.id] = "milestone", r.act \in {"create", "update"}, StartPlacedOrNot(r),
         r.act = "create" => Unused(r.id)
  PROVE  Arrives
  <1>1. PICK q \in Requests :
           /\ q.act = r.act /\ q.id = r.id /\ q.new = r.new /\ q.todo = r.todo
           /\ q.sets \in {r.sets, r.sets \union {"rank"}}
           /\ Start(q)
    BY PlacedOrNot
  <1>2. q.sets \intersect Columns = r.sets \intersect Columns /\ r.sets \subseteq q.sets
    BY <1>1 DEF Columns
  <1>3. Regular(q, kind)
    BY <1>1, <1>2 DEF Regular
  <1> QED BY <1>1, <1>3 DEF Arrives

LEMMA DealsArrive ==
  ASSUME Inductive, NEW org \in Orgs, Deals(org) PROVE Arrives \/ Appears
  <1>0. /\ "deal" \in Kinds \ (Unowned \union {"file"}) /\ "deal" # "milestone"
        /\ "project" \in Kinds /\ "milestone" \in Kinds \ {"file"}
        /\ "deal" \in Columns /\ "customer" \in Columns
    BY ColumnsThereAre DEF Kinds, Unowned
  <1>1. CASE DealCreate(org)
    BY <1>0, <1>1, InsertAppears, CreateOneArrives, ColumnsThereAre DEF DealCreate
  <1>2. CASE DealUpdate(org)
    <2>1. CASE Change("deal", org)
      BY <1>0, <2>1, ChangeArrives
    <2>2. CASE ~Change("deal", org)
      <3>1. PICK i \in Of("deal"), x \in Of("customer") \union {None} :
               Start(Request("update", i, org, Link("customer", x), {"customer"},
                             <<"self">> \o Given(Link("customer", x), "customer")))
        BY <1>2, <2>2 DEF DealUpdate
      <3> DEFINE n == Link("customer", x)
                 td == <<"self">> \o Given(n, "customer")
      <3>2. n \in Refs /\ Keyed("deal", {"customer"}, n, kind) /\ {"customer"} \in SUBSET Columns
        BY <1>0, LinkKeyed, ColumnsThereAre
      <3>3. Start(Request("update", i, org, n, {"customer"}, td))
        BY <3>1
      <3> HIDE DEF n
      <3>4. td \in Seq(Looks) /\ td # <<>>
        BY <1>0, <3>2, PendingGiven, HeadOfJoin DEF Looks
      <3> HIDE DEF td
      <3> QED BY <1>0, <3>2, <3>3, <3>4, OnRowArrives
    <2> QED BY <2>1, <2>2
  <1>3. CASE DealRemove(org)
    BY <1>0, <1>3, ChangeArrives DEF DealRemove
  <1>4. CASE AddMilestone(org)
    <2>1. PICK d \in Of("deal"), i \in Fresh("milestone", org) :
             StartPlacedOrNot(Request("create", i, org, Link("deal", d), Columns, <<"deal", "max">>))
      BY <1>4 DEF AddMilestone
    <2> DEFINE n == Link("deal", d)
               r == Request("create", i, org, n, Columns, <<"deal", "max">>)
    <2>2. n \in Refs /\ n["deal"] = d /\ Keyed("milestone", Columns, n, kind)
      BY <1>0, LinkKeyed, ColumnsThereAre
    <2>3. <<"deal", "max">> \in Seq(Looks) /\ <<"deal", "max">> # <<>>
      BY Queries
    <2>4. d # None /\ i \in Rows /\ kind[i] = "milestone" /\ Unused(i)
      BY FreshIsHome DEF Of, Inductive, TypeOK, Fresh, Unused
    <2>5. Rooted("milestone", n)
      BY <2>2, <2>4 DEF Rooted
    <2>6. StartPlacedOrNot(r)
      BY <2>1
    <2> HIDE DEF n
    <2>7. r \in Requests
      BY <2>2, <2>3, <2>4 DEF Request, Requests, Acts, Fields
    <2>8. /\ r.act = "create" /\ r.id = i /\ r.new = n /\ r.sets = Columns
          /\ r.todo = <<"deal", "max">>
      BY DEF Request
    <2> HIDE DEF r
    <2>9. r.sets \intersect Columns = Columns /\ Columns \subseteq r.sets
      BY <2>8
    <2>10. Regular(r, kind)
      BY <2>2, <2>4, <2>5, <2>8, <2>9 DEF Regular
    <2> QED BY <2>3, <2>4, <2>6, <2>7, <2>8, <2>9, <2>10, PlacedArrives
  <1>5. CASE UpdateMilestone(org) \/ RemoveMilestone(org)
    <2>1. PICK act \in {"update", "remove"}, d \in Of("deal"), i \in Of("milestone") :
             LET r == Request(act, i, org, Link("deal", d), {}, <<"deal", "self">>) IN
             (act = "update" /\ StartPlacedOrNot(r)) \/ Start(r)
      BY <1>5 DEF UpdateMilestone, RemoveMilestone
    <2> DEFINE n == Link("deal", d)
               r == Request(act, i, org, n, {}, <<"deal", "self">>)
    <2>2. n \in Refs /\ Keyed("milestone", {}, n, kind)
      BY <1>0, LinkKeyed, ColumnsThereAre
    <2>3. <<"deal", "self">> \in Seq(Looks) /\ <<"deal", "self">> # <<>>
      BY <1>0, Queries
    <2>4. i \in Rows /\ kind[i] = "milestone"
      BY DEF Of
    <2>5. (act = "update" /\ StartPlacedOrNot(r)) \/ Start(r)
      BY <2>1
    <2> HIDE DEF n
    <2>6. r \in Requests
      BY <2>2, <2>3, <2>4 DEF Request, Requests, Acts, Fields
    <2>7. r.act = act /\ r.id = i /\ r.new = n /\ r.sets = {} /\ r.todo = <<"deal", "self">>
      BY DEF Request
    <2> HIDE DEF r
    <2>8. r.sets \intersect Columns = {} /\ r.sets \subseteq Columns
      BY <2>7
    <2>9. Regular(r, kind)
      BY <2>2, <2>4, <2>7, <2>8 DEF Regular
    <2>10. CASE act = "update" /\ StartPlacedOrNot(r)
      BY <2>3, <2>4, <2>6, <2>7, <2>8, <2>9, <2>10, PlacedArrives
    <2>11. CASE Start(r)
      BY <2>3, <2>6, <2>7, <2>9, <2>11 DEF Arrives
    <2> QED BY <2>5, <2>10, <2>11
  <1>6. CASE LinkProject(org) \/ UnlinkProject(org)
    <2>1. PICK d \in Of("deal"), i \in Of("project"), act \in {"update", "detach"},
               todo \in {<<"deal", "self">>, <<"deal", "linked">>} :
             Start(Request(act, i, org, Link("deal", d), {"deal"}, todo))
      BY <1>6 DEF LinkProject, UnlinkProject
    <2>2. Link("deal", d) \in Refs /\ Keyed("project", {"deal"}, Link("deal", d), kind)
          /\ {"deal"} \in SUBSET Columns
      BY <1>0, LinkKeyed, ColumnsThereAre
    <2>3. todo \in Seq(Looks) /\ todo # <<>>
      <3>1. CASE todo = <<"deal", "self">>
        BY <1>0, <3>1, Queries
      <3>2. CASE todo = <<"deal", "linked">>
        BY <1>0, <3>2, Queries
      <3> QED BY <2>1, <3>1, <3>2
    <2> QED BY <1>0, <2>1, <2>2, <2>3, OnRowArrives
  <1> QED BY <1>1, <1>2, <1>3, <1>4, <1>5, <1>6 DEF Deals

LEMMA PurchasingArrives ==
  ASSUME Inductive, NEW org \in Orgs, Purchasing(org) PROVE Arrives \/ Appears
  <1>0. /\ "order" \in Kinds \ (Unowned \union {"file"}) /\ "supplier" \in Columns
        /\ HasColumn("order", "supplier") /\ Numbers \subseteq Nat
        /\ {"self", "supplier"} \subseteq Looks
    BY ColumnsThereAre, WorkAssumption DEF Kinds, Unowned, Looks
  <1>1. ASSUME NEW b \in Requests, b.todo # <<>>, Regular(b, kind), b.id \in Of("order"),
               NEW qty \in Numbers, NEW price \in Numbers, Start(Priced(b, qty, price)),
               b.act = "create" => Unused(b.id)
        PROVE  Arrives
    <2> DEFINE r == Priced(b, qty, price)
    <2>1. r \in Requests /\ r.act = b.act /\ r.id = b.id /\ r.new = b.new /\ r.todo = b.todo
      BY <1>0, PricedFields
    <2>2. r.sets = b.sets
      BY DEF Priced, Requests
    <2> HIDE DEF r
    <2>3. Regular(r, kind)
      BY <1>1, <2>1, <2>2 DEF Regular
    <2> QED BY <1>1, <2>1, <2>3 DEF Arrives, Of, r
  <1>2. CASE OrderCreate(org)
    <2>1. PICK i \in Fresh("order", org), x \in Of("supplier") \union {None},
               qty \in Numbers, price \in Numbers :
             IF x = None
             THEN /\ st' = [st EXCEPT ![i] = "live"]
                  /\ UNCHANGED <<ids, ref, rank, disk, reqs, history>>
             ELSE Start(Priced(Request("create", i, org, Link("supplier", x), Columns,
                                       <<"supplier">>), qty, price))
      BY <1>2 DEF OrderCreate
    <2>2. i \in Rows /\ kind[i] = "order" /\ Unused(i) /\ i \in Of("order")
      BY DEF Fresh, Of, Unused
    <2>3. CASE x = None
      BY <1>0, <2>1, <2>2, <2>3 DEF Appears
    <2>4. CASE x # None
      <3> DEFINE b == Request("create", i, org, Link("supplier", x), Columns, <<"supplier">>)
      <3>1. Link("supplier", x) \in Refs /\ Keyed("order", Columns, Link("supplier", x), kind)
        BY <1>0, LinkKeyed
      <3>2. b \in Requests /\ b.todo # <<>>
        BY <1>0, <2>2, <3>1, PendingOne DEF Request, Requests, Acts, Fields
      <3>3. b.act = "create" /\ b.id = i /\ b.new = Link("supplier", x) /\ b.sets = Columns
        BY DEF Request
      <3>4. Start(Priced(b, qty, price))
        BY <2>1, <2>4
      <3> HIDE DEF b
      <3>5. b.sets \intersect Columns = Columns /\ Rooted("order", b.new)
        BY <3>3 DEF Rooted
      <3>6. Regular(b, kind)
        BY <2>2, <3>1, <3>3, <3>5 DEF Regular
      <3> QED BY <1>1, <2>2, <3>2, <3>3, <3>4, <3>6
    <2> QED BY <2>3, <2>4
  <1>3. CASE OrderUpdate(org)
    <2>1. PICK i \in Of("order"), sets \in {{"qty"}, {"price"}, {"qty", "price"}},
               qty \in Numbers, price \in Numbers :
             Start(Priced(Request("update", i, org, NoRef, sets, <<"self">>), qty, price))
      BY <1>3 DEF OrderUpdate
    <2> DEFINE b == Request("update", i, org, NoRef, sets, <<"self">>)
    <2>2. i \in Rows /\ kind[i] = "order" /\ sets \in SUBSET Fields /\ sets \intersect Columns = {}
      BY DEF Of, Fields, Columns
    <2>3. b \in Requests /\ b.todo # <<>>
      BY <1>0, <2>2, NoRefIsRefs, PendingOne DEF Request, Requests, Acts
    <2>4. b.act = "update" /\ b.id = i /\ b.new = NoRef /\ b.sets = sets
      BY DEF Request
    <2>5. Start(Priced(b, qty, price))
      BY <2>1
    <2> HIDE DEF b
    <2>6. Regular(b, kind)
      BY <2>2, <2>4 DEF Regular, Keyed
    <2> QED BY <1>1, <2>3, <2>4, <2>5, <2>6
  <1>4. CASE OrderRemove(org)
    BY <1>0, <1>4, ChangeArrives DEF OrderRemove
  <1> QED BY <1>2, <1>3, <1>4 DEF Purchasing

LEMMA RouteArrives ==
  ASSUME Inductive, NEW org \in Orgs, Route(org)
  PROVE  Arrives \/ Appears \/ FileUpload(org) \/ Idles \/ BulkDelete(org)
  <1>1. /\ {"customer", "supplier", "product", "event", "team"} \subseteq Kinds \ (Unowned \union {"file"})
        /\ {"customer", "supplier", "product", "event", "team", "invoice", "entry"}
              \subseteq Kinds \ {"file", "milestone"}
    BY DEF Kinds, Unowned
  <1>2. CASE Customers(org) \/ Suppliers(org) \/ Products(org) \/ Calendar(org) \/ TeamCreate(org)
    BY <1>1, <1>2, InsertAppears, ChangeArrives
       DEF Customers, CustomerCreate, CustomerUpdate, CustomerRemove, Suppliers, SupplierCreate,
           SupplierUpdate, SupplierRemove, Products, ProductCreate, ProductUpdate, ProductRemove,
           Calendar, EventCreate, EventUpdate, EventRemove, TeamCreate
  <1>3. CASE Invoices(org)
    BY <1>1, <1>3, CreateOneArrives, ChangeArrives, ColumnsThereAre
       DEF Invoices, InvoiceCreate, InvoiceUpdate, InvoiceRemove
  <1>4. CASE TimeEntries(org)
    BY <1>1, <1>4, CreateUnderArrives, ChangeArrives
       DEF TimeEntries, EntryCreate, EntryUpdate, EntryDelete
  <1>5. CASE Uploads(org)
    BY <1>5, FileDeleteArrives DEF Uploads
  <1> QED BY <1>2, <1>3, <1>4, <1>5, ProjectsArrive, TasksArrive, CommentsArrive, TagsArrive,
             DealsArrive, PurchasingArrives DEF Route

-----------------------------------------------------------------------------
\* Requests stay regular.
LEMMA TailsOfTodo ==
  /\ Tail(<<"deal", "max">>) = <<"max">> /\ Tail(<<"max">>) = <<>>
  /\ Tail(<<"self", "unlink">>) = <<"unlink">> /\ Tail(<<"unlink">>) = <<>>
  /\ Tail(<<"task">>) = <<>> /\ Tail(<<"project">>) = <<>>
  OBVIOUS

LEMMA PassedRegular ==
  ASSUME NEW r \in Requests, r.todo # <<>>, Regular(r, kind)
  PROVE  Regular(Passed(r), kind)
  <1> DEFINE q == Passed(r)
  <1>1. /\ q.todo = Tail(r.todo) /\ q.act = r.act /\ q.id = r.id /\ q.new = r.new
        /\ q.sets = r.sets
    BY PassedFields
  <1>2. /\ r.todo = <<"deal", "max">> => q.todo = <<"max">>
        /\ r.todo = <<"self", "unlink">> => q.todo = <<"unlink">>
    BY <1>1, TailsOfTodo
  <1>3. /\ r.todo \in {<<"deal", "max">>, <<"max">>, <<>>} => q.todo \in {<<"max">>, <<>>}
        /\ r.todo \in {<<"self", "unlink">>, <<"unlink">>, <<>>} => q.todo \in {<<"unlink">>, <<>>}
    BY <1>1, <1>2, TailsOfTodo
  <1>4. r.todo \in {<<"task">>, <<"project">>, <<>>} => q.todo = <<>>
    BY <1>1, TailsOfTodo
  <1> HIDE DEF q
  <1>5. Regular(q, kind)
    BY <1>1, <1>2, <1>3, <1>4 DEF Regular
  <1> QED BY <1>5 DEF q

LEMMA SlotRegular ==
  ASSUME Inductive, RequestsRegular, UNCHANGED ids, NEW s \in Slots, NEW q,
         q # Idle => Regular(q, kind), reqs' = [reqs EXCEPT ![s] = q]
  PROVE  RequestsRegular'
  <1>1. kind' = kind /\ reqs \in [Slots -> Requests \union {Idle}]
    BY SameRows DEF Inductive, TypeOK
  <1> QED BY <1>1 DEF RequestsRegular

LEMMA RequestsStayRegular ==
  ASSUME Inductive, RequestsRegular, [Next]_vars PROVE RequestsRegular'
  <1>0. reqs \in [Slots -> Requests \union {Idle}]
    BY DEF Inductive, TypeOK
  <1>1. ASSUME UNCHANGED <<ids, reqs>> PROVE RequestsRegular'
    BY <1>1, SameRows DEF RequestsRegular
  <1>2. ASSUME NEW s \in Slots, Done(s), UNCHANGED ids PROVE RequestsRegular'
    BY <1>2, SlotRegular DEF Done
  <1>3. ASSUME NEW s \in Slots, NEW n, reqs[s] # Idle, reqs[s].todo # <<>>, UNCHANGED ids,
               \/ reqs' = [reqs EXCEPT ![s] = Passed(reqs[s])]
               \/ reqs' = [reqs EXCEPT ![s] = [Passed(reqs[s]) EXCEPT !.rank = n]]
        PROVE  RequestsRegular'
    <2>1. reqs[s] \in Requests /\ Regular(reqs[s], kind)
      BY <1>3, RequestAt DEF RequestsRegular
    <2>2. Regular(Passed(reqs[s]), kind) /\ Passed(reqs[s]) \in Requests
      BY <1>3, <2>1, PassedRegular, PassedFields
    <2> DEFINE q == Passed(reqs[s])
               p == [q EXCEPT !.rank = n]
    <2> HIDE DEF q
    <2>3. p.todo = q.todo /\ p.act = q.act /\ p.id = q.id /\ p.new = q.new /\ p.sets = q.sets
      BY <2>2 DEF Requests, q
    <2> HIDE DEF p
    <2>4. Regular(p, kind)
      BY <2>2, <2>3 DEF Regular, q
    <2> QED BY <1>3, <2>2, <2>4, SlotRegular DEF p, q
  <1>4. ASSUME NEW org \in Orgs, Route(org) PROVE RequestsRegular'
    <2>1. CASE Arrives
      <3>1. PICK r \in Requests : r.todo # <<>> /\ Regular(r, kind) /\ Start(r)
        BY <2>1 DEF Arrives
      <3>2. PICK s \in Slots : reqs' = [reqs EXCEPT ![s] = Passed(r)]
        BY <3>1 DEF Start
      <3> QED BY <3>1, <3>2, PassedRegular, SlotRegular DEF Start
    <2>2. CASE Appears \/ Idles
      BY <1>1, <2>2 DEF Appears, Idles
    <2>3. CASE BulkDelete(org)
      BY <1>1, <2>3 DEF BulkDelete, Delete
    <2>4. CASE FileUpload(org)
      <3>1. PICK i \in Fresh("file", org), new \in Parents, s \in Slots :
               reqs' = [reqs EXCEPT ![s] =
                          Request("create", i, org, new, Columns, FirstParent(new))]
        BY <2>4 DEF FileUpload
      <3> DEFINE r == Request("create", i, org, new, Columns, FirstParent(new))
      <3>2. FirstParent(new) \in {<<"task">>, <<"project">>}
        BY ParentsFit
      <3>3. /\ r.act = "create" /\ r.id = i /\ r.new = new /\ r.sets = Columns
            /\ r.todo = FirstParent(new)
        BY DEF Request
      <3>4. reqs' = [reqs EXCEPT ![s] = r] /\ UNCHANGED ids
        BY <2>4, <3>1 DEF FileUpload
      <3> HIDE DEF r
      <3>5. kind[i] = "file" /\ Keyed("file", Columns, new, kind)
        BY FreshIsHome, ParentsKeyed, ColumnsThereAre
      <3>6. Rooted("file", new) /\ r.sets \intersect Columns = Columns
        BY <3>3 DEF Rooted
      <3>7. Regular(r, kind)
        BY <3>2, <3>3, <3>5, <3>6 DEF Regular
      <3> QED BY <3>4, <3>7, SlotRegular
    <2> QED BY <1>4, <2>1, <2>2, <2>3, <2>4, RouteArrives
  <1>5. ASSUME NEW s \in Slots, Look(s) \/ UnlinkFile(s) PROVE RequestsRegular'
    BY <1>0, <1>3, <1>5 DEF Look, UnlinkFile, At
  <1>6. ASSUME NEW s \in Slots, ReadMaxOrder(s) PROVE RequestsRegular'
    BY <1>0, <1>3, <1>6 DEF ReadMaxOrder, At
  <1>7. ASSUME NEW s \in Slots, Refuse(s) \/ Writing(s) PROVE RequestsRegular'
    BY <1>2, <1>7 DEF Refuse, Writing, WriteCreate, WriteUpdate, WriteDetach, WriteRemove, WriteUntag,
                      WriteBulk, WriteFails, Delete
  <1>8. CASE Restart \/ Redeploy
    BY <1>8 DEF Restart, Redeploy, Stop, RequestsRegular
  <1>9. CASE UNCHANGED vars
    BY <1>1, <1>9 DEF vars, ids
  <1> QED BY <1>4, <1>5, <1>6, <1>7, <1>8, <1>9 DEF Next

\* The id of a request for one row is a row's.
LEMMA TargetsAreRows ==
  ASSUME Inductive, NEW s \in Slots, reqs[s] # Idle, reqs[s].act \notin {"untag", "bulk"}
  PROVE  reqs[s].id \in Rows
  BY RequestAt DEF Honest, Rows

\* What a bulk deletion or a request deletes is there.
LEMMA BulkDeletes ==
  ASSUME NEW org, BulkDelete(org)
  PROVE  \E gone \in SUBSET Rows : /\ \A i \in gone : Live(i) /\ kind[i] = "task"
                                   /\ Delete(gone, org) /\ UNCHANGED reqs
  <1>1. PICK asked \in SUBSET Of("task") : /\ Delete({i \in asked : TaskIn(i, org)}, org)
                                          /\ UNCHANGED reqs
    BY DEF BulkDelete
  <1>2. \A i \in {i \in asked : TaskIn(i, org)} : i \in Rows /\ Live(i) /\ kind[i] = "task"
    BY DEF TaskIn, Of
  <1> QED BY <1>1, <1>2

LEMMA WritingDeletes ==
  ASSUME Inductive, NEW s \in Slots, WriteRemove(s) \/ WriteUntag(s)
  PROVE  \E gone \in SUBSET Rows :
            /\ \A i \in gone : Live(i)
            /\ Delete(gone, reqs[s].org) /\ Done(s)
            /\ WriteRemove(s) => reqs[s].id \in gone
  <1>1. CASE WriteRemove(s)
    <2>1. reqs[s].id \in Rows
      BY <1>1, RequestAt DEF WriteRemove, Writes, Honest, Rows
    <2> QED BY <1>1, <2>1 DEF WriteRemove
  <1>2. CASE WriteUntag(s)
    <2> DEFINE gone == {i \in Rows : /\ kind[i] \in {"taskTag", "projectTag"}
                                     /\ Live(i) /\ ref[i] = reqs[s].new}
    <2>1. Delete(gone, reqs[s].org) /\ Done(s) /\ gone \in SUBSET Rows /\ \A i \in gone : Live(i)
      BY <1>2 DEF WriteUntag
    <2>2. ~WriteRemove(s)
      BY <1>2 DEF WriteUntag, WriteRemove, Writes
    <2> QED BY <2>1, <2>2
  <1> QED BY <1>1, <1>2

\* What is deleted was there; what is gone stays gone.
LEMMA DeleteStates ==
  ASSUME NEW gone \in SUBSET Rows, \A i \in gone : Live(i), NEW org, Delete(gone, org)
  PROVE  /\ \A i \in Rows : st[i] = "none" <=> st'[i] = "none"
         /\ \A i \in Rows : st'[i] = "live" => Live(i) /\ i \notin gone
  <1> DEFINE fallen == gone \union {i \in Rows : Falls(i, gone)}
  <1>1. st' = [i \in Rows |-> IF i \in fallen THEN "gone" ELSE st[i]]
    BY DEF Delete
  <1>2. \A i \in fallen : Live(i)
    BY DEF Falls, Named
  <1>3. gone \subseteq fallen
    OBVIOUS
  <1> HIDE DEF fallen
  <1> QED BY <1>1, <1>2, <1>3 DEF Live

------------------------------------------------------------------------------
\* The id under which a request is about to create a row has no row yet, and no
\* other request is about to use it.
Making(s) == reqs[s] # Idle /\ reqs[s].act = "create"

IdsUnused ==
    \A s \in Slots : Making(s) =>
        /\ st[reqs[s].id] = "none"
        /\ \A q \in Slots \ {s} : Making(q) => reqs[q].id # reqs[s].id

LEMMA QuietIdsUnused ==
  ASSUME Inductive, IdsUnused, \A i \in Rows : st[i] = "none" => st'[i] = "none",
         \A s \in Slots : Making(s)' => Making(s) /\ reqs'[s].id = reqs[s].id
  PROVE  IdsUnused'
  <1>1. \A s \in Slots : Making(s) => reqs[s].id \in Rows
    BY TargetsAreRows DEF Making
  <1> SUFFICES ASSUME NEW s \in Slots, Making(s)'
               PROVE  /\ st'[reqs'[s].id] = "none"
                      /\ \A q \in Slots \ {s} : Making(q)' => reqs'[q].id # reqs'[s].id
    BY DEF IdsUnused
  <1> QED BY <1>1 DEF IdsUnused

LEMMA SlotIdsUnused ==
  ASSUME Inductive, IdsUnused, \A i \in Rows : st[i] = "none" => st'[i] = "none",
         NEW s \in Slots, NEW q, reqs' = [reqs EXCEPT ![s] = q],
         (q # Idle /\ q.act = "create") => Making(s) /\ q.id = reqs[s].id
  PROVE  IdsUnused'
  <1>1. reqs'[s] = q /\ \A p \in Slots \ {s} : reqs'[p] = reqs[p]
    BY DEF Inductive, TypeOK
  <1>2. \A p \in Slots : Making(p)' => Making(p) /\ reqs'[p].id = reqs[p].id
    BY <1>1 DEF Making
  <1> QED BY <1>2, QuietIdsUnused

\* A request under an id nobody uses.
LEMMA NewIdsUnused ==
  ASSUME Inductive, IdsUnused, UNCHANGED st, NEW s \in Slots, NEW q,
         reqs' = [reqs EXCEPT ![s] = q], (q # Idle /\ q.act = "create") => Unused(q.id)
  PROVE  IdsUnused'
  <1>1. reqs'[s] = q /\ \A p \in Slots \ {s} : reqs'[p] = reqs[p]
    BY DEF Inductive, TypeOK
  <1>2. \A p \in Slots \ {s} : Making(p)' => Making(p)
    BY <1>1 DEF Making
  <1>3. Making(s)' => /\ st[q.id] = "none"
                     /\ \A p \in Slots \ {s} : Making(p) => reqs[p].id # q.id
    BY <1>1 DEF Making, Unused
  <1> SUFFICES ASSUME NEW t \in Slots, Making(t)'
               PROVE  /\ st[reqs'[t].id] = "none"
                      /\ \A p \in Slots \ {t} : Making(p)' => reqs'[p].id # reqs'[t].id
    BY DEF IdsUnused
  <1>4. CASE t = s
    BY <1>1, <1>2, <1>3, <1>4
  <1>5. CASE t # s
    BY <1>1, <1>2, <1>3, <1>5 DEF IdsUnused
  <1> QED BY <1>4, <1>5

LEMMA IdsStayUnused ==
  ASSUME Inductive, IdsUnused, [Next]_vars PROVE IdsUnused'
  <1>0. reqs \in [Slots -> Requests \union {Idle}] /\ st \in [Rows -> {"none", "live", "gone"}]
    BY DEF Inductive, TypeOK
  <1>1. ASSUME UNCHANGED reqs, \A i \in Rows : st[i] = "none" => st'[i] = "none" PROVE IdsUnused'
    BY <1>1, QuietIdsUnused DEF Making
  <1>2. ASSUME NEW s \in Slots, Done(s), \A i \in Rows : st[i] = "none" => st'[i] = "none"
        PROVE  IdsUnused'
    BY <1>2, SlotIdsUnused DEF Done
  <1>3. ASSUME NEW org \in Orgs, Route(org) PROVE IdsUnused'
    <2>1. CASE Arrives
      <3>1. PICK r \in Requests : /\ r.todo # <<>>
                                  /\ r.act = "create" => Unused(r.id)
                                  /\ Start(r)
        BY <2>1 DEF Arrives
      <3>2. PICK s \in Slots : reqs' = [reqs EXCEPT ![s] = Passed(r)]
        BY <3>1 DEF Start
      <3>3. UNCHANGED st /\ Passed(r).act = r.act /\ Passed(r).id = r.id
        BY <3>1, PassedFields DEF Start, rows
      <3> QED BY <3>1, <3>2, <3>3, NewIdsUnused
    <2>2. CASE Appears
      <3>1. PICK i \in Rows : Unused(i) /\ st' = [st EXCEPT ![i] = "live"] /\ UNCHANGED reqs
        BY <2>2 DEF Appears
      <3>2. \A s \in Slots : Making(s) => reqs[s].id \in Rows /\ reqs[s].id # i
        BY <3>1, TargetsAreRows DEF Making, Unused
      <3>3. \A s \in Slots : Making(s)' <=> Making(s)
        BY <3>1 DEF Making
      <3> QED BY <1>0, <3>1, <3>2, <3>3 DEF IdsUnused
    <2>3. CASE Idles
      BY <1>1, <2>3 DEF Idles, rows
    <2>4. CASE BulkDelete(org)
      BY <1>1, <2>4, BulkDeletes, DeleteStates
    <2>5. CASE FileUpload(org)
      <3>1. PICK i \in Fresh("file", org), new \in Parents, s \in Slots :
               reqs' = [reqs EXCEPT ![s] =
                          Request("create", i, org, new, Columns, FirstParent(new))]
        BY <2>5 DEF FileUpload
      <3> DEFINE r == Request("create", i, org, new, Columns, FirstParent(new))
      <3>2. reqs' = [reqs EXCEPT ![s] = r] /\ r.id = i
        BY <3>1 DEF Request
      <3>3. Unused(i) /\ UNCHANGED st
        BY <2>5 DEF Fresh, Unused, FileUpload, rows
      <3> HIDE DEF r
      <3> QED BY <3>2, <3>3, NewIdsUnused
    <2> QED BY <1>3, <2>1, <2>2, <2>3, <2>4, <2>5, RouteArrives
  <1>4. ASSUME NEW s \in Slots, Look(s) \/ ReadMaxOrder(s) \/ UnlinkFile(s) PROVE IdsUnused'
    <2> DEFINE r == reqs[s]
               q == Passed(r)
    <2>1. r # Idle /\ r.todo # <<>> /\ UNCHANGED st
      BY <1>4 DEF Look, ReadMaxOrder, UnlinkFile, At, rows
    <2>2. r \in Requests
      BY <2>1, RequestAt
    <2>3. PICK n : \/ reqs' = [reqs EXCEPT ![s] = q]
                   \/ reqs' = [reqs EXCEPT ![s] = [q EXCEPT !.rank = n]]
      BY <1>0, <1>4 DEF Look, ReadMaxOrder, UnlinkFile
    <2> DEFINE p == [q EXCEPT !.rank = n]
    <2>4. q \in Requests /\ q.act = r.act /\ q.id = r.id
      BY <2>1, <2>2, PassedFields
    <2> HIDE DEF q
    <2>5. p.act = r.act /\ p.id = r.id
      BY <2>4 DEF Requests
    <2> HIDE DEF p
    <2>6. reqs' = [reqs EXCEPT ![s] = q] \/ reqs' = [reqs EXCEPT ![s] = p]
      BY <2>3 DEF p
    <2> QED BY <2>1, <2>4, <2>5, <2>6, SlotIdsUnused DEF Making
  <1>5. ASSUME NEW s \in Slots, \/ Refuse(s) \/ WriteUpdate(s) \/ WriteDetach(s) \/ WriteBulk(s)
                                \/ WriteFails(s)
        PROVE  IdsUnused'
    BY <1>2, <1>5 DEF Refuse, WriteUpdate, WriteDetach, WriteBulk, WriteFails, rows
  <1>6. ASSUME NEW s \in Slots, WriteRemove(s) \/ WriteUntag(s) PROVE IdsUnused'
    BY <1>2, <1>6, WritingDeletes, DeleteStates
  <1>7. ASSUME NEW s \in Slots, WriteCreate(s) PROVE IdsUnused'
    <2>1. /\ Making(s) /\ st' = [st EXCEPT ![reqs[s].id] = "live"]
          /\ reqs' = [reqs EXCEPT ![s] = Idle]
      BY <1>7 DEF WriteCreate, Writes, Done, Making
    <2>2. reqs'[s] = Idle /\ \A p \in Slots \ {s} : reqs'[p] = reqs[p]
      BY <1>0, <2>1
    <2>3. \A p \in Slots : Making(p)' => p # s /\ Making(p) /\ reqs'[p] = reqs[p]
      BY <2>2 DEF Making
    <2>4. \A p \in Slots : Making(p)' => st'[reqs[p].id] = "none"
      <3>1. \A p \in Slots : Making(p)' => reqs[p].id \in Rows /\ reqs[p].id # reqs[s].id
        BY <2>1, <2>3, TargetsAreRows DEF IdsUnused, Making
      <3> QED BY <1>0, <2>1, <2>3, <3>1 DEF IdsUnused
    <2> QED BY <2>3, <2>4 DEF IdsUnused
  <1>8. CASE Restart \/ Redeploy
    BY <1>8 DEF Restart, Redeploy, Stop, IdsUnused, Making
  <1>9. CASE UNCHANGED vars
    BY <1>1, <1>9 DEF vars
  <1> QED BY <1>3, <1>4, <1>5, <1>6, <1>7, <1>8, <1>9 DEF Next, Writing

------------------------------------------------------------------------------
\* Rows stay what the schema makes of them, and name rows that are there.
Attached(i) ==
    /\ kind[i] = "task" => ref[i]["project"] # None \/ i \in lost
    /\ kind[i] = "entry" => Hangs(ref[i]) \/ i \in lost
    /\ kind[i] = "milestone" => ref[i]["deal"] # None
    /\ i \in crossed => ref[i]["task"] # None \/ i \in lost

RowsRegular ==
    \A i \in Rows : /\ Keyed(kind[i], Columns, ref[i], kind)
                    /\ st[i] = "none" => ref[i] = NoRef /\ i \notin crossed
                    /\ Live(i) => Attached(i)

RowsKept == RowsRegular /\ RefsAreLive

LEMMA KeyThereIs ==
  ASSUME NEW k, NEW c, HasColumn(k, c), k # "file"
  PROVE  OnDelete(k, c) \in {"Cascade", "SetNull"}
  <1>1. <<k, c>> \in Cascades \/ <<k, c>> \in SetNulls
    BY DEF HasColumn
  <1> QED BY <1>1 DEF OnDelete

LEMMA CascadeIsLast ==
  ASSUME NEW k, NEW c, OnDelete(k, c) = "Cascade"
  PROVE  k \notin Columns
  <1>1. <<k, c>> \in Cascades
    BY DEF OnDelete
  <1> QED BY <1>1 DEF Cascades, Columns

LEMMA KindsWithoutSetNull ==
  /\ \A c : OnDelete("milestone", c) # "SetNull"
  /\ \A c : OnDelete("file", c) = "none"
  <1>1. \A c : <<"milestone", c>> \notin SetNulls
    BY DEF SetNulls
  <1>2. \A c : <<"file", c>> \notin SetNulls /\ <<"file", c>> \notin Cascades
    BY DEF SetNulls, Cascades
  <1> QED BY <1>1, <1>2 DEF OnDelete

LEMMA QuietRowsKept ==
  ASSUME RowsKept, UNCHANGED <<ids, rows, crossed>>, lost \subseteq lost'
  PROVE  RowsKept'
  <1>1. Rows' = Rows /\ kind' = kind /\ st' = st /\ ref' = ref
    BY SameRows DEF rows
  <1>2. \A i \in Rows : Attached(i) => Attached(i)'
    BY <1>1 DEF Attached, Hangs
  <1>3. \A i \in Rows : Keyed(kind[i], Columns, ref[i], kind) => Keyed(kind[i], Columns, ref[i], kind)'
    BY <1>1 DEF Keyed, HasColumn
  <1>4. RowsRegular'
    BY <1>1, <1>2, <1>3 DEF RowsKept, RowsRegular, Live
  <1>5. RefsAreLive'
    BY <1>1 DEF RowsKept, RefsAreLive, Live
  <1> QED BY <1>4, <1>5 DEF RowsKept

\* One row gets columns and is there; the columns are those of its kind and name
\* rows that are there.
LEMMA OneRowKept ==
  ASSUME Inductive, RowsKept, NEW i \in Rows, NEW new \in Refs, UNCHANGED <<ids, lost>>,
         Keyed(kind[i], Columns, new, kind),
         kind[i] = "task" => new["project"] # None \/ i \in lost,
         kind[i] = "entry" => Hangs(new) \/ i \in lost,
         kind[i] = "milestone" => new["deal"] # None,
         crossed \subseteq crossed', crossed' \subseteq crossed \union {i},
         i \in crossed' => new["task"] # None \/ i \in lost,
         \A c \in Columns : (new[c] # None /\ kind[i] # "file") => Live(new[c]),
         st' = [st EXCEPT ![i] = "live"], ref' = [ref EXCEPT ![i] = new]
  PROVE  RowsKept'
  <1>1. /\ Rows' = Rows /\ kind' = kind
        /\ st \in [Rows -> {"none", "live", "gone"}] /\ ref \in [Rows -> Refs]
    BY SameRows DEF Inductive, TypeOK
  <1>2. /\ st'[i] = "live" /\ ref'[i] = new
        /\ \A j \in Rows \ {i} : st'[j] = st[j] /\ ref'[j] = ref[j]
    BY <1>1
  <1>3. \A j \in Rows : Keyed(kind[j], Columns, ref'[j], kind)
    BY <1>2 DEF RowsKept, RowsRegular
  <1>4. RowsRegular'
    <2> SUFFICES ASSUME NEW j \in Rows
                 PROVE  /\ Keyed(kind[j], Columns, ref'[j], kind)
                        /\ st'[j] = "none" => ref'[j] = NoRef /\ j \notin crossed'
                        /\ st'[j] = "live" => Attached(j)'
      BY <1>1 DEF RowsRegular, Live
    <2>1. CASE j = i
      BY <1>1, <1>2, <1>3, <2>1 DEF Attached
    <2>2. CASE j # i
      BY <1>1, <1>2, <1>3, <2>2 DEF RowsKept, RowsRegular, Attached, Live
    <2> QED BY <2>1, <2>2
  <1>5. RefsAreLive'
    <2>1. \A x \in Rows : Live(x) => st'[x] = "live"
      BY <1>2 DEF Live
    <2>2. ASSUME NEW j \in Rows, NEW c \in Columns, st'[j] = "live", ref'[j][c] # None,
                 kind[j] # "file"
          PROVE  st'[ref'[j][c]] = "live"
      <3>1. ref'[j][c] \in Rows
        BY <1>1, <1>2, <2>2 DEF Refs
      <3>2. Live(ref'[j][c])
        BY <1>2, <2>2 DEF RowsKept, RefsAreLive, Live
      <3> QED BY <2>1, <3>1, <3>2
    <2> QED BY <1>1, <2>2 DEF RefsAreLive, Live
  <1> QED BY <1>4, <1>5 DEF RowsKept

LEMMA AppearsRows == ASSUME Inductive, RowsKept, Appears PROVE RowsKept'
  <1>1. PICK i \in Rows : /\ st[i] = "none" /\ kind[i] \notin Unowned \union {"file"}
                          /\ st' = [st EXCEPT ![i] = "live"]
                          /\ UNCHANGED <<ids, ref, rank, disk, reqs, history>>
    BY DEF Appears, Unused
  <1>2. ref[i] = NoRef /\ i \notin crossed /\ ref \in [Rows -> Refs]
    BY <1>1 DEF RowsKept, RowsRegular, Inductive, TypeOK
  <1>3. ref' = [ref EXCEPT ![i] = NoRef] /\ UNCHANGED <<lost, crossed>>
    BY <1>1, <1>2 DEF history
  <1>4. NoRef \in Refs /\ \A c \in Columns : NoRef[c] = None
    BY NoRefIsRefs
  <1>5. kind[i] \notin {"task", "entry", "milestone"}
    BY <1>1 DEF Unowned
  <1>6. Keyed(kind[i], Columns, NoRef, kind)
    BY <1>4 DEF Keyed
  <1> QED BY <1>1, <1>2, <1>3, <1>4, <1>5, <1>6, OneRowKept

LEMMA WriteCreateRows ==
  ASSUME Inductive, RequestsRegular, IdsUnused, RowsKept, NEW s \in Slots, WriteCreate(s) PROVE RowsKept'
  <1> DEFINE r == reqs[s]
  <1>1. r # Idle /\ r.act = "create"
    BY DEF WriteCreate, Writes
  <1>2. r \in Requests /\ r.id \in Rows /\ r.new \in Refs
    BY <1>1, RequestAt DEF Honest, Rows, Requests
  <1>3. Regular(r, kind)
    BY <1>1 DEF RequestsRegular
  <1>4. /\ st' = [st EXCEPT ![r.id] = "live"] /\ ref' = [ref EXCEPT ![r.id] = r.new]
        /\ KeysHold(kind[r.id], Columns, r.new) /\ UNCHANGED <<ids, lost>>
    BY DEF WriteCreate
  <1> HIDE DEF r
  <1>5. Keyed(kind[r.id], Columns, r.new, kind) /\ Rooted(kind[r.id], r.new)
    <2>1. Columns \subseteq r.sets
      BY <1>1, <1>3 DEF Regular
    <2>2. r.sets \intersect Columns = Columns
      BY <2>1
    <2> QED BY <1>1, <1>3, <2>2 DEF Regular
  <1>6. \A c \in Columns : (r.new[c] # None /\ kind[r.id] # "file") => Live(r.new[c])
    BY <1>4, <1>5, KeyThereIs DEF Keyed, KeysHold
  <1>7. r.id \notin crossed
    BY <1>1, <1>2 DEF IdsUnused, Making, RowsKept, RowsRegular, r
  <1>8. crossed' = IF Crosses(r) THEN crossed \union {r.id} ELSE crossed
    BY DEF WriteCreate, r
  <1>9. r.id \in crossed' => r.new["task"] # None
    BY <1>7, <1>8 DEF Crosses
  <1> QED BY <1>2, <1>4, <1>5, <1>6, <1>8, <1>9, OneRowKept DEF Rooted

LEMMA WriteUpdateRows ==
  ASSUME Inductive, RequestsRegular, RowsKept, NEW s \in Slots, WriteUpdate(s) PROVE RowsKept'
  <1> DEFINE r == reqs[s]
             new == [c \in Columns |-> IF c \in r.sets THEN r.new[c] ELSE ref[r.id][c]]
  <1>1. r # Idle /\ r.act = "update"
    BY DEF WriteUpdate, Writes
  <1>2. r \in Requests /\ r.id \in Rows /\ r.new \in Refs /\ kind[r.id] # "comment"
    BY <1>1, RequestAt DEF Honest, Shaped, Rows, Requests
  <1>3. Regular(r, kind)
    BY <1>1 DEF RequestsRegular
  <1>4. /\ Live(r.id) /\ UNCHANGED st /\ ref' = [ref EXCEPT ![r.id] = new]
        /\ KeysHold(kind[r.id], r.sets, r.new) /\ UNCHANGED <<ids, lost, crossed>>
    BY DEF WriteUpdate, history
  <1> HIDE DEF r
  <1>5. new \in Refs
    BY <1>2 DEF Refs, Inductive, TypeOK
  <1>6. Keyed(kind[r.id], r.sets \intersect Columns, r.new, kind) /\ kind[r.id] # "file"
    BY <1>1, <1>3 DEF Regular
  <1>7. Keyed(kind[r.id], Columns, new, kind)
    BY <1>2, <1>6 DEF Keyed, RowsKept, RowsRegular
  <1>8. \A c \in Columns : new[c] # None => Live(new[c])
    BY <1>2, <1>4, <1>6, KeyThereIs DEF Keyed, KeysHold, RowsKept, RefsAreLive
  <1>9. Attached(r.id)
    BY <1>2, <1>4 DEF RowsKept, RowsRegular
  <1>10. "project" \in Columns /\ "task" \in Columns /\ "deal" \in Columns
    BY DEF Columns
  <1>11. /\ kind[r.id] = "task" => new["project"] # None \/ r.id \in lost
         /\ kind[r.id] = "entry" => Hangs(new) \/ r.id \in lost
         /\ kind[r.id] = "milestone" => new["deal"] # None
    BY <1>1, <1>3, <1>9, <1>10 DEF Regular, Attached, Hangs
  <1>12. st' = [st EXCEPT ![r.id] = "live"]
    BY <1>2, <1>4 DEF Live, Inductive, TypeOK
  <1>13. ASSUME r.id \in crossed PROVE new["task"] # None \/ r.id \in lost
    <2>1. kind[r.id] = "entry"
      BY <1>2, <1>6, <1>13 DEF Inductive, CrossedHang, TwoParents
    <2>2. new["task"] = ref[r.id]["task"]
      BY <1>1, <1>3, <1>10, <2>1 DEF Regular
    <2> QED BY <1>9, <1>13, <2>2 DEF Attached
  <1> HIDE DEF new
  <1> QED BY <1>2, <1>4, <1>5, <1>7, <1>8, <1>11, <1>12, <1>13, OneRowKept

LEMMA WriteDetachRows ==
  ASSUME Inductive, RequestsRegular, RowsKept, NEW s \in Slots, WriteDetach(s) PROVE RowsKept'
  <1> DEFINE r == reqs[s]
             new == [ref[r.id] EXCEPT !["deal"] = None]
  <1>1. r # Idle /\ r.act = "detach"
    BY DEF WriteDetach, Writes
  <1>2. r \in Requests /\ r.id \in Rows
    BY <1>1, RequestAt DEF Honest, Rows
  <1>3. kind[r.id] = "project"
    BY <1>1 DEF RequestsRegular, Regular
  <1>4. /\ Live(r.id) /\ UNCHANGED st /\ ref' = [ref EXCEPT ![r.id] = new]
        /\ UNCHANGED <<ids, lost, crossed>>
    BY <1>2 DEF WriteDetach, history, Inductive, TypeOK
  <1>5. new \in Refs /\ \A c \in Columns : new[c] \in {None, ref[r.id][c]}
    BY <1>2 DEF Refs, Inductive, TypeOK
  <1> HIDE DEF r, new
  <1>6. Keyed(kind[r.id], Columns, new, kind)
    BY <1>2, <1>5 DEF Keyed, RowsKept, RowsRegular
  <1>7. \A c \in Columns : (new[c] # None /\ kind[r.id] # "file") => Live(new[c])
    BY <1>2, <1>4, <1>5 DEF RowsKept, RefsAreLive
  <1>8. st' = [st EXCEPT ![r.id] = "live"]
    BY <1>2, <1>4 DEF Live, Inductive, TypeOK
  <1>9. r.id \notin crossed
    BY <1>2, <1>3, NotCrossed DEF TwoParents
  <1> QED BY <1>2, <1>3, <1>4, <1>5, <1>6, <1>7, <1>8, <1>9, OneRowKept

\* Tasks are moved to a project that is there.
LEMMA WriteBulkRows ==
  ASSUME Inductive, RequestsRegular, RowsKept, NEW s \in Slots, WriteBulk(s) PROVE RowsKept'
  <1> DEFINE r == reqs[s]
             p == r.new["project"]
  <1>1. r # Idle /\ r.act = "bulk"
    BY DEF WriteBulk, Writes
  <1>2. r.sets = {"project"} /\ p # None /\ kind[p] = "project"
    BY <1>1 DEF RequestsRegular, Regular
  <1>3. PICK asked \in (SUBSET Of("task")) \ {{}} :
           LET moved == {i \in asked : TaskIn(i, r.org)} IN
           /\ moved # {} => KeysHold("task", r.sets, r.new)
           /\ ref' = [i \in Rows |-> IF i \in moved THEN [ref[i] EXCEPT !["project"] = p] ELSE ref[i]]
    BY DEF WriteBulk
  <1> DEFINE moved == {i \in asked : TaskIn(i, r.org)}
  <1>4. /\ moved # {} => KeysHold("task", r.sets, r.new)
        /\ ref' = [i \in Rows |-> IF i \in moved THEN [ref[i] EXCEPT !["project"] = p] ELSE ref[i]]
    BY <1>3
  <1>5. /\ UNCHANGED <<ids, st, lost, crossed>> /\ Rows' = Rows /\ kind' = kind
    BY SameRows DEF WriteBulk, history
  <1>6. \A i \in moved : i \in Rows /\ kind[i] = "task" /\ Live(i)
    BY DEF TaskIn, Of
  <1>7. OnDelete("task", "project") # "none" /\ HasColumn("task", "project")
    BY ColumnsThereAre, KeyThereIs
  <1> HIDE DEF p, r
  <1>8. moved # {} => Live(p)
    BY <1>2, <1>4, <1>7 DEF KeysHold, p
  <1> HIDE DEF moved
  <1>9. ref \in [Rows -> Refs] /\ "project" \in Columns
    BY DEF Inductive, TypeOK, Columns
  <1>10. ASSUME NEW i \in Rows
         PROVE  /\ i \notin moved => ref'[i] = ref[i]
                /\ i \in moved => /\ ref'[i]["project"] = p
                                  /\ \A c \in Columns \ {"project"} : ref'[i][c] = ref[i][c]
    BY <1>4, <1>9 DEF Refs
  <1>11. ASSUME NEW i \in Rows PROVE Keyed(kind[i], Columns, ref'[i], kind)
    BY <1>2, <1>6, <1>7, <1>10 DEF Keyed, RowsKept, RowsRegular
  <1>12. ASSUME NEW i \in Rows, Live(i) PROVE Attached(i)'
    <2>1. CASE i \in moved
      BY <1>2, <1>5, <1>6, <1>10, <2>1, NotCrossed DEF Attached, TwoParents
    <2>2. CASE i \notin moved
      BY <1>5, <1>10, <1>12, <2>2 DEF Attached, RowsKept, RowsRegular, Hangs
    <2> QED BY <2>1, <2>2
  <1>13. \A i \in Rows : st[i] = "none" => ref'[i] = NoRef /\ i \notin crossed
    BY <1>6, <1>10 DEF Live, RowsKept, RowsRegular
  <1>14. RowsRegular'
    BY <1>5, <1>11, <1>12, <1>13 DEF RowsRegular, Live, Keyed, HasColumn
  <1>15. RefsAreLive'
    BY <1>5, <1>8, <1>10 DEF RefsAreLive, Live, RowsKept
  <1> QED BY <1>14, <1>15 DEF RowsKept

\* What is deleted takes along or lets go whatever named it, and nothing names
\* what it took along.
LEMMA DeleteRows ==
  ASSUME Inductive, RowsKept, NEW gone \in SUBSET Rows, \A i \in gone : Live(i),
         NEW org, Delete(gone, org)
  PROVE  RowsKept'
  <1> DEFINE fallen == gone \union {i \in Rows : Falls(i, gone)}
  <1>1. /\ st' = [i \in Rows |-> IF i \in fallen THEN "gone" ELSE st[i]]
        /\ ref' = [i \in Rows |-> [c \in Columns |-> IF Loses(i, c, gone) THEN None
                                                     ELSE ref[i][c]]]
        /\ lost' = lost \union {i \in Rows : \E c \in {"task", "project"} : Loses(i, c, gone)}
        /\ UNCHANGED <<ids, crossed>>
    BY DEF Delete
  <1>2. Rows' = Rows /\ kind' = kind /\ crossed' = crossed
    BY <1>1, SameRows
  <1>3. \A i \in fallen : Live(i)
    BY DEF Falls, Named
  <1> HIDE DEF fallen
  <1>4. ASSUME NEW i \in Rows, NEW c \in Columns
        PROVE  /\ ref'[i][c] \in {None, ref[i][c]}
               /\ ref'[i][c] = ref[i][c] \/ Loses(i, c, gone)
    BY <1>1
  <1>5. ASSUME NEW i \in Rows
        PROVE  /\ st'[i] = "none" => st[i] = "none"
               /\ st'[i] = "live" => Live(i) /\ i \notin fallen
    BY <1>1 DEF Live
  <1>6. ASSUME NEW i \in Rows, st[i] = "none" PROVE ref'[i] = NoRef /\ i \notin crossed
    <2>1. \A c \in Columns : ~Loses(i, c, gone)
      BY <1>6 DEF Loses, Named, Live
    <2>2. ref[i] = NoRef /\ i \notin crossed
      BY <1>6 DEF RowsKept, RowsRegular
    <2>3. ref'[i] = [c \in Columns |-> ref[i][c]]
      BY <1>1, <2>1
    <2>4. \A c \in Columns : ref[i][c] = None
      BY <2>2, NoRefIsRefs
    <2> QED BY <2>2, <2>3, <2>4 DEF NoRef
  <1>7. ASSUME NEW i \in Rows, Live(i) PROVE Attached(i)'
    <2>1. Attached(i)
      BY <1>7 DEF RowsKept, RowsRegular
    <2>2. {"project", "task", "deal"} \subseteq Columns
      BY DEF Columns
    <2>3. \A c \in {"task", "project"} : ref'[i][c] = ref[i][c] \/ i \in lost'
      BY <1>1, <1>4, <2>2
    <2>4. kind[i] = "milestone" => ref'[i]["deal"] = ref[i]["deal"]
      BY <1>4, <2>2, KindsWithoutSetNull DEF Loses
    <2>5. lost \subseteq lost'
      BY <1>1
    <2> QED BY <1>2, <2>1, <2>3, <2>4, <2>5 DEF Attached, Hangs
  <1>8. \A i \in Rows : Keyed(kind[i], Columns, ref'[i], kind)
    BY <1>4 DEF Keyed, RowsKept, RowsRegular
  <1>9. RowsRegular'
    BY <1>2, <1>5, <1>6, <1>7, <1>8 DEF RowsRegular, Live, Keyed, HasColumn
  <1>10. ASSUME NEW i \in Rows, NEW c \in Columns, st'[i] = "live", ref'[i][c] # None,
                kind[i] # "file"
         PROVE  st'[ref'[i][c]] = "live"
    <2> DEFINE x == ref[i][c]
    <2>1. ref'[i][c] = x /\ ~Loses(i, c, gone) /\ Live(i) /\ i \notin fallen
      BY <1>1, <1>4, <1>5, <1>10
    <2>2. Live(x) /\ x \in Rows /\ kind[x] = c /\ HasColumn(kind[i], c)
      BY <1>10, <2>1, NamedIsRow DEF RowsKept, RefsAreLive, RowsRegular, Keyed, Inductive
    <2>3. x \notin gone
      <3> SUFFICES ASSUME x \in gone PROVE FALSE
        OBVIOUS
      <3>1. Named(i, c, gone)
        BY <2>1 DEF Named
      <3>2. OnDelete(kind[i], c) = "Cascade"
        BY <1>10, <2>1, <2>2, <3>1, KeyThereIs DEF Loses
      <3> QED BY <2>1, <3>1, <3>2 DEF Falls, fallen
    <2>4. ~Falls(x, gone)
      BY <2>2, CascadeIsLast DEF Falls
    <2>5. x \notin fallen
      BY <2>3, <2>4 DEF fallen
    <2> QED BY <1>1, <2>1, <2>2, <2>5 DEF Live
  <1>11. RefsAreLive'
    BY <1>2, <1>10 DEF RefsAreLive, Live
  <1> QED BY <1>9, <1>11 DEF RowsKept

LEMMA RowsStayKept ==
  ASSUME Inductive, RequestsRegular, IdsUnused, RowsKept, [Next]_vars PROVE RowsKept'
  <1>1. ASSUME UNCHANGED <<ids, rows, crossed>>, lost \subseteq lost' PROVE RowsKept'
    BY <1>1, QuietRowsKept
  <1>2. ASSUME NEW org \in Orgs, Route(org) PROVE RowsKept'
    <2>1. CASE Arrives \/ FileUpload(org) \/ Idles
      BY <1>1, <2>1 DEF Arrives, Start, FileUpload, Idles, history
    <2>2. CASE Appears
      BY <2>2, AppearsRows
    <2>3. CASE BulkDelete(org)
      BY <2>3, BulkDeletes, DeleteRows
    <2> QED BY <1>2, <2>1, <2>2, <2>3, RouteArrives
  <1>3. ASSUME NEW s \in Slots, \/ Look(s) \/ Refuse(s) \/ ReadMaxOrder(s) \/ UnlinkFile(s)
                                \/ WriteFails(s)
        PROVE  RowsKept'
    BY <1>1, <1>3 DEF Look, Refuse, ReadMaxOrder, UnlinkFile, WriteFails, history
  <1>4. ASSUME NEW s \in Slots, WriteRemove(s) \/ WriteUntag(s) PROVE RowsKept'
    BY <1>4, WritingDeletes, DeleteRows
  <1>5. CASE Restart \/ Redeploy
    BY <1>1, <1>5 DEF Restart, Redeploy, Stop
  <1>6. CASE UNCHANGED vars
    BY <1>1, <1>6 DEF vars, ids, rows
  <1> QED BY <1>2, <1>3, <1>4, <1>5, <1>6, WriteCreateRows, WriteUpdateRows, WriteDetachRows,
             WriteBulkRows DEF Next, Writing

-----------------------------------------------------------------------------
\* An uploaded file stays on disk until its row is there, under an id no other
\* upload uses; only a file whose row was there is unlinked.
Storing(s) == reqs[s] # Idle /\ reqs[s].act = "create" /\ kind[reqs[s].id] = "file"
Removing(s) == reqs[s] # Idle /\ reqs[s].act = "remove" /\ kind[reqs[s].id] = "file"

UploadsStored ==
    \A s \in Slots : Storing(s) =>
        /\ st[reqs[s].id] = "none" /\ reqs[s].id \in disk
        /\ \A q \in Slots \ {s} : Storing(q) => reqs[q].id # reqs[s].id

RemovalsFound ==
    \A s \in Slots : Removing(s) =>
        st[reqs[s].id] # "none" /\ reqs[s].todo \in {<<"unlink">>, <<>>}

FilesKept == ListedFilesExist /\ UploadsStored /\ RemovalsFound

\* Steps that neither store nor unlink a file.
LEMMA QuietFilesKept ==
  ASSUME FilesKept, UNCHANGED ids, cut \subseteq cut',
         disk \union wiped \subseteq disk' \union wiped',
         \A i \in Of("file") : st[i] = "none" <=> st'[i] = "none",
         \A i \in Of("file") : st'[i] = "live" => Live(i),
         \A s \in Slots : Storing(s)' =>
             Storing(s) /\ reqs'[s].id = reqs[s].id /\ disk \subseteq disk',
         \A s \in Slots : Removing(s)' =>
             /\ Removing(s) /\ reqs'[s].id = reqs[s].id
             /\ reqs'[s].todo = reqs[s].todo \/ reqs'[s].todo = <<>>,
         \A s \in Slots : (Writes(s, "remove") /\ kind[reqs[s].id] = "file") =>
             \/ st'[reqs[s].id] # "live" \/ reqs[s].id \in cut'
             \/ Writes(s, "remove")' /\ reqs'[s].id = reqs[s].id,
         \A s \in Slots :
             reqs[s] # Idle /\ reqs[s].act \notin {"untag", "bulk"} => reqs[s].id \in Rows
  PROVE  FilesKept'
  <1>1. Rows' = Rows /\ kind' = kind /\ Of("file")' = Of("file")
    BY SameRows DEF Of
  <1>2. ListedFilesExist'
    <2> SUFFICES ASSUME NEW i \in Of("file"), st'[i] = "live"
                 PROVE  \/ i \in disk' \union cut' \union wiped'
                        \/ \E s \in Slots : Writes(s, "remove")' /\ reqs'[s].id = i
      BY <1>1 DEF ListedFilesExist, Live
    <2>1. CASE i \in disk \union cut \union wiped
      BY <2>1
    <2>2. ASSUME NEW s \in Slots, Writes(s, "remove"), reqs[s].id = i
          PROVE  \/ i \in cut'
                 \/ Writes(s, "remove")' /\ reqs'[s].id = i
      BY <2>2 DEF Of
    <2> QED BY <2>1, <2>2 DEF FilesKept, ListedFilesExist
  <1>3. UploadsStored'
    <2> SUFFICES ASSUME NEW s \in Slots, Storing(s)'
                 PROVE  /\ st'[reqs'[s].id] = "none" /\ reqs'[s].id \in disk'
                        /\ \A q \in Slots \ {s} : Storing(q)' => reqs'[q].id # reqs'[s].id
      BY DEF UploadsStored
    <2>1. Storing(s) /\ reqs'[s].id = reqs[s].id /\ disk \subseteq disk'
      OBVIOUS
    <2>2. reqs[s].id \in Of("file")
      BY <2>1 DEF Storing, Of
    <2> QED BY <2>1, <2>2 DEF FilesKept, UploadsStored
  <1>4. RemovalsFound'
    <2> SUFFICES ASSUME NEW s \in Slots, Removing(s)'
                 PROVE  st'[reqs'[s].id] # "none" /\ reqs'[s].todo \in {<<"unlink">>, <<>>}
      BY DEF RemovalsFound
    <2>1. Removing(s) /\ reqs'[s].id = reqs[s].id
          /\ (reqs'[s].todo = reqs[s].todo \/ reqs'[s].todo = <<>>)
      OBVIOUS
    <2>2. reqs[s].id \in Of("file")
      BY <2>1 DEF Removing, Of
    <2> QED BY <2>1, <2>2 DEF FilesKept, RemovalsFound
  <1> QED BY <1>2, <1>3, <1>4 DEF FilesKept

\* One slot changes, or ends.
LEMMA SlotFilesKept ==
  ASSUME Inductive, FilesKept, UNCHANGED <<ids, disk, cut, wiped>>, NEW s \in Slots, NEW q,
         reqs' = [reqs EXCEPT ![s] = q],
         \A i \in Of("file") : st[i] = "none" <=> st'[i] = "none",
         \A i \in Of("file") : st'[i] = "live" => Live(i),
         q # Idle => /\ reqs[s] # Idle /\ q.act = reqs[s].act /\ q.id = reqs[s].id
                     /\ Removing(s) => q.todo \in {reqs[s].todo, <<>>},
         (Writes(s, "remove") /\ kind[reqs[s].id] = "file") => st'[reqs[s].id] # "live"
  PROVE  FilesKept'
  <1>1. kind' = kind /\ reqs \in [Slots -> Requests \union {Idle}]
    BY SameRows DEF Inductive, TypeOK
  <1>2. reqs'[s] = q /\ \A p \in Slots \ {s} : reqs'[p] = reqs[p]
    BY <1>1
  <1>3. \A p \in Slots : Storing(p)' => Storing(p) /\ reqs'[p].id = reqs[p].id
    BY <1>1, <1>2 DEF Storing
  <1>4. \A p \in Slots : Removing(p)' =>
             /\ Removing(p) /\ reqs'[p].id = reqs[p].id
             /\ reqs'[p].todo = reqs[p].todo \/ reqs'[p].todo = <<>>
    BY <1>1, <1>2 DEF Removing
  <1>5. \A p \in Slots : (Writes(p, "remove") /\ kind[reqs[p].id] = "file") =>
             \/ st'[reqs[p].id] # "live" \/ reqs[p].id \in cut'
             \/ Writes(p, "remove")' /\ reqs'[p].id = reqs[p].id
    BY <1>2 DEF Writes
  <1>6. \A p \in Slots : reqs[p] # Idle /\ reqs[p].act \notin {"untag", "bulk"} => reqs[p].id \in Rows
    BY TargetsAreRows
  <1> QED BY <1>3, <1>4, <1>5, <1>6, QuietFilesKept

LEMMA SameReqsFilesKept ==
  ASSUME Inductive, FilesKept, UNCHANGED <<ids, disk, cut, wiped, reqs>>,
         \A i \in Of("file") : st[i] = "none" <=> st'[i] = "none",
         \A i \in Of("file") : st'[i] = "live" => Live(i)
  PROVE  FilesKept'
  <1>1. kind' = kind
    BY SameRows
  <1>2. \A p \in Slots : /\ Storing(p)' => Storing(p) /\ reqs'[p].id = reqs[p].id
                         /\ Removing(p)' => Removing(p) /\ reqs'[p].id = reqs[p].id
                         /\ Writes(p, "remove") => Writes(p, "remove")' /\ reqs'[p].id = reqs[p].id
    BY <1>1 DEF Storing, Removing, Writes
  <1>3. \A p \in Slots : reqs[p] # Idle /\ reqs[p].act \notin {"untag", "bulk"} => reqs[p].id \in Rows
    BY TargetsAreRows
  <1> QED BY <1>2, <1>3, QuietFilesKept

LEMMA ArrivesFiles == ASSUME Inductive, FilesKept, Arrives PROVE FilesKept'
  <1>1. PICK r \in Requests : /\ r.todo # <<>> /\ Regular(r, kind)
                              /\ r.act = "create" => kind[r.id] # "file"
                              /\ Start(r)
    BY DEF Arrives
  <1>2. PICK s \in Slots : reqs[s] = Idle /\ reqs' = [reqs EXCEPT ![s] = Passed(r)]
    BY <1>1 DEF Start
  <1>3. /\ UNCHANGED <<ids, rows, disk, history>> /\ Found(r, Head(r.todo))
        /\ st' = st /\ cut' = cut /\ wiped' = wiped
    BY <1>1 DEF Start, rows, history
  <1> DEFINE q == Passed(r)
  <1>4. q.act = r.act /\ q.id = r.id /\ q.todo = Tail(r.todo)
    BY <1>1, PassedFields
  <1>5. Rows' = Rows /\ kind' = kind /\ reqs \in [Slots -> Requests \union {Idle}]
        /\ Of("file")' = Of("file")
    BY <1>3, SameRows DEF Inductive, TypeOK, Of
  <1> HIDE DEF q
  <1>6. reqs'[s] = q /\ \A p \in Slots \ {s} : reqs'[p] = reqs[p]
    BY <1>2, <1>5 DEF q
  <1>7. ListedFilesExist'
    <2>1. \A p \in Slots : Writes(p, "remove") => Writes(p, "remove")' /\ reqs'[p].id = reqs[p].id
      BY <1>2, <1>6 DEF Writes
    <2> QED BY <1>3, <1>5, <2>1 DEF FilesKept, ListedFilesExist, Live
  <1>8. \A p \in Slots : Storing(p)' => p # s /\ Storing(p) /\ reqs'[p] = reqs[p]
    BY <1>1, <1>4, <1>5, <1>6 DEF Storing
  <1>9. UploadsStored'
    BY <1>3, <1>8 DEF FilesKept, UploadsStored
  <1>10. ASSUME r.act = "remove", kind[r.id] = "file"
         PROVE  st[r.id] # "none" /\ q.todo \in {<<"unlink">>, <<>>}
    <2>1. r.todo \in {<<"self", "unlink">>, <<"unlink">>}
      BY <1>1, <1>10 DEF Regular
    <2>2. r.todo = <<"self", "unlink">>
      <3> SUFFICES ASSUME r.todo = <<"unlink">> PROVE FALSE
        BY <2>1
      <3>1. Head(r.todo) = "unlink"
        OBVIOUS
      <3> QED BY <1>3, <3>1 DEF Found
    <2>3. Head(r.todo) = "self"
      BY <2>2
    <2>4. InOrg(r.id, r.org)
      BY <1>3, <1>10, <2>3 DEF Found
    <2>5. Live(r.id)
      BY <1>10, <2>4 DEF InOrg, Owned
    <2> QED BY <1>4, <2>2, <2>5, TailsOfTodo DEF Live
  <1>11. RemovalsFound'
    <2> SUFFICES ASSUME NEW p \in Slots, Removing(p)'
                 PROVE  st'[reqs'[p].id] # "none" /\ reqs'[p].todo \in {<<"unlink">>, <<>>}
      BY DEF RemovalsFound
    <2>1. CASE p = s
      BY <1>3, <1>4, <1>5, <1>6, <1>10, <2>1 DEF Removing
    <2>2. CASE p # s
      BY <1>3, <1>5, <1>6, <2>2 DEF Removing, FilesKept, RemovalsFound
    <2> QED BY <2>1, <2>2
  <1> QED BY <1>7, <1>9, <1>11 DEF FilesKept

LEMMA FileUploadFiles ==
  ASSUME Inductive, FilesKept, NEW org \in Orgs, FileUpload(org) PROVE FilesKept'
  <1>1. PICK i \in Fresh("file", org), new \in Parents :
           /\ \E s \in Slots :
                 /\ reqs[s] = Idle
                 /\ reqs' = [reqs EXCEPT ![s] =
                               Request("create", i, org, new, Columns, FirstParent(new))]
           /\ disk' = disk \union {i}
    BY DEF FileUpload
  <1> DEFINE r == Request("create", i, org, new, Columns, FirstParent(new))
  <1>2. PICK s \in Slots : reqs[s] = Idle /\ reqs' = [reqs EXCEPT ![s] = r]
    BY <1>1
  <1>3. r.act = "create" /\ r.id = i
    BY DEF Request
  <1>4. /\ disk' = disk \union {i} /\ st' = st /\ cut' = cut /\ wiped' = wiped /\ UNCHANGED ids
    BY <1>1 DEF FileUpload, rows, history
  <1>5. kind' = kind /\ reqs \in [Slots -> Requests \union {Idle}] /\ Of("file")' = Of("file")
    BY <1>4, SameRows DEF Inductive, TypeOK, Of
  <1>6. reqs'[s] = r /\ \A p \in Slots \ {s} : reqs'[p] = reqs[p]
    BY <1>2, <1>5
  <1>7. st[i] = "none" /\ \A p \in Slots : reqs[p] # Idle => reqs[p].id # i
    BY DEF Fresh
  <1> HIDE DEF r
  <1>8. ListedFilesExist'
    <2>1. \A p \in Slots : Writes(p, "remove") => Writes(p, "remove")' /\ reqs'[p].id = reqs[p].id
      BY <1>2, <1>6 DEF Writes
    <2> QED BY <1>4, <1>5, <2>1 DEF FilesKept, ListedFilesExist, Live
  <1>9. UploadsStored'
    <2> SUFFICES ASSUME NEW p \in Slots, Storing(p)'
                 PROVE  /\ st'[reqs'[p].id] = "none" /\ reqs'[p].id \in disk'
                        /\ \A q \in Slots \ {p} : Storing(q)' => reqs'[q].id # reqs'[p].id
      BY DEF UploadsStored
    <2>1. \A q \in Slots \ {s} : Storing(q)' => Storing(q) /\ reqs'[q].id = reqs[q].id /\ reqs[q].id # i
      BY <1>5, <1>6, <1>7 DEF Storing
    <2>2. CASE p = s
      BY <1>3, <1>4, <1>6, <1>7, <2>1, <2>2
    <2>3. CASE p # s
      BY <1>3, <1>4, <1>6, <2>1, <2>3 DEF FilesKept, UploadsStored
    <2> QED BY <2>2, <2>3
  <1>10. RemovalsFound'
    <2>1. \A p \in Slots : Removing(p)' => Removing(p) /\ reqs'[p] = reqs[p]
      BY <1>3, <1>5, <1>6 DEF Removing
    <2> QED BY <1>4, <2>1 DEF FilesKept, RemovalsFound
  <1> QED BY <1>8, <1>9, <1>10 DEF FilesKept

LEMMA UnlinkFileFiles ==
  ASSUME Inductive, RequestsRegular, FilesKept, NEW s \in Slots, UnlinkFile(s) PROVE FilesKept'
  <1> DEFINE r == reqs[s]
             q == Passed(r)
  <1>1. /\ r # Idle /\ r.todo # <<>> /\ Head(r.todo) = "unlink" /\ disk' = disk \ {r.id}
        /\ UNCHANGED <<ids, rows, history>> /\ st' = st /\ cut' = cut /\ wiped' = wiped
    BY DEF UnlinkFile, At, rows, history
  <1>2. r \in Requests /\ Regular(r, kind)
    BY <1>1, RequestAt DEF RequestsRegular
  <1>3. q.act = r.act /\ q.id = r.id /\ q.todo = Tail(r.todo) /\ q # Idle
    <2>1. q.act = r.act /\ q.id = r.id /\ q.todo = Tail(r.todo) /\ q \in Requests
      BY <1>1, <1>2, PassedFields
    <2>2. r.act # "idle"
      BY <1>2 DEF Requests, Acts
    <2> HIDE DEF q, r
    <2> QED BY <2>1, <2>2 DEF Idle
  <1>4. kind' = kind /\ reqs \in [Slots -> Requests \union {Idle}] /\ Of("file")' = Of("file")
    BY <1>1, SameRows DEF Inductive, TypeOK, Of
  <1>5. reqs'[s] = q /\ \A p \in Slots \ {s} : reqs'[p] = reqs[p]
    BY <1>4 DEF UnlinkFile
  <1> HIDE DEF q, r
  <1>6. (r.act = "create" /\ kind[r.id] = "file") => FALSE
    <2>1. Head(<<"task">>) # "unlink" /\ Head(<<"project">>) # "unlink"
      OBVIOUS
    <2> QED BY <1>1, <1>2, <2>1 DEF Regular
  <1>7. (r.act = "remove" /\ kind[r.id] = "file") => st[r.id] # "none" /\ q.todo = <<>>
    <2>1. (r.act = "remove" /\ kind[r.id] = "file") =>
             st[r.id] # "none" /\ r.todo \in {<<"unlink">>, <<>>}
      BY <1>1 DEF FilesKept, RemovalsFound, Removing, r
    <2> QED BY <1>1, <1>3, <2>1, TailsOfTodo
  <1>8. (r.act \notin {"untag", "bulk"} /\ kind[r.id] = "file") => r.act = "remove"
    <2>1. r.act \in {"create", "update", "detach", "remove", "untag", "bulk"}
      BY <1>2 DEF Requests, Acts
    <2> QED BY <1>2, <1>6, <2>1 DEF Regular
  <1>9. ASSUME NEW i \in Of("file"), i = r.id PROVE r.act = "remove" /\ kind[r.id] = "file"
    <2>1. r.act \notin {"untag", "bulk"}
      BY <1>2, <1>9 DEF Regular, Of, Inductive, TypeOK
    <2> QED BY <1>8, <1>9, <2>1 DEF Of
  <1>10. ListedFilesExist'
    <2> SUFFICES ASSUME NEW i \in Of("file"), Live(i)
                 PROVE  \/ i \in disk' \union cut' \union wiped'
                        \/ \E p \in Slots : Writes(p, "remove")' /\ reqs'[p].id = i
      BY <1>1, <1>4 DEF ListedFilesExist, Live
    <2>1. CASE i = r.id
      BY <1>3, <1>5, <1>7, <1>9, <2>1 DEF Writes
    <2>2. CASE i # r.id
      <3>1. CASE i \in disk \union cut \union wiped
        BY <1>1, <2>2, <3>1
      <3>2. CASE \E p \in Slots : Writes(p, "remove") /\ reqs[p].id = i
        BY <1>5, <2>2, <3>2 DEF Writes, r
      <3> QED BY <3>1, <3>2 DEF FilesKept, ListedFilesExist
    <2> QED BY <2>1, <2>2
  <1>11. \A p \in Slots : Storing(p)' => p # s /\ Storing(p) /\ reqs'[p] = reqs[p]
    BY <1>3, <1>4, <1>5, <1>6 DEF Storing
  <1>12. UploadsStored'
    <2> SUFFICES ASSUME NEW p \in Slots, Storing(p)'
                 PROVE  reqs[p].id \in disk' /\ st[reqs[p].id] = "none"
      BY <1>1, <1>11 DEF FilesKept, UploadsStored
    <2>1. Storing(p) /\ st[reqs[p].id] = "none" /\ reqs[p].id \in disk
      BY <1>11 DEF FilesKept, UploadsStored
    <2>2. reqs[p].id # r.id
      <3>1. reqs[p].id \in Of("file")
        BY <2>1, TargetsAreRows DEF Storing, Of
      <3> QED BY <1>7, <1>9, <2>1, <3>1
    <2> QED BY <1>1, <2>1, <2>2
  <1>13. RemovalsFound'
    <2> SUFFICES ASSUME NEW p \in Slots, Removing(p)'
                 PROVE  st[reqs'[p].id] # "none" /\ reqs'[p].todo \in {<<"unlink">>, <<>>}
      BY <1>1 DEF RemovalsFound
    <2>1. CASE p = s
      BY <1>3, <1>4, <1>5, <1>7, <2>1 DEF Removing
    <2>2. CASE p # s
      BY <1>4, <1>5, <2>2 DEF Removing, FilesKept, RemovalsFound
    <2> QED BY <2>1, <2>2
  <1> QED BY <1>10, <1>12, <1>13 DEF FilesKept

-----------------------------------------------------------------------------
LEMMA WriteCreateFiles ==
  ASSUME Inductive, FilesKept, NEW s \in Slots, WriteCreate(s) PROVE FilesKept'
  <1> DEFINE r == reqs[s]
  <1>1. /\ r # Idle /\ r.act = "create" /\ reqs' = [reqs EXCEPT ![s] = Idle]
        /\ st' = [st EXCEPT ![r.id] = "live"] /\ UNCHANGED <<ids, disk, cut, wiped>>
    BY DEF WriteCreate, Writes, Done
  <1>2. r.id \in Rows
    BY <1>1, TargetsAreRows
  <1>3. kind' = kind /\ reqs \in [Slots -> Requests \union {Idle}] /\ Of("file")' = Of("file")
        /\ st \in [Rows -> {"none", "live", "gone"}]
    BY <1>1, SameRows DEF Inductive, TypeOK, Of
  <1>4. /\ reqs'[s] = Idle /\ \A p \in Slots \ {s} : reqs'[p] = reqs[p]
        /\ st'[r.id] = "live" /\ \A i \in Rows \ {r.id} : st'[i] = st[i]
    BY <1>1, <1>2, <1>3
  <1>5. kind[r.id] = "file" => /\ r.id \in disk
                               /\ \A p \in Slots \ {s} : Storing(p) => reqs[p].id # r.id
    BY <1>1 DEF FilesKept, UploadsStored, Storing
  <1>6. \A p \in Slots : Storing(p)' => p # s /\ Storing(p) /\ reqs'[p] = reqs[p]
    BY <1>3, <1>4 DEF Storing
  <1>7. \A p \in Slots : Removing(p)' => p # s /\ Removing(p) /\ reqs'[p] = reqs[p]
    BY <1>3, <1>4 DEF Removing
  <1>8. \A p \in Slots : Writes(p, "remove") => Writes(p, "remove")' /\ reqs'[p] = reqs[p]
    BY <1>1, <1>4 DEF Writes
  <1>9. \A p \in Slots : Storing(p) \/ Removing(p) => reqs[p].id \in Rows
    BY TargetsAreRows DEF Storing, Removing
  <1> HIDE DEF r
  <1>10. ListedFilesExist'
    <2> SUFFICES ASSUME NEW i \in Of("file"), st'[i] = "live"
                 PROVE  \/ i \in disk \union cut \union wiped
                        \/ \E p \in Slots : Writes(p, "remove")' /\ reqs'[p].id = i
      BY <1>1, <1>3 DEF ListedFilesExist, Live
    <2>1. CASE i = r.id
      BY <1>5, <2>1 DEF Of
    <2>2. CASE i # r.id
      <3>1. Live(i)
        BY <1>4, <2>2 DEF Live, Of
      <3> QED BY <1>8, <3>1 DEF FilesKept, ListedFilesExist
    <2> QED BY <2>1, <2>2
  <1>11. UploadsStored'
    <2> SUFFICES ASSUME NEW p \in Slots, Storing(p)'
                 PROVE  st'[reqs[p].id] = "none" /\ reqs[p].id \in disk
      BY <1>1, <1>6 DEF FilesKept, UploadsStored
    <2>1. p # s /\ Storing(p) /\ st[reqs[p].id] = "none" /\ reqs[p].id \in disk
      BY <1>6 DEF FilesKept, UploadsStored
    <2>2. reqs[p].id # r.id
      BY <1>5, <2>1 DEF Storing
    <2> QED BY <1>4, <1>9, <2>1, <2>2
  <1>12. RemovalsFound'
    <2>1. \A i \in Rows : st[i] # "none" => st'[i] # "none"
      BY <1>4
    <2> QED BY <1>7, <1>9, <2>1 DEF FilesKept, RemovalsFound
  <1> QED BY <1>10, <1>11, <1>12 DEF FilesKept

LEMMA FilesStayKept ==
  ASSUME Inductive, RequestsRegular, FilesKept, [Next]_vars PROVE FilesKept'
  <1>0. reqs \in [Slots -> Requests \union {Idle}] /\ Of("file") \subseteq Rows
    BY DEF Inductive, TypeOK, Of
  <1>1. ASSUME NEW org \in Orgs, Route(org) PROVE FilesKept'
    <2>1. CASE Appears
      <3>1. PICK i \in Rows : /\ kind[i] # "file" /\ st' = [st EXCEPT ![i] = "live"]
                              /\ UNCHANGED <<ids, ref, rank, disk, reqs, history>>
        BY <2>1 DEF Appears
      <3>2. \A j \in Of("file") : st'[j] = st[j]
        BY <3>1 DEF Of, Inductive, TypeOK
      <3> QED BY <3>1, <3>2, SameReqsFilesKept DEF history, Live
    <2>2. CASE Idles
      <3>1. UNCHANGED <<ids, disk, cut, wiped, reqs, st>>
        BY <2>2 DEF Idles, rows, history
      <3> QED BY <3>1, SameReqsFilesKept DEF Live
    <2>3. CASE BulkDelete(org)
      <3>1. PICK gone \in SUBSET Rows : (\A i \in gone : Live(i)) /\ Delete(gone, org) /\ UNCHANGED reqs
        BY <2>3, BulkDeletes
      <3>2. UNCHANGED <<ids, disk, cut, wiped, reqs>>
        BY <3>1 DEF Delete
      <3> QED BY <1>0, <3>1, <3>2, DeleteStates, SameReqsFilesKept
    <2> QED BY <1>1, <2>1, <2>2, <2>3, RouteArrives, ArrivesFiles, FileUploadFiles
  <1>2. ASSUME NEW s \in Slots, Look(s) \/ ReadMaxOrder(s) PROVE FilesKept'
    <2> DEFINE r == reqs[s]
               q == Passed(r)
    <2>1. r # Idle /\ r.todo # <<>> /\ UNCHANGED <<ids, disk, cut, wiped, st>>
      BY <1>2 DEF Look, ReadMaxOrder, At, rows, history
    <2>2. r \in Requests
      BY <2>1, RequestAt
    <2>3. PICK n : \/ reqs' = [reqs EXCEPT ![s] = q]
                   \/ reqs' = [reqs EXCEPT ![s] = [q EXCEPT !.rank = n]]
      BY <1>0, <1>2 DEF Look, ReadMaxOrder
    <2> DEFINE p == [q EXCEPT !.rank = n]
    <2>4. q \in Requests /\ q.act = r.act /\ q.id = r.id
      BY <2>1, <2>2, PassedFields
    <2> HIDE DEF q
    <2>5. p.act = r.act /\ p.id = r.id
      BY <2>4 DEF Requests
    <2>6. ~Removing(s)
      <3> SUFFICES ASSUME Removing(s) PROVE FALSE
        OBVIOUS
      <3>1. r.todo = <<"unlink">>
        BY <2>1 DEF FilesKept, RemovalsFound
      <3>2. Head(<<"unlink">>) = "unlink"
        OBVIOUS
      <3> QED BY <1>2, <3>1, <3>2 DEF Look, ReadMaxOrder, At, Found
    <2>7. ~Writes(s, "remove")
      BY <2>1 DEF Writes
    <2> HIDE DEF p
    <2>8. reqs' = [reqs EXCEPT ![s] = q] \/ reqs' = [reqs EXCEPT ![s] = p]
      BY <2>3 DEF p
    <2> QED BY <2>1, <2>4, <2>5, <2>6, <2>7, <2>8, SlotFilesKept DEF Live
  <1>3. ASSUME NEW s \in Slots, Refuse(s) \/ WriteUpdate(s) \/ WriteDetach(s) \/ WriteBulk(s)
                                 \/ WriteFails(s)
        PROVE  FilesKept'
    <2>1. /\ reqs' = [reqs EXCEPT ![s] = Idle] /\ UNCHANGED <<ids, disk, cut, wiped, st>>
      BY <1>3 DEF Refuse, WriteUpdate, WriteDetach, WriteBulk, WriteFails, Done, rows, history
    <2>2. Writes(s, "remove") => st[reqs[s].id] # "live"
      BY <1>3 DEF Refuse, WriteUpdate, WriteDetach, WriteBulk, WriteFails, Writes, Live
    <2> QED BY <2>1, <2>2, SlotFilesKept DEF Live
  <1>4. ASSUME NEW s \in Slots, WriteRemove(s) \/ WriteUntag(s) PROVE FilesKept'
    <2>1. PICK gone \in SUBSET Rows : /\ \A i \in gone : Live(i)
                                      /\ Delete(gone, reqs[s].org) /\ Done(s)
                                      /\ WriteRemove(s) => reqs[s].id \in gone
      BY <1>4, WritingDeletes
    <2>2. UNCHANGED <<ids, disk, cut, wiped>> /\ reqs' = [reqs EXCEPT ![s] = Idle]
      BY <2>1 DEF Delete, Done
    <2>3. Writes(s, "remove") => st'[reqs[s].id] # "live"
      <3>1. Writes(s, "remove") => WriteRemove(s)
        BY <1>4 DEF WriteUntag, Writes
      <3> QED BY <2>1, <3>1, DeleteStates
    <2>4. /\ \A i \in Of("file") : st[i] = "none" <=> st'[i] = "none"
          /\ \A i \in Of("file") : st'[i] = "live" => Live(i)
      BY <1>0, <2>1, DeleteStates
    <2> QED BY <2>2, <2>3, <2>4, SlotFilesKept
  <1>5. CASE Restart \/ Redeploy
    <2>1. /\ UNCHANGED <<ids, st>> /\ cut \subseteq cut' /\ \A p \in Slots : reqs'[p] = Idle
          /\ disk \union wiped \subseteq disk' \union wiped'
          /\ \A p \in Slots : (Writes(p, "remove") /\ kind[reqs[p].id] = "file") =>
                reqs[p].id \in cut'
      BY <1>5 DEF Restart, Redeploy, Stop, rows
    <2>2. \A p \in Slots : ~Storing(p)' /\ ~Removing(p)'
      BY <2>1 DEF Storing, Removing
    <2>3. \A p \in Slots : reqs[p] # Idle /\ reqs[p].act \notin {"untag", "bulk"} => reqs[p].id \in Rows
      BY TargetsAreRows
    <2> QED BY <2>1, <2>2, <2>3, QuietFilesKept DEF Live
  <1>6. CASE UNCHANGED vars
    <2>1. UNCHANGED <<ids, disk, cut, wiped, reqs, st>>
      BY <1>6 DEF vars, ids
    <2> QED BY <2>1, SameReqsFilesKept DEF Live
  <1> QED BY <1>1, <1>2, <1>3, <1>4, <1>5, <1>6, UnlinkFileFiles, WriteCreateFiles
          DEF Next, Writing

------------------------------------------------------------------------------
\* The place a request has read for its milestone, when no client chose it, is
\* free of those no client chose, unless another was added since.
Numbering(r) == kind[r.id] = "milestone" /\ "rank" \notin r.sets

PlacesFree ==
    \A s \in Slots : (Writes(s, "create") /\ Numbering(reqs[s])) =>
        \/ reqs[s].id \in raced
        \/ \A i \in MilestonesOf(reqs[s].new["deal"]) \ placed : rank[i] # reqs[s].rank

PlacesKept == MilestonesInOrder /\ PlacesFree

LEMMA QuietPlacesKept ==
  ASSUME PlacesKept, UNCHANGED ids, raced \subseteq raced', placed \subseteq placed',
         \A i \in Of("milestone") : (st'[i] = "live" /\ i \notin placed') =>
             /\ Live(i) /\ ref'[i]["deal"] = ref[i]["deal"] /\ rank'[i] = rank[i],
         \A s \in Slots : (Writes(s, "create")' /\ Numbering(reqs'[s])) =>
             Writes(s, "create") /\ reqs'[s] = reqs[s]
  PROVE  PlacesKept'
  <1>1. kind' = kind /\ Of("milestone")' = Of("milestone")
    BY SameRows DEF Of
  <1>2. MilestonesInOrder'
    BY <1>1 DEF PlacesKept, MilestonesInOrder, Live
  <1>3. PlacesFree'
    <2> SUFFICES ASSUME NEW s \in Slots, Writes(s, "create")', Numbering(reqs'[s]),
                        reqs'[s].id \notin raced',
                        NEW i \in Of("milestone"), st'[i] = "live", i \notin placed',
                        ref'[i]["deal"] = reqs'[s].new["deal"]
                 PROVE  rank'[i] # reqs'[s].rank
      BY <1>1 DEF PlacesFree, MilestonesOf, Live, Numbering
    <2>1. Writes(s, "create") /\ reqs'[s] = reqs[s]
      OBVIOUS
    <2>2. i \in MilestonesOf(reqs[s].new["deal"]) \ placed
      BY <2>1 DEF MilestonesOf
    <2> QED BY <2>1, <2>2 DEF PlacesKept, PlacesFree
  <1> QED BY <1>2, <1>3 DEF PlacesKept

LEMMA SameReqsPlacesKept ==
  ASSUME PlacesKept, UNCHANGED <<ids, raced, placed, reqs>>,
         \A i \in Of("milestone") : (st'[i] = "live" /\ i \notin placed') =>
             /\ Live(i) /\ ref'[i]["deal"] = ref[i]["deal"] /\ rank'[i] = rank[i]
  PROVE  PlacesKept'
  <1>1. \A s \in Slots : Writes(s, "create")' => Writes(s, "create") /\ reqs'[s] = reqs[s]
    BY DEF Writes
  <1> QED BY <1>1, QuietPlacesKept

\* One slot changes; it does not come to write a milestone by that.
LEMMA SlotPlacesKept ==
  ASSUME Inductive, PlacesKept, UNCHANGED <<ids, raced>>, placed \subseteq placed',
         NEW s \in Slots, NEW q, reqs' = [reqs EXCEPT ![s] = q],
         (q # Idle /\ q.act = "create" /\ q.todo = <<>>) => kind[q.id] # "milestone",
         \A i \in Of("milestone") : (st'[i] = "live" /\ i \notin placed') =>
             /\ Live(i) /\ ref'[i]["deal"] = ref[i]["deal"] /\ rank'[i] = rank[i]
  PROVE  PlacesKept'
  <1>1. reqs'[s] = q /\ \A p \in Slots \ {s} : reqs'[p] = reqs[p]
    BY DEF Inductive, TypeOK
  <1>2. \A p \in Slots : (Writes(p, "create")' /\ Numbering(reqs'[p])) =>
             Writes(p, "create") /\ reqs'[p] = reqs[p]
    BY <1>1 DEF Writes, Numbering
  <1> QED BY <1>2, QuietPlacesKept

LEMMA ReadMaxOrderPlaces ==
  ASSUME Inductive, PlacesKept, NEW s \in Slots, ReadMaxOrder(s) PROVE PlacesKept'
  <1> DEFINE r == reqs[s]
             q == Passed(r)
  <1>1. r # Idle /\ r.todo # <<>> /\ UNCHANGED <<ids, rows, disk, history>>
    BY DEF ReadMaxOrder, At
  <1>2. PICK n \in Places(r) : reqs' = [reqs EXCEPT ![s] = [q EXCEPT !.rank = n]]
    BY DEF ReadMaxOrder, Inductive, TypeOK
  <1>3. q \in Requests /\ q.new = r.new /\ q.sets = r.sets
    BY <1>1, RequestAt, PassedFields
  <1> DEFINE p == [q EXCEPT !.rank = n]
  <1> HIDE DEF q
  <1>4. p.new = r.new /\ p.rank = n /\ p.sets = r.sets
    BY <1>3 DEF Requests
  <1> HIDE DEF p, r
  <1>5. kind' = kind /\ Of("milestone")' = Of("milestone") /\ raced' = raced
        /\ placed' = placed /\ st' = st /\ ref' = ref /\ rank' = rank
    BY <1>1, SameRows DEF rows, history, Of
  <1>6. reqs'[s] = p /\ \A t \in Slots \ {s} : reqs'[t] = reqs[t]
    BY <1>2 DEF Inductive, TypeOK, p
  <1>7. MilestonesInOrder'
    BY <1>5 DEF PlacesKept, MilestonesInOrder, Live
  <1>8. \A d : MilestonesOf(d)' = MilestonesOf(d)
    BY <1>5 DEF MilestonesOf, Live
  <1>9. "rank" \notin r.sets => \A i \in MilestonesOf(r.new["deal"]) : rank[i] # n
    <2> SUFFICES ASSUME "rank" \notin r.sets PROVE \A i \in MilestonesOf(r.new["deal"]) : rank[i] # n
      OBVIOUS
    <2>0. n \in NextRanks(r.new["deal"])
      BY <1>2 DEF Places
    <2>1. \A i \in MilestonesOf(r.new["deal"]) : rank[i] < n /\ rank[i] \in Nat
      BY <2>0 DEF NextRanks, MilestonesOf, Of, Inductive, TypeOK
    <2>2. n \in Nat
      BY <2>0, <2>1 DEF NextRanks
    <2> QED BY <2>1, <2>2
  <1>10. PlacesFree'
    <2> SUFFICES ASSUME NEW t \in Slots, Writes(t, "create")', Numbering(reqs'[t])
                 PROVE  \/ reqs'[t].id \in raced
                        \/ \A i \in MilestonesOf(reqs'[t].new["deal"]) \ placed :
                              rank[i] # reqs'[t].rank
      BY <1>5, <1>8 DEF PlacesFree, Numbering
    <2>1. CASE t = s
      BY <1>4, <1>6, <1>9, <2>1 DEF Numbering
    <2>2. CASE t # s
      BY <1>6, <2>2 DEF PlacesKept, PlacesFree, Writes
    <2> QED BY <2>1, <2>2
  <1> QED BY <1>7, <1>10 DEF PlacesKept

LEMMA WriteCreatePlaces ==
  ASSUME Inductive, PlacesKept, NEW s \in Slots, WriteCreate(s) PROVE PlacesKept'
  <1> DEFINE r == reqs[s]
  <1>1. /\ Writes(s, "create") /\ r # Idle /\ r.act = "create" /\ reqs' = [reqs EXCEPT ![s] = Idle]
        /\ st' = [st EXCEPT ![r.id] = "live"] /\ ref' = [ref EXCEPT ![r.id] = r.new]
        /\ rank' = [rank EXCEPT ![r.id] = r.rank] /\ UNCHANGED ids
        /\ raced' = IF kind[r.id] = "milestone" /\ "rank" \notin r.sets
                    THEN raced \union AlsoAdding(s) ELSE raced
        /\ placed' = IF "rank" \in r.sets THEN placed \union {r.id} ELSE placed
    BY DEF WriteCreate, Writes, Done
  <1>2. r.id \in Rows
    BY <1>1, TargetsAreRows
  <1>3. /\ kind' = kind /\ Of("milestone")' = Of("milestone") /\ Rows' = Rows
        /\ reqs \in [Slots -> Requests \union {Idle}]
        /\ st \in [Rows -> {"none", "live", "gone"}] /\ ref \in [Rows -> Refs]
        /\ rank \in [Rows -> Nat]
    BY <1>1, SameRows DEF Inductive, TypeOK, Of
  <1>4. /\ reqs'[s] = Idle /\ \A p \in Slots \ {s} : reqs'[p] = reqs[p]
        /\ st'[r.id] = "live" /\ ref'[r.id] = r.new /\ rank'[r.id] = r.rank
        /\ \A i \in Rows \ {r.id} : st'[i] = st[i] /\ ref'[i] = ref[i] /\ rank'[i] = rank[i]
    BY <1>1, <1>2, <1>3
  <1>5. \A p \in Slots : Writes(p, "create")' => p # s /\ Writes(p, "create") /\ reqs'[p] = reqs[p]
    BY <1>4 DEF Writes
  <1>6. CASE ~Numbering(r)
    <2>1. \A i \in Of("milestone") : i \in Rows /\ (i \notin placed' => i # r.id)
      BY <1>1, <1>6 DEF Of, Numbering
    <2>2. raced \subseteq raced' /\ placed \subseteq placed'
      BY <1>1
    <2> QED BY <1>1, <1>4, <1>5, <2>1, <2>2, QuietPlacesKept DEF Live
  <1>7. CASE Numbering(r)
    <2>1. raced' = raced \union AlsoAdding(s) /\ placed' = placed
      BY <1>1, <1>7 DEF Numbering
    <2>2. \A i \in MilestonesOf(r.new["deal"]) \ placed : rank[i] # r.rank \/ r.id \in raced
      BY <1>1, <1>7 DEF PlacesKept, PlacesFree
    <2>3. MilestonesInOrder'
      <3> SUFFICES ASSUME NEW i \in Of("milestone"), NEW j \in Of("milestone"), i # j,
                          st'[i] = "live", st'[j] = "live", ref'[i]["deal"] = ref'[j]["deal"],
                          i \notin raced', j \notin raced', i \notin placed', j \notin placed'
                   PROVE  rank'[i] # rank'[j]
        BY <1>3 DEF MilestonesInOrder, Live
      <3>0. /\ i \in Rows /\ j \in Rows /\ i \notin raced /\ j \notin raced
            /\ i \notin placed /\ j \notin placed
        BY <2>1 DEF Of
      <3>1. CASE i # r.id /\ j # r.id
        BY <1>4, <3>0, <3>1 DEF PlacesKept, MilestonesInOrder, Live
      <3>2. CASE i = r.id
        <4>1. j \in MilestonesOf(r.new["deal"])
          BY <1>4, <3>0, <3>2 DEF MilestonesOf, Live
        <4> QED BY <1>4, <2>2, <3>0, <3>2, <4>1
      <3>3. CASE j = r.id
        <4>1. i \in MilestonesOf(r.new["deal"])
          BY <1>4, <3>0, <3>3 DEF MilestonesOf, Live
        <4> QED BY <1>4, <2>2, <3>0, <3>3, <4>1
      <3> QED BY <3>1, <3>2, <3>3
    <2>4. PlacesFree'
      <3> SUFFICES ASSUME NEW p \in Slots, Writes(p, "create")', Numbering(reqs'[p]),
                          reqs'[p].id \notin raced',
                          NEW i \in Of("milestone"), st'[i] = "live", i \notin placed',
                          ref'[i]["deal"] = reqs'[p].new["deal"]
                   PROVE  rank'[i] # reqs'[p].rank
        BY <1>3 DEF PlacesFree, MilestonesOf, Live, Numbering
      <3>1. p # s /\ Writes(p, "create") /\ reqs'[p] = reqs[p]
        BY <1>5
      <3>2. CASE i = r.id
        <4>1. reqs[p].id \in AlsoAdding(s)
          BY <1>4, <3>1, <3>2 DEF AlsoAdding, Numbering
        <4> QED BY <2>1, <3>1, <4>1
      <3>3. CASE i # r.id
        <4>1. i \in MilestonesOf(reqs[p].new["deal"]) \ placed
          BY <1>4, <2>1, <3>1, <3>3 DEF MilestonesOf, Live, Of
        <4>2. reqs[p].id \notin raced
          BY <2>1, <3>1
        <4> QED BY <1>4, <3>1, <3>3, <4>1, <4>2 DEF PlacesKept, PlacesFree, Of
      <3> QED BY <3>2, <3>3
    <2> QED BY <2>3, <2>4 DEF PlacesKept
  <1> QED BY <1>6, <1>7

LEMMA WriteUpdatePlaces ==
  ASSUME Inductive, RequestsRegular, PlacesKept, NEW s \in Slots,
         WriteUpdate(s) \/ WriteDetach(s) \/ WriteBulk(s)
  PROVE  PlacesKept'
  <1> DEFINE r == reqs[s]
             new == [c \in Columns |-> IF c \in r.sets THEN r.new[c] ELSE ref[r.id][c]]
  <1>1. /\ r # Idle /\ reqs' = [reqs EXCEPT ![s] = Idle] /\ UNCHANGED <<ids, st, raced>>
        /\ r.act \in {"update", "detach", "bulk"}
    BY DEF WriteUpdate, WriteDetach, WriteBulk, Writes, Done, history
  <1>2. /\ r.act = "update" =>
             /\ ref' = [ref EXCEPT ![r.id] = new]
             /\ rank' = IF "rank" \in r.sets THEN [rank EXCEPT ![r.id] = r.rank] ELSE rank
             /\ placed' = IF "rank" \in r.sets THEN placed \union {r.id} ELSE placed
        /\ r.act = "detach" => \E x : ref' = [ref EXCEPT ![r.id] = x] /\ UNCHANGED <<rank, placed>>
        /\ r.act = "bulk" => /\ UNCHANGED <<rank, placed>>
                             /\ \A i \in Rows : kind[i] # "task" => ref'[i] = ref[i]
    BY DEF WriteUpdate, WriteDetach, WriteBulk, Writes, Of, history
  <1>3. Regular(r, kind) /\ (r.act # "bulk" => r.id \in Rows)
    BY <1>1, TargetsAreRows DEF RequestsRegular
  <1>4. ref \in [Rows -> Refs] /\ rank \in [Rows -> Nat] /\ "deal" \in Columns
    BY DEF Inductive, TypeOK, Columns
  <1> HIDE DEF r
  <1>5. ASSUME NEW i \in Of("milestone"), i \notin placed'
        PROVE  ref'[i]["deal"] = ref[i]["deal"] /\ rank'[i] = rank[i]
    <2>1. i \in Rows /\ kind[i] = "milestone"
      BY DEF Of
    <2>2. CASE r.act = "bulk"
      BY <1>2, <2>1, <2>2
    <2>3. CASE r.act # "bulk" /\ i # r.id
      <3>1. rank'[i] = rank[i]
        BY <1>1, <1>2, <1>3, <1>4, <2>1, <2>3
      <3>2. ref'[i] = ref[i]
        BY <1>1, <1>2, <1>3, <1>4, <2>1, <2>3
      <3> QED BY <3>1, <3>2
    <2>4. CASE r.act # "bulk" /\ i = r.id
      <3>1. r.act = "update" /\ r.sets \intersect Columns = {}
        BY <1>1, <1>3, <2>1, <2>4 DEF Regular
      <3>2. "rank" \notin r.sets
        BY <1>2, <1>5, <2>4, <3>1
      <3>3. rank' = rank
        BY <1>2, <3>1, <3>2
      <3>4. ref'[i] = new /\ "deal" \notin r.sets
        BY <1>2, <1>4, <2>1, <2>4, <3>1
      <3> QED BY <1>4, <2>4, <3>3, <3>4
    <2> QED BY <2>2, <2>3, <2>4
  <1>6. placed \subseteq placed'
    BY <1>1, <1>2
  <1> QED BY <1>1, <1>5, <1>6, SlotPlacesKept DEF Live

LEMMA DeletePlaces ==
  ASSUME NEW gone \in SUBSET Rows, \A i \in gone : Live(i), NEW org, Delete(gone, org)
  PROVE  /\ UNCHANGED <<ids, raced, placed>>
         /\ \A i \in Of("milestone") : (st'[i] = "live" /\ i \notin placed') =>
               /\ Live(i) /\ ref'[i]["deal"] = ref[i]["deal"] /\ rank'[i] = rank[i]
  <1>1. /\ ref' = [i \in Rows |-> [c \in Columns |-> IF Loses(i, c, gone) THEN None ELSE ref[i][c]]]
        /\ UNCHANGED <<ids, raced, placed, rank>>
    BY DEF Delete
  <1>2. \A i \in Of("milestone") : i \in Rows /\ ~Loses(i, "deal", gone)
    BY KindsWithoutSetNull DEF Loses, Of
  <1>3. "deal" \in Columns
    BY DEF Columns
  <1> QED BY <1>1, <1>2, <1>3, DeleteStates

LEMMA PlacesStayKept ==
  ASSUME Inductive, RequestsRegular, PlacesKept, [Next]_vars PROVE PlacesKept'
  <1>0. reqs \in [Slots -> Requests \union {Idle}]
    BY DEF Inductive, TypeOK
  <1>1. ASSUME NEW r \in Requests, r.todo # <<>>, Regular(r, kind), Found(r, Head(r.todo))
        PROVE  LET q == Passed(r) IN (q.act = "create" /\ q.todo = <<>>) => kind[q.id] # "milestone"
    <2> DEFINE q == Passed(r)
    <2>1. q.act = r.act /\ q.id = r.id /\ q.todo = Tail(r.todo)
      BY <1>1, PassedFields
    <2> HIDE DEF q
    <2> SUFFICES ASSUME q.act = "create", q.todo = <<>>, kind[q.id] = "milestone" PROVE FALSE
      BY DEF q
    <2>2. r.todo \in {<<"deal", "max">>, <<"max">>}
      BY <1>1, <2>1 DEF Regular
    <2>3. r.todo # <<"deal", "max">>
      <3> SUFFICES ASSUME r.todo = <<"deal", "max">> PROVE FALSE
        OBVIOUS
      <3>1. q.todo = <<"max">>
        BY <2>1, TailsOfTodo
      <3>2. Len(q.todo) = 1 /\ Len(<<>>) = 0
        BY <3>1
      <3> QED BY <3>2
    <2>4. Head(r.todo) = "max"
      BY <2>2, <2>3
    <2> QED BY <1>1, <2>4 DEF Found
  <1>2. ASSUME NEW org \in Orgs, Route(org) PROVE PlacesKept'
    <2>1. CASE Arrives
      <3>1. PICK r \in Requests : r.todo # <<>> /\ Regular(r, kind) /\ Start(r)
        BY <2>1 DEF Arrives
      <3>2. PICK s \in Slots : reqs' = [reqs EXCEPT ![s] = Passed(r)]
        BY <3>1 DEF Start
      <3>3. Found(r, Head(r.todo)) /\ UNCHANGED <<ids, raced, placed, st, ref, rank>>
        BY <3>1 DEF Start, rows, history
      <3> DEFINE q == Passed(r)
      <3>4. (q.act = "create" /\ q.todo = <<>>) => kind[q.id] # "milestone"
        BY <1>1, <3>1, <3>3
      <3> HIDE DEF q
      <3> QED BY <3>2, <3>3, <3>4, SlotPlacesKept DEF Live, q
    <2>2. CASE Appears
      <3>1. PICK i \in Rows : /\ kind[i] # "milestone" /\ st' = [st EXCEPT ![i] = "live"]
                              /\ UNCHANGED <<ids, ref, rank, reqs, raced, placed>>
        BY <2>2 DEF Appears, Unowned, history
      <3>2. \A j \in Of("milestone") : st'[j] = st[j]
        BY <3>1 DEF Of, Inductive, TypeOK
      <3> QED BY <3>1, <3>2, SameReqsPlacesKept DEF Live
    <2>3. CASE Idles
      <3>1. UNCHANGED <<ids, raced, placed, reqs, st, ref, rank>>
        BY <2>3 DEF Idles, rows, history
      <3> QED BY <3>1, SameReqsPlacesKept DEF Live
    <2>4. CASE BulkDelete(org)
      BY <2>4, BulkDeletes, DeletePlaces, SameReqsPlacesKept
    <2>5. CASE FileUpload(org)
      <3>1. PICK i \in Fresh("file", org), new \in Parents, s \in Slots :
               reqs' = [reqs EXCEPT ![s] =
                          Request("create", i, org, new, Columns, FirstParent(new))]
        BY <2>5 DEF FileUpload
      <3> DEFINE r == Request("create", i, org, new, Columns, FirstParent(new))
      <3>2. reqs' = [reqs EXCEPT ![s] = r]
        BY <3>1
      <3>3. r.id = i /\ kind[i] = "file"
        BY FreshIsHome DEF Request
      <3>4. UNCHANGED <<ids, raced, placed, st, ref, rank>>
        BY <2>5 DEF FileUpload, rows, history
      <3> HIDE DEF r
      <3> QED BY <3>2, <3>3, <3>4, SlotPlacesKept DEF Live
    <2> QED BY <1>2, <2>1, <2>2, <2>3, <2>4, <2>5, RouteArrives
  <1>3. ASSUME NEW s \in Slots, Look(s) PROVE PlacesKept'
    <2>1. /\ reqs[s] # Idle /\ reqs[s].todo # <<>> /\ Found(reqs[s], Head(reqs[s].todo))
          /\ UNCHANGED <<ids, raced, placed, st, ref, rank>>
      BY <1>3 DEF Look, rows, history
    <2>2. reqs[s] \in Requests /\ Regular(reqs[s], kind)
      BY <2>1, RequestAt DEF RequestsRegular
    <2> DEFINE q == Passed(reqs[s])
    <2>3. (q.act = "create" /\ q.todo = <<>>) => kind[q.id] # "milestone"
      BY <1>1, <2>1, <2>2
    <2>4. reqs' = [reqs EXCEPT ![s] = q]
      BY <1>0, <1>3 DEF Look
    <2> HIDE DEF q
    <2> QED BY <2>1, <2>3, <2>4, SlotPlacesKept DEF Live
  <1>4. ASSUME NEW s \in Slots, UnlinkFile(s) PROVE PlacesKept'
    <2>1. /\ reqs[s] # Idle /\ reqs[s].todo # <<>> /\ Head(reqs[s].todo) = "unlink"
          /\ UNCHANGED <<ids, raced, placed, st, ref, rank>>
      BY <1>4 DEF UnlinkFile, At, rows, history
    <2>2. reqs[s] \in Requests /\ Regular(reqs[s], kind)
      BY <2>1, RequestAt DEF RequestsRegular
    <2> DEFINE r == reqs[s]
               q == Passed(r)
    <2>3. q.act = r.act /\ q.id = r.id
      BY <2>1, <2>2, PassedFields
    <2>4. (r.act = "create" /\ kind[r.id] = "milestone") => FALSE
      <3>1. Head(<<"deal", "max">>) # "unlink" /\ Head(<<"max">>) # "unlink"
        OBVIOUS
      <3> QED BY <2>1, <2>2, <3>1 DEF Regular
    <2>5. reqs' = [reqs EXCEPT ![s] = q]
      BY <1>0, <1>4 DEF UnlinkFile
    <2> HIDE DEF q, r
    <2> QED BY <2>1, <2>3, <2>4, <2>5, SlotPlacesKept DEF Live
  <1>5. ASSUME NEW s \in Slots, Refuse(s) \/ WriteFails(s) PROVE PlacesKept'
    <2>1. /\ reqs' = [reqs EXCEPT ![s] = Idle] /\ UNCHANGED <<ids, raced, placed, st, ref, rank>>
      BY <1>5 DEF Refuse, WriteFails, Done, rows, history
    <2> QED BY <2>1, SlotPlacesKept DEF Live
  <1>6. ASSUME NEW s \in Slots, WriteRemove(s) \/ WriteUntag(s) PROVE PlacesKept'
    BY <1>6, WritingDeletes, DeletePlaces, SlotPlacesKept DEF Done
  <1>7. CASE Restart \/ Redeploy
    <2>1. UNCHANGED <<ids, raced, placed, st, ref, rank>> /\ \A p \in Slots : reqs'[p] = Idle
      BY <1>7 DEF Restart, Redeploy, Stop, rows
    <2>2. \A p \in Slots : ~Writes(p, "create")'
      BY <2>1 DEF Writes
    <2> QED BY <2>1, <2>2, QuietPlacesKept DEF Live
  <1>8. CASE UNCHANGED vars
    <2>1. UNCHANGED <<ids, raced, placed, reqs, st, ref, rank>>
      BY <1>8 DEF vars, ids
    <2> QED BY <2>1, SameReqsPlacesKept DEF Live
  <1> QED BY <1>2, <1>3, <1>4, <1>5, <1>6, <1>7, <1>8, ReadMaxOrderPlaces, WriteCreatePlaces,
             WriteUpdatePlaces DEF Next, Writing

------------------------------------------------------------------------------
Regularity == RequestsRegular /\ IdsUnused /\ RowsKept /\ FilesKept /\ PlacesKept

\* Every row hangs on what its kind hangs on and names rows that are there (one that
\* crosses on a task, unless that is deleted), every request would write such a row
\* under an id no other request is to use, uploads and removals of files do not meet,
\* and the place read for a milestone is free of those the server gave: together an
\* invariant of the handlers.
THEOREM WorkRegularity == Spec => []Regularity
  <1>1. Init => Regularity
    <2> SUFFICES ASSUME Init PROVE Regularity
      OBVIOUS
    <2>1. /\ \A i \in Rows : st[i] = "none" /\ ref[i] = NoRef
          /\ \A s \in Slots : reqs[s] = Idle
          /\ crossed = {}
      BY DEF Init
    <2>2. RequestsRegular /\ IdsUnused /\ UploadsStored /\ RemovalsFound /\ PlacesFree
      BY <2>1 DEF RequestsRegular, IdsUnused, Making, UploadsStored, RemovalsFound, PlacesFree, Storing, Removing, Writes
    <2>3. RowsRegular
      BY <2>1, NoRefIsRefs DEF RowsRegular, Keyed, Live
    <2>4. RefsAreLive /\ ListedFilesExist /\ MilestonesInOrder
      BY <2>1 DEF RefsAreLive, ListedFilesExist, MilestonesInOrder, Live, Of
    <2> QED BY <2>2, <2>3, <2>4 DEF Regularity, RowsKept, FilesKept, PlacesKept
  <1>2. Inductive /\ Regularity /\ [Next]_vars => Regularity'
    BY RequestsStayRegular, IdsStayUnused, RowsStayKept, FilesStayKept, PlacesStayKept DEF Regularity
  <1> QED BY <1>1, <1>2, WorkInductive, PTL DEF Spec

\* No row ever names a deleted row, however the deletion and the writing of the
\* reference interleave: the foreign keys refuse the one or take the other along.
THEOREM WorkRefsAreLive == Spec => []RefsAreLive
  <1>1. Regularity => RefsAreLive
    BY DEF Regularity, RowsKept
  <1> QED BY <1>1, WorkRegularity, PTL

\* A listed file is always in the upload directory, but for a deletion that is
\* under way or was cut off, and for a redeploy since it was stored: no upload,
\* refusal, other deletion or restart in place takes it away.
THEOREM WorkListedFilesExist == Spec => []ListedFilesExist
  <1>1. Regularity => ListedFilesExist
    BY DEF Regularity, FilesKept
  <1> QED BY <1>1, WorkRegularity, PTL

\* Milestones of a deal have places of their own, but for those numbered while
\* another was being added and those whose place a client has chosen.
THEOREM WorkMilestonesInOrder == Spec => []MilestonesInOrder
  <1>1. Regularity => MilestonesInOrder
    BY DEF Regularity, PlacesKept
  <1> QED BY <1>1, WorkRegularity, PTL

------------------------------------------------------------------------------
(***************************************************************************)
(* The answers (Reads).  No answer of the API shows a row of another       *)
(* organization, but for the rows that cross.  A route that reads by the   *)
(* organization does so by itself; one that follows references, or reads   *)
(* by the id of a row it has looked up, does so because no handler lets a  *)
(* row that does not cross name one of another organization, and nothing   *)
(* names a row that crosses.  And every row is shown: what its kind hangs  *)
(* on is there to be followed.                                             *)
(***************************************************************************)
\* The rows of one organization, with those it has deleted; those of them that do
\* not cross; and the rows that one which crosses brings into its sight.
Within(org) == {i \in Rows : home[i] = org}
Plain(org) == Within(org) \ crossed
Brings(j, org) == ref[j]["project"] # None /\ Ties(j, org)
Tied(org) ==
    {i \in Rows : \E j \in Rows : /\ Brings(j, org)
                                  /\ i \in {j, ref[j]["task"], ref[j]["project"]}}
Seen(org) == Within(org) \union Tied(org)

LEMMA AllWithin ==
  ASSUME Inductive, NEW k, NEW org
  PROVE  /\ All(k, org) \subseteq Within(org)
         /\ k \notin TwoParents => All(k, org) \subseteq Plain(org)
  BY NotCrossed DEF All, Of, Owned, Within, Plain

LEMMA TasksWithin ==
  ASSUME Inductive, NEW org
  PROVE  AllTasks(org) \subseteq Plain(org)
  BY TaskIsHome, NotCrossed DEF AllTasks, Of, Within, Plain, TwoParents

\* A time entry is found through its task, which is where it is, or its project.
LEMMA EntriesWithin ==
  ASSUME Inductive, NEW org
  PROVE  \A i \in AllEntries(org) : i \in Within(org) \/ Brings(i, org)
  <1> SUFFICES ASSUME NEW i \in Of("entry"), EntryIn(i, org)
               PROVE  home[i] = org \/ Brings(i, org)
    BY DEF AllEntries, Within, Of
  <1>1. i \in Rows /\ kind[i] = "entry" /\ Live(i) /\ "task" \in Columns /\ "project" \in Columns
    BY DEF Of, EntryIn, Columns
  <1>2. CASE TaskIn(ref[i]["task"], org)
    <2>1. ref[i]["task"] # None
      BY <1>2 DEF TaskIn
    <2>2. home[ref[i]["task"]] = org
      BY <1>1, <1>2, <2>1, NamedIsRow, TaskIsHome
    <2> QED BY <1>1, <2>1, <2>2 DEF Inductive, RefsStayInOrg
  <1>3. CASE Owned(ref[i]["project"], org)
    <2>1. ref[i]["project"] # None /\ home[ref[i]["project"]] = org
      BY <1>3, OwnedIsHome
    <2> QED BY <1>1, <2>1 DEF Inductive, RefsStayInOrg, Ties, Brings
  <1> QED BY <1>2, <1>3 DEF EntryIn

LEMMA OneWithin ==
  ASSUME Inductive, NEW org, NEW x \in Rows, kind[x] # "entry"
  PROVE  /\ One(x, org) \subseteq Within(org)
         /\ kind[x] \notin TwoParents => One(x, org) \subseteq Plain(org)
  <1>1. ASSUME InOrg(x, org) PROVE home[x] = org
    <2>1. CASE kind[x] = "task"
      BY <1>1, <2>1, InOrgIsHome, NotCrossed DEF TwoParents
    <2>2. CASE kind[x] # "task"
      BY <1>1, <2>2 DEF InOrg, Owned
    <2> QED BY <2>1, <2>2
  <1>2. kind[x] \notin TwoParents => x \notin crossed
    BY NotCrossed
  <1> QED BY <1>1, <1>2 DEF One, Within, Plain

\* References do not leave the organization, whichever way they are followed.
LEMMA NamedByWithin ==
  ASSUME Inductive, NEW org, NEW some \in SUBSET Plain(org), NEW c \in Columns
  PROVE  NamedBy(some, c) \subseteq Plain(org)
  <1> SUFFICES ASSUME NEW i \in Rows, NEW j \in some, ref[j][c] = i PROVE i \in Plain(org)
    BY DEF NamedBy
  <1>1. i # None /\ j \in Rows /\ home[j] = org /\ j \notin crossed
    BY DEF Inductive, TypeOK, Within, Plain
  <1>2. home[i] = org
    BY <1>1 DEF Inductive, RefsStayInOrg
  <1>3. kind[i] = c
    BY <1>1, NamedIsRow
  <1> QED BY <1>2, <1>3, NotCrossed DEF Within, Plain, TwoParents, Columns

LEMMA NamingWithin ==
  ASSUME Inductive, NEW org, NEW some \in SUBSET Plain(org), NEW k, NEW c \in Columns
  PROVE  /\ k \notin TwoParents => Naming(k, c, some) \subseteq Plain(org)
         /\ \A i \in Naming(k, c, some) :
               i \in Within(org) \/ (c = "project" /\ Brings(i, org))
  <1> SUFFICES ASSUME NEW i \in Rows, kind[i] = k, Live(i), ref[i][c] \in some
               PROVE  /\ k \notin TwoParents => home[i] = org /\ i \notin crossed
                      /\ home[i] = org \/ (c = "project" /\ Brings(i, org))
    BY DEF Naming, Of, Within, Plain
  <1>1. ref[i][c] # None /\ home[ref[i][c]] = org
    BY DEF Inductive, TypeOK, Within, Plain
  <1>2. home[i] = org \/ (c = "project" /\ i \in crossed)
    BY <1>1 DEF Inductive, RefsStayInOrg
  <1>3. k \notin TwoParents => i \notin crossed
    BY NotCrossed
  <1> QED BY <1>1, <1>2, <1>3 DEF Ties, Brings

\* What a time entry names is where it is, or tied by it.
LEMMA NamedByEntry ==
  ASSUME Inductive, NEW org, NEW j \in Rows, Live(j), j \in Within(org) \/ Brings(j, org),
         NEW c \in {"task", "project"}, NEW i \in Rows, ref[j][c] = i
  PROVE  i \in Seen(org)
  <1>1. i # None /\ c \in Columns
    BY DEF Inductive, TypeOK, Columns
  <1>2. CASE Brings(j, org)
    BY <1>2 DEF Seen, Tied
  <1>3. CASE home[i] = home[j] /\ j \in Within(org)
    BY <1>3 DEF Seen, Within
  <1>4. CASE home[i] # home[j] /\ j \in Within(org)
    <2>1. c = "project" /\ j \in crossed
      BY <1>1, <1>4 DEF Inductive, RefsStayInOrg
    <2>2. Brings(j, org)
      BY <1>1, <1>4, <2>1 DEF Brings, Ties, Within
    <2> QED BY <1>2, <2>2
  <1> QED BY <1>2, <1>3, <1>4

------------------------------------------------------------------------------
\* The routes that list.
LEMMA ListsWithin ==
  ASSUME Inductive, NEW org, NEW shown \in Lists(org)
  PROVE  shown \subseteq Seen(org)
  <1> DEFINE W == Plain(org)
             plain == {"team", "project", "tag", "deal", "milestone", "customer", "invoice",
                       "supplier", "order", "product", "event", "task"}
  <1>0. W \subseteq Seen(org) /\ Within(org) \subseteq Seen(org) /\ \A k \in plain : k \notin TwoParents
    BY DEF Plain, Seen, TwoParents
  <1>1. \A k \in plain : All(k, org) \subseteq W
    BY <1>0, AllWithin
  <1>2. AllTasks(org) \subseteq W
    BY TasksWithin
  <1>3. \A some \in SUBSET W, c \in Columns : NamedBy(some, c) \subseteq W
    BY NamedByWithin
  <1>4. \A some \in SUBSET W, c \in Columns : \A k \in plain : Naming(k, c, some) \subseteq W
    BY <1>0, NamingWithin
  <1>5. /\ {"team", "project", "task", "deal", "customer", "supplier"} \subseteq Columns
        /\ {"team", "project", "tag", "deal", "milestone", "customer", "invoice",
            "supplier", "order", "product", "event", "task"} \subseteq plain
    BY DEF Columns
  <1> HIDE DEF W, plain
  <1>a. \A k \in plain : \A c \in Columns : NamedBy(All(k, org), c) \subseteq W
    BY <1>1, <1>3
  <1>b. \A k, j \in plain : \A c \in Columns : Naming(k, c, All(j, org)) \subseteq W
    BY <1>1, <1>4
  <1>6. TaskFindAll(org) \subseteq W /\ TasksSummary(org) \subseteq W
    BY <1>2, <1>3, <1>5 DEF TaskFindAll, TasksSummary
  <1>7. ProjectFindAll(org) \subseteq W
    BY <1>1, <1>3, <1>4, <1>5 DEF ProjectFindAll
  <1>8. EntriesByUser(org) \subseteq Seen(org) /\ GetStats(org) \subseteq Seen(org)
    <2>1. \A j \in AllEntries(org) : j \in Rows /\ Live(j) /\ (j \in Within(org) \/ Brings(j, org))
      BY EntriesWithin DEF AllEntries, EntryIn, Of
    <2>2. AllEntries(org) \subseteq Seen(org)
      BY <2>1 DEF Seen, Tied
    <2>3. \A c \in {"task", "project"} : NamedBy(AllEntries(org), c) \subseteq Seen(org)
      BY <2>1, NamedByEntry DEF NamedBy
    <2> QED BY <2>2, <2>3 DEF EntriesByUser, GetStats
  <1>9. DealFindAll(org) \subseteq W
    BY <1>1, <1>a, <1>b, <1>5 DEF DealFindAll
  <1>10. CustomerFindAll(org) \subseteq W /\ SupplierFindAll(org) \subseteq W
    BY <1>1, <1>b, <1>5 DEF CustomerFindAll, SupplierFindAll
  <1>11. InvoiceFindAll(org) \subseteq W
    BY <1>1, <1>3, <1>5 DEF InvoiceFindAll
  <1>12. TeamFindAll(org) \subseteq W
    BY <1>1, <1>4, <1>5 DEF TeamFindAll
  <1>13. /\ TagFindAll(org) \subseteq W /\ OrderFindAll(org) \subseteq W
         /\ ProductFindAll(org) \subseteq W /\ EventFindAll(org) \subseteq W
         /\ FindRecent(org) \subseteq Seen(org)
    BY <1>0, <1>1, <1>5, AllWithin
       DEF TagFindAll, FindRecent, OrderFindAll, ProductFindAll, EventFindAll
  <1>14. GetOverview(org) \subseteq W
    <2>1. OverviewLists(org) \subseteq W
      BY <1>1, <1>3, <1>4, <1>5, <1>6 DEF OverviewLists
    <2>2. Performance(org) \subseteq W
      BY <1>2 DEF Performance
    <2>3. ProjectSummaries(org) \subseteq W
      BY <1>1, <1>2, <1>5 DEF ProjectSummaries
    <2>4. Trends(org) \subseteq W
      BY <1>1, <1>2, <1>5 DEF Trends
    <2> QED BY <1>6, <2>1, <2>2, <2>3, <2>4 DEF GetOverview
  <1>15. FinanceOverview(org) \subseteq W /\ FinancialReport(org) \subseteq W
    BY <1>1, <1>5 DEF FinanceOverview, FinancialReport
  <1>16. ExportReport(org) \subseteq W
    BY <1>1, <1>4, <1>5, <1>6 DEF ExportReport
  <1>17. CommandFeed(org) \subseteq W
    BY <1>1, <1>a, <1>b, <1>5, <1>6, <1>11 DEF CommandFeed
  <1>18. shown \subseteq W \/ shown \subseteq Seen(org)
    BY <1>6, <1>7, <1>8, <1>9, <1>10, <1>11, <1>12, <1>13, <1>14, <1>15, <1>16, <1>17 DEF Lists
  <1> QED BY <1>0, <1>18 DEF W

\* The routes that are asked about one row.
LEMMA DetailsWithin ==
  ASSUME Inductive, NEW org, NEW x \in Rows, NEW shown \in Details(x, org)
  PROVE  shown \subseteq Seen(org)
  <1> DEFINE W == Plain(org)
             plain == {"team", "project", "task", "taskTag", "projectTag", "milestone", "invoice",
                       "order"}
  <1>0. /\ W \subseteq Seen(org) /\ Within(org) \subseteq Seen(org) /\ \A k \in plain : k \notin TwoParents
        /\ kind[x] # "entry"
    BY DEF Plain, Seen, TwoParents, Details
  <1>1. One(x, org) \subseteq Within(org) /\ (kind[x] # "file" => One(x, org) \subseteq W)
    BY <1>0, OneWithin DEF TwoParents, Details
  <1>2. CASE kind[x] = "file"
    BY <1>0, <1>1, <1>2 DEF Details, GetFile
  <1>3. CASE kind[x] # "file"
    <2>1. One(x, org) \subseteq W
      BY <1>1, <1>3
    <2>2. \A some \in SUBSET W, c \in Columns : NamedBy(some, c) \subseteq W
      BY NamedByWithin
    <2>3. \A some \in SUBSET W, c \in Columns : \A k \in plain : Naming(k, c, some) \subseteq W
      BY <1>0, NamingWithin
    <2>4. /\ {"team", "project", "task", "tag", "deal", "customer", "supplier"} \subseteq Columns
          /\ {"team", "project", "task", "taskTag", "projectTag", "milestone", "invoice",
              "order"} \subseteq plain
      BY DEF Columns
    <2> HIDE DEF W, plain
    <2>a. \A c \in Columns : NamedBy(One(x, org), c) \subseteq W
      BY <2>1, <2>2
    <2>b. \A k \in plain : \A c \in Columns : Naming(k, c, One(x, org)) \subseteq W
      BY <2>1, <2>3
    <2>5. TaskFindOne(x, org) \subseteq W
      BY <2>1, <2>2, <2>4 DEF TaskFindOne
    <2>6. ProjectFindOne(x, org) \subseteq W
      BY <2>1, <2>2, <2>3, <2>4 DEF ProjectFindOne
    <2>7. \A c \in {"task", "project"} :
             /\ CommentsBy(c, x, org) \subseteq Seen(org)
             /\ FilesBy(c, x, org) \subseteq Seen(org)
             /\ EntriesBy(c, x, org) \subseteq Seen(org)
      <3> SUFFICES ASSUME NEW c \in {"task", "project"}
                   PROVE  /\ CommentsBy(c, x, org) \subseteq Seen(org)
                          /\ FilesBy(c, x, org) \subseteq Seen(org)
                          /\ EntriesBy(c, x, org) \subseteq Seen(org)
        OBVIOUS
      <3>1. c \in Columns
        BY <2>4
      <3>2. ASSUME NEW k, NEW j \in Naming(k, c, One(x, org))
            PROVE  /\ j \in Rows /\ Live(j) /\ (j \in Within(org) \/ Brings(j, org))
                   /\ j \in Seen(org)
        <4>1. j \in Rows /\ Live(j)
          BY DEF Naming, Of
        <4>2. j \in Within(org) \/ Brings(j, org)
          BY <2>1, <3>1, NamingWithin DEF W
        <4> QED BY <4>1, <4>2 DEF Seen, Tied
      <3>3. CommentsBy(c, x, org) \subseteq Seen(org) /\ FilesBy(c, x, org) \subseteq Seen(org)
        BY <3>2 DEF CommentsBy, FilesBy
      <3>4. c = "project" => NamedBy(Naming("entry", c, One(x, org)), "task") \subseteq Seen(org)
        BY <3>2, NamedByEntry DEF NamedBy
      <3> QED BY <3>2, <3>3, <3>4 DEF EntriesBy
    <2>8. TaskTags(x, org) \subseteq W /\ ProjectTags(x, org) \subseteq W
      <3>1. \A k \in plain : \A c \in Columns : TagsBy(k, c, x, org) \subseteq W
        BY <2>2, <2>4, <2>b DEF TagsBy
      <3> QED BY <2>4, <3>1 DEF TaskTags, ProjectTags
    <2>9. DealFindOne(x, org) \subseteq W
      BY <2>1, <2>a, <2>b, <2>4 DEF DealFindOne
    <2>10. /\ CustomerFindOne(x, org) \subseteq W /\ InvoiceFindOne(x, org) \subseteq W
           /\ SupplierFindOne(x, org) \subseteq W
      BY <2>1, <2>a, <2>b, <2>4 DEF CustomerFindOne, InvoiceFindOne, SupplierFindOne
    <2>11. /\ OrderFindOne(x, org) \subseteq W /\ ProductFindOne(x, org) \subseteq W
           /\ EventFindOne(x, org) \subseteq W
      BY <2>1 DEF OrderFindOne, ProductFindOne, EventFindOne
    <2>12. TeamFindOne(x, org) \subseteq W
      BY <2>1, <2>3, <2>4 DEF TeamFindOne
    <2>13. shown \subseteq W \/ shown \subseteq Seen(org)
      BY <1>3, <2>5, <2>6, <2>7, <2>8, <2>9, <2>10, <2>11, <2>12 DEF Details
    <2> QED BY <1>0, <2>13 DEF W
  <1> QED BY <1>2, <1>3

\* What a GET route shows one organization and is another's is a comment, time
\* entry or file whose project nobody looked up, shown with that project, or the
\* task or project of one: for any number of organizations, rows and requests
\* under way.
THEOREM WorkAnswersStayInOrg == Spec => []AnswersStayInOrg
  <1>1. ASSUME Inductive PROVE AnswersStayInOrg
    <2> SUFFICES ASSUME NEW org \in Orgs, NEW i \in Shown(org)
                 PROVE  home[i] = org \/ \E j \in Rows :
                           /\ ref[j]["project"] # None /\ Ties(j, org)
                           /\ i \in {j, ref[j]["task"], ref[j]["project"]}
      BY DEF AnswersStayInOrg
    <2>1. CASE \E shown \in Lists(org) : i \in shown
      BY <1>1, <2>1, ListsWithin DEF Seen, Within, Tied, Brings
    <2>2. CASE \E x \in Rows : \E shown \in Details(x, org) : i \in shown
      BY <1>1, <2>2, DetailsWithin DEF Seen, Within, Tied, Brings
    <2> QED BY <2>1, <2>2 DEF Shown
  <1> QED BY <1>1, WorkInductive, PTL

------------------------------------------------------------------------------
\* What a live row names, but for the columns of a file and the project of a row
\* that crosses, is a live row of the same organization and of the kind the column
\* is called after.
LEMMA NamedIsOwned ==
  ASSUME Inductive, Regularity, NEW i \in Rows, Live(i), kind[i] # "file", NEW c \in Columns,
         ref[i][c] # None, c = "project" => i \notin crossed
  PROVE  ref[i][c] \in Of(c) /\ Live(ref[i][c]) /\ Owned(ref[i][c], home[i])
  <1>1. ref[i][c] \in Rows /\ home[ref[i][c]] = home[i]
    BY NamedIsRow DEF Inductive, RefsStayInOrg
  <1>2. Live(ref[i][c])
    BY DEF Regularity, RowsKept, RefsAreLive
  <1>3. kind[ref[i][c]] = c
    BY DEF Regularity, RowsKept, RowsRegular, Keyed
  <1> QED BY <1>1, <1>2, <1>3 DEF Of, Owned

\* A live task is found through its project, unless that was deleted.
LEMMA TaskIsFound ==
  ASSUME Inductive, Regularity, NEW i \in Of("task"), Live(i), i \notin lost
  PROVE  TaskIn(i, home[i]) /\ InOrg(i, home[i])
  <1>1. i \in Rows /\ kind[i] = "task" /\ i # None
    BY DEF Of, Inductive, TypeOK
  <1>2. ref[i]["project"] # None
    BY <1>1 DEF Regularity, RowsKept, RowsRegular, Attached
  <1>3. Owned(ref[i]["project"], home[i])
    BY <1>1, <1>2, NamedIsOwned, NotCrossed DEF Columns, TwoParents
  <1> QED BY <1>1, <1>3 DEF TaskIn, InOrg

\* A row that hangs on a task or project which is there is found through it.
LEMMA HangingIsFound ==
  ASSUME Inductive, Regularity, NEW i \in Rows, Live(i), kind[i] \in {"comment", "entry"},
         Hangs(ref[i]), ref[i]["task"] \notin lost, i \notin lost
  PROVE  \E c \in {"task", "project"} :
            ref[i][c] \in Of(c) /\ InOrg(ref[i][c], home[i])
  <1>1. {"task", "project"} \subseteq Columns /\ kind[i] # "file"
    BY DEF Columns
  <1>2. CASE ref[i]["task"] # None
    <2>1. ref[i]["task"] \in Of("task") /\ Live(ref[i]["task"]) /\ Owned(ref[i]["task"], home[i])
      BY <1>1, <1>2, NamedIsOwned
    <2>2. InOrg(ref[i]["task"], home[i])
      BY <2>1, TaskIsFound DEF Owned
    <2> QED BY <2>1, <2>2
  <1>3. CASE ref[i]["project"] # None /\ ref[i]["task"] = None
    <2>0. i \notin crossed
      BY <1>3 DEF Regularity, RowsKept, RowsRegular, Attached
    <2>1. ref[i]["project"] \in Of("project") /\ Owned(ref[i]["project"], home[i])
      BY <1>1, <1>3, <2>0, NamedIsOwned
    <2>2. kind[ref[i]["project"]] = "project"
      BY <2>1 DEF Of
    <2> QED BY <2>1, <2>2 DEF InOrg
  <1> QED BY <1>2, <1>3 DEF Hangs

LEMMA ListIsShown ==
  ASSUME NEW org, NEW i, NEW list \in Lists(org), i \in list
  PROVE  i \in Shown(org)
  BY DEF Shown

\* Every kind but those found through another row has a list of its own.
LEMMA OwnedIsShown ==
  ASSUME Inductive, NEW i \in Rows, Live(i), kind[i] \notin Unowned
  PROVE  i \in Shown(home[i])
  <1> DEFINE org == home[i]
  <1>1. i \in All(kind[i], org) /\ kind[i] \in Kinds \ Unowned
    BY DEF Inductive, TypeOK, All, Of, Owned
  <1>2. /\ All("team", org) \subseteq TeamFindAll(org)
        /\ All("project", org) \subseteq ProjectFindAll(org)
        /\ All("tag", org) \subseteq TagFindAll(org)
        /\ All("deal", org) \subseteq DealFindAll(org)
        /\ All("customer", org) \subseteq CustomerFindAll(org)
        /\ All("invoice", org) \subseteq InvoiceFindAll(org)
        /\ All("supplier", org) \subseteq SupplierFindAll(org)
        /\ All("order", org) \subseteq OrderFindAll(org)
        /\ All("product", org) \subseteq ProductFindAll(org)
        /\ All("event", org) \subseteq EventFindAll(org)
        /\ All("file", org) \subseteq FindRecent(org)
    BY DEF TeamFindAll, ProjectFindAll, TagFindAll, DealFindAll, CustomerFindAll, InvoiceFindAll,
           SupplierFindAll, OrderFindAll, ProductFindAll, EventFindAll, FindRecent
  <1>3. {TeamFindAll(org), ProjectFindAll(org), TagFindAll(org), DealFindAll(org),
         CustomerFindAll(org), InvoiceFindAll(org), SupplierFindAll(org), OrderFindAll(org),
         ProductFindAll(org), EventFindAll(org), FindRecent(org)} \subseteq Lists(org)
    BY DEF Lists
  <1>4. kind[i] \in {"team", "project", "tag", "deal", "customer", "invoice", "supplier", "order",
                     "product", "event", "file"}
    BY <1>1 DEF Kinds, Unowned
  <1> HIDE DEF org
  <1>5. \E list \in Lists(org) : i \in list
    BY <1>1, <1>2, <1>3, <1>4
  <1> QED BY <1>5, ListIsShown DEF org

\* Every live row is shown to its organization by some route, but for those the
\* deletion of a task or project has left without one, and what hangs on them:
\* for any rows, and however the requests that write them interleave.
THEOREM WorkRowsAreShown == Spec => []RowsAreShown
  <1>1. ASSUME Inductive, Regularity PROVE RowsAreShown
    <2> SUFFICES ASSUME NEW org \in Orgs, NEW i \in Findable(org) PROVE i \in Shown(org)
      BY DEF RowsAreShown
    <2>0. /\ i \in Rows /\ Live(i) /\ home[i] = org /\ kind[i] \notin {"taskTag", "projectTag"}
          /\ i \notin lost /\ ref[i]["task"] \notin lost
      BY DEF Findable
    <2> USE <2>0
    <2>1. CASE kind[i] = "task"
      <3>1. i \in TaskFindAll(org)
        BY <1>1, <2>1, TaskIsFound DEF TaskFindAll, AllTasks, Of
      <3> QED BY <3>1, ListIsShown DEF Lists
    <2>2. CASE kind[i] = "comment"
      <3>1. Hangs(ref[i])
        BY <1>1, <2>2 DEF Inductive, CommentsHang
      <3>2. PICK c \in {"task", "project"} : ref[i][c] \in Of(c) /\ InOrg(ref[i][c], org)
        BY <1>1, <2>2, <3>1, HangingIsFound
      <3>3. i \in CommentsBy(c, ref[i][c], org)
        BY <2>2, <3>2 DEF CommentsBy, Naming, One, Of
      <3>4. ref[i][c] \in Rows /\ CommentsBy(c, ref[i][c], org) \in Details(ref[i][c], org)
        BY <3>2 DEF Details, Of
      <3> QED BY <3>3, <3>4 DEF Shown
    <2>3. CASE kind[i] = "entry"
      <3>1. Hangs(ref[i])
        BY <1>1, <2>3 DEF Regularity, RowsKept, RowsRegular, Attached
      <3>2. PICK c \in {"task", "project"} : ref[i][c] \in Of(c) /\ InOrg(ref[i][c], org)
        BY <1>1, <2>3, <3>1, HangingIsFound
      <3>3. EntryIn(i, org)
        BY <3>2 DEF EntryIn, InOrg, Of
      <3>4. i \in EntriesByUser(org)
        BY <2>3, <3>3 DEF EntriesByUser, AllEntries, Of
      <3> QED BY <3>4, ListIsShown DEF Lists
    <2>4. CASE kind[i] = "milestone"
      <3>1. ref[i]["deal"] # None
        BY <1>1, <2>4 DEF Regularity, RowsKept, RowsRegular, Attached
      <3>2. ref[i]["deal"] \in All("deal", org)
        BY <1>1, <2>4, <3>1, NamedIsOwned DEF All, Columns
      <3>3. i \in DealFindAll(org)
        BY <2>4, <3>2 DEF DealFindAll, Naming, Of
      <3> QED BY <3>3, ListIsShown DEF Lists
    <2>5. CASE kind[i] \notin Unowned
      BY <1>1, <2>5, OwnedIsShown
    <2> QED BY <2>1, <2>2, <2>3, <2>4, <2>5 DEF Unowned
  <1> QED BY <1>1, WorkInductive, WorkRegularity, PTL
===============================================================================
