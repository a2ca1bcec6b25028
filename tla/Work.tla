-------------------------------- MODULE Work ---------------------------------
(***************************************************************************)
(* The records a workspace works on, and the handlers that write them:     *)
(* projects, tasks, comments, tags, time entries, deals with milestones,   *)
(* customers, invoices, suppliers, orders, products, events, files         *)
(* (apps/api/src: the services of these names; prisma/schema.prisma).      *)
(*                                                                         *)
(* A handler looks up the rows its request names, one query after another, *)
(* each under the organization of the token, and then writes by id alone.  *)
(* Between two queries any other request may write.  What is left out of a *)
(* row (names, dates, states) no handler reads to decide anything.         *)
(***************************************************************************)
EXTENDS Naturals, Sequences, FiniteSets

CONSTANTS Orgs, Slots,
          Numbers,   \* bound: quantities and prices
          AskedPlaces,  \* bound: places in the order of milestones a client asks for
          Scenes,    \* bound: the rows a behaviour may be about
          None

Kinds == {"team", "project", "task", "comment", "tag", "taskTag", "projectTag", "entry",
          "deal", "milestone", "customer", "invoice", "supplier", "order", "product",
          "event", "file"}

\* Columns that name another row; each is called after the kind it names.
Columns == {"team", "project", "task", "tag", "deal", "customer", "supplier"}

ASSUME WorkAssumption ==
    /\ Numbers \subseteq Nat /\ AskedPlaces \subseteq Nat
    /\ \A sc \in Scenes : /\ sc.kind \in [DOMAIN sc.kind -> Kinds]
                          /\ sc.home \in [DOMAIN sc.kind -> Orgs]
                          /\ None \notin DOMAIN sc.kind

VARIABLES
    \* An id is given to one row ever, so these do not change: the kind of the
    \* row it is for and the organization the row is created in.
    kind, home,
    st, ref,  \* st[i]: is row i there; ref[i]: what its columns name
    amount,   \* amount[i]: quantity, unit price and total of order i
    rank,     \* rank[i]: DealMilestone.sortOrder
    disk,     \* uploaded files that are in the upload directory
    reqs,     \* the requests under way
    last,     \* history: the rows the last step wrote, and for which organization
    lost,     \* history: rows whose task or project was deleted
    cut,      \* history: files whose deletion a restart cut off
    wiped,    \* history: files that were in the upload directory of a former container
    raced,    \* history: milestones numbered while another was being added
    placed,   \* history: milestones whose place a client has chosen
    crossed   \* history: rows created under a task and a project of another organization

ids == <<kind, home>>
rows == <<st, ref, amount, rank>>
history == <<lost, cut, wiped, raced, placed, crossed>>
vars == <<kind, home, st, ref, amount, rank, disk, reqs, last,
          lost, cut, wiped, raced, placed, crossed>>

------------------------------------------------------------------------------
\* The schema.

Cascades == {<<"comment", "task">>, <<"comment", "project">>, <<"taskTag", "task">>,
             <<"taskTag", "tag">>, <<"projectTag", "project">>, <<"projectTag", "tag">>,
             <<"milestone", "deal">>, <<"invoice", "customer">>}

SetNulls == {<<"project", "team">>, <<"project", "deal">>, <<"task", "project">>,
             <<"entry", "task">>, <<"entry", "project">>, <<"deal", "customer">>,
             <<"order", "supplier">>}

\* The columns of a file have no foreign key.
OnDelete(k, c) == CASE <<k, c>> \in Cascades -> "Cascade"
                    [] <<k, c>> \in SetNulls -> "SetNull"
                    [] OTHER -> "none"

\* The kinds without a column for their organization.
Unowned == {"task", "comment", "taskTag", "projectTag", "entry", "milestone"}

Rows == DOMAIN kind
Of(k) == {i \in Rows : kind[i] = k}
Live(i) == st[i] = "live"

NoRef == [c \in Columns |-> None]
Link(c, x) == [NoRef EXCEPT ![c] = x]
Refs == [Columns -> Rows \union {None}]

NoAmount == [qty |-> 0, price |-> 0, total |-> 0]
NoWrite == [ids |-> {}, org |-> None]

------------------------------------------------------------------------------
\* What the queries find.
Owned(i, org) == i # None /\ Live(i) /\ home[i] = org

\* where: { id, project: { organizationId } }
TaskIn(i, org) == i # None /\ Live(i) /\ Owned(ref[i]["project"], org)

\* A time entry is found through its task or its project.
EntryIn(i, org) ==
    Live(i) /\ (TaskIn(ref[i]["task"], org) \/ Owned(ref[i]["project"], org))

InOrg(i, org) == CASE kind[i] = "task"  -> TaskIn(i, org)
                   [] kind[i] = "entry" -> EntryIn(i, org)
                   [] OTHER               -> Owned(i, org)

\* What is still to be done before the write: a column stands for the query for
\* the row it is to name, "self" for the query for the row itself.
Looks == Columns \union {"self", "linked", "max", "unlink"}

\* A comment is read by its id alone and a milestone within its deal; both are
\* traced to the organization by a query of their own.
Found(r, look) ==
    CASE look \in {"max", "unlink"} -> FALSE
      [] look = "self" /\ kind[r.id] = "comment" -> Live(r.id)
      [] look = "self" /\ kind[r.id] = "milestone" ->
            Live(r.id) /\ ref[r.id]["deal"] = r.new["deal"]
      [] look = "self" /\ kind[r.id] \notin {"comment", "milestone"} -> InOrg(r.id, r.org)
      [] look = "linked" -> Owned(r.id, r.org) /\ ref[r.id]["deal"] = r.new["deal"]
      [] look = "task" -> TaskIn(r.new["task"], r.org)
      [] OTHER -> Owned(r.new[look], r.org)

------------------------------------------------------------------------------
\* Requests.
Idle == [act |-> "idle"]
Acts == {"create", "update", "detach", "remove", "untag", "bulk"}
Fields == Columns \union {"qty", "price", "rank"}
Requests == [act : Acts, id : Rows \union {None}, org : Orgs, new : Refs,
             sets : SUBSET Fields, todo : Seq(Looks), qty : Nat, price : Nat, rank : Nat]

Request(act, id, org, new, sets, todo) ==
    [act |-> act, id |-> id, org |-> org, new |-> new, sets |-> sets, todo |-> todo,
     qty |-> 0, price |-> 0, rank |-> 0]

Passed(r) == [r EXCEPT !.todo = Tail(@)]
Done(s) == reqs' = [reqs EXCEPT ![s] = Idle]
At(s, look) == reqs[s] # Idle /\ reqs[s].todo # <<>> /\ Head(reqs[s].todo) = look
Writes(s, act) == reqs[s] # Idle /\ reqs[s].todo = <<>> /\ reqs[s].act = act

\* An id no row and no file has and no other request is about to use.
Fresh(k, org) ==
    {i \in Of(k) : /\ st[i] = "none" /\ home[i] = org /\ i \notin disk
                      /\ \A s \in Slots : reqs[s] # Idle => reqs[s].id # i}

\* A request arrives and its first query finds what it asks for; if it does
\* not, the request is refused and nothing has happened.
Start(r) ==
    /\ Found(r, Head(r.todo))
    /\ \E s \in Slots : reqs[s] = Idle /\ reqs' = [reqs EXCEPT ![s] = Passed(r)]
    /\ last' = NoWrite
    /\ UNCHANGED <<ids, rows, disk, history>>

\* The query for a column that is only made when the request names a row for it.
Given(new, c) == IF new[c] = None THEN <<>> ELSE <<c>>

------------------------------------------------------------------------------
\* The handlers: what each looks up, in its order, and what it writes.

\* A row of its own, with no query before.
Insert(k, org) ==
    \E i \in Fresh(k, org) :
       /\ st' = [st EXCEPT ![i] = "live"]
       /\ last' = [ids |-> {i}, org |-> org]
       /\ UNCHANGED <<ids, ref, amount, rank, disk, reqs, history>>

Create(k, org, new, todo) ==
    \E i \in Fresh(k, org) : Start(Request("create", i, org, new, Columns, todo))

Change(k, org) ==
    \E i \in Of(k) : Start(Request("update", i, org, NoRef, {}, <<"self">>))

Remove(k, org) ==
    \E i \in Of(k) : Start(Request("remove", i, org, NoRef, {}, <<"self">>))

\* Projects.
ProjectCreate(org) ==
    \E team \in Of("team") \union {None}, deal \in Of("deal") \union {None} :
       LET new == [Link("team", team) EXCEPT !["deal"] = deal] IN
       IF new = NoRef THEN Insert("project", org)
       ELSE Create("project", org, new, Given(new, "team") \o Given(new, "deal"))

\* MUTANT: the deal is not looked up.
BugProjectUpdate(org) ==
    \E i \in Of("project"), deal \in Of("deal") \union {None} :
       Start(Request("update", i, org, Link("deal", deal), {"deal"}, <<"self">>))

ProjectUpdate(org) ==
    \E i \in Of("project"), sets \in SUBSET {"team", "deal"},
       team \in Of("team") \union {None}, deal \in Of("deal") \union {None} :
       LET new == [Link("team", team) EXCEPT !["deal"] = deal] IN
       /\ \A c \in {"team", "deal"} \ sets : new[c] = None
       /\ Start(Request("update", i, org, new, sets,
                        <<"self">> \o Given(new, "team") \o Given(new, "deal")))

ProjectRemove(org) == Remove("project", org)

\* Tasks: the one kind that must name a project.
TaskCreate(org) ==
    \E p \in Of("project") : Create("task", org, Link("project", p), <<"project">>)

\* MUTANT: a task may be taken out of its project.
BugTaskUpdate(org) ==
    \E i \in Of("task"), p \in Of("project") \union {None} :
       LET new == Link("project", p) IN
       Start(Request("update", i, org, new, {"project"}, <<"self">> \o Given(new, "project")))

\* MUTANT: the project a task is moved to is not looked up.
BugTaskMove(org) ==
    \E i \in Of("task"), p \in Of("project") :
       Start(Request("update", i, org, Link("project", p), {"project"}, <<"self">>))

TaskUpdate(org) ==
    \/ Change("task", org)
    \/ \E i \in Of("task"), p \in Of("project") :
          Start(Request("update", i, org, Link("project", p), {"project"},
                        <<"self", "project">>))

TaskRemove(org) == Remove("task", org)

\* The reminder asked for by hand stamps the task it found.
NudgeAssignee(org) == Change("task", org)

\* Comments, time entries and files name a task, a project or both; where they
\* name both, only the task is looked up and both are written.
Parents ==
    {[Link("task", t) EXCEPT !["project"] = p] :
        t \in Of("task") \union {None}, p \in Of("project") \union {None}} \ {NoRef}

FirstParent(new) == IF new["task"] # None THEN <<"task">> ELSE <<"project">>

CommentCreate(org) ==
    \E new \in Parents : Create("comment", org, new, FirstParent(new))

CommentDelete(org) ==
    \E i \in Of("comment") :
       LET new == IF ref[i]["task"] # None THEN Link("task", ref[i]["task"])
                  ELSE Link("project", ref[i]["project"]) IN
       Start(Request("remove", i, org, new, {},
                     <<"self">> \o Given(new, "task") \o Given(new, "project")))

EntryCreate(org) ==
    \E new \in Parents : Create("entry", org, new, FirstParent(new))

EntryUpdate(org) == Change("entry", org)
EntryDelete(org) == Remove("entry", org)

\* Tags.
TagCreate(org) == Insert("tag", org)
TagDelete(org) == Remove("tag", org)

AddTo(k, c, org) ==
    \E x \in Of(c), tag \in Of("tag") :
       Create(k, org, [Link(c, x) EXCEPT !["tag"] = tag], <<c, "tag">>)

AddToTask(org) == AddTo("taskTag", "task", org)
AddToProject(org) == AddTo("projectTag", "project", org)

\* Only the task or project is looked up.
RemoveFrom(c, org) ==
    \E x \in Of(c), tag \in Of("tag") :
       Start(Request("untag", None, org, [Link(c, x) EXCEPT !["tag"] = tag], {}, <<c>>))

RemoveFromTask(org) == RemoveFrom("task", org)
RemoveFromProject(org) == RemoveFrom("project", org)

\* Deals and their milestones.
DealCreate(org) ==
    \/ Insert("deal", org)
    \/ \E x \in Of("customer") : Create("deal", org, Link("customer", x), <<"customer">>)

DealUpdate(org) ==
    \/ Change("deal", org)
    \/ \E i \in Of("deal"), x \in Of("customer") \union {None} :
          LET new == Link("customer", x) IN
          Start(Request("update", i, org, new, {"customer"},
                        <<"self">> \o Given(new, "customer")))

DealRemove(org) == Remove("deal", org)

\* The place the client asks for, which need not be free.
Placed(r, n) == [r EXCEPT !.rank = n, !.sets = @ \union {"rank"}]
StartPlacedOrNot(r) == Start(r) \/ \E n \in AskedPlaces : Start(Placed(r, n))

AddMilestone(org) ==
    \E d \in Of("deal"), i \in Fresh("milestone", org) :
       StartPlacedOrNot(Request("create", i, org, Link("deal", d), Columns, <<"deal", "max">>))

UpdateMilestone(org) ==
    \E d \in Of("deal"), i \in Of("milestone") :
       StartPlacedOrNot(Request("update", i, org, Link("deal", d), {}, <<"deal", "self">>))

RemoveMilestone(org) ==
    \E d \in Of("deal"), i \in Of("milestone") :
       Start(Request("remove", i, org, Link("deal", d), {}, <<"deal", "self">>))

LinkProject(org) ==
    \E d \in Of("deal"), i \in Of("project") :
       Start(Request("update", i, org, Link("deal", d), {"deal"}, <<"deal", "self">>))

\* Writes null whatever the project is linked to by then.
UnlinkProject(org) ==
    \E d \in Of("deal"), i \in Of("project") :
       Start(Request("detach", i, org, Link("deal", d), {"deal"}, <<"deal", "linked">>))

\* Customers, invoices, suppliers, products, events.
TeamCreate(org) == Insert("team", org)
CustomerCreate(org) == Insert("customer", org)
CustomerUpdate(org) == Change("customer", org)
CustomerRemove(org) == Remove("customer", org)

InvoiceCreate(org) ==
    \E x \in Of("customer") :
       Create("invoice", org, Link("customer", x), <<"customer">>)

InvoiceUpdate(org) == Change("invoice", org)
InvoiceRemove(org) == Remove("invoice", org)

SupplierCreate(org) == Insert("supplier", org)
SupplierUpdate(org) == Change("supplier", org)
SupplierRemove(org) == Remove("supplier", org)
ProductCreate(org) == Insert("product", org)
ProductUpdate(org) == Change("product", org)
ProductRemove(org) == Remove("product", org)
EventCreate(org) == Insert("event", org)
EventUpdate(org) == Change("event", org)
EventRemove(org) == Remove("event", org)

\* Orders: the new total is computed from what is asked for and what was read.
Priced(r, qty, price) == [r EXCEPT !.qty = qty, !.price = price]

OrderCreate(org) ==
    \E i \in Fresh("order", org), x \in Of("supplier") \union {None},
       qty \in Numbers, price \in Numbers :
       IF x = None
       THEN /\ st' = [st EXCEPT ![i] = "live"]
            /\ amount' = [amount EXCEPT ![i] = [qty |-> qty, price |-> price,
                                                total |-> qty * price]]
            /\ last' = [ids |-> {i}, org |-> org]
            /\ UNCHANGED <<ids, ref, rank, disk, reqs, history>>
       ELSE Start(Priced(Request("create", i, org, Link("supplier", x), Columns, <<"supplier">>),
                         qty, price))

OrderUpdate(org) ==
    \E i \in Of("order"), sets \in {{"qty"}, {"price"}, {"qty", "price"}},
       qty \in Numbers, price \in Numbers :
       /\ "qty" \notin sets => qty = amount[i].qty
       /\ "price" \notin sets => price = amount[i].price
       /\ Start(Priced(Request("update", i, org, NoRef, sets, <<"self">>), qty, price))

OrderRemove(org) == Remove("order", org)

\* MUTANT: the interceptor keeps the file in memory.
BugFileUpload(org) ==
    \E new \in Parents : Create("file", org, new, FirstParent(new))

\* Files: the interceptor has stored the file before the handler runs.
FileUpload(org) ==
    \E i \in Fresh("file", org), new \in Parents :
       /\ \E s \in Slots :
             /\ reqs[s] = Idle
             /\ reqs' = [reqs EXCEPT ![s] =
                           Request("create", i, org, new, Columns, FirstParent(new))]
       /\ disk' = disk \union {i}
       /\ last' = NoWrite
       /\ UNCHANGED <<ids, rows, history>>

FileDelete(org) ==
    \E i \in Of("file") :
       Start(Request("remove", i, org, NoRef, {}, <<"self", "unlink">>))

------------------------------------------------------------------------------
\* The further steps of a request.
Look(s) ==
    /\ reqs[s] # Idle /\ reqs[s].todo # <<>>
    /\ Found(reqs[s], Head(reqs[s].todo))
    /\ reqs' = [reqs EXCEPT ![s] = Passed(@)]
    /\ last' = NoWrite
    /\ UNCHANGED <<ids, rows, disk, history>>

\* 404; the file of a refused upload stays on disk.
Refuse(s) ==
    /\ reqs[s] # Idle /\ reqs[s].todo # <<>>
    /\ Head(reqs[s].todo) \notin {"max", "unlink"}
    /\ ~Found(reqs[s], Head(reqs[s].todo))
    /\ Done(s)
    /\ last' = NoWrite
    /\ UNCHANGED <<ids, rows, disk, history>>

MilestonesOf(d) == {i \in Of("milestone") : Live(i) /\ ref[i]["deal"] = d}

\* MUTANT: a new milestone comes first.
BugFirstRank(d) ==
    {n \in {0} \union {rank[i] - 1 : i \in MilestonesOf(d)} :
        \A i \in MilestonesOf(d) : rank[i] > n}

\* MUTANT: milestones are counted.
BugCountedRank(d) == {Cardinality(MilestonesOf(d))}

\* The highest sortOrder of the deal and one more, 0 for the first.
NextRanks(d) ==
    {n \in {0} \union {rank[i] + 1 : i \in MilestonesOf(d)} :
        \A i \in MilestonesOf(d) : rank[i] < n}

\* It is read in any case, and the client's place taken before it.
Places(r) == IF "rank" \in r.sets THEN {r.rank} ELSE NextRanks(r.new["deal"])

ReadMaxOrder(s) ==
    /\ At(s, "max")
    /\ \E n \in Places(reqs[s]) :
          reqs' = [reqs EXCEPT ![s] = [Passed(@) EXCEPT !.rank = n]]
    /\ last' = NoWrite
    /\ UNCHANGED <<ids, rows, disk, history>>

\* Whatever unlink reports, the row is deleted next.
UnlinkFile(s) ==
    /\ At(s, "unlink")
    /\ disk' = disk \ {reqs[s].id}
    /\ reqs' = [reqs EXCEPT ![s] = Passed(@)]
    /\ last' = NoWrite
    /\ UNCHANGED <<ids, rows, history>>

\* The foreign keys hold for the values to be written; no tag is put on the
\* same row twice.
\* MUTANT: a database that does not enforce the keys of tasks.
BugKeysHold(k, cols, new) ==
    \A c \in cols : (k # "task" /\ OnDelete(k, c) # "none" /\ new[c] # None) => Live(new[c])

KeysHold(k, cols, new) ==
    \A c \in cols : (OnDelete(k, c) # "none" /\ new[c] # None) => Live(new[c])

Tagged(k, new) ==
    /\ k \in {"taskTag", "projectTag"}
    /\ \E i \in Of(k) : Live(i) /\ ref[i] = new

\* The other additions to the same deal that have read the highest sortOrder.
AlsoAdding(s) ==
    {reqs[q].id : q \in {q \in Slots \ {s} :
        /\ Writes(q, "create") /\ kind[reqs[q].id] = "milestone"
        /\ reqs[q].new["deal"] = reqs[s].new["deal"]}}

\* The project, which nobody looked up, is of another organization.
Crosses(r) ==
    r.new["task"] # None /\ r.new["project"] # None /\ home[r.new["project"]] # r.org

WriteCreate(s) ==
    /\ Writes(s, "create")
    /\ LET r == reqs[s] IN
       /\ KeysHold(kind[r.id], Columns, r.new)
       /\ ~Tagged(kind[r.id], r.new)
       /\ st' = [st EXCEPT ![r.id] = "live"]
       /\ ref' = [ref EXCEPT ![r.id] = r.new]
       /\ amount' = [amount EXCEPT ![r.id] = [qty |-> r.qty, price |-> r.price,
                                              total |-> r.qty * r.price]]
       /\ rank' = [rank EXCEPT ![r.id] = r.rank]
       /\ raced' = IF kind[r.id] = "milestone" /\ "rank" \notin r.sets
                   THEN raced \union AlsoAdding(s) ELSE raced
       /\ placed' = IF "rank" \in r.sets THEN placed \union {r.id} ELSE placed
       /\ crossed' = IF Crosses(r) THEN crossed \union {r.id} ELSE crossed
       /\ last' = [ids |-> {r.id}, org |-> r.org]
    /\ Done(s)
    /\ UNCHANGED <<ids, disk, lost, cut, wiped>>

\* MUTANT: only what was asked for is written, and the total.
BugRepriced(r) ==
    IF kind[r.id] = "order"
    THEN [qty |-> IF "qty" \in r.sets THEN r.qty ELSE amount[r.id].qty,
          price |-> IF "price" \in r.sets THEN r.price ELSE amount[r.id].price,
          total |-> r.qty * r.price]
    ELSE amount[r.id]

\* An order is written with quantity, price and total, whatever was asked for.
Repriced(r) == IF kind[r.id] = "order"
               THEN [qty |-> r.qty, price |-> r.price, total |-> r.qty * r.price]
               ELSE amount[r.id]

WriteUpdate(s) ==
    /\ Writes(s, "update")
    /\ LET r == reqs[s] IN
       /\ Live(r.id)
       /\ KeysHold(kind[r.id], r.sets, r.new)
       /\ ref' = [ref EXCEPT ![r.id] = [c \in Columns |-> IF c \in r.sets THEN r.new[c]
                                                          ELSE ref[r.id][c]]]
       /\ amount' = [amount EXCEPT ![r.id] = Repriced(r)]
       /\ rank' = IF "rank" \in r.sets THEN [rank EXCEPT ![r.id] = r.rank] ELSE rank
       /\ placed' = IF "rank" \in r.sets THEN placed \union {r.id} ELSE placed
       /\ last' = [ids |-> {r.id}, org |-> r.org]
    /\ Done(s)
    /\ UNCHANGED <<ids, st, disk, lost, cut, wiped, raced, crossed>>

WriteDetach(s) ==
    /\ Writes(s, "detach")
    /\ Live(reqs[s].id)
    /\ ref' = [ref EXCEPT ![reqs[s].id] = [@ EXCEPT !["deal"] = None]]
    /\ last' = [ids |-> {reqs[s].id}, org |-> reqs[s].org]
    /\ Done(s)
    /\ UNCHANGED <<ids, st, amount, rank, disk, history>>

\* Rows are deleted: the database deletes what cascades from them and clears
\* the columns that named them.
Named(i, c, gone) == Live(i) /\ ref[i][c] \in gone
Falls(i, gone) == \E c \in Columns : Named(i, c, gone) /\ OnDelete(kind[i], c) = "Cascade"
Loses(i, c, gone) == Named(i, c, gone) /\ OnDelete(kind[i], c) = "SetNull"

Delete(gone, org) ==
    LET fallen == gone \union {i \in Rows : Falls(i, gone)}
        losing == {i \in Rows : \E c \in Columns : Loses(i, c, gone)} IN
    /\ st' = [i \in Rows |-> IF i \in fallen THEN "gone" ELSE st[i]]
    /\ ref' = [i \in Rows |-> [c \in Columns |-> IF Loses(i, c, gone) THEN None
                                                ELSE ref[i][c]]]
    /\ lost' = lost \union {i \in Rows : \E c \in {"task", "project"} : Loses(i, c, gone)}
    /\ last' = [ids |-> fallen \union losing, org |-> org]
    /\ UNCHANGED <<ids, amount, rank, disk, cut, wiped, raced, placed, crossed>>

WriteRemove(s) ==
    /\ Writes(s, "remove")
    /\ Live(reqs[s].id)
    /\ Delete({reqs[s].id}, reqs[s].org)
    /\ Done(s)

WriteUntag(s) ==
    /\ Writes(s, "untag")
    /\ Delete({i \in Rows : /\ kind[i] \in {"taskTag", "projectTag"}
                             /\ Live(i) /\ ref[i] = reqs[s].new}, reqs[s].org)
    /\ Done(s)

\* Of the tasks asked for, those move that are the organization's by now.
WriteBulk(s) ==
    /\ Writes(s, "bulk")
    /\ \E asked \in (SUBSET Of("task")) \ {{}} :
          LET r == reqs[s]
              moved == {i \in asked : TaskIn(i, r.org)} IN
          /\ moved # {} => KeysHold("task", r.sets, r.new)
          /\ ref' = [i \in Rows |-> IF i \in moved
                                    THEN [ref[i] EXCEPT !["project"] = r.new["project"]]
                                    ELSE ref[i]]
          /\ last' = [ids |-> moved, org |-> r.org]
    /\ Done(s)
    /\ UNCHANGED <<ids, st, amount, rank, disk, history>>

\* The row to be written is gone, a row it is to name is, or the tag is there.
WriteFails(s) ==
    /\ reqs[s] # Idle /\ reqs[s].todo = <<>>
    /\ LET r == reqs[s] IN
       \/ r.act = "create" /\ (\/ ~KeysHold(kind[r.id], Columns, r.new)
                               \/ Tagged(kind[r.id], r.new))
       \/ r.act = "update" /\ (~Live(r.id) \/ ~KeysHold(kind[r.id], r.sets, r.new))
       \/ r.act = "bulk" /\ ~KeysHold("task", r.sets, r.new)
       \/ r.act \in {"detach", "remove"} /\ ~Live(r.id)
    /\ Done(s)
    /\ last' = NoWrite
    /\ UNCHANGED <<ids, rows, disk, history>>

------------------------------------------------------------------------------
\* One statement, scoped to the organization when it is executed, after the
\* project has been looked up if the tasks are to move to one.
BulkUpdate(org) ==
    \/ \E p \in Of("project") :
          Start(Request("bulk", None, org, Link("project", p), {"project"}, <<"project">>))
    \/ \E asked \in (SUBSET Of("task")) \ {{}} :
          /\ last' = [ids |-> {i \in asked : TaskIn(i, org)}, org |-> org]
          /\ UNCHANGED <<ids, rows, disk, reqs, history>>

BulkDelete(org) ==
    \E asked \in (SUBSET Of("task")) \ {{}} :
       /\ Delete({i \in asked : TaskIn(i, org)}, org)
       /\ UNCHANGED reqs

\* The server stops and starts again: what was under way is not taken up.
Stop ==
    /\ reqs' = [s \in Slots |-> Idle]
    /\ cut' = cut \union {reqs[s].id : s \in {s \in Slots : /\ Writes(s, "remove")
                                                            /\ kind[reqs[s].id] = "file"}}
    /\ last' = NoWrite
    /\ UNCHANGED <<ids, rows, lost, raced, placed, crossed>>

\* In the same container, as after a crash (restart: unless-stopped).
Restart ==
    /\ \E s \in Slots : reqs[s] # Idle
    /\ Stop
    /\ UNCHANGED <<disk, wiped>>

\* In a container of its own (up -d --build): of the old one only /data is kept,
\* and the upload directory is in the working directory.
Redeploy ==
    /\ (\E s \in Slots : reqs[s] # Idle) \/ disk # {}
    /\ Stop
    /\ disk' = {}
    /\ wiped' = wiped \union disk

------------------------------------------------------------------------------
Init ==
    /\ \E sc \in Scenes : kind = sc.kind /\ home = sc.home
    /\ st = [i \in Rows |-> "none"]
    /\ ref = [i \in Rows |-> NoRef]
    /\ amount = [i \in Rows |-> NoAmount]
    /\ rank = [i \in Rows |-> 0]
    /\ disk = {}
    /\ reqs = [s \in Slots |-> Idle]
    /\ last = NoWrite
    /\ lost = {} /\ cut = {} /\ wiped = {}
    /\ raced = {} /\ placed = {} /\ crossed = {}

\* The routes of the controllers, all behind JwtAuthGuard and OrgGuard.
Projects(org) == ProjectCreate(org) \/ ProjectUpdate(org) \/ ProjectRemove(org)
Tasks(org) == \/ TaskCreate(org) \/ TaskUpdate(org) \/ TaskRemove(org)
              \/ NudgeAssignee(org) \/ BulkUpdate(org) \/ BulkDelete(org)
Comments(org) == CommentCreate(org) \/ CommentDelete(org)
TimeEntries(org) == EntryCreate(org) \/ EntryUpdate(org) \/ EntryDelete(org)
Tags(org) == \/ TagCreate(org) \/ TagDelete(org) \/ AddToTask(org) \/ AddToProject(org)
             \/ RemoveFromTask(org) \/ RemoveFromProject(org)
Uploads(org) == FileUpload(org) \/ FileDelete(org)
Deals(org) == \/ DealCreate(org) \/ DealUpdate(org) \/ DealRemove(org)
              \/ AddMilestone(org) \/ UpdateMilestone(org) \/ RemoveMilestone(org)
              \/ LinkProject(org) \/ UnlinkProject(org)
Customers(org) == CustomerCreate(org) \/ CustomerUpdate(org) \/ CustomerRemove(org)
Invoices(org) == InvoiceCreate(org) \/ InvoiceUpdate(org) \/ InvoiceRemove(org)
Suppliers(org) == SupplierCreate(org) \/ SupplierUpdate(org) \/ SupplierRemove(org)
Purchasing(org) == OrderCreate(org) \/ OrderUpdate(org) \/ OrderRemove(org)
Products(org) == ProductCreate(org) \/ ProductUpdate(org) \/ ProductRemove(org)
Calendar(org) == EventCreate(org) \/ EventUpdate(org) \/ EventRemove(org)

Route(org) ==
    \/ Projects(org) \/ Tasks(org) \/ Comments(org) \/ TimeEntries(org) \/ Tags(org)
    \/ Uploads(org) \/ Deals(org) \/ Customers(org) \/ Invoices(org) \/ Suppliers(org)
    \/ Purchasing(org) \/ Products(org) \/ Calendar(org) \/ TeamCreate(org)

Writing(s) ==
    \/ WriteCreate(s) \/ WriteUpdate(s) \/ WriteDetach(s) \/ WriteRemove(s)
    \/ WriteUntag(s) \/ WriteBulk(s) \/ WriteFails(s)

\* A request is taken up while fewer than Slots are under way.
Next ==
    \/ /\ \E s \in Slots : reqs[s] = Idle
       /\ \E org \in Orgs : Route(org)
    \/ \E s \in Slots : \/ Look(s) \/ Refuse(s) \/ ReadMaxOrder(s) \/ UnlinkFile(s)
                        \/ Writing(s)
    \/ Restart \/ Redeploy

Spec == Init /\ [][Next]_vars

------------------------------------------------------------------------------
\* Every variable has the values its column, queue or store can hold.
TypeOK ==
    /\ kind \in [Rows -> Kinds] /\ home \in [Rows -> Orgs] /\ None \notin Rows
    /\ st \in [Rows -> {"none", "live", "gone"}]
    /\ ref \in [Rows -> Refs]
    /\ amount \in [Rows -> [qty : Nat, price : Nat, total : Nat]]
    /\ rank \in [Rows -> Nat]
    /\ disk \subseteq Rows
    /\ reqs \in [Slots -> Requests \union {Idle}]
    /\ last \in [ids : SUBSET Rows, org : Orgs \union {None}]
    /\ lost \subseteq Rows /\ cut \subseteq Rows /\ wiped \subseteq Rows
    /\ raced \subseteq Rows /\ placed \subseteq Rows /\ crossed \subseteq Rows

\* No row names a row of another organization, though every reference is
\* checked queries before it is written and the row is then written by its id
\* alone (assert...InOrg in the services); but for the project of a comment, time
\* entry or file that was created with a task as well.
RefsStayInOrg ==
    \A i \in Rows, c \in Columns :
       ref[i][c] # None => home[ref[i][c]] = home[i] \/ (c = "project" /\ i \in crossed)

\* What a request writes, deletes or makes the database delete or clear belongs
\* to the organization of its token, but for such comments and time entries: they
\* fall or lose their project with it, and the time entry is found through it.
WritesStayInOrg == \A i \in last.ids : home[i] = last.org \/ i \in crossed

\* The handlers, interleaved as they may be, give each organization records of
\* its own: every step, cascades included, is a step of Tenants, if the rows that
\* name a project of another organization are taken for no one's.
StoreOf(org) ==
    [i \in {i \in Rows : home[i] = org /\ i \notin crossed} |->
        [st |-> st[i], ref |-> ref[i], amount |-> amount[i], rank |-> rank[i]]]
Apart == INSTANCE Tenants WITH data <- [org \in Orgs |-> StoreOf(org)]
OrgsStayApart == Apart!Spec

\* No row names a deleted row, though it may be deleted between the query that
\* found it and the write, or is never looked up at all (the foreign keys of
\* schema.prisma); the columns of a file have no key.
RefsAreLive ==
    \A i \in Rows, c \in Columns :
       (Live(i) /\ ref[i][c] # None /\ kind[i] # "file") => Live(ref[i][c])

\* A file that is listed is in the upload directory, unless its deletion is
\* under way or was cut off by a restart (upload.service.ts deletes the file
\* first and the row after it), or a redeploy has left the directory behind
\* (upload.module.ts:10; docker-compose.deploy.yml:25 keeps /data only).
ListedFilesExist ==
    \A i \in Of("file") : Live(i) => \/ i \in disk \union cut \union wiped
                                     \/ \E s \in Slots : Writes(s, "remove") /\ reqs[s].id = i

\* The total of an order is its quantity times its price, though it is computed
\* from a row that another request may change before it is written.
TotalsFit == \A i \in Of("order") : Live(i) => amount[i].total = amount[i].qty * amount[i].price

\* Two milestones of a deal have the same place in its order only if a client
\* asked for the place of one, or the one was numbered while the other was being
\* added: no deletion, move or crossing update brings two others together.
MilestonesInOrder ==
    \A i, j \in Of("milestone") :
       (/\ i # j /\ Live(i) /\ Live(j) /\ ref[i]["deal"] = ref[j]["deal"]
        /\ {i, j} \intersect (raced \union placed) = {}) => rank[i] # rank[j]
=============================================================================
