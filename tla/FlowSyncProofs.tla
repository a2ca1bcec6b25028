--------------------------- MODULE FlowSyncProofs ----------------------------
(* Proofs about FlowSync: its types, for any clients, organizations, flows,    *)
(* delays and requests in flight; and that the server ends up with what the    *)
(* browser holds, for one client whose requests do not overtake each other.    *)
EXTENDS FlowSync, TLAPS

-----------------------------------------------------------------------------
(* Types.  A timer of the PUT runs on an open page and has something to carry. *)
Typed ==
    /\ TypeOK
    /\ \A c \in Clients : page[c] = "away" => pushIn[c] = Off
    /\ \A c \in Clients : pushIn[c] # Off => payload[c] \in SUBSET Flows
    /\ \A s \in Slots : puts[s] # NoPut => puts[s].org \in Orgs

LEMMA ShowTypes ==
    ASSUME Typed, NEW c \in Clients, NEW next \in SUBSET Flows, NEW stays \in BOOLEAN,
           Show(c, next, stays)
    PROVE /\ view' \in [Clients -> SUBSET Flows]
          /\ editing' \in [Clients -> BOOLEAN]
          /\ persistIn' \in [Clients -> (0 .. PersistDelay) \cup {Off}]
  <1>1. PersistDelay \in 0 .. PersistDelay
    BY FlowSyncAssumption
  <1> QED BY <1>1 DEF Typed, TypeOK, Show

LEMMA CommitTypes ==
    ASSUME Typed, NEW c \in Clients, NEW next \in SUBSET Flows, NEW stays \in BOOLEAN,
           CommitOverlay(c, next, stays),
           home' \in [Flows -> Orgs \cup {Null}], missed' = missed
    PROVE Typed'
  <1>1. /\ view' \in [Clients -> SUBSET Flows] /\ editing' \in [Clients -> BOOLEAN]
        /\ persistIn' \in [Clients -> (0 .. PersistDelay) \cup {Off}]
    BY ShowTypes DEF CommitOverlay
  <1>2. UNCHANGED <<server, org, puts, answer, late>> /\ local' = [local EXCEPT ![c] = next]
    BY DEF CommitOverlay, net
  <1>3. CASE page[c] = "pulling"
    <2>1. UNCHANGED <<page, pushIn, payload>>
      BY <1>3 DEF CommitOverlay
    <2> QED BY <1>1, <1>2, <2>1 DEF Typed, TypeOK
  <1>4. CASE page[c] # "pulling"
    <2>1. /\ page' = [page EXCEPT ![c] = "ready"]
          /\ pushIn' = [pushIn EXCEPT ![c] = PushDelay]
          /\ payload' = [payload EXCEPT ![c] = next]
      BY <1>4 DEF CommitOverlay
    <2>2. PushDelay \in 0 .. PushDelay /\ next \in Workspaces
      BY FlowSyncAssumption DEF Workspaces
    <2>3. TypeOK'
      BY <1>1, <1>2, <2>1, <2>2 DEF Typed, TypeOK
    <2>4. \A d \in Clients : pushIn'[d] # Off => payload'[d] \in SUBSET Flows
      BY <2>1 DEF Typed, TypeOK
    <2>5. \A d \in Clients : page'[d] = "away" => pushIn'[d] = Off
      BY <2>1 DEF Typed, TypeOK
    <2> QED BY <1>2, <2>3, <2>4, <2>5 DEF Typed
  <1> QED BY <1>3, <1>4

LEMMA EditTypes ==
    ASSUME Typed, NEW c \in Clients, Edit(c) \/ PersistGraph(c)
    PROVE Typed'
  <1>1. view[c] \in SUBSET Flows /\ editing[c] \in BOOLEAN /\ org[c] \in Orgs
    BY DEF Typed, TypeOK
  <1>2. home \in [Flows -> Orgs \cup {Null}]
    BY DEF Typed, TypeOK
  <1>3. ASSUME NEW f \in Flows, AddFlow(c, f) PROVE Typed'
    <2>1. home' \in [Flows -> Orgs \cup {Null}] /\ missed' = missed
      BY <1>1, <1>2, <1>3 DEF AddFlow
    <2>2. view[c] \cup {f} \in SUBSET Flows /\ CommitOverlay(c, view[c] \cup {f}, TRUE)
      BY <1>1, <1>3 DEF AddFlow
    <2> QED BY <2>1, <2>2, CommitTypes
  <1>4. ASSUME NEW f \in Flows, DeleteFlow(c, f) PROVE Typed'
    <2>1. PICK stays \in {FALSE, editing[c]} : CommitOverlay(c, view[c] \ {f}, stays)
      BY <1>4 DEF DeleteFlow
    <2>2. view[c] \ {f} \in SUBSET Flows /\ stays \in BOOLEAN
      BY <1>1
    <2> QED BY <1>2, <1>4, <2>1, <2>2, CommitTypes DEF DeleteFlow, history
  <1>5. CASE UpdateFlowMeta(c)
    BY <1>1, <1>2, <1>5, CommitTypes DEF UpdateFlowMeta, history
  <1>6. CASE HideSeedFlow(c)
    <2>1. PICK stays \in BOOLEAN : CommitOverlay(c, view[c], stays)
      BY <1>6 DEF HideSeedFlow
    <2> QED BY <1>1, <1>2, <1>6, <2>1, CommitTypes DEF HideSeedFlow, history
  <1>7. CASE PersistGraph(c)
    BY <1>1, <1>2, <1>7, CommitTypes DEF PersistGraph, history
  <1> QED BY <1>3, <1>4, <1>5, <1>6, <1>7 DEF Edit

LEMMA VisitTypes ==
    ASSUME Typed, NEW c \in Clients, Visit(c)
    PROVE Typed'
  <1>1. view[c] \in SUBSET Flows /\ local[c] \in SUBSET Flows /\ editing[c] \in BOOLEAN
    BY DEF Typed, TypeOK
  <1>2. CASE Mount(c)
    <2>1. Null \in Workspaces
      BY DEF Workspaces
    <2>2. /\ page' = [page EXCEPT ![c] = "pulling"] /\ answer' = [answer EXCEPT ![c] = Off]
          /\ view' = [view EXCEPT ![c] = local[c]] /\ payload' = [payload EXCEPT ![c] = Null]
          /\ UNCHANGED <<server, org, puts, local, editing, persistIn, pushIn, late, home,
                         missed>>
      BY <1>2 DEF Mount, net, history
    <2>3. TypeOK'
      BY <1>1, <2>1, <2>2 DEF Typed, TypeOK
    <2>4. \A d \in Clients : pushIn'[d] # Off => payload'[d] \in SUBSET Flows
      BY <1>2, <2>2 DEF Typed, TypeOK, Mount
    <2> QED BY <2>2, <2>3, <2>4 DEF Typed
  <1>3. CASE GetWorkspace(c)
    BY <1>3 DEF GetWorkspace, Typed, TypeOK, net, history
  <1>4. ASSUME NEW fails \in BOOLEAN, PullDone(c, fails) PROVE Typed'
    <2>1. UNCHANGED <<server, org, puts, answer, view, editing, persistIn, pushIn, payload,
                      late, home, missed>>
      BY <1>4 DEF PullDone, net, history
    <2>2. page' \in [Clients -> {"away", "pulling", "answered", "ready"}]
      BY <1>4 DEF PullDone, Typed, TypeOK
    <2>3. local' \in [Clients -> SUBSET Flows]
      <3>1. CASE fails \/ answer[c] = Null
        BY <1>4, <3>1 DEF PullDone, Typed, TypeOK
      <3>2. CASE ~ fails /\ answer[c] # Null
        <4>1. answer[c] \in (SUBSET Flows) \cup {Null, Off}
          BY DEF Typed, TypeOK, Workspaces
        <4>2. answer[c] # Off
          BY <1>4, <3>2 DEF PullDone
        <4>3. answer[c] \in SUBSET Flows
          BY <3>2, <4>1, <4>2
        <4> QED BY <1>4, <3>2, <4>3 DEF PullDone, Typed, TypeOK
      <3> QED BY <3>1, <3>2
    <2>4. \A d \in Clients : page'[d] = "away" => page[d] = "away"
      BY <1>4 DEF PullDone, Typed, TypeOK
    <2> QED BY <2>1, <2>2, <2>3, <2>4 DEF Typed, TypeOK
  <1>5. CASE Render(c)
    <2>1. PICK stays \in BOOLEAN : Show(c, local[c], stays)
      BY <1>5 DEF Render
    <2>2. /\ view' \in [Clients -> SUBSET Flows] /\ editing' \in [Clients -> BOOLEAN]
          /\ persistIn' \in [Clients -> (0 .. PersistDelay) \cup {Off}]
      BY <1>1, <2>1, ShowTypes
    <2> QED BY <1>5, <2>2 DEF Render, Typed, TypeOK, net, history
  <1>6. CASE OpenEditor(c) \/ CloseEditor(c)
    <2>1. /\ view' \in [Clients -> SUBSET Flows] /\ editing' \in [Clients -> BOOLEAN]
          /\ persistIn' \in [Clients -> (0 .. PersistDelay) \cup {Off}]
      BY <1>1, <1>6, ShowTypes DEF OpenEditor, CloseEditor
    <2> QED BY <1>6, <2>1 DEF OpenEditor, CloseEditor, Typed, TypeOK, net, history
  <1>7. CASE Leave(c)
    <2>1. /\ page' = [page EXCEPT ![c] = "away"] /\ editing' = [editing EXCEPT ![c] = FALSE]
          /\ persistIn' = [persistIn EXCEPT ![c] = Off]
          /\ pushIn' = [pushIn EXCEPT ![c] = Off]
          /\ late' = [late EXCEPT ![c] = IF pushIn[c] = Off THEN NoTimer
                                         ELSE [in |-> pushIn[c], flows |-> payload[c]]]
          /\ UNCHANGED <<server, org, puts, answer, view, local, payload, home, missed>>
      BY <1>7 DEF Leave, net, history
    <2>2. late' \in [Clients -> [in : (0 .. PushDelay) \cup {Off}, flows : SUBSET Flows]]
      BY <2>1 DEF Typed, TypeOK, NoTimer
    <2> QED BY <2>1, <2>2 DEF Typed, TypeOK
  <1>8. ASSUME NEW o \in Orgs, SwitchOrganization(c, o) PROVE Typed'
    <2>1. NoTimer \in [in : (0 .. PushDelay) \cup {Off}, flows : SUBSET Flows]
      BY DEF NoTimer
    <2> QED BY <1>8, <2>1 DEF SwitchOrganization, Typed, TypeOK, history
  <1> QED BY <1>2, <1>3, <1>4, <1>5, <1>6, <1>7, <1>8 DEF Visit

LEMMA LessFacts ==
    ASSUME NEW n \in Nat, NEW t \in (0 .. n) \cup {Off}, t # 0
    PROVE /\ Less(t) \in (0 .. n) \cup {Off}
          /\ Less(t) = Off <=> t = Off
          /\ t # Off => Less(t) = t - 1 /\ t \in Nat
  BY FlowSyncAssumption DEF Less

LEMMA TickTypes ==
    ASSUME Typed, NEW c \in Clients, Tick(c)
    PROVE Typed'
  <1>1. /\ persistIn[c] # 0 /\ pushIn[c] # 0 /\ late[c].in # 0
        /\ persistIn' = [persistIn EXCEPT ![c] = Less(persistIn[c])]
        /\ pushIn' = [pushIn EXCEPT ![c] = Less(pushIn[c])]
        /\ late' = [late EXCEPT ![c] = [late[c] EXCEPT !.in = Less(late[c].in)]]
        /\ UNCHANGED <<server, org, puts, page, answer, view, local, editing, payload, home,
                       missed>>
    BY DEF Tick, net, history, Typed, TypeOK
  <1>2. PersistDelay \in Nat /\ PushDelay \in Nat
    BY FlowSyncAssumption
  <1>3. persistIn' \in [Clients -> (0 .. PersistDelay) \cup {Off}]
    BY <1>1, <1>2, LessFacts DEF Typed, TypeOK
  <1>4. pushIn' \in [Clients -> (0 .. PushDelay) \cup {Off}]
    BY <1>1, <1>2, LessFacts DEF Typed, TypeOK
  <1>5. late' \in [Clients -> [in : (0 .. PushDelay) \cup {Off}, flows : SUBSET Flows]]
    <2>1. Less(late[c].in) \in (0 .. PushDelay) \cup {Off}
      BY <1>1, <1>2, LessFacts DEF Typed, TypeOK
    <2> QED BY <1>1, <2>1 DEF Typed, TypeOK
  <1>6. \A d \in Clients : pushIn'[d] # Off => pushIn[d] # Off
    BY <1>1, <1>2, LessFacts DEF Typed, TypeOK
  <1> QED BY <1>1, <1>3, <1>4, <1>5, <1>6 DEF Typed, TypeOK

LEMMA PutTypes ==
    ASSUME Typed, NEW c \in Clients, NEW flows \in SUBSET Flows, NEW s \in Slots,
           puts' = [puts EXCEPT ![s] = [org |-> org[c], flows |-> flows]]
    PROVE /\ puts' \in [Slots -> [org : Orgs \cup {Null}, flows : Workspaces]]
          /\ \A r \in Slots : puts'[r] # NoPut => puts'[r].org \in Orgs
  <1>1. org[c] \in Orgs /\ flows \in Workspaces
    BY DEF Typed, TypeOK, Workspaces
  <1> QED BY <1>1 DEF Typed, TypeOK

LEMMA PushTypes ==
    ASSUME Typed, NEW c \in Clients, PushFires(c)
    PROVE Typed'
  <1>1. UNCHANGED <<server, org, page, answer, view, local, editing, persistIn, payload, home,
                    missed>>
    BY DEF PushFires, history
  <1>2. Off \notin Nat /\ NoTimer \in [in : (0 .. PushDelay) \cup {Off}, flows : SUBSET Flows]
    BY FlowSyncAssumption DEF NoTimer
  <1>3. CASE /\ pushIn[c] = 0 /\ Put(payload[c], c)
             /\ pushIn' = [pushIn EXCEPT ![c] = Off] /\ late' = late
    <2>1. payload[c] \in SUBSET Flows
      BY <1>2, <1>3 DEF Typed
    <2>2. PICK s \in Slots : puts' = [puts EXCEPT ![s] = [org |-> org[c], flows |-> payload[c]]]
      BY <1>3 DEF Put
    <2>3. /\ puts' \in [Slots -> [org : Orgs \cup {Null}, flows : Workspaces]]
          /\ \A r \in Slots : puts'[r] # NoPut => puts'[r].org \in Orgs
      BY <2>1, <2>2, PutTypes
    <2> QED BY <1>1, <1>3, <2>3 DEF Typed, TypeOK
  <1>4. CASE Put(late[c].flows, c) /\ late' = [late EXCEPT ![c] = NoTimer] /\ pushIn' = pushIn
    <2>1. late[c].flows \in SUBSET Flows
      BY DEF Typed, TypeOK
    <2>2. PICK s \in Slots : puts' = [puts EXCEPT ![s] = [org |-> org[c], flows |-> late[c].flows]]
      BY <1>4 DEF Put
    <2>3. /\ puts' \in [Slots -> [org : Orgs \cup {Null}, flows : Workspaces]]
          /\ \A r \in Slots : puts'[r] # NoPut => puts'[r].org \in Orgs
      BY <2>1, <2>2, PutTypes
    <2>4. late' \in [Clients -> [in : (0 .. PushDelay) \cup {Off}, flows : SUBSET Flows]]
      BY <1>2, <1>4 DEF Typed, TypeOK
    <2> QED BY <1>1, <1>4, <2>3, <2>4 DEF Typed, TypeOK
  <1> QED BY <1>3, <1>4 DEF PushFires

LEMMA NetworkTypes ==
    ASSUME Typed, NEW s \in Slots, PutWorkspace(s) \/ PutLost(s)
    PROVE Typed'
  <1>1. puts[s].org \in Orgs /\ puts[s].flows \in Workspaces
    BY DEF PutWorkspace, PutLost, Typed, TypeOK
  <1>2. puts' = [puts EXCEPT ![s] = NoPut]
    BY DEF PutWorkspace, PutLost
  <1>3. NoPut \in [org : Orgs \cup {Null}, flows : Workspaces]
    BY DEF NoPut, Workspaces
  <1>4. UNCHANGED <<org, page, answer, view, local, editing, persistIn, pushIn, payload, late,
                    home>>
    BY DEF PutWorkspace, PutLost
  <1>5. puts' \in [Slots -> [org : Orgs \cup {Null}, flows : Workspaces]]
    BY <1>2, <1>3 DEF Typed, TypeOK
  <1>6. \A r \in Slots : puts'[r] # NoPut => puts'[r].org \in Orgs
    BY <1>2 DEF Typed, TypeOK
  <1>7. server' \in [Orgs -> Workspaces] /\ missed' \subseteq Orgs
    BY <1>1 DEF PutWorkspace, PutLost, Typed, TypeOK
  <1> QED BY <1>4, <1>5, <1>6, <1>7 DEF Typed, TypeOK

LEMMA TypedStart ==
    ASSUME Init
    PROVE Typed
  <1>1. Null \in Workspaces /\ Off \in Workspaces \cup {Off}
    BY DEF Workspaces
  <1>2. NoTimer \in [in : (0 .. PushDelay) \cup {Off}, flows : SUBSET Flows]
    BY DEF NoTimer
  <1>3. NoPut \in [org : Orgs \cup {Null}, flows : Workspaces]
    BY <1>1 DEF NoPut
  <1> QED BY <1>1, <1>2, <1>3 DEF Init, Typed, TypeOK

LEMMA TypedStep ==
    ASSUME Typed, [Next]_vars
    PROVE Typed'
  <1>1. ASSUME NEW c \in Clients, Edit(c) \/ Visit(c) \/ Timers(c) PROVE Typed'
    BY <1>1, EditTypes, VisitTypes, TickTypes, PushTypes DEF Timers
  <1>2. CASE Network
    BY <1>2, NetworkTypes DEF Network
  <1>3. CASE UNCHANGED vars
    BY <1>3 DEF vars, Typed, TypeOK
  <1> QED BY <1>1, <1>2, <1>3 DEF Next

\* Every variable keeps its type, and whatever timer of the PUT runs belongs to an
\* open page (use-ops-process-store.ts:166) and has a workspace to send.
THEOREM FlowSyncTyped == Spec => []Typed
  <1>1. Init => Typed
    BY TypedStart
  <1>2. Typed /\ [Next]_vars => Typed'
    BY TypedStep
  <1> QED BY <1>1, <1>2, PTL DEF Spec

\* Whatever the order of edits, timers and answers, every variable keeps its type: a
\* timer never carries what a page has not committed, no request has no organization.
THEOREM FlowSyncTypes == Spec => []TypeOK
  <1>1. Typed => TypeOK
    BY DEF Typed
  <1> QED BY <1>1, FlowSyncTyped, PTL

-----------------------------------------------------------------------------
(* The last commit on its way to the server: it is in the timer of the page,   *)
(* else in the request, else the server has it or has missed it.  The timer    *)
(* that outlived the page before is due no later than that of the page, so     *)
(* that what it carries does not come last.                                    *)
Waits(c) == page[c] = "ready" /\ payload[c] # Null

Carried ==
    \A c \in Clients :
        /\ page[c] # "ready" => pushIn[c] = Off
        /\ page[c] \in {"pulling", "answered"} => payload[c] = Null
        /\ late[c].in # Off /\ pushIn[c] # Off => late[c].in <= pushIn[c]
        /\ Waits(c) => local[c] = payload[c]
        /\ Waits(c) /\ pushIn[c] = Off =>
               /\ late[c].in = Off
               /\ \E s \in Slots :
                     \/ puts[s] = [org |-> org[c], flows |-> payload[c]]
                     \/ /\ puts[s] = NoPut
                        /\ org[c] \in missed \/ server[org[c]] = payload[c]

\* One client, whose requests do not overtake each other.
Alone ==
    /\ \A c, d \in Clients : c = d
    /\ \A r, s \in Slots : r = s

LEMMA CommitCarries ==
    ASSUME Alone, Typed, Carried, NEW c \in Clients, NEW next \in SUBSET Flows, NEW stays,
           CommitOverlay(c, next, stays)
    PROVE Carried'
  <1>1. /\ page[c] # "away" /\ UNCHANGED <<server, org, puts, late>>
        /\ local' = [local EXCEPT ![c] = next]
    BY DEF CommitOverlay, net
  <1>2. \A d \in Clients : d = c
    BY DEF Alone
  <1>3. late[c].in # Off => late[c].in <= PushDelay
    BY FlowSyncAssumption DEF Typed, TypeOK
  <1>4. CASE page[c] = "pulling"
    <2>1. UNCHANGED <<page, pushIn, payload>>
      BY <1>4 DEF CommitOverlay
    <2> QED BY <1>1, <1>2, <1>4, <2>1 DEF Carried, Waits
  <1>5. CASE page[c] # "pulling"
    <2>1. page'[c] = "ready" /\ pushIn'[c] = PushDelay /\ payload'[c] = next /\ local'[c] = next
      BY <1>1, <1>5 DEF CommitOverlay, Typed, TypeOK
    <2>2. PushDelay # Off
      BY FlowSyncAssumption
    <2> QED BY <1>1, <1>2, <1>3, <2>1, <2>2 DEF Carried, Waits
  <1> QED BY <1>4, <1>5

LEMMA EditCarries ==
    ASSUME Alone, Typed, Carried, NEW c \in Clients, Edit(c) \/ PersistGraph(c)
    PROVE Carried'
  <1>1. view[c] \in SUBSET Flows
    BY DEF Typed, TypeOK
  <1>2. \E next \in SUBSET Flows, stays \in BOOLEAN \cup {editing[c]} : CommitOverlay(c, next, stays)
    <2>1. ASSUME NEW f \in Flows, AddFlow(c, f)
          PROVE \E next \in SUBSET Flows, stays \in BOOLEAN \cup {editing[c]} :
                    CommitOverlay(c, next, stays)
      BY <1>1, <2>1 DEF AddFlow
    <2>2. ASSUME NEW f \in Flows, DeleteFlow(c, f)
          PROVE \E next \in SUBSET Flows, stays \in BOOLEAN \cup {editing[c]} :
                    CommitOverlay(c, next, stays)
      BY <1>1, <2>2 DEF DeleteFlow
    <2>3. CASE UpdateFlowMeta(c) \/ HideSeedFlow(c) \/ PersistGraph(c)
      BY <1>1, <2>3 DEF UpdateFlowMeta, HideSeedFlow, PersistGraph
    <2> QED BY <2>1, <2>2, <2>3 DEF Edit
  <1> QED BY <1>2, CommitCarries

\* Showing the page changes nothing that is carried; leaving it hands its timer on.
LEMMA VisitCarries ==
    ASSUME Alone, Typed, Carried, NEW c \in Clients, Visit(c)
    PROVE Carried'
  <1>1. \A d \in Clients : d = c
    BY DEF Alone
  <1>2. CASE Mount(c)
    <2>1. page'[c] = "pulling" /\ payload'[c] = Null /\ pushIn'[c] = Off
      BY <1>2 DEF Mount, Typed, TypeOK
    <2> QED BY <1>1, <2>1 DEF Carried, Waits
  <1>3. CASE GetWorkspace(c) \/ OpenEditor(c) \/ CloseEditor(c)
    <2>1. UNCHANGED <<server, org, puts, page, local, pushIn, payload, late, missed>>
      BY <1>3 DEF GetWorkspace, OpenEditor, CloseEditor, net, history
    <2> QED BY <2>1 DEF Carried, Waits
  <1>4. ASSUME NEW fails \in BOOLEAN, PullDone(c, fails) PROVE Carried'
    <2>1. /\ page[c] = "pulling" /\ page'[c] \in {"ready", "answered"}
          /\ UNCHANGED <<pushIn, payload, late>>
      BY <1>4 DEF PullDone, Typed, TypeOK
    <2>2. payload'[c] = Null /\ pushIn'[c] = Off
      BY <2>1 DEF Carried
    <2> QED BY <1>1, <2>1, <2>2 DEF Carried, Waits
  <1>5. CASE Render(c)
    <2>1. page[c] = "answered" /\ page'[c] = "ready" /\ UNCHANGED <<pushIn, payload, late>>
      BY <1>5 DEF Render, Typed, TypeOK
    <2>2. payload'[c] = Null /\ pushIn'[c] = Off
      BY <2>1 DEF Carried
    <2> QED BY <1>1, <2>1, <2>2 DEF Carried, Waits
  <1>6. CASE Leave(c) \/ \E o \in Orgs : SwitchOrganization(c, o)
    <2>1. page'[c] = "away" /\ pushIn'[c] = Off
      BY <1>6 DEF Leave, SwitchOrganization, Typed, TypeOK
    <2> QED BY <1>1, <2>1 DEF Carried, Waits
  <1> QED BY <1>2, <1>3, <1>4, <1>5, <1>6 DEF Visit

LEMMA TickCarries ==
    ASSUME Alone, Typed, Carried, NEW c \in Clients, Tick(c)
    PROVE Carried'
  <1>1. \A d \in Clients : d = c
    BY DEF Alone
  <1>2. /\ pushIn[c] # 0 /\ late[c].in # 0
        /\ pushIn'[c] = Less(pushIn[c]) /\ late'[c].in = Less(late[c].in)
        /\ UNCHANGED <<server, org, puts, page, local, payload, missed>>
    BY DEF Tick, net, history, Typed, TypeOK
  <1>3. /\ pushIn[c] \in (0 .. PushDelay) \cup {Off} /\ late[c].in \in (0 .. PushDelay) \cup {Off}
        /\ PushDelay \in Nat
    BY FlowSyncAssumption DEF Typed, TypeOK
  <1>4. /\ pushIn'[c] = Off <=> pushIn[c] = Off
        /\ late'[c].in = Off <=> late[c].in = Off
        /\ pushIn[c] # Off => pushIn'[c] = pushIn[c] - 1 /\ pushIn[c] \in Nat
        /\ late[c].in # Off => late'[c].in = late[c].in - 1 /\ late[c].in \in Nat
    BY <1>2, <1>3, LessFacts
  <1>5. ASSUME late'[c].in # Off, pushIn'[c] # Off PROVE late'[c].in <= pushIn'[c]
    <2>1. late[c].in # Off /\ pushIn[c] # Off
      BY <1>4, <1>5
    <2>2. late[c].in <= pushIn[c]
      BY <2>1 DEF Carried
    <2>3. /\ pushIn'[c] = pushIn[c] - 1 /\ late'[c].in = late[c].in - 1
          /\ pushIn[c] \in Nat /\ late[c].in \in Nat
      BY <1>4, <2>1
    <2> QED BY <2>2, <2>3
  <1> QED BY <1>1, <1>2, <1>4, <1>5 DEF Carried, Waits

\* The timer of the page fires after the one before it, into the free slot.
LEMMA PushCarries ==
    ASSUME Alone, Typed, Carried, NEW c \in Clients, PushFires(c)
    PROVE Carried'
  <1>1. \A d \in Clients : d = c
    BY DEF Alone
  <1>2. UNCHANGED <<server, org, page, local, payload, missed>> /\ Off # 0
    BY FlowSyncAssumption DEF PushFires, history
  <1>3. CASE /\ pushIn[c] = 0 /\ late[c].in # 0 /\ Put(payload[c], c)
             /\ pushIn' = [pushIn EXCEPT ![c] = Off] /\ late' = late
    <2>0. late[c].in \in (0 .. PushDelay) \cup {Off} /\ PushDelay \in Nat
      BY FlowSyncAssumption DEF Typed, TypeOK
    <2>1. late[c].in = Off
      <3>1. late[c].in # Off => late[c].in <= pushIn[c]
        BY <1>2, <1>3 DEF Carried
      <3> QED BY <1>3, <2>0, <3>1
    <2>2. PICK s \in Slots : puts' = [puts EXCEPT ![s] = [org |-> org[c], flows |-> payload[c]]]
      BY <1>3 DEF Put
    <2>3. puts'[s] = [org |-> org[c], flows |-> payload[c]] /\ pushIn'[c] = Off
      BY <1>3, <2>2 DEF Typed, TypeOK
    <2> QED BY <1>1, <1>2, <1>3, <2>1, <2>3 DEF Carried, Waits
  <1>4. CASE late[c].in = 0 /\ late' = [late EXCEPT ![c] = NoTimer] /\ pushIn' = pushIn
    <2>1. late'[c].in = Off
      BY <1>4 DEF NoTimer, Typed, TypeOK
    <2>2. ~ (Waits(c) /\ pushIn[c] = Off)
      BY <1>2, <1>4 DEF Carried
    <2> QED BY <1>1, <1>2, <1>4, <2>1, <2>2 DEF Carried, Waits
  <1> QED BY <1>3, <1>4 DEF PushFires

\* The one request in flight is that of the page, or of no account for it.
LEMMA NetworkCarries ==
    ASSUME Alone, Typed, Carried, NEW s \in Slots, PutWorkspace(s) \/ PutLost(s)
    PROVE Carried'
  <1>1. UNCHANGED <<org, page, local, pushIn, payload, late>>
    BY DEF PutWorkspace, PutLost
  <1>2. puts[s] # NoPut /\ puts'[s] = NoPut
    BY DEF PutWorkspace, PutLost, Typed, TypeOK
  <1>3. ASSUME NEW c \in Clients, Waits(c), pushIn[c] = Off
        PROVE org[c] \in missed' \/ server'[org[c]] = payload[c]
    <2>1. puts[s] = [org |-> org[c], flows |-> payload[c]]
      BY <1>2, <1>3 DEF Carried, Alone
    <2>2. org[c] \in Orgs
      BY DEF Typed, TypeOK
    <2> QED BY <2>1, <2>2 DEF PutWorkspace, PutLost, Typed, TypeOK
  <1> QED BY <1>1, <1>2, <1>3 DEF Carried, Waits

LEMMA CarriedStep ==
    ASSUME Alone, Typed, Carried, [Next]_vars
    PROVE Carried'
  <1>1. ASSUME NEW c \in Clients, Edit(c) \/ Visit(c) \/ Timers(c) PROVE Carried'
    BY <1>1, EditCarries, VisitCarries, TickCarries, PushCarries DEF Timers
  <1>2. CASE Network
    BY <1>2, NetworkCarries DEF Network
  <1>3. CASE UNCHANGED vars
    BY <1>3 DEF vars, Carried, Waits
  <1> QED BY <1>1, <1>2, <1>3 DEF Next

\* With one client and one request at a time, for any organizations, flows and
\* delays: when no timer and no request is left, the server holds the workspace that
\* the browser holds, unless the last PUT was lost.
THEOREM FlowSyncSaves ==
    ASSUME Alone
    PROVE Spec => []SavedWhenQuiet
  <1>1. Init => Carried
    BY DEF Init, Carried, Waits, NoTimer
  <1>2. Typed /\ Carried /\ [Next]_vars => Carried'
    BY CarriedStep
  <1>3. Carried => SavedWhenQuiet
    <2> SUFFICES ASSUME Carried, NEW c \in Clients, Quiet(c), payload[c] # Null,
                        org[c] \notin missed
                 PROVE server[org[c]] = local[c]
      BY DEF SavedWhenQuiet
    <2>1. Waits(c) /\ pushIn[c] = Off /\ \A s \in Slots : puts[s] = NoPut
      BY DEF Quiet, Waits
    <2>2. [org |-> org[c], flows |-> payload[c]] # NoPut
      BY DEF NoPut
    <2>3. local[c] = payload[c]
      BY <2>1 DEF Carried
    <2> QED BY <2>1, <2>2, <2>3 DEF Carried
  <1> QED BY <1>1, <1>2, <1>3, FlowSyncTyped, PTL DEF Spec
=============================================================================
