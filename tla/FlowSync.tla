------------------------------- MODULE FlowSync -------------------------------
(* The process editor's workspace: flows kept in the page's state, in the      *)
(* browser's localStorage and, by GET and PUT /flow/workspace, on the server   *)
(* per organization (use-ops-process-store.ts, FlowWorkbench.tsx,              *)
(* operations-os.service.ts).  A workspace is abstracted to the set of its own *)
(* flows: what a flow says, and which demo flows are hidden, travels with it.  *)
(*                                                                             *)
(* A commit writes state and localStorage and restarts the timer of the PUT.   *)
(* The editor has a timer of its own that commits the canvas of an own flow,   *)
(* and starts it again whenever the workspace or the canvas changes.  Both     *)
(* count down in the time of their browser; requests take any time, arrive in  *)
(* any order or not at all.  A client is a browser with one tab.               *)
(* React renders at once after what the user does, but an answer of the server *)
(* is shown a moment later: until then every callback still works on the       *)
(* overlay it was made with.  A commit of the editor's timer keeps the flows,  *)
(* so showing it at once makes no difference here.                             *)
EXTENDS Naturals

CONSTANTS
    Clients, Orgs,
    Flows,         \* ids of own flows
    PersistDelay,  \* 500 ms, in ticks
    PushDelay,     \* 900 ms, in ticks
    Slots,         \* bound: PUTs in flight at one time
    Off, Null

ASSUME FlowSyncAssumption ==
    /\ PersistDelay \in Nat \ {0}
    /\ PushDelay \in Nat \ {0}
    /\ Off \notin Nat

VARIABLES
    server,    \* OpsWorkspaceState rows, Null where there is none
    org,       \* the organization of the client's token
    page,      \* "away", "pulling" until the GET is settled, "answered" until its
               \* answer is shown, "ready"
    answer,    \* what the server answered to the GET, Off before that
    view,      \* the overlay the page shows and its callbacks hold
    local,     \* localStorage, and the overlay in the page's state
    editing,   \* an own flow is open in the editor
    persistIn, \* timer of the editor
    pushIn,    \* timer of the PUT
    payload,   \* what that PUT will carry
    late,      \* a PUT timer that outlived its page
    puts,      \* PUTs in flight
    home,      \* history: the organization a flow was made in
    missed     \* history: organizations whose last PUT was lost

vars == <<server, org, page, answer, view, local, editing, persistIn, pushIn, payload,
          late, puts, home, missed>>
history == <<home, missed>>
net == <<server, org, puts>>

Workspaces == (SUBSET Flows) \cup {Null}
NoPut == [org |-> Null, flows |-> Null]
NoTimer == [in |-> Off, flows |-> {}]

Unused(f) == home[f] = Null

-----------------------------------------------------------------------------
\* Bug: the editor waits as long as the PUT.
BugEditorDelay(c, next, stays) ==
    /\ stays => next # {}
    /\ view' = [view EXCEPT ![c] = next]
    /\ editing' = [editing EXCEPT ![c] = stays]
    /\ persistIn' = [persistIn EXCEPT ![c] = IF stays THEN PushDelay ELSE Off]

\* The page shows `next`: an editor that stays open starts its timer again.
Show(c, next, stays) ==
    /\ stays => next # {}
    /\ view' = [view EXCEPT ![c] = next]
    /\ editing' = [editing EXCEPT ![c] = stays]
    /\ persistIn' = [persistIn EXCEPT ![c] = IF stays THEN PersistDelay ELSE Off]

\* Bug: a running timer is left to send the workspace it was started with.
BugFirstPayload(c, next, stays) ==
    /\ page[c] # "away"
    /\ Show(c, next, stays)
    /\ local' = [local EXCEPT ![c] = next]
    /\ IF page[c] = "pulling" \/ pushIn[c] # Off
       THEN UNCHANGED <<page, pushIn, payload>>
       ELSE /\ page' = [page EXCEPT ![c] = "ready"]
            /\ pushIn' = [pushIn EXCEPT ![c] = PushDelay]
            /\ payload' = [payload EXCEPT ![c] = next]
    /\ UNCHANGED <<net, answer, late>>

\* commitOverlay: before the GET is settled nothing is scheduled.
CommitOverlay(c, next, stays) ==
    /\ page[c] # "away"
    /\ Show(c, next, stays)
    /\ local' = [local EXCEPT ![c] = next]
    /\ IF page[c] = "pulling"
       THEN UNCHANGED <<page, pushIn, payload>>
       ELSE /\ page' = [page EXCEPT ![c] = "ready"]
            /\ pushIn' = [pushIn EXCEPT ![c] = PushDelay]
            /\ payload' = [payload EXCEPT ![c] = next]
    /\ UNCHANGED <<net, answer, late>>

\* The page is opened: state from localStorage, and a GET for the token's
\* organization.
Mount(c) ==
    /\ page[c] = "away"
    /\ page' = [page EXCEPT ![c] = "pulling"]
    /\ answer' = [answer EXCEPT ![c] = Off]
    /\ view' = [view EXCEPT ![c] = local[c]]
    /\ payload' = [payload EXCEPT ![c] = Null]
    /\ UNCHANGED <<net, local, editing, persistIn, pushIn, late, history>>

GetWorkspace(c) ==
    /\ page[c] = "pulling" /\ answer[c] = Off
    /\ answer' = [answer EXCEPT ![c] = server[org[c]]]
    /\ UNCHANGED <<net, page, view, local, editing, persistIn, pushIn, payload, late, history>>

\* The answer replaces the overlay, edits made meanwhile included; no workspace,
\* or no answer, leaves that of localStorage.
PullDone(c, fails) ==
    /\ page[c] = "pulling" /\ (answer[c] # Off \/ fails)
    /\ IF fails \/ answer[c] = Null
       THEN /\ page' = [page EXCEPT ![c] = "ready"]
            /\ UNCHANGED local
       ELSE /\ page' = [page EXCEPT ![c] = "answered"]
            /\ local' = [local EXCEPT ![c] = answer[c]]
    /\ UNCHANGED <<net, answer, view, editing, persistIn, pushIn, payload, late, history>>

\* The answer is shown, in the gallery, with a demo flow or with an own one.
Render(c) ==
    /\ page[c] = "answered"
    /\ \E stays \in BOOLEAN : Show(c, local[c], stays)
    /\ page' = [page EXCEPT ![c] = "ready"]
    /\ UNCHANGED <<net, answer, local, pushIn, payload, late, history>>

-----------------------------------------------------------------------------
\* What the user does.

\* A new flow is opened in the editor.
AddFlow(c, f) ==
    /\ Unused(f)
    /\ CommitOverlay(c, view[c] \cup {f}, TRUE)
    /\ home' = [home EXCEPT ![f] = org[c]]
    /\ UNCHANGED missed

\* From the gallery, or the flow in the editor: another own one may take its place.
DeleteFlow(c, f) ==
    /\ f \in view[c]
    /\ \E stays \in {FALSE, editing[c]} : CommitOverlay(c, view[c] \ {f}, stays)
    /\ UNCHANGED history

\* The same flows, committed again.
UpdateFlowMeta(c) ==
    /\ view[c] # {}
    /\ CommitOverlay(c, view[c], editing[c])
    /\ UNCHANGED history

\* So does hiding a demo flow, after which an own one may be in the editor.
HideSeedFlow(c) ==
    /\ ~editing[c]
    /\ \E stays \in BOOLEAN : CommitOverlay(c, view[c], stays)
    /\ UNCHANGED history

\* An own flow is opened, another one is, or the canvas is changed.
OpenEditor(c) ==
    /\ page[c] # "away"
    /\ Show(c, view[c], TRUE)
    /\ UNCHANGED <<net, page, answer, local, pushIn, payload, late, history>>

\* The gallery, or a demo flow: the effect's clean-up stops its timer.
CloseEditor(c) ==
    /\ editing[c]
    /\ Show(c, view[c], FALSE)
    /\ UNCHANGED <<net, page, answer, local, pushIn, payload, late, history>>

\* Another page of the app: the editor's timer stops, the PUT's does not.
Leave(c) ==
    /\ page[c] # "away"
    /\ late[c] = NoTimer   \* bound: one timer that outlived its page
    /\ page' = [page EXCEPT ![c] = "away"]
    /\ editing' = [editing EXCEPT ![c] = FALSE]
    /\ persistIn' = [persistIn EXCEPT ![c] = Off]
    /\ pushIn' = [pushIn EXCEPT ![c] = Off]
    /\ late' = [late EXCEPT ![c] = IF pushIn[c] = Off THEN NoTimer
                                   ELSE [in |-> pushIn[c], flows |-> payload[c]]]
    /\ UNCHANGED <<net, answer, view, local, payload, history>>

\* Another organization: a new token, then a reload, which ends every timer.
SwitchOrganization(c, o) ==
    /\ o # org[c]
    /\ org' = [org EXCEPT ![c] = o]
    /\ page' = [page EXCEPT ![c] = "away"]
    /\ editing' = [editing EXCEPT ![c] = FALSE]
    /\ persistIn' = [persistIn EXCEPT ![c] = Off]
    /\ pushIn' = [pushIn EXCEPT ![c] = Off]
    /\ late' = [late EXCEPT ![c] = NoTimer]
    /\ UNCHANGED <<server, puts, answer, view, local, payload, history>>

-----------------------------------------------------------------------------
\* Timers and the network.

Less(t) == IF t = Off THEN Off ELSE t - 1

\* Time does not pass a timer that is due, and rendering takes none.
Tick(c) ==
    LET timers == {persistIn[c], pushIn[c], late[c].in}
    IN  /\ 0 \notin timers /\ timers # {Off} /\ page[c] # "answered"
        /\ persistIn' = [persistIn EXCEPT ![c] = Less(@)]
        /\ pushIn' = [pushIn EXCEPT ![c] = Less(@)]
        /\ late' = [late EXCEPT ![c].in = Less(@)]
        /\ UNCHANGED <<net, page, answer, view, local, editing, payload, history>>

\* saveGraphForFlow: the canvas is committed, and the workspace it changes makes
\* the editor start over.
PersistGraph(c) ==
    /\ persistIn[c] = 0
    /\ CommitOverlay(c, view[c], editing[c])
    /\ UNCHANGED history

Put(flows, c) ==
    \E s \in Slots : /\ puts[s] = NoPut
                     /\ puts' = [puts EXCEPT ![s] = [org |-> org[c], flows |-> flows]]

\* Of two timers that are due the older one comes first.
PushFires(c) ==
    /\ \/ /\ pushIn[c] = 0 /\ late[c].in # 0
          /\ Put(payload[c], c)
          /\ pushIn' = [pushIn EXCEPT ![c] = Off]
          /\ UNCHANGED late
       \/ /\ late[c].in = 0
          /\ Put(late[c].flows, c)
          /\ late' = [late EXCEPT ![c] = NoTimer]
          /\ UNCHANGED pushIn
    /\ UNCHANGED <<server, org, page, answer, view, local, editing, persistIn, payload, history>>

PutWorkspace(s) ==
    /\ puts[s] # NoPut
    /\ server' = [server EXCEPT ![puts[s].org] = puts[s].flows]
    /\ puts' = [puts EXCEPT ![s] = NoPut]
    /\ missed' = missed \ {puts[s].org}
    /\ UNCHANGED <<org, page, answer, view, local, editing, persistIn, pushIn, payload,
                   late, home>>

PutLost(s) ==
    /\ puts[s] # NoPut
    /\ puts' = [puts EXCEPT ![s] = NoPut]
    /\ missed' = missed \cup {puts[s].org}
    /\ UNCHANGED <<server, org, page, answer, view, local, editing, persistIn, pushIn,
                   payload, late, home>>

-----------------------------------------------------------------------------
Init ==
    /\ server = [o \in Orgs |-> Null]
    /\ org \in [Clients -> Orgs]
    /\ page = [c \in Clients |-> "away"]
    /\ answer = [c \in Clients |-> Off]
    /\ view = [c \in Clients |-> {}]
    /\ local = [c \in Clients |-> {}]
    /\ editing = [c \in Clients |-> FALSE]
    /\ persistIn = [c \in Clients |-> Off]
    /\ pushIn = [c \in Clients |-> Off]
    /\ payload = [c \in Clients |-> Null]
    /\ late = [c \in Clients |-> NoTimer]
    /\ puts = [s \in Slots |-> NoPut]
    /\ home = [f \in Flows |-> Null]
    /\ missed = {}

Edit(c) ==
    \/ \E f \in Flows : AddFlow(c, f) \/ DeleteFlow(c, f)
    \/ UpdateFlowMeta(c) \/ HideSeedFlow(c)

Visit(c) ==
    \/ Mount(c) \/ GetWorkspace(c) \/ (\E fails \in BOOLEAN : PullDone(c, fails))
    \/ Render(c) \/ OpenEditor(c) \/ CloseEditor(c) \/ Leave(c)
    \/ \E o \in Orgs : SwitchOrganization(c, o)

Timers(c) == Tick(c) \/ PersistGraph(c) \/ PushFires(c)

Network == \E s \in Slots : PutWorkspace(s) \/ PutLost(s)

Next == (\E c \in Clients : Edit(c) \/ Visit(c) \/ Timers(c)) \/ Network

Spec == Init /\ [][Next]_vars

\* Browsers run their timers and render, and a request does not wait for ever.
Fairness ==
    /\ \A c \in Clients : WF_vars(Timers(c)) /\ WF_vars(Render(c))
    /\ WF_vars(Network)

-----------------------------------------------------------------------------
TypeOK ==
    /\ server \in [Orgs -> Workspaces]
    /\ org \in [Clients -> Orgs]
    /\ page \in [Clients -> {"away", "pulling", "answered", "ready"}]
    /\ answer \in [Clients -> Workspaces \cup {Off}]
    /\ view \in [Clients -> SUBSET Flows]
    /\ local \in [Clients -> SUBSET Flows]
    /\ editing \in [Clients -> BOOLEAN]
    /\ persistIn \in [Clients -> (0 .. PersistDelay) \cup {Off}]
    /\ pushIn \in [Clients -> (0 .. PushDelay) \cup {Off}]
    /\ payload \in [Clients -> Workspaces]
    /\ late \in [Clients -> [in : (0 .. PushDelay) \cup {Off}, flows : SUBSET Flows]]
    /\ puts \in [Slots -> [org : Orgs \cup {Null}, flows : Workspaces]]
    /\ home \in [Flows -> Orgs \cup {Null}]
    /\ missed \subseteq Orgs

\* No timer and no request is left.
Quiet(c) ==
    /\ page[c] = "ready" /\ pushIn[c] = Off /\ late[c] = NoTimer
    /\ \A s \in Slots : puts[s] = NoPut

\* With one client whose requests do not overtake each other the server ends up
\* with what the browser holds: when all is quiet, the page has committed something
\* and the last PUT was not lost, the organization's workspace is the one of
\* localStorage.  The timers of this page, of the page before and of the editor
\* have to cooperate, and each PUT makes good for those lost before.
SavedWhenQuiet ==
    \A c \in Clients :
        Quiet(c) /\ payload[c] # Null /\ org[c] \notin missed => server[org[c]] = local[c]

\* PUT /flow/workspace saves the workspace of the organization (README.md:119): a
\* commit that scheduled a PUT leads to one, unless the user leaves the page.
ChangesAreSent ==
    \A c \in Clients :
        pushIn[c] # Off ~>
            \/ page[c] = "away"
            \/ \E s \in Slots : puts[s].org = org[c] /\ puts[s].flows = local[c]

\* "Workspace vom Server laden (pro Organisation)" (use-ops-process-store.ts:116):
\* the workspace of an organization holds flows made in that organization.
FlowsStayInTheirOrganization ==
    \A o \in Orgs : server[o] # Null => \A f \in server[o] : home[f] = o
=============================================================================
