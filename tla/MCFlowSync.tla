------------------------------ MODULE MCFlowSync ------------------------------
(* Small instances of FlowSync.  Two ticks are 900 ms and one is 500 ms: the    *)
(* editor's timer is due before the one of the PUT.                            *)
EXTENDS FlowSync, TLC

Symmetry == Permutations(Flows) \cup Permutations(Orgs)

\* A user who makes flows, opens no old one and at last changes no more: every
\* flow is made once.  The editor may stay open.
MakeNext ==
    \/ \E c \in Clients :
           \/ Mount(c) \/ GetWorkspace(c) \/ (\E fails \in BOOLEAN : PullDone(c, fails))
           \/ Render(c) \/ CloseEditor(c) \/ Leave(c) \/ Timers(c)
           \/ \E f \in Flows : AddFlow(c, f)
    \/ Network
OpenSpec == Init /\ [][MakeNext]_vars /\ Fairness
=============================================================================
