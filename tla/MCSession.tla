------------------------------ MODULE MCSession ------------------------------
(***************************************************************************)
(* Instances of Session for TLC.                                           *)
(***************************************************************************)
EXTENDS Session, TLC

CONSTANTS u1, u2, a, b

\* A person with two organizations, and one who has none yet.
TwoAndNone == u1 :> {a, b} @@ u2 :> {}

\* The person starts in one of the two, which play the same part.
MCInit == Init /\ active[u1] = a
MCSpec == MCInit /\ [][Next]_vars /\ Fairness
=============================================================================
