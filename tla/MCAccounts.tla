------------------------------ MODULE MCAccounts ------------------------------
(* A small instance of Accounts: two requests in flight, at most one of them   *)
(* about a reset.  Liveness is checked, so no symmetry is declared.            *)
EXTENDS Accounts

CONSTANT r1

MCNext ==
    \/ \E r \in Reqs : RegisterStep(r) \/ VerifyStep(r)
    \/ ResetStep(r1)
    \/ World

MCSpec == Init /\ [][MCNext]_vars /\ Fairness
=============================================================================
