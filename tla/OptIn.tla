-------------------------------- MODULE OptIn --------------------------------
(***************************************************************************)
(* What registration by a mailed link promises of one address: it has one  *)
(* account at a time, an account is confirmed only once its owner has shown *)
(* that the address is theirs, and a confirmed account stays confirmed for  *)
(* as long as it is there.                                                 *)
(***************************************************************************)
CONSTANTS Accounts, None

VARIABLES account, confirmed,
          shown  \* accounts whose owner has shown it, or was not asked to

vars == <<account, confirmed, shown>>

Init == account \in Accounts \union {None} /\ confirmed = FALSE /\ shown = {}

\* Where no link is asked for, a new account is confirmed from the start.
Register ==
    /\ account = None
    /\ account' \in Accounts
    /\ \/ confirmed' = FALSE /\ shown' = shown
       \/ confirmed' = TRUE /\ shown' = shown \union {account'}

Show ==
    /\ account # None
    /\ shown' = shown \union {account}
    /\ UNCHANGED <<account, confirmed>>

\* The owner may have shown it just now.
Confirm ==
    /\ account # None
    /\ shown' \in {shown, shown \union {account}} /\ account \in shown'
    /\ confirmed' = TRUE
    /\ UNCHANGED account

\* A registration is taken back: nothing is known of the account any more.
TakeBack ==
    /\ account # None
    /\ account' = None /\ confirmed' = FALSE
    /\ shown' = shown \ {account}

Spec == Init /\ [][Register \/ Show \/ Confirm \/ TakeBack]_vars
=============================================================================
