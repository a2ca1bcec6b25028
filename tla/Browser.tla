------------------------------ MODULE Browser ------------------------------
(* What a person sees in one tab: an entry of the query cache (Pages), or a    *)
(* field of a form (Forms).  They share no state, the answers of the requests  *)
(* are told apart by what they belong to; one is followed at a time.           *)
EXTENDS Pages, Forms

NoQuery == [mount |-> {}, hide |-> {}, poll |-> {}, reload |-> {}, live |-> {}, saves |-> {},
            open |-> {}]

PagesOff ==
    /\ query = NoQuery /\ page = "help" /\ entry = Empty
    /\ save = [r \in Sent |-> Unsent]
    /\ applied = 0 /\ due = 0 /\ own = 0

BrowserInit ==
    \/ Init /\ FormOff
    \/ PagesOff /\ FormInit

BrowserNext ==
    \/ form = Off /\ Next /\ UNCHANGED formVars
    \/ FormNext /\ UNCHANGED vars

BrowserSpec == BrowserInit /\ [][BrowserNext]_<<vars, formVars>>

\* The variables of both parts have their types.
BrowserTypeOK == TypeOK /\ FormTypeOK
=============================================================================
