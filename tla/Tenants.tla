------------------------------- MODULE Tenants --------------------------------
(***************************************************************************)
(* What the API promises its organizations: each has records of its own, as *)
(* if it had a database to itself.  A step changes the records of one      *)
(* organization, and a record names records of the same organization only. *)
(***************************************************************************)
CONSTANTS Orgs, None

VARIABLE data  \* data[org]: what org has under each id, a record with a ref

Closed(store) ==
    \A i \in DOMAIN store : \A c \in DOMAIN store[i].ref :
       store[i].ref[c] \in DOMAIN store \union {None}

Init == DOMAIN data = Orgs /\ \A org \in Orgs : Closed(data[org])

Step(org) ==
    LET old == data
        new == data' IN
    /\ DOMAIN new = Orgs
    /\ \A other \in Orgs \ {org} : new[other] = old[other]
    /\ new[org] # old[org] => Closed(new[org])

Spec == Init /\ [][\E org \in Orgs : Step(org)]_data
=============================================================================
