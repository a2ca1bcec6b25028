------------------------------- MODULE MCWork --------------------------------
(***************************************************************************)
(* Instances of Work and Reads for TLC: one row or two of each kind, in    *)
(* groups of kinds that read or write each other.                          *)
(***************************************************************************)
EXTENDS Reads, TLC

CONSTANTS a, b,
          Milestones  \* their ids, which only name them

\* Each record names the kinds of rows of one organization.
Scene(inA, inB) ==
    [kind |-> inA @@ inB,
     home |-> [i \in DOMAIN inA |-> a] @@ [i \in DOMAIN inB |-> b]]

Only(inA) == [kind |-> inA, home |-> [i \in DOMAIN inA |-> a]]

MCScenes ==
    {Scene([p |-> "project", t |-> "task", c |-> "comment"], [pb |-> "project"]),
     Scene([p |-> "project", t |-> "task", e |-> "entry"], [pb |-> "project"]),
     Only([p |-> "project", t |-> "task", f |-> "file"]),
     Scene([c |-> "comment"], [p |-> "project", t |-> "task"]),
     Only([p |-> "project", p2 |-> "project", t |-> "task"]),
     Only([p |-> "project", t |-> "task", g |-> "tag", tg |-> "taskTag"]),
     Scene([p |-> "project", g |-> "tag", pg |-> "projectTag"], [gb |-> "tag"]),
     Scene([p |-> "project"], [tm |-> "team", d |-> "deal"]),
     Only([p |-> "project", tm |-> "team", d |-> "deal"]),
     Only([p |-> "project", d |-> "deal", d2 |-> "deal"]),
     Only("d" :> "deal" @@ [m \in Milestones |-> "milestone"]),
     Scene([d |-> "deal", m |-> "milestone"], [db |-> "deal"]),
     Scene([d |-> "deal", c |-> "customer"], [cb |-> "customer"]),
     Scene([c |-> "customer", i |-> "invoice"], [cb |-> "customer"]),
     Scene([s |-> "supplier", o |-> "order"], [sb |-> "supplier"]),
     Only([pr |-> "product", e |-> "event"])}

\* A task of one organization and a project of the other.
MCCrossing == {Scene([p |-> "project", t |-> "task", c |-> "comment"], [pb |-> "project"])}

\* Bound: of the three milestones a client places one, and one is deleted; what
\* breaks the order takes two others.
FewPlacedOrGone ==
    /\ Cardinality(placed) <= 1
    /\ Cardinality({m \in Of("milestone") : st[m] = "gone"}) <= 1

Symmetric == Permutations(Slots) \union Permutations(Milestones)
=============================================================================
