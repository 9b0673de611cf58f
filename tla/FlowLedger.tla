----------------------------- MODULE FlowLedger -----------------------------
(***************************************************************************)
(* What the flow table promises its caller, without keys, times or flags:  *)
(* the packets of each connection are cut into successive groups.  At most *)
(* one group of a connection is open, a packet joins it or starts a new    *)
(* one, and a group that ends is reported if it has reached the minimum    *)
(* size and discarded otherwise, once and for good.                        *)
(***************************************************************************)
EXTENDS Naturals, FiniteSets, Sequences

CONSTANT Connections

VARIABLES
    fed,            \* the connection of each packet, in order of arrival
    open,           \* the open groups, sets of positions of fed
    reported,
    discarded,
    minimum         \* smallest size of a reported group

vars == <<fed, open, reported, discarded, minimum>>

Init ==
    /\ fed = <<>>
    /\ open = {}
    /\ reported = {}
    /\ discarded = {}
    /\ minimum \in Nat

Large(g) == Cardinality(g) >= minimum

\* The groups of G end.
Settle(G) ==
    /\ reported' = reported \cup {g \in G : Large(g)}
    /\ discarded' = discarded \cup {g \in G : ~Large(g)}

OpenOf(c) == {g \in open : \A i \in g : fed[i] = c}

Receive(c) ==
    LET n == Len(fed) + 1 IN
    /\ fed' = Append(fed, c)
    /\ UNCHANGED minimum
    /\ \/ /\ OpenOf(c) = {}
          /\ open' = open \cup {{n}}
          /\ Settle({})
       \/ \E g \in OpenOf(c) :
             \/ /\ open' = (open \ {g}) \cup {g \cup {n}}
                /\ Settle({})
             \/ /\ open' = open \ {g}
                /\ Settle({g \cup {n}})
             \/ /\ open' = (open \ {g}) \cup {{n}}
                /\ Settle({g})

EndAll ==
    /\ open' = {}
    /\ Settle(open)
    /\ UNCHANGED <<fed, minimum>>

SetMinimum ==
    /\ minimum' \in Nat
    /\ UNCHANGED <<fed, open, reported, discarded>>

Next ==
    \/ \E c \in Connections : Receive(c)
    \/ EndAll
    \/ SetMinimum

Spec == Init /\ [][Next]_vars
=============================================================================
