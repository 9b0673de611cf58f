------------------------------ MODULE FlowSink ------------------------------
(***************************************************************************)
(* What a run of the program promises whoever reads its output file, with  *)
(* no flow table, writer or buffer: packets are read one after the other,  *)
(* groups of them are settled, each as a row of the file or as too short   *)
(* for one, and no group is settled twice or taken back.  A run that ends  *)
(* well has settled every packet; one that fails or is killed may still    *)
(* save a part of what it has, and nothing after that.                     *)
(***************************************************************************)
EXTENDS Naturals, FiniteSets

VARIABLES
    status,         \* of the run: "idle", "running", "ok", "failed", "killed"
    read,           \* packets read
    saved,          \* groups with a row, sets of positions of packets
    short,          \* groups that have been dropped
    minimum         \* packets of a group that gets a row

vars == <<status, read, saved, short, minimum>>

Init ==
    /\ status = "idle"
    /\ read = 0
    /\ saved = {}
    /\ short = {}
    /\ minimum \in Nat

Settled == saved \cup short

\* Groups are settled that share no packet with each other or with those
\* settled before, as their size demands.
Settle ==
    /\ saved \subseteq saved' /\ short \subseteq short'
    /\ \A g \in saved' \ saved : Cardinality(g) >= minimum
    /\ \A g \in short' \ short : Cardinality(g) < minimum
    /\ \A g \in Settled' \ Settled :
         /\ g # {} /\ g \subseteq 1 .. read'
         /\ \A h \in Settled' : g # h => g \cap h = {}
    /\ saved' \cap short' = {}
    /\ UNCHANGED minimum

Begin ==
    /\ status # "running"
    /\ status' \in {"running", "failed", "killed"}
    /\ read' = 0
    /\ saved' = {}
    /\ short' = {}
    /\ minimum' \in Nat

Read ==
    /\ status = "running"
    /\ read' = read + 1
    /\ Settle
    /\ UNCHANGED status

Save ==
    /\ status = "running"
    /\ Settle
    /\ UNCHANGED <<status, read>>

EndWell ==
    /\ status = "running"
    /\ status' = "ok"
    /\ Settle
    /\ UNION Settled' = 1 .. read
    /\ UNCHANGED read

Fail ==
    /\ status = "running"
    /\ status' = "failed"
    /\ Settle
    /\ UNCHANGED read

Die ==
    /\ status = "running"
    /\ status' = "killed"
    /\ Settle
    /\ UNCHANGED read

Next == Begin \/ Read \/ Save \/ EndWell \/ Fail \/ Die

Spec == Init /\ [][Next]_vars
=============================================================================
