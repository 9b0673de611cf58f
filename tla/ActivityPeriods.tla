-------------------------- MODULE ActivityPeriods ---------------------------
(***************************************************************************)
(* What the active and idle periods of a flow mean in terms of its         *)
(* packets.  The flow table extends the active period itself (Touch) before*)
(* the subflow tracker sees the packet, on some of its branches only, so   *)
(* this is a property of the two together.                                 *)
(***************************************************************************)
EXTENDS MCFlowGenerator, FiniteSetsExt

Successors(f) == f.members \ {Min(f.members)}
Gap(f, i) ==
    log[i].timestamp - log[Max({j \in f.members : j < i})].timestamp
LongGaps(f) == {i \in Successors(f) : Gap(f, i) > ActivityTimeout}

NoFinCounted(f) == f.f_fin_cnt = 0 /\ f.b_fin_cnt = 0

\* Until a FIN, the idle periods logged are exactly the gaps between two
\* packets of the flow that exceed the activity timeout, as README.md:426 has
\* it: none is missed, merged with busy time or logged twice by the two calls
\* that see it.  A gap of exactly the timeout is active time in the code
\* (subflow.rs:54), and idle in Methodology.md:202.
\* (With a timeout below the subflow gap of a second, a RST could miss one.)
IdleIsLongGaps ==
    \A f \in AllFlows : NoFinCounted(f) =>
        /\ f.subflow.flow_idle_stats.count = Cardinality(LongGaps(f))
        /\ f.subflow.flow_idle_stats.sum =
             SumFunction([i \in LongGaps(f) |-> Gap(f, i)])

InOrder(f) ==
    \A i, j \in f.members : i < j => log[i].timestamp <= log[j].timestamp

\* In a flow whose packets came in order, the logged periods and the current
\* one tile the time since its start: no stretch is in two periods or none.
\* This also holds after a FIN.
PeriodsTileTheFlow ==
    \A f \in AllFlows : InOrder(f) =>
        LET t == f.subflow
        IN  t.flow_active_stats.sum + t.flow_idle_stats.sum
              + (t.end_active_time - t.start_active_time)
            = t.end_active_time - f.flow_start_time

\* Gaps of more than a second separate subflows, whatever branch took the
\* packet.
SubflowsAreSeparated ==
    \A f \in AllFlows :
        f.subflow.sf_count =
            Cardinality({i \in Successors(f) : Gap(f, i) > OneSecond})
=============================================================================
