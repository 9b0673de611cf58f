----------------------------- MODULE FlowClaims -----------------------------
(***************************************************************************)
(* What the repository's documents say of the flow table and the code does *)
(* not do.  Each is checked by a run that ends in a counterexample.        *)
(***************************************************************************)
EXTENDS MCFlowGenerator

\* "Terminated if and only if (b_fwd and b_bwd) or RST = 1": no open flow has
\* counted a FIN of each side.  generator.rs closes only on a side's first
\* FIN and only while the two counters add up to exactly 2, so a
\* retransmitted FIN keeps the flow open.
FinBothWaysCloses ==
    \A f \in OpenFlows : ~(f.f_fin_cnt > 0 /\ f.b_fin_cnt > 0)

\* A flow inactive for longer than the timeout is evicted: none is in the
\* table when the capture has reached a time that far past its last packet.
\* generator.rs compares ages, and only when a packet of the same key comes.
InactiveFlowsEvicted ==
    \A f \in OpenFlows :
        log[Len(log)].timestamp - f.flow_last_seen <= FlowTimeout

\* An idle period is a quiet gap between two packets of the flow.  After a
\* FIN the sender's packets no longer move the end of the active period, so
\* a busy stretch is logged as idle time.
IdlePeriodsAreGaps ==
    \A f \in AllFlows :
        f.subflow.flow_idle_stats.count > 0 =>
            \E i, j \in f.members :
                /\ i < j
                /\ ~ \E m \in f.members : i < m /\ m < j
                /\ f.subflow.flow_idle_stats.max = log[j].timestamp - log[i].timestamp
=============================================================================
