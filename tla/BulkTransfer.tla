---------------------------- MODULE BulkTransfer ----------------------------
(***************************************************************************)
(* What the two bulk trackers of a flow record compute, in terms of its    *)
(* packets.  Each is told of the other's last payload packet, and uses it  *)
(* to see that its own run was interrupted.                                *)
(***************************************************************************)
EXTENDS FlowRecord

\* The payload packets of a direction, and those of them that begin a run:
\* more than a second after the one before, or with a payload packet of the
\* other direction in between.  A packet stamped 0 is a run by itself, for
\* the tracker's start of a run is 0 when there is none (bulk.rs:29).
Payload(forward) ==
    {i \in DOMAIN log : log[i].forward = forward /\ log[i].payload_bytes > 0}

Begins(forward, i) ==
    LET before == {j \in Payload(forward) : j < i} IN
    \/ before = {}
    \/ log[i].timestamp - log[Max(before)].timestamp > OneSecond
    \/ log[Max(before)].timestamp = 0
    \/ \E m \in Payload(~forward) : Max(before) < m /\ m < i

\* The run that i begins.
RunFrom(forward, i) ==
    {j \in Payload(forward) :
        /\ i <= j
        /\ \A m \in Payload(forward) : i < m /\ m <= j => ~Begins(forward, m)}

\* The bulks of a direction, by the packets that begin them.
Bulks(forward) ==
    {i \in Payload(forward) :
        Begins(forward, i) /\ Cardinality(RunFrom(forward, i)) >= 4}

Bytes(R) == SumFunction([i \in R |-> log[i].payload_bytes])
Duration(R) == log[Max(R)].timestamp - log[Min(R)].timestamp

MatchesBulks(b, forward) ==
    LET Run(i) == RunFrom(forward, i) IN
    /\ b.state_count = Cardinality(Bulks(forward))
    /\ b.packet_count = SumFunction([i \in Bulks(forward) |-> Cardinality(Run(i))])
    /\ b.size_total = SumFunction([i \in Bulks(forward) |-> Bytes(Run(i))])
    /\ b.duration = SumFunction([i \in Bulks(forward) |-> Duration(Run(i))])

TimesIncrease ==
    \A i \in 2 .. Len(log) : log[i - 1].timestamp < log[i].timestamp

\* When every packet has a later timestamp than the one before, the running
\* counters are those of the maximal runs of at least 4 payload packets that
\* the definition of a bulk asks for, but for a first packet at 0, which is
\* left out of its run (README.md:422 counts it): an interruption by the other
\* direction is seen although only one timestamp of it is kept.
BulksAreMaximalRuns ==
    TimesIncrease =>
        /\ MatchesBulks(flow.fwd_bulk, TRUE)
        /\ MatchesBulks(flow.bwd_bulk, FALSE)

\* In whatever order the timestamps come, no bulk has less than 4 packets
\* and no packet or byte is in two bulks, so the averages are of whole bulks.
WholeBulks(b, forward) ==
    /\ b.packet_count >= 4 * b.state_count
    /\ b.state_count = 0 => b.packet_count = 0
    /\ b.packet_count <= Cardinality(Payload(forward))
    /\ b.state_count > 0 => AvgPacketsPerBulk(b) >= 4

\* Bulks go by direction in both modes, bytes in the bidirectional one only.
BytesOnce ==
    /\ flow.fwd_bulk.size_total + flow.bwd_bulk.size_total
         <= flow.forward_bytes + flow.backward_bytes
    /\ is_bidirectional =>
         /\ flow.fwd_bulk.size_total <= flow.forward_bytes
         /\ flow.bwd_bulk.size_total <= flow.backward_bytes

BulksAreWhole ==
    /\ WholeBulks(flow.fwd_bulk, TRUE) /\ WholeBulks(flow.bwd_bulk, FALSE)
    /\ BytesOnce
=============================================================================
