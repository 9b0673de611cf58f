----------------------------- MODULE FlowRecord -----------------------------
(***************************************************************************)
(* The accumulators of a flow record (src/src/flow/basic_flow.rs): what    *)
(* new, first_packet and add_packet do to everything that is exported of a *)
(* flow, and extract_features.  How a flow comes to have its packets is    *)
(* FlowGenerator's matter; here a flow is fed any packets of one           *)
(* connection, in any order of timestamps, and another one follows.        *)
(***************************************************************************)
EXTENDS BulkTracker, WelfordStats, Sequences, FiniteSetsExt, SequencesExt

CONSTANTS
    Modes,              \* <<is_bidirectional, compat_mode>>
    Shapes,             \* packets: payload, header, window, flags
    StartTimes,         \* timestamps of the first packet of a flow
    Steps,              \* differences between timestamps of successive packets
    MaxPackets,         \* bound: packets of a flow
    MaxLate,            \* bound: those not later than the one before
    ActivityTimeout

Subflows == INSTANCE SubflowTracker

Flags == {"fin", "syn", "rst", "psh", "ack", "urg", "cwr", "ece"}

\* min_seg_size_forward before any forward packet: u64::MAX, which is more
\* than any header has.
NoSegment == 99999

ASSUME RecordAssumption ==
    /\ Modes \subseteq BOOLEAN \X BOOLEAN
    /\ Shapes \subseteq [payload_bytes: Nat, header_bytes: Nat,
                         tcp_window: Nat, flags: SUBSET Flags]
    /\ \A shape \in Shapes : shape.header_bytes < NoSegment
    /\ StartTimes \subseteq Nat /\ Steps \subseteq Int
    /\ MaxPackets \in Nat \ {0} /\ MaxLate \in Nat
    /\ MaxCount >= MaxPackets + 1

VARIABLES
    flow,
    is_bidirectional, compat_mode,
    log                 \* history: the packets of the flow

vars == <<flow, is_bidirectional, compat_mode, log>>

-----------------------------------------------------------------------------
(* The record.                                                             *)

NewRecord(p) ==
    [flow_start_time |-> p.timestamp, flow_last_seen |-> p.timestamp,
     forward_last_seen |-> p.timestamp, backward_last_seen |-> 0,
     fwd_pkt_stats |-> NewSamples, bwd_pkt_stats |-> NewSamples,
     flow_iat |-> NewSamples, forward_iat |-> NewSamples,
     backward_iat |-> NewSamples, flow_length_stats |-> NewSamples,
     fwd_packet_count |-> 0, bwd_packet_count |-> 0,
     forward_bytes |-> 0, backward_bytes |-> 0,
     f_header_bytes |-> 0, b_header_bytes |-> 0,
     f_flag_cnt |-> [x \in {"psh", "urg"} |-> 0],
     flag |-> [x \in Flags |-> 0],
     act_data_pkt_forward |-> 0, min_seg_size_forward |-> NoSegment,
     init_win_bytes_forward |-> 0, init_win_bytes_backward |-> 0,
     fwd_bulk |-> NewBulk, bwd_bulk |-> NewBulk,
     subflow |-> Subflows!NewTracker]

Tick(counts, flags) ==
    [x \in DOMAIN counts |-> counts[x] + (IF x \in flags THEN 1 ELSE 0)]

\* update_bulk: the bulks go by the packet's direction in both modes.
UpdateBulk(r, p) ==
    IF p.forward
    THEN [r EXCEPT !.fwd_bulk = Update(@, p.timestamp, p.payload_bytes,
                                       r.bwd_bulk.last_bulk_ts)]
    ELSE [r EXCEPT !.bwd_bulk = Update(@, p.timestamp, p.payload_bytes,
                                       r.fwd_bulk.last_bulk_ts)]

\* What first_packet and add_packet both begin with.
Common(r, p) ==
    [UpdateBulk(r, p) EXCEPT
        !.subflow = Subflows!UpdateSubflow(@, p.timestamp),
        !.flag = Tick(@, p.flags)]

\* first_packet.  The flow has its source address from this packet, so the
\* packet is a forward one and the other branch is never taken.  The
\* compatible mode takes its length twice.
FirstPacket(r, p) ==
    LET lengths == AddSample(r.flow_length_stats, p.payload_bytes) IN
    [Common(r, p) EXCEPT
        !.flow_start_time = p.timestamp, !.flow_last_seen = p.timestamp,
        !.subflow = Subflows!TrackFirst(@, p.timestamp),
        !.flow_length_stats = IF compat_mode
                              THEN AddSample(lengths, p.payload_bytes)
                              ELSE lengths,
        !.min_seg_size_forward = p.header_bytes,
        !.init_win_bytes_forward = p.tcp_window,
        !.fwd_pkt_stats = AddSample(@, p.payload_bytes),
        !.f_header_bytes = p.header_bytes,
        !.forward_last_seen = p.timestamp,
        !.forward_bytes = @ + p.payload_bytes,
        !.fwd_packet_count = @ + 1,
        !.f_flag_cnt = Tick(@, p.flags)]

\* A mutated form: the time of the last forward packet is not moved.
MutAddForward(r, p) ==
    [r EXCEPT
        !.act_data_pkt_forward = IF p.payload_bytes >= 1 THEN @ + 1 ELSE @,
        !.fwd_pkt_stats = AddSample(@, p.payload_bytes),
        !.f_header_bytes = @ + p.header_bytes,
        !.forward_bytes = @ + p.payload_bytes,
        !.fwd_packet_count = @ + 1,
        !.forward_iat = IF r.fwd_packet_count + 1 > 1
                        THEN AddSample(@, p.timestamp - r.forward_last_seen)
                        ELSE @,
        !.min_seg_size_forward = IF p.header_bytes < @ THEN p.header_bytes ELSE @]
\* add_packet of a packet that counts as forward.  Inter-arrival times begin
\* with the second packet of a direction.
AddForward(r, p) ==
    [r EXCEPT
        !.act_data_pkt_forward = IF p.payload_bytes >= 1 THEN @ + 1 ELSE @,
        !.fwd_pkt_stats = AddSample(@, p.payload_bytes),
        !.f_header_bytes = @ + p.header_bytes,
        !.forward_bytes = @ + p.payload_bytes,
        !.fwd_packet_count = @ + 1,
        !.forward_iat = IF r.fwd_packet_count + 1 > 1
                        THEN AddSample(@, p.timestamp - r.forward_last_seen)
                        ELSE @,
        !.forward_last_seen = p.timestamp,
        !.min_seg_size_forward = IF p.header_bytes < @ THEN p.header_bytes ELSE @]

AddBackward(r, p) ==
    [r EXCEPT
        !.bwd_pkt_stats = AddSample(@, p.payload_bytes),
        !.init_win_bytes_backward = p.tcp_window,
        !.b_header_bytes = @ + p.header_bytes,
        !.backward_bytes = @ + p.payload_bytes,
        !.bwd_packet_count = @ + 1,
        !.backward_iat = IF r.bwd_packet_count + 1 > 1
                         THEN AddSample(@, p.timestamp - r.backward_last_seen)
                         ELSE @,
        !.backward_last_seen = p.timestamp]

\* Without directions every packet counts as forward.
CountsForward(p) == ~is_bidirectional \/ p.forward

AddPacket(r, p) ==
    LET s == IF CountsForward(p) THEN AddForward(Common(r, p), p)
                                 ELSE AddBackward(Common(r, p), p)
    IN  [s EXCEPT
            !.flow_length_stats = AddSample(@, p.payload_bytes),
            !.flow_iat = AddSample(@, p.timestamp - r.flow_last_seen),
            !.flow_last_seen = p.timestamp]

-----------------------------------------------------------------------------
(* What is exported.                                                       *)

PacketCount(r) ==
    IF is_bidirectional THEN r.fwd_packet_count + r.bwd_packet_count
                        ELSE r.fwd_packet_count

\* A quotient of two counters, guarded against a divisor that is not positive.
Ratio(a, b) == IF b > 0 THEN <<a, b>> ELSE <<0, 1>>
Quotient(a, b) == IF b = 0 THEN 0 ELSE a \div b

\* A statistic of inter-arrival times is exported from the second packet on.
IfSeveral(count, x) == IF count > 1 THEN x ELSE 0

\* A mutated form: the average size is over the forward packets only.
MutAvgPacketSize(r) == Ratio(r.flow_length_stats.sum, r.fwd_packet_count)
AvgPacketSize(r) == Ratio(r.flow_length_stats.sum, PacketCount(r))

\* extract_features: the columns that are more than a copy of a counter.
\* Means are times Scale, rates per unit of time.
Features(r) ==
    LET duration == r.flow_last_seen - r.flow_start_time
        parts == r.subflow.sf_count
    IN
    [flow_duration |-> duration,
     flow_bytes_sec |-> Ratio(r.forward_bytes + r.backward_bytes, duration),
     flow_pkts_sec |-> Ratio(PacketCount(r), duration),
     fwd_pkts_sec |-> Ratio(r.fwd_packet_count, duration),
     bwd_pkts_sec |-> Ratio(r.bwd_packet_count, duration),
     down_up_ratio |-> Ratio(r.bwd_packet_count, r.fwd_packet_count),
     tot_len_fwd_pkts |-> r.fwd_pkt_stats.sum,
     tot_len_bwd_pkts |-> r.bwd_pkt_stats.sum,
     fwd_pkt_len_mean |-> r.fwd_pkt_stats.mean,
     bwd_pkt_len_mean |-> r.bwd_pkt_stats.mean,
     fwd_seg_avg |-> Ratio(r.fwd_pkt_stats.sum, r.fwd_packet_count),
     bwd_seg_avg |-> Ratio(r.bwd_pkt_stats.sum, r.bwd_packet_count),
     pkt_len_mean |-> r.flow_length_stats.mean,
     pkt_len_max |-> r.flow_length_stats.max,
     pkt_size_avg |-> AvgPacketSize(r),
     flow_iat_mean |-> r.flow_iat.mean,
     fwd_iat_tot |-> IfSeveral(r.fwd_packet_count, r.forward_iat.sum),
     bwd_iat_tot |-> IfSeveral(r.bwd_packet_count, r.backward_iat.sum),
     fwd_iat_mean |-> IfSeveral(r.fwd_packet_count, r.forward_iat.mean),
     bwd_iat_mean |-> IfSeveral(r.bwd_packet_count, r.backward_iat.mean),
     subfl_fwd_pkt |-> Quotient(r.fwd_packet_count, parts),
     subfl_fwd_byt |-> Quotient(r.forward_bytes, parts),
     subfl_bwd_pkt |-> Quotient(r.bwd_packet_count, parts),
     subfl_bwd_byt |-> Quotient(r.backward_bytes, parts),
     fwd_seg_min |-> IF r.min_seg_size_forward = NoSegment
                     THEN 0 ELSE r.min_seg_size_forward]

-----------------------------------------------------------------------------
(* A flow and the next one.                                                *)

PacketAt(shape, forward, ts) ==
    [payload_bytes |-> shape.payload_bytes, header_bytes |-> shape.header_bytes,
     tcp_window |-> shape.tcp_window, flags |-> shape.flags,
     forward |-> forward, timestamp |-> ts]

\* BasicFlow::new
Begin(p) == FirstPacket(NewRecord(p), p)

Init ==
    /\ \E m \in Modes : is_bidirectional = m[1] /\ compat_mode = m[2]
    /\ \E ts \in StartTimes, shape \in Shapes :
         LET p == PacketAt(shape, TRUE, ts)
         IN  log = <<p>> /\ flow = Begin(p)

Late == {i \in 2 .. Len(log) : log[i].timestamp <= log[i - 1].timestamp}

\* Timestamps of a capture are not negative; a simple packet block has 0.
NextPacket ==
    /\ Len(log) < MaxPackets
    /\ \E d \in Steps, forward \in BOOLEAN, shape \in Shapes :
         LET p == PacketAt(shape, forward, log[Len(log)].timestamp + d) IN
         /\ d <= 0 => Cardinality(Late) < MaxLate
         /\ p.timestamp >= 0
         /\ flow' = AddPacket(flow, p)
         /\ log' = Append(log, p)
    /\ UNCHANGED <<is_bidirectional, compat_mode>>

\* The flow has been reported and the next one begins.
NextFlow ==
    /\ \E ts \in StartTimes, shape \in Shapes :
         LET p == PacketAt(shape, TRUE, ts)
         IN  log' = <<p>> /\ flow' = Begin(p)
    /\ UNCHANGED <<is_bidirectional, compat_mode>>

Next == NextPacket \/ NextFlow

Spec == Init /\ [][Next]_vars

-----------------------------------------------------------------------------
(* Properties.                                                             *)

\* The packets of a direction, by their positions in the log.
Forward == {i \in DOMAIN log : CountsForward(log[i])}
Backward == {i \in DOMAIN log : ~CountsForward(log[i])}

\* The lists of values that the statistics stand for.  The compatible mode
\* has the first length of a flow twice, at 0 as well.
Lengths(S) == [i \in S |-> log[i].payload_bytes]
FlowLengths ==
    IF compat_mode
    THEN [i \in 0 .. Len(log) |-> log[IF i = 0 THEN 1 ELSE i].payload_bytes]
    ELSE Lengths(DOMAIN log)
Before(S, i) == {j \in S : j < i}
Gaps(S) ==
    [i \in {i \in S : Before(S, i) # {}} |->
        log[i].timestamp - log[Max(Before(S, i))].timestamp]

Squares(v) == [i \in DOMAIN v |-> v[i] * v[i]]

\* The definitions of the statistics of some values: in particular the
\* mean is the sum by the number, and m2 the sum of the squared deviations,
\* which is the sum of the squares less the square of the sum by the number.
Describes(s, v) ==
    LET n == Cardinality(DOMAIN v)
        sum == SumFunction(v)
    IN  /\ s.count = n /\ s.sum = sum
        /\ n > 0 =>
             /\ s.min = Min(Range(v)) /\ s.max = Max(Range(v))
             /\ n * s.mean = Scale * sum
             /\ n * s.m2 = Scale * (n * SumFunction(Squares(v)) - sum * sum)

\* Each of the six running statistics of a flow is that of the list it stands
\* for: the packet lengths of a direction, of the flow (the first length
\* twice in the compatible mode), and the gaps between successive packets of
\* a direction and of the flow, also when timestamps repeat or go back.
StatisticsMatchPackets ==
    /\ Describes(flow.fwd_pkt_stats, Lengths(Forward))
    /\ Describes(flow.bwd_pkt_stats, Lengths(Backward))
    /\ Describes(flow.flow_length_stats, FlowLengths)
    /\ Describes(flow.forward_iat, Gaps(Forward))
    /\ Describes(flow.backward_iat, Gaps(Backward))
    /\ Describes(flow.flow_iat, Gaps(DOMAIN log))

Same(p, q) == p[1] * q[2] = q[1] * p[2]
With(x) == Cardinality({i \in DOMAIN log : x \in log[i].flags})

\* Features that say the same thing are computed from different counters and
\* agree: the averages by division with the running means, totals of gaps with
\* first and last times, rates by direction with those of the flow, lengths
\* with bytes, and what a flow of several subflows has with its subflows.
FeaturesAgree ==
    LET x == Features(flow)
        last == [back |-> flow.backward_last_seen, forth |-> flow.forward_last_seen]
    IN
    /\ x.tot_len_fwd_pkts = flow.forward_bytes
    /\ x.tot_len_bwd_pkts = flow.backward_bytes
    /\ Same(x.fwd_seg_avg, <<x.fwd_pkt_len_mean, Scale>>)
    /\ Same(x.bwd_seg_avg, <<x.bwd_pkt_len_mean, Scale>>)
    /\ ~compat_mode => Same(x.pkt_size_avg, <<x.pkt_len_mean, Scale>>)
    /\ x.fwd_iat_tot = last.forth - flow.flow_start_time
    /\ Backward # {} => x.bwd_iat_tot = last.back - log[Min(Backward)].timestamp
    /\ x.flow_iat_mean * (Len(log) - 1) = Scale * x.flow_duration
    /\ x.flow_duration > 0 =>
         x.fwd_pkts_sec[1] + x.bwd_pkts_sec[1] = x.flow_pkts_sec[1]
    /\ flow.flag = [f \in Flags |-> With(f)]
    /\ x.fwd_seg_min = Min({log[i].header_bytes : i \in Forward})
    /\ flow.subflow.sf_count > 0 =>
         flow.subflow.sf_count * (x.subfl_fwd_pkt + x.subfl_bwd_pkt) <= Len(log)
=============================================================================
