----------------------------- MODULE BasicFlow ------------------------------
(***************************************************************************)
(* The part of a flow record (src/src/flow/basic_flow.rs) that its own     *)
(* life cycle depends on: identity, times, packet counts, FIN counts and   *)
(* the subflow tracker.  The feature accumulators that nothing reads back  *)
(* before the flow is reported (lengths, inter-arrival times, flag and     *)
(* header counts, bulks) are abstracted away.                              *)
(***************************************************************************)
EXTENDS Packet, SubflowTracker

CONSTANT Bidirectional      \* is_bidirectional of the configuration

ASSUME DirectionAssumption == Bidirectional \in BOOLEAN

\* "members" is history: the positions, in the order of arrival, of the
\* packets this record was built from.
Flow ==
    [key: Key, flow_start_time: Int, flow_last_seen: Int,
     fwd_packet_count: Nat, bwd_packet_count: Nat,
     f_fin_cnt: Nat, b_fin_cnt: Nat,
     subflow: Tracker, members: SUBSET (Nat \ {0})]

\* BasicFlow::new and first_packet.  The flow takes the source of its first
\* packet for its own, so that packet always counts as forward; its flags
\* are counted as features but f_fin_cnt and b_fin_cnt stay 0.
NewFlow(p, id) ==
    [key |-> FwdId(p),
     flow_start_time |-> p.timestamp, flow_last_seen |-> p.timestamp,
     fwd_packet_count |-> 1, bwd_packet_count |-> 0,
     f_fin_cnt |-> 0, b_fin_cnt |-> 0,
     subflow |-> TrackFirst(UpdateSubflow(NewTracker, p.timestamp), p.timestamp),
     members |-> {id}]

\* The direction under which add_packet counts a packet.
CountsForward(f, p) == ~Bidirectional \/ IsForward(p, f.key.src_ip)

\* A mutated form: every packet is counted as forward.
MutAddToFlow(f, p, id) ==
    [f EXCEPT !.subflow = UpdateSubflow(@, p.timestamp),
              !.fwd_packet_count = @ + 1,
              !.flow_last_seen = p.timestamp,
              !.members = @ \cup {id}]

\* A mutated form: the directions are told apart in both configurations.
MutAddSplits(f, p, id) ==
    [f EXCEPT !.subflow = UpdateSubflow(@, p.timestamp),
              !.fwd_packet_count = IF IsForward(p, f.key.src_ip) THEN @ + 1 ELSE @,
              !.bwd_packet_count = IF IsForward(p, f.key.src_ip) THEN @ ELSE @ + 1,
              !.flow_last_seen = p.timestamp,
              !.members = @ \cup {id}]

\* BasicFlow::add_packet
AddToFlow(f, p, id) ==
    [f EXCEPT !.subflow = UpdateSubflow(@, p.timestamp),
              !.fwd_packet_count = IF CountsForward(f, p) THEN @ + 1 ELSE @,
              !.bwd_packet_count = IF CountsForward(f, p) THEN @ ELSE @ + 1,
              !.flow_last_seen = p.timestamp,
              !.members = @ \cup {id}]

\* BasicFlow::packet_count
PacketCount(f) ==
    IF Bidirectional THEN f.fwd_packet_count + f.bwd_packet_count
                     ELSE f.fwd_packet_count

\* BasicFlow::flow_duration
FlowDuration(f) == f.flow_last_seen - f.flow_start_time

\* set_fwd_fin and set_bwd_fin: counts a FIN under the side that sent it.
SetFin(f, p) ==
    IF IsForward(p, f.key.src_ip) THEN [f EXCEPT !.f_fin_cnt = @ + 1]
                                  ELSE [f EXCEPT !.b_fin_cnt = @ + 1]

\* How many FINs the sender of p has been counted for.
OwnFins(f, p) ==
    IF IsForward(p, f.key.src_ip) THEN f.f_fin_cnt ELSE f.b_fin_cnt

\* The flow's active period reaches up to the packet.
Touch(f, p) == [f EXCEPT !.subflow = UpdateActiveIdle(@, p.timestamp)]
=============================================================================
