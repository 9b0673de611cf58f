--------------------------- MODULE FlowGenerator ----------------------------
(***************************************************************************)
(* The flow table (src/src/flow/generator.rs): packets are assigned to     *)
(* open flows, and flows leave the table by age, by a FIN from each side,  *)
(* by RST or at the end of the capture, to be reported or, when they hold  *)
(* too few packets, dropped.                                               *)
(*                                                                         *)
(* The caller's thread runs every operation to its end (&mut self), so an  *)
(* operation is one action.  Packets may come in any order of timestamps.  *)
(***************************************************************************)
EXTENDS BasicFlow, FiniteSets, Sequences

CONSTANTS
    Packets,        \* the packets a caller may feed
    FlowTimeout,    \* flow_timeout of the configuration
    MinChoices,     \* arguments of set_min_packets_per_flow
    MaxPackets      \* bound: packets fed in one behaviour

ASSUME GeneratorAssumption ==
    /\ Packets \subseteq PacketInfo
    /\ FlowTimeout \in Nat
    /\ MinChoices \subseteq Nat
    /\ MaxPackets \in Nat

VARIABLES
    current_flows,          \* the table: flow id -> open flow
    finished_flows,         \* reported, waiting for get_finished_flows
    listener,               \* whether a flow listener is set
    finished_flow_count,
    min_packets_per_flow,
    \* history
    log,                    \* the packets fed so far
    handed,                 \* the flows given to the listener or the caller
    dropped                 \* the flows that ended below the minimum

config == <<listener, min_packets_per_flow>>
vars == <<current_flows, finished_flows, finished_flow_count, config,
          log, handed, dropped>>

\* The position that the packet being fed takes in the log.
Id == Len(log) + 1

\* The key under which the table holds the packet's flow, if it does.
MutExistingKey(p) == {FwdId(p)} \cap DOMAIN current_flows
ExistingKey(p) ==
    IF FwdId(p) \in DOMAIN current_flows
    THEN {FwdId(p)} ELSE {BwdId(p)} \cap DOMAIN current_flows

\* HashMap remove and insert.
Without(k) ==
    [j \in DOMAIN current_flows \ {k} |-> current_flows[j]]
With(flows, k, f) ==
    [j \in DOMAIN flows \cup {k} |-> IF j = k THEN f ELSE flows[j]]

\* A flow that stays is removed and inserted again under the same key.
Put(k, f) == current_flows' = [current_flows EXCEPT ![k] = f]

MutLongEnough(f) == PacketCount(f) > min_packets_per_flow
LongEnough(f) == PacketCount(f) >= min_packets_per_flow

\* A flow has left the table: emit_flow counts and reports it if it is long
\* enough, and otherwise it goes out of scope.
Retire(f) ==
    IF LongEnough(f)
    THEN /\ finished_flow_count' = finished_flow_count + 1
         /\ \/ /\ listener
               /\ handed' = handed \cup {f}
               /\ UNCHANGED finished_flows
            \/ /\ ~listener
               /\ finished_flows' = finished_flows \cup {f}
               /\ UNCHANGED handed
         /\ UNCHANGED dropped
    ELSE /\ dropped' = dropped \cup {f}
         /\ UNCHANGED <<finished_flow_count, finished_flows, handed>>

Init ==
    /\ current_flows = [k \in {} |-> {}]
    /\ finished_flows = {}
    /\ listener = FALSE
    /\ finished_flow_count = 0
    /\ min_packets_per_flow = 2
    /\ log = <<>>
    /\ handed = {}
    /\ dropped = {}

-----------------------------------------------------------------------------
(* The branches of add_packet.                                             *)

KeepReports == UNCHANGED <<finished_flows, finished_flow_count, handed, dropped>>

OpenFlow(p) ==
    /\ ExistingKey(p) = {}
    /\ current_flows' = With(current_flows, FwdId(p), NewFlow(p, Id))
    /\ KeepReports

\* Age, not inactivity: the packet is compared with the start of the flow.
MutExpired(f, p) == p.timestamp - f.flow_last_seen > FlowTimeout
Expired(f, p) == p.timestamp - f.flow_start_time > FlowTimeout

MutExpireFlow(p, k) ==
    /\ Expired(current_flows[k], p)
    /\ Retire(current_flows[k])
    /\ current_flows' = With(current_flows, FwdId(p), NewFlow(p, Id))
ExpireFlow(p, k) ==
    /\ Expired(current_flows[k], p)
    /\ Retire(current_flows[k])
    /\ current_flows' = With(Without(k), FwdId(p), NewFlow(p, Id))

\* The first FIN of this side, and the other side has sent exactly one.
MutFinCloses(f) == f.f_fin_cnt + f.b_fin_cnt > 2
FinCloses(f) == f.f_fin_cnt + f.b_fin_cnt = 2

FinPacket(p, k) ==
    LET f == SetFin(current_flows[k], p) IN
    /\ ~Expired(current_flows[k], p)
    /\ p.flag_fin
    /\ \/ /\ OwnFins(f, p) = 1
          /\ FinCloses(f)
          /\ Retire(AddToFlow(f, p, Id))
          /\ current_flows' = Without(k)
       \/ /\ OwnFins(f, p) = 1
          /\ ~FinCloses(f)
          /\ Put(k, AddToFlow(Touch(f, p), p, Id))
          /\ KeepReports
       \/ /\ OwnFins(f, p) # 1
          /\ Put(k, AddToFlow(f, p, Id))
          /\ KeepReports

\* A RST counts only on a packet without FIN, and only for an open flow.
RstPacket(p, k) ==
    LET f == current_flows[k] IN
    /\ ~Expired(f, p)
    /\ ~p.flag_fin /\ p.flag_rst
    /\ Retire(AddToFlow(f, p, Id))
    /\ current_flows' = Without(k)

\* The sender's FIN, once seen, stops its packets from extending the active
\* period.
DataPacket(p, k) ==
    LET f == current_flows[k] IN
    /\ ~Expired(f, p)
    /\ ~p.flag_fin /\ ~p.flag_rst
    /\ \/ /\ OwnFins(f, p) = 0
          /\ Put(k, AddToFlow(Touch(f, p), p, Id))
       \/ /\ OwnFins(f, p) # 0
          /\ Put(k, AddToFlow(f, p, Id))
    /\ KeepReports

AddPacket(p) ==
    /\ Len(log) < MaxPackets
    /\ \/ OpenFlow(p)
       \/ \E k \in ExistingKey(p) :
             \/ ExpireFlow(p, k)
             \/ FinPacket(p, k)
             \/ RstPacket(p, k)
             \/ DataPacket(p, k)
    /\ log' = Append(log, p)
    /\ UNCHANGED config

-----------------------------------------------------------------------------
(* The other operations.                                                   *)

\* get_finished_flows: the caller takes the reported flows.
GetFinishedFlows ==
    /\ finished_flows # {}
    /\ handed' = handed \cup finished_flows
    /\ finished_flows' = {}
    /\ UNCHANGED <<current_flows, finished_flow_count, config, log, dropped>>

OpenFlows == {current_flows[k] : k \in DOMAIN current_flows}

\* Mutated forms: the waiting flows are returned as well; they are cleared
\* but not returned; flushed flows are not counted; or counted down.
MutFinishAllReturnsWaiting ==
    LET long == {f \in OpenFlows : LongEnough(f)} IN
    /\ DOMAIN current_flows # {}
    /\ current_flows' = [k \in {} |-> {}]
    /\ handed' = handed \cup long \cup finished_flows
    /\ dropped' = dropped \cup (OpenFlows \ long)
    /\ finished_flow_count' = finished_flow_count + Cardinality(long)
    /\ UNCHANGED <<finished_flows, config, log>>
MutFinishAllClearsWaiting ==
    LET long == {f \in OpenFlows : LongEnough(f)} IN
    /\ DOMAIN current_flows # {}
    /\ current_flows' = [k \in {} |-> {}]
    /\ handed' = handed \cup long
    /\ dropped' = dropped \cup (OpenFlows \ long)
    /\ finished_flow_count' = finished_flow_count + Cardinality(long)
    /\ finished_flows' = {}
    /\ UNCHANGED <<config, log>>
MutFinishAllUncounted ==
    LET long == {f \in OpenFlows : LongEnough(f)} IN
    /\ DOMAIN current_flows # {}
    /\ current_flows' = [k \in {} |-> {}]
    /\ handed' = handed \cup long
    /\ dropped' = dropped \cup (OpenFlows \ long)
    /\ finished_flow_count' = finished_flow_count
    /\ UNCHANGED <<finished_flows, config, log>>
MutFinishAllCountsDown ==
    LET long == {f \in OpenFlows : LongEnough(f)} IN
    /\ DOMAIN current_flows # {}
    /\ current_flows' = [k \in {} |-> {}]
    /\ handed' = handed \cup long
    /\ dropped' = dropped \cup (OpenFlows \ long)
    /\ finished_flow_count' = finished_flow_count - Cardinality(long)
    /\ UNCHANGED <<finished_flows, config, log>>

\* finish_all_flows: drains the table, straight to the listener or the
\* caller; flows that wait in finished_flows are not touched.
FinishAllFlows ==
    LET long == {f \in OpenFlows : LongEnough(f)} IN
    /\ DOMAIN current_flows # {}
    /\ current_flows' = [k \in {} |-> {}]
    /\ handed' = handed \cup long
    /\ dropped' = dropped \cup (OpenFlows \ long)
    /\ finished_flow_count' = finished_flow_count + Cardinality(long)
    /\ UNCHANGED <<finished_flows, config, log>>

SetMinPackets(n) ==
    /\ min_packets_per_flow' = n
    /\ UNCHANGED <<current_flows, finished_flows, listener,
                   finished_flow_count, log, handed, dropped>>

SetFlowListener ==
    /\ listener' = TRUE
    /\ UNCHANGED <<current_flows, finished_flows, min_packets_per_flow,
                   finished_flow_count, log, handed, dropped>>

Next ==
    \/ \E p \in Packets : AddPacket(p)
    \/ GetFinishedFlows
    \/ FinishAllFlows
    \/ \E n \in MinChoices : SetMinPackets(n)
    \/ SetFlowListener

Spec == Init /\ [][Next]_vars

-----------------------------------------------------------------------------
(* Properties.                                                             *)

TypeOK ==
    /\ DOMAIN current_flows \subseteq Key
    /\ current_flows \in [DOMAIN current_flows -> Flow]
    /\ finished_flows \subseteq Flow
    /\ handed \subseteq Flow
    /\ dropped \subseteq Flow
    /\ listener \in BOOLEAN
    /\ finished_flow_count \in Nat
    /\ min_packets_per_flow \in Nat
    /\ log \in Seq(Packets)

Reported == finished_flows \cup handed
Retired == Reported \cup dropped
AllFlows == OpenFlows \cup Retired

\* The table looks a packet up under its own id and then under the reversed
\* one, and takes the first hit.  That finds "the" flow of a connection only
\* because the two directions are never both in the table, also after an
\* expired flow of one direction is replaced by one of the other.
NoTwinFlows ==
    \A k \in DOMAIN current_flows :
        /\ current_flows[k].key = k
        /\ Reverse(k) \in DOMAIN current_flows => Reverse(k) = k

\* Every packet fed is accounted for in exactly one flow, and every flow is
\* in exactly one place: no path of add_packet loses a packet or a flow,
\* counts one twice, or reports one that stays open.
PacketsAccountedOnce ==
    /\ UNION {f.members : f \in AllFlows} = 1 .. Len(log)
    /\ \A f, g \in AllFlows : f # g => f.members \cap g.members = {}
    /\ \A f \in AllFlows : f.members # {}
    /\ OpenFlows \cap Retired = {}
    /\ Reported \cap dropped = {}
    /\ finished_flows \cap handed = {}

\* total_finished_flows is the number of flows reported, whichever way they
\* left: by add_packet, by finish_all_flows, over the listener or not.
FinishedCountMatches ==
    finished_flow_count = Cardinality(finished_flows) + Cardinality(handed)

\* A flow holds packets of its own connection only, and its two counters are
\* the packets from its source and the others, the closing ones included.
FlowsMatchTheirPackets ==
    \A f \in AllFlows :
        /\ \A i \in f.members : log[i].key \in Connection(f.key)
        /\ f.fwd_packet_count =
             Cardinality({i \in f.members : CountsForward(f, log[i])})
        /\ f.bwd_packet_count =
             Cardinality({i \in f.members : ~CountsForward(f, log[i])})

\* No packet lies later than the flow timeout after the start of its flow,
\* so no reported duration exceeds it, whatever the order of timestamps.
FlowSpanBounded ==
    \A f \in AllFlows :
        /\ \A i \in f.members :
              log[i].timestamp - f.flow_start_time <= FlowTimeout
        /\ FlowDuration(f) <= FlowTimeout

\* A FIN from each side is never left in the table: the flow for which both
\* counters are 1 was closed by the step that got there.
OneFinEachWayCloses ==
    \A f \in OpenFlows : ~(f.f_fin_cnt = 1 /\ f.b_fin_cnt = 1)

\* The flows of one connection follow each other: each takes a stretch of
\* the connection's packets, and the open one takes the last.
FlowsSucceedEachOther ==
    \A f, g \in AllFlows :
        (f # g /\ f.key \in Connection(g.key)) =>
            /\ \/ \A i \in f.members, j \in g.members : i < j
               \/ \A i \in f.members, j \in g.members : j < i
            /\ g \in OpenFlows =>
                 \A i \in f.members, j \in g.members : i < j

\* Two hosts with addresses of one IP version.
OfTwoHosts(k) ==
    k.src_ip # k.dst_ip /\ Len(Octets[k.src_ip]) = Len(Octets[k.dst_ip])

\* The Flow ID column of two rows is the same exactly when they are of one
\* connection, whichever side each flow was opened by and in both comparison
\* modes.  (The ports of one host are left in the order of the first packet.)
ExportedIdsAreCanonical ==
    \A f, g \in AllFlows : OfTwoHosts(f.key) /\ OfTwoHosts(g.key) =>
        \A compat_mode \in BOOLEAN :
            GenerateFlowId(f.key, compat_mode) = GenerateFlowId(g.key, compat_mode)
              <=> f.key \in Connection(g.key)

\* A flow, once reported or dropped, is never seen again in another place,
\* nor changed; a report that waits can only be handed over.
RetiredStaysRetired ==
    [][ /\ handed \subseteq handed'
        /\ dropped \subseteq dropped'
        /\ finished_flows \subseteq Reported' ]_vars

Members(F) == {f.members : f \in F}

Ledger == INSTANCE FlowLedger WITH
    Connections <- {Connection(p.key) : p \in Packets},
    fed <- [i \in 1 .. Len(log) |-> Connection(log[i].key)],
    open <- Members(OpenFlows),
    reported <- Members(Reported),
    discarded <- Members(dropped),
    minimum <- min_packets_per_flow

\* The table, with its two-way lookup, its timeout and its teardown rules,
\* does nothing to the packets of a connection but what FlowLedger allows.
ImplementsLedger == Ledger!Spec
=============================================================================
