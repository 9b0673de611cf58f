------------------------ MODULE FlowGenerator_proofs ------------------------
(***************************************************************************)
(* Theorems about the flow table, for every set of packets, timeout,       *)
(* minimum and bound, in the bidirectional and unidirectional modes.       *)
(***************************************************************************)
EXTENDS FlowGenerator, SumLemmas, SequenceTheorems, TLAPS

-----------------------------------------------------------------------------
(* The operators on the records of a flow.                                 *)

\* A summary stays a summary.
LEMMA AddValueType ==
    ASSUME NEW s \in Stats, NEW v \in Int
    PROVE  AddValue(s, v) \in Stats
BY DEF Stats, AddValue

\* Every operation of the subflow tracker yields a tracker.
LEMMA TrackFirstType ==
    ASSUME NEW t \in Tracker, NEW ts \in Int
    PROVE  TrackFirst(t, ts) \in Tracker
BY DEF Tracker, TrackFirst

LEMMA UpdateActiveIdleType ==
    ASSUME NEW t \in Tracker, NEW ts \in Int
    PROVE  UpdateActiveIdle(t, ts) \in Tracker
<1>1. LogActive(t) \in Stats
  BY AddValueType DEF LogActive, Tracker
<1>2. AddValue(t.flow_idle_stats, ts - t.end_active_time) \in Stats
  BY AddValueType DEF Tracker
<1>3. QED
  BY <1>1, <1>2 DEF UpdateActiveIdle, Tracker

LEMMA UpdateSubflowType ==
    ASSUME NEW t \in Tracker, NEW ts \in Int
    PROVE  UpdateSubflow(t, ts) \in Tracker
<1>1. [t EXCEPT !.sf_count = @ + 1] \in Tracker
  BY DEF Tracker
<1>2. StartSubflow(t, ts) \in Tracker
  <2> DEFINE u == UpdateActiveIdle([t EXCEPT !.sf_count = @ + 1], ts)
  <2>1. u \in Tracker
    BY <1>1, UpdateActiveIdleType
  <2> HIDE DEF u
  <2>2. [u EXCEPT !.sf_ac_helper = ts, !.sf_last_packet_ts = ts] \in Tracker
    BY <2>1 DEF Tracker
  <2>3. QED
    BY <2>2 DEF StartSubflow, u
<1>3. [t EXCEPT !.sf_last_packet_ts = ts] \in Tracker
  BY DEF Tracker
<1>4. QED
  BY <1>2, <1>3, TrackFirstType DEF UpdateSubflow

LEMMA NewTrackerType == NewTracker \in Tracker
BY DEF NewTracker, Tracker, NewStats, Stats, Unset

\* A new flow is well formed and holds the packet that opened it.
LEMMA NewFlowFacts ==
    ASSUME NEW p \in PacketInfo, NEW id \in Nat \ {0}
    PROVE  /\ NewFlow(p, id) \in Flow
           /\ NewFlow(p, id).key = p.key
           /\ NewFlow(p, id).members = {id}
           /\ NewFlow(p, id).flow_start_time = p.timestamp
           /\ NewFlow(p, id).flow_last_seen = p.timestamp
           /\ NewFlow(p, id).fwd_packet_count = 1
           /\ NewFlow(p, id).bwd_packet_count = 0
           /\ NewFlow(p, id).f_fin_cnt = 0
           /\ NewFlow(p, id).b_fin_cnt = 0
           /\ NewFlow(p, id).subflow =
                TrackFirst(UpdateSubflow(NewTracker, p.timestamp), p.timestamp)
<1> DEFINE t == TrackFirst(UpdateSubflow(NewTracker, p.timestamp), p.timestamp)
<1>1. p.timestamp \in Int /\ p.key \in Key
  BY DEF PacketInfo
<1>2. t \in Tracker
  BY <1>1, NewTrackerType, UpdateSubflowType, TrackFirstType
<1> HIDE DEF t
<1>3. NewFlow(p, id) =
        [key |-> p.key,
         flow_start_time |-> p.timestamp, flow_last_seen |-> p.timestamp,
         fwd_packet_count |-> 1, bwd_packet_count |-> 0,
         f_fin_cnt |-> 0, b_fin_cnt |-> 0, subflow |-> t, members |-> {id}]
  BY DEF NewFlow, FwdId, t
<1>4. QED
  BY <1>1, <1>2, <1>3 DEF Flow, t

\* A packet added to a flow changes the flow's packets, one of its counters,
\* its last time and its tracker, and nothing else.
LEMMA AddToFlowFacts ==
    ASSUME NEW f \in Flow, NEW p \in PacketInfo, NEW id \in Nat \ {0}
    PROVE  LET g == AddToFlow(f, p, id) IN
           /\ g \in Flow
           /\ g.key = f.key
           /\ g.members = f.members \cup {id}
           /\ g.flow_start_time = f.flow_start_time
           /\ g.flow_last_seen = p.timestamp
           /\ g.fwd_packet_count =
                IF CountsForward(f, p) THEN f.fwd_packet_count + 1
                                       ELSE f.fwd_packet_count
           /\ g.bwd_packet_count =
                IF CountsForward(f, p) THEN f.bwd_packet_count
                                       ELSE f.bwd_packet_count + 1
           /\ g.f_fin_cnt = f.f_fin_cnt
           /\ g.b_fin_cnt = f.b_fin_cnt
           /\ g.subflow = UpdateSubflow(f.subflow, p.timestamp)
<1>1. UpdateSubflow(f.subflow, p.timestamp) \in Tracker
  BY UpdateSubflowType DEF Flow, PacketInfo
<1>2. p.timestamp \in Int
  BY DEF PacketInfo
<1> DEFINE t == UpdateSubflow(f.subflow, p.timestamp)
           c == IF CountsForward(f, p) THEN f.fwd_packet_count + 1
                                       ELSE f.fwd_packet_count
           d == IF CountsForward(f, p) THEN f.bwd_packet_count
                                       ELSE f.bwd_packet_count + 1
           m == f.members \cup {id}
<1>3. /\ c \in Nat /\ d \in Nat /\ t \in Tracker
      /\ m \in SUBSET (Nat \ {0})
  BY <1>1 DEF Flow
<1>4. AddToFlow(f, p, id) =
        [f EXCEPT !.subflow = t, !.fwd_packet_count = c,
                  !.bwd_packet_count = d, !.flow_last_seen = p.timestamp,
                  !.members = m]
  BY DEF AddToFlow, Flow
<1> HIDE DEF t, c, d, m
<1>5. /\ AddToFlow(f, p, id) \in Flow
      /\ AddToFlow(f, p, id).fwd_packet_count = c
      /\ AddToFlow(f, p, id).bwd_packet_count = d
      /\ AddToFlow(f, p, id).members = m
      /\ AddToFlow(f, p, id).flow_last_seen = p.timestamp
      /\ AddToFlow(f, p, id).subflow = t
  BY <1>2, <1>3, <1>4 DEF Flow
<1>6. QED
  BY <1>4, <1>5 DEF Flow, t, c, d, m

\* Counting a FIN and extending the active period leave a flow's identity,
\* times, packets and packet counts alone.
SameBody(f, g) ==
    /\ g \in Flow
    /\ g.key = f.key
    /\ g.members = f.members
    /\ g.flow_start_time = f.flow_start_time
    /\ g.flow_last_seen = f.flow_last_seen
    /\ g.fwd_packet_count = f.fwd_packet_count
    /\ g.bwd_packet_count = f.bwd_packet_count

LEMMA SetFinFacts ==
    ASSUME NEW f \in Flow, NEW p \in PacketInfo
    PROVE  SameBody(f, SetFin(f, p)) /\ SetFin(f, p).subflow = f.subflow
BY DEF SameBody, SetFin, Flow

LEMMA TouchFacts ==
    ASSUME NEW f \in Flow, NEW p \in PacketInfo
    PROVE  /\ SameBody(f, Touch(f, p))
           /\ Touch(f, p).f_fin_cnt = f.f_fin_cnt
           /\ Touch(f, p).b_fin_cnt = f.b_fin_cnt
           /\ Touch(f, p).subflow = UpdateActiveIdle(f.subflow, p.timestamp)
<1>1. UpdateActiveIdle(f.subflow, p.timestamp) \in Tracker
  BY UpdateActiveIdleType DEF Flow, PacketInfo
<1>2. QED
  BY <1>1 DEF SameBody, Touch, Flow

-----------------------------------------------------------------------------
(* Keys.                                                                   *)

LEMMA ReverseFacts ==
    ASSUME NEW k \in Key
    PROVE  Reverse(k) \in Key /\ Reverse(Reverse(k)) = k
BY DEF Key, Reverse

\* Two keys of one connection have the same connection.
LEMMA ConnectionFacts ==
    ASSUME NEW k \in Key, NEW j \in Connection(k)
    PROVE  j \in Key /\ k \in Connection(j) /\ Connection(j) = Connection(k)
BY ReverseFacts DEF Connection

LEMMA PacketTypes ==
    ASSUME NEW p \in Packets
    PROVE  p \in PacketInfo /\ p.key \in Key /\ p.timestamp \in Int
BY GeneratorAssumption DEF PacketInfo

-----------------------------------------------------------------------------
(* Type correctness.                                                       *)

LEMMA IdType ==
    ASSUME log \in Seq(Packets)
    PROVE  Id \in Nat \ {0} /\ Id = Len(log) + 1 /\ Len(log) \in Nat
BY DEF Id

\* Retiring a well-formed flow keeps the reports well formed.
LEMMA RetireType ==
    ASSUME TypeOK, NEW r \in Flow, Retire(r)
    PROVE  /\ finished_flows' \subseteq Flow
           /\ handed' \subseteq Flow
           /\ dropped' \subseteq Flow
           /\ finished_flow_count' \in Nat
BY DEF TypeOK, Retire

TableOK(flows) == DOMAIN flows \subseteq Key /\ flows \in [DOMAIN flows -> Flow]

LEMMA WithType ==
    ASSUME NEW flows, TableOK(flows), NEW k \in Key, NEW f \in Flow
    PROVE  TableOK(With(flows, k, f))
BY DEF TableOK, With

LEMMA WithoutType ==
    ASSUME TableOK(current_flows), NEW k
    PROVE  TableOK(Without(k))
BY DEF TableOK, Without

LEMMA PutType ==
    ASSUME TableOK(current_flows), NEW k, NEW f \in Flow, Put(k, f)
    PROVE  TableOK(current_flows')
BY DEF TableOK, Put

\* What a packet that joins a flow makes of its tracker: on some branches the
\* active period has been extended before the tracker sees the packet.
Tracked(t, ts) ==
    {UpdateSubflow(t, ts), UpdateSubflow(UpdateActiveIdle(t, ts), ts)}

Finless(f) == f.f_fin_cnt = 0 /\ f.b_fin_cnt = 0

\* What the FIN, RST and data branches do to the flow they found.
Grown(f, g, p) ==
    /\ g \in Flow
    /\ g.key = f.key
    /\ g.members = f.members \cup {Id}
    /\ g.flow_start_time = f.flow_start_time
    /\ g.flow_last_seen = p.timestamp
    /\ g.fwd_packet_count =
         IF CountsForward(f, p) THEN f.fwd_packet_count + 1
                                ELSE f.fwd_packet_count
    /\ g.bwd_packet_count =
         IF CountsForward(f, p) THEN f.bwd_packet_count
                                ELSE f.bwd_packet_count + 1
    /\ g.subflow \in Tracked(f.subflow, p.timestamp)
    /\ Finless(g) => Finless(f)

\* Before any FIN, a flow that stays open has its active period extended.
Extended(f, g, p) ==
    Finless(g) =>
        g.subflow = UpdateSubflow(UpdateActiveIdle(f.subflow, p.timestamp), p.timestamp)

LEMMA GrownByAdd ==
    ASSUME log \in Seq(Packets), NEW f \in Flow, NEW e, NEW p \in Packets,
           SameBody(f, e), Finless(e) => Finless(f),
           e.subflow \in {f.subflow, UpdateActiveIdle(f.subflow, p.timestamp)}
    PROVE  /\ Grown(f, AddToFlow(e, p, Id), p)
           /\ Finless(AddToFlow(e, p, Id)) <=> Finless(e)
           /\ AddToFlow(e, p, Id).subflow = UpdateSubflow(e.subflow, p.timestamp)
<1>1. e \in Flow /\ (CountsForward(e, p) <=> CountsForward(f, p))
  BY DEF SameBody, CountsForward
<1>2. p \in PacketInfo /\ Id \in Nat \ {0}
  BY IdType, PacketTypes
<1> DEFINE g == AddToFlow(e, p, Id)
<1>3. /\ g \in Flow /\ g.key = e.key /\ g.members = e.members \cup {Id}
      /\ g.flow_start_time = e.flow_start_time
      /\ g.flow_last_seen = p.timestamp
      /\ g.fwd_packet_count =
           IF CountsForward(e, p) THEN e.fwd_packet_count + 1
                                  ELSE e.fwd_packet_count
      /\ g.bwd_packet_count =
           IF CountsForward(e, p) THEN e.bwd_packet_count
                                  ELSE e.bwd_packet_count + 1
      /\ g.f_fin_cnt = e.f_fin_cnt /\ g.b_fin_cnt = e.b_fin_cnt
      /\ g.subflow = UpdateSubflow(e.subflow, p.timestamp)
  BY <1>1, <1>2, AddToFlowFacts
<1> HIDE DEF g
<1>4. Finless(g) <=> Finless(e)
  BY <1>3 DEF Finless
<1>5. Grown(f, g, p)
  BY <1>1, <1>3, <1>4 DEF SameBody, Grown, Tracked
<1>6. QED
  BY <1>3, <1>4, <1>5 DEF g

\* The three ways on for a flow that has not expired, and the fourth for one
\* that has: every branch of add_packet that finds a flow takes one of them.
Grows(p, k) ==
    \E g : /\ Grown(current_flows[k], g, p)
           /\ Extended(current_flows[k], g, p)
           /\ Put(k, g)
           /\ KeepReports
GrowsAndEnds(p, k) ==
    \E g : /\ Grown(current_flows[k], g, p)
           /\ Retire(g)
           /\ current_flows' = Without(k)

LEMMA FoundFlowShape ==
    ASSUME TypeOK, NEW p \in Packets, NEW k \in DOMAIN current_flows,
           FinPacket(p, k) \/ RstPacket(p, k) \/ DataPacket(p, k)
    PROVE  /\ ~Expired(current_flows[k], p)
           /\ Grows(p, k) \/ GrowsAndEnds(p, k)
<1> DEFINE f == current_flows[k]
           e == SetFin(f, p)
<1>1. f \in Flow /\ log \in Seq(Packets) /\ p \in PacketInfo
  BY PacketTypes DEF TypeOK
<1>2. SameBody(f, f)
  BY <1>1 DEF SameBody
<1>3. SameBody(f, e) /\ e \in Flow /\ e.subflow = f.subflow
  BY <1>1, SetFinFacts DEF SameBody
<1>4. /\ SameBody(f, Touch(e, p)) /\ SameBody(f, Touch(f, p))
      /\ Touch(e, p).subflow = UpdateActiveIdle(f.subflow, p.timestamp)
      /\ Touch(f, p).subflow = UpdateActiveIdle(f.subflow, p.timestamp)
      /\ Finless(Touch(e, p)) <=> Finless(e)
      /\ Finless(Touch(f, p)) <=> Finless(f)
  BY <1>1, <1>3, TouchFacts DEF SameBody, Finless
<1>5. ~Finless(e)
  BY <1>1 DEF e, SetFin, Finless, Flow
<1>6. /\ Grown(f, AddToFlow(f, p, Id), p)
      /\ Grown(f, AddToFlow(e, p, Id), p) /\ ~Finless(AddToFlow(e, p, Id))
      /\ Grown(f, AddToFlow(Touch(e, p), p, Id), p)
      /\ ~Finless(AddToFlow(Touch(e, p), p, Id))
      /\ Grown(f, AddToFlow(Touch(f, p), p, Id), p)
      /\ AddToFlow(Touch(f, p), p, Id).subflow =
           UpdateSubflow(UpdateActiveIdle(f.subflow, p.timestamp), p.timestamp)
      /\ Finless(AddToFlow(f, p, Id)) <=> Finless(f)
  BY <1>1, <1>2, <1>3, <1>4, <1>5, GrownByAdd
<1>7. OwnFins(f, p) # 0 => ~Finless(AddToFlow(f, p, Id))
  BY <1>6 DEF OwnFins, Finless
<1>8. /\ Extended(f, AddToFlow(e, p, Id), p)
      /\ Extended(f, AddToFlow(Touch(e, p), p, Id), p)
      /\ Extended(f, AddToFlow(Touch(f, p), p, Id), p)
      /\ OwnFins(f, p) # 0 => Extended(f, AddToFlow(f, p, Id), p)
  BY <1>6, <1>7 DEF Extended
<1> HIDE DEF e
<1>9. ~Expired(f, p)
  BY DEF FinPacket, RstPacket, DataPacket
<1>10. ASSUME NEW g, Grown(f, g, p), Extended(f, g, p), Put(k, g), KeepReports
       PROVE  Grows(p, k)
  BY <1>10 DEF Grows
<1>11. ASSUME NEW g, Grown(f, g, p), Retire(g), current_flows' = Without(k)
       PROVE  GrowsAndEnds(p, k)
  BY <1>11 DEF GrowsAndEnds
<1>12. CASE FinPacket(p, k)
  <2>1. \/ Retire(AddToFlow(e, p, Id)) /\ current_flows' = Without(k)
        \/ Put(k, AddToFlow(Touch(e, p), p, Id)) /\ KeepReports
        \/ Put(k, AddToFlow(e, p, Id)) /\ KeepReports
    BY <1>12 DEF FinPacket, e
  <2>2. CASE Retire(AddToFlow(e, p, Id)) /\ current_flows' = Without(k)
    <3>1. GrowsAndEnds(p, k)
      BY ONLY <1>6, <1>11, <2>2
    <3>2. QED
      BY <1>9, <3>1
  <2>3. CASE Put(k, AddToFlow(Touch(e, p), p, Id)) /\ KeepReports
    <3>1. PICK g : g = AddToFlow(Touch(e, p), p, Id)
      OBVIOUS
    <3>2. Put(k, g) /\ KeepReports
      BY ONLY <2>3, <3>1 DEF Put
    <3>3. Grown(f, g, p)
      BY ONLY <1>6, <3>1
    <3>4. Extended(f, g, p)
      BY ONLY <1>8, <3>1
    <3>5. QED
      BY <1>9, <1>10, <3>2, <3>3, <3>4
  <2>4. CASE Put(k, AddToFlow(e, p, Id)) /\ KeepReports
    <3>1. PICK g : g = AddToFlow(e, p, Id)
      OBVIOUS
    <3>2. Put(k, g) /\ KeepReports
      BY ONLY <2>4, <3>1 DEF Put
    <3>3. Grown(f, g, p)
      BY ONLY <1>6, <3>1
    <3>4. Extended(f, g, p)
      BY ONLY <1>8, <3>1
    <3>5. QED
      BY <1>9, <1>10, <3>2, <3>3, <3>4
  <2>5. QED
    BY <2>1, <2>2, <2>3, <2>4
<1>13. CASE RstPacket(p, k)
  <2>1. Retire(AddToFlow(f, p, Id)) /\ current_flows' = Without(k)
    BY <1>13 DEF RstPacket
  <2>2. GrowsAndEnds(p, k)
    BY ONLY <1>6, <1>11, <2>1
  <2>3. QED
    BY <1>9, <2>2
<1>14. CASE DataPacket(p, k)
  <2>1. /\ KeepReports
        /\ \/ Put(k, AddToFlow(Touch(f, p), p, Id))
           \/ OwnFins(f, p) # 0 /\ Put(k, AddToFlow(f, p, Id))
    BY <1>14 DEF DataPacket
  <2>2. PICK g : /\ g \in {AddToFlow(Touch(f, p), p, Id), AddToFlow(f, p, Id)}
                 /\ Put(k, g)
                 /\ g = AddToFlow(Touch(f, p), p, Id) \/ OwnFins(f, p) # 0
    BY <2>1 DEF Put
  <2>3. Grown(f, g, p)
    BY ONLY <1>6, <2>2
  <2>4. Extended(f, g, p)
    BY ONLY <1>8, <2>2
  <2>5. QED
    BY <1>9, <1>10, <2>1, <2>2, <2>3, <2>4
<1>15. QED
  BY <1>12, <1>13, <1>14

\* Feeding a packet keeps every variable in its type.
LEMMA AddPacketType ==
    ASSUME TypeOK, NEW p \in Packets, AddPacket(p)
    PROVE  TypeOK'
<1>1. /\ p \in PacketInfo /\ FwdId(p) \in Key
      /\ Id \in Nat \ {0}
      /\ TableOK(current_flows)
  BY PacketTypes, IdType DEF TypeOK, FwdId, TableOK
<1>2. NewFlow(p, Id) \in Flow
  BY <1>1, NewFlowFacts
<1>3. ExistingKey(p) \subseteq DOMAIN current_flows
  BY DEF ExistingKey
<1>4. log' \in Seq(Packets)
  BY DEF AddPacket, TypeOK
<1>5. listener' \in BOOLEAN /\ min_packets_per_flow' \in Nat
  BY DEF AddPacket, TypeOK, config
<1>6. SUFFICES /\ TableOK(current_flows')
               /\ finished_flows' \subseteq Flow
               /\ handed' \subseteq Flow
               /\ dropped' \subseteq Flow
               /\ finished_flow_count' \in Nat
  BY <1>4, <1>5 DEF TypeOK, TableOK
<1>7. CASE OpenFlow(p)
  <2>1. TableOK(current_flows')
    BY <1>1, <1>2, <1>7, WithType DEF OpenFlow
  <2>2. QED
    BY <1>7, <2>1 DEF OpenFlow, KeepReports, TypeOK
<1>8. ASSUME NEW k \in ExistingKey(p), ExpireFlow(p, k)
      PROVE  /\ TableOK(current_flows')
             /\ finished_flows' \subseteq Flow
             /\ handed' \subseteq Flow
             /\ dropped' \subseteq Flow
             /\ finished_flow_count' \in Nat
  <2>1. TableOK(current_flows')
    BY <1>1, <1>2, <1>8, WithType, WithoutType DEF ExpireFlow
  <2>2. current_flows[k] \in Flow
    BY <1>3 DEF TypeOK
  <2>3. QED
    BY <1>8, <2>1, <2>2, RetireType DEF ExpireFlow
<1>9. ASSUME NEW k \in ExistingKey(p),
             FinPacket(p, k) \/ RstPacket(p, k) \/ DataPacket(p, k)
      PROVE  /\ TableOK(current_flows')
             /\ finished_flows' \subseteq Flow
             /\ handed' \subseteq Flow
             /\ dropped' \subseteq Flow
             /\ finished_flow_count' \in Nat
  <2>1. Grows(p, k) \/ GrowsAndEnds(p, k)
    BY <1>3, <1>9, FoundFlowShape
  <2>2. CASE Grows(p, k)
    <3>1. TableOK(current_flows')
      BY <1>1, <2>2, PutType DEF Grows, Grown
    <3>2. QED
      BY <2>2, <3>1 DEF Grows, KeepReports, TypeOK
  <2>3. CASE GrowsAndEnds(p, k)
    <3>1. TableOK(current_flows')
      BY <1>1, <2>3, WithoutType DEF GrowsAndEnds
    <3>2. QED
      BY <2>3, <3>1, RetireType DEF GrowsAndEnds, Grown
  <2>4. QED
    BY <2>1, <2>2, <2>3
<1>10. QED
  BY <1>7, <1>8, <1>9 DEF AddPacket

\* OpenFlows and LongEnough flows are flows.
LEMMA OpenFlowsType ==
    ASSUME TypeOK
    PROVE  OpenFlows \subseteq Flow
BY DEF TypeOK, OpenFlows

\* The number of flows that finish_all_flows reports is a number: the table
\* is finite.
TableFinite == IsFiniteSet(DOMAIN current_flows)

LEMMA LongFinite ==
    ASSUME TypeOK, TableFinite
    PROVE  /\ IsFiniteSet(OpenFlows)
           /\ IsFiniteSet({f \in OpenFlows : LongEnough(f)})
           /\ Cardinality({f \in OpenFlows : LongEnough(f)}) \in Nat
<1>1. IsFiniteSet(OpenFlows)
  <2>1. current_flows \in Surjection(DOMAIN current_flows, OpenFlows)
    BY DEF TypeOK, OpenFlows, Surjection
  <2>2. QED
    BY <2>1, FS_Surjection DEF TableFinite
<1>2. IsFiniteSet({f \in OpenFlows : LongEnough(f)})
  BY <1>1, FS_Subset
<1>3. QED
  BY <1>1, <1>2, FS_CardinalityType

TypeInv == TypeOK /\ TableFinite

LEMMA TypeInit == Init => TypeInv
<1> SUFFICES ASSUME Init PROVE TypeInv
  OBVIOUS
<1>1. DOMAIN current_flows = {}
  BY DEF Init
<1>2. TableFinite
  BY <1>1, FS_EmptySet DEF TableFinite
<1>3. current_flows \in [DOMAIN current_flows -> Flow]
  BY <1>1 DEF Init
<1>4. /\ DOMAIN current_flows \subseteq Key
      /\ finished_flows \subseteq Flow
      /\ handed \subseteq Flow
      /\ dropped \subseteq Flow
      /\ listener \in BOOLEAN
      /\ finished_flow_count \in Nat
      /\ min_packets_per_flow \in Nat
  BY <1>1 DEF Init
<1>5. log \in Seq(Packets)
  <2>1. log = <<>>
    BY DEF Init
  <2>2. QED
    BY <2>1
<1>6. QED
  BY <1>2, <1>3, <1>4, <1>5 DEF TypeInv, TypeOK

LEMMA AddPacketFinite ==
    ASSUME TypeInv, NEW p \in Packets, AddPacket(p)
    PROVE  TableFinite'
<1>1. ASSUME NEW k PROVE IsFiniteSet((DOMAIN current_flows \ {k}) \cup {FwdId(p)})
  BY FS_RemoveElement, FS_AddElement DEF TypeInv, TableFinite
<1>2. IsFiniteSet(DOMAIN current_flows \cup {FwdId(p)})
  BY FS_AddElement DEF TypeInv, TableFinite
<1>3. \A k : IsFiniteSet(DOMAIN current_flows \ {k})
  BY FS_RemoveElement DEF TypeInv, TableFinite
<1>4. ExistingKey(p) \subseteq DOMAIN current_flows /\ TypeOK
  BY DEF ExistingKey, TypeInv
<1>5. CASE OpenFlow(p)
  BY <1>2, <1>5 DEF OpenFlow, With, TableFinite
<1>6. ASSUME NEW k \in ExistingKey(p), ExpireFlow(p, k) PROVE TableFinite'
  BY <1>1, <1>6 DEF ExpireFlow, With, Without, TableFinite
<1>7. ASSUME NEW k \in ExistingKey(p),
             FinPacket(p, k) \/ RstPacket(p, k) \/ DataPacket(p, k)
      PROVE  TableFinite'
  <2>1. Grows(p, k) \/ GrowsAndEnds(p, k)
    BY <1>4, <1>7, FoundFlowShape
  <2>2. CASE Grows(p, k)
    BY <2>2 DEF Grows, Put, TypeInv, TableFinite
  <2>3. CASE GrowsAndEnds(p, k)
    BY <1>3, <2>3 DEF GrowsAndEnds, Without, TableFinite
  <2>4. QED
    BY <2>1, <2>2, <2>3
<1>8. QED
  BY <1>5, <1>6, <1>7 DEF AddPacket

LEMMA TypeStep == TypeInv /\ [Next]_vars => TypeInv'
<1> SUFFICES ASSUME TypeInv, [Next]_vars PROVE TypeInv'
  OBVIOUS
<1>1. ASSUME NEW p \in Packets, AddPacket(p) PROVE TypeInv'
  BY <1>1, AddPacketType, AddPacketFinite DEF TypeInv
<1>2. CASE GetFinishedFlows
  BY <1>2 DEF GetFinishedFlows, TypeInv, TypeOK, TableFinite, config
<1>3. CASE FinishAllFlows
  <2> DEFINE long == {f \in OpenFlows : LongEnough(f)}
  <2>1. Cardinality(long) \in Nat
    BY LongFinite DEF TypeInv
  <2>2. OpenFlows \subseteq Flow
    BY OpenFlowsType DEF TypeInv
  <2>3. DOMAIN current_flows' = {}
    BY <1>3 DEF FinishAllFlows
  <2>4. TableFinite'
    BY <2>3, FS_EmptySet DEF TableFinite
  <2>5. current_flows' \in [DOMAIN current_flows' -> Flow]
    BY <1>3, <2>3 DEF FinishAllFlows
  <2>6. /\ handed' = handed \cup long
        /\ dropped' = dropped \cup (OpenFlows \ long)
        /\ finished_flow_count' = finished_flow_count + Cardinality(long)
        /\ UNCHANGED <<finished_flows, listener, min_packets_per_flow, log>>
    BY <1>3 DEF FinishAllFlows, config
  <2>7. handed' \subseteq Flow /\ dropped' \subseteq Flow
    BY <2>2, <2>6 DEF TypeInv, TypeOK
  <2>8. finished_flow_count' \in Nat
    BY <2>1, <2>6 DEF TypeInv, TypeOK
  <2>9. TypeOK'
    BY <2>3, <2>5, <2>6, <2>7, <2>8 DEF TypeInv, TypeOK
  <2>10. QED
    BY <2>4, <2>9 DEF TypeInv
<1>4. ASSUME NEW n \in MinChoices, SetMinPackets(n) PROVE TypeInv'
  BY <1>4, GeneratorAssumption DEF SetMinPackets, TypeInv, TypeOK, TableFinite
<1>5. CASE SetFlowListener
  BY <1>5 DEF SetFlowListener, TypeInv, TypeOK, TableFinite
<1>6. CASE UNCHANGED vars
  BY <1>6 DEF vars, config, TypeInv, TypeOK, TableFinite
<1>7. QED
  BY <1>1, <1>2, <1>3, <1>4, <1>5, <1>6 DEF Next

\* Every state variable stays in its type, and the table stays finite.
THEOREM TypeCorrect == Spec => []TypeInv
BY TypeInit, TypeStep, PTL DEF Spec

\* The type invariant that the runs check.
THEOREM TypeSafe == Spec => []TypeOK
<1>1. TypeInv => TypeOK
  BY DEF TypeInv
<1>2. QED
  BY <1>1, TypeCorrect, PTL

-----------------------------------------------------------------------------
(* The two directions of a connection are never both in the table.         *)

\* The key under which add_packet finds a flow is one of the packet's two,
\* and if it finds none, neither is in the table.
LEMMA ExistingKeyFacts ==
    ASSUME TypeOK, NEW p \in Packets
    PROVE  /\ ExistingKey(p) \subseteq DOMAIN current_flows
           /\ ExistingKey(p) \subseteq Connection(p.key)
           /\ ExistingKey(p) = {} =>
                \A j \in Connection(p.key) : j \notin DOMAIN current_flows
BY DEF ExistingKey, FwdId, BwdId, Connection

LEMMA NoTwinInit == Init => NoTwinFlows
BY DEF Init, NoTwinFlows

LEMMA NoTwinStep == TypeInv /\ NoTwinFlows /\ [Next]_vars => NoTwinFlows'
<1> SUFFICES ASSUME TypeInv, NoTwinFlows, [Next]_vars PROVE NoTwinFlows'
  OBVIOUS
<1>0. TypeOK
  BY DEF TypeInv
<1>1. ASSUME NEW p \in Packets, AddPacket(p) PROVE NoTwinFlows'
  <2> DEFINE n == NewFlow(p, Id)
  <2>1. n.key = p.key /\ p.key \in Key /\ FwdId(p) = p.key
    BY <1>0, PacketTypes, IdType, NewFlowFacts DEF TypeOK, FwdId
  <2>2. \A k \in DOMAIN current_flows : Reverse(Reverse(k)) = k
    BY <1>0, ReverseFacts DEF TypeOK
  <2>3. Reverse(Reverse(p.key)) = p.key
    BY <2>1, ReverseFacts
  <2> HIDE DEF n
  <2>4. CASE OpenFlow(p)
    <3>1. /\ current_flows' = With(current_flows, p.key, n)
          /\ p.key \notin DOMAIN current_flows
          /\ Reverse(p.key) \notin DOMAIN current_flows
      BY <1>0, <2>1, <2>4, ExistingKeyFacts DEF OpenFlow, n, Connection
    <3>2. QED
      BY <2>1, <2>2, <3>1 DEF NoTwinFlows, With
  <2>5. ASSUME NEW k \in ExistingKey(p), ExpireFlow(p, k) PROVE NoTwinFlows'
    <3>1. k \in DOMAIN current_flows /\ (k = p.key \/ k = Reverse(p.key))
      BY <1>0, ExistingKeyFacts DEF Connection
    <3>2. current_flows' = With(Without(k), p.key, n)
      BY <2>1, <2>5 DEF ExpireFlow, n
    <3>3. /\ DOMAIN current_flows' = (DOMAIN current_flows \ {k}) \cup {p.key}
          /\ current_flows'[p.key] = n
          /\ \A j \in DOMAIN current_flows \ {k} :
                j # p.key => current_flows'[j] = current_flows[j]
      BY <3>2 DEF With, Without
    <3>4. QED
      BY <2>1, <2>2, <2>3, <3>1, <3>3 DEF NoTwinFlows
  <2>6. ASSUME NEW k \in ExistingKey(p),
               FinPacket(p, k) \/ RstPacket(p, k) \/ DataPacket(p, k)
        PROVE  NoTwinFlows'
    <3>1. k \in DOMAIN current_flows
      BY <1>0, ExistingKeyFacts
    <3>2. Grows(p, k) \/ GrowsAndEnds(p, k)
      BY <1>0, <2>6, <3>1, FoundFlowShape
    <3>3. CASE Grows(p, k)
      BY <1>0, <3>1, <3>3 DEF Grows, Grown, Put, NoTwinFlows, TypeOK
    <3>4. CASE GrowsAndEnds(p, k)
      BY <3>4 DEF GrowsAndEnds, Without, NoTwinFlows
    <3>5. QED
      BY <3>2, <3>3, <3>4
  <2>7. QED
    BY <1>1, <2>4, <2>5, <2>6 DEF AddPacket
<1>2. CASE GetFinishedFlows
  BY <1>2 DEF GetFinishedFlows, NoTwinFlows
<1>3. CASE FinishAllFlows
  BY <1>3 DEF FinishAllFlows, NoTwinFlows
<1>4. ASSUME NEW n \in MinChoices, SetMinPackets(n) PROVE NoTwinFlows'
  BY <1>4 DEF SetMinPackets, NoTwinFlows
<1>5. CASE SetFlowListener
  BY <1>5 DEF SetFlowListener, NoTwinFlows
<1>6. CASE UNCHANGED vars
  BY <1>6 DEF vars, NoTwinFlows
<1>7. QED
  BY <1>1, <1>2, <1>3, <1>4, <1>5, <1>6 DEF Next

\* The table never holds a connection under both of its keys, so the lookup
\* of add_packet, which stops at the first hit, always finds the flow.
THEOREM LookupUnambiguous == Spec => []NoTwinFlows
<1>1. Init => TypeInv /\ NoTwinFlows
  BY TypeInit, NoTwinInit
<1>2. TypeInv /\ NoTwinFlows /\ [Next]_vars => (TypeInv /\ NoTwinFlows)'
  BY TypeStep, NoTwinStep
<1>3. QED
  BY <1>1, <1>2, PTL DEF Spec

\* A connection has one open flow at most.
LEMMA OneOpenFlow ==
    ASSUME TypeOK, NoTwinFlows, NEW f \in OpenFlows, NEW h \in OpenFlows,
           h.key \in Connection(f.key)
    PROVE  h = f
<1>1. PICK k \in DOMAIN current_flows : f = current_flows[k]
  BY DEF OpenFlows
<1>2. PICK j \in DOMAIN current_flows : h = current_flows[j]
  BY DEF OpenFlows
<1>3. f.key = k /\ h.key = j
  BY <1>1, <1>2 DEF NoTwinFlows
<1>4. j = k
  BY <1>3 DEF NoTwinFlows, Connection
<1>5. QED
  BY <1>1, <1>2, <1>4

-----------------------------------------------------------------------------
(* One packet, seen as a change of the set of open flows.                  *)

Started(p) == NewFlow(p, Id)
Others(p) == {h \in OpenFlows : h.key \notin Connection(p.key)}

LEMMA StartedFacts ==
    ASSUME TypeOK, NEW p \in Packets
    PROVE  /\ Started(p) \in Flow
           /\ Started(p).key = p.key
           /\ Started(p).members = {Id}
           /\ Started(p).flow_start_time = p.timestamp
           /\ Started(p).flow_last_seen = p.timestamp
           /\ Started(p).fwd_packet_count = 1
           /\ Started(p).bwd_packet_count = 0
           /\ Started(p).subflow =
                TrackFirst(UpdateSubflow(NewTracker, p.timestamp), p.timestamp)
BY PacketTypes, IdType, NewFlowFacts DEF TypeOK, Started

\* A packet whose connection has no open flow starts one.
Starts(p) ==
    /\ Others(p) = OpenFlows
    /\ OpenFlows' = OpenFlows \cup {Started(p)}
    /\ KeepReports

\* A packet whose connection has the open flow f joins it, ...
Joins(p, f, g) ==
    /\ Grown(f, g, p)
    /\ ~Expired(f, p)
    /\ \/ /\ OpenFlows' = Others(p) \cup {g}
          /\ Extended(f, g, p)
          /\ KeepReports
       \/ OpenFlows' = Others(p) /\ Retire(g)

\* ... or, if the flow has expired, replaces it.
Replaces(p, f) ==
    /\ OpenFlows' = Others(p) \cup {Started(p)}
    /\ Retire(f)

LEMMA AddPacketShape ==
    ASSUME TypeOK, NoTwinFlows, NEW p \in Packets, AddPacket(p)
    PROVE  \/ Starts(p)
           \/ \E f \in OpenFlows :
                 /\ f.key \in Connection(p.key)
                 /\ Others(p) = OpenFlows \ {f}
                 /\ \/ \E g : Joins(p, f, g)
                    \/ Replaces(p, f)
<1>1. ASSUME OpenFlow(p) PROVE Starts(p)
  <2>1. \A j \in DOMAIN current_flows : j \notin Connection(p.key)
    BY <1>1, ExistingKeyFacts DEF OpenFlow
  <2>2. Others(p) = OpenFlows
    BY <2>1 DEF Others, OpenFlows, NoTwinFlows
  <2>3. p.key \notin DOMAIN current_flows
    BY <2>1 DEF Connection
  <2>4. current_flows' = With(current_flows, p.key, Started(p))
    BY <1>1 DEF OpenFlow, FwdId, Started
  <2>5. OpenFlows' = OpenFlows \cup {Started(p)}
    BY <2>3, <2>4 DEF With, OpenFlows
  <2>6. QED
    BY <1>1, <2>2, <2>5 DEF Starts, OpenFlow
<1>2. ASSUME NEW k \in ExistingKey(p),
             \/ ExpireFlow(p, k)
             \/ FinPacket(p, k) \/ RstPacket(p, k) \/ DataPacket(p, k)
      PROVE  \E f \in OpenFlows :
                 /\ f.key \in Connection(p.key)
                 /\ Others(p) = OpenFlows \ {f}
                 /\ \/ \E g : Joins(p, f, g)
                    \/ Replaces(p, f)
  <2> DEFINE f == current_flows[k]
  <2>1. k \in DOMAIN current_flows /\ k \in Connection(p.key)
    BY ExistingKeyFacts
  <2>2. f \in OpenFlows /\ f.key = k
    BY <2>1 DEF OpenFlows, NoTwinFlows
  <2>3. p.key \in Key
    BY PacketTypes
  <2>4. Connection(f.key) = Connection(p.key)
    BY <2>1, <2>2, <2>3, ConnectionFacts
  <2>5. Others(p) = OpenFlows \ {f}
    <3>1. \A h \in OpenFlows : h.key \in Connection(p.key) => h = f
      BY <2>2, <2>4, OneOpenFlow
    <3>2. QED
      BY <2>1, <2>2, <3>1 DEF Others
  <2>6. OpenFlows \ {f} = {current_flows[j] : j \in DOMAIN current_flows \ {k}}
    BY <2>1 DEF OpenFlows, NoTwinFlows
  <2>7. CASE ExpireFlow(p, k)
    <3>1. current_flows' = With(Without(k), p.key, Started(p))
      BY <2>7 DEF ExpireFlow, FwdId, Started
    <3>2. p.key \notin DOMAIN current_flows \ {k}
      <4>1. \A j \in DOMAIN current_flows \ {k} :
              current_flows[j] \in OpenFlows \ {f} /\ current_flows[j].key = j
        BY <2>6 DEF NoTwinFlows
      <4>2. \A h \in OpenFlows \ {f} : h.key \notin Connection(p.key)
        BY <2>5 DEF Others
      <4>3. QED
        BY <4>1, <4>2 DEF Connection
    <3>3. OpenFlows' = (OpenFlows \ {f}) \cup {Started(p)}
      <4>1. /\ DOMAIN current_flows' = (DOMAIN current_flows \ {k}) \cup {p.key}
            /\ current_flows'[p.key] = Started(p)
            /\ \A j \in DOMAIN current_flows \ {k} :
                  current_flows'[j] = current_flows[j]
        BY <3>1, <3>2 DEF With, Without
      <4>2. QED
        BY <2>6, <4>1 DEF OpenFlows
    <3>4. Replaces(p, f)
      BY <2>5, <2>7, <3>3 DEF Replaces, ExpireFlow
    <3>5. QED
      BY <2>1, <2>2, <2>5, <3>4
  <2>8. CASE FinPacket(p, k) \/ RstPacket(p, k) \/ DataPacket(p, k)
    <3>1. ~Expired(f, p) /\ (Grows(p, k) \/ GrowsAndEnds(p, k))
      BY <2>1, <2>8, FoundFlowShape
    <3>2. CASE Grows(p, k)
      <4>1. PICK g : /\ Grown(f, g, p)
                     /\ Extended(f, g, p)
                     /\ Put(k, g)
                     /\ KeepReports
        BY <3>2 DEF Grows
      <4>2. /\ DOMAIN current_flows' = DOMAIN current_flows
            /\ current_flows'[k] = g
            /\ \A j \in DOMAIN current_flows \ {k} :
                  current_flows'[j] = current_flows[j]
        BY <2>1, <4>1 DEF Put, TypeOK
      <4>3. OpenFlows' = (OpenFlows \ {f}) \cup {g}
        BY <2>1, <2>6, <4>2 DEF OpenFlows
      <4>4. Joins(p, f, g)
        BY <2>5, <3>1, <4>1, <4>3 DEF Joins
      <4>5. QED
        BY <2>1, <2>2, <2>5, <4>4
    <3>3. CASE GrowsAndEnds(p, k)
      <4>1. PICK g : /\ Grown(f, g, p)
                     /\ Retire(g)
                     /\ current_flows' = Without(k)
        BY <3>3 DEF GrowsAndEnds
      <4>2. OpenFlows' = OpenFlows \ {f}
        BY <2>6, <4>1 DEF Without, OpenFlows
      <4>3. Joins(p, f, g)
        BY <2>5, <3>1, <4>1, <4>2 DEF Joins
      <4>4. QED
        BY <2>1, <2>2, <2>5, <4>3
    <3>4. QED
      BY <3>1, <3>2, <3>3
  <2>9. QED
    BY <1>2, <2>7, <2>8
<1>3. QED
  BY <1>1, <1>2 DEF AddPacket

-----------------------------------------------------------------------------
(* Every packet in one flow, every flow in one place.                      *)

LEMMA RetireFacts ==
    ASSUME TypeOK, NEW r, Retire(r)
    PROVE  /\ Retired' = Retired \cup {r}
           /\ \/ /\ LongEnough(r)
                 /\ Reported' = Reported \cup {r}
                 /\ dropped' = dropped
                 /\ finished_flow_count' = finished_flow_count + 1
                 /\ \/ finished_flows' = finished_flows /\ handed' = handed \cup {r}
                    \/ finished_flows' = finished_flows \cup {r} /\ handed' = handed
              \/ /\ ~LongEnough(r)
                 /\ finished_flows' = finished_flows
                 /\ handed' = handed
                 /\ dropped' = dropped \cup {r}
                 /\ finished_flow_count' = finished_flow_count
BY DEF Retire, Retired, Reported

LEMMA KeepReportsFacts ==
    ASSUME KeepReports
    PROVE  /\ finished_flows' = finished_flows
           /\ handed' = handed
           /\ dropped' = dropped
           /\ finished_flow_count' = finished_flow_count
           /\ Retired' = Retired
BY DEF KeepReports, Retired, Reported

\* What finish_all_flows does to the places of the flows.
LEMMA FinishAllFacts ==
    ASSUME FinishAllFlows
    PROVE  LET long == {f \in OpenFlows : LongEnough(f)} IN
           /\ OpenFlows' = {}
           /\ finished_flows' = finished_flows
           /\ handed' = handed \cup long
           /\ dropped' = dropped \cup (OpenFlows \ long)
           /\ Retired' = Retired \cup OpenFlows
           /\ finished_flow_count' = finished_flow_count + Cardinality(long)
           /\ min_packets_per_flow' = min_packets_per_flow
           /\ log' = log
<1> DEFINE long == {f \in OpenFlows : LongEnough(f)}
<1>1. /\ current_flows' = [k \in {} |-> {}]
      /\ finished_flows' = finished_flows
      /\ handed' = handed \cup long
      /\ dropped' = dropped \cup (OpenFlows \ long)
      /\ finished_flow_count' = finished_flow_count + Cardinality(long)
      /\ min_packets_per_flow' = min_packets_per_flow
      /\ log' = log
  BY DEF FinishAllFlows, config
<1>2. OpenFlows' = {}
  BY <1>1 DEF OpenFlows
<1>3. long \subseteq OpenFlows
  OBVIOUS
<1> HIDE DEF long
<1>4. Retired' = Retired \cup OpenFlows
  BY <1>1, <1>3 DEF Retired, Reported
<1>5. QED
  BY <1>1, <1>2, <1>4 DEF long

Quiet == AllFlows' = AllFlows /\ log' = log /\ OpenFlows' \subseteq OpenFlows

LEMMA NextShape ==
    ASSUME [Next]_vars
    PROVE  (\E p \in Packets : AddPacket(p)) \/ Quiet
<1>1. CASE GetFinishedFlows
  BY <1>1 DEF GetFinishedFlows, Quiet, AllFlows, Retired, Reported, OpenFlows
<1>2. CASE FinishAllFlows
  BY <1>2, FinishAllFacts DEF Quiet, AllFlows
<1>3. CASE \E n \in MinChoices : SetMinPackets(n)
  BY <1>3 DEF SetMinPackets, Quiet, AllFlows, Retired, Reported, OpenFlows
<1>4. CASE SetFlowListener
  BY <1>4 DEF SetFlowListener, Quiet, AllFlows, Retired, Reported, OpenFlows
<1>5. CASE UNCHANGED vars
  BY <1>5 DEF vars, Quiet, AllFlows, Retired, Reported, OpenFlows
<1>6. QED
  BY <1>1, <1>2, <1>3, <1>4, <1>5 DEF Next

Partition ==
    /\ UNION {f.members : f \in AllFlows} = 1 .. Len(log)
    /\ \A f, g \in AllFlows : f # g => f.members \cap g.members = {}
    /\ \A f \in AllFlows : f.members # {}

OnePlaceEach ==
    /\ OpenFlows \cap Retired = {}
    /\ Reported \cap dropped = {}
    /\ finished_flows \cap handed = {}

AccountInv == TypeInv /\ NoTwinFlows /\ Partition /\ OnePlaceEach

\* What one packet does to the set of all flows: one open flow of its
\* connection takes it, or a flow is added that holds nothing else.
Takes(p, f, g) ==
    /\ f \in OpenFlows
    /\ f.key \in Connection(p.key)
    /\ Grown(f, g, p)
    /\ ~Expired(f, p)
    /\ AllFlows' = (AllFlows \ {f}) \cup {g}
    /\ OpenFlows' \subseteq Others(p) \cup {g}
    /\ g \in OpenFlows' => Extended(f, g, p)

Adds(p) ==
    /\ AllFlows' = AllFlows \cup {Started(p)}
    /\ OpenFlows' \subseteq Others(p) \cup {Started(p)}

LEMMA AddPacketEffect ==
    ASSUME TypeInv, NoTwinFlows, OnePlaceEach, NEW p \in Packets, AddPacket(p)
    PROVE  /\ log' = Append(log, p)
           /\ Adds(p) \/ \E f, g : Takes(p, f, g)
<1>1. log' = Append(log, p)
  BY DEF AddPacket
<1>2. TypeOK
  BY DEF TypeInv
<1>3. ASSUME Starts(p) PROVE Adds(p)
  BY <1>3, KeepReportsFacts DEF Starts, Adds, AllFlows
<1>4. ASSUME NEW f \in OpenFlows, NEW g,
             f.key \in Connection(p.key),
             Others(p) = OpenFlows \ {f},
             Joins(p, f, g)
      PROVE  Takes(p, f, g)
  <2>1. f \notin Retired
    BY DEF OnePlaceEach
  <2>2. \/ /\ Retired' = Retired /\ OpenFlows' = Others(p) \cup {g}
           /\ Extended(f, g, p)
        \/ Retired' = Retired \cup {g} /\ OpenFlows' = Others(p)
    BY <1>2, <1>4, RetireFacts, KeepReportsFacts DEF Joins
  <2>3. AllFlows' = (AllFlows \ {f}) \cup {g}
    BY <1>4, <2>1, <2>2 DEF AllFlows
  <2>4. g \notin Others(p)
    BY <1>4 DEF Joins, Grown, Others
  <2>5. QED
    BY <1>4, <2>2, <2>3, <2>4 DEF Joins, Takes
<1>5. ASSUME NEW f \in OpenFlows,
             Others(p) = OpenFlows \ {f},
             Replaces(p, f)
      PROVE  Adds(p)
  <2>1. Retired' = Retired \cup {f}
    BY <1>2, <1>5, RetireFacts DEF Replaces
  <2>2. QED
    BY <1>5, <2>1 DEF Replaces, Adds, AllFlows
<1>6. \/ Starts(p)
      \/ \E f \in OpenFlows :
            /\ f.key \in Connection(p.key)
            /\ Others(p) = OpenFlows \ {f}
            /\ \/ \E g : Joins(p, f, g)
               \/ Replaces(p, f)
  BY <1>2, AddPacketShape
<1>7. ASSUME NEW f \in OpenFlows,
             f.key \in Connection(p.key),
             Others(p) = OpenFlows \ {f},
             (\E g : Joins(p, f, g)) \/ Replaces(p, f)
      PROVE  Adds(p) \/ \E h, g : Takes(p, h, g)
  <2>1. CASE Replaces(p, f)
    BY <1>5, <1>7, <2>1
  <2>2. ASSUME NEW g, Joins(p, f, g) PROVE Takes(p, f, g)
    BY <1>4, <1>7, <2>2
  <2>3. QED
    BY <1>7, <2>1, <2>2
<1>8. Adds(p) \/ \E f, g : Takes(p, f, g)
  BY <1>3, <1>6, <1>7
<1>9. QED
  BY <1>1, <1>8

LEMMA AppendFacts ==
    ASSUME log \in Seq(Packets), NEW p \in Packets, log' = Append(log, p)
    PROVE  /\ Len(log) \in Nat
           /\ Len(log') = Len(log) + 1
           /\ Id = Len(log')
           /\ log'[Id] = p
           /\ \A i \in 1 .. Len(log) : log'[i] = log[i]
           /\ 1 .. Len(log') = (1 .. Len(log)) \cup {Id}
           /\ Id \notin 1 .. Len(log)
<1>1. Len(log) \in Nat /\ Len(log') = Len(log) + 1
  OBVIOUS
<1>2. 1 .. (Len(log) + 1) = (1 .. Len(log)) \cup {Len(log) + 1}
  BY <1>1
<1>3. QED
  BY <1>1, <1>2 DEF Id

LEMMA PartitionStep ==
    ASSUME TypeInv, NoTwinFlows, OnePlaceEach, Partition, [Next]_vars
    PROVE  Partition'
<1>1. CASE Quiet
  BY <1>1 DEF Quiet, Partition
<1>2. ASSUME NEW p \in Packets, AddPacket(p) PROVE Partition'
  <2>1. log' = Append(log, p) /\ TypeOK /\ log \in Seq(Packets)
    BY <1>2 DEF AddPacket, TypeInv, TypeOK
  <2>2. 1 .. Len(log') = (1 .. Len(log)) \cup {Id} /\ Id \notin 1 .. Len(log)
    BY <2>1, AppendFacts
  <2>3. \A f \in AllFlows : Id \notin f.members
    BY <2>2 DEF Partition
  <2>4. CASE Adds(p)
    <3> DEFINE n == Started(p)
    <3>1. n.members = {Id} /\ AllFlows' = AllFlows \cup {n}
      BY <2>1, <2>4, StartedFacts DEF Adds
    <3> HIDE DEF n
    <3>2. QED
      BY <2>2, <2>3, <3>1 DEF Partition
  <2>5. ASSUME NEW f, NEW g, Takes(p, f, g) PROVE Partition'
    <3>1. /\ f \in AllFlows
          /\ g.members = f.members \cup {Id}
          /\ AllFlows' = (AllFlows \ {f}) \cup {g}
      BY <2>5 DEF Takes, Grown, AllFlows
    <3>2. UNION {h.members : h \in AllFlows'} = 1 .. Len(log')
      BY <2>2, <3>1 DEF Partition
    <3>3. \A h \in AllFlows \ {f} : h.members \cap g.members = {}
      BY <2>3, <3>1 DEF Partition
    <3>4. QED
      BY <3>1, <3>2, <3>3 DEF Partition
  <2>6. QED
    BY <1>2, <2>4, <2>5, AddPacketEffect
<1>3. QED
  BY <1>1, <1>2, NextShape

\* A flow that holds the packet being fed is a new one.
LEMMA FreshFlow ==
    ASSUME TypeOK, Partition, NEW g, Id \in g.members
    PROVE  g \notin OpenFlows /\ g \notin Retired
<1>1. Id \notin 1 .. Len(log)
  BY IdType DEF TypeOK
<1>2. \A h \in AllFlows : Id \notin h.members
  BY <1>1 DEF Partition
<1>3. QED
  BY <1>2 DEF AllFlows

LEMMA OnePlaceStep ==
    ASSUME AccountInv, [Next]_vars
    PROVE  OnePlaceEach'
<1>1. TypeOK /\ NoTwinFlows /\ Partition /\ OnePlaceEach
  BY DEF AccountInv, TypeInv
<1>2. ASSUME NEW p \in Packets, AddPacket(p) PROVE OnePlaceEach'
  <2>1. Started(p) \notin OpenFlows /\ Started(p) \notin Retired
    BY <1>1, StartedFacts, FreshFlow
  <2>2. CASE Starts(p)
    BY <1>1, <2>1, <2>2, KeepReportsFacts
    DEF Starts, OnePlaceEach, Retired, Reported
  <2>3. ASSUME NEW f \in OpenFlows, Others(p) = OpenFlows \ {f},
               NEW g, Joins(p, f, g)
        PROVE  OnePlaceEach'
    <3>1. g \notin OpenFlows /\ g \notin Retired
      BY <1>1, <2>3, FreshFlow DEF Joins, Grown
    <3>2. CASE OpenFlows' = Others(p) \cup {g} /\ KeepReports
      BY <1>1, <2>3, <3>1, <3>2, KeepReportsFacts
      DEF OnePlaceEach, Retired, Reported
    <3>3. CASE OpenFlows' = Others(p) /\ Retire(g)
      BY <1>1, <2>3, <3>1, <3>3, RetireFacts
      DEF OnePlaceEach, Retired, Reported
    <3>4. QED
      BY <2>3, <3>2, <3>3 DEF Joins
  <2>4. ASSUME NEW f \in OpenFlows, Others(p) = OpenFlows \ {f}, Replaces(p, f)
        PROVE  OnePlaceEach'
    <3>1. f \notin Retired /\ f # Started(p)
      BY <1>1, <2>1 DEF OnePlaceEach
    <3>2. QED
      BY <1>1, <2>1, <2>4, <3>1, RetireFacts
      DEF Replaces, OnePlaceEach, Retired, Reported
  <2>5. \/ Starts(p)
        \/ \E f \in OpenFlows :
              /\ f.key \in Connection(p.key)
              /\ Others(p) = OpenFlows \ {f}
              /\ \/ \E g : Joins(p, f, g)
                 \/ Replaces(p, f)
    BY <1>1, <1>2, AddPacketShape
  <2>6. QED
    BY <2>2, <2>3, <2>4, <2>5
<1>3. CASE GetFinishedFlows
  BY <1>1, <1>3 DEF GetFinishedFlows, OnePlaceEach, OpenFlows, Retired, Reported
<1>4. CASE FinishAllFlows
  BY <1>1, <1>4, FinishAllFacts DEF OnePlaceEach, Retired, Reported
<1>5. ASSUME NEW n \in MinChoices, SetMinPackets(n) PROVE OnePlaceEach'
  BY <1>1, <1>5 DEF SetMinPackets, OnePlaceEach, OpenFlows, Retired, Reported
<1>6. CASE SetFlowListener
  BY <1>1, <1>6 DEF SetFlowListener, OnePlaceEach, OpenFlows, Retired, Reported
<1>7. CASE UNCHANGED vars
  BY <1>1, <1>7 DEF vars, OnePlaceEach, OpenFlows, Retired, Reported
<1>8. QED
  BY <1>2, <1>3, <1>4, <1>5, <1>6, <1>7 DEF Next

LEMMA AccountInit == Init => AccountInv
<1> SUFFICES ASSUME Init PROVE AccountInv
  OBVIOUS
<1>1. OpenFlows = {} /\ Retired = {} /\ AllFlows = {}
  BY DEF Init, OpenFlows, Retired, Reported, AllFlows
<1>2. 1 .. Len(log) = {}
  BY DEF Init
<1>3. Partition
  BY <1>1, <1>2 DEF Partition
<1>4. OnePlaceEach
  BY DEF Init, OnePlaceEach, Reported, OpenFlows, Retired
<1>5. QED
  BY <1>3, <1>4, TypeInit, NoTwinInit DEF AccountInv

LEMMA AccountStep == AccountInv /\ [Next]_vars => AccountInv'
BY TypeStep, NoTwinStep, PartitionStep, OnePlaceStep DEF AccountInv

LEMMA AccountCorrect == Spec => []AccountInv
BY AccountInit, AccountStep, PTL DEF Spec

\* Every packet fed is in exactly one flow, and every flow is open, waiting,
\* handed over or dropped, and only one of these.
THEOREM NothingLostOrDoubled == Spec => []PacketsAccountedOnce
<1>1. AccountInv => PacketsAccountedOnce
  BY DEF AccountInv, Partition, OnePlaceEach, PacketsAccountedOnce
<1>2. QED
  BY <1>1, AccountCorrect, PTL

-----------------------------------------------------------------------------
(* The counter of finished flows.                                          *)

CountInv ==
    /\ IsFiniteSet(finished_flows)
    /\ IsFiniteSet(handed)
    /\ FinishedCountMatches

\* Adding a set of new elements adds its size.
LEMMA AddNewElements ==
    ASSUME NEW S, NEW T, IsFiniteSet(S), IsFiniteSet(T), S \cap T = {}
    PROVE  /\ IsFiniteSet(S \cup T)
           /\ Cardinality(S \cup T) = Cardinality(S) + Cardinality(T)
<1>1. Cardinality(S \cup T) =
        Cardinality(S) + Cardinality(T) - Cardinality(S \cap T)
  BY FS_Union
<1>2. Cardinality(S \cap T) = 0
  BY FS_EmptySet
<1>3. Cardinality(S) \in Nat /\ Cardinality(T) \in Nat
  BY FS_CardinalityType
<1>4. IsFiniteSet(S \cup T)
  BY FS_Union
<1>5. QED
  BY <1>1, <1>2, <1>3, <1>4

\* Reporting a flow that was not reported before keeps the count right.
LEMMA RetireCounts ==
    ASSUME TypeOK, CountInv, NEW r, r \notin Retired, Retire(r)
    PROVE  CountInv'
<1>1. IsFiniteSet({r}) /\ Cardinality({r}) = 1
  BY FS_Singleton
<1>2. r \notin finished_flows /\ r \notin handed
  BY DEF Retired, Reported
<1>3. /\ IsFiniteSet(finished_flows \cup {r})
      /\ Cardinality(finished_flows \cup {r}) = Cardinality(finished_flows) + 1
      /\ IsFiniteSet(handed \cup {r})
      /\ Cardinality(handed \cup {r}) = Cardinality(handed) + 1
  BY <1>1, <1>2, AddNewElements DEF CountInv
<1>4. Cardinality(finished_flows) \in Nat /\ Cardinality(handed) \in Nat
  BY FS_CardinalityType DEF CountInv
<1>5. CASE LongEnough(r)
  <2>1. finished_flow_count' = finished_flow_count + 1
    BY <1>5, RetireFacts
  <2>2. \/ finished_flows' = finished_flows /\ handed' = handed \cup {r}
        \/ finished_flows' = finished_flows \cup {r} /\ handed' = handed
    BY <1>5, RetireFacts
  <2>3. QED
    BY <1>3, <1>4, <2>1, <2>2 DEF CountInv, FinishedCountMatches
<1>6. CASE ~LongEnough(r)
  <2>1. /\ finished_flow_count' = finished_flow_count
        /\ finished_flows' = finished_flows /\ handed' = handed
    BY <1>6, RetireFacts
  <2>2. QED
    BY <2>1 DEF CountInv, FinishedCountMatches
<1>7. QED
  BY <1>5, <1>6

LEMMA CountStep == AccountInv /\ CountInv /\ [Next]_vars => CountInv'
<1> SUFFICES ASSUME AccountInv, CountInv, [Next]_vars PROVE CountInv'
  OBVIOUS
<1>1. TypeOK /\ TableFinite /\ NoTwinFlows /\ Partition /\ OnePlaceEach
  BY DEF AccountInv, TypeInv
<1>2. ASSUME NEW p \in Packets, AddPacket(p) PROVE CountInv'
  <2>1. ASSUME KeepReports PROVE CountInv'
    BY <2>1, KeepReportsFacts DEF CountInv, FinishedCountMatches
  <2>2. ASSUME NEW f, NEW g, Joins(p, f, g) PROVE CountInv'
    <3>1. g \notin Retired
      BY <1>1, <2>2, FreshFlow DEF Joins, Grown
    <3>2. QED
      BY <1>1, <2>1, <2>2, <3>1, RetireCounts DEF Joins
  <2>3. ASSUME NEW f \in OpenFlows, Replaces(p, f) PROVE CountInv'
    BY <1>1, <2>3, RetireCounts DEF Replaces, OnePlaceEach
  <2>4. \/ Starts(p)
        \/ \E f \in OpenFlows :
              /\ f.key \in Connection(p.key)
              /\ Others(p) = OpenFlows \ {f}
              /\ \/ \E g : Joins(p, f, g)
                 \/ Replaces(p, f)
    BY <1>1, <1>2, AddPacketShape
  <2>5. QED
    BY <2>1, <2>2, <2>3, <2>4 DEF Starts
<1>3. CASE GetFinishedFlows
  <2>1. finished_flows' = {} /\ handed' = handed \cup finished_flows
        /\ finished_flow_count' = finished_flow_count
    BY <1>3 DEF GetFinishedFlows
  <2>2. /\ IsFiniteSet(handed')
        /\ Cardinality(handed') = Cardinality(handed) + Cardinality(finished_flows)
    BY <1>1, <2>1, AddNewElements DEF CountInv, OnePlaceEach
  <2>3. IsFiniteSet(finished_flows') /\ Cardinality(finished_flows') = 0
    BY <2>1, FS_EmptySet
  <2>4. Cardinality(finished_flows) \in Nat /\ Cardinality(handed) \in Nat
    BY FS_CardinalityType DEF CountInv
  <2>5. QED
    BY <2>1, <2>2, <2>3, <2>4 DEF CountInv, FinishedCountMatches
<1>4. CASE FinishAllFlows
  <2> DEFINE long == {f \in OpenFlows : LongEnough(f)}
  <2>1. /\ finished_flows' = finished_flows
        /\ handed' = handed \cup long
        /\ finished_flow_count' = finished_flow_count + Cardinality(long)
    BY <1>4, FinishAllFacts
  <2>2. IsFiniteSet(long) /\ Cardinality(long) \in Nat
    BY <1>1, LongFinite
  <2>3. handed \cap long = {}
    BY <1>1 DEF OnePlaceEach, Retired, Reported
  <2> HIDE DEF long
  <2>4. IsFiniteSet(handed') /\ Cardinality(handed') = Cardinality(handed) + Cardinality(long)
    BY <2>1, <2>2, <2>3, AddNewElements DEF CountInv
  <2>5. Cardinality(finished_flows) \in Nat /\ Cardinality(handed) \in Nat
    BY FS_CardinalityType DEF CountInv
  <2>6. QED
    BY <2>1, <2>2, <2>4, <2>5 DEF CountInv, FinishedCountMatches
<1>5. ASSUME NEW n \in MinChoices, SetMinPackets(n) PROVE CountInv'
  BY <1>5 DEF SetMinPackets, CountInv, FinishedCountMatches
<1>6. CASE SetFlowListener
  BY <1>6 DEF SetFlowListener, CountInv, FinishedCountMatches
<1>7. CASE UNCHANGED vars
  BY <1>7 DEF vars, CountInv, FinishedCountMatches
<1>8. QED
  BY <1>2, <1>3, <1>4, <1>5, <1>6, <1>7 DEF Next

\* total_finished_flows is exactly the number of flows reported.
THEOREM CountCorrect == Spec => []FinishedCountMatches
<1>1. Init => CountInv
  <2>1. Cardinality({}) = 0 /\ IsFiniteSet({})
    BY FS_EmptySet
  <2>2. QED
    BY <2>1 DEF Init, CountInv, FinishedCountMatches
<1>2. CountInv => FinishedCountMatches
  BY DEF CountInv
<1>3. QED
  BY <1>1, <1>2, AccountInit, AccountStep, CountStep, PTL DEF Spec

-----------------------------------------------------------------------------
(* What a flow says of its packets.                                        *)

LEMMA MembersFacts ==
    ASSUME TypeOK, Partition, NEW f \in AllFlows
    PROVE  /\ f \in Flow
           /\ f.members \subseteq 1 .. Len(log)
           /\ IsFiniteSet(f.members)
           /\ f.members # {}
<1>1. f.members \subseteq 1 .. Len(log)
  BY DEF Partition
<1>2. IsFiniteSet(1 .. Len(log))
  BY FS_Interval DEF TypeOK
<1>3. IsFiniteSet(f.members)
  BY <1>1, <1>2, FS_Subset
<1>4. f \in Flow
  BY OpenFlowsType DEF AllFlows, Retired, Reported, TypeOK
<1>5. QED
  BY <1>1, <1>3, <1>4 DEF Partition

Fwd(f) == {i \in f.members : CountsForward(f, log[i])}
Bwd(f) == {i \in f.members : ~CountsForward(f, log[i])}

Matches(f) ==
    /\ \A i \in f.members : log[i].key \in Connection(f.key)
    /\ f.fwd_packet_count = Cardinality(Fwd(f))
    /\ f.bwd_packet_count = Cardinality(Bwd(f))

\* A flow that does not get the packet says the same as before.
LEMMA SameMatch ==
    ASSUME TypeOK, Partition, NEW p \in Packets, log' = Append(log, p),
           NEW f \in AllFlows
    PROVE  /\ Fwd(f)' = Fwd(f)
           /\ Bwd(f)' = Bwd(f)
           /\ Matches(f)' <=> Matches(f)
<1>1. \A i \in f.members : log'[i] = log[i]
  BY MembersFacts, AppendFacts DEF TypeOK
<1>2. Fwd(f)' = Fwd(f) /\ Bwd(f)' = Bwd(f)
  BY <1>1 DEF Fwd, Bwd
<1>3. QED
  BY <1>1, <1>2 DEF Matches

LEMMA GrownMatches ==
    ASSUME TypeOK, Partition, NEW p \in Packets, log' = Append(log, p),
           NEW f \in AllFlows, Matches(f),
           NEW g, Grown(f, g, p), f.key \in Connection(p.key)
    PROVE  Matches(g)'
<1>1. /\ log'[Id] = p
      /\ Id \notin f.members
      /\ \A i \in f.members : log'[i] = log[i]
      /\ g.key = f.key /\ g.members = f.members \cup {Id}
  BY MembersFacts, AppendFacts DEF TypeOK, Grown
<1>2. \A q : CountsForward(g, q) <=> CountsForward(f, q)
  BY <1>1 DEF CountsForward
<1>3. p.key \in Connection(f.key)
  BY PacketTypes, ConnectionFacts
<1>4. /\ IsFiniteSet(Fwd(f)) /\ Id \notin Fwd(f)
      /\ IsFiniteSet(Bwd(f)) /\ Id \notin Bwd(f)
  BY <1>1, MembersFacts, FS_Subset DEF Fwd, Bwd
<1>5. /\ Cardinality(Fwd(f) \cup {Id}) = Cardinality(Fwd(f)) + 1
      /\ Cardinality(Bwd(f) \cup {Id}) = Cardinality(Bwd(f)) + 1
  BY <1>4, FS_AddElement
<1>6. CASE CountsForward(f, p)
  <2>1. Fwd(g)' = Fwd(f) \cup {Id} /\ Bwd(g)' = Bwd(f)
    BY <1>1, <1>2, <1>6 DEF Fwd, Bwd
  <2>2. /\ g.fwd_packet_count = f.fwd_packet_count + 1
        /\ g.bwd_packet_count = f.bwd_packet_count
    BY <1>6 DEF Grown
  <2>3. QED
    BY <1>1, <1>3, <1>5, <2>1, <2>2 DEF Matches
<1>7. CASE ~CountsForward(f, p)
  <2>1. Fwd(g)' = Fwd(f) /\ Bwd(g)' = Bwd(f) \cup {Id}
    BY <1>1, <1>2, <1>7, ZenonT(30) DEF Fwd, Bwd
  <2>2. /\ g.fwd_packet_count = f.fwd_packet_count
        /\ g.bwd_packet_count = f.bwd_packet_count + 1
    BY <1>7 DEF Grown
  <2>3. QED
    BY <1>1, <1>3, <1>5, <2>1, <2>2 DEF Matches
<1>8. QED
  BY <1>6, <1>7

LEMMA StartedMatches ==
    ASSUME TypeOK, NEW p \in Packets, log' = Append(log, p)
    PROVE  LET n == Started(p) IN
           /\ \A i \in n.members : log'[i].key \in Connection(n.key)
           /\ n.fwd_packet_count =
                Cardinality({i \in n.members : CountsForward(n, log'[i])})
           /\ n.bwd_packet_count =
                Cardinality({i \in n.members : ~CountsForward(n, log'[i])})
<1> DEFINE n == Started(p)
<1>1. /\ n.key = p.key /\ n.members = {Id}
      /\ n.fwd_packet_count = 1 /\ n.bwd_packet_count = 0
      /\ log'[Id] = p
  BY StartedFacts, AppendFacts DEF TypeOK
<1> HIDE DEF n
<1>2. CountsForward(n, p)
  BY <1>1 DEF CountsForward, IsForward
<1>3. /\ {i \in n.members : CountsForward(n, log'[i])} = {Id}
      /\ {i \in n.members : ~CountsForward(n, log'[i])} = {}
  BY <1>1, <1>2
<1>4. Cardinality({Id}) = 1 /\ Cardinality({}) = 0
  BY FS_Singleton, FS_EmptySet
<1>5. p.key \in Connection(n.key)
  BY <1>1 DEF Connection
<1>6. QED
  BY <1>1, <1>3, <1>4, <1>5 DEF n

LEMMA MatchesMeaning ==
    FlowsMatchTheirPackets <=> \A f \in AllFlows : Matches(f)
BY DEF FlowsMatchTheirPackets, Matches, Fwd, Bwd

LEMMA MatchStep ==
    ASSUME AccountInv, FlowsMatchTheirPackets, [Next]_vars
    PROVE  FlowsMatchTheirPackets'
<1>1. TypeOK /\ NoTwinFlows /\ Partition /\ OnePlaceEach /\ TypeInv
  BY DEF AccountInv, TypeInv
<1>2. CASE Quiet
  BY <1>2 DEF Quiet, FlowsMatchTheirPackets
<1>3. ASSUME NEW p \in Packets, AddPacket(p) PROVE FlowsMatchTheirPackets'
  <2>1. log' = Append(log, p)
    BY <1>3 DEF AddPacket
  <2>2. \A f \in AllFlows : Matches(f) /\ Matches(f)'
    BY <1>1, <2>1, SameMatch, MatchesMeaning
  <2>3. CASE Adds(p)
    <3> DEFINE n == Started(p)
    <3>1. AllFlows' = AllFlows \cup {n}
      BY <2>3 DEF Adds
    <3>2. /\ \A i \in n.members : log'[i].key \in Connection(n.key)
          /\ n.fwd_packet_count =
               Cardinality({i \in n.members : CountsForward(n, log'[i])})
          /\ n.bwd_packet_count =
               Cardinality({i \in n.members : ~CountsForward(n, log'[i])})
      BY <1>1, <2>1, StartedMatches
    <3> HIDE DEF n
    <3>3. QED
      BY <2>2, <3>1, <3>2 DEF FlowsMatchTheirPackets, Matches, Fwd, Bwd
  <2>4. ASSUME NEW f, NEW g, Takes(p, f, g) PROVE FlowsMatchTheirPackets'
    <3>1. f \in AllFlows /\ AllFlows' = (AllFlows \ {f}) \cup {g}
      BY <2>4 DEF Takes, AllFlows
    <3>2. Matches(g)'
      BY <1>1, <2>1, <2>2, <2>4, <3>1, GrownMatches DEF Takes
    <3>3. QED
      BY <2>2, <3>1, <3>2 DEF FlowsMatchTheirPackets, Matches, Fwd, Bwd
  <2>5. QED
    BY <1>1, <1>3, <2>3, <2>4, AddPacketEffect
<1>4. QED
  BY <1>2, <1>3, NextShape

\* The packets of a flow belong to its connection, and its two counters count
\* exactly the packets of each direction, closing packets included.
THEOREM CountersMatchPackets == Spec => []FlowsMatchTheirPackets
<1>1. Init => FlowsMatchTheirPackets
  <2>1. Init => AllFlows = {}
    BY DEF Init, AllFlows, OpenFlows, Retired, Reported
  <2>2. QED
    BY <2>1 DEF FlowsMatchTheirPackets
<1>2. AccountInv /\ FlowsMatchTheirPackets /\ [Next]_vars => FlowsMatchTheirPackets'
  BY MatchStep
<1>3. QED
  BY <1>1, <1>2, AccountInit, AccountStep, PTL DEF Spec

\* Nothing but add_packet can disturb the age bound, and add_packet lets a
\* packet into a flow only after comparing it with the flow's start.
LEMMA SpanStep ==
    ASSUME AccountInv, FlowSpanBounded, [Next]_vars
    PROVE  FlowSpanBounded'
<1>1. TypeOK /\ NoTwinFlows /\ Partition /\ OnePlaceEach /\ TypeInv
  BY DEF AccountInv, TypeInv
<1>2. CASE Quiet
  BY <1>2 DEF Quiet, FlowSpanBounded, FlowDuration
<1>3. ASSUME NEW p \in Packets, AddPacket(p) PROVE FlowSpanBounded'
  <2>1. log' = Append(log, p)
    BY <1>3 DEF AddPacket
  <2>2. p.timestamp \in Int /\ FlowTimeout \in Nat /\ log'[Id] = p
    BY <1>1, <2>1, PacketTypes, GeneratorAssumption, AppendFacts DEF TypeOK
  <2>3. \A h \in AllFlows :
          /\ h \in Flow
          /\ \A i \in h.members : log'[i] = log[i]
    BY <1>1, <2>1, MembersFacts, AppendFacts DEF TypeOK
  <2>4. CASE Adds(p)
    <3> DEFINE n == Started(p)
    <3>1. /\ n.members = {Id}
          /\ n.flow_start_time = p.timestamp /\ n.flow_last_seen = p.timestamp
          /\ AllFlows' = AllFlows \cup {n}
      BY <1>1, <2>4, StartedFacts DEF Adds
    <3> HIDE DEF n
    <3>2. QED
      BY <2>2, <2>3, <3>1 DEF FlowSpanBounded, FlowDuration
  <2>5. ASSUME NEW f, NEW g, Takes(p, f, g) PROVE FlowSpanBounded'
    <3>1. /\ f \in AllFlows /\ AllFlows' = (AllFlows \ {f}) \cup {g}
          /\ g.members = f.members \cup {Id}
          /\ g.flow_start_time = f.flow_start_time
          /\ g.flow_last_seen = p.timestamp
          /\ ~(p.timestamp - f.flow_start_time > FlowTimeout)
      BY <2>5 DEF Takes, AllFlows, Grown, Expired
    <3>2. f.flow_start_time \in Int
      BY <2>3, <3>1 DEF Flow
    <3>3. p.timestamp - f.flow_start_time <= FlowTimeout
      BY <2>2, <3>1, <3>2
    <3>4. QED
      BY <2>2, <2>3, <3>1, <3>3 DEF FlowSpanBounded, FlowDuration
  <2>6. QED
    BY <1>1, <1>3, <2>4, <2>5, AddPacketEffect
<1>4. QED
  BY <1>2, <1>3, NextShape

\* No flow, open or reported, spans more than the flow timeout, whatever the
\* order in which packets and timestamps come.
THEOREM SpanBounded == Spec => []FlowSpanBounded
<1>1. Init => FlowSpanBounded
  <2>1. Init => AllFlows = {}
    BY DEF Init, AllFlows, OpenFlows, Retired, Reported
  <2>2. QED
    BY <2>1 DEF FlowSpanBounded
<1>2. AccountInv /\ FlowSpanBounded /\ [Next]_vars => FlowSpanBounded'
  BY SpanStep
<1>3. QED
  BY <1>1, <1>2, AccountInit, AccountStep, PTL DEF Spec

\* Positions of the log are numbers, and the new one is the largest.
LEMMA MembersOrder ==
    ASSUME TypeOK, Partition, NEW f \in AllFlows
    PROVE  \A i \in f.members : i \in Nat /\ i < Id
<1>1. Len(log) \in Nat /\ Id = Len(log) + 1
  BY IdType DEF TypeOK
<1>2. f.members \subseteq 1 .. Len(log)
  BY MembersFacts
<1>3. QED
  BY <1>1, <1>2

Before(f, g) == \A i \in f.members, j \in g.members : i < j

LEMMA SucceedMeaning ==
    FlowsSucceedEachOther <=>
        \A f, g \in AllFlows :
            f # g /\ f.key \in Connection(g.key) =>
                /\ Before(f, g) \/ Before(g, f)
                /\ g \in OpenFlows => Before(f, g)
BY DEF FlowsSucceedEachOther, Before

LEMMA SucceedStep ==
    ASSUME AccountInv, FlowsSucceedEachOther, [Next]_vars
    PROVE  FlowsSucceedEachOther'
<1>1. TypeOK /\ NoTwinFlows /\ Partition /\ OnePlaceEach /\ TypeInv
  BY DEF AccountInv, TypeInv
<1>2. CASE Quiet
  BY <1>2 DEF Quiet, FlowsSucceedEachOther
<1>3. ASSUME NEW p \in Packets, AddPacket(p) PROVE FlowsSucceedEachOther'
  <2>1. \A f, g \in AllFlows :
            f # g /\ f.key \in Connection(g.key) =>
                /\ Before(f, g) \/ Before(g, f)
                /\ g \in OpenFlows => Before(f, g)
    BY SucceedMeaning
  <2>2. \A h \in AllFlows : h.key \in Key /\ \A i \in h.members : i \in Nat /\ i < Id
    BY <1>1, MembersOrder, MembersFacts DEF Flow
  <2>3. /\ p.key \in Key
        /\ \A h \in Others(p) : h \in OpenFlows /\ h.key \notin Connection(p.key)
    BY PacketTypes DEF Others
  <2>4. CASE Adds(p)
    <3> DEFINE n == Started(p)
    <3>1. n.members = {Id} /\ n.key = p.key
      BY <1>1, StartedFacts
    <3>2. /\ AllFlows' = AllFlows \cup {n}
          /\ OpenFlows' \subseteq Others(p) \cup {n}
      BY <2>4 DEF Adds
    <3> HIDE DEF n
    <3>3. \A h \in AllFlows : Before(h, n)
      BY <2>2, <3>1 DEF Before
    <3>4. \A h \in OpenFlows' : n.key \in Connection(h.key) => h = n
      <4>1. \A h \in Others(p) : h.key \in Key
        BY <2>2, <2>3 DEF AllFlows
      <4>2. QED
        BY <2>3, <3>1, <3>2, <4>1, ConnectionFacts
    <3>5. \A h \in OpenFlows' : h = n \/ h \in OpenFlows
      BY <2>3, <3>2
    <3>6. QED
      BY <2>1, <3>2, <3>3, <3>4, <3>5 DEF FlowsSucceedEachOther, Before
  <2>5. ASSUME NEW f, NEW g, Takes(p, f, g) PROVE FlowsSucceedEachOther'
    <3>1. /\ f \in OpenFlows /\ f \in AllFlows
          /\ f.key \in Connection(p.key)
          /\ g.key = f.key /\ g.members = f.members \cup {Id}
          /\ AllFlows' = (AllFlows \ {f}) \cup {g}
          /\ OpenFlows' \subseteq Others(p) \cup {g}
      BY <2>5 DEF Takes, Grown, AllFlows
    <3>2. Connection(f.key) = Connection(p.key)
      BY <2>3, <3>1, ConnectionFacts
    <3>3. \A h \in AllFlows \ {f} :
            h.key \in Connection(g.key) => Before(h, g)
      <4>1. \A h \in AllFlows \ {f} :
              h.key \in Connection(g.key) => Before(h, f)
        BY <2>1, <3>1
      <4>2. QED
        BY <2>2, <3>1, <4>1 DEF Before
    <3>4. \A h \in AllFlows \ {f} :
            g.key \in Connection(h.key) => h.key \in Connection(g.key)
      BY <2>2, <3>1, ConnectionFacts
    <3>5. \A h \in OpenFlows' \ {g} :
            h \in OpenFlows /\ h.key \notin Connection(g.key)
      BY <2>3, <3>1, <3>2
    <3>6. QED
      BY <2>1, <3>1, <3>3, <3>4, <3>5 DEF FlowsSucceedEachOther, Before
  <2>6. QED
    BY <1>1, <1>3, <2>4, <2>5, AddPacketEffect
<1>4. QED
  BY <1>2, <1>3, NextShape

\* The flows of a connection take successive stretches of its packets, and
\* the open one takes the last.
THEOREM SuccessiveFlows == Spec => []FlowsSucceedEachOther
<1>1. Init => FlowsSucceedEachOther
  <2>1. Init => AllFlows = {}
    BY DEF Init, AllFlows, OpenFlows, Retired, Reported
  <2>2. QED
    BY <2>1 DEF FlowsSucceedEachOther
<1>2. AccountInv /\ FlowsSucceedEachOther /\ [Next]_vars => FlowsSucceedEachOther'
  BY SucceedStep
<1>3. QED
  BY <1>1, <1>2, AccountInit, AccountStep, PTL DEF Spec

-----------------------------------------------------------------------------
(* Teardown and reports.                                                   *)

LEMMA OneFinStep ==
    ASSUME TypeInv, OneFinEachWayCloses, [Next]_vars
    PROVE  OneFinEachWayCloses'
<1> DEFINE OneFin(f) == ~(f.f_fin_cnt = 1 /\ f.b_fin_cnt = 1)
<1>1. TypeOK
  BY DEF TypeInv
<1>2. \A k \in DOMAIN current_flows : OneFin(current_flows[k])
  BY DEF OneFinEachWayCloses, OpenFlows
<1>3. SUFFICES \A k \in DOMAIN current_flows' : OneFin(current_flows'[k])
  BY DEF OneFinEachWayCloses, OpenFlows
<1>4. ASSUME NEW p \in Packets, AddPacket(p)
      PROVE  \A k \in DOMAIN current_flows' : OneFin(current_flows'[k])
  <2>1. OneFin(NewFlow(p, Id)) /\ p \in PacketInfo /\ Id \in Nat \ {0}
    BY <1>1, PacketTypes, IdType, NewFlowFacts DEF TypeOK
  <2>2. CASE OpenFlow(p)
    BY <1>2, <2>1, <2>2 DEF OpenFlow, With
  <2>3. ASSUME NEW k \in ExistingKey(p), ExpireFlow(p, k)
        PROVE  \A j \in DOMAIN current_flows' : OneFin(current_flows'[j])
    BY <1>2, <2>1, <2>3 DEF ExpireFlow, With, Without
  <2>4. ASSUME NEW k \in ExistingKey(p), current_flows' = Without(k)
        PROVE  \A j \in DOMAIN current_flows' : OneFin(current_flows'[j])
    BY <1>2, <2>4 DEF Without
  <2>5. ASSUME NEW k \in ExistingKey(p), NEW f, Put(k, f), OneFin(f)
        PROVE  \A j \in DOMAIN current_flows' : OneFin(current_flows'[j])
    BY <1>1, <1>2, <2>5 DEF Put, TypeOK
  <2>6. ASSUME NEW f \in Flow
        PROVE  /\ AddToFlow(f, p, Id).f_fin_cnt = f.f_fin_cnt
               /\ AddToFlow(f, p, Id).b_fin_cnt = f.b_fin_cnt
               /\ Touch(f, p) \in Flow
               /\ Touch(f, p).f_fin_cnt = f.f_fin_cnt
               /\ Touch(f, p).b_fin_cnt = f.b_fin_cnt
    BY <2>1, AddToFlowFacts, TouchFacts DEF SameBody
  <2>7. ASSUME NEW k \in ExistingKey(p), FinPacket(p, k)
        PROVE  \A j \in DOMAIN current_flows' : OneFin(current_flows'[j])
    <3> DEFINE e == SetFin(current_flows[k], p)
    <3>1. current_flows[k] \in Flow /\ e \in Flow
      BY <1>1, <2>1, ExistingKeyFacts, SetFinFacts DEF TypeOK, SameBody
    <3> HIDE DEF e
    <3>2. CASE OwnFins(e, p) = 1 /\ ~FinCloses(e) /\ Put(k, AddToFlow(Touch(e, p), p, Id))
      <4>1. OneFin(e)
        BY <3>1, <3>2 DEF FinCloses, Flow
      <4>2. OneFin(AddToFlow(Touch(e, p), p, Id))
        BY <2>6, <3>1, <4>1
      <4>3. QED
        BY <2>5, <3>2, <4>2
    <3>3. CASE OwnFins(e, p) # 1 /\ Put(k, AddToFlow(e, p, Id))
      <4>1. OneFin(e)
        BY <3>3 DEF OwnFins
      <4>2. OneFin(AddToFlow(e, p, Id))
        BY <2>6, <3>1, <4>1
      <4>3. QED
        BY <2>5, <3>3, <4>2
    <3>4. QED
      BY <2>4, <2>7, <3>2, <3>3 DEF FinPacket, e
  <2>8. ASSUME NEW k \in ExistingKey(p), DataPacket(p, k)
        PROVE  \A j \in DOMAIN current_flows' : OneFin(current_flows'[j])
    <3> DEFINE f == current_flows[k]
    <3>1. f \in Flow /\ OneFin(f)
      BY <1>1, <1>2, ExistingKeyFacts DEF TypeOK
    <3> HIDE DEF f
    <3>2. OneFin(AddToFlow(f, p, Id)) /\ OneFin(AddToFlow(Touch(f, p), p, Id))
      BY <2>6, <3>1
    <3>3. QED
      BY <2>5, <2>8, <3>2 DEF DataPacket, f
  <2>9. QED
    BY <1>4, <2>2, <2>3, <2>4, <2>7, <2>8 DEF AddPacket, RstPacket
<1>5. CASE UNCHANGED current_flows
  BY <1>2, <1>5
<1>6. CASE FinishAllFlows
  BY <1>6 DEF FinishAllFlows
<1>7. QED
  BY <1>4, <1>5, <1>6
  DEF Next, GetFinishedFlows, SetMinPackets, SetFlowListener, vars

\* A flow that has counted one FIN from each side is not in the table.
THEOREM TeardownCloses == Spec => []OneFinEachWayCloses
<1>1. Init => OneFinEachWayCloses
  BY DEF Init, OneFinEachWayCloses, OpenFlows
<1>2. TypeInv /\ OneFinEachWayCloses /\ [Next]_vars => OneFinEachWayCloses'
  BY OneFinStep
<1>3. QED
  BY <1>1, <1>2, TypeInit, TypeStep, PTL DEF Spec

RetiredStays ==
    /\ handed \subseteq handed'
    /\ dropped \subseteq dropped'
    /\ finished_flows \subseteq Reported'

LEMMA RetiredStaysStep ==
    ASSUME TypeInv, NoTwinFlows, [Next]_vars
    PROVE  RetiredStays
<1>1. TypeOK
  BY DEF TypeInv
<1>2. ASSUME KeepReports PROVE RetiredStays
  BY <1>2, KeepReportsFacts DEF RetiredStays, Reported
<1>3. ASSUME NEW r, Retire(r) PROVE RetiredStays
  BY <1>1, <1>3, RetireFacts DEF RetiredStays, Reported
<1>4. ASSUME NEW p \in Packets, AddPacket(p) PROVE RetiredStays
  BY <1>1, <1>2, <1>3, <1>4, AddPacketShape DEF Starts, Joins, Replaces
<1>5. CASE GetFinishedFlows
  BY <1>5 DEF GetFinishedFlows, RetiredStays, Reported
<1>6. CASE FinishAllFlows
  BY <1>6, FinishAllFacts DEF RetiredStays, Reported
<1>7. CASE UNCHANGED <<finished_flows, handed, dropped>>
  BY <1>7 DEF RetiredStays, Reported
<1>8. QED
  BY <1>4, <1>5, <1>6, <1>7 DEF Next, SetMinPackets, SetFlowListener, vars

\* A report, once made, is never withdrawn, and a dropped flow never returns.
THEOREM RetiredForGood == Spec => RetiredStaysRetired
<1>1. TypeInv /\ NoTwinFlows /\ [Next]_vars => [RetiredStays]_vars
  BY RetiredStaysStep
<1>2. QED
  BY <1>1, TypeInit, TypeStep, NoTwinInit, NoTwinStep, PTL
  DEF Spec, RetiredStaysRetired, RetiredStays

-----------------------------------------------------------------------------
(* The table implements the ledger.                                        *)

fedBar == [i \in 1 .. Len(log) |-> Connection(log[i].key)]
openBar == Members(OpenFlows)

\* The size of a group is the packet count of its flow.
LEMMA CountIsSize ==
    ASSUME TypeOK, Partition, FlowsMatchTheirPackets, NEW f \in AllFlows
    PROVE  PacketCount(f) = Cardinality(f.members)
<1>1. Matches(f) /\ IsFiniteSet(f.members)
  BY MatchesMeaning, MembersFacts
<1>2. /\ f.members = Fwd(f) \cup Bwd(f)
      /\ Fwd(f) \cap Bwd(f) = {}
      /\ IsFiniteSet(Fwd(f)) /\ IsFiniteSet(Bwd(f))
  BY <1>1, FS_Subset DEF Fwd, Bwd
<1>3. Cardinality(f.members) = Cardinality(Fwd(f)) + Cardinality(Bwd(f))
  BY <1>2, AddNewElements
<1>4. CASE Bidirectional
  BY <1>1, <1>3, <1>4 DEF Matches, PacketCount
<1>5. CASE ~Bidirectional
  <2>1. Bwd(f) = {}
    BY <1>5 DEF Bwd, CountsForward
  <2>2. Cardinality(Bwd(f)) = 0
    BY <2>1, FS_EmptySet
  <2>3. Cardinality(Fwd(f)) \in Nat
    BY <1>2, FS_CardinalityType
  <2>4. QED
    BY <1>1, <1>3, <1>5, <2>2, <2>3 DEF Matches, PacketCount
<1>6. QED
  BY <1>4, <1>5

LEMMA GrownSize ==
    ASSUME TypeOK, Partition, FlowsMatchTheirPackets, NEW p \in Packets,
           NEW f \in AllFlows, NEW g, Grown(f, g, p)
    PROVE  PacketCount(g) = Cardinality(g.members)
<1>1. /\ PacketCount(f) = Cardinality(f.members)
      /\ IsFiniteSet(f.members) /\ f \in Flow
  BY CountIsSize, MembersFacts
<1>2. Id \notin f.members /\ g.members = f.members \cup {Id}
  BY MembersFacts, IdType DEF TypeOK, Grown
<1>3. Cardinality(g.members) = Cardinality(f.members) + 1
  BY <1>1, <1>2, FS_AddElement
<1>4. PacketCount(g) = PacketCount(f) + 1
  BY <1>1 DEF Grown, PacketCount, CountsForward, Flow
<1>5. QED
  BY <1>1, <1>3, <1>4

\* FlowLedger's instance of Cardinality is the same operator.
LEMMA SameCardinality == \A S : Ledger!Cardinality(S) = Cardinality(S)
BY DEF Cardinality, Ledger!Cardinality

\* Retiring a flow whose count is its size settles its group.
LEMMA RetireSettles ==
    ASSUME TypeOK, NEW r, PacketCount(r) = Cardinality(r.members), Retire(r)
    PROVE  Ledger!Settle({r.members})
<1>1. LongEnough(r) <=> Ledger!Large(r.members)
  BY SameCardinality DEF LongEnough, Ledger!Large
<1>2. CASE LongEnough(r)
  <2>1. Reported' = Reported \cup {r} /\ dropped' = dropped
    BY <1>2, RetireFacts
  <2>2. Members(Reported') = Members(Reported) \cup {r.members}
    BY <2>1 DEF Members
  <2>3. QED
    BY <1>1, <1>2, <2>1, <2>2 DEF Ledger!Settle, Members
<1>3. CASE ~LongEnough(r)
  <2>1. Reported' = Reported /\ dropped' = dropped \cup {r}
    BY <1>3, RetireFacts DEF Reported
  <2>2. Members(dropped') = Members(dropped) \cup {r.members}
    BY <2>1 DEF Members
  <2>3. QED
    BY <1>1, <1>3, <2>1, <2>2 DEF Ledger!Settle, Members
<1>4. QED
  BY <1>2, <1>3

LEMMA KeepSettles ==
    ASSUME KeepReports
    PROVE  Ledger!Settle({})
<1>1. Reported' = Reported /\ dropped' = dropped
  BY KeepReportsFacts DEF Reported
<1>2. QED
  BY <1>1 DEF Ledger!Settle, Members

\* The ledger's open groups of a connection are those of its open flow.
LEMMA OpenOfConnection ==
    ASSUME TypeOK, Partition, FlowsMatchTheirPackets,
           NEW k \in Key, NEW h \in OpenFlows
    PROVE  h.members \in Ledger!OpenOf(Connection(k)) <=> h.key \in Connection(k)
<1>1. /\ h \in AllFlows /\ h \in Flow /\ h.key \in Key
      /\ h.members \subseteq 1 .. Len(log)
      /\ h.members # {}
  BY MembersFacts DEF AllFlows, Flow
<1>2. \A i \in h.members : log[i].key \in Connection(h.key)
  BY <1>1 DEF FlowsMatchTheirPackets
<1>3. \A i \in h.members : Connection(log[i].key) = Connection(h.key)
  BY <1>1, <1>2, ConnectionFacts
<1>4. \A i \in h.members : fedBar[i] = Connection(h.key)
  BY <1>1, <1>3 DEF fedBar
<1>5. (\A i \in h.members : fedBar[i] = Connection(k)) <=> Connection(h.key) = Connection(k)
  BY <1>1, <1>4
<1>6. Connection(h.key) = Connection(k) <=> h.key \in Connection(k)
  BY <1>1, ConnectionFacts DEF Connection
<1>7. h.members \in Members(OpenFlows)
  BY DEF Members
<1>8. QED
  BY <1>5, <1>6, <1>7 DEF Ledger!OpenOf, fedBar

LEMMA FedAppend ==
    ASSUME TypeOK, NEW p \in Packets, log' = Append(log, p)
    PROVE  /\ Len(fedBar) = Len(log)
           /\ fedBar' = Append(fedBar, Connection(p.key))
<1>1. /\ Len(log) \in Nat /\ Len(log') = Len(log) + 1
      /\ log'[Len(log) + 1] = p
      /\ \A i \in 1 .. Len(log) : log'[i] = log[i]
  BY AppendFacts DEF TypeOK, Id
<1>2. Len(fedBar) = Len(log)
  BY <1>1 DEF fedBar
<1>3. fedBar' = [i \in 1 .. (Len(log) + 1) |-> Connection(log'[i].key)]
  BY <1>1 DEF fedBar
<1>4. Append(fedBar, Connection(p.key)) =
        [i \in 1 .. (Len(log) + 1) |->
            IF i = Len(log) + 1 THEN Connection(p.key) ELSE fedBar[i]]
  BY <1>1, <1>2 DEF fedBar
<1>5. \A i \in 1 .. (Len(log) + 1) :
        Connection(log'[i].key) =
            IF i = Len(log) + 1 THEN Connection(p.key) ELSE fedBar[i]
  BY <1>1 DEF fedBar
<1>6. QED
  BY <1>2, <1>3, <1>4, <1>5

\* Flows other than f have other groups than f.
LEMMA GroupsOfOthers ==
    ASSUME Partition, NEW f \in OpenFlows, NEW S, S = OpenFlows \ {f}
    PROVE  Members(S) = Members(OpenFlows) \ {f.members}
<1>1. \A h \in S : h.members # f.members
  BY DEF Partition, AllFlows
<1>2. QED
  BY <1>1 DEF Members

LEMMA LedgerPacket ==
    ASSUME AccountInv, FlowsMatchTheirPackets, NEW p \in Packets, AddPacket(p)
    PROVE  Ledger!Receive(Connection(p.key))
<1> DEFINE c == Connection(p.key)
<1>1. TypeOK /\ NoTwinFlows /\ Partition /\ OnePlaceEach
  BY DEF AccountInv, TypeInv
<1>2. /\ log' = Append(log, p)
      /\ min_packets_per_flow' = min_packets_per_flow
  BY DEF AddPacket, config
<1>3. /\ Len(fedBar) + 1 = Id
      /\ fedBar' = Append(fedBar, c)
  BY <1>1, <1>2, FedAppend DEF Id
<1>4. p.key \in Key /\ Started(p).members = {Id}
  BY <1>1, PacketTypes, StartedFacts
<1>5. \A h \in OpenFlows :
        h.members \in Ledger!OpenOf(c) <=> h.key \in c
  BY <1>1, <1>4, OpenOfConnection
<1>6. Ledger!OpenOf(c) \subseteq Members(OpenFlows)
  BY DEF Ledger!OpenOf
<1> HIDE DEF c
<1>7. CASE Starts(p)
  <2>1. Ledger!OpenOf(c) = {}
    BY <1>5, <1>6, <1>7 DEF Starts, Others, Members, c
  <2>2. openBar' = openBar \cup {{Id}}
    BY <1>4, <1>7 DEF Starts, openBar, Members
  <2>3. Ledger!Settle({})
    BY <1>7, KeepSettles DEF Starts
  <2>4. QED
    BY <1>2, <1>3, <2>1, <2>2, <2>3 DEF Ledger!Receive, fedBar, openBar
<1>8. ASSUME NEW f \in OpenFlows, f.key \in c, Others(p) = OpenFlows \ {f},
             NEW g, Joins(p, f, g)
      PROVE  Ledger!Receive(c)
  <2>1. f.members \in Ledger!OpenOf(c)
    BY <1>5, <1>8
  <2>2. Members(Others(p)) = Members(OpenFlows) \ {f.members}
    BY <1>1, <1>8, GroupsOfOthers
  <2>3. g.members = f.members \cup {Id}
    BY <1>8 DEF Joins, Grown
  <2>4. CASE OpenFlows' = Others(p) \cup {g} /\ KeepReports
    <3>1. openBar' = (openBar \ {f.members}) \cup {f.members \cup {Id}}
      BY <2>2, <2>3, <2>4 DEF openBar, Members
    <3>2. Ledger!Settle({})
      BY <2>4, KeepSettles
    <3>3. QED
      BY <1>2, <1>3, <2>1, <3>1, <3>2 DEF Ledger!Receive, fedBar, openBar
  <2>5. CASE OpenFlows' = Others(p) /\ Retire(g)
    <3>1. openBar' = openBar \ {f.members}
      BY <2>2, <2>5 DEF openBar, Members
    <3>2. PacketCount(g) = Cardinality(g.members)
      BY <1>1, <1>8, GrownSize DEF Joins, AllFlows
    <3>3. Ledger!Settle({f.members \cup {Id}})
      BY <1>1, <2>3, <2>5, <3>2, RetireSettles
    <3>4. QED
      BY <1>2, <1>3, <2>1, <3>1, <3>3 DEF Ledger!Receive, fedBar, openBar
  <2>6. QED
    BY <1>8, <2>4, <2>5 DEF Joins
<1>9. ASSUME NEW f \in OpenFlows, f.key \in c, Others(p) = OpenFlows \ {f},
             Replaces(p, f)
      PROVE  Ledger!Receive(c)
  <2>1. f.members \in Ledger!OpenOf(c)
    BY <1>5, <1>9
  <2>2. Members(Others(p)) = Members(OpenFlows) \ {f.members}
    BY <1>1, <1>9, GroupsOfOthers
  <2>3. openBar' = (openBar \ {f.members}) \cup {{Id}}
    BY <1>4, <1>9, <2>2 DEF Replaces, openBar, Members
  <2>4. PacketCount(f) = Cardinality(f.members)
    BY <1>1, <1>9, CountIsSize DEF AllFlows
  <2>5. Ledger!Settle({f.members})
    BY <1>1, <1>9, <2>4, RetireSettles DEF Replaces
  <2>6. QED
    BY <1>2, <1>3, <2>1, <2>3, <2>5 DEF Ledger!Receive, fedBar, openBar
<1>10. \/ Starts(p)
       \/ \E f \in OpenFlows :
             /\ f.key \in c
             /\ Others(p) = OpenFlows \ {f}
             /\ \/ \E g : Joins(p, f, g)
                \/ Replaces(p, f)
  BY <1>1, AddPacketShape DEF c
<1>11. QED
  BY <1>7, <1>8, <1>9, <1>10 DEF c

LEMMA LedgerStep ==
    ASSUME AccountInv, FlowsMatchTheirPackets, [Next]_vars
    PROVE  [Ledger!Next]_(Ledger!vars)
<1>1. TypeOK /\ Partition
  BY DEF AccountInv, TypeInv
<1>2. ASSUME NEW p \in Packets, AddPacket(p) PROVE Ledger!Next
  BY <1>2, LedgerPacket DEF Ledger!Next
<1>3. CASE FinishAllFlows
  <2> DEFINE long == {f \in OpenFlows : LongEnough(f)}
  <2>1. /\ OpenFlows' = {}
        /\ Reported' = Reported \cup long
        /\ dropped' = dropped \cup (OpenFlows \ long)
        /\ min_packets_per_flow' = min_packets_per_flow /\ log' = log
    BY <1>3, FinishAllFacts DEF Reported
  <2>2. \A f \in OpenFlows : LongEnough(f) <=> Ledger!Large(f.members)
    BY <1>1, CountIsSize, SameCardinality DEF LongEnough, Ledger!Large, AllFlows
  <2>3. /\ Members(Reported') =
             Members(Reported) \cup {g \in Members(OpenFlows) : Ledger!Large(g)}
        /\ Members(dropped') =
             Members(dropped) \cup {g \in Members(OpenFlows) : ~Ledger!Large(g)}
    BY <2>1, <2>2 DEF Members
  <2>4. Ledger!EndAll
    BY <2>1, <2>3 DEF Ledger!EndAll, Ledger!Settle, Members
  <2>5. QED
    BY <2>4 DEF Ledger!Next
<1>4. ASSUME NEW n \in MinChoices, SetMinPackets(n) PROVE Ledger!Next
  <2>1. Ledger!SetMinimum
    BY <1>4, GeneratorAssumption
    DEF SetMinPackets, Ledger!SetMinimum, Members, OpenFlows, Reported
  <2>2. QED
    BY <2>1 DEF Ledger!Next
<1>5. CASE GetFinishedFlows
  <2>1. /\ Reported' = Reported /\ OpenFlows' = OpenFlows
        /\ UNCHANGED <<dropped, log, min_packets_per_flow>>
    BY <1>5 DEF GetFinishedFlows, config, Reported, OpenFlows
  <2>2. QED
    BY <2>1 DEF Ledger!vars, Members
<1>6. CASE SetFlowListener \/ UNCHANGED vars
  <2>1. /\ Reported' = Reported /\ OpenFlows' = OpenFlows
        /\ UNCHANGED <<dropped, log, min_packets_per_flow>>
    BY <1>6 DEF SetFlowListener, vars, config, Reported, OpenFlows
  <2>2. QED
    BY <2>1 DEF Ledger!vars, Members
<1>7. QED
  BY <1>2, <1>3, <1>4, <1>5, <1>6 DEF Next

\* The flow table implements the ledger: the packets of each connection are
\* cut into successive groups, each reported or discarded by its size.
THEOREM TableImplementsLedger == Spec => ImplementsLedger
<1>1. Init => Ledger!Init
  <2> SUFFICES ASSUME Init PROVE Ledger!Init
    OBVIOUS
  <2>1. OpenFlows = {} /\ Reported = {} /\ dropped = {}
    BY DEF Init, OpenFlows, Reported
  <2>2. [i \in 1 .. Len(log) |-> Connection(log[i].key)] = <<>>
    BY DEF Init
  <2>3. min_packets_per_flow \in Nat
    BY DEF Init
  <2>4. QED
    BY <2>1, <2>2, <2>3 DEF Ledger!Init, Members
<1>2. AccountInv /\ FlowsMatchTheirPackets /\ [Next]_vars
        => [Ledger!Next]_(Ledger!vars)
  BY LedgerStep
<1>3. QED
  BY <1>1, <1>2, AccountCorrect, CountersMatchPackets, PTL
  DEF Spec, ImplementsLedger, Ledger!Spec

-----------------------------------------------------------------------------
(* The exported flow ids name connections, for all addresses of all        *)
(* lengths and both ways of comparing their octets.                        *)

\* Two addresses of the same length that are not the same differ first in
\* exactly one place, and it is the same seen from either.
LEMMA FirstDifferenceExists ==
    ASSUME NEW s \in Seq(0 .. 255), NEW d \in Seq(0 .. 255),
           Len(s) = Len(d), s # d
    PROVE  \E i \in DOMAIN s \cap DOMAIN d :
               /\ s[i] \in 0 .. 255 /\ d[i] \in 0 .. 255 /\ s[i] # d[i]
               /\ FirstDifference(s, d) = {i}
               /\ FirstDifference(d, s) = {i}
<1> DEFINE T == {i \in 1 .. Len(s) : s[i] # d[i]}
<1>1. DOMAIN s = 1 .. Len(s) /\ DOMAIN d = 1 .. Len(s) /\ Len(s) \in Nat
  OBVIOUS
<1>2. T # {} /\ T \subseteq Nat
  BY <1>1, SeqEqual
<1>3. PICK i \in T : \A j \in T : i <= j
  <2> HIDE DEF T
  <2>1. QED
    BY <1>2, LeastElement
<1>4. s[i] \in 0 .. 255 /\ d[i] \in 0 .. 255 /\ s[i] # d[i]
  BY <1>1
<1>5. \A j \in 1 .. i - 1 : s[j] = d[j]
  BY <1>1, <1>3
<1>6. \A k \in 1 .. Len(s) : (\A j \in 1 .. k - 1 : s[j] = d[j]) => k <= i
  BY <1>4
<1>7. \A k \in 1 .. Len(s) : s[k] # d[k] => i <= k
  BY <1>3
<1>8. FirstDifference(s, d) = {i}
  BY <1>1, <1>4, <1>5, <1>6, <1>7 DEF FirstDifference
<1>9. FirstDifference(d, s) = {i}
  BY <1>1, <1>4, <1>5, <1>6, <1>7 DEF FirstDifference
<1>10. QED
  BY <1>1, <1>4, <1>8, <1>9

\* Different octets have different ranks, in either comparison.
LEMMA RankOrders ==
    ASSUME NEW x \in 0 .. 255, NEW y \in 0 .. 255, x # y,
           NEW mode \in BOOLEAN
    PROVE  /\ Rank(x, mode) \in Int /\ Rank(y, mode) \in Int
           /\ Rank(x, mode) > Rank(y, mode) <=> ~(Rank(y, mode) > Rank(x, mode))
BY DEF Rank

\* generate_flow_id leaves a key as it is or reverses it.
LEMMA IdOfConnection ==
    ASSUME NEW k, NEW mode
    PROVE  GenerateFlowId(k, mode) \in Connection(k)
BY DEF GenerateFlowId, Connection

\* Reversing a key of two hosts reverses the comparison.
LEMMA IdOfReverse ==
    ASSUME NEW k \in Key, OfTwoHosts(k), NEW mode \in BOOLEAN
    PROVE  GenerateFlowId(Reverse(k), mode) = GenerateFlowId(k, mode)
<1> DEFINE s == Octets[k.src_ip]
           d == Octets[k.dst_ip]
           r == Reverse(k)
<1>1. s \in Seq(0 .. 255) /\ d \in Seq(0 .. 255) /\ Len(s) = Len(d) /\ s # d
  BY OctetsAssumption DEF Key, OfTwoHosts
<1>2. r.src_ip = k.dst_ip /\ r.dst_ip = k.src_ip /\ Reverse(r) = k
  BY DEF Reverse, Key
<1>3. PICK i \in DOMAIN s \cap DOMAIN d :
          /\ s[i] \in 0 .. 255 /\ d[i] \in 0 .. 255 /\ s[i] # d[i]
          /\ FirstDifference(s, d) = {i} /\ FirstDifference(d, s) = {i}
  <2> HIDE DEF s, d
  <2>1. QED
    BY <1>1, FirstDifferenceExists
<1>4. Rank(s[i], mode) > Rank(d[i], mode) <=> ~(Rank(d[i], mode) > Rank(s[i], mode))
  BY <1>3, RankOrders, ZenonT(30)
<1>5. GenerateFlowId(k, mode) = IF Rank(s[i], mode) > Rank(d[i], mode) THEN r ELSE k
  BY <1>3 DEF GenerateFlowId
<1>6. GenerateFlowId(r, mode) = IF Rank(d[i], mode) > Rank(s[i], mode) THEN k ELSE r
  BY <1>2, <1>3 DEF GenerateFlowId
<1>7. QED
  BY <1>4, <1>5, <1>6

\* The ids of two keys of two hosts are the same exactly when the keys are of
\* one connection.
LEMMA IdNamesConnection ==
    ASSUME NEW k \in Key, NEW l \in Key, OfTwoHosts(k), OfTwoHosts(l),
           NEW mode \in BOOLEAN
    PROVE  GenerateFlowId(k, mode) = GenerateFlowId(l, mode)
             <=> k \in Connection(l)
<1>1. /\ Reverse(k) \in Key /\ Reverse(Reverse(k)) = k
      /\ Reverse(l) \in Key /\ Reverse(Reverse(l)) = l
  BY DEF Reverse, Key
<1>2. ASSUME k \in Connection(l)
      PROVE  GenerateFlowId(k, mode) = GenerateFlowId(l, mode)
  BY <1>2, IdOfReverse DEF Connection
<1>3. ASSUME GenerateFlowId(k, mode) = GenerateFlowId(l, mode)
      PROVE  k \in Connection(l)
  <2>1. /\ GenerateFlowId(k, mode) \in {k, Reverse(k)}
        /\ GenerateFlowId(l, mode) \in {l, Reverse(l)}
    BY IdOfConnection DEF Connection
  <2>2. k = l \/ k = Reverse(l)
    BY <1>1, <1>3, <2>1
  <2>3. QED
    BY <2>2 DEF Connection
<1>4. QED
  BY <1>2, <1>3

\* generate_flow_id gives two flows between two hosts the same id exactly when
\* they are of one connection, whichever side opened them, for all addresses.
THEOREM IdsCanonical == Spec => []ExportedIdsAreCanonical
<1>1. TypeOK => ExportedIdsAreCanonical
  <2> SUFFICES ASSUME TypeOK,
                      NEW f \in AllFlows, NEW g \in AllFlows,
                      OfTwoHosts(f.key), OfTwoHosts(g.key),
                      NEW mode \in BOOLEAN
               PROVE  GenerateFlowId(f.key, mode) = GenerateFlowId(g.key, mode)
                        <=> f.key \in Connection(g.key)
    BY DEF ExportedIdsAreCanonical
  <2>1. f \in Flow /\ g \in Flow
    BY DEF TypeOK, AllFlows, OpenFlows, Retired, Reported
  <2>2. f.key \in Key /\ g.key \in Key
    BY <2>1 DEF Flow
  <2>3. QED
    BY <2>2, IdNamesConnection
<1>2. QED
  BY <1>1, TypeSafe, PTL
=============================================================================
