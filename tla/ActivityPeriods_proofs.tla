----------------------- MODULE ActivityPeriods_proofs -----------------------
(***************************************************************************)
(* Theorems about the subflows and the active and idle periods of a flow,  *)
(* for any packets, timeouts and order of teardown.                        *)
(***************************************************************************)
EXTENDS ActivityPeriods, FlowGenerator_proofs

\* A tracker whose last time is -1 is taken for one that has seen no packet,
\* so a packet with that timestamp would be forgotten.
TimesAreSet == \A p \in Packets : p.timestamp # Unset

-----------------------------------------------------------------------------
(* One tracker.                                                            *)

Logged(t) == t.flow_active_stats.sum + t.flow_idle_stats.sum

LEMMA TrackerTimes ==
    ASSUME NEW t \in Tracker
    PROVE  /\ t.start_active_time \in Int /\ t.end_active_time \in Int
           /\ t.sf_last_packet_ts \in Int /\ Logged(t) \in Int
<1>1. t.flow_active_stats \in Stats /\ t.flow_idle_stats \in Stats
  BY DEF Tracker
<1>2. t.flow_active_stats.sum \in Int /\ t.flow_idle_stats.sum \in Int
  BY <1>1 DEF Stats
<1>3. Logged(t) \in Int
  BY <1>2 DEF Logged
<1>4. QED
  BY <1>3 DEF Tracker

LEMMA AddValueSum ==
    ASSUME NEW s \in Stats, NEW v \in Int
    PROVE  AddValue(s, v).sum = s.sum + v /\ s.sum \in Int
BY DEF Stats, AddValue

LEMMA LoggedActive ==
    ASSUME NEW t \in Tracker, t.start_active_time <= t.end_active_time
    PROVE  LogActive(t).sum =
             t.flow_active_stats.sum + (t.end_active_time - t.start_active_time)
<1>1. /\ t.flow_active_stats \in Stats
      /\ t.start_active_time \in Int /\ t.end_active_time \in Int
  BY DEF Tracker
<1>2. t.flow_active_stats.sum \in Int
  BY <1>1 DEF Stats
<1> DEFINE span == t.end_active_time - t.start_active_time
<1>3. span \in Int /\ span >= 0
  BY <1>1
<1> HIDE DEF span
<1>4. CASE span > 0
  <2>1. LogActive(t) = AddValue(t.flow_active_stats, span)
    BY <1>4 DEF LogActive, span
  <2>2. QED
    BY <1>1, <1>3, <2>1, AddValueSum DEF span
<1>5. CASE span = 0
  <2>1. LogActive(t) = t.flow_active_stats
    BY <1>5 DEF LogActive, span
  <2>2. LogActive(t).sum = t.flow_active_stats.sum + span
    BY <1>2, <1>5, <2>1
  <2>3. QED
    BY <2>2 DEF span
<1>6. QED
  BY <1>3, <1>4, <1>5

\* Extending the active period, or ending it, leaves the subflows alone and
\* the logged time up to the start of the period as it was.
LEMMA UpdateActiveIdleFacts ==
    ASSUME NEW t \in Tracker, NEW ts \in Int
    PROVE  LET u == UpdateActiveIdle(t, ts) IN
           /\ u \in Tracker
           /\ u.sf_count = t.sf_count
           /\ u.sf_last_packet_ts = t.sf_last_packet_ts
           /\ u.end_active_time = ts
           /\ (t.start_active_time <= t.end_active_time /\ t.end_active_time <= ts) =>
                /\ u.start_active_time <= ts
                /\ Logged(u) - u.start_active_time = Logged(t) - t.start_active_time
<1> DEFINE u == UpdateActiveIdle(t, ts)
<1>1. /\ t.flow_active_stats \in Stats /\ t.flow_idle_stats \in Stats
      /\ t.start_active_time \in Int /\ t.end_active_time \in Int
      /\ t.flow_active_stats.sum \in Int /\ t.flow_idle_stats.sum \in Int
  BY DEF Tracker, Stats
<1>2. u \in Tracker
  BY UpdateActiveIdleType
<1>3. CASE ts - t.end_active_time > ActivityTimeout
  <2> DEFINE idle == AddValue(t.flow_idle_stats, ts - t.end_active_time)
  <2>1. u = [t EXCEPT !.flow_active_stats = LogActive(t), !.flow_idle_stats = idle,
                      !.start_active_time = ts, !.end_active_time = ts]
    BY <1>3 DEF UpdateActiveIdle, Tracker
  <2>2. idle.sum = t.flow_idle_stats.sum + (ts - t.end_active_time)
    BY <1>1, AddValueSum
  <2> HIDE DEF idle, u
  <2>3. /\ u.sf_count = t.sf_count /\ u.sf_last_packet_ts = t.sf_last_packet_ts
        /\ u.end_active_time = ts /\ u.start_active_time = ts
        /\ u.flow_active_stats = LogActive(t) /\ u.flow_idle_stats = idle
    BY <2>1 DEF Tracker
  <2>4. ASSUME t.start_active_time <= t.end_active_time
        PROVE  Logged(u) - u.start_active_time = Logged(t) - t.start_active_time
    <3>1. LogActive(t).sum =
            t.flow_active_stats.sum + (t.end_active_time - t.start_active_time)
      BY <2>4, LoggedActive
    <3>2. Logged(u) = LogActive(t).sum + idle.sum
      BY <2>3 DEF Logged
    <3>3. Logged(u) = (t.flow_active_stats.sum + (t.end_active_time - t.start_active_time))
                        + (t.flow_idle_stats.sum + (ts - t.end_active_time))
      BY <2>2, <3>1, <3>2
    <3>4. QED
      BY <1>1, <2>3, <3>3 DEF Logged
  <2>5. u.start_active_time <= ts
    BY <2>3
  <2>6. QED
    BY <1>2, <2>3, <2>4, <2>5 DEF u
<1>4. CASE ~(ts - t.end_active_time > ActivityTimeout)
  <2>1. u = [t EXCEPT !.end_active_time = ts]
    BY <1>4 DEF UpdateActiveIdle
  <2> HIDE DEF u
  <2>2. /\ u.sf_count = t.sf_count /\ u.sf_last_packet_ts = t.sf_last_packet_ts
        /\ u.end_active_time = ts /\ u.start_active_time = t.start_active_time
        /\ u.flow_active_stats = t.flow_active_stats
        /\ u.flow_idle_stats = t.flow_idle_stats
    BY <2>1 DEF Tracker
  <2>3. Logged(u) = Logged(t)
    BY <2>2 DEF Logged
  <2>4. (t.start_active_time <= t.end_active_time /\ t.end_active_time <= ts)
          => u.start_active_time <= ts
    BY <1>1, <2>2
  <2>5. QED
    BY <1>2, <2>2, <2>3, <2>4 DEF u
<1>5. QED
  BY <1>3, <1>4

\* A tracker that has seen a packet takes the next one: a gap of more than a
\* second is one more subflow.
LEMMA UpdateSubflowFacts ==
    ASSUME NEW t \in Tracker, NEW ts \in Int, t.sf_last_packet_ts # Unset
    PROVE  LET u == UpdateSubflow(t, ts) IN
           /\ u.sf_last_packet_ts = ts
           /\ u.sf_count = IF ts - t.sf_last_packet_ts > OneSecond
                           THEN t.sf_count + 1 ELSE t.sf_count
           /\ (t.start_active_time <= t.end_active_time /\ t.end_active_time <= ts) =>
                /\ u.start_active_time <= u.end_active_time
                /\ u.end_active_time <= ts
                /\ Logged(u) - u.start_active_time = Logged(t) - t.start_active_time
<1> DEFINE u == UpdateSubflow(t, ts)
<1>1. t.start_active_time \in Int /\ t.end_active_time \in Int
  BY DEF Tracker
<1>2. CASE ts - t.sf_last_packet_ts > OneSecond
  <2> DEFINE c == [t EXCEPT !.sf_count = @ + 1]
             v == UpdateActiveIdle(c, ts)
  <2>1. u = [v EXCEPT !.sf_ac_helper = ts, !.sf_last_packet_ts = ts]
    BY <1>2 DEF UpdateSubflow, StartSubflow
  <2>2. /\ c \in Tracker /\ c.sf_count = t.sf_count + 1
        /\ c.start_active_time = t.start_active_time
        /\ c.end_active_time = t.end_active_time
        /\ c.flow_active_stats = t.flow_active_stats
        /\ c.flow_idle_stats = t.flow_idle_stats
    BY DEF Tracker
  <2> HIDE DEF c
  <2>3. /\ v \in Tracker /\ v.sf_count = c.sf_count /\ v.end_active_time = ts
        /\ (c.start_active_time <= c.end_active_time /\ c.end_active_time <= ts) =>
             /\ v.start_active_time <= ts
             /\ Logged(v) - v.start_active_time = Logged(c) - c.start_active_time
    BY <2>2, UpdateActiveIdleFacts
  <2> HIDE DEF u, v
  <2>4. /\ u.sf_last_packet_ts = ts /\ u.sf_count = v.sf_count
        /\ u.end_active_time = ts /\ u.start_active_time = v.start_active_time
        /\ u.flow_active_stats = v.flow_active_stats
        /\ u.flow_idle_stats = v.flow_idle_stats
    BY <2>1, <2>3 DEF Tracker
  <2>5. Logged(u) = Logged(v) /\ Logged(c) = Logged(t)
    BY <2>2, <2>4 DEF Logged
  <2>6. QED
    BY <1>2, <2>2, <2>3, <2>4, <2>5 DEF u
<1>3. CASE ~(ts - t.sf_last_packet_ts > OneSecond)
  <2>1. u = [t EXCEPT !.sf_last_packet_ts = ts]
    BY <1>3 DEF UpdateSubflow
  <2> HIDE DEF u
  <2>2. /\ u.sf_last_packet_ts = ts /\ u.sf_count = t.sf_count
        /\ u.end_active_time = t.end_active_time
        /\ u.start_active_time = t.start_active_time
        /\ u.flow_active_stats = t.flow_active_stats
        /\ u.flow_idle_stats = t.flow_idle_stats
    BY <2>1 DEF Tracker
  <2>3. Logged(u) = Logged(t)
    BY <2>2 DEF Logged
  <2>4. QED
    BY <1>3, <2>2, <2>3 DEF u
<1>4. QED
  BY <1>2, <1>3

-----------------------------------------------------------------------------
(* One flow.                                                               *)

Last(f) == Max(f.members)
Earlier(f, i) == {j \in f.members : j < i}

\* The tracker remembers the time of the flow's last packet.
AtLast(f) == f.subflow.sf_last_packet_ts = log[Last(f)].timestamp

FarGaps(f) == {i \in Successors(f) : Gap(f, i) > OneSecond}
CountsSubflows(f) == f.subflow.sf_count = Cardinality(FarGaps(f))

\* In a flow whose packets came in order the current period does not reach
\* beyond the last packet, and the logged ones fill the time up to it.
Tiles(f) ==
    InOrder(f) =>
        /\ f.subflow.start_active_time <= f.subflow.end_active_time
        /\ f.subflow.end_active_time <= f.subflow.sf_last_packet_ts
        /\ Logged(f.subflow) = f.subflow.start_active_time - f.flow_start_time

Tells(f) == AtLast(f) /\ CountsSubflows(f) /\ Tiles(f)

TrackerInv == \A f \in AllFlows : Tells(f)

LEMMA EndsOf ==
    ASSUME TypeOK, Partition, NEW f \in AllFlows
    PROVE  /\ f \in Flow /\ f.members \subseteq 1 .. Len(log) /\ Len(log) \in Nat
           /\ IsFiniteSet(f.members)
           /\ Last(f) \in f.members /\ \A i \in f.members : i <= Last(f)
           /\ Min(f.members) \in f.members
           /\ \A i \in f.members : Min(f.members) <= i
           /\ \A i \in Successors(f) :
                 i \in f.members /\ Max(Earlier(f, i)) \in f.members
<1>1. /\ f \in Flow /\ f.members \subseteq 1 .. Len(log) /\ Len(log) \in Nat
      /\ IsFiniteSet(f.members) /\ f.members # {}
  BY MembersFacts, IdType DEF TypeOK
<1>2. Last(f) \in f.members /\ \A i \in f.members : i <= Last(f)
  BY <1>1, MaxOf DEF Last
<1>3. f.members \in SUBSET Nat
  BY <1>1
<1>4. Min(f.members) \in f.members /\ \A i \in f.members : Min(f.members) <= i
  BY <1>1, <1>3, MinOf
<1>5. ASSUME NEW i \in Successors(f)
      PROVE  i \in f.members /\ Max(Earlier(f, i)) \in f.members
  <2>1. i \in f.members /\ i # Min(f.members)
    BY DEF Successors
  <2>2. i \in Nat /\ Min(f.members) \in Nat /\ Min(f.members) <= i
    BY <1>3, <1>4, <2>1
  <2>3. Min(f.members) \in Earlier(f, i)
    BY <1>4, <2>1, <2>2 DEF Earlier
  <2>4. Earlier(f, i) \in SUBSET (1 .. Len(log))
    BY <1>1 DEF Earlier
  <2>5. Max(Earlier(f, i)) \in Earlier(f, i)
    BY <1>1, <2>3, <2>4, MaxOf
  <2>6. QED
    BY <2>1, <2>5 DEF Earlier
<1>6. QED
  BY <1>1, <1>2, <1>4, <1>5

\* A flow that does not get the packet says the same as before.
LEMMA SameTelling ==
    ASSUME TypeOK, Partition, NEW p \in Packets, log' = Append(log, p),
           NEW f \in AllFlows
    PROVE  /\ \A i \in Successors(f) : Gap(f, i)' = Gap(f, i)
           /\ FarGaps(f)' = FarGaps(f)
           /\ InOrder(f)' <=> InOrder(f)
           /\ AtLast(f)' <=> AtLast(f)
           /\ Tells(f)' <=> Tells(f)
<1>1. \A i \in f.members : log'[i] = log[i]
  BY MembersFacts, AppendFacts DEF TypeOK
<1>2. AtLast(f)' <=> AtLast(f)
  BY <1>1, EndsOf DEF AtLast, Last
<1>3. ASSUME NEW i \in Successors(f) PROVE Gap(f, i)' = Gap(f, i)
  <2>1. i \in f.members /\ Max(Earlier(f, i)) \in f.members
    BY EndsOf
  <2>2. log'[i] = log[i] /\ log'[Max(Earlier(f, i))] = log[Max(Earlier(f, i))]
    BY <1>1, <2>1
  <2>3. QED
    BY <2>2 DEF Gap, Earlier
<1>4. FarGaps(f)' = FarGaps(f)
  BY <1>3 DEF FarGaps, Successors
<1>5. InOrder(f)' <=> InOrder(f)
  BY <1>1 DEF InOrder
<1>6. CountsSubflows(f)' <=> CountsSubflows(f)
  BY <1>4 DEF CountsSubflows
<1>7. Tiles(f)' <=> Tiles(f)
  BY <1>5 DEF Tiles, Logged
<1>8. QED
  BY <1>2, <1>3, <1>4, <1>5, <1>6, <1>7 DEF Tells

\* A flow that gets it has one gap more, from its last packet.
LEMMA GrownGaps ==
    ASSUME TypeOK, Partition, NEW p \in Packets, log' = Append(log, p),
           NEW f \in AllFlows, AtLast(f), NEW g, Grown(f, g, p)
    PROVE  /\ Last(g) = Id
           /\ FarGaps(g)' = IF p.timestamp - f.subflow.sf_last_packet_ts > OneSecond
                            THEN FarGaps(f) \cup {Id} ELSE FarGaps(f)
           /\ InOrder(g)' => /\ InOrder(f)
                             /\ f.subflow.sf_last_packet_ts <= p.timestamp
           /\ Successors(g) = Successors(f) \cup {Id} /\ Id \notin Successors(f)
           /\ \A i \in Successors(f) : Gap(g, i)' = Gap(f, i)
           /\ \A n : n = Id =>
                 Gap(g, n)' = p.timestamp - f.subflow.sf_last_packet_ts
<1>1. /\ log'[Id] = p /\ Id \in Nat
      /\ \A i \in f.members : i \in Nat /\ i < Id /\ log'[i] = log[i]
      /\ g.members = f.members \cup {Id}
  BY MembersFacts, MembersOrder, AppendFacts, IdType DEF TypeOK, Grown
<1>2. g.members \in SUBSET Nat /\ Id \in g.members /\ \A i \in g.members : i <= Id
  BY <1>1
<1>3. Last(g) = Id
  BY <1>2, MaxIs DEF Last
<1>4. Min(g.members) = Min(f.members) /\ Min(f.members) < Id
  <2>1. /\ Min(f.members) \in g.members
        /\ \A i \in g.members : Min(f.members) <= i
    BY <1>1, EndsOf
  <2>2. Min(g.members) = Min(f.members)
    BY ONLY <1>2, <2>1, MinIs
  <2>3. Min(f.members) \in f.members
    BY EndsOf
  <2>4. QED
    BY ONLY <1>1, <2>2, <2>3
<1>5. Id \notin f.members /\ Id # Min(f.members)
  BY <1>1, EndsOf
<1>6. Successors(g) = Successors(f) \cup {Id}
  BY <1>1, <1>4, <1>5 DEF Successors
<1>7. \A i \in Successors(f) : Earlier(g, i) = Earlier(f, i)
  <2> SUFFICES ASSUME NEW i \in Successors(f) PROVE Earlier(g, i) = Earlier(f, i)
    OBVIOUS
  <2>1. i \in f.members /\ i \in Nat /\ Id \in Nat /\ i < Id
    BY <1>1, EndsOf
  <2>2. ~(Id < i)
    BY <2>1
  <2>3. QED
    BY <1>1, <2>2 DEF Earlier
<1>8. Earlier(g, Id) = f.members
  BY <1>1 DEF Earlier
<1>9. ASSUME NEW i \in Successors(f) PROVE Gap(g, i)' = Gap(f, i)
  <2>1. i \in f.members /\ Max(Earlier(f, i)) \in f.members
    BY EndsOf
  <2>2. log'[i] = log[i] /\ log'[Max(Earlier(g, i))] = log[Max(Earlier(f, i))]
    BY <1>1, <1>7, <2>1
  <2>3. QED
    BY <2>2 DEF Gap, Earlier
<1> PICK n : n = Id
  OBVIOUS
<1>10. Gap(g, n)' = p.timestamp - f.subflow.sf_last_packet_ts
  <2>1. log'[Max(Earlier(g, n))] = log[Last(f)]
    BY <1>1, <1>8, EndsOf DEF Last
  <2>2. Gap(g, n)' = log'[n].timestamp - log'[Max(Earlier(g, n))].timestamp
    BY DEF Gap, Earlier
  <2>3. log'[n].timestamp = p.timestamp
    BY <1>1
  <2>4. QED
    BY <2>1, <2>2, <2>3 DEF AtLast
<1>11. FarGaps(g)' = {i \in Successors(g) : Gap(g, i)' > OneSecond}
  BY DEF FarGaps, Successors
<1>12. FarGaps(g)' = IF p.timestamp - f.subflow.sf_last_packet_ts > OneSecond
                     THEN FarGaps(f) \cup {Id} ELSE FarGaps(f)
  <2>1. Successors(g) = Successors(f) \cup {n}
    BY <1>6
  <2>2. FarGaps(f) = {i \in Successors(f) : Gap(g, i)' > OneSecond}
    BY <1>9 DEF FarGaps
  <2>3. QED
    BY <1>10, <1>11, <2>1, <2>2
<1>13. ASSUME InOrder(g)'
       PROVE  InOrder(f) /\ f.subflow.sf_last_packet_ts <= p.timestamp
  <2>1. \A i, j \in g.members : i < j => log'[i].timestamp <= log'[j].timestamp
    BY <1>13 DEF InOrder
  <2>2. InOrder(f)
    BY <1>1, <2>1 DEF InOrder
  <2>3. Last(f) \in f.members /\ Last(f) \in g.members /\ Last(f) < Id
    BY <1>1, EndsOf
  <2>4. log'[Last(f)].timestamp <= log'[Id].timestamp
    BY <1>2, <2>1, <2>3
  <2>5. QED
    BY <1>1, <2>2, <2>3, <2>4 DEF AtLast
<1>14. Id \notin Successors(f)
  BY <1>5 DEF Successors
<1>15. QED
  BY <1>3, <1>6, <1>9, <1>10, <1>12, <1>13, <1>14

\* The time of a flow's last packet is a packet's, and so not -1.
LEMMA LastIsSet ==
    ASSUME TimesAreSet, TypeOK, Partition, NEW f \in AllFlows, AtLast(f)
    PROVE  f.subflow \in Tracker /\ f.subflow.sf_last_packet_ts # Unset
<1>1. f \in Flow /\ Last(f) \in 1 .. Len(log) /\ log \in Seq(Packets)
  BY EndsOf DEF TypeOK
<1>2. log[Last(f)] \in Packets
  BY <1>1
<1>3. QED
  BY <1>1, <1>2 DEF TimesAreSet, AtLast, Flow

\* On either of the two branches the tracker stays true to the packets.
LEMMA TrackedFacts ==
    ASSUME NEW t \in Tracker, NEW ts \in Int, t.sf_last_packet_ts # Unset,
           NEW u \in Tracked(t, ts)
    PROVE  /\ u.sf_last_packet_ts = ts
           /\ u.sf_count = IF ts - t.sf_last_packet_ts > OneSecond
                           THEN t.sf_count + 1 ELSE t.sf_count
           /\ (t.start_active_time <= t.end_active_time /\ t.end_active_time <= ts) =>
                /\ u.start_active_time <= u.end_active_time
                /\ u.end_active_time <= ts
                /\ Logged(u) - u.start_active_time = Logged(t) - t.start_active_time
<1>1. CASE u = UpdateSubflow(t, ts)
  BY <1>1, UpdateSubflowFacts
<1>2. CASE u = UpdateSubflow(UpdateActiveIdle(t, ts), ts)
  <2> DEFINE v == UpdateActiveIdle(t, ts)
  <2>1. /\ v \in Tracker
        /\ v.sf_count = t.sf_count
        /\ v.sf_last_packet_ts = t.sf_last_packet_ts
        /\ v.end_active_time = ts
        /\ (t.start_active_time <= t.end_active_time /\ t.end_active_time <= ts) =>
             /\ v.start_active_time <= ts
             /\ Logged(v) - v.start_active_time = Logged(t) - t.start_active_time
    BY UpdateActiveIdleFacts
  <2> HIDE DEF v
  <2>2. u = UpdateSubflow(v, ts)
    BY <1>2 DEF v
  <2>3. /\ u.sf_last_packet_ts = ts
        /\ u.sf_count = IF ts - v.sf_last_packet_ts > OneSecond
                        THEN v.sf_count + 1 ELSE v.sf_count
        /\ (v.start_active_time <= v.end_active_time /\ v.end_active_time <= ts) =>
             /\ u.start_active_time <= u.end_active_time
             /\ u.end_active_time <= ts
             /\ Logged(u) - u.start_active_time = Logged(v) - v.start_active_time
    BY <2>1, <2>2, UpdateSubflowFacts
  <2>4. QED
    BY <2>1, <2>3
<1>3. QED
  BY <1>1, <1>2 DEF Tracked

LEMMA GrownTells ==
    ASSUME TimesAreSet, TypeOK, Partition, NEW p \in Packets, log' = Append(log, p),
           NEW f \in AllFlows, Tells(f), NEW g, Grown(f, g, p)
    PROVE  Tells(g)'
<1> DEFINE t == f.subflow
           u == g.subflow
           ts == p.timestamp
<1>1. /\ AtLast(f) /\ CountsSubflows(f) /\ Tiles(f)
      /\ t \in Tracker /\ t.sf_last_packet_ts # Unset /\ ts \in Int
      /\ u \in Tracked(t, ts) /\ u \in Tracker
      /\ g.flow_start_time = f.flow_start_time /\ f.flow_start_time \in Int
  BY LastIsSet, PacketTypes, EndsOf DEF Tells, Grown, Flow
<1>2. /\ u.sf_last_packet_ts = ts
      /\ u.sf_count = IF ts - t.sf_last_packet_ts > OneSecond
                      THEN t.sf_count + 1 ELSE t.sf_count
      /\ (t.start_active_time <= t.end_active_time /\ t.end_active_time <= ts) =>
           /\ u.start_active_time <= u.end_active_time
           /\ u.end_active_time <= ts
           /\ Logged(u) - u.start_active_time = Logged(t) - t.start_active_time
  BY <1>1, TrackedFacts
<1>3. /\ Last(g) = Id
      /\ FarGaps(g)' = IF ts - t.sf_last_packet_ts > OneSecond
                       THEN FarGaps(f) \cup {Id} ELSE FarGaps(f)
      /\ InOrder(g)' => InOrder(f) /\ t.sf_last_packet_ts <= ts
  BY <1>1, GrownGaps
<1>4. AtLast(g)'
  <2>1. log'[Id] = p
    BY AppendFacts DEF TypeOK
  <2>2. log'[Last(g)].timestamp = ts
    BY <1>3, <2>1
  <2>3. QED
    BY <1>2, <2>2 DEF AtLast, Last
<1>5. CountsSubflows(g)'
  <2>1. IsFiniteSet(FarGaps(f)) /\ Id \notin FarGaps(f)
    <3>1. FarGaps(f) \subseteq f.members
      BY DEF FarGaps, Successors
    <3>2. \A i \in f.members : i \in Nat /\ i < Id
      BY MembersOrder
    <3>3. QED
      BY <3>1, <3>2, EndsOf, FS_Subset
  <2>2. Cardinality(FarGaps(f) \cup {Id}) = Cardinality(FarGaps(f)) + 1
    BY <2>1, FS_AddElement
  <2>3. t.sf_count = Cardinality(FarGaps(f))
    BY <1>1 DEF CountsSubflows
  <2>4. u.sf_count = Cardinality(FarGaps(g)')
    BY <1>2, <1>3, <2>2, <2>3
  <2>5. QED
    BY <2>4 DEF CountsSubflows
<1>6. Tiles(g)'
  <2> SUFFICES ASSUME InOrder(g)'
               PROVE  /\ u.start_active_time <= u.end_active_time
                      /\ u.end_active_time <= u.sf_last_packet_ts
                      /\ Logged(u) = u.start_active_time - g.flow_start_time
    BY DEF Tiles, Logged
  <2>1. /\ t.start_active_time <= t.end_active_time
        /\ t.end_active_time <= t.sf_last_packet_ts
        /\ t.sf_last_packet_ts <= ts
        /\ Logged(t) = t.start_active_time - f.flow_start_time
    BY <1>1, <1>3 DEF Tiles
  <2>2. /\ t.start_active_time \in Int /\ t.end_active_time \in Int
        /\ t.sf_last_packet_ts \in Int /\ u.start_active_time \in Int
        /\ Logged(u) \in Int /\ Logged(t) \in Int
    BY <1>1, TrackerTimes
  <2>3. t.end_active_time <= ts
    BY <1>1, <2>1, <2>2
  <2>4. /\ u.start_active_time <= u.end_active_time
        /\ u.end_active_time <= u.sf_last_packet_ts
        /\ Logged(u) - u.start_active_time = Logged(t) - t.start_active_time
    BY <1>2, <2>1, <2>3
  <2> HIDE DEF t, u
  <2>5. /\ f.flow_start_time \in Int /\ g.flow_start_time = f.flow_start_time
    BY <1>1
  <2>6. Logged(u) = u.start_active_time - f.flow_start_time
    <3>1. \A a, b, c, d, s \in Int : a - b = c - d /\ c = d - s => a = b - s
      OBVIOUS
    <3>2. QED
      BY ONLY <2>1, <2>2, <2>4, <2>5, <3>1
  <2>7. QED
    BY <2>4, <2>5, <2>6 DEF u
<1>7. QED
  BY <1>4, <1>5, <1>6 DEF Tells

LEMMA StartedTells ==
    ASSUME TypeOK, NEW p \in Packets, log' = Append(log, p), NEW n, n = Started(p)
    PROVE  Tells(n)'
<1> DEFINE ts == p.timestamp
<1>1. /\ n.members = {Id} /\ n.flow_start_time = ts
      /\ n.subflow = TrackFirst(UpdateSubflow(NewTracker, ts), ts)
      /\ ts \in Int /\ log'[Id] = p /\ Id \in Nat
  BY StartedFacts, PacketTypes, AppendFacts, IdType DEF TypeOK
<1>2. n.subflow = [NewTracker EXCEPT !.sf_last_packet_ts = ts, !.sf_ac_helper = ts,
                                     !.start_active_time = ts, !.end_active_time = ts]
  <2>1. UpdateSubflow(NewTracker, ts) = TrackFirst(NewTracker, ts)
    BY DEF UpdateSubflow, NewTracker
  <2>2. QED
    BY <1>1, <2>1 DEF TrackFirst, NewTracker
<1>3. /\ n.subflow.sf_last_packet_ts = ts /\ n.subflow.sf_count = 0
      /\ n.subflow.start_active_time = ts /\ n.subflow.end_active_time = ts
      /\ n.subflow.flow_active_stats = NewStats
      /\ n.subflow.flow_idle_stats = NewStats
  BY <1>2 DEF NewTracker
<1>4. Logged(n.subflow) = 0
  BY <1>3 DEF Logged, NewStats
<1>5. Max(n.members) = Id /\ Min(n.members) = Id
  BY <1>1, MaxIs, MinIs
<1>6. AtLast(n)'
  BY <1>1, <1>3, <1>5 DEF AtLast, Last
<1>7. CountsSubflows(n)'
  <2>1. Successors(n) = {}
    BY <1>1, <1>5 DEF Successors
  <2>2. FarGaps(n)' = {}
    BY <2>1 DEF FarGaps, Successors
  <2>3. QED
    BY <1>3, <2>2, FS_EmptySet DEF CountsSubflows
<1>8. Tiles(n)'
  BY <1>1, <1>3, <1>4 DEF Tiles, Logged
<1>9. QED
  BY <1>6, <1>7, <1>8 DEF Tells

-----------------------------------------------------------------------------
(* All flows.                                                              *)

LEMMA TrackerStep ==
    ASSUME TimesAreSet, AccountInv, TrackerInv, [Next]_vars
    PROVE  TrackerInv'
<1>1. TypeOK /\ NoTwinFlows /\ Partition /\ OnePlaceEach /\ TypeInv
  BY DEF AccountInv, TypeInv
<1>2. CASE Quiet
  <2>1. log' = log /\ AllFlows' = AllFlows
    BY <1>2 DEF Quiet
  <2>2. \A f : Tells(f)' <=> Tells(f)
    BY <2>1 DEF Tells, AtLast, CountsSubflows, Tiles, Last, FarGaps, Gap,
                Successors, InOrder, Logged
  <2>3. QED
    BY <2>1, <2>2 DEF TrackerInv
<1>3. ASSUME NEW p \in Packets, AddPacket(p) PROVE TrackerInv'
  <2>1. log' = Append(log, p)
    BY <1>3 DEF AddPacket
  <2>2. \A f \in AllFlows : Tells(f) /\ Tells(f)'
    BY <1>1, <2>1, SameTelling DEF TrackerInv
  <2>3. CASE Adds(p)
    <3>1. PICK n : n = Started(p)
      OBVIOUS
    <3>2. Tells(n)' /\ AllFlows' = AllFlows \cup {n}
      BY <1>1, <2>1, <2>3, <3>1, StartedTells DEF Adds
    <3>3. QED
      BY <2>2, <3>2 DEF TrackerInv
  <2>4. ASSUME NEW f, NEW g, Takes(p, f, g) PROVE TrackerInv'
    <3>1. f \in AllFlows /\ AllFlows' = (AllFlows \ {f}) \cup {g} /\ Grown(f, g, p)
      BY <2>4 DEF Takes, AllFlows
    <3>2. Tells(g)'
      BY <1>1, <2>1, <2>2, <3>1, GrownTells
    <3>3. QED
      BY <2>2, <3>1, <3>2 DEF TrackerInv
  <2>5. QED
    BY <1>1, <1>3, <2>3, <2>4, AddPacketEffect
<1>4. QED
  BY <1>2, <1>3, NextShape

LEMMA TrackerCorrect ==
    ASSUME TimesAreSet
    PROVE  Spec => [](AccountInv /\ TrackerInv)
<1>1. Init => TrackerInv
  <2>1. Init => AllFlows = {}
    BY DEF Init, AllFlows, OpenFlows, Retired, Reported
  <2>2. QED
    BY <2>1 DEF TrackerInv
<1>2. AccountInv /\ TrackerInv /\ [Next]_vars => TrackerInv'
  BY TrackerStep
<1>3. QED
  BY <1>1, <1>2, AccountInit, AccountStep, PTL DEF Spec

\* Unless a packet is stamped -1, the subflow count of a flow is the number of
\* its gaps of more than a second, whatever branch took the packets.
THEOREM SubflowsCounted == TimesAreSet => (Spec => []SubflowsAreSeparated)
<1> SUFFICES ASSUME TimesAreSet PROVE Spec => []SubflowsAreSeparated
  OBVIOUS
<1>1. TrackerInv => SubflowsAreSeparated
  BY DEF TrackerInv, Tells, CountsSubflows, FarGaps, SubflowsAreSeparated
<1>2. QED
  BY <1>1, TrackerCorrect, PTL

\* Unless a packet is stamped -1, the periods of a flow whose packets came in
\* order fill the time since its start, each stretch once, after a FIN too.
THEOREM PeriodsTile == TimesAreSet => (Spec => []PeriodsTileTheFlow)
<1> SUFFICES ASSUME TimesAreSet PROVE Spec => []PeriodsTileTheFlow
  OBVIOUS
<1>1. AccountInv /\ TrackerInv => PeriodsTileTheFlow
  <2> SUFFICES ASSUME AccountInv, TrackerInv, NEW f \in AllFlows, InOrder(f)
               PROVE  LET t == f.subflow
                      IN  t.flow_active_stats.sum + t.flow_idle_stats.sum
                            + (t.end_active_time - t.start_active_time)
                          = t.end_active_time - f.flow_start_time
    BY DEF PeriodsTileTheFlow
  <2> DEFINE t == f.subflow
  <2>1. Logged(t) = t.start_active_time - f.flow_start_time
    BY DEF TrackerInv, Tells, Tiles
  <2>2. f \in Flow
    BY EndsOf DEF AccountInv, TypeInv
  <2>3. /\ t.start_active_time \in Int /\ t.end_active_time \in Int
        /\ f.flow_start_time \in Int /\ Logged(t) \in Int
    BY <2>2, TrackerTimes DEF Flow
  <2>4. Logged(t) + (t.end_active_time - t.start_active_time)
          = t.end_active_time - f.flow_start_time
    BY <2>1, <2>3
  <2>5. QED
    BY <2>4 DEF Logged
<1>2. QED
  BY <1>1, TrackerCorrect, PTL

-----------------------------------------------------------------------------
(* Idle periods.                                                           *)

\* A gap longer than the activity timeout also starts a subflow.  A RST
\* reaches the tracker by update_subflow alone, which sees no gap of up to a
\* second.
TimeoutIsASecond == OneSecond <= ActivityTimeout

\* The idle periods of a tracker, one of v more, or none.
Idled(s, v) == IF v > ActivityTimeout THEN AddValue(s, v) ELSE s

LEMMA ActiveIdle ==
    ASSUME NEW t \in Tracker, NEW ts \in Int, NEW u, u = UpdateActiveIdle(t, ts)
    PROVE  /\ u \in Tracker
           /\ u.sf_last_packet_ts = t.sf_last_packet_ts
           /\ u.end_active_time = ts
           /\ u.flow_idle_stats = Idled(t.flow_idle_stats, ts - t.end_active_time)
<1>1. u \in Tracker
  BY UpdateActiveIdleType
<1>2. t.end_active_time \in Int
  BY DEF Tracker
<1> DEFINE idle == AddValue(t.flow_idle_stats, ts - t.end_active_time)
<1>3. CASE ts - t.end_active_time > ActivityTimeout
  <2>1. u = [t EXCEPT !.flow_active_stats = LogActive(t), !.flow_idle_stats = idle,
                      !.start_active_time = ts, !.end_active_time = ts]
    BY <1>3 DEF UpdateActiveIdle, Tracker
  <2> HIDE DEF idle
  <2>2. /\ u.sf_last_packet_ts = t.sf_last_packet_ts
        /\ u.end_active_time = ts /\ u.flow_idle_stats = idle
    BY <2>1 DEF Tracker
  <2>3. QED
    BY <1>1, <1>3, <2>2 DEF Idled, idle
<1>4. CASE ~(ts - t.end_active_time > ActivityTimeout)
  <2>1. u = [t EXCEPT !.end_active_time = ts]
    BY <1>4 DEF UpdateActiveIdle
  <2>2. /\ u.sf_last_packet_ts = t.sf_last_packet_ts
        /\ u.end_active_time = ts /\ u.flow_idle_stats = t.flow_idle_stats
    BY <2>1 DEF Tracker
  <2>3. QED
    BY <1>1, <1>4, <2>2 DEF Idled
<1>5. QED
  BY <1>3, <1>4

LEMMA SubflowIdle ==
    ASSUME NEW t \in Tracker, NEW ts \in Int, t.sf_last_packet_ts # Unset,
           NEW u, u = UpdateSubflow(t, ts)
    PROVE  /\ u.sf_last_packet_ts = ts
           /\ ts - t.sf_last_packet_ts > OneSecond =>
                /\ u.end_active_time = ts
                /\ u.flow_idle_stats = Idled(t.flow_idle_stats, ts - t.end_active_time)
           /\ ~(ts - t.sf_last_packet_ts > OneSecond) =>
                /\ u.end_active_time = t.end_active_time
                /\ u.flow_idle_stats = t.flow_idle_stats
<1>1. CASE ts - t.sf_last_packet_ts > OneSecond
  <2> DEFINE c == [t EXCEPT !.sf_count = @ + 1]
  <2>1. PICK v : v = UpdateActiveIdle(c, ts)
    OBVIOUS
  <2>2. u = [v EXCEPT !.sf_ac_helper = ts, !.sf_last_packet_ts = ts]
    BY <1>1, <2>1 DEF UpdateSubflow, StartSubflow
  <2>3. /\ c \in Tracker /\ c.flow_idle_stats = t.flow_idle_stats
        /\ c.end_active_time = t.end_active_time
    BY DEF Tracker
  <2> HIDE DEF c
  <2>4. /\ v \in Tracker /\ v.end_active_time = ts
        /\ v.flow_idle_stats = Idled(c.flow_idle_stats, ts - c.end_active_time)
    BY ONLY <2>1, <2>3, ActiveIdle, ts \in Int
  <2>5. /\ u.sf_last_packet_ts = ts /\ u.end_active_time = v.end_active_time
        /\ u.flow_idle_stats = v.flow_idle_stats
    BY <2>2, <2>4 DEF Tracker
  <2>6. QED
    BY <1>1, <2>3, <2>4, <2>5
<1>2. CASE ~(ts - t.sf_last_packet_ts > OneSecond)
  <2>1. u = [t EXCEPT !.sf_last_packet_ts = ts]
    BY <1>2 DEF UpdateSubflow
  <2>2. QED
    BY <1>2, <2>1 DEF Tracker
<1>3. QED
  BY <1>1, <1>2

\* From a tracker whose active period ends at its last packet, either branch
\* logs the gap once if it is long, and the one that extends the period
\* first leaves it ending at the new packet.
LEMMA TrackedIdle ==
    ASSUME TimeoutIsASecond, NEW t \in Tracker, NEW ts \in Int,
           t.sf_last_packet_ts # Unset, t.end_active_time = t.sf_last_packet_ts,
           NEW u
    PROVE  /\ u \in Tracked(t, ts) =>
                u.flow_idle_stats =
                  Idled(t.flow_idle_stats, ts - t.sf_last_packet_ts)
           /\ u = UpdateSubflow(UpdateActiveIdle(t, ts), ts) =>
                u.end_active_time = u.sf_last_packet_ts
<1>1. /\ t.sf_last_packet_ts \in Int /\ OneSecond \in Nat \ {0}
      /\ ActivityTimeout \in Nat /\ OneSecond <= ActivityTimeout
  BY TrackerAssumption DEF Tracker, TimeoutIsASecond
<1>2. ASSUME u = UpdateSubflow(t, ts)
      PROVE  u.flow_idle_stats = Idled(t.flow_idle_stats, ts - t.sf_last_packet_ts)
  <2>1. CASE ts - t.sf_last_packet_ts > OneSecond
    BY <1>2, <2>1, SubflowIdle
  <2>2. CASE ~(ts - t.sf_last_packet_ts > OneSecond)
    <3>1. ~(ts - t.sf_last_packet_ts > ActivityTimeout)
      BY <1>1, <2>2
    <3>2. u.flow_idle_stats = t.flow_idle_stats
      BY <1>2, <2>2, SubflowIdle
    <3>3. QED
      BY <3>1, <3>2 DEF Idled
  <2>3. QED
    BY <2>1, <2>2
<1>3. ASSUME u = UpdateSubflow(UpdateActiveIdle(t, ts), ts)
      PROVE  /\ u.flow_idle_stats = Idled(t.flow_idle_stats, ts - t.sf_last_packet_ts)
             /\ u.end_active_time = u.sf_last_packet_ts
  <2>1. PICK v : v = UpdateActiveIdle(t, ts)
    OBVIOUS
  <2>2. /\ v \in Tracker /\ v.end_active_time = ts
        /\ v.sf_last_packet_ts = t.sf_last_packet_ts
        /\ v.flow_idle_stats = Idled(t.flow_idle_stats, ts - t.sf_last_packet_ts)
    BY <2>1, ActiveIdle
  <2>3. u = UpdateSubflow(v, ts) /\ v.sf_last_packet_ts # Unset
    BY <1>3, <2>1, <2>2
  <2>4. /\ u.sf_last_packet_ts = ts /\ u.end_active_time = ts
        /\ u.flow_idle_stats \in {Idled(v.flow_idle_stats, ts - ts), v.flow_idle_stats}
    BY ONLY <2>2, <2>3, SubflowIdle, ts \in Int
  <2>5. Idled(v.flow_idle_stats, ts - ts) = v.flow_idle_stats
    BY <1>1 DEF Idled
  <2>6. QED
    BY <2>2, <2>4, <2>5
<1>4. QED
  BY <1>2, <1>3 DEF Tracked

\* Until a FIN, a flow's tracker has logged its long gaps, and that of an
\* open flow has the active period end at the last packet.
LoggedGaps(f) == SumFunction([i \in LongGaps(f) |-> Gap(f, i)])

IdleTold(f) ==
    Finless(f) => /\ f.subflow.flow_idle_stats.count = Cardinality(LongGaps(f))
                  /\ f.subflow.flow_idle_stats.sum = LoggedGaps(f)

BusyTillLast(f) ==
    Finless(f) => f.subflow.end_active_time = f.subflow.sf_last_packet_ts

IdleInv ==
    /\ \A f \in AllFlows : IdleTold(f)
    /\ \A f \in OpenFlows : BusyTillLast(f)

LEMMA GapType ==
    ASSUME TypeOK, Partition, NEW f \in AllFlows
    PROVE  /\ \A i \in Successors(f) : Gap(f, i) \in Int
           /\ LongGaps(f) \subseteq Successors(f)
           /\ IsFiniteSet(LongGaps(f))
           /\ [i \in LongGaps(f) |-> Gap(f, i)] \in [LongGaps(f) -> Int]
<1>1. LongGaps(f) \subseteq Successors(f) /\ Successors(f) \subseteq f.members
  BY DEF LongGaps, Successors
<1>2. IsFiniteSet(LongGaps(f))
  BY <1>1, EndsOf, FS_Subset
<1>3. \A i \in f.members : log[i].timestamp \in Int
  <2>1. f.members \subseteq 1 .. Len(log) /\ log \in Seq(Packets)
    BY EndsOf DEF TypeOK
  <2>2. QED
    BY <2>1, PacketTypes
<1>4. \A i \in Successors(f) : Gap(f, i) \in Int
  BY <1>3, EndsOf DEF Gap, Earlier
<1>5. QED
  BY <1>1, <1>2, <1>4

\* A flow that does not get the packet keeps its gaps.
LEMMA SameIdle ==
    ASSUME TypeOK, Partition, NEW p \in Packets, log' = Append(log, p),
           NEW f \in AllFlows
    PROVE  IdleTold(f)' <=> IdleTold(f)
<1>1. \A i \in Successors(f) : Gap(f, i)' = Gap(f, i)
  BY SameTelling
<1>2. LongGaps(f)' = LongGaps(f)
  BY <1>1 DEF LongGaps, Successors
<1>3. \A i \in LongGaps(f) : Gap(f, i)' = Gap(f, i)
  BY <1>1, GapType
<1>4. [i \in LongGaps(f) |-> Gap(f, i)]' = [i \in LongGaps(f) |-> Gap(f, i)]
  BY <1>2, <1>3
<1>5. LoggedGaps(f)' = LoggedGaps(f)
  BY <1>4 DEF LoggedGaps
<1>6. QED
  BY <1>2, <1>5 DEF IdleTold, Finless

\* The flow that gets it logs its gap from the flow's last packet.
LEMMA GrownIdle ==
    ASSUME TimesAreSet, TimeoutIsASecond, TypeOK, Partition,
           NEW p \in Packets, log' = Append(log, p),
           NEW f \in AllFlows, AtLast(f), IdleTold(f), BusyTillLast(f),
           NEW g, Grown(f, g, p)
    PROVE  IdleTold(g)' /\ (Extended(f, g, p) => BusyTillLast(g)')
<1> SUFFICES ASSUME Finless(g)
             PROVE  /\ g.subflow.flow_idle_stats.count = Cardinality(LongGaps(g)')
                    /\ g.subflow.flow_idle_stats.sum = LoggedGaps(g)'
                    /\ Extended(f, g, p) =>
                         g.subflow.end_active_time = g.subflow.sf_last_packet_ts
  BY DEF IdleTold, BusyTillLast, Finless
<1> PICK n : n = Id
  OBVIOUS
<1> PICK t, u, ts, v :
      /\ t = f.subflow /\ u = g.subflow /\ ts = p.timestamp
      /\ v = ts - t.sf_last_packet_ts
  OBVIOUS
<1>1. /\ Finless(f)
      /\ t \in Tracker /\ t.sf_last_packet_ts # Unset /\ ts \in Int
      /\ t.end_active_time = t.sf_last_packet_ts
      /\ u \in Tracked(t, ts)
      /\ t.flow_idle_stats.count = Cardinality(LongGaps(f))
      /\ t.flow_idle_stats.sum = LoggedGaps(f)
  BY LastIsSet, PacketTypes DEF Grown, IdleTold, BusyTillLast
<1>2. u.flow_idle_stats = Idled(t.flow_idle_stats, v)
  BY <1>1, TrackedIdle
<1>3. Extended(f, g, p) => u.end_active_time = u.sf_last_packet_ts
  <2>1. Extended(f, g, p) => u = UpdateSubflow(UpdateActiveIdle(t, ts), ts)
    BY DEF Extended
  <2>2. QED
    BY <1>1, <2>1, TrackedIdle
<1>4. v \in Int
  BY <1>1 DEF Tracker
<1>5. /\ Successors(g) = Successors(f) \cup {n} /\ n \notin Successors(f)
      /\ \A i \in Successors(f) : Gap(g, i)' = Gap(f, i)
      /\ Gap(g, n)' = v
  BY GrownGaps
<1>6. LongGaps(g)' = {i \in Successors(g) : Gap(g, i)' > ActivityTimeout}
  BY DEF LongGaps, Successors
<1>7. LongGaps(f) = {i \in Successors(f) : Gap(g, i)' > ActivityTimeout}
  BY <1>5 DEF LongGaps
<1>8. /\ \A i \in Successors(f) : Gap(f, i) \in Int
      /\ LongGaps(f) \subseteq Successors(f)
      /\ IsFiniteSet(LongGaps(f))
      /\ [i \in LongGaps(f) |-> Gap(f, i)] \in [LongGaps(f) -> Int]
  BY GapType
<1>9. LoggedGaps(g)' = SumFunction([i \in LongGaps(g)' |-> Gap(g, i)'])
  BY DEF LoggedGaps
<1>10. CASE v > ActivityTimeout
  <2>1. LongGaps(g)' = LongGaps(f) \cup {n} /\ n \notin LongGaps(f)
    BY <1>5, <1>6, <1>7, <1>10
  <2>2. Cardinality(LongGaps(g)') = Cardinality(LongGaps(f)) + 1
    BY <1>8, <2>1, FS_AddElement
  <2>3. LoggedGaps(g)' = LoggedGaps(f) + v
    <3>1. PICK S, a, b : /\ S = LongGaps(f)
                         /\ a = [i \in LongGaps(f) |-> Gap(f, i)]
                         /\ b = [i \in LongGaps(g)' |-> Gap(g, i)']
      OBVIOUS
    <3>2. /\ IsFiniteSet(S) /\ a \in [S -> Int] /\ n \notin S
      BY <1>8, <2>1, <3>1
    <3>3. \A i \in S \cup {n} : b[i] = IF i = n THEN v ELSE a[i]
      BY <1>5, <1>8, <2>1, <3>1
    <3>4. b \in [S \cup {n} -> Int] /\ b[n] = v /\ \A i \in S : b[i] = a[i]
      <4>1. DOMAIN b = S \cup {n} /\ b = [i \in S \cup {n} |-> b[i]]
        BY <2>1, <3>1
      <4>2. \A i \in S \cup {n} : b[i] \in Int
        BY <1>4, <3>2, <3>3
      <4>3. QED
        BY <3>2, <3>3, <4>1, <4>2
    <3>5. SumFunction(b) = SumFunction(a) + b[n]
      BY ONLY <3>2, <3>4, SumMore
    <3>6. QED
      BY <1>9, <3>1, <3>4, <3>5 DEF LoggedGaps
  <2>4. u.flow_idle_stats = AddValue(t.flow_idle_stats, v)
    BY <1>2, <1>10 DEF Idled
  <2>5. /\ u.flow_idle_stats.count = t.flow_idle_stats.count + 1
        /\ u.flow_idle_stats.sum = t.flow_idle_stats.sum + v
    BY <2>4 DEF AddValue
  <2>6. QED
    BY <1>1, <1>3, <2>2, <2>3, <2>5
<1>11. CASE ~(v > ActivityTimeout)
  <2>1. LongGaps(g)' = LongGaps(f)
    BY <1>5, <1>6, <1>7, <1>11
  <2>2. \A i \in LongGaps(f) : Gap(g, i)' = Gap(f, i)
    BY <1>5, <1>8
  <2>3. [i \in LongGaps(g)' |-> Gap(g, i)'] = [i \in LongGaps(f) |-> Gap(f, i)]
    BY <2>1, <2>2
  <2>4. LoggedGaps(g)' = LoggedGaps(f)
    BY <1>9, <2>3 DEF LoggedGaps
  <2>5. u.flow_idle_stats = t.flow_idle_stats
    BY <1>2, <1>11 DEF Idled
  <2>6. QED
    BY <1>1, <1>3, <2>1, <2>4, <2>5
<1>12. QED
  BY <1>10, <1>11

LEMMA StartedIdle ==
    ASSUME TypeOK, NEW p \in Packets, log' = Append(log, p), NEW n, n = Started(p)
    PROVE  IdleTold(n)' /\ BusyTillLast(n)'
<1> DEFINE ts == p.timestamp
<1>1. /\ n.members = {Id} /\ Id \in Nat
      /\ n.subflow = TrackFirst(UpdateSubflow(NewTracker, ts), ts)
  BY StartedFacts, IdType DEF TypeOK
<1>2. UpdateSubflow(NewTracker, ts) = TrackFirst(NewTracker, ts)
  BY DEF UpdateSubflow, NewTracker
<1>3. /\ n.subflow.sf_last_packet_ts = ts /\ n.subflow.end_active_time = ts
      /\ n.subflow.flow_idle_stats = NewStats
  BY <1>1, <1>2 DEF TrackFirst, NewTracker
<1>4. Successors(n) = {}
  BY <1>1, MinIs DEF Successors
<1>5. LongGaps(n)' = {}
  BY <1>4 DEF LongGaps, Successors
<1>6. LoggedGaps(n)' = 0
  <2>1. [i \in LongGaps(n)' |-> Gap(n, i)'] \in [{} -> Int]
    BY <1>5
  <2>2. LoggedGaps(n)' = SumFunction([i \in LongGaps(n)' |-> Gap(n, i)'])
    BY DEF LoggedGaps
  <2>3. QED
    BY <2>1, <2>2, SumEmpty
<1>7. n.subflow.flow_idle_stats.count = 0 /\ n.subflow.flow_idle_stats.sum = 0
  BY <1>3 DEF NewStats
<1>8. QED
  BY <1>3, <1>5, <1>6, <1>7, FS_EmptySet DEF IdleTold, BusyTillLast

LEMMA IdleStep ==
    ASSUME TimesAreSet, TimeoutIsASecond, AccountInv, TrackerInv, IdleInv, [Next]_vars
    PROVE  IdleInv'
<1>1. TypeOK /\ NoTwinFlows /\ Partition /\ OnePlaceEach /\ TypeInv
  BY DEF AccountInv, TypeInv
<1>2. CASE Quiet
  <2>1. log' = log /\ AllFlows' = AllFlows /\ OpenFlows' \subseteq OpenFlows
    BY <1>2 DEF Quiet
  <2>2. \A f : (IdleTold(f)' <=> IdleTold(f)) /\ (BusyTillLast(f)' <=> BusyTillLast(f))
    BY <2>1 DEF IdleTold, BusyTillLast, Finless, LoggedGaps, LongGaps, Gap, Successors
  <2>3. QED
    BY <2>1, <2>2 DEF IdleInv
<1>3. ASSUME NEW p \in Packets, AddPacket(p) PROVE IdleInv'
  <2>1. log' = Append(log, p)
    BY <1>3 DEF AddPacket
  <2>2. \A f \in AllFlows : IdleTold(f) /\ IdleTold(f)'
    BY <1>1, <2>1, SameIdle DEF IdleInv
  <2>3. \A f \in OpenFlows : f \in AllFlows /\ BusyTillLast(f) /\ BusyTillLast(f)'
    BY DEF IdleInv, BusyTillLast, Finless, AllFlows
  <2>4. Others(p) \subseteq OpenFlows
    BY DEF Others
  <2>5. CASE Adds(p)
    <3>1. PICK n : n = Started(p)
      OBVIOUS
    <3>2. /\ IdleTold(n)' /\ BusyTillLast(n)'
          /\ AllFlows' = AllFlows \cup {n}
          /\ OpenFlows' \subseteq Others(p) \cup {n}
      BY <1>1, <2>1, <2>5, <3>1, StartedIdle DEF Adds
    <3>3. QED
      BY <2>2, <2>3, <2>4, <3>2 DEF IdleInv
  <2>6. ASSUME NEW f, NEW g, Takes(p, f, g) PROVE IdleInv'
    <3>1. /\ f \in OpenFlows /\ f \in AllFlows /\ Grown(f, g, p)
          /\ AllFlows' = (AllFlows \ {f}) \cup {g}
          /\ OpenFlows' \subseteq Others(p) \cup {g}
          /\ g \in OpenFlows' => Extended(f, g, p)
      BY <2>6 DEF Takes, AllFlows
    <3>2. AtLast(f)
      BY <3>1 DEF TrackerInv, Tells
    <3>3. IdleTold(g)' /\ (Extended(f, g, p) => BusyTillLast(g)')
      BY <1>1, <2>1, <2>2, <2>3, <3>1, <3>2, GrownIdle
    <3>4. QED
      BY <2>2, <2>3, <2>4, <3>1, <3>3 DEF IdleInv
  <2>7. QED
    BY <1>1, <1>3, <2>5, <2>6, AddPacketEffect
<1>4. QED
  BY <1>2, <1>3, NextShape

\* Unless a packet is stamped -1, and with an activity timeout of a second or
\* more, the idle periods logged for a flow before its first FIN are its gaps
\* longer than that timeout, each once.
THEOREM IdleExact ==
    TimesAreSet /\ TimeoutIsASecond => (Spec => []IdleIsLongGaps)
<1> SUFFICES ASSUME TimesAreSet, TimeoutIsASecond PROVE Spec => []IdleIsLongGaps
  OBVIOUS
<1>1. Init => IdleInv
  <2>1. Init => AllFlows = {} /\ OpenFlows = {}
    BY DEF Init, AllFlows, OpenFlows, Retired, Reported
  <2>2. QED
    BY <2>1 DEF IdleInv
<1>2. AccountInv /\ TrackerInv /\ IdleInv /\ [Next]_vars => IdleInv'
  BY IdleStep
<1>3. IdleInv => IdleIsLongGaps
  BY DEF IdleInv, IdleTold, LoggedGaps, Finless, NoFinCounted, IdleIsLongGaps
<1>4. QED
  BY <1>1, <1>2, <1>3, TrackerCorrect, PTL DEF Spec
=============================================================================
