------------------------- MODULE FlowRecord_proofs --------------------------
(***************************************************************************)
(* Theorems about a flow record, for any packets, in any order of          *)
(* timestamps and in every mode: its bulks are whole, its statistics are   *)
(* those of its packets, its features agree; and when time only goes on,   *)
(* its bulks are the maximal runs.  One invariant each: BulkInv, StatInv,  *)
(* FeatInv and RunInv.                                                     *)
(***************************************************************************)
EXTENDS BulkTransfer, SumLemmas, SequenceTheorems, TLAPS

-----------------------------------------------------------------------------
(* One tracker.                                                            *)

\* Packets of a run in progress that are in no bulk yet.
Uncommitted(b) == IF b.packet_count_helper < 4 THEN b.packet_count_helper ELSE 0

\* The counters of a tracker that has seen n payload packets.  A bulk has at
\* least 4 of them, a run of 4 is in a bulk, and the packets in bulks and
\* those that wait are different.
Counted(b, n) ==
    /\ b.packet_count >= 4 * b.state_count
    /\ b.state_count = 0 => b.packet_count = 0
    /\ b.packet_count_helper >= 4 => b.state_count > 0
    /\ b.packet_count + Uncommitted(b) <= n

\* The bytes in bulks and those of a run that may become one.
Load(b) ==
    b.size_total + (IF b.packet_count_helper < 4 THEN b.size_helper ELSE 0)

LEMMA InterruptKeeps ==
    ASSUME NEW b \in Bulk, NEW other
    PROVE  /\ Interrupt(b, other) \in Bulk
           /\ \A n : Counted(b, n) => Counted(Interrupt(b, other), n)
           /\ Load(Interrupt(b, other)) = Load(b)
BY DEF Interrupt, Bulk, Counted, Uncommitted, Load

LEMMA BulkFields ==
    ASSUME NEW b \in Bulk
    PROVE  /\ b.packet_count_helper \in Nat /\ b.packet_count \in Nat
           /\ b.state_count \in Nat /\ b.size_helper \in Nat
           /\ b.size_total \in Nat /\ b.duration \in Int
           /\ b.start_helper \in Int /\ b.last_bulk_ts \in Int
           /\ Uncommitted(b) \in Nat /\ Load(b) \in Nat
BY DEF Bulk, Uncommitted, Load

LEMMA StartRunKeeps ==
    ASSUME NEW b \in Bulk, NEW ts \in Int, NEW bytes \in Nat, NEW n \in Nat,
           Counted(b, n)
    PROVE  /\ StartRun(b, ts, bytes) \in Bulk
           /\ Counted(StartRun(b, ts, bytes), n + 1)
           /\ Load(StartRun(b, ts, bytes)) <= Load(b) + bytes
<1> DEFINE c == StartRun(b, ts, bytes)
<1>1. /\ c \in Bulk
      /\ c.packet_count = b.packet_count /\ c.state_count = b.state_count
      /\ c.packet_count_helper = 1
      /\ c.size_total = b.size_total /\ c.size_helper = bytes
  BY DEF StartRun, Bulk
<1>2. Uncommitted(c) = 1 /\ Load(c) = b.size_total + bytes
  BY <1>1 DEF Uncommitted, Load
<1> HIDE DEF c
<1>3. Counted(c, n + 1)
  BY <1>1, <1>2, BulkFields DEF Counted
<1>4. b.size_total <= Load(b)
  BY BulkFields DEF Load
<1>5. Load(c) <= Load(b) + bytes
  BY <1>2, <1>4, BulkFields
<1>6. QED
  BY <1>1, <1>3, <1>5 DEF c

\* What the next packet of a run does to the counters.
LEMMA ExtendRunFacts ==
    ASSUME NEW b \in Bulk, NEW ts \in Int, NEW bytes \in Nat, NEW c,
           c = ExtendRun(b, ts, bytes)
    PROVE  LET h == b.packet_count_helper + 1 IN
           /\ c \in Bulk
           /\ c.packet_count_helper = h
           /\ c.state_count = b.state_count + (IF h = 4 THEN 1 ELSE 0)
           /\ c.packet_count = b.packet_count + (IF h = 4 THEN 4
                                                ELSE IF h > 4 THEN 1 ELSE 0)
           /\ c.size_helper = b.size_helper + bytes
           /\ c.size_total = b.size_total + (IF h = 4 THEN b.size_helper + bytes
                                            ELSE IF h > 4 THEN bytes ELSE 0)
           /\ c.duration = b.duration + (IF h = 4 THEN ts - b.start_helper
                                        ELSE IF h > 4 THEN ts - b.last_bulk_ts ELSE 0)
           /\ c.last_bulk_ts = ts /\ c.start_helper = b.start_helper
<1> DEFINE h == b.packet_count_helper + 1
           r == [b EXCEPT !.packet_count_helper = h, !.size_helper = @ + bytes,
                          !.last_bulk_ts = ts]
<1>1. /\ r \in Bulk /\ h \in Nat
      /\ r.packet_count_helper = h /\ r.state_count = b.state_count
      /\ r.packet_count = b.packet_count
      /\ r.size_helper = b.size_helper + bytes /\ r.size_total = b.size_total
      /\ r.duration = b.duration /\ r.last_bulk_ts = ts
      /\ r.start_helper = b.start_helper
  <2>1. h \in Nat /\ b.size_helper + bytes \in Nat
    BY BulkFields
  <2> HIDE DEF h
  <2>2. r \in Bulk
    BY <2>1 DEF Bulk
  <2>3. /\ r.packet_count_helper = h /\ r.state_count = b.state_count
        /\ r.packet_count = b.packet_count
        /\ r.size_helper = b.size_helper + bytes /\ r.size_total = b.size_total
        /\ r.duration = b.duration /\ r.last_bulk_ts = ts
        /\ r.start_helper = b.start_helper
    BY DEF Bulk
  <2>4. QED
    BY <2>1, <2>2, <2>3
<1>2. /\ ts - b.start_helper \in Int /\ ts - b.last_bulk_ts \in Int
      /\ r.duration + (ts - b.start_helper) \in Int
      /\ r.duration + (ts - b.last_bulk_ts) \in Int
      /\ r.size_total + bytes \in Nat /\ r.size_total + r.size_helper \in Nat
      /\ r.packet_count + 1 \in Nat /\ r.packet_count + h \in Nat
      /\ r.state_count + 1 \in Nat
  <2> HIDE DEF r, h
  <2>1. QED
    BY <1>1, BulkFields
<1>3. c = CASE h = 4 -> [r EXCEPT !.state_count = @ + 1,
                                  !.packet_count = @ + h,
                                  !.size_total = @ + r.size_helper,
                                  !.duration = @ + (ts - b.start_helper)]
            [] h > 4 -> [r EXCEPT !.packet_count = @ + 1,
                                  !.size_total = @ + bytes,
                                  !.duration = @ + (ts - b.last_bulk_ts)]
            [] OTHER -> r
  BY DEF ExtendRun
<1> HIDE DEF r, h
<1>4. CASE h = 4
  <2>1. c = [r EXCEPT !.state_count = @ + 1,
                      !.packet_count = @ + h,
                      !.size_total = @ + r.size_helper,
                      !.duration = @ + (ts - b.start_helper)]
    BY <1>3, <1>4
  <2>2. c \in Bulk
    BY <1>1, <1>2, <2>1 DEF Bulk
  <2>3. /\ c.packet_count_helper = h
        /\ c.state_count = b.state_count + 1 /\ c.packet_count = b.packet_count + h
        /\ c.size_helper = b.size_helper + bytes
        /\ c.size_total = b.size_total + (b.size_helper + bytes)
        /\ c.duration = b.duration + (ts - b.start_helper)
        /\ c.last_bulk_ts = ts /\ c.start_helper = b.start_helper
    BY <1>1, <2>1 DEF Bulk
  <2>4. QED
    BY <1>4, <2>2, <2>3 DEF h
<1>5. CASE h > 4
  <2>1. c = [r EXCEPT !.packet_count = @ + 1,
                      !.size_total = @ + bytes,
                      !.duration = @ + (ts - b.last_bulk_ts)]
    BY <1>1, <1>3, <1>5
  <2>2. c \in Bulk
    BY <1>1, <1>2, <2>1 DEF Bulk
  <2>3. c.packet_count_helper = h
        /\ c.state_count = b.state_count /\ c.packet_count = b.packet_count + 1
        /\ c.size_helper = b.size_helper + bytes
        /\ c.size_total = b.size_total + bytes
        /\ c.duration = b.duration + (ts - b.last_bulk_ts)
        /\ c.last_bulk_ts = ts /\ c.start_helper = b.start_helper
    BY <1>1, <2>1 DEF Bulk
  <2>4. QED
    BY <1>1, <1>5, <2>2, <2>3, BulkFields DEF h
<1>6. CASE h < 4
  <2>1. c = r
    BY <1>1, <1>3, <1>6
  <2>2. QED
    BY <1>1, <1>6, <2>1, BulkFields DEF h
<1>7. QED
  BY <1>1, <1>4, <1>5, <1>6

LEMMA ExtendRunKeeps ==
    ASSUME NEW b \in Bulk, NEW ts \in Int, NEW bytes \in Nat, NEW n \in Nat,
           Counted(b, n)
    PROVE  /\ ExtendRun(b, ts, bytes) \in Bulk
           /\ Counted(ExtendRun(b, ts, bytes), n + 1)
           /\ Load(ExtendRun(b, ts, bytes)) <= Load(b) + bytes
<1> DEFINE h == b.packet_count_helper + 1
<1>1. PICK c : c = ExtendRun(b, ts, bytes)
  OBVIOUS
<1>2. /\ c \in Bulk
      /\ c.packet_count_helper = h
      /\ c.state_count = b.state_count + (IF h = 4 THEN 1 ELSE 0)
      /\ c.packet_count = b.packet_count + (IF h = 4 THEN 4
                                           ELSE IF h > 4 THEN 1 ELSE 0)
      /\ c.size_helper = b.size_helper + bytes
      /\ c.size_total = b.size_total + (IF h = 4 THEN b.size_helper + bytes
                                       ELSE IF h > 4 THEN bytes ELSE 0)
  BY <1>1, ExtendRunFacts
<1>3. Counted(c, n + 1)
  <2> HIDE DEF h
  <2>1. h \in Nat /\ h = b.packet_count_helper + 1
    BY BulkFields DEF h
  <2>2. CASE h = 4
    <3>1. /\ c.state_count = b.state_count + 1 /\ c.packet_count = b.packet_count + 4
          /\ Uncommitted(c) = 0 /\ Uncommitted(b) = 3
      BY <1>2, <2>1, <2>2, BulkFields DEF Uncommitted
    <3>2. QED
      BY <3>1, BulkFields DEF Counted
  <2>3. CASE h > 4
    <3>1. /\ c.state_count = b.state_count /\ c.packet_count = b.packet_count + 1
          /\ Uncommitted(c) = 0 /\ Uncommitted(b) = 0
          /\ b.packet_count_helper >= 4
      BY <1>2, <2>1, <2>3, BulkFields DEF Uncommitted
    <3>2. QED
      BY <3>1, BulkFields DEF Counted
  <2>4. CASE h < 4
    <3>1. /\ c.state_count = b.state_count /\ c.packet_count = b.packet_count
          /\ c.packet_count_helper = h
          /\ Uncommitted(c) = h /\ Uncommitted(b) = h - 1
      BY <1>2, <2>1, <2>4, BulkFields DEF Uncommitted
    <3>2. QED
      BY <2>1, <2>4, <3>1, BulkFields DEF Counted
  <2>5. QED
    BY <2>1, <2>2, <2>3, <2>4
<1>4. Load(c) <= Load(b) + bytes
  <2> HIDE DEF h
  <2>1. h \in Nat /\ h = b.packet_count_helper + 1
    BY BulkFields DEF h
  <2>2. CASE h = 4
    BY <1>2, <2>1, <2>2, BulkFields DEF Load
  <2>3. CASE h > 4
    BY <1>2, <2>1, <2>3, BulkFields DEF Load
  <2>4. CASE h < 4
    BY <1>2, <2>1, <2>4, BulkFields DEF Load
  <2>5. QED
    BY <2>1, <2>2, <2>3, <2>4
<1>5. QED
  BY <1>1, <1>2, <1>3, <1>4

\* One more packet: it counts if it has a payload.
LEMMA UpdateKeeps ==
    ASSUME NEW b \in Bulk, NEW ts \in Int, NEW bytes \in Nat, NEW other,
           NEW n \in Nat, Counted(b, n)
    PROVE  /\ Update(b, ts, bytes, other) \in Bulk
           /\ Counted(Update(b, ts, bytes, other), IF bytes > 0 THEN n + 1 ELSE n)
           /\ Load(Update(b, ts, bytes, other)) <= Load(b) + bytes
<1> DEFINE c == Interrupt(b, other)
<1>1. c \in Bulk /\ Counted(c, n) /\ Load(c) = Load(b) /\ Load(b) \in Nat
  BY InterruptKeeps, BulkFields
<1>2. /\ StartRun(c, ts, bytes) \in Bulk /\ Counted(StartRun(c, ts, bytes), n + 1)
      /\ ExtendRun(c, ts, bytes) \in Bulk /\ Counted(ExtendRun(c, ts, bytes), n + 1)
      /\ Load(StartRun(c, ts, bytes)) <= Load(c) + bytes
      /\ Load(ExtendRun(c, ts, bytes)) <= Load(c) + bytes
  <2> HIDE DEF c
  <2>1. QED
    BY <1>1, StartRunKeeps, ExtendRunKeeps
<1>3. QED
  BY <1>1, <1>2 DEF Update

\* The average of whole bulks is at least what each has.
LEMMA AverageOfBulks ==
    ASSUME NEW a \in Nat, NEW k \in Nat, k > 0, a >= 4 * k
    PROVE  a \div k >= 4
OBVIOUS

LEMMA CountedIsWhole ==
    ASSUME NEW b \in Bulk, NEW forward \in BOOLEAN, NEW n \in Nat, Counted(b, n),
           n = Cardinality(Payload(forward))
    PROVE  WholeBulks(b, forward)
<1>1. /\ b.packet_count \in Nat /\ b.state_count \in Nat
      /\ b.packet_count_helper \in Nat
  BY DEF Bulk
<1>2. Uncommitted(b) \in Nat
  BY <1>1 DEF Uncommitted
<1>3. b.state_count > 0 => b.packet_count \div b.state_count >= 4
  BY <1>1, AverageOfBulks DEF Counted
<1>4. b.packet_count <= Cardinality(Payload(forward))
  BY <1>1, <1>2 DEF Counted
<1>5. b.state_count > 0 => AvgPacketsPerBulk(b) >= 4
  BY <1>1, <1>3 DEF AvgPacketsPerBulk
<1>6. QED
  BY <1>4, <1>5 DEF WholeBulks, Counted

-----------------------------------------------------------------------------
(* The trackers in a record, and its counts of bytes.  No other part of a  *)
(* packet's handling touches them.                                         *)

HasBulks(r) ==
    {"fwd_bulk", "bwd_bulk", "forward_bytes", "backward_bytes"} \subseteq DOMAIN r

SameBulks(r, s) ==
    HasBulks(s) /\ s.fwd_bulk = r.fwd_bulk /\ s.bwd_bulk = r.bwd_bulk

LEMMA AddForwardBulks ==
    ASSUME NEW r, HasBulks(r), NEW p
    PROVE  /\ SameBulks(r, AddForward(r, p))
           /\ AddForward(r, p).forward_bytes = r.forward_bytes + p.payload_bytes
           /\ AddForward(r, p).backward_bytes = r.backward_bytes
BY DEF HasBulks, SameBulks, AddForward

LEMMA AddBackwardBulks ==
    ASSUME NEW r, HasBulks(r), NEW p
    PROVE  /\ SameBulks(r, AddBackward(r, p))
           /\ AddBackward(r, p).forward_bytes = r.forward_bytes
           /\ AddBackward(r, p).backward_bytes = r.backward_bytes + p.payload_bytes
BY DEF HasBulks, SameBulks, AddBackward

\* The tracker of the packet's direction takes it, the other stays.
Advances(r, s, p) ==
    /\ HasBulks(s)
    /\ s.fwd_bulk = IF p.forward
                    THEN Update(r.fwd_bulk, p.timestamp, p.payload_bytes,
                                r.bwd_bulk.last_bulk_ts)
                    ELSE r.fwd_bulk
    /\ s.bwd_bulk = IF p.forward
                    THEN r.bwd_bulk
                    ELSE Update(r.bwd_bulk, p.timestamp, p.payload_bytes,
                                r.fwd_bulk.last_bulk_ts)

SameBytes(r, s) ==
    s.forward_bytes = r.forward_bytes /\ s.backward_bytes = r.backward_bytes

\* Without directions all bytes count as forward.
TakesBytes(r, s, p) ==
    /\ s.forward_bytes = r.forward_bytes
                          + (IF CountsForward(p) THEN p.payload_bytes ELSE 0)
    /\ s.backward_bytes = r.backward_bytes
                          + (IF CountsForward(p) THEN 0 ELSE p.payload_bytes)

LEMMA CommonBulks ==
    ASSUME NEW r, HasBulks(r), NEW p, p.forward \in BOOLEAN
    PROVE  Advances(r, Common(r, p), p) /\ SameBytes(r, Common(r, p))
<1>1. Advances(r, UpdateBulk(r, p), p) /\ SameBytes(r, UpdateBulk(r, p))
  BY DEF HasBulks, Advances, SameBytes, UpdateBulk
<1>2. SameBulks(UpdateBulk(r, p), Common(r, p))
      /\ SameBytes(UpdateBulk(r, p), Common(r, p))
  BY <1>1 DEF HasBulks, Advances, SameBulks, SameBytes, Common
<1>3. QED
  BY <1>1, <1>2 DEF Advances, SameBulks, SameBytes, HasBulks

LEMMA AddPacketBulks ==
    ASSUME NEW r, HasBulks(r), NEW p, p.forward \in BOOLEAN, p.payload_bytes \in Nat,
           r.forward_bytes \in Nat, r.backward_bytes \in Nat
    PROVE  Advances(r, AddPacket(r, p), p) /\ TakesBytes(r, AddPacket(r, p), p)
<1> DEFINE c == Common(r, p)
           s == IF CountsForward(p) THEN AddForward(c, p) ELSE AddBackward(c, p)
<1>1. Advances(r, c, p) /\ SameBytes(r, c)
  BY CommonBulks
<1>2. HasBulks(c)
  BY <1>1 DEF Advances
<1> HIDE DEF c
<1>3. SameBulks(c, s) /\ TakesBytes(r, s, p)
  <2>1. CASE CountsForward(p)
    <3>1. s = AddForward(c, p)
      BY <2>1
    <3> HIDE DEF s
    <3>2. /\ SameBulks(c, s) /\ s.backward_bytes = r.backward_bytes
          /\ s.forward_bytes = r.forward_bytes + p.payload_bytes
      BY <1>1, <1>2, <3>1, AddForwardBulks DEF SameBytes
    <3>3. QED
      BY <2>1, <3>2 DEF TakesBytes
  <2>2. CASE ~CountsForward(p)
    <3>1. s = AddBackward(c, p)
      BY <2>2
    <3> HIDE DEF s
    <3>2. /\ SameBulks(c, s) /\ s.forward_bytes = r.forward_bytes
          /\ s.backward_bytes = r.backward_bytes + p.payload_bytes
      BY <1>1, <1>2, <3>1, AddBackwardBulks DEF SameBytes
    <3>3. QED
      BY <2>2, <3>2 DEF TakesBytes
  <2>3. QED
    BY <2>1, <2>2
<1>4. AddPacket(r, p) = [s EXCEPT
            !.flow_length_stats = AddSample(@, p.payload_bytes),
            !.flow_iat = AddSample(@, p.timestamp - r.flow_last_seen),
            !.flow_last_seen = p.timestamp]
  BY DEF AddPacket, c
<1> HIDE DEF s
<1>5. SameBulks(s, AddPacket(r, p)) /\ SameBytes(s, AddPacket(r, p))
  BY <1>3, <1>4 DEF SameBulks, SameBytes, HasBulks
<1>6. QED
  BY <1>1, <1>3, <1>5 DEF Advances, SameBulks, SameBytes, TakesBytes, HasBulks

LEMMA BeginBulks ==
    ASSUME NEW p, p.forward \in BOOLEAN
    PROVE  /\ Advances(NewRecord(p), Begin(p), p)
           /\ NewRecord(p).fwd_bulk = NewBulk /\ NewRecord(p).bwd_bulk = NewBulk
           /\ Begin(p).forward_bytes = 0 + p.payload_bytes
           /\ Begin(p).backward_bytes = 0
<1> DEFINE r == NewRecord(p)
           c == Common(r, p)
<1>1. HasBulks(r) /\ r.fwd_bulk = NewBulk /\ r.bwd_bulk = NewBulk
      /\ r.forward_bytes = 0 /\ r.backward_bytes = 0
  BY DEF HasBulks, NewRecord
<1> HIDE DEF r
<1>2. Advances(r, c, p) /\ SameBytes(r, c)
  BY <1>1, CommonBulks
<1>3. HasBulks(c)
  BY <1>2 DEF Advances
<1> HIDE DEF c
<1>4. /\ SameBulks(c, FirstPacket(r, p))
      /\ FirstPacket(r, p).forward_bytes = c.forward_bytes + p.payload_bytes
      /\ FirstPacket(r, p).backward_bytes = c.backward_bytes
  BY <1>3 DEF FirstPacket, c, SameBulks, HasBulks
<1>5. QED
  BY <1>1, <1>2, <1>4 DEF Advances, SameBulks, SameBytes, HasBulks, Begin, r

-----------------------------------------------------------------------------
(* The invariant of the record.                                            *)

\* The packets a flow can be fed.
Packet ==
    {PacketAt(shape, forward, ts) : shape \in Shapes, forward \in BOOLEAN, ts \in Int}

LEMMA PacketFields ==
    ASSUME NEW shape \in Shapes, NEW forward \in BOOLEAN, NEW ts \in Int, NEW p,
           p = PacketAt(shape, forward, ts)
    PROVE  /\ p \in Packet
           /\ p.forward = forward /\ p.timestamp = ts
           /\ p.payload_bytes \in Nat
<1>1. shape.payload_bytes \in Nat
  BY RecordAssumption
<1>2. QED
  BY <1>1 DEF Packet, PacketAt

LEMMA PacketTypes ==
    ASSUME NEW p \in Packet
    PROVE  p.forward \in BOOLEAN /\ p.timestamp \in Int /\ p.payload_bytes \in Nat
BY PacketFields DEF Packet

BulkInv ==
    /\ log \in Seq(Packet) /\ log # <<>>
    /\ HasBulks(flow)
    /\ flow.fwd_bulk \in Bulk /\ Counted(flow.fwd_bulk, Cardinality(Payload(TRUE)))
    /\ flow.bwd_bulk \in Bulk /\ Counted(flow.bwd_bulk, Cardinality(Payload(FALSE)))
    /\ flow.forward_bytes \in Nat /\ flow.backward_bytes \in Nat
    /\ Load(flow.fwd_bulk) + Load(flow.bwd_bulk)
         <= flow.forward_bytes + flow.backward_bytes
    /\ is_bidirectional =>
         /\ Load(flow.fwd_bulk) <= flow.forward_bytes
         /\ Load(flow.bwd_bulk) <= flow.backward_bytes

LEMMA LastTime ==
    ASSUME log \in Seq(Packet), log # <<>>
    PROVE  log[Len(log)].timestamp \in Int
<1>1. log[Len(log)] \in Packet
  OBVIOUS
<1>2. QED
  BY <1>1, PacketTypes

LEMMA PayloadFinite ==
    ASSUME log \in Seq(Packet), NEW forward
    PROVE  /\ Payload(forward) \subseteq 1 .. Len(log)
           /\ IsFiniteSet(Payload(forward)) /\ Cardinality(Payload(forward)) \in Nat
<1>1. Payload(forward) \subseteq 1 .. Len(log) /\ Len(log) \in Nat
  BY DEF Payload
<1>2. IsFiniteSet(1 .. Len(log))
  BY <1>1, FS_Interval
<1>3. QED
  BY <1>1, <1>2, FS_Subset, FS_CardinalityType

\* One more payload packet of a direction.
LEMMA PayloadGrows ==
    ASSUME log \in Seq(Packet), NEW p \in Packet, log' = Append(log, p),
           NEW forward \in BOOLEAN
    PROVE  /\ p.forward = forward =>
                Cardinality(Payload(forward))' =
                  IF p.payload_bytes > 0 THEN Cardinality(Payload(forward)) + 1
                                         ELSE Cardinality(Payload(forward))
           /\ p.forward # forward =>
                Cardinality(Payload(forward))' = Cardinality(Payload(forward))
<1>1. PICK n, S, T : /\ n = Len(log) + 1 /\ S = Payload(forward)
                     /\ T = Payload(forward)'
  OBVIOUS
<1>2. /\ Len(log) \in Nat /\ n \in Nat /\ Len(log') = n /\ log' \in Seq(Packet)
      /\ log'[n] = p
      /\ \A i \in 1 .. Len(log) : log'[i] = log[i]
      /\ DOMAIN log' = 1 .. n /\ DOMAIN log = 1 .. Len(log)
  BY <1>1
<1>3. S \subseteq 1 .. Len(log) /\ IsFiniteSet(S) /\ Cardinality(S) \in Nat
  BY <1>1, PayloadFinite
<1>4. n \notin S
  BY <1>1, <1>2, <1>3
<1>5. T = IF p.forward = forward /\ p.payload_bytes > 0 THEN S \cup {n} ELSE S
  <2>1. \A i \in 1 .. Len(log) : i \in T <=> i \in S
    BY <1>1, <1>2 DEF Payload
  <2>2. n \in T <=> p.forward = forward /\ p.payload_bytes > 0
    BY <1>1, <1>2 DEF Payload
  <2>3. T \subseteq 1 .. n
    BY <1>1, <1>2 DEF Payload
  <2>4. 1 .. n = (1 .. Len(log)) \cup {n}
    BY <1>1, <1>2
  <2>5. CASE p.forward = forward /\ p.payload_bytes > 0
    BY <1>3, <2>1, <2>2, <2>3, <2>4, <2>5
  <2>6. CASE ~(p.forward = forward /\ p.payload_bytes > 0)
    <3>1. n \notin T
      BY <2>2, <2>6
    <3>2. T \subseteq 1 .. Len(log)
      BY <2>3, <2>4, <3>1
    <3>3. T = S
      BY <1>3, <2>1, <3>2
    <3>4. QED
      BY <2>6, <3>3
  <2>7. QED
    BY <2>5, <2>6
<1>6. Cardinality(S \cup {n}) = Cardinality(S) + 1
  BY <1>3, <1>4, FS_AddElement
<1>7. QED
  BY <1>1, <1>3, <1>5, <1>6

\* A tracker fed with the packet goes by its direction's payload packets.
LEMMA Fed ==
    ASSUME BulkInv, NEW p \in Packet, log' = Append(log, p),
           is_bidirectional' = is_bidirectional,
           HasBulks(flow)', Advances(flow, flow', p), TakesBytes(flow, flow', p)
    PROVE  BulkInv'
<1>1. p.forward \in BOOLEAN /\ p.timestamp \in Int /\ p.payload_bytes \in Nat
  BY PacketTypes
<1>2. log \in Seq(Packet) /\ log' \in Seq(Packet) /\ log' # <<>>
  BY DEF BulkInv
<1>3. PICK a, b, m, n, x, y : /\ a = flow.fwd_bulk /\ b = flow.bwd_bulk
                              /\ m = Cardinality(Payload(TRUE))
                              /\ n = Cardinality(Payload(FALSE))
                              /\ x = flow.forward_bytes
                              /\ y = flow.backward_bytes
  OBVIOUS
<1>4. /\ a \in Bulk /\ b \in Bulk /\ m \in Nat /\ n \in Nat
      /\ Counted(a, m) /\ Counted(b, n)
      /\ x \in Nat /\ y \in Nat
      /\ Load(a) \in Nat /\ Load(b) \in Nat
      /\ Load(a) + Load(b) <= x + y
      /\ is_bidirectional => Load(a) <= x /\ Load(b) <= y
  BY <1>2, <1>3, PayloadFinite, BulkFields DEF BulkInv
<1>5. /\ p.forward = TRUE => Cardinality(Payload(TRUE))' =
                               IF p.payload_bytes > 0 THEN m + 1 ELSE m
      /\ p.forward # TRUE => Cardinality(Payload(TRUE))' = m
      /\ p.forward = FALSE => Cardinality(Payload(FALSE))' =
                                IF p.payload_bytes > 0 THEN n + 1 ELSE n
      /\ p.forward # FALSE => Cardinality(Payload(FALSE))' = n
  BY <1>2, <1>3, PayloadGrows
<1>6. /\ flow'.forward_bytes = x + (IF CountsForward(p) THEN p.payload_bytes ELSE 0)
      /\ flow'.backward_bytes = y + (IF CountsForward(p) THEN 0 ELSE p.payload_bytes)
  BY <1>3 DEF TakesBytes
<1>7. /\ flow'.forward_bytes \in Nat /\ flow'.backward_bytes \in Nat
      /\ flow'.forward_bytes + flow'.backward_bytes = x + y + p.payload_bytes
  BY <1>1, <1>4, <1>6, SMTT(30)
<1>8. CASE p.forward = TRUE
  <2>1. /\ flow'.fwd_bulk = Update(a, p.timestamp, p.payload_bytes, b.last_bulk_ts)
        /\ flow'.bwd_bulk = b
    BY <1>3, <1>8 DEF Advances
  <2>2. /\ flow'.fwd_bulk \in Bulk
        /\ Counted(flow'.fwd_bulk, IF p.payload_bytes > 0 THEN m + 1 ELSE m)
        /\ Load(flow'.fwd_bulk) <= Load(a) + p.payload_bytes
    BY <1>1, <1>4, <2>1, UpdateKeeps
  <2>3. /\ Cardinality(Payload(TRUE))' = IF p.payload_bytes > 0 THEN m + 1 ELSE m
        /\ Cardinality(Payload(FALSE))' = n
    BY <1>5, <1>8
  <2>4. Load(flow'.fwd_bulk) \in Nat
    BY <2>2, BulkFields
  <2>5. Load(flow'.fwd_bulk) + Load(flow'.bwd_bulk)
          <= flow'.forward_bytes + flow'.backward_bytes
    BY <1>1, <1>4, <1>7, <2>1, <2>2, <2>4
  <2>6. ASSUME is_bidirectional
        PROVE  /\ Load(flow'.fwd_bulk) <= flow'.forward_bytes
               /\ Load(flow'.bwd_bulk) <= flow'.backward_bytes
    <3>1. CountsForward(p)
      BY <1>8 DEF CountsForward
    <3>2. flow'.forward_bytes = x + p.payload_bytes /\ flow'.backward_bytes = y
      BY <1>4, <1>6, <3>1
    <3>3. QED
      BY <1>1, <1>4, <2>1, <2>2, <2>4, <2>6, <3>2
  <2>7. QED
    BY <1>2, <1>4, <1>7, <2>1, <2>2, <2>3, <2>5, <2>6 DEF BulkInv
<1>9. CASE p.forward = FALSE
  <2>1. /\ flow'.bwd_bulk = Update(b, p.timestamp, p.payload_bytes, a.last_bulk_ts)
        /\ flow'.fwd_bulk = a
    BY <1>3, <1>9 DEF Advances
  <2>2. /\ flow'.bwd_bulk \in Bulk
        /\ Counted(flow'.bwd_bulk, IF p.payload_bytes > 0 THEN n + 1 ELSE n)
        /\ Load(flow'.bwd_bulk) <= Load(b) + p.payload_bytes
    BY <1>1, <1>4, <2>1, UpdateKeeps
  <2>3. /\ Cardinality(Payload(FALSE))' = IF p.payload_bytes > 0 THEN n + 1 ELSE n
        /\ Cardinality(Payload(TRUE))' = m
    BY <1>5, <1>9
  <2>4. Load(flow'.bwd_bulk) \in Nat
    BY <2>2, BulkFields
  <2>5. Load(flow'.fwd_bulk) + Load(flow'.bwd_bulk)
          <= flow'.forward_bytes + flow'.backward_bytes
    BY <1>1, <1>4, <1>7, <2>1, <2>2, <2>4
  <2>6. ASSUME is_bidirectional
        PROVE  /\ Load(flow'.fwd_bulk) <= flow'.forward_bytes
               /\ Load(flow'.bwd_bulk) <= flow'.backward_bytes
    <3>1. ~CountsForward(p)
      BY <1>9, <2>6 DEF CountsForward
    <3>2. flow'.forward_bytes = x /\ flow'.backward_bytes = y + p.payload_bytes
      BY <1>4, <1>6, <3>1
    <3>3. QED
      BY <1>1, <1>4, <2>1, <2>2, <2>4, <2>6, <3>2
  <2>7. QED
    BY <1>2, <1>4, <1>7, <2>1, <2>2, <2>3, <2>5, <2>6 DEF BulkInv
<1>10. QED
  BY <1>1, <1>8, <1>9

\* A record that begins has counted its first packet, which is a forward one.
Begun ==
    \E ts \in StartTimes, shape \in Shapes :
        LET p == PacketAt(shape, TRUE, ts) IN log = <<p>> /\ flow = Begin(p)

LEMMA BegunKeeps == Begun => BulkInv
<1> SUFFICES ASSUME NEW ts \in StartTimes, NEW shape \in Shapes,
                    NEW p, p = PacketAt(shape, TRUE, ts),
                    log = <<p>>, flow = Begin(p)
             PROVE  BulkInv
  BY DEF Begun
<1>1. /\ p \in Packet /\ p.forward = TRUE /\ p.timestamp = ts /\ ts \in Int
      /\ p.payload_bytes \in Nat
  <2>1. TRUE \in BOOLEAN /\ ts \in Int
    BY RecordAssumption
  <2>2. QED
    BY <2>1, PacketFields, ZenonT(30)
<1>2. /\ HasBulks(flow)
      /\ flow.fwd_bulk = Update(NewBulk, ts, p.payload_bytes, NewBulk.last_bulk_ts)
      /\ flow.bwd_bulk = NewBulk
      /\ flow.forward_bytes = p.payload_bytes /\ flow.backward_bytes = 0
  <2>1. p.forward \in BOOLEAN
    BY <1>1
  <2>2. /\ Advances(NewRecord(p), Begin(p), p)
        /\ NewRecord(p).fwd_bulk = NewBulk /\ NewRecord(p).bwd_bulk = NewBulk
        /\ Begin(p).forward_bytes = 0 + p.payload_bytes
        /\ Begin(p).backward_bytes = 0
    BY ONLY <2>1, BeginBulks
  <2>3. 0 + p.payload_bytes = p.payload_bytes
    BY ONLY <1>1
  <2>4. /\ Advances(NewRecord(p), flow, p)
        /\ flow.forward_bytes = p.payload_bytes /\ flow.backward_bytes = 0
    BY ONLY <2>2, <2>3, flow = Begin(p)
  <2>5. QED
    BY ONLY <1>1, <2>2, <2>4 DEF Advances
<1>3. NewBulk \in Bulk /\ Counted(NewBulk, 0) /\ Load(NewBulk) = 0
  BY DEF NewBulk, Bulk, Counted, Uncommitted, Load
<1>4. /\ log \in Seq(Packet) /\ log # <<>>
      /\ Payload(TRUE) = IF p.payload_bytes > 0 THEN {1} ELSE {}
      /\ Payload(FALSE) = {}
  <2>1. /\ log \in Seq(Packet) /\ log # <<>> /\ DOMAIN log = {1} /\ log[1] = p
    <3>1. <<p>> \in Seq(Packet)
      BY ONLY <1>1
    <3>2. DOMAIN <<p>> = {1} /\ <<p>>[1] = p /\ <<p>> # <<>>
      OBVIOUS
    <3>3. QED
      BY <3>1, <3>2
  <2>2. CASE p.payload_bytes > 0
    BY <1>1, <2>1, <2>2 DEF Payload
  <2>3. CASE ~(p.payload_bytes > 0)
    BY <1>1, <2>1, <2>3 DEF Payload
  <2>4. QED
    BY <2>1, <2>2, <2>3
<1>5. /\ Cardinality(Payload(TRUE)) = IF p.payload_bytes > 0 THEN 0 + 1 ELSE 0
      /\ Cardinality(Payload(FALSE)) = 0
  <2>0. Cardinality({}) = 0
    BY FS_EmptySet
  <2>1. Cardinality({1}) = 0 + 1
    <3>1. Cardinality({1}) = 1
      BY FS_Singleton, Zenon
    <3>2. QED
      BY <3>1
  <2>2. CASE p.payload_bytes > 0
    BY <1>4, <2>0, <2>1, <2>2
  <2>3. CASE ~(p.payload_bytes > 0)
    BY <1>4, <2>0, <2>3
  <2>4. QED
    BY <2>2, <2>3
<1>6. /\ flow.fwd_bulk \in Bulk
      /\ Counted(flow.fwd_bulk, IF p.payload_bytes > 0 THEN 0 + 1 ELSE 0)
      /\ Load(flow.fwd_bulk) <= p.payload_bytes
  <2>1. PICK z, other : z = 0 /\ z \in Nat /\ other = NewBulk.last_bulk_ts
    OBVIOUS
  <2>2. Counted(NewBulk, z)
    BY <1>3, <2>1
  <2>3. /\ Update(NewBulk, ts, p.payload_bytes, other) \in Bulk
        /\ Counted(Update(NewBulk, ts, p.payload_bytes, other),
                   IF p.payload_bytes > 0 THEN z + 1 ELSE z)
        /\ Load(Update(NewBulk, ts, p.payload_bytes, other))
             <= Load(NewBulk) + p.payload_bytes
    BY <1>1, <1>3, <2>1, <2>2, UpdateKeeps
  <2>4. Load(NewBulk) + p.payload_bytes = p.payload_bytes
    BY ONLY <1>1, <1>3
  <2>5. QED
    BY ONLY <1>2, <2>1, <2>3, <2>4
<1>7. Load(flow.fwd_bulk) \in Nat
  BY <1>6, BulkFields
<1>8. /\ flow.forward_bytes \in Nat /\ flow.backward_bytes \in Nat
      /\ Load(flow.bwd_bulk) = 0
      /\ Load(flow.fwd_bulk) + Load(flow.bwd_bulk)
           <= flow.forward_bytes + flow.backward_bytes
      /\ Load(flow.fwd_bulk) <= flow.forward_bytes
      /\ Load(flow.bwd_bulk) <= flow.backward_bytes
  BY ONLY <1>1, <1>2, <1>3, <1>6, <1>7
<1>9. QED
  BY ONLY <1>2, <1>3, <1>4, <1>5, <1>6, <1>8 DEF BulkInv

LEMMA BulkInvInit == Init => BulkInv
<1>1. Init => Begun
  BY DEF Init, Begun
<1>2. QED
  BY <1>1, BegunKeeps

LEMMA BulkInvStep == BulkInv /\ [Next]_vars => BulkInv'
<1> SUFFICES ASSUME BulkInv, [Next]_vars PROVE BulkInv'
  OBVIOUS
<1>1. CASE NextPacket
  <2>1. PICK d \in Steps, forward \in BOOLEAN, shape \in Shapes :
          LET p == PacketAt(shape, forward, log[Len(log)].timestamp + d) IN
          p.timestamp >= 0 /\ flow' = AddPacket(flow, p) /\ log' = Append(log, p)
    BY <1>1 DEF NextPacket
  <2>2. PICK ts, p : /\ ts = log[Len(log)].timestamp + d
                     /\ p = PacketAt(shape, forward, ts)
    OBVIOUS
  <2>3. ts \in Int
    BY <2>2, LastTime, RecordAssumption DEF BulkInv
  <2>4. p \in Packet /\ p.forward \in BOOLEAN /\ p.payload_bytes \in Nat
    BY <2>2, <2>3, PacketFields
  <2>5. flow' = AddPacket(flow, p) /\ log' = Append(log, p)
    BY <2>1, <2>2
  <2>6. HasBulks(flow) /\ flow.forward_bytes \in Nat /\ flow.backward_bytes \in Nat
    BY DEF BulkInv
  <2>7. Advances(flow, flow', p) /\ TakesBytes(flow, flow', p)
    BY <2>4, <2>5, <2>6, AddPacketBulks
  <2>8. HasBulks(flow)'
    BY <2>7 DEF Advances, HasBulks
  <2>9. is_bidirectional' = is_bidirectional
    BY <1>1 DEF NextPacket
  <2>10. QED
    BY <2>4, <2>5, <2>7, <2>8, <2>9, Fed
<1>2. CASE NextFlow
  <2>1. Begun'
    <3>1. /\ is_bidirectional' = is_bidirectional /\ compat_mode' = compat_mode
          /\ \E ts \in StartTimes, shape \in Shapes :
               LET p == PacketAt(shape, TRUE, ts) IN log' = <<p>> /\ flow' = Begin(p)
      BY <1>2 DEF NextFlow
    <3>2. \A p : Begin(p)' = Begin(p)
      BY <3>1 DEF Begin, FirstPacket
    <3>3. QED
      BY <3>1, <3>2 DEF Begun
  <2>2. Begun' => BulkInv'
    BY BegunKeeps, PTL
  <2>3. QED
    BY <2>1, <2>2
<1>3. CASE UNCHANGED vars
  BY <1>3 DEF vars, BulkInv, Payload
<1>4. QED
  BY <1>1, <1>2, <1>3 DEF Next

\* No bulk has fewer than four packets, no packet and no byte is in two bulks, however
\* the timestamps come and the directions alternate, in every mode.
THEOREM WholeBulksOnly == Spec => []BulksAreWhole
<1>1. BulkInv => BulksAreWhole
  <2> SUFFICES ASSUME BulkInv PROVE BulksAreWhole
    OBVIOUS
  <2>1. /\ Cardinality(Payload(TRUE)) \in Nat
        /\ Cardinality(Payload(FALSE)) \in Nat
    BY PayloadFinite DEF BulkInv
  <2>2. WholeBulks(flow.fwd_bulk, TRUE) /\ WholeBulks(flow.bwd_bulk, FALSE)
    BY <2>1, CountedIsWhole DEF BulkInv
  <2>3. PICK a, b : a = flow.fwd_bulk /\ b = flow.bwd_bulk
    OBVIOUS
  <2>4. /\ a.size_total \in Nat /\ a.size_total <= Load(a) /\ Load(a) \in Nat
        /\ b.size_total \in Nat /\ b.size_total <= Load(b) /\ Load(b) \in Nat
    <3>1. a \in Bulk /\ b \in Bulk
      BY <2>3 DEF BulkInv
    <3>2. QED
      BY <3>1, BulkFields DEF Load
  <2>5. BytesOnce
    BY <2>3, <2>4, SMTT(30) DEF BytesOnce, BulkInv
  <2>6. QED
    BY <2>2, <2>5 DEF BulksAreWhole
<1>2. QED
  BY <1>1, BulkInvInit, BulkInvStep, PTL DEF Spec

-----------------------------------------------------------------------------
(* Running statistics: Welford's update is exact.                          *)

Sample == [count: Nat, sum: Int, min: Int, max: Int, mean: Int, m2: Int]

IsLeast(m, v) == (\E i \in DOMAIN v : v[i] = m) /\ \A i \in DOMAIN v : m <= v[i]
IsMost(m, v) == (\E i \in DOMAIN v : v[i] = m) /\ \A i \in DOMAIN v : m >= v[i]

\* Without rounding: mean and m2 times c of n values.
Exact(c, n, sum, q, mean, m2) ==
    n * mean = c * sum /\ n * m2 = c * (n * q - sum * sum)

\* The mean and the moment stay what the sum of the values and that of their
\* squares, q, make them.
Moments(s, q) ==
    /\ s.count = 0 => s.mean = 0 /\ s.m2 = 0 /\ s.sum = 0 /\ q = 0
    /\ Exact(Scale, s.count, s.sum, q, s.mean, s.m2)

\* The statistics say of some values what Describes asks for, and have what
\* an update needs: none of the fractions is rounded.
Summarises(s, v) ==
    /\ s \in Sample
    /\ s.count = Cardinality(DOMAIN v) /\ s.sum = SumFunction(v)
    /\ s.count > 0 => IsLeast(s.min, v) /\ IsMost(s.max, v)
    /\ Moments(s, SumFunction(Squares(v)))

LEMMA Cancel ==
    ASSUME NEW n \in Nat, n > 0, NEW a \in Int, NEW b \in Int, n * a = n * b
    PROVE  a = b
OBVIOUS

LEMMA ExactQuotient ==
    ASSUME NEW d \in Nat, d > 0, NEW q \in Int
    PROVE  (d * q) \div d = q
OBVIOUS

LEMMA ScaleDivides ==
    ASSUME NEW n \in Nat, n > 0, n + 1 <= MaxCount
    PROVE  \E k \in Nat : Scale = (n * (n + 1)) * k
<1>1. /\ Scale \in Nat /\ MaxCount \in Nat
      /\ \A i \in 1 .. MaxCount - 1 : Scale % (i * (i + 1)) = 0
  BY ScaleAssumption
<1>2. n \in 1 .. MaxCount - 1
  BY <1>1
<1>3. Scale % (n * (n + 1)) = 0
  BY <1>1, <1>2
<1>4. PICK d \in Nat : d = n * (n + 1)
  OBVIOUS
<1>5. d > 0
  BY <1>4
<1>6. Scale = d * (Scale \div d) /\ Scale \div d \in Nat
  BY <1>1, <1>3, <1>4, <1>5
<1>7. QED
  BY <1>4, <1>6

LEMMA SampleFields ==
    ASSUME NEW s \in Sample
    PROVE  /\ s.count \in Nat /\ s.sum \in Int /\ s.min \in Int /\ s.max \in Int
           /\ s.mean \in Int /\ s.m2 \in Int
BY DEF Sample

LEMMA AddSampleFacts ==
    ASSUME NEW s \in Sample, NEW y \in Int, NEW t, t = AddSample(s, y)
    PROVE  /\ t \in Sample
           /\ t.count = s.count + 1 /\ t.sum = s.sum + y
           /\ t.min = IF s.count = 0 \/ y < s.min THEN y ELSE s.min
           /\ t.max = IF s.count = 0 \/ y > s.max THEN y ELSE s.max
<1>1. /\ s.count \in Nat /\ s.sum \in Int /\ s.min \in Int /\ s.max \in Int
      /\ s.mean \in Int /\ s.m2 \in Int /\ Scale \in Nat /\ Scale > 0
  BY SampleFields, ScaleAssumption
<1>2. PICK mean, m2 :
        /\ mean = s.mean + (Scale * y - s.mean) \div (s.count + 1)
        /\ m2 = s.m2 + ((Scale * y - s.mean) * (Scale * y - mean)) \div Scale
  OBVIOUS
<1>3. mean \in Int
  <2>1. Scale * y - s.mean \in Int /\ s.count + 1 \in Nat /\ s.count + 1 > 0
    BY <1>1
  <2>2. (Scale * y - s.mean) \div (s.count + 1) \in Int
    BY <2>1
  <2>3. QED
    BY <1>1, <1>2, <2>2
<1>4. m2 \in Int
  <2>1. (Scale * y - s.mean) * (Scale * y - mean) \in Int
    BY <1>1, <1>3
  <2>2. ((Scale * y - s.mean) * (Scale * y - mean)) \div Scale \in Int
    BY <1>1, <2>1
  <2>3. QED
    BY <1>1, <1>2, <2>2
<1>5. t = [count |-> s.count + 1, sum |-> s.sum + y,
           min |-> IF s.count = 0 \/ y < s.min THEN y ELSE s.min,
           max |-> IF s.count = 0 \/ y > s.max THEN y ELSE s.max,
           mean |-> mean, m2 |-> m2]
  BY <1>2 DEF AddSample, Samples, AddValue
<1>6. s.count + 1 \in Nat /\ s.sum + y \in Int
  BY <1>1
<1>7. QED
  BY <1>1, <1>3, <1>4, <1>5, <1>6 DEF Sample

\* One update in numbers: from n values with this sum, sum of squares q, mean
\* and m2 (times c) to n + 1.
Updates(c, n, sum, q, mean, m2, y, mean1, m1) ==
    /\ n \in Nat /\ sum \in Int /\ q \in Int /\ mean \in Int /\ m2 \in Int
    /\ y \in Int /\ c \in Nat /\ c > 0
    /\ n * mean = c * sum /\ n * m2 = c * (n * q - sum * sum)
    /\ mean1 = mean + (c * y - mean) \div (n + 1)
    /\ m1 = m2 + ((c * y - mean) * (c * y - mean1)) \div c

LEMMA FirstUpdate ==
    ASSUME NEW c, NEW y, NEW mean1, NEW m1, Updates(c, 0, 0, 0, 0, 0, y, mean1, m1)
    PROVE  Exact(c, 1, y, y * y, mean1, m1)
<1>1. /\ y \in Int /\ c \in Nat /\ c > 0
      /\ mean1 = 0 + (c * y - 0) \div (0 + 1)
      /\ m1 = 0 + ((c * y - 0) * (c * y - mean1)) \div c
  BY DEF Updates
<1>2. PICK d \in Int : d = c * y
  BY <1>1
<1>3. mean1 = d
  BY <1>1, <1>2
<1>4. m1 = (d * 0) \div c
  BY <1>1, <1>2, <1>3
<1>5. m1 = 0
  BY <1>1, <1>4
<1>6. 1 * d = c * y /\ 1 * 0 = c * (1 * (y * y) - y * y)
  BY <1>1, <1>2
<1>7. QED
  BY <1>3, <1>5, <1>6 DEF Exact

LEMMA LaterUpdate ==
    ASSUME NEW c, NEW n, NEW sum, NEW q, NEW mean, NEW m2, NEW y, NEW mean1, NEW m1,
           Updates(c, n, sum, q, mean, m2, y, mean1, m1), n > 0,
           NEW k \in Nat, c = (n * (n + 1)) * k
    PROVE  Exact(c, n + 1, sum + y, q + y * y, mean1, m1)
<1>1. /\ n \in Nat /\ sum \in Int /\ q \in Int /\ mean \in Int /\ m2 \in Int
      /\ y \in Int /\ c \in Nat /\ c > 0
      /\ n * mean = c * sum /\ n * m2 = c * (n * q - sum * sum)
      /\ mean1 = mean + (c * y - mean) \div (n + 1)
      /\ m1 = m2 + ((c * y - mean) * (c * y - mean1)) \div c
  BY DEF Updates
<1>2. PICK e \in Int : e = k * (n * y - sum)
  BY <1>1
<1>3. mean = ((n + 1) * k) * sum
  <2>1. n * mean = n * (((n + 1) * k) * sum)
    BY <1>1
  <2>2. QED
    BY <1>1, <2>1, Cancel
<1>4. m2 = ((n + 1) * k) * (n * q - sum * sum)
  <2>1. n * m2 = n * (((n + 1) * k) * (n * q - sum * sum))
    BY <1>1
  <2>2. PICK a \in Int : a = ((n + 1) * k) * (n * q - sum * sum)
    BY <1>1
  <2>3. n * m2 = n * a
    BY <2>1, <2>2
  <2>4. m2 = a
    BY <1>1, <2>3, Cancel
  <2>5. QED
    BY <2>2, <2>4
<1>5. c * y - mean = (n + 1) * e
  BY <1>1, <1>2, <1>3
<1>6. ((n + 1) * e) \div (n + 1) = e
  BY <1>1, ExactQuotient
<1>7. mean1 = mean + e
  BY <1>1, <1>5, <1>6
<1>8. c * y - mean1 = n * e
  BY <1>1, <1>2, <1>3, <1>7
<1>9. PICK f \in Int : f = k * ((n * y - sum) * (n * y - sum))
  BY <1>1
<1>10. ((n + 1) * e) * (n * e) = c * f
  BY <1>1, <1>2, <1>9
<1>11. (c * f) \div c = f
  BY <1>1, <1>9, ExactQuotient
<1>12. m1 = m2 + f
  BY <1>1, <1>5, <1>8, <1>10, <1>11
<1>13. (n + 1) * (mean + e) = c * (sum + y)
  BY <1>1, <1>2, <1>3
<1>14. (n + 1) * (m2 + f) = c * ((n + 1) * (q + y * y) - (sum + y) * (sum + y))
  BY <1>1, <1>4, <1>9
<1>15. QED
  BY <1>7, <1>12, <1>13, <1>14 DEF Exact

LEMMA MomentsGrow ==
    ASSUME NEW s \in Sample, NEW q \in Int, Moments(s, q), s.count + 1 <= MaxCount,
           NEW y \in Int, NEW r, r = q + y * y, NEW t, t = AddSample(s, y)
    PROVE  Moments(t, r)
<1> PICK n, sum, mean, m2, mean1, m1 :
        /\ n = s.count /\ sum = s.sum /\ mean = s.mean /\ m2 = s.m2
        /\ mean1 = mean + (Scale * y - mean) \div (n + 1)
        /\ m1 = m2 + ((Scale * y - mean) * (Scale * y - mean1)) \div Scale
  OBVIOUS
<1>1. /\ n \in Nat /\ sum \in Int /\ mean \in Int /\ m2 \in Int
      /\ Scale \in Nat /\ Scale > 0
  BY SampleFields, ScaleAssumption
<1>2. Updates(Scale, n, sum, q, mean, m2, y, mean1, m1)
  BY <1>1 DEF Moments, Updates, Exact
<1>3. /\ t.count = n + 1 /\ t.sum = sum + y /\ t.mean = mean1 /\ t.m2 = m1
  BY DEF AddSample, Samples, AddValue
<1>4. Exact(Scale, n + 1, sum + y, r, mean1, m1)
  <2>1. CASE n = 0
    <3>1. mean = 0 /\ m2 = 0 /\ sum = 0 /\ q = 0
      BY <2>1 DEF Moments
    <3>2. Exact(Scale, 1, y, y * y, mean1, m1)
      BY <1>2, <2>1, <3>1, FirstUpdate
    <3>3. n + 1 = 1 /\ sum + y = y /\ r = y * y
      BY <2>1, <3>1
    <3>4. QED
      BY <3>2, <3>3
  <2>2. CASE n > 0
    <3>1. PICK k \in Nat : Scale = (n * (n + 1)) * k
      BY <1>1, <2>2, ScaleDivides
    <3>2. QED
      BY ONLY <1>2, <2>2, <3>1, LaterUpdate, r = q + y * y
  <2>3. QED
    BY <1>1, <2>1, <2>2
<1>5. t.count # 0
  BY <1>1, <1>3
<1>6. QED
  BY <1>3, <1>4, <1>5 DEF Moments, Exact

\* The sums and the cardinality of a function of one element more.
Extends(w, v, x) ==
    /\ x \notin DOMAIN v
    /\ w \in [DOMAIN v \cup {x} -> Int]
    /\ \A i \in DOMAIN v : w[i] = v[i]

Values(v) == IsFiniteSet(DOMAIN v) /\ v \in [DOMAIN v -> Int]

LEMMA SquaresExtend ==
    ASSUME NEW v, Values(v), NEW x, NEW w, Extends(w, v, x)
    PROVE  /\ Values(w) /\ Values(Squares(v))
           /\ Extends(Squares(w), Squares(v), x)
           /\ Squares(w)[x] = w[x] * w[x]
<1>1. DOMAIN w = DOMAIN v \cup {x} /\ IsFiniteSet(DOMAIN w) /\ w \in [DOMAIN w -> Int]
  BY FS_AddElement DEF Extends, Values
<1>2. \A a \in Int : a * a \in Int
  OBVIOUS
<1>3. Squares(v) \in [DOMAIN v -> Int] /\ Squares(w) \in [DOMAIN w -> Int]
  BY <1>1, <1>2 DEF Squares, Values
<1>4. /\ \A i \in DOMAIN v : Squares(w)[i] = Squares(v)[i]
      /\ Squares(w)[x] = w[x] * w[x]
  BY <1>1 DEF Squares, Extends
<1>5. QED
  BY <1>1, <1>3, <1>4 DEF Extends, Values

LEMMA SumExtends ==
    ASSUME NEW v, Values(v), NEW x, NEW w, Extends(w, v, x)
    PROVE  /\ SumFunction(w) = SumFunction(v) + w[x]
           /\ SumFunction(v) \in Int /\ w[x] \in Int
           /\ Cardinality(DOMAIN w) = Cardinality(DOMAIN v) + 1
           /\ Cardinality(DOMAIN v) \in Nat
<1> PICK S : S = DOMAIN v
  OBVIOUS
<1>1. /\ IsFiniteSet(S) /\ v \in [S -> Int] /\ x \notin S
      /\ w \in [S \cup {x} -> Int] /\ \A i \in S : w[i] = v[i]
  BY DEF Values, Extends
<1>2. SumFunction(w) = SumFunction(v) + w[x]
  BY ONLY <1>1, SumMore
<1>3. SumFunction(v) \in Int
  BY <1>1, SumType
<1>4. /\ Cardinality(S \cup {x}) = Cardinality(S) + 1
      /\ Cardinality(S) \in Nat /\ DOMAIN w = S \cup {x} /\ w[x] \in Int
  BY <1>1, FS_AddElement, FS_CardinalityType
<1>5. QED
  BY <1>2, <1>3, <1>4

LEMMA LeastExtends ==
    ASSUME NEW v, Values(v), NEW x, NEW w, Extends(w, v, x), NEW m \in Int,
           DOMAIN v # {} => IsLeast(m, v)
    PROVE  IsLeast(IF DOMAIN v = {} \/ w[x] < m THEN w[x] ELSE m, w)
<1>1. DOMAIN w = DOMAIN v \cup {x} /\ \A i \in DOMAIN w : w[i] \in Int
  BY DEF Extends
<1>2. \A i \in DOMAIN v : w[i] = v[i]
  BY DEF Extends
<1>3. CASE DOMAIN v = {}
  BY <1>1, <1>3 DEF IsLeast
<1>4. CASE DOMAIN v # {} /\ w[x] < m
  BY <1>1, <1>2, <1>4 DEF IsLeast
<1>5. CASE DOMAIN v # {} /\ ~(w[x] < m)
  BY <1>1, <1>2, <1>5 DEF IsLeast
<1>6. QED
  BY <1>3, <1>4, <1>5

LEMMA MostExtends ==
    ASSUME NEW v, Values(v), NEW x, NEW w, Extends(w, v, x), NEW m \in Int,
           DOMAIN v # {} => IsMost(m, v)
    PROVE  IsMost(IF DOMAIN v = {} \/ w[x] > m THEN w[x] ELSE m, w)
<1>1. DOMAIN w = DOMAIN v \cup {x} /\ \A i \in DOMAIN w : w[i] \in Int
  BY DEF Extends
<1>2. \A i \in DOMAIN v : w[i] = v[i]
  BY DEF Extends
<1>3. CASE DOMAIN v = {}
  BY <1>1, <1>3 DEF IsMost
<1>4. CASE DOMAIN v # {} /\ w[x] > m
  BY <1>1, <1>2, <1>4 DEF IsMost
<1>5. CASE DOMAIN v # {} /\ ~(w[x] > m)
  BY <1>1, <1>2, <1>5 DEF IsMost
<1>6. QED
  BY <1>3, <1>4, <1>5

LEMMA SampleGrows ==
    ASSUME NEW v, Values(v), NEW s, Summarises(s, v),
           Cardinality(DOMAIN v) + 1 <= MaxCount,
           NEW x, NEW w, Extends(w, v, x), NEW t, t = AddSample(s, w[x])
    PROVE  Summarises(t, w)
<1> PICK y, n, q : y = w[x] /\ n = s.count /\ q = SumFunction(Squares(v))
  OBVIOUS
<1>1. /\ SumFunction(w) = s.sum + y /\ y \in Int
      /\ Cardinality(DOMAIN w) = n + 1 /\ n \in Nat /\ n = Cardinality(DOMAIN v)
  BY SumExtends DEF Summarises
<1>2. SumFunction(Squares(w)) = q + y * y /\ q \in Int
  <2>1. /\ Values(Squares(v)) /\ Extends(Squares(w), Squares(v), x)
        /\ Squares(w)[x] = y * y
    BY SquaresExtend
  <2>2. QED
    BY <2>1, SumExtends
<1>3. s \in Sample /\ t = AddSample(s, y) /\ Moments(s, q)
  BY DEF Summarises
<1>4. /\ t \in Sample /\ t.count = n + 1 /\ t.sum = s.sum + y
      /\ t.min = IF n = 0 \/ y < s.min THEN y ELSE s.min
      /\ t.max = IF n = 0 \/ y > s.max THEN y ELSE s.max
  <2>1. s.count = n
    OBVIOUS
  <2>2. QED
    BY ONLY <1>1, <1>3, <2>1, AddSampleFacts
<1>5. n = 0 <=> DOMAIN v = {}
  BY <1>1, FS_EmptySet DEF Values
<1>6. IsLeast(t.min, w) /\ IsMost(t.max, w)
  <2>1. /\ s.min \in Int /\ s.max \in Int
        /\ DOMAIN v # {} => IsLeast(s.min, v) /\ IsMost(s.max, v)
    BY <1>1, <1>3, <1>5, SampleFields DEF Summarises
  <2>2. QED
    BY <1>4, <1>5, <2>1, LeastExtends, MostExtends
<1>7. Moments(t, SumFunction(Squares(w)))
  <2>1. n + 1 <= MaxCount
    BY <1>1
  <2>2. QED
    BY <1>1, <1>2, <1>3, <2>1, MomentsGrow
<1>8. QED
  BY <1>1, <1>4, <1>6, <1>7 DEF Summarises


-----------------------------------------------------------------------------
(* What a packet does to the statistics of a record.                       *)

StatFields ==
    {"flow_start_time", "flow_last_seen", "forward_last_seen", "backward_last_seen",
     "fwd_pkt_stats", "bwd_pkt_stats", "flow_iat", "forward_iat", "backward_iat",
     "flow_length_stats", "fwd_packet_count", "bwd_packet_count",
     "min_seg_size_forward", "flag", "subflow"}

HasStats(r) == StatFields \subseteq DOMAIN r

SameStats(r, s) ==
    /\ HasStats(s)
    /\ \A f \in StatFields \ {"flag", "subflow"} : s[f] = r[f]

\* The fields of a packet that counts as forward, and those of another.
AddsForward(r, s, p) ==
    /\ s.fwd_pkt_stats = AddSample(r.fwd_pkt_stats, p.payload_bytes)
    /\ s.fwd_packet_count = r.fwd_packet_count + 1
    /\ s.forward_iat = IF r.fwd_packet_count + 1 > 1
                       THEN AddSample(r.forward_iat, p.timestamp - r.forward_last_seen)
                       ELSE r.forward_iat
    /\ s.forward_last_seen = p.timestamp
    /\ s.min_seg_size_forward = IF p.header_bytes < r.min_seg_size_forward
                                THEN p.header_bytes ELSE r.min_seg_size_forward
    /\ s.bwd_pkt_stats = r.bwd_pkt_stats /\ s.bwd_packet_count = r.bwd_packet_count
    /\ s.backward_iat = r.backward_iat /\ s.backward_last_seen = r.backward_last_seen

AddsBackward(r, s, p) ==
    /\ s.bwd_pkt_stats = AddSample(r.bwd_pkt_stats, p.payload_bytes)
    /\ s.bwd_packet_count = r.bwd_packet_count + 1
    /\ s.backward_iat = IF r.bwd_packet_count + 1 > 1
                        THEN AddSample(r.backward_iat, p.timestamp - r.backward_last_seen)
                        ELSE r.backward_iat
    /\ s.backward_last_seen = p.timestamp
    /\ s.fwd_pkt_stats = r.fwd_pkt_stats /\ s.fwd_packet_count = r.fwd_packet_count
    /\ s.forward_iat = r.forward_iat /\ s.forward_last_seen = r.forward_last_seen
    /\ s.min_seg_size_forward = r.min_seg_size_forward

\* The fields that every packet changes.
AddsToFlow(r, s, p) ==
    /\ s.flow_length_stats = AddSample(r.flow_length_stats, p.payload_bytes)
    /\ s.flow_iat = AddSample(r.flow_iat, p.timestamp - r.flow_last_seen)
    /\ s.flow_last_seen = p.timestamp /\ s.flow_start_time = r.flow_start_time
    /\ s.flag = Tick(r.flag, p.flags)
    /\ s.subflow = Subflows!UpdateSubflow(r.subflow, p.timestamp)

LEMMA CommonStats ==
    ASSUME NEW r, HasStats(r), NEW p
    PROVE  /\ SameStats(r, Common(r, p))
           /\ Common(r, p).flag = Tick(r.flag, p.flags)
           /\ Common(r, p).subflow = Subflows!UpdateSubflow(r.subflow, p.timestamp)
<1> PICK u, t, flags, c : /\ u = UpdateBulk(r, p) /\ c = Common(r, p)
                          /\ t = Subflows!UpdateSubflow(r.subflow, p.timestamp)
                          /\ flags = Tick(r.flag, p.flags)
  OBVIOUS
<1>1. HasStats(u) /\ \A f \in StatFields : u[f] = r[f]
  BY DEF UpdateBulk, HasStats, StatFields
<1>2. u.subflow = r.subflow /\ u.flag = r.flag
  BY <1>1 DEF StatFields
<1>3. c = [u EXCEPT !.subflow = t, !.flag = flags]
  BY <1>2 DEF Common
<1>4. c.subflow = t /\ c.flag = flags /\ HasStats(c)
  BY <1>1, <1>3 DEF HasStats, StatFields
<1>5. \A f \in StatFields \ {"flag", "subflow"} : c[f] = u[f]
  BY <1>1, <1>3 DEF HasStats, StatFields
<1>6. SameStats(r, c)
  BY <1>1, <1>4, <1>5 DEF SameStats
<1>7. QED
  BY <1>4, <1>6

LEMMA AddForwardStats ==
    ASSUME NEW r, HasStats(r), NEW p, NEW s, s = AddForward(r, p)
    PROVE  /\ HasStats(s) /\ AddsForward(r, s, p)
           /\ \A f \in {"flow_length_stats", "flow_iat", "flow_last_seen",
                        "flow_start_time", "flag", "subflow"} : s[f] = r[f]
BY DEF HasStats, StatFields, AddForward, AddsForward

LEMMA AddBackwardStats ==
    ASSUME NEW r, HasStats(r), NEW p, NEW s, s = AddBackward(r, p)
    PROVE  /\ HasStats(s) /\ AddsBackward(r, s, p)
           /\ \A f \in {"flow_length_stats", "flow_iat", "flow_last_seen",
                        "flow_start_time", "flag", "subflow"} : s[f] = r[f]
BY DEF HasStats, StatFields, AddBackward, AddsBackward

LEMMA AddPacketStats ==
    ASSUME NEW r, HasStats(r), NEW p, NEW s, s = AddPacket(r, p)
    PROVE  /\ HasStats(s) /\ AddsToFlow(r, s, p)
           /\ CountsForward(p) => AddsForward(r, s, p)
           /\ ~CountsForward(p) => AddsBackward(r, s, p)
<1> PICK c : c = Common(r, p)
  OBVIOUS
<1> PICK d : d = IF CountsForward(p) THEN AddForward(c, p) ELSE AddBackward(c, p)
  OBVIOUS
<1>1. /\ SameStats(r, c) /\ HasStats(c)
      /\ c.flag = Tick(r.flag, p.flags)
      /\ c.subflow = Subflows!UpdateSubflow(r.subflow, p.timestamp)
  BY CommonStats DEF SameStats
<1>2. /\ HasStats(d)
      /\ \A f \in {"flow_length_stats", "flow_iat", "flow_last_seen",
                   "flow_start_time", "flag", "subflow"} : d[f] = c[f]
      /\ CountsForward(p) => AddsForward(c, d, p)
      /\ ~CountsForward(p) => AddsBackward(c, d, p)
  BY <1>1, AddForwardStats, AddBackwardStats
<1>3. s = [d EXCEPT !.flow_length_stats = AddSample(@, p.payload_bytes),
                    !.flow_iat = AddSample(@, p.timestamp - r.flow_last_seen),
                    !.flow_last_seen = p.timestamp]
  BY DEF AddPacket
<1>4. /\ HasStats(s)
      /\ s.flow_length_stats = AddSample(d.flow_length_stats, p.payload_bytes)
      /\ s.flow_iat = AddSample(d.flow_iat, p.timestamp - r.flow_last_seen)
      /\ s.flow_last_seen = p.timestamp
      /\ \A f \in StatFields \ {"flow_length_stats", "flow_iat", "flow_last_seen"} :
            s[f] = d[f]
  BY <1>2, <1>3 DEF HasStats, StatFields
<1>5. AddsToFlow(r, s, p)
  BY <1>1, <1>2, <1>4 DEF AddsToFlow, SameStats, StatFields
<1>6. CountsForward(p) => AddsForward(r, s, p)
  BY <1>1, <1>2, <1>4 DEF AddsForward, SameStats, StatFields
<1>7. ~CountsForward(p) => AddsBackward(r, s, p)
  BY <1>1, <1>2, <1>4 DEF AddsBackward, SameStats, StatFields
<1>8. QED
  BY <1>4, <1>5, <1>6, <1>7

\* A record with its first packet.
Opened(s, p) ==
    LET lengths == AddSample(NewSamples, p.payload_bytes) IN
    /\ HasStats(s)
    /\ s.fwd_pkt_stats = lengths /\ s.bwd_pkt_stats = NewSamples
    /\ s.flow_length_stats = IF compat_mode
                             THEN AddSample(lengths, p.payload_bytes) ELSE lengths
    /\ s.flow_iat = NewSamples /\ s.forward_iat = NewSamples
    /\ s.backward_iat = NewSamples
    /\ s.fwd_packet_count = 1 /\ s.bwd_packet_count = 0
    /\ s.flow_start_time = p.timestamp /\ s.flow_last_seen = p.timestamp
    /\ s.forward_last_seen = p.timestamp /\ s.backward_last_seen = 0
    /\ s.min_seg_size_forward = p.header_bytes
    /\ s.flag = Tick([x \in Flags |-> 0], p.flags)
    /\ s.subflow = Subflows!TrackFirst(
                     Subflows!UpdateSubflow(Subflows!NewTracker, p.timestamp),
                     p.timestamp)

LEMMA BeginStats ==
    ASSUME NEW p, NEW s, s = Begin(p)
    PROVE  Opened(s, p)
<1> PICK r, c : r = NewRecord(p) /\ c = Common(r, p)
  OBVIOUS
<1>1. HasStats(r)
  BY DEF HasStats, StatFields, NewRecord
<1>2. /\ SameStats(r, c)
      /\ c.flag = Tick(r.flag, p.flags)
      /\ c.subflow = Subflows!UpdateSubflow(r.subflow, p.timestamp)
  BY <1>1, CommonStats
<1>3. /\ r.flow_length_stats = NewSamples /\ r.fwd_pkt_stats = NewSamples
      /\ r.bwd_pkt_stats = NewSamples /\ r.flow_iat = NewSamples
      /\ r.forward_iat = NewSamples /\ r.backward_iat = NewSamples
      /\ r.fwd_packet_count = 0 /\ r.bwd_packet_count = 0
      /\ r.backward_last_seen = 0
      /\ r.flag = [x \in Flags |-> 0] /\ r.subflow = Subflows!NewTracker
  BY DEF NewRecord
<1>4. /\ c.flow_length_stats = NewSamples /\ c.fwd_pkt_stats = NewSamples
      /\ c.bwd_pkt_stats = NewSamples /\ c.flow_iat = NewSamples
      /\ c.forward_iat = NewSamples /\ c.backward_iat = NewSamples
      /\ c.fwd_packet_count = 0 /\ c.bwd_packet_count = 0
      /\ c.backward_last_seen = 0
  BY <1>2, <1>3 DEF SameStats, StatFields
<1>5. HasStats(s) /\ s = FirstPacket(r, p)
  BY <1>2 DEF Begin, FirstPacket, SameStats, HasStats, StatFields
<1>6. /\ s.fwd_pkt_stats = AddSample(c.fwd_pkt_stats, p.payload_bytes)
      /\ s.bwd_pkt_stats = c.bwd_pkt_stats /\ s.flow_iat = c.flow_iat
      /\ s.forward_iat = c.forward_iat /\ s.backward_iat = c.backward_iat
      /\ s.fwd_packet_count = c.fwd_packet_count + 1
      /\ s.bwd_packet_count = c.bwd_packet_count
      /\ s.flow_start_time = p.timestamp /\ s.flow_last_seen = p.timestamp
      /\ s.forward_last_seen = p.timestamp
      /\ s.backward_last_seen = c.backward_last_seen
      /\ s.min_seg_size_forward = p.header_bytes
      /\ s.flag = c.flag /\ s.subflow = Subflows!TrackFirst(c.subflow, p.timestamp)
  <2>1. StatFields \subseteq DOMAIN c
    BY <1>2 DEF SameStats, HasStats
  <2>2. /\ s.fwd_pkt_stats = AddSample(c.fwd_pkt_stats, p.payload_bytes)
        /\ s.bwd_pkt_stats = c.bwd_pkt_stats /\ s.flow_iat = c.flow_iat
        /\ s.forward_iat = c.forward_iat /\ s.backward_iat = c.backward_iat
    BY <1>2, <1>5, <2>1 DEF FirstPacket, StatFields
  <2>3. /\ s.fwd_packet_count = c.fwd_packet_count + 1
        /\ s.bwd_packet_count = c.bwd_packet_count
        /\ s.flow_start_time = p.timestamp /\ s.flow_last_seen = p.timestamp
        /\ s.forward_last_seen = p.timestamp
        /\ s.backward_last_seen = c.backward_last_seen
    BY <1>2, <1>5, <2>1 DEF FirstPacket, StatFields
  <2>4. /\ s.min_seg_size_forward = p.header_bytes
        /\ s.flag = c.flag /\ s.subflow = Subflows!TrackFirst(c.subflow, p.timestamp)
    BY <1>2, <1>5, <2>1 DEF FirstPacket, StatFields
  <2>5. QED
    BY <2>2, <2>3, <2>4
<1>7. s.flow_length_stats =
        IF compat_mode
        THEN AddSample(AddSample(r.flow_length_stats, p.payload_bytes), p.payload_bytes)
        ELSE AddSample(r.flow_length_stats, p.payload_bytes)
  BY <1>2, <1>5 DEF FirstPacket, SameStats, HasStats, StatFields
<1>8. QED
  BY <1>2, <1>3, <1>4, <1>5, <1>6, <1>7 DEF Opened


-----------------------------------------------------------------------------
(* The lists of values grow with the log.                                  *)

LengthsOf(l, S) == [i \in S |-> l[i].payload_bytes]
Later(S) == {i \in S : Before(S, i) # {}}
GapsOf(l, S) == [i \in Later(S) |-> l[i].timestamp - l[Max(Before(S, i))].timestamp]

\* Positions in a log.
Within(l, S) == S \in SUBSET (1 .. Len(l))

\* A log m that is l and a packet, at n.
Longer(l, m, n, p) ==
    /\ l \in Seq(Packet) /\ m \in Seq(Packet)
    /\ n = Len(l) + 1 /\ Len(m) = n /\ n \in Nat
    /\ m[n] = p /\ p \in Packet
    /\ \A i \in 1 .. Len(l) : m[i] = l[i]

LEMMA LogGrows ==
    ASSUME NEW l \in Seq(Packet), NEW p \in Packet, NEW m, m = Append(l, p)
    PROVE  Longer(l, m, Len(l) + 1, p)
BY DEF Longer

LEMMA Positions ==
    ASSUME NEW l \in Seq(Packet), NEW S \in SUBSET (1 .. Len(l))
    PROVE  /\ IsFiniteSet(S) /\ Cardinality(S) \in Nat /\ Cardinality(S) <= Len(l)
           /\ Cardinality(S) = 0 <=> S = {}
           /\ Len(l) \in Nat /\ Len(l) + 1 \notin S
           /\ \A i \in S : /\ i \in Nat /\ l[i].payload_bytes \in Int
                           /\ l[i].timestamp \in Int /\ l[i] \in Packet
<1>1. Len(l) \in Nat
  OBVIOUS
<1>2. IsFiniteSet(1 .. Len(l)) /\ Cardinality(1 .. Len(l)) = Len(l)
  BY <1>1, FS_Interval, SMTT(30)
<1>3. /\ IsFiniteSet(S) /\ Cardinality(S) \in Nat /\ Cardinality(S) <= Len(l)
      /\ Cardinality(S) = 0 <=> S = {}
  <2>1. IsFiniteSet(S) /\ Cardinality(S) <= Cardinality(1 .. Len(l))
    BY <1>2, FS_Subset, Zenon
  <2>2. Cardinality(S) \in Nat /\ (Cardinality(S) = 0 <=> S = {})
    BY <2>1, FS_CardinalityType, FS_EmptySet
  <2>3. QED
    BY <1>2, <2>1, <2>2
<1>4. \A i \in S : i \in Nat /\ i <= Len(l) /\ l[i] \in Packet
  BY <1>1
<1>5. \A i \in S : l[i].payload_bytes \in Int /\ l[i].timestamp \in Int
  <2> TAKE i \in S
  <2>1. l[i] \in Packet
    BY <1>4
  <2>2. QED
    BY <2>1, PacketTypes
<1>6. Len(l) + 1 \notin S
  BY <1>1, <1>4
<1>7. QED
  BY <1>1, <1>3, <1>4, <1>5, <1>6

LEMMA LengthsGrow ==
    ASSUME NEW l, NEW m, NEW n, NEW p, Longer(l, m, n, p),
           NEW S, Within(l, S)
    PROVE  /\ Values(LengthsOf(l, S)) /\ DOMAIN LengthsOf(l, S) = S
           /\ LengthsOf(m, S) = LengthsOf(l, S)
           /\ Extends(LengthsOf(m, S \cup {n}), LengthsOf(l, S), n)
           /\ LengthsOf(m, S \cup {n})[n] = p.payload_bytes
<1>1. /\ IsFiniteSet(S) /\ \A i \in S : l[i].payload_bytes \in Int /\ m[i] = l[i]
      /\ n \notin S
  BY Positions DEF Longer, Within
<1>2. m[n].payload_bytes = p.payload_bytes /\ p.payload_bytes \in Int
  BY PacketTypes DEF Longer
<1>3. Values(LengthsOf(l, S)) /\ DOMAIN LengthsOf(l, S) = S
  BY <1>1 DEF Values, LengthsOf
<1>4. LengthsOf(m, S) = LengthsOf(l, S)
  BY <1>1 DEF LengthsOf
<1>5. LengthsOf(m, S \cup {n}) \in [S \cup {n} -> Int]
  BY <1>1, <1>2 DEF LengthsOf
<1>6. \A i \in S : LengthsOf(m, S \cup {n})[i] = LengthsOf(l, S)[i]
  BY <1>1 DEF LengthsOf
<1>7. LengthsOf(m, S \cup {n})[n] = p.payload_bytes
  BY <1>2 DEF LengthsOf
<1>8. QED
  BY <1>1, <1>3, <1>4, <1>5, <1>6, <1>7 DEF Extends

\* All but the first of some positions have one before, and a gap.
\* The gaps of the positions S and n in m, from those of S in l.
NextGap(l, m, n, p, S) ==
    /\ Values(GapsOf(l, S)) /\ DOMAIN GapsOf(l, S) \in SUBSET (1 .. Len(l))
    /\ GapsOf(m, S) = GapsOf(l, S)
    /\ S = {} => GapsOf(m, S \cup {n}) = GapsOf(l, S)
    /\ S # {} => /\ Extends(GapsOf(m, S \cup {n}), GapsOf(l, S), n)
                 /\ GapsOf(m, S \cup {n})[n] = p.timestamp - l[Max(S)].timestamp

LEMMA GapsGrow ==
    ASSUME NEW l, NEW m, NEW n, NEW p, Longer(l, m, n, p), NEW S, Within(l, S)
    PROVE  NextGap(l, m, n, p, S)
<1>0. PICK k, T : k = Len(l) /\ T = S \cup {n}
  OBVIOUS
<1>1. k \in Nat /\ n = k + 1 /\ S \in SUBSET (1 .. k) /\ l \in Seq(Packet)
  BY <1>0 DEF Longer, Within
<1>2. /\ Before(T, n) = S /\ \A i \in S : Before(T, i) = Before(S, i)
      /\ Later(T) = IF S = {} THEN {} ELSE Later(S) \cup {n}
      /\ S = {} => Later(S) = {}
      /\ n \notin Later(S) /\ Later(S) \in SUBSET (1 .. k)
  <2>1. \A i \in S : i \in Nat /\ i < n /\ ~(n < i)
    BY <1>1
  <2>2. Before(T, n) = S
    <3>1. n \in Nat /\ ~(n < n)
      BY <1>1
    <3>2. QED
      BY <1>0, <2>1, <3>1 DEF Before
  <2>3. \A i \in S : Before(T, i) = Before(S, i)
    BY <1>0, <2>1 DEF Before
  <2>4. n \notin Later(S) /\ Later(S) \in SUBSET (1 .. k)
    BY <1>1, <2>1 DEF Later
  <2>5. Later(T) = IF S = {} THEN {} ELSE Later(S) \cup {n}
    BY <1>0, <2>2, <2>3 DEF Later
  <2>6. S = {} => Later(S) = {}
    BY DEF Later
  <2>7. QED
    BY <2>2, <2>3, <2>4, <2>5, <2>6
<1>3. ASSUME NEW i \in Later(S)
      PROVE  /\ i \in S /\ Max(Before(S, i)) \in S
             /\ m[i] = l[i] /\ m[Max(Before(S, i))] = l[Max(Before(S, i))]
             /\ l[i].timestamp - l[Max(Before(S, i))].timestamp \in Int
  <2>1. i \in S /\ Before(S, i) # {} /\ Before(S, i) \in SUBSET (1 .. k)
    BY <1>1 DEF Later, Before
  <2>2. Max(Before(S, i)) \in S
    BY <1>1, <2>1, MaxOf DEF Before
  <2>3. \A j \in S : m[j] = l[j] /\ l[j].timestamp \in Int
    BY <1>0, <1>1, Positions DEF Longer
  <2> PICK j : j = Max(Before(S, i))
    OBVIOUS
  <2>4. l[i].timestamp - l[j].timestamp \in Int
    <3>1. l[i].timestamp \in Int /\ l[j].timestamp \in Int
      BY <2>1, <2>2, <2>3
    <3>2. QED
      BY ONLY <3>1
  <2>5. QED
    BY <2>1, <2>2, <2>3, <2>4
<1>4. IsFiniteSet(Later(S))
  BY <1>0, <1>1, <1>2, Positions
<1>5. Values(GapsOf(l, S)) /\ DOMAIN GapsOf(l, S) = Later(S)
  BY <1>3, <1>4 DEF Values, GapsOf
<1>6. GapsOf(m, S) = GapsOf(l, S)
  BY <1>3 DEF GapsOf
<1>7. S = {} => GapsOf(m, T) = GapsOf(l, S)
  BY <1>2 DEF GapsOf
<1>8. ASSUME S # {}
      PROVE  /\ Extends(GapsOf(m, T), GapsOf(l, S), n)
             /\ GapsOf(m, T)[n] = p.timestamp - l[Max(S)].timestamp
  <2>1. Max(S) \in S
    BY <1>1, <1>8, MaxOf
  <2>2. /\ m[n].timestamp - m[Max(S)].timestamp
             = p.timestamp - l[Max(S)].timestamp
        /\ p.timestamp - l[Max(S)].timestamp \in Int
    <3>1. m[n] = p /\ p.timestamp \in Int /\ m[Max(S)] = l[Max(S)]
      BY <1>0, <1>1, <2>1, PacketTypes DEF Longer
    <3>2. l[Max(S)].timestamp \in Int
      BY <1>0, <1>1, <2>1, Positions
    <3>3. QED
      BY <3>1, <3>2
  <2>3. GapsOf(m, T)[n] = p.timestamp - l[Max(S)].timestamp
    BY <1>2, <1>8, <2>2 DEF GapsOf
  <2>4. \A i \in Later(S) : GapsOf(m, T)[i] = GapsOf(l, S)[i]
                            /\ GapsOf(m, T)[i] \in Int
    BY <1>2, <1>3, <1>8 DEF GapsOf
  <2>5. DOMAIN GapsOf(m, T) = Later(S) \cup {n}
    BY <1>2, <1>8 DEF GapsOf
  <2>6. GapsOf(m, T) \in [Later(S) \cup {n} -> Int]
    <3>1. \A i \in Later(S) \cup {n} : GapsOf(m, T)[i] \in Int
      BY <2>2, <2>3, <2>4
    <3>2. GapsOf(m, T) = [i \in DOMAIN GapsOf(m, T) |-> GapsOf(m, T)[i]]
      BY DEF GapsOf
    <3>3. QED
      BY <2>5, <3>1, <3>2
  <2>7. QED
    BY <1>2, <1>5, <2>3, <2>4, <2>6 DEF Extends
<1>9. QED
  BY <1>0, <1>1, <1>2, <1>5, <1>6, <1>7, <1>8 DEF NextGap


\* What is kept of the times of the packets at the positions S.
Timed(count, iat, last, l, S) ==
    /\ count = Cardinality(S) /\ Summarises(iat, GapsOf(l, S))
    /\ S # {} => last = l[Max(S)].timestamp

LEMMA NothingYet ==
    ASSUME NEW v, v \in [{} -> Int]
    PROVE  Summarises(NewSamples, v) /\ Values(v)
<1> PICK s : s = NewSamples
  OBVIOUS
<1>1. /\ s \in Sample /\ s.count = 0 /\ s.sum = 0 /\ s.mean = 0 /\ s.m2 = 0
  BY DEF NewSamples, Samples, NewStats, Sample
<1>2. DOMAIN v = {} /\ Cardinality(DOMAIN v) = 0 /\ SumFunction(v) = 0
  BY FS_EmptySet, SumEmpty
<1>3. SumFunction(Squares(v)) = 0
  <2>1. Squares(v) \in [{} -> Int]
    BY <1>2 DEF Squares
  <2>2. QED
    BY <2>1, SumEmpty
<1>4. Scale \in Nat
  BY ScaleAssumption
<1>5. Scale * 0 = 0 /\ 0 * 0 = 0 /\ 0 - 0 = 0
  BY <1>4
<1>6. Exact(Scale, 0, 0, 0, 0, 0)
  BY <1>5 DEF Exact
<1>7. Moments(s, 0)
  BY <1>1, <1>6 DEF Moments
<1>8. Summarises(s, v)
  BY <1>1, <1>2, <1>3, <1>7 DEF Summarises
<1>9. QED
  BY <1>2, <1>8, FS_EmptySet DEF Values

LEMMA TimedGrows ==
    ASSUME NEW l, NEW m, NEW n, NEW p, Longer(l, m, n, p),
           NEW S, Within(l, S), NEW count, NEW iat, NEW last,
           Timed(count, iat, last, l, S), Len(l) + 1 <= MaxCount,
           NEW next, next = IF count + 1 > 1
                            THEN AddSample(iat, p.timestamp - last) ELSE iat
    PROVE  /\ Timed(count, iat, last, m, S)
           /\ Timed(count + 1, next, p.timestamp, m, S \cup {n})
<1> PICK T, v, w : T = S \cup {n} /\ v = GapsOf(l, S) /\ w = GapsOf(m, T)
  OBVIOUS
<1>1. /\ Values(v) /\ DOMAIN v \in SUBSET (1 .. Len(l))
      /\ GapsOf(m, S) = v
      /\ S = {} => w = v
      /\ S # {} => /\ Extends(w, v, n)
                   /\ w[n] = p.timestamp - l[Max(S)].timestamp
  <2>1. /\ Values(GapsOf(l, S)) /\ DOMAIN GapsOf(l, S) \in SUBSET (1 .. Len(l))
        /\ GapsOf(m, S) = GapsOf(l, S)
        /\ S = {} => GapsOf(m, S \cup {n}) = GapsOf(l, S)
        /\ S # {} => /\ Extends(GapsOf(m, S \cup {n}), GapsOf(l, S), n)
                     /\ GapsOf(m, S \cup {n})[n]
                          = p.timestamp - l[Max(S)].timestamp
    <3>1. NextGap(l, m, n, p, S)
      BY GapsGrow
    <3>2. QED
      BY ONLY <3>1 DEF NextGap
  <2>2. QED
    BY <2>1
<1>2. /\ count = Cardinality(S) /\ Summarises(iat, v)
      /\ S # {} => last = l[Max(S)].timestamp
  BY DEF Timed
<1>3. /\ l \in Seq(Packet) /\ n = Len(l) + 1 /\ Len(l) \in Nat
      /\ \A i \in 1 .. Len(l) : m[i] = l[i]
      /\ m[n] = p
      /\ S \in SUBSET (1 .. Len(l))
  BY DEF Longer, Within
<1>4. /\ IsFiniteSet(S) /\ Cardinality(S) \in Nat /\ (Cardinality(S) = 0 <=> S = {})
      /\ n \notin S
  BY <1>3, Positions
<1>5. Timed(count, iat, last, m, S)
  <2>1. S # {} => Max(S) \in S
    BY <1>3, MaxOf
  <2>2. S # {} => l[Max(S)] = m[Max(S)]
    BY <1>3, <2>1
  <2>3. QED
    BY <1>1, <1>2, <2>2 DEF Timed
<1>6. Cardinality(T) = count + 1
  BY <1>2, <1>4, FS_AddElement
<1>7. Max(T) = n
  <2>1. \A i \in S : i \in Nat /\ i <= n
    BY <1>3
  <2>2. n \in Nat /\ n <= n
    BY <1>3
  <2>3. T \in SUBSET Nat /\ n \in T /\ \A i \in T : i <= n
    BY <2>1, <2>2
  <2>4. QED
    BY <2>3, MaxIs
<1>8. Summarises(next, w)
  <2>1. CASE S = {}
    BY <1>1, <1>2, <1>4, <2>1
  <2>2. CASE S # {}
    <3>1. next = AddSample(iat, w[n])
      <4>1. w[n] = p.timestamp - last
        BY <1>1, <1>2, <2>2
      <4>2. count + 1 > 1
        <5>1. count \in Nat /\ count # 0
          BY <1>2, <1>4, <2>2
        <5>2. QED
          BY ONLY <5>1
      <4>3. QED
        BY ONLY <4>1, <4>2, next = IF count + 1 > 1
                            THEN AddSample(iat, p.timestamp - last) ELSE iat
    <3>2. Cardinality(DOMAIN v) <= Len(l) /\ Cardinality(DOMAIN v) \in Nat
      BY <1>1, <1>3, Positions
    <3>3. Cardinality(DOMAIN v) + 1 <= MaxCount
      BY <1>3, <3>2, ScaleAssumption
    <3>4. QED
      BY ONLY <1>1, <1>2, <2>2, <3>1, <3>3, SampleGrows
  <2>3. QED
    BY <2>1, <2>2
<1>9. QED
  BY <1>3, <1>5, <1>6, <1>7, <1>8 DEF Timed

LEMMA MeasuredGrows ==
    ASSUME NEW l, NEW m, NEW n, NEW p, Longer(l, m, n, p),
           NEW S, Within(l, S), NEW s, Summarises(s, LengthsOf(l, S)),
           Len(l) + 1 <= MaxCount
    PROVE  /\ Summarises(s, LengthsOf(m, S))
           /\ Summarises(AddSample(s, p.payload_bytes), LengthsOf(m, S \cup {n}))
<1> PICK v, w : v = LengthsOf(l, S) /\ w = LengthsOf(m, S \cup {n})
  OBVIOUS
<1>1. /\ Values(v) /\ DOMAIN v = S /\ LengthsOf(m, S) = v
      /\ Extends(w, v, n) /\ w[n] = p.payload_bytes
  <2>1. /\ Values(LengthsOf(l, S)) /\ DOMAIN LengthsOf(l, S) = S
        /\ LengthsOf(m, S) = LengthsOf(l, S)
        /\ Extends(LengthsOf(m, S \cup {n}), LengthsOf(l, S), n)
        /\ LengthsOf(m, S \cup {n})[n] = p.payload_bytes
    BY LengthsGrow
  <2>2. QED
    BY <2>1
<1>2. Cardinality(S) <= Len(l) /\ Cardinality(S) \in Nat /\ Len(l) \in Nat
  BY Positions DEF Longer, Within
<1>3. Cardinality(DOMAIN v) + 1 <= MaxCount
  BY <1>1, <1>2, ScaleAssumption
<1>4. Summarises(s, v)
  OBVIOUS
<1>5. Summarises(AddSample(s, w[n]), w)
  BY ONLY <1>1, <1>3, <1>4, SampleGrows
<1>6. QED
  BY <1>1, <1>4, <1>5

\* A set c within A and n that agrees with a set a on A.
AddedTo(A, a, n, c) ==
    /\ n \notin A /\ a \subseteq A /\ c \subseteq A \cup {n}
    /\ \A i \in A : i \in c <=> i \in a

LEMMA OneMore ==
    ASSUME NEW A, NEW a, NEW n, NEW c, AddedTo(A, a, n, c)
    PROVE  c = IF n \in c THEN a \cup {n} ELSE a
<1>1. CASE n \in c
  BY <1>1 DEF AddedTo
<1>2. CASE n \notin c
  BY <1>2 DEF AddedTo
<1>3. QED
  BY <1>1, <1>2

LEMMA DirectionsGrow ==
    ASSUME NEW n, NEW p, Longer(log, log', n, p), is_bidirectional' = is_bidirectional
    PROVE  /\ Within(log, Forward) /\ Within(log, Backward)
           /\ CountsForward(p) => Forward' = Forward \cup {n} /\ Backward' = Backward
           /\ ~CountsForward(p) => Forward' = Forward /\ Backward' = Backward \cup {n}
<1>1. /\ DOMAIN log = 1 .. Len(log) /\ Len(log) \in Nat
      /\ DOMAIN log' = (1 .. Len(log)) \cup {n}
      /\ n \notin 1 .. Len(log) /\ log'[n] = p
      /\ \A i \in 1 .. Len(log) : log'[i] = log[i]
  BY DEF Longer
<1>2. \A i \in 1 .. Len(log) : CountsForward(log[i])' <=> CountsForward(log[i])
  BY <1>1 DEF CountsForward
<1>3. CountsForward(log[n])' <=> CountsForward(p)
  BY <1>1 DEF CountsForward
<1>4. /\ Forward' = {i \in DOMAIN log' : CountsForward(log[i])'}
      /\ Backward' = {i \in DOMAIN log' : ~CountsForward(log[i])'}
  BY DEF Forward, Backward
<1>5. /\ AddedTo(1 .. Len(log), Forward, n, Forward')
      /\ AddedTo(1 .. Len(log), Backward, n, Backward')
  <2>1. Forward \subseteq 1 .. Len(log) /\ Backward \subseteq 1 .. Len(log)
    BY <1>1 DEF Forward, Backward
  <2>2. \A i \in 1 .. Len(log) : /\ (i \in Forward' <=> i \in Forward)
                                 /\ (i \in Backward' <=> i \in Backward)
    BY <1>1, <1>2, <1>4 DEF Forward, Backward
  <2>3. /\ Forward' \subseteq (1 .. Len(log)) \cup {n}
        /\ Backward' \subseteq (1 .. Len(log)) \cup {n}
    BY <1>1, <1>4
  <2>4. n \notin 1 .. Len(log)
    BY <1>1
  <2>5. AddedTo(1 .. Len(log), Forward, n, Forward')
    BY ONLY <2>1, <2>2, <2>3, <2>4, Zenon DEF AddedTo
  <2>6. AddedTo(1 .. Len(log), Backward, n, Backward')
    BY ONLY <2>1, <2>2, <2>3, <2>4, Zenon DEF AddedTo
  <2>7. QED
    BY <2>5, <2>6
<1>6. /\ n \in Forward' <=> CountsForward(p)
      /\ n \in Backward' <=> ~CountsForward(p)
  BY <1>1, <1>3, <1>4
<1>7. /\ Forward' = IF n \in Forward' THEN Forward \cup {n} ELSE Forward
      /\ Backward' = IF n \in Backward' THEN Backward \cup {n} ELSE Backward
  BY ONLY <1>5, OneMore
<1>8. Within(log, Forward) /\ Within(log, Backward)
  BY <1>5 DEF Within, AddedTo
<1>9. QED
  BY <1>6, <1>7, <1>8

LEMMA FlowLengthsType ==
    ASSUME log \in Seq(Packet), log # <<>>, compat_mode
    PROVE  Values(FlowLengths) /\ DOMAIN FlowLengths = 0 .. Len(log)
<1>1. Len(log) \in Nat /\ Len(log) # 0
  OBVIOUS
<1>2. ASSUME NEW i \in 0 .. Len(log)
      PROVE  log[IF i = 0 THEN 1 ELSE i].payload_bytes \in Int
  <2> PICK j : j = IF i = 0 THEN 1 ELSE i
    OBVIOUS
  <2>1. log[j] \in Packet
    BY <1>1
  <2>2. log[j].payload_bytes \in Int
    BY <2>1, PacketTypes
  <2>3. QED
    BY <2>2
<1>3. IsFiniteSet(0 .. Len(log))
  BY <1>1, FS_Interval
<1>4. QED
  BY <1>2, <1>3 DEF FlowLengths, Values

LEMMA FlowLengthsGrow ==
    ASSUME NEW n, NEW p, Longer(log, log', n, p), compat_mode' = compat_mode,
           log # <<>>
    PROVE  /\ Values(FlowLengths) /\ Extends(FlowLengths', FlowLengths, n)
           /\ FlowLengths'[n] = p.payload_bytes
           /\ Cardinality(DOMAIN FlowLengths) <= Len(log) + 1
<1>1. /\ DOMAIN log = 1 .. Len(log) /\ Len(log) \in Nat /\ Len(log) # 0
      /\ DOMAIN log' = (1 .. Len(log)) \cup {n} /\ Len(log') = n
      /\ n = Len(log) + 1 /\ log'[n] = p
      /\ log \in Seq(Packet) /\ p.payload_bytes \in Int
      /\ \A i \in 1 .. Len(log) : log'[i] = log[i]
  BY PacketTypes DEF Longer
<1>2. CASE compat_mode
  <2> DEFINE At(i) == IF i = 0 THEN 1 ELSE i
  <2>1. /\ FlowLengths = [i \in 0 .. Len(log) |-> log[At(i)].payload_bytes]
        /\ FlowLengths' = [i \in 0 .. n |-> log'[At(i)].payload_bytes]
    BY <1>1, <1>2 DEF FlowLengths
  <2>2. 0 .. n = (0 .. Len(log)) \cup {n} /\ n \notin 0 .. Len(log) /\ n # 0
    BY <1>1
  <2>3. ASSUME NEW i \in 0 .. Len(log)
        PROVE  log[At(i)].payload_bytes \in Int /\ log'[At(i)] = log[At(i)]
    <3>1. At(i) \in 1 .. Len(log)
      BY <1>1
    <3> HIDE DEF At
    <3>2. log[At(i)] \in Packet
      BY <1>1, <3>1
    <3>3. QED
      BY <1>1, <3>1, <3>2, PacketTypes
  <2>4. At(n) = n
    BY <2>2
  <2> HIDE DEF At
  <2>5. FlowLengths \in [0 .. Len(log) -> Int] /\ DOMAIN FlowLengths = 0 .. Len(log)
    BY <2>1, <2>3
  <2>6. FlowLengths'[n] = p.payload_bytes
    BY <1>1, <2>1, <2>2, <2>4
  <2>7. FlowLengths' \in [0 .. n -> Int]
    <3>1. \A i \in 0 .. n : log'[At(i)].payload_bytes \in Int
      BY <1>1, <2>2, <2>3, <2>4
    <3>2. QED
      BY <2>1, <3>1
  <2>8. \A i \in 0 .. Len(log) : FlowLengths'[i] = FlowLengths[i]
    BY <2>1, <2>2, <2>3
  <2>9. IsFiniteSet(0 .. Len(log)) /\ Cardinality(0 .. Len(log)) = Len(log) + 1
    <3>1. 0 \in Int /\ Len(log) \in Int /\ ~(0 > Len(log))
          /\ Len(log) - 0 + 1 = Len(log) + 1
      BY <1>1
    <3>2. QED
      BY <3>1, FS_Interval
  <2>10. QED
    BY <1>1, <2>2, <2>5, <2>6, <2>7, <2>8, <2>9 DEF Values, Extends
<1>3. CASE ~compat_mode
  <2>1. /\ FlowLengths = LengthsOf(log, 1 .. Len(log))
        /\ FlowLengths' = LengthsOf(log', (1 .. Len(log)) \cup {n})
    BY <1>1, <1>3 DEF FlowLengths, Lengths, LengthsOf
  <2>2. Within(log, 1 .. Len(log))
    BY DEF Within
  <2>3. QED
    <3>1. PICK k, S : k = Len(log) /\ S = 1 .. k
      OBVIOUS
    <3>2. /\ Values(LengthsOf(log, S)) /\ DOMAIN LengthsOf(log, S) = S
          /\ Extends(LengthsOf(log', S \cup {n}), LengthsOf(log, S), n)
          /\ LengthsOf(log', S \cup {n})[n] = p.payload_bytes
      BY <2>2, <3>1, LengthsGrow, SMTT(30)
    <3>3. FlowLengths = LengthsOf(log, S) /\ FlowLengths' = LengthsOf(log', S \cup {n})
      BY <2>1, <3>1
    <3>4. Cardinality(DOMAIN FlowLengths) <= Len(log) + 1
      <4>1. IsFiniteSet(S) /\ Cardinality(S) = Len(log)
        BY <1>1, <3>1, FS_Interval
      <4>2. QED
        BY <1>1, <3>2, <3>3, <4>1
    <3>5. QED
      BY <3>2, <3>3, <3>4
<1>4. QED
  BY <1>2, <1>3


-----------------------------------------------------------------------------
(* The invariant of the statistics.                                        *)

StatInv ==
    /\ log \in Seq(Packet) /\ log # <<>> /\ Len(log) <= MaxPackets
    /\ HasStats(flow)
    /\ Summarises(flow.fwd_pkt_stats, LengthsOf(log, Forward))
    /\ Summarises(flow.bwd_pkt_stats, LengthsOf(log, Backward))
    /\ Summarises(flow.flow_length_stats, FlowLengths)
    /\ Timed(flow.fwd_packet_count, flow.forward_iat, flow.forward_last_seen,
             log, Forward)
    /\ Timed(flow.bwd_packet_count, flow.backward_iat, flow.backward_last_seen,
             log, Backward)
    /\ Timed(Len(log), flow.flow_iat, flow.flow_last_seen, log, DOMAIN log)

LEMMA StatInvBegins == Begun => StatInv
<1> SUFFICES ASSUME NEW ts \in StartTimes, NEW shape \in Shapes,
                    NEW p, p = PacketAt(shape, TRUE, ts),
                    log = <<p>>, flow = Begin(p)
             PROVE  StatInv
  BY DEF Begun
<1>0. PICK l, S, n, s : /\ l = <<>> /\ S = {} /\ n = 1
                        /\ s = AddSample(NewSamples, p.payload_bytes)
  OBVIOUS
<1>1. p \in Packet /\ p.forward = TRUE /\ p.payload_bytes \in Int
  <2>1. TRUE \in BOOLEAN /\ ts \in Int
    BY RecordAssumption
  <2>2. p \in Packet /\ p.forward = TRUE /\ p.payload_bytes \in Nat
    BY <2>1, PacketFields, ZenonT(30)
  <2>3. \A i \in Nat : i \in Int
    OBVIOUS
  <2>4. QED
    BY ONLY <2>2, <2>3
<1>2. Longer(l, log, n, p) /\ Within(l, S) /\ Len(l) = 0 /\ l \in Seq(Packet)
  <2>1. log = Append(l, p) /\ l \in Seq(Packet) /\ Len(l) + 1 = n /\ Len(l) = 0
    BY <1>0
  <2>2. Longer(l, log, n, p)
    BY <1>1, <2>1, LogGrows
  <2>3. QED
    BY <1>0, <2>1, <2>2 DEF Within
<1>3. /\ log \in Seq(Packet) /\ log # <<>> /\ Len(log) = 1 /\ DOMAIN log = {1}
      /\ log[1] = p
  <2>1. <<p>> \in Seq(Packet)
    BY ONLY <1>1
  <2>2. <<p>> # <<>> /\ Len(<<p>>) = 1 /\ DOMAIN <<p>> = {1} /\ <<p>>[1] = p
    OBVIOUS
  <2>3. QED
    BY ONLY <2>1, <2>2, log = <<p>>
<1>4. Forward = {1} /\ Backward = {}
  BY <1>1, <1>3 DEF Forward, Backward, CountsForward
<1>5. Opened(flow, p)
  BY BeginStats
<1>6. MaxCount \in Nat /\ MaxCount >= 2 /\ Len(l) + 1 <= MaxCount /\ 1 <= MaxPackets
  BY <1>2, RecordAssumption, ScaleAssumption
<1>7. LengthsOf(l, S) \in [{} -> Int] /\ GapsOf(l, S) \in [{} -> Int]
  BY <1>0 DEF LengthsOf, GapsOf, Later
<1>8. Summarises(NewSamples, LengthsOf(l, S)) /\ Summarises(NewSamples, GapsOf(l, S))
  BY <1>7, NothingYet
<1>9. S \cup {n} = {1}
  BY <1>0
<1>10. Summarises(NewSamples, LengthsOf(log, {})) /\ Summarises(s, LengthsOf(log, {1}))
  <2>1. /\ Summarises(NewSamples, LengthsOf(log, S))
        /\ Summarises(AddSample(NewSamples, p.payload_bytes), LengthsOf(log, S \cup {n}))
    BY ONLY <1>2, <1>6, <1>8, MeasuredGrows
  <2>2. QED
    BY ONLY <1>0, <1>9, <2>1
<1>11. Summarises(flow.flow_length_stats, FlowLengths)
  <2>1. CASE ~compat_mode
    <3>1. FlowLengths = LengthsOf(log, {1})
      BY <1>3, <2>1 DEF FlowLengths, Lengths, LengthsOf
    <3>2. QED
      BY <1>0, <1>5, <1>10, <2>1, <3>1 DEF Opened
  <2>2. CASE compat_mode
    <3> PICK v, w : v = LengthsOf(log, {1}) /\ w = FlowLengths
      OBVIOUS
    <3>1. v \in [{1} -> Int] /\ v[1] = p.payload_bytes /\ DOMAIN v = {1}
      BY <1>1, <1>3 DEF LengthsOf
    <3>2. w \in [{1} \cup {0} -> Int] /\ w[0] = p.payload_bytes /\ w[1] = v[1]
      <4>1. 0 .. 1 = {1} \cup {0}
        OBVIOUS
      <4>2. w = [i \in {1} \cup {0} |-> p.payload_bytes]
        BY <1>3, <2>2, <4>1 DEF FlowLengths
      <4>3. QED
        BY <1>1, <3>1, <4>2
    <3>3. Values(v) /\ Cardinality(DOMAIN v) = 1
      BY <3>1, FS_Singleton DEF Values
    <3>4. Extends(w, v, 0)
      <4>1. 0 \notin {1} /\ \A i \in {1} : w[i] = v[i]
        BY <3>2
      <4>2. QED
        BY ONLY <3>1, <3>2, <4>1 DEF Extends
    <3>5. Cardinality(DOMAIN v) + 1 <= MaxCount /\ Summarises(s, v)
      <4>1. 1 + 1 <= MaxCount
        BY ONLY <1>6
      <4>2. QED
        BY <1>10, <3>3, <4>1
    <3>6. Summarises(AddSample(s, w[0]), w)
      BY ONLY <3>3, <3>4, <3>5, SampleGrows
    <3>7. flow.flow_length_stats = AddSample(s, w[0])
      BY <1>0, <1>5, <2>2, <3>2 DEF Opened
    <3>8. QED
      BY <3>6, <3>7
  <2>3. QED
    BY <2>1, <2>2
<1>12. ASSUME NEW last
       PROVE  /\ Timed(0, NewSamples, last, log, {})
              /\ Timed(1, NewSamples, p.timestamp, log, {1})
  <2>1. Timed(0, NewSamples, last, l, S)
    BY <1>0, <1>8, FS_EmptySet DEF Timed
  <2>2. 0 + 1 = 1 /\ ~(0 + 1 > 1)
    OBVIOUS
  <2>3. NewSamples = IF 0 + 1 > 1
                     THEN AddSample(NewSamples, p.timestamp - last) ELSE NewSamples
    BY <2>2, Zenon
  <2>4. /\ Timed(0, NewSamples, last, log, S)
        /\ Timed(0 + 1, NewSamples, p.timestamp, log, S \cup {n})
    BY ONLY <1>2, <1>6, <2>1, <2>3, TimedGrows
  <2>5. QED
    BY ONLY <1>0, <1>9, <2>2, <2>4
<1>13. /\ Timed(flow.fwd_packet_count, flow.forward_iat, flow.forward_last_seen,
                log, Forward)
       /\ Timed(flow.bwd_packet_count, flow.backward_iat, flow.backward_last_seen,
                log, Backward)
       /\ Timed(Len(log), flow.flow_iat, flow.flow_last_seen, log, DOMAIN log)
  BY <1>3, <1>4, <1>5, <1>12 DEF Opened
<1>14. /\ Summarises(flow.fwd_pkt_stats, LengthsOf(log, Forward))
       /\ Summarises(flow.bwd_pkt_stats, LengthsOf(log, Backward))
       /\ HasStats(flow)
  BY <1>0, <1>4, <1>5, <1>10 DEF Opened
<1>15. QED
  BY ONLY <1>3, <1>6, <1>11, <1>13, <1>14 DEF StatInv

LEMMA StatInvGrows ==
    ASSUME StatInv, NEW p \in Packet, log' = Append(log, p), flow' = AddPacket(flow, p),
           Len(log) < MaxPackets, is_bidirectional' = is_bidirectional,
           compat_mode' = compat_mode
    PROVE  StatInv'
<1> PICK n, r, s : n = Len(log) + 1 /\ r = flow /\ s = flow'
  OBVIOUS
<1>1. /\ log \in Seq(Packet) /\ log # <<>> /\ Len(log) \in Nat /\ n \in Nat
      /\ Longer(log, log', n, p) /\ HasStats(r)
      /\ DOMAIN log = 1 .. Len(log) /\ DOMAIN log' = (1 .. Len(log)) \cup {n}
      /\ Len(log') = n /\ log' \in Seq(Packet) /\ log' # <<>>
  <2>1. log \in Seq(Packet) /\ log # <<>> /\ HasStats(r)
    BY DEF StatInv
  <2>2. Longer(log, log', n, p)
    BY ONLY <2>1, LogGrows, p \in Packet, log' = Append(log, p), n = Len(log) + 1
  <2>3. log' # <<>> /\ DOMAIN log = 1 .. Len(log) /\ DOMAIN log' = 1 .. n
    BY <2>1, <2>2 DEF Longer
  <2>4. Len(log) \in Nat /\ n = Len(log) + 1
    BY <2>1
  <2>5. 1 .. n = (1 .. Len(log)) \cup {n}
    BY ONLY <2>4
  <2>6. QED
    BY <2>1, <2>2, <2>3, <2>4, <2>5 DEF Longer
<1>2. Len(log) + 1 <= MaxCount /\ Len(log) + 1 + 1 <= MaxCount /\ n <= MaxPackets
  BY <1>1, RecordAssumption, ScaleAssumption
<1>3. /\ HasStats(s) /\ AddsToFlow(r, s, p)
      /\ CountsForward(p) => AddsForward(r, s, p)
      /\ ~CountsForward(p) => AddsBackward(r, s, p)
  BY <1>1, AddPacketStats
<1>4. /\ Within(log, Forward) /\ Within(log, Backward)
      /\ CountsForward(p) => Forward' = Forward \cup {n} /\ Backward' = Backward
      /\ ~CountsForward(p) => Forward' = Forward /\ Backward' = Backward \cup {n}
  BY <1>1, DirectionsGrow
<1>5. Summarises(s.flow_length_stats, FlowLengths')
  <2> PICK v, w, a : v = FlowLengths /\ w = FlowLengths' /\ a = r.flow_length_stats
    OBVIOUS
  <2>1. /\ Values(v) /\ Extends(w, v, n) /\ w[n] = p.payload_bytes
        /\ Cardinality(DOMAIN v) <= Len(log) + 1
    BY <1>1, FlowLengthsGrow
  <2>2. Cardinality(DOMAIN v) \in Nat
    BY <2>1, FS_CardinalityType DEF Values
  <2>3. Cardinality(DOMAIN v) + 1 <= MaxCount /\ Summarises(a, v)
    BY <1>1, <1>2, <2>1, <2>2, ScaleAssumption DEF StatInv
  <2>4. Summarises(AddSample(a, w[n]), w)
    BY ONLY <2>1, <2>3, SampleGrows
  <2>5. QED
    BY <1>3, <2>1, <2>4 DEF AddsToFlow
<1>6. Timed(Len(log), r.flow_iat, r.flow_last_seen, log, 1 .. Len(log))
  BY <1>1 DEF StatInv
<1>7. Timed(n, s.flow_iat, s.flow_last_seen, log', DOMAIN log')
  <2>1. Len(log) + 1 > 1
    BY <1>1
  <2>2. s.flow_iat = IF Len(log) + 1 > 1
                     THEN AddSample(r.flow_iat, p.timestamp - r.flow_last_seen)
                     ELSE r.flow_iat
    BY <1>3, <2>1 DEF AddsToFlow
  <2>3. Within(log, 1 .. Len(log))
    BY DEF Within
  <2>4. Timed(Len(log) + 1, s.flow_iat, p.timestamp, log', (1 .. Len(log)) \cup {n})
    BY ONLY <1>1, <1>2, <1>6, <2>2, <2>3, TimedGrows
  <2>5. QED
    BY <1>1, <1>3, <2>4 DEF AddsToFlow
<1>8. /\ Summarises(r.fwd_pkt_stats, LengthsOf(log, Forward))
      /\ Summarises(r.bwd_pkt_stats, LengthsOf(log, Backward))
      /\ Timed(r.fwd_packet_count, r.forward_iat, r.forward_last_seen, log, Forward)
      /\ Timed(r.bwd_packet_count, r.backward_iat, r.backward_last_seen, log, Backward)
  BY DEF StatInv
<1>9. /\ Summarises(r.fwd_pkt_stats, LengthsOf(log', Forward))
      /\ Summarises(AddSample(r.fwd_pkt_stats, p.payload_bytes),
                    LengthsOf(log', Forward \cup {n}))
      /\ Summarises(r.bwd_pkt_stats, LengthsOf(log', Backward))
      /\ Summarises(AddSample(r.bwd_pkt_stats, p.payload_bytes),
                    LengthsOf(log', Backward \cup {n}))
  BY ONLY <1>1, <1>2, <1>4, <1>8, MeasuredGrows
<1>10. /\ Timed(r.fwd_packet_count, r.forward_iat, r.forward_last_seen, log', Forward)
       /\ CountsForward(p) =>
            Timed(r.fwd_packet_count + 1, s.forward_iat, p.timestamp,
                  log', Forward \cup {n})
  <2> PICK k, iat, last : /\ k = r.fwd_packet_count /\ iat = r.forward_iat
                          /\ last = r.forward_last_seen
    OBVIOUS
  <2>0. PICK next : next = IF k + 1 > 1 THEN AddSample(iat, p.timestamp - last)
                                        ELSE iat
    OBVIOUS
  <2>1. Timed(k, iat, last, log, Forward)
    BY <1>8
  <2>2. /\ Timed(k, iat, last, log', Forward)
        /\ Timed(k + 1, next, p.timestamp, log', Forward \cup {n})
    <3>1. PICK S, l, m : S = Forward /\ l = log /\ m = log'
      OBVIOUS
    <3>2. /\ Longer(l, m, n, p) /\ Within(l, S) /\ Timed(k, iat, last, l, S)
          /\ Len(l) + 1 <= MaxCount
      BY <1>1, <1>2, <1>4, <2>1, <3>1
    <3>3. Timed(k, iat, last, m, S) /\ Timed(k + 1, next, p.timestamp, m, S \cup {n})
      BY ONLY <2>0, <3>2, TimedGrows
    <3>4. QED
      BY <3>1, <3>3
  <2>3. CountsForward(p) => s.forward_iat = next
    BY <1>3, <2>0 DEF AddsForward
  <2>4. QED
    BY <2>2, <2>3
<1>11. /\ Timed(r.bwd_packet_count, r.backward_iat, r.backward_last_seen, log', Backward)
       /\ ~CountsForward(p) =>
            Timed(r.bwd_packet_count + 1, s.backward_iat, p.timestamp,
                  log', Backward \cup {n})
  <2> PICK k, iat, last : /\ k = r.bwd_packet_count /\ iat = r.backward_iat
                          /\ last = r.backward_last_seen
    OBVIOUS
  <2>0. PICK next : next = IF k + 1 > 1 THEN AddSample(iat, p.timestamp - last)
                                        ELSE iat
    OBVIOUS
  <2>1. Timed(k, iat, last, log, Backward)
    BY <1>8
  <2>2. /\ Timed(k, iat, last, log', Backward)
        /\ Timed(k + 1, next, p.timestamp, log', Backward \cup {n})
    <3>1. PICK S, l, m : S = Backward /\ l = log /\ m = log'
      OBVIOUS
    <3>2. /\ Longer(l, m, n, p) /\ Within(l, S) /\ Timed(k, iat, last, l, S)
          /\ Len(l) + 1 <= MaxCount
      BY <1>1, <1>2, <1>4, <2>1, <3>1
    <3>3. Timed(k, iat, last, m, S) /\ Timed(k + 1, next, p.timestamp, m, S \cup {n})
      BY ONLY <2>0, <3>2, TimedGrows
    <3>4. QED
      BY <3>1, <3>3
  <2>3. ~CountsForward(p) => s.backward_iat = next
    BY <1>3, <2>0 DEF AddsBackward
  <2>4. QED
    BY <2>2, <2>3
<1>12. /\ Summarises(s.fwd_pkt_stats, LengthsOf(log', Forward'))
       /\ Summarises(s.bwd_pkt_stats, LengthsOf(log', Backward'))
       /\ Timed(s.fwd_packet_count, s.forward_iat, s.forward_last_seen, log', Forward')
       /\ Timed(s.bwd_packet_count, s.backward_iat, s.backward_last_seen,
                log', Backward')
  <2>1. CASE CountsForward(p)
    BY <1>3, <1>4, <1>9, <1>10, <1>11, <2>1 DEF AddsForward
  <2>2. CASE ~CountsForward(p)
    BY <1>3, <1>4, <1>9, <1>10, <1>11, <2>2 DEF AddsBackward
  <2>3. QED
    BY <2>1, <2>2
<1>13. QED
  BY <1>1, <1>2, <1>3, <1>5, <1>7, <1>12 DEF StatInv


\* A step is a packet of the flow, the first of another, or nothing.
LEMMA RecordSteps ==
    ASSUME log \in Seq(Packet), log # <<>>, [Next]_vars
    PROVE  \/ \E p \in Packet : /\ log' = Append(log, p)
                                /\ flow' = AddPacket(flow, p)
                                /\ Len(log) < MaxPackets
                                /\ UNCHANGED <<is_bidirectional, compat_mode>>
           \/ Begun' /\ UNCHANGED <<is_bidirectional, compat_mode>>
           \/ UNCHANGED vars
<1>1. CASE NextPacket
  <2>1. PICK d \in Steps, forward \in BOOLEAN, shape \in Shapes :
          LET p == PacketAt(shape, forward, log[Len(log)].timestamp + d)
          IN  flow' = AddPacket(flow, p) /\ log' = Append(log, p)
    BY <1>1 DEF NextPacket
  <2>2. PICK ts, p : /\ ts = log[Len(log)].timestamp + d
                     /\ p = PacketAt(shape, forward, ts)
    OBVIOUS
  <2>3. ts \in Int
    BY <2>2, LastTime, RecordAssumption
  <2>4. p \in Packet
    BY <2>2, <2>3, PacketFields
  <2>5. flow' = AddPacket(flow, p) /\ log' = Append(log, p)
    BY <2>1, <2>2
  <2>6. QED
    BY <1>1, <2>4, <2>5 DEF NextPacket
<1>2. CASE NextFlow
  <2>1. /\ is_bidirectional' = is_bidirectional /\ compat_mode' = compat_mode
        /\ \E ts \in StartTimes, shape \in Shapes :
             LET p == PacketAt(shape, TRUE, ts) IN log' = <<p>> /\ flow' = Begin(p)
    BY <1>2 DEF NextFlow
  <2>2. \A p : Begin(p)' = Begin(p)
    BY <2>1 DEF Begin, FirstPacket
  <2>3. QED
    BY <2>1, <2>2 DEF Begun
<1>3. QED
  BY <1>1, <1>2 DEF Next

LEMMA InitBegun == Init => Begun
BY DEF Init, Begun

LEMMA StatInvStep == StatInv /\ [Next]_vars => StatInv'
<1> SUFFICES ASSUME StatInv, [Next]_vars PROVE StatInv'
  OBVIOUS
<1>1. log \in Seq(Packet) /\ log # <<>>
  BY DEF StatInv
<1>2. ASSUME NEW p \in Packet, log' = Append(log, p), flow' = AddPacket(flow, p),
             Len(log) < MaxPackets, UNCHANGED <<is_bidirectional, compat_mode>>
      PROVE  StatInv'
  BY <1>2, StatInvGrows
<1>3. CASE Begun'
  <2>1. Begun' => StatInv'
    BY StatInvBegins, PTL
  <2>2. QED
    BY <1>3, <2>1
<1>4. CASE UNCHANGED vars
  BY <1>4 DEF vars, StatInv, Forward, Backward, CountsForward, FlowLengths, Lengths
<1>5. QED
  BY <1>1, <1>2, <1>3, <1>4, RecordSteps

\* Summarises says what Describes asks for.
LEMMA SummaryDescribes ==
    ASSUME NEW s, NEW v, Summarises(s, v), Values(v)
    PROVE  Describes(s, v)
<1> PICK n, sum, q : /\ n = Cardinality(DOMAIN v) /\ sum = SumFunction(v)
                     /\ q = SumFunction(Squares(v))
  OBVIOUS
<1>1. /\ s \in Sample /\ s.count = n /\ s.sum = sum
      /\ s.count > 0 => IsLeast(s.min, v) /\ IsMost(s.max, v)
      /\ Exact(Scale, n, sum, q, s.mean, s.m2)
  BY DEF Summarises, Moments
<1>2. \A i \in DOMAIN v : v[i] \in Int
  BY DEF Values
<1>3. Range(v) = {v[i] : i \in DOMAIN v}
  BY DEF Range
<1>4. ASSUME n > 0 PROVE s.min = Min(Range(v)) /\ s.max = Max(Range(v))
  <2>1. IsLeast(s.min, v) /\ IsMost(s.max, v)
    BY <1>1, <1>4
  <2>2. s.min \in Range(v) /\ \A y \in Range(v) : s.min <= y /\ y \in Int
    BY <1>2, <1>3, <2>1 DEF IsLeast
  <2>3. s.max \in Range(v) /\ \A y \in Range(v) : s.max >= y
    BY <1>2, <1>3, <2>1 DEF IsMost
  <2>4. \A m \in Range(v) : (\A y \in Range(v) : m <= y) => m = s.min
    BY <2>2
  <2>5. \A m \in Range(v) : (\A y \in Range(v) : m >= y) => m = s.max
    BY <2>2, <2>3
  <2>6. QED
    BY <2>2, <2>3, <2>4, <2>5 DEF Min, Max
<1>5. QED
  BY <1>1, <1>4 DEF Describes, Exact

\* Each of the six running statistics of a flow is exactly that of the list of
\* lengths or of gaps it stands for, for every sequence of packets and timestamps, in
\* every mode: Welford's single pass over the values loses nothing.
THEOREM StatisticsExact == Spec => []StatisticsMatchPackets
<1>1. StatInv => StatisticsMatchPackets
  <2> SUFFICES ASSUME StatInv PROVE StatisticsMatchPackets
    OBVIOUS
  <2> PICK p, l : l = Append(log, p) /\ p = log[1]
    OBVIOUS
  <2>1. log \in Seq(Packet) /\ log # <<>> /\ p \in Packet
    BY DEF StatInv
  <2>2. Longer(log, l, Len(log) + 1, p)
    BY <2>1, LogGrows
  <2>3. Forward \subseteq DOMAIN log /\ Backward \subseteq DOMAIN log
    BY DEF Forward, Backward
  <2>4. DOMAIN log = 1 .. Len(log)
    BY <2>1
  <2>5. Within(log, Forward) /\ Within(log, Backward) /\ Within(log, DOMAIN log)
    BY <2>3, <2>4 DEF Within
  <2>6. /\ Values(LengthsOf(log, Forward)) /\ Values(LengthsOf(log, Backward))
        /\ Values(LengthsOf(log, DOMAIN log))
    BY <2>2, <2>5, LengthsGrow
  <2>7. /\ Values(GapsOf(log, Forward)) /\ Values(GapsOf(log, Backward))
        /\ Values(GapsOf(log, DOMAIN log))
    <3>1. \A S : Within(log, S) => NextGap(log, l, Len(log) + 1, p, S)
      BY <2>2, GapsGrow
    <3>2. \A S : Within(log, S) => Values(GapsOf(log, S))
      BY ONLY <3>1 DEF NextGap
    <3>3. QED
      BY <2>5, <3>2
  <2>8. Values(FlowLengths)
    <3>1. CASE compat_mode
      BY <2>1, <3>1, FlowLengthsType
    <3>2. CASE ~compat_mode
      BY <2>6, <3>2 DEF FlowLengths, Lengths, LengthsOf
    <3>3. QED
      BY <3>1, <3>2
  <2>9. \A S : Lengths(S) = LengthsOf(log, S) /\ Gaps(S) = GapsOf(log, S)
    BY DEF Lengths, LengthsOf, Gaps, GapsOf, Later
  <2>10. QED
    BY <2>6, <2>7, <2>8, <2>9, SummaryDescribes
       DEF StatInv, Timed, StatisticsMatchPackets
<1>2. Init => StatInv
  BY InitBegun, StatInvBegins
<1>3. QED
  BY <1>1, <1>2, StatInvStep, PTL DEF Spec


-----------------------------------------------------------------------------
(* The invariant of the features.                                          *)

LEMMA PacketHeader ==
    ASSUME NEW p \in Packet
    PROVE  p.header_bytes \in Nat /\ p.header_bytes < NoSegment /\ p.flags \subseteq Flags
<1>1. PICK shape \in Shapes, forward \in BOOLEAN, ts \in Int :
        p = PacketAt(shape, forward, ts)
  BY DEF Packet
<1>2. shape.header_bytes \in Nat /\ shape.header_bytes < NoSegment
      /\ shape.flags \subseteq Flags
  BY RecordAssumption
<1>3. p.header_bytes = shape.header_bytes /\ p.flags = shape.flags
  BY <1>1 DEF PacketAt
<1>4. QED
  BY <1>2, <1>3

\* The gaps between successive packets add up to the time from first to last.
Telescopes(l, S) ==
    S # {} => SumFunction(GapsOf(l, S)) = l[Max(S)].timestamp - l[Min(S)].timestamp

LEMMA TelescopesGrow ==
    ASSUME NEW l, NEW m, NEW n, NEW p, Longer(l, m, n, p), NEW S, Within(l, S),
           Telescopes(l, S)
    PROVE  Telescopes(m, S) /\ Telescopes(m, S \cup {n})
<1> PICK v, w, T : T = S \cup {n} /\ v = GapsOf(l, S) /\ w = GapsOf(m, T)
  OBVIOUS
<1>1. NextGap(l, m, n, p, S)
  BY GapsGrow
<1>2. /\ Values(v) /\ GapsOf(m, S) = v
      /\ S = {} => w = v /\ DOMAIN v = {}
      /\ S # {} => Extends(w, v, n) /\ w[n] = p.timestamp - l[Max(S)].timestamp
  <2>1. S = {} => DOMAIN GapsOf(l, S) = {}
    BY DEF GapsOf, Later
  <2>2. QED
    BY ONLY <1>1, <2>1, T = S \cup {n}, v = GapsOf(l, S), w = GapsOf(m, T) DEF NextGap
<1>3. /\ l \in Seq(Packet) /\ n = Len(l) + 1 /\ Len(l) \in Nat
      /\ \A i \in 1 .. Len(l) : m[i] = l[i]
      /\ m[n] = p /\ p.timestamp \in Int
      /\ S \in SUBSET (1 .. Len(l))
  BY PacketTypes DEF Longer, Within
<1>4. \A i \in S : i \in Nat /\ i < n /\ m[i] = l[i] /\ l[i].timestamp \in Int
  BY <1>3, Positions
<1>5. S # {} => Max(S) \in S /\ Min(S) \in S /\ \A i \in S : Min(S) <= i
  <2>1. S \in SUBSET Nat
    BY <1>3
  <2>2. QED
    BY <1>3, <2>1, MaxOf, MinOf
<1>6. Telescopes(m, S)
  BY <1>2, <1>4, <1>5 DEF Telescopes
<1>7. Max(T) = n /\ m[Max(T)] = p
  <2>1. n \in Nat /\ n <= n
    BY <1>3
  <2>2. T \in SUBSET Nat /\ n \in T /\ \A i \in T : i <= n
    BY <1>4, <2>1
  <2>3. QED
    BY <1>3, <2>2, MaxIs
<1>8. CASE S = {}
  <2>1. T \in SUBSET Nat /\ n \in T /\ \A i \in T : n <= i
    BY <1>3, <1>8
  <2>2. Min(T) = n
    BY <2>1, MinIs
  <2>3. SumFunction(w) = 0
    <3>1. w \in [{} -> Int]
      BY <1>2, <1>8 DEF Values
    <3>2. QED
      BY <3>1, SumEmpty
  <2>4. p.timestamp - p.timestamp = 0
    BY <1>3
  <2>5. QED
    BY <1>3, <1>6, <1>7, <2>2, <2>3, <2>4 DEF Telescopes
<1>9. CASE S # {}
  <2> PICK a, z : a = Min(S) /\ z = Max(S)
    OBVIOUS
  <2>1. /\ a \in S /\ z \in S /\ \A i \in S : a <= i
        /\ a \in Nat /\ a < n
        /\ l[a].timestamp \in Int /\ l[z].timestamp \in Int /\ m[a] = l[a]
    BY <1>4, <1>5, <1>9
  <2>2. Min(T) = a
    <3>1. n \in Nat /\ a <= n
      BY <1>3, <2>1
    <3>2. T \in SUBSET Nat
      BY <1>4, <3>1
    <3>3. a \in T /\ \A i \in T : a <= i
      BY <2>1, <3>1
    <3>4. QED
      BY <3>2, <3>3, MinIs
  <2>3. SumFunction(w) = SumFunction(v) + w[n]
    BY <1>2, <1>9, SumExtends
  <2>4. SumFunction(v) = l[z].timestamp - l[a].timestamp
    BY <1>9 DEF Telescopes
  <2>5. w[n] = p.timestamp - l[z].timestamp
    BY <1>2, <1>9
  <2>6. SumFunction(w) = p.timestamp - l[a].timestamp
    BY ONLY <1>3, <2>1, <2>3, <2>4, <2>5
  <2>7. QED
    BY <1>6, <1>7, <2>1, <2>2, <2>6 DEF Telescopes
<1>10. QED
  BY <1>8, <1>9

Headers(l, S) == {l[i].header_bytes : i \in S}

FeatInv ==
    /\ BulkInv /\ StatInv
    /\ flow.fwd_pkt_stats.sum = flow.forward_bytes
    /\ flow.bwd_pkt_stats.sum = flow.backward_bytes
    /\ flow.flow_start_time = log[1].timestamp /\ 1 \in Forward
    /\ Telescopes(log, Forward) /\ Telescopes(log, Backward)
    /\ Telescopes(log, DOMAIN log)
    /\ flow.flag = [f \in Flags |-> With(f)]
    /\ flow.min_seg_size_forward \in Headers(log, Forward)
    /\ \A h \in Headers(log, Forward) : flow.min_seg_size_forward <= h
    /\ "sf_count" \in DOMAIN flow.subflow /\ flow.subflow.sf_count \in Nat

LEMMA SubflowCounts ==
    ASSUME NEW t, "sf_count" \in DOMAIN t, t.sf_count \in Nat, NEW ts
    PROVE  /\ "sf_count" \in DOMAIN Subflows!UpdateSubflow(t, ts)
           /\ Subflows!UpdateSubflow(t, ts).sf_count \in Nat
           /\ "sf_count" \in DOMAIN Subflows!TrackFirst(t, ts)
           /\ Subflows!TrackFirst(t, ts).sf_count \in Nat
<1> PICK u, k : u = [t EXCEPT !.sf_count = @ + 1] /\ k = t.sf_count + 1
  OBVIOUS
<1>1. k \in Nat /\ "sf_count" \in DOMAIN u /\ u.sf_count = k
  OBVIOUS
<1>2. /\ "sf_count" \in DOMAIN Subflows!TrackFirst(t, ts)
      /\ Subflows!TrackFirst(t, ts).sf_count = t.sf_count
  BY DEF Subflows!TrackFirst
<1>3. /\ "sf_count" \in DOMAIN Subflows!UpdateActiveIdle(u, ts)
      /\ Subflows!UpdateActiveIdle(u, ts).sf_count = k
  BY <1>1 DEF Subflows!UpdateActiveIdle
<1>4. /\ "sf_count" \in DOMAIN Subflows!StartSubflow(t, ts)
      /\ Subflows!StartSubflow(t, ts).sf_count = k
  BY <1>3 DEF Subflows!StartSubflow
<1>5. QED
  BY <1>1, <1>2, <1>4 DEF Subflows!UpdateSubflow

\* The packets with a flag, one more if the next has it.
Flagged(l, f) == {i \in DOMAIN l : f \in l[i].flags}

LEMMA FlaggedGrows ==
    ASSUME NEW l, NEW m, NEW n, NEW p, Longer(l, m, n, p), NEW f
    PROVE  /\ Cardinality(Flagged(l, f)) \in Nat
           /\ Cardinality(Flagged(m, f)) =
                Cardinality(Flagged(l, f)) + (IF f \in p.flags THEN 1 ELSE 0)
<1> PICK A, a, c : A = 1 .. Len(l) /\ a = Flagged(l, f) /\ c = Flagged(m, f)
  OBVIOUS
<1>1. /\ l \in Seq(Packet) /\ n = Len(l) + 1 /\ Len(l) \in Nat
      /\ \A i \in A : m[i] = l[i]
      /\ m[n] = p /\ DOMAIN l = A /\ DOMAIN m = A \cup {n} /\ n \notin A
  BY DEF Longer
<1>2. AddedTo(A, a, n, c) /\ (n \in c <=> f \in p.flags)
  BY <1>1 DEF AddedTo, Flagged
<1>3. c = IF n \in c THEN a \cup {n} ELSE a
  BY <1>2, OneMore
<1>4. a \in SUBSET (1 .. Len(l))
  BY <1>1 DEF Flagged
<1>5. IsFiniteSet(a) /\ Cardinality(a) \in Nat /\ n \notin a
  BY <1>1, <1>4, Positions
<1>6. Cardinality(a \cup {n}) = Cardinality(a) + 1
  BY <1>5, FS_AddElement
<1>7. CASE f \in p.flags
  BY <1>2, <1>3, <1>5, <1>6, <1>7
<1>8. CASE f \notin p.flags
  <2>1. c = a /\ Cardinality(a) + 0 = Cardinality(a)
    BY <1>2, <1>3, <1>5, <1>8
  <2>2. QED
    BY <1>5, <1>8, <2>1
<1>9. QED
  BY <1>7, <1>8

LEMMA TickCounts ==
    ASSUME NEW l, NEW m, NEW n, NEW p, Longer(l, m, n, p)
    PROVE  Tick([f \in Flags |-> Cardinality(Flagged(l, f))], p.flags)
             = [f \in Flags |-> Cardinality(Flagged(m, f))]
BY FlaggedGrows DEF Tick


LEMMA FeatInvBegins == Begun => FeatInv
<1> SUFFICES ASSUME Begun PROVE FeatInv
  OBVIOUS
<1>1. PICK ts \in StartTimes, shape \in Shapes :
        /\ log = <<PacketAt(shape, TRUE, ts)>>
        /\ flow = Begin(PacketAt(shape, TRUE, ts))
  BY DEF Begun
<1>2. PICK p : /\ p = PacketAt(shape, TRUE, ts)
               /\ log = <<p>> /\ flow = Begin(p)
  BY <1>1
<1>3. p \in Packet /\ p.forward = TRUE /\ p.payload_bytes \in Nat
  <2>1. TRUE \in BOOLEAN /\ ts \in Int
    BY RecordAssumption
  <2>2. QED
    BY <1>2, <2>1, PacketFields, ZenonT(30)
<1>4. Opened(flow, p)
  BY <1>2, BeginStats
<1>5. /\ flow.forward_bytes = 0 + p.payload_bytes /\ flow.backward_bytes = 0
  <2>1. p.forward \in BOOLEAN
    BY <1>3
  <2>2. Begin(p).forward_bytes = 0 + p.payload_bytes /\ Begin(p).backward_bytes = 0
    BY ONLY <2>1, BeginBulks
  <2>3. QED
    BY ONLY <1>2, <2>2
<1>6. DOMAIN log = {1} /\ log[1] = p /\ Len(log) = 1
  BY <1>2
<1>7. Forward = {1} /\ Backward = {}
  BY <1>3, <1>6 DEF Forward, Backward, CountsForward
<1>8. /\ flow.fwd_pkt_stats.sum = flow.forward_bytes
      /\ flow.bwd_pkt_stats.sum = flow.backward_bytes
  <2>1. NewSamples.sum = 0 /\ NewSamples \in Sample
    BY DEF NewSamples, Samples, NewStats, Sample
  <2>2. AddSample(NewSamples, p.payload_bytes).sum = 0 + p.payload_bytes
    BY <1>3, <2>1, AddSampleFacts
  <2>3. QED
    BY <1>4, <1>5, <2>1, <2>2 DEF Opened
<1> PICK l, n : l = <<>> /\ n = 1
  OBVIOUS
<1>9. Longer(l, log, n, p) /\ Within(l, {}) /\ {} \cup {n} = {1}
  <2>1. l \in Seq(Packet) /\ log = Append(l, p) /\ Len(l) + 1 = n
    BY <1>2
  <2>2. QED
    BY <1>3, <2>1, LogGrows DEF Within
<1>10. Telescopes(log, {}) /\ Telescopes(log, {1})
  <2>1. Telescopes(l, {})
    BY DEF Telescopes
  <2>2. Telescopes(log, {}) /\ Telescopes(log, {} \cup {n})
    BY <1>9, <2>1, TelescopesGrow
  <2>3. QED
    BY <1>9, <2>2
<1>11. flow.flag = [f \in Flags |-> With(f)]
  <2>1. \A f : Flagged(l, f) = {}
    BY DEF Flagged
  <2>2. [f \in Flags |-> 0] = [f \in Flags |-> Cardinality(Flagged(l, f))]
    BY <2>1, FS_EmptySet
  <2>3. Tick([f \in Flags |-> 0], p.flags) = [f \in Flags |-> Cardinality(Flagged(log, f))]
    BY <1>9, <2>2, TickCounts
  <2>4. QED
    BY <1>4, <2>3 DEF Opened, With, Flagged
<1>12. /\ flow.min_seg_size_forward \in Headers(log, Forward)
       /\ \A h \in Headers(log, Forward) : flow.min_seg_size_forward <= h
  <2>1. flow.min_seg_size_forward = p.header_bytes /\ p.header_bytes \in Nat
    BY <1>3, <1>4, PacketHeader DEF Opened
  <2>2. Headers(log, Forward) = {p.header_bytes}
    BY <1>6, <1>7 DEF Headers
  <2>3. QED
    BY <2>1, <2>2
<1>13. "sf_count" \in DOMAIN flow.subflow /\ flow.subflow.sf_count \in Nat
  <2> PICK t, u : /\ t = Subflows!NewTracker
                  /\ u = Subflows!UpdateSubflow(t, p.timestamp)
    OBVIOUS
  <2>1. "sf_count" \in DOMAIN t /\ t.sf_count \in Nat
    BY DEF Subflows!NewTracker
  <2>2. "sf_count" \in DOMAIN u /\ u.sf_count \in Nat
    BY <2>1, SubflowCounts
  <2>3. flow.subflow = Subflows!TrackFirst(u, p.timestamp)
    BY <1>4 DEF Opened
  <2>4. QED
    BY <2>2, <2>3, SubflowCounts
<1>14. flow.flow_start_time = log[1].timestamp /\ 1 \in Forward
  BY <1>4, <1>6, <1>7 DEF Opened
<1>15. BulkInv /\ StatInv
  BY BegunKeeps, StatInvBegins
<1>16. QED
  BY <1>6, <1>7, <1>8, <1>10, <1>11, <1>12, <1>13, <1>14, <1>15 DEF FeatInv

LEMMA FeatInvGrows ==
    ASSUME FeatInv, BulkInv', StatInv', NEW p \in Packet, log' = Append(log, p),
           flow' = AddPacket(flow, p), UNCHANGED <<is_bidirectional, compat_mode>>
    PROVE  FeatInv'
<1> PICK n, r, s : n = Len(log) + 1 /\ r = flow /\ s = flow'
  OBVIOUS
<1>1. /\ log \in Seq(Packet) /\ log # <<>> /\ HasStats(r) /\ HasBulks(r)
      /\ r.forward_bytes \in Nat /\ r.backward_bytes \in Nat
      /\ r.fwd_pkt_stats \in Sample /\ r.bwd_pkt_stats \in Sample
  BY DEF FeatInv, StatInv, BulkInv, Summarises
<1>2. Longer(log, log', n, p)
  BY <1>1, LogGrows
<1>3. /\ AddsToFlow(r, s, p)
      /\ CountsForward(p) => AddsForward(r, s, p)
      /\ ~CountsForward(p) => AddsBackward(r, s, p)
  BY <1>1, AddPacketStats
<1>4. TakesBytes(r, s, p) /\ p.payload_bytes \in Nat
  BY <1>1, PacketTypes, AddPacketBulks
<1>5. /\ Within(log, Forward) /\ Within(log, Backward)
      /\ CountsForward(p) => Forward' = Forward \cup {n} /\ Backward' = Backward
      /\ ~CountsForward(p) => Forward' = Forward /\ Backward' = Backward \cup {n}
  BY <1>2, DirectionsGrow
<1>6. /\ DOMAIN log' = DOMAIN log \cup {n} /\ DOMAIN log = 1 .. Len(log)
      /\ log'[1] = log[1]
      /\ log'[n] = p /\ \A i \in DOMAIN log : log'[i] = log[i]
  BY <1>1, <1>2 DEF Longer
<1>7. /\ s.fwd_pkt_stats.sum = s.forward_bytes
      /\ s.bwd_pkt_stats.sum = s.backward_bytes
  <2>1. r.fwd_pkt_stats.sum = r.forward_bytes /\ r.bwd_pkt_stats.sum = r.backward_bytes
    BY DEF FeatInv
  <2>2. /\ AddSample(r.fwd_pkt_stats, p.payload_bytes).sum
             = r.fwd_pkt_stats.sum + p.payload_bytes
        /\ AddSample(r.bwd_pkt_stats, p.payload_bytes).sum
             = r.bwd_pkt_stats.sum + p.payload_bytes
    <3>1. p.payload_bytes \in Int
      BY <1>4
    <3>2. QED
      <4> PICK a, b, y : /\ a = r.fwd_pkt_stats /\ b = r.bwd_pkt_stats
                         /\ y = p.payload_bytes
        OBVIOUS
      <4>1. a \in Sample /\ b \in Sample /\ y \in Int
        BY <1>1, <3>1
      <4>2. \A c \in Sample : AddSample(c, y).sum = c.sum + y
        BY ONLY <4>1, AddSampleFacts
      <4>3. QED
        BY <4>1, <4>2
  <2>3. r.forward_bytes + 0 = r.forward_bytes /\ r.backward_bytes + 0 = r.backward_bytes
    BY <1>1
  <2>4. CASE CountsForward(p)
    BY <1>3, <1>4, <2>1, <2>2, <2>3, <2>4 DEF AddsForward, TakesBytes
  <2>5. CASE ~CountsForward(p)
    BY <1>3, <1>4, <2>1, <2>2, <2>3, <2>5 DEF AddsBackward, TakesBytes
  <2>6. QED
    BY <2>4, <2>5
<1>8. s.flow_start_time = log'[1].timestamp /\ 1 \in Forward'
  BY <1>3, <1>5, <1>6 DEF AddsToFlow, FeatInv
<1>9. /\ Telescopes(log', Forward') /\ Telescopes(log', Backward')
      /\ Telescopes(log', DOMAIN log')
  <2>1. Within(log, DOMAIN log)
    BY <1>6 DEF Within
  <2>2. /\ Telescopes(log, Forward) /\ Telescopes(log, Backward)
        /\ Telescopes(log, DOMAIN log)
    BY DEF FeatInv
  <2>3. /\ Telescopes(log', Forward) /\ Telescopes(log', Forward \cup {n})
        /\ Telescopes(log', Backward) /\ Telescopes(log', Backward \cup {n})
        /\ Telescopes(log', DOMAIN log \cup {n})
    BY ONLY <1>2, <1>5, <2>1, <2>2, TelescopesGrow
  <2>4. QED
    BY <1>5, <1>6, <2>3
<1>10. s.flag = [f \in Flags |-> With(f)']
  <2>1. r.flag = [f \in Flags |-> Cardinality(Flagged(log, f))]
    BY DEF FeatInv, With, Flagged
  <2>2. s.flag = [f \in Flags |-> Cardinality(Flagged(log', f))]
    BY <1>2, <1>3, <2>1, TickCounts DEF AddsToFlow
  <2>3. QED
    BY <2>2 DEF With, Flagged
<1>11. /\ s.min_seg_size_forward \in Headers(log', Forward')
       /\ \A h \in Headers(log', Forward') : s.min_seg_size_forward <= h
  <2> PICK b, c, H : /\ b = r.min_seg_size_forward /\ c = p.header_bytes
                     /\ H = Headers(log, Forward)
    OBVIOUS
  <2>1. b \in H /\ \A h \in H : b <= h
    BY DEF FeatInv
  <2>2. c \in Nat /\ H \subseteq Nat
    <3>1. \A i \in Forward : log[i] \in Packet
      BY <1>1, <1>6 DEF Forward
    <3>2. QED
      BY <3>1, PacketHeader DEF Headers
  <2>3. \A i \in Forward : log'[i] = log[i]
    BY <1>6 DEF Forward
  <2>4. Headers(log', Forward) = H
    BY <2>3 DEF Headers
  <2>5. Headers(log', Forward \cup {n}) = H \cup {c}
    <3>1. \A i \in Forward : log'[i].header_bytes = log[i].header_bytes
      BY <2>3
    <3>2. log'[n].header_bytes = c
      BY <1>6
    <3>3. QED
      BY <3>1, <3>2 DEF Headers
  <2>6. CASE CountsForward(p)
    <3>1. Headers(log', Forward') = H \cup {c}
      BY <1>5, <2>5, <2>6
    <3>2. s.min_seg_size_forward = IF c < b THEN c ELSE b
      BY <1>3, <2>6 DEF AddsForward
    <3>3. b \in Nat /\ \A h \in H : h \in Nat
      BY <2>1, <2>2
    <3>4. CASE c < b
      BY <2>1, <2>2, <3>1, <3>2, <3>3, <3>4
    <3>5. CASE ~(c < b)
      BY <2>1, <2>2, <3>1, <3>2, <3>3, <3>5
    <3>6. QED
      BY <3>4, <3>5
  <2>7. CASE ~CountsForward(p)
    <3>1. Headers(log', Forward') = H /\ s.min_seg_size_forward = b
      BY <1>3, <1>5, <2>4, <2>7 DEF AddsBackward
    <3>2. QED
      BY <2>1, <3>1
  <2>8. QED
    BY <2>6, <2>7
<1>12. "sf_count" \in DOMAIN s.subflow /\ s.subflow.sf_count \in Nat
  <2>1. "sf_count" \in DOMAIN r.subflow /\ r.subflow.sf_count \in Nat
    BY DEF FeatInv
  <2>2. QED
    BY <1>3, <2>1, SubflowCounts DEF AddsToFlow
<1>13. QED
  BY <1>7, <1>8, <1>9, <1>10, <1>11, <1>12 DEF FeatInv

LEMMA FeatInvStep == FeatInv /\ [Next]_vars => FeatInv'
<1> SUFFICES ASSUME FeatInv, [Next]_vars PROVE FeatInv'
  OBVIOUS
<1>1. log \in Seq(Packet) /\ log # <<>> /\ BulkInv' /\ StatInv'
  BY BulkInvStep, StatInvStep DEF FeatInv, StatInv
<1>2. ASSUME NEW p \in Packet, log' = Append(log, p), flow' = AddPacket(flow, p),
             UNCHANGED <<is_bidirectional, compat_mode>>
      PROVE  FeatInv'
  BY <1>1, <1>2, FeatInvGrows
<1>3. CASE Begun'
  <2>1. Begun' => FeatInv'
    BY FeatInvBegins, PTL
  <2>2. QED
    BY <1>3, <2>1
<1>4. CASE UNCHANGED vars
  BY <1>1, <1>4 DEF vars, FeatInv, Forward, Backward, CountsForward, With
<1>5. QED
  BY <1>1, <1>2, <1>3, <1>4, RecordSteps


\* Quotients of two counters by a third do not add up to more than their sum.
LEMMA PartsFit ==
    ASSUME NEW k \in Nat, k > 0, NEW a \in Nat, NEW b \in Nat
    PROVE  k * (a \div k + b \div k) <= a + b
<1> PICK x, y : x = a \div k /\ y = b \div k
  OBVIOUS
<1>1. x \in Int /\ y \in Int /\ k * x <= a /\ k * y <= b
  OBVIOUS
<1>2. k * (x + y) = k * x + k * y
  BY <1>1
<1>3. QED
  BY <1>1, <1>2

\* An average by division and the running mean of the same values.
LEMMA RatioIsMean ==
    ASSUME NEW s, NEW v, Summarises(s, v), NEW n, n = s.count
    PROVE  Same(Ratio(s.sum, n), <<s.mean, Scale>>)
<1>1. /\ s.count \in Nat /\ s.sum \in Int /\ s.mean \in Int /\ Scale \in Nat
      /\ s.count = 0 => s.mean = 0
      /\ s.count * s.mean = Scale * s.sum
  BY SampleFields, ScaleAssumption DEF Summarises, Moments, Exact
<1> PICK sum, mean : sum = s.sum /\ mean = s.mean
  OBVIOUS
<1>2. /\ n \in Nat /\ sum \in Int /\ mean \in Int /\ Scale \in Nat
      /\ n = 0 => mean = 0
      /\ n * mean = Scale * sum
  BY <1>1
<1>3. CASE n > 0
  <2>1. Ratio(sum, n) = <<sum, n>> /\ sum * Scale = mean * n
    BY <1>2, <1>3 DEF Ratio
  <2>2. QED
    BY <2>1 DEF Same
<1>4. CASE ~(n > 0)
  <2>1. mean = 0 /\ 0 * Scale = 0 * 1
    BY <1>2, <1>4
  <2>2. Ratio(sum, n) = <<0, 1>>
    BY <1>4 DEF Ratio
  <2>3. QED
    BY <2>1, <2>2 DEF Same
<1>5. QED
  BY <1>3, <1>4

\* The two directions share the packets of the log.
LEMMA DirectionsShare ==
    ASSUME StatInv
    PROVE  /\ Forward \cup Backward = DOMAIN log
           /\ Within(log, Forward) /\ Within(log, Backward)
           /\ Cardinality(Forward) + Cardinality(Backward) = Len(log)
           /\ Cardinality(Forward) \in Nat /\ Cardinality(Backward) \in Nat
           /\ ~is_bidirectional => Cardinality(Backward) = 0
           /\ PacketCount(flow) = Len(log)
<1>1. log \in Seq(Packet) /\ DOMAIN log = 1 .. Len(log) /\ Len(log) \in Nat
  BY DEF StatInv
<1>2. /\ Forward \cup Backward = DOMAIN log /\ Forward \cap Backward = {}
      /\ Within(log, Forward) /\ Within(log, Backward)
  BY <1>1 DEF Forward, Backward, Within
<1>3. /\ IsFiniteSet(Forward) /\ IsFiniteSet(Backward)
      /\ Cardinality(Forward) \in Nat /\ Cardinality(Backward) \in Nat
  BY <1>1, <1>2, Positions DEF Within
<1>4. Cardinality(DOMAIN log) = Len(log)
  BY <1>1, FS_Interval, SMTT(30)
<1>5. Cardinality(Forward) + Cardinality(Backward) = Len(log)
  <2> PICK A, B : A = Forward /\ B = Backward
    OBVIOUS
  <2>1. Cardinality(A \cup B)
          = Cardinality(A) + Cardinality(B) - Cardinality(A \cap B)
    BY <1>3, FS_Union
  <2>2. Cardinality(A \cap B) = 0
    BY <1>2, FS_EmptySet
  <2>3. QED
    BY <1>2, <1>3, <1>4, <2>1, <2>2
<1>6. ~is_bidirectional => Cardinality(Backward) = 0
  <2>1. ~is_bidirectional => Backward = {}
    BY DEF Backward, CountsForward
  <2>2. QED
    BY <2>1, FS_EmptySet
<1>7. /\ flow.fwd_packet_count = Cardinality(Forward)
      /\ flow.bwd_packet_count = Cardinality(Backward)
  BY DEF StatInv, Timed
<1>8. PacketCount(flow) = Len(log)
  BY <1>3, <1>5, <1>6, <1>7 DEF PacketCount
<1>9. QED
  BY <1>2, <1>3, <1>5, <1>6, <1>8

\* The total that is exported of the gaps of a direction.
LEMMA TotalOfGaps ==
    ASSUME NEW l, l \in Seq(Packet), NEW S, Within(l, S), S # {}, Telescopes(l, S),
           NEW count, NEW iat, NEW last, Timed(count, iat, last, l, S)
    PROVE  IfSeveral(count, iat.sum) = last - l[Min(S)].timestamp
<1>1. /\ IsFiniteSet(S) /\ Cardinality(S) \in Nat /\ Cardinality(S) # 0
      /\ S \in SUBSET Nat /\ S \in SUBSET (1 .. Len(l)) /\ Len(l) \in Nat
      /\ \A i \in S : l[i].timestamp \in Int
  BY Positions DEF Within
<1>2. /\ count = Cardinality(S) /\ iat.sum = SumFunction(GapsOf(l, S))
      /\ last = l[Max(S)].timestamp
  BY DEF Timed, Summarises
<1>3. iat.sum = last - l[Min(S)].timestamp
  BY <1>2 DEF Telescopes
<1>4. Min(S) \in S /\ Max(S) \in S
  BY <1>1, MinOf, MaxOf
<1>5. CASE count > 1
  BY <1>3, <1>5 DEF IfSeveral
<1>6. CASE count = 1
  <2>1. PICK x : S = {x}
    BY <1>1, <1>2, <1>6, FS_Singleton
  <2>2. Min(S) = Max(S)
    BY <1>4, <2>1
  <2>3. last - l[Min(S)].timestamp = 0
    <3>1. last = l[Min(S)].timestamp /\ last \in Int
      BY <1>1, <1>2, <1>4, <2>2
    <3>2. QED
      BY ONLY <3>1
  <2>4. QED
    BY <1>6, <2>3 DEF IfSeveral
<1>7. QED
  BY <1>1, <1>2, <1>5, <1>6

LEMMA GapsOfAll ==
    ASSUME StatInv
    PROVE  Cardinality(DOMAIN GapsOf(log, DOMAIN log)) = Len(log) - 1
<1>1. DOMAIN log = 1 .. Len(log) /\ Len(log) \in Nat /\ Len(log) > 0
  BY DEF StatInv
<1>2. DOMAIN GapsOf(log, DOMAIN log) = 2 .. Len(log)
  <2>1. \A i \in 2 .. Len(log) : 1 \in Before(1 .. Len(log), i)
    BY <1>1 DEF Before
  <2>2. \A i \in 1 .. Len(log) : i < 2 => Before(1 .. Len(log), i) = {}
    BY <1>1 DEF Before
  <2>3. Later(1 .. Len(log)) = 2 .. Len(log)
    BY <1>1, <2>1, <2>2 DEF Later
  <2>4. QED
    BY <1>1, <2>3 DEF GapsOf
<1>3. Cardinality(2 .. Len(log)) = Len(log) - 1
  <2> PICK n \in Nat : n = Len(log)
    BY <1>1
  <2>1. 2 \in Int /\ n \in Int
    OBVIOUS
  <2>2. Cardinality(2 .. n) = IF 2 > n THEN 0 ELSE n - 2 + 1
    BY ONLY <2>1, FS_Interval
  <2>3. QED
    BY <1>1, <2>2
<1>4. QED
  BY <1>2, <1>3


\* What is exported twice, from different counters, agrees: averages with running
\* means, totals of gaps with first and last times, rates of the directions with the
\* flow's, lengths with bytes; for every sequence of packets, in every mode.
THEOREM FeaturesConsistent == Spec => []FeaturesAgree
<1>1. FeatInv => FeaturesAgree
  <2> SUFFICES ASSUME FeatInv PROVE FeaturesAgree
    OBVIOUS
  <2>1. StatInv /\ BulkInv /\ log \in Seq(Packet) /\ DOMAIN log = 1 .. Len(log)
        /\ Len(log) \in Nat /\ Len(log) > 0
    BY DEF FeatInv, StatInv
  <2>2. PICK r, m, n : r = flow /\ m = Cardinality(Forward) /\ n = Cardinality(Backward)
    OBVIOUS
  <2>3. /\ Forward \cup Backward = DOMAIN log
        /\ Within(log, Forward) /\ Within(log, Backward) /\ Within(log, DOMAIN log)
        /\ m + n = Len(log) /\ m \in Nat /\ n \in Nat
        /\ ~is_bidirectional => n = 0
        /\ PacketCount(r) = Len(log)
    BY <2>1, <2>2, DirectionsShare DEF Within
  <2>4. /\ Summarises(r.fwd_pkt_stats, LengthsOf(log, Forward))
        /\ Summarises(r.bwd_pkt_stats, LengthsOf(log, Backward))
        /\ Summarises(r.flow_length_stats, FlowLengths)
        /\ Timed(r.fwd_packet_count, r.forward_iat, r.forward_last_seen, log, Forward)
        /\ Timed(r.bwd_packet_count, r.backward_iat, r.backward_last_seen, log, Backward)
        /\ Timed(Len(log), r.flow_iat, r.flow_last_seen, log, DOMAIN log)
    BY <2>1, <2>2 DEF StatInv
  <2>5. r.fwd_packet_count = m /\ r.bwd_packet_count = n
    BY <2>2, <2>4 DEF Timed
  <2>6. /\ r.fwd_pkt_stats.sum = r.forward_bytes
        /\ r.bwd_pkt_stats.sum = r.backward_bytes
        /\ r.forward_bytes \in Nat /\ r.backward_bytes \in Nat
        /\ r.flow_start_time = log[1].timestamp /\ 1 \in Forward
        /\ r.flag = [f \in Flags |-> With(f)]
    BY <2>1, <2>2 DEF FeatInv, BulkInv
  <2>7. /\ Same(Ratio(r.fwd_pkt_stats.sum, m), <<r.fwd_pkt_stats.mean, Scale>>)
        /\ Same(Ratio(r.bwd_pkt_stats.sum, n), <<r.bwd_pkt_stats.mean, Scale>>)
    <3>1. r.fwd_pkt_stats.count = m /\ r.bwd_pkt_stats.count = n
      BY <2>2, <2>4 DEF Summarises, LengthsOf
    <3>2. QED
      BY <2>4, <3>1, RatioIsMean
  <2>8. ASSUME ~compat_mode
        PROVE  Same(AvgPacketSize(r), <<r.flow_length_stats.mean, Scale>>)
    <3>1. DOMAIN FlowLengths = 1 .. Len(log)
      BY <2>1, <2>8 DEF FlowLengths, Lengths
    <3>2. r.flow_length_stats.count = Len(log)
      BY <2>1, <2>4, <3>1, FS_Interval DEF Summarises
    <3>3. Same(Ratio(r.flow_length_stats.sum, Len(log)),
               <<r.flow_length_stats.mean, Scale>>)
      BY <2>4, <3>2, RatioIsMean
    <3>4. QED
      BY <2>3, <3>3 DEF AvgPacketSize
  <2>9. IfSeveral(m, r.forward_iat.sum) = r.forward_last_seen - r.flow_start_time
    <3>1. Min(Forward) = 1
      <4>1. Forward \in SUBSET Nat /\ \A i \in Forward : 1 <= i
        BY <2>1, <2>3 DEF Within
      <4>2. QED
        BY <2>6, <4>1, MinIs
    <3>2. Telescopes(log, Forward) /\ Forward # {}
      BY <2>6 DEF FeatInv
    <3>3. IfSeveral(r.fwd_packet_count, r.forward_iat.sum)
            = r.forward_last_seen - log[Min(Forward)].timestamp
      BY <2>1, <2>3, <2>4, <3>2, TotalOfGaps
    <3>4. QED
      BY <2>5, <2>6, <3>1, <3>3
  <2>10. Backward # {} => IfSeveral(n, r.backward_iat.sum)
                            = r.backward_last_seen - log[Min(Backward)].timestamp
    <3>1. Telescopes(log, Backward)
      BY DEF FeatInv
    <3>2. Backward # {} =>
            IfSeveral(r.bwd_packet_count, r.backward_iat.sum)
              = r.backward_last_seen - log[Min(Backward)].timestamp
      BY <2>1, <2>3, <2>4, <3>1, TotalOfGaps
    <3>3. QED
      BY <2>5, <3>2
  <2>11. r.flow_iat.mean * (Len(log) - 1)
           = Scale * (r.flow_last_seen - r.flow_start_time)
    <3> PICK iat : iat = r.flow_iat
      OBVIOUS
    <3>1. Summarises(iat, GapsOf(log, DOMAIN log))
          /\ r.flow_last_seen = log[Max(DOMAIN log)].timestamp
      BY <2>1, <2>4 DEF Timed
    <3>2. /\ iat.count = Len(log) - 1
          /\ iat.sum = SumFunction(GapsOf(log, DOMAIN log))
          /\ iat.count * iat.mean = Scale * iat.sum
          /\ iat.count \in Int /\ iat.mean \in Int
      BY <2>1, <3>1, GapsOfAll, SampleFields DEF Summarises, Moments, Exact
    <3>3. iat.sum = log[Max(DOMAIN log)].timestamp - log[Min(DOMAIN log)].timestamp
      BY <2>1, <3>2 DEF FeatInv, Telescopes
    <3>4. Min(DOMAIN log) = 1
      <4>1. DOMAIN log \in SUBSET Nat /\ 1 \in DOMAIN log /\ \A i \in DOMAIN log : 1 <= i
        BY <2>1
      <4>2. QED
        BY <4>1, MinIs
    <3>5. iat.sum = r.flow_last_seen - r.flow_start_time
      BY <2>6, <3>1, <3>3, <3>4
    <3>6. iat.mean * (Len(log) - 1) = iat.count * iat.mean
      BY ONLY <2>1, <3>2
    <3>7. QED
      BY <3>2, <3>5, <3>6
  <2>12. Ratio(m, r.flow_last_seen - r.flow_start_time)[1]
           + Ratio(n, r.flow_last_seen - r.flow_start_time)[1]
           = Ratio(PacketCount(r), r.flow_last_seen - r.flow_start_time)[1]
    <3> PICK d : d = r.flow_last_seen - r.flow_start_time
      OBVIOUS
    <3>1. CASE d > 0
      BY <2>3, <3>1 DEF Ratio
    <3>2. CASE ~(d > 0)
      BY <3>2 DEF Ratio
    <3>3. QED
      BY <3>1, <3>2
  <2>13. (IF r.min_seg_size_forward = NoSegment THEN 0 ELSE r.min_seg_size_forward)
           = Min(Headers(log, Forward))
    <3>1. /\ r.min_seg_size_forward \in Headers(log, Forward)
          /\ \A h \in Headers(log, Forward) : r.min_seg_size_forward <= h
      BY <2>2 DEF FeatInv
    <3>2. \A h \in Headers(log, Forward) : h \in Nat /\ h < NoSegment
      <4>1. \A i \in Forward : log[i] \in Packet
        BY <2>1 DEF Forward
      <4>2. QED
        BY <4>1, PacketHeader DEF Headers
    <3>3. Min(Headers(log, Forward)) = r.min_seg_size_forward
      <4>1. Headers(log, Forward) \in SUBSET Nat
        BY <3>2
      <4>2. QED
        BY <3>1, <4>1, MinIs
    <3>4. r.min_seg_size_forward # NoSegment
      BY <3>1, <3>2 DEF NoSegment
    <3>5. QED
      BY <3>3, <3>4
  <2>14. r.subflow.sf_count > 0 =>
           r.subflow.sf_count * (Quotient(m, r.subflow.sf_count)
                                 + Quotient(n, r.subflow.sf_count)) <= Len(log)
    <3> PICK k : k = r.subflow.sf_count
      OBVIOUS
    <3>1. k \in Nat
      BY <2>2 DEF FeatInv
    <3>2. k > 0 => k * (m \div k + n \div k) <= m + n
      BY <2>3, <3>1, PartsFit
    <3>3. k > 0 => Quotient(m, k) = m \div k /\ Quotient(n, k) = n \div k
      BY <3>1 DEF Quotient
    <3>4. QED
      BY <2>3, <3>2, <3>3
  <2>15. QED
    BY <2>2, <2>5, <2>6, <2>7, <2>8, <2>9, <2>10, <2>11, <2>12, <2>13, <2>14, Zenon
       DEF FeaturesAgree, Features, Headers
<1>2. Init => FeatInv
  BY InitBegun, FeatInvBegins
<1>3. QED
  BY <1>1, <1>2, FeatInvStep, PTL DEF Spec



-----------------------------------------------------------------------------
(* Runs, of any positions P that carry a payload and any beginnings B.     *)

RunOf(P, B, i) ==
    {j \in P : i <= j /\ \A m \in P : i < m /\ m <= j => m \notin B}

LongOf(P, B) == {i \in B : Cardinality(RunOf(P, B, i)) >= 4}

BytesOf(l, R) == SumFunction([i \in R |-> l[i].payload_bytes])
TimeOf(l, R) == l[Max(R)].timestamp - l[Min(R)].timestamp

\* Positions before n.
Placed(P, B, n) == n \in Nat /\ P \subseteq 1 .. (n - 1) /\ B \subseteq P
Dated(l, P) == \A i \in P : l[i].timestamp \in Int /\ l[i].payload_bytes \in Nat
Agree(l, m, P) == \A i \in P : m[i] = l[i]

LEMMA PlacedFacts ==
    ASSUME NEW P, NEW B, NEW n, Placed(P, B, n)
    PROVE  /\ n \in Nat /\ n \notin P /\ n \notin B /\ B \subseteq P
           /\ P \in SUBSET Nat /\ \A i \in P : i \in Nat /\ i < n
           /\ IsFiniteSet(P) /\ IsFiniteSet(B)
<1>1. n \in Nat /\ n \notin P /\ \A i \in P : i \in Nat /\ i < n
  BY DEF Placed
<1>2. n - 1 \in Int
  BY <1>1
<1>3. IsFiniteSet(1 .. (n - 1))
  BY <1>2, FS_Interval
<1>4. IsFiniteSet(P)
  BY <1>3, FS_Subset DEF Placed
<1>5. IsFiniteSet(B)
  BY <1>4, FS_Subset DEF Placed
<1>6. QED
  BY <1>1, <1>4, <1>5 DEF Placed

LEMMA RunFacts ==
    ASSUME NEW P, NEW B, NEW n, Placed(P, B, n), NEW i \in B
    PROVE  /\ RunOf(P, B, i) \subseteq P /\ i \in RunOf(P, B, i)
           /\ IsFiniteSet(RunOf(P, B, i)) /\ Cardinality(RunOf(P, B, i)) \in Nat
           /\ Min(RunOf(P, B, i)) = i
           /\ Max(RunOf(P, B, i)) \in RunOf(P, B, i)
<1>1. PICK R : R = RunOf(P, B, i)
  OBVIOUS
<1>2. /\ P \in SUBSET Nat /\ i \in P /\ i \in Nat /\ IsFiniteSet(P)
  BY PlacedFacts
<1>3. R \subseteq P /\ i \in R /\ \A j \in R : i <= j
  BY <1>1, <1>2 DEF RunOf
<1>4. IsFiniteSet(R) /\ Cardinality(R) \in Nat
  BY <1>2, <1>3, FS_Subset, FS_CardinalityType
<1>5. Min(R) = i
  <2>1. R \in SUBSET Nat
    BY <1>2, <1>3
  <2>2. QED
    BY ONLY <1>3, <2>1, MinIs
<1>6. Max(R) \in R
  <2>1. R \in SUBSET (1 .. n) /\ R # {} /\ n \in Nat
    BY <1>3 DEF Placed
  <2>2. QED
    BY ONLY <2>1, MaxOf
<1>7. QED
  BY <1>1, <1>3, <1>4, <1>5, <1>6

\* A beginning that is not the last keeps its run when a position is added.
LEMMA RunStays ==
    ASSUME NEW P, NEW B, NEW n, Placed(P, B, n),
           NEW C, C = B \/ C = B \cup {n},
           NEW a \in C, \A k \in C : k <= a, NEW i \in B, i # a
    PROVE  RunOf(P \cup {n}, C, i) = RunOf(P, B, i)
<1>1. /\ n \in Nat /\ n \notin P /\ B \subseteq P
      /\ \A j \in P : j \in Nat /\ j < n
  BY PlacedFacts
<1>2. i \in P /\ i \in Nat /\ a \in P \cup {n} /\ a \in Nat /\ i < a /\ a <= n
  BY <1>1
<1>3. n \notin RunOf(P \cup {n}, C, i)
  BY <1>1, <1>2 DEF RunOf
<1>4. \A j \in P : j \in RunOf(P \cup {n}, C, i) <=> j \in RunOf(P, B, i)
  <2> TAKE j \in P
  <2>1. j \in Nat /\ j < n
    BY <1>1
  <2>2. \A m \in P : m \in C <=> m \in B
    BY <1>1
  <2>3. ~(n <= j)
    BY <1>1, <2>1
  <2>4. QED
    BY <2>2, <2>3 DEF RunOf
<1>5. RunOf(P \cup {n}, C, i) \subseteq P \cup {n} /\ RunOf(P, B, i) \subseteq P
  BY DEF RunOf
<1>6. QED
  BY <1>3, <1>4, <1>5

\* The last run goes on to the end, and a position that begins no run
\* extends it.
LEMMA RunToEnd ==
    ASSUME NEW P, NEW B, NEW n, Placed(P, B, n), NEW a \in B, \A k \in B : k <= a
    PROVE  RunOf(P, B, a) = {j \in P : a <= j}
<1>1. \A j \in P : j \in Nat /\ j < n
  BY PlacedFacts
<1>2. \A m \in P : a < m => m \notin B
  BY <1>1, PlacedFacts
<1>3. QED
  BY <1>2 DEF RunOf

LEMMA RunExtends ==
    ASSUME NEW P, NEW B, NEW n, Placed(P, B, n), NEW a \in B, \A k \in B : k <= a
    PROVE  RunOf(P \cup {n}, B, a) = RunOf(P, B, a) \cup {n}
<1>1. /\ n \in Nat /\ n \notin P /\ B \subseteq P
      /\ \A j \in P : j \in Nat /\ j < n
  BY PlacedFacts
<1>2. a \in P /\ a \in Nat /\ a < n
  BY <1>1
<1>3. \A m \in P \cup {n} : a < m => m \notin B
  BY <1>1, <1>2
<1>4. RunOf(P, B, a) = {j \in P : a <= j}
  BY RunToEnd
<1>5. RunOf(P \cup {n}, B, a) = {j \in P \cup {n} : a <= j}
  BY <1>3 DEF RunOf
<1>6. a <= n
  BY <1>1, <1>2
<1>7. QED
  BY <1>1, <1>4, <1>5, <1>6

\* One that begins a run is it.
LEMMA RunBegins ==
    ASSUME NEW P, NEW B, NEW n, Placed(P, B, n)
    PROVE  RunOf(P \cup {n}, B \cup {n}, n) = {n}
<1>1. n \in Nat /\ \A j \in P : j \in Nat /\ j < n
  BY PlacedFacts
<1>2. \A j \in P : ~(n <= j)
  BY <1>1
<1>3. n <= n /\ ~(n < n)
  BY <1>1
<1>4. \A m \in P \cup {n} : ~(n < m /\ m <= n)
  BY <1>1
<1>5. QED
  BY <1>2, <1>3, <1>4 DEF RunOf

\* The sum when one value is added or changed by d.
LEMMA SumAdds ==
    ASSUME NEW S, IsFiniteSet(S), NEW f \in [S -> Int],
           NEW a, NEW T, T = S \cup {a}, NEW g \in [T -> Int],
           \A i \in S : i # a => g[i] = f[i],
           NEW d \in Int, g[a] = (IF a \in S THEN f[a] + d ELSE d)
    PROVE  SumFunction(g) = SumFunction(f) + d
<1> DEFINE U == S \ {a}
           h == [i \in U |-> f[i]]
<1>1. /\ IsFiniteSet(U) /\ h \in [U -> Int] /\ a \notin U /\ T = U \cup {a}
      /\ \A i \in U : g[i] = h[i]
  BY FS_Subset
<1>2. SumFunction(g) = SumFunction(h) + g[a]
  <2>1. g \in [U \cup {a} -> Int]
    BY <1>1
  <2> HIDE DEF U, h
  <2>2. QED
    BY ONLY <1>1, <2>1, SumMore, SMTT(30)
<1>3. SumFunction(h) \in Int
  <2> HIDE DEF U, h
  <2>1. QED
    BY <1>1, SumType
<1>4. CASE a \notin S
  <2>1. U = S /\ h = f
    BY <1>4
  <2>2. QED
    BY <1>2, <1>4, <2>1
<1>5. CASE a \in S
  <2>1. /\ f \in [U \cup {a} -> Int] /\ f[a] \in Int
        /\ \A i \in U : f[i] = h[i]
    BY <1>5
  <2>2. SumFunction(f) = SumFunction(h) + f[a]
    <3> HIDE DEF U, h
    <3>1. QED
      BY ONLY <1>1, <2>1, SumMore
  <2>3. QED
    BY <1>2, <1>3, <1>5, <2>1, <2>2
<1>6. QED
  BY <1>4, <1>5

LEMMA SumOfOne ==
    ASSUME NEW x, NEW f \in [{x} -> Int]
    PROVE  SumFunction(f) = f[x]
<1>1. PICK S, e : S = {} /\ e = [i \in S |-> 0]
  OBVIOUS
<1>2. PICK T : T = {x}
  OBVIOUS
<1>3. IsFiniteSet(S) /\ e \in [S -> Int] /\ SumFunction(e) = 0
  BY <1>1, FS_EmptySet, SumEmpty
<1>4. /\ T = S \cup {x} /\ f \in [T -> Int] /\ f[x] \in Int
      /\ (\A i \in S : i # x => f[i] = e[i]) /\ x \notin S
  BY <1>1, <1>2
<1>5. f[x] = (IF x \in S THEN e[x] + f[x] ELSE f[x])
  BY <1>4
<1>6. SumFunction(f) = SumFunction(e) + f[x]
  BY ONLY <1>3, <1>4, <1>5, SumAdds, SMTT(30)
<1>7. QED
  BY <1>3, <1>4, <1>6

\* The values that a tracker's counters are the sums of.
Packs(P, B) == [i \in LongOf(P, B) |-> Cardinality(RunOf(P, B, i))]
Sizes(l, P, B) == [i \in LongOf(P, B) |-> BytesOf(l, RunOf(P, B, i))]
Spans(l, P, B) == [i \in LongOf(P, B) |-> TimeOf(l, RunOf(P, B, i))]

LEMMA RunValues ==
    ASSUME NEW P, NEW B, NEW n, Placed(P, B, n), NEW l, Dated(l, P), NEW i \in B
    PROVE  /\ Cardinality(RunOf(P, B, i)) \in Int
           /\ BytesOf(l, RunOf(P, B, i)) \in Int
           /\ TimeOf(l, RunOf(P, B, i)) \in Int
<1>1. PICK R : R = RunOf(P, B, i)
  OBVIOUS
<1>2. /\ R \subseteq P /\ i \in R /\ IsFiniteSet(R) /\ Cardinality(R) \in Nat
      /\ Min(R) = i /\ Max(R) \in R
  BY <1>1, RunFacts
<1>3. [j \in R |-> l[j].payload_bytes] \in [R -> Int]
  BY <1>2 DEF Dated
<1>4. BytesOf(l, R) \in Int
  BY <1>2, <1>3, SumType DEF BytesOf
<1>5. TimeOf(l, R) \in Int
  BY <1>2 DEF TimeOf, Dated
<1>6. QED
  BY <1>1, <1>2, <1>4, <1>5

LEMMA ListTypes ==
    ASSUME NEW P, NEW B, NEW n, Placed(P, B, n), NEW l, Dated(l, P)
    PROVE  /\ IsFiniteSet(LongOf(P, B)) /\ Cardinality(LongOf(P, B)) \in Nat
           /\ Packs(P, B) \in [LongOf(P, B) -> Int]
           /\ Sizes(l, P, B) \in [LongOf(P, B) -> Int]
           /\ Spans(l, P, B) \in [LongOf(P, B) -> Int]
<1>1. LongOf(P, B) \subseteq B /\ IsFiniteSet(B)
  BY PlacedFacts DEF LongOf
<1>2. IsFiniteSet(LongOf(P, B)) /\ Cardinality(LongOf(P, B)) \in Nat
  BY <1>1, FS_Subset, FS_CardinalityType
<1>3. ASSUME NEW i \in LongOf(P, B)
      PROVE  /\ Cardinality(RunOf(P, B, i)) \in Int
             /\ BytesOf(l, RunOf(P, B, i)) \in Int
             /\ TimeOf(l, RunOf(P, B, i)) \in Int
  BY <1>1, RunValues
<1>4. QED
  BY <1>2, <1>3 DEF Packs, Sizes, Spans

\* A longer log has the same values at the old positions.
LEMMA ValuesStay ==
    ASSUME NEW P, NEW l, NEW m, Agree(l, m, P), NEW R \in SUBSET P,
           Min(R) \in R, Max(R) \in R
    PROVE  BytesOf(m, R) = BytesOf(l, R) /\ TimeOf(m, R) = TimeOf(l, R)
<1>1. \A i \in R : m[i] = l[i]
  BY DEF Agree
<1>2. [i \in R |-> m[i].payload_bytes] = [i \in R |-> l[i].payload_bytes]
  BY <1>1
<1>3. QED
  BY <1>1, <1>2 DEF BytesOf, TimeOf

\* A packet n that comes after those of R.
Follows(l, m, n, R) ==
    /\ IsFiniteSet(R) /\ n \notin R /\ Agree(l, m, R) /\ Dated(l, R)
    /\ m[n].payload_bytes \in Nat

LEMMA BytesGrow ==
    ASSUME NEW l, NEW m, NEW n, NEW R, Follows(l, m, n, R)
    PROVE  BytesOf(m, R \cup {n}) = BytesOf(l, R) + m[n].payload_bytes
<1>1. PICK f, g : /\ f = [i \in R |-> l[i].payload_bytes]
                  /\ g = [i \in R \cup {n} |-> m[i].payload_bytes]
  OBVIOUS
<1>2. /\ f \in [R -> Int] /\ g \in [R \cup {n} -> Int]
      /\ (\A i \in R : g[i] = f[i]) /\ g[n] = m[n].payload_bytes
  BY <1>1 DEF Follows, Agree, Dated
<1>3. IsFiniteSet(R) /\ n \notin R
  BY DEF Follows
<1>4. SumFunction(g) = SumFunction(f) + g[n]
  BY ONLY <1>2, <1>3, SumMore
<1>5. QED
  BY <1>1, <1>2, <1>4 DEF BytesOf

\* All runs but the last stay as they are.
Settled(l, m, P, B, n, C, a) ==
    \A i \in B : i # a =>
        /\ RunOf(P \cup {n}, C, i) = RunOf(P, B, i)
        /\ BytesOf(m, RunOf(P, B, i)) = BytesOf(l, RunOf(P, B, i))
        /\ TimeOf(m, RunOf(P, B, i)) = TimeOf(l, RunOf(P, B, i))

LEMMA OthersSettled ==
    ASSUME NEW P, NEW B, NEW n, Placed(P, B, n), NEW l, NEW m, Agree(l, m, P),
           NEW C, C = B \/ C = B \cup {n}, NEW a \in C, \A k \in C : k <= a
    PROVE  Settled(l, m, P, B, n, C, a)
<1> SUFFICES ASSUME NEW i \in B, i # a
             PROVE  /\ RunOf(P \cup {n}, C, i) = RunOf(P, B, i)
                    /\ BytesOf(m, RunOf(P, B, i)) = BytesOf(l, RunOf(P, B, i))
                    /\ TimeOf(m, RunOf(P, B, i)) = TimeOf(l, RunOf(P, B, i))
  BY DEF Settled
<1>1. RunOf(P \cup {n}, C, i) = RunOf(P, B, i)
  BY RunStays
<1>2. PICK R : R = RunOf(P, B, i)
  OBVIOUS
<1>3. R \in SUBSET P /\ Min(R) \in R /\ Max(R) \in R
  BY <1>2, RunFacts
<1>4. BytesOf(m, R) = BytesOf(l, R) /\ TimeOf(m, R) = TimeOf(l, R)
  BY ONLY <1>3, ValuesStay, Agree(l, m, P)
<1>5. QED
  BY <1>1, <1>2, <1>4

\* While the last run has less than 4 packets nothing changes.
LEMMA ListsStay ==
    ASSUME NEW P, NEW B, NEW n, Placed(P, B, n), NEW l, NEW m, Agree(l, m, P),
           NEW C, C = B \/ C = B \cup {n}, NEW a \in C, \A k \in C : k <= a,
           n \in C => a = n,
           a \notin LongOf(P, B), ~(Cardinality(RunOf(P \cup {n}, C, a)) >= 4)
    PROVE  /\ LongOf(P \cup {n}, C) = LongOf(P, B)
           /\ Packs(P \cup {n}, C) = Packs(P, B)
           /\ Sizes(m, P \cup {n}, C) = Sizes(l, P, B)
           /\ Spans(m, P \cup {n}, C) = Spans(l, P, B)
<1>1. Settled(l, m, P, B, n, C, a)
  BY OthersSettled
<1>2. LongOf(P \cup {n}, C) = LongOf(P, B)
  <2>1. \A i \in C : i \in B \/ i = a
    OBVIOUS
  <2>2. \A i \in LongOf(P \cup {n}, C) : i \in B /\ i # a
    BY <2>1 DEF LongOf
  <2>3. \A i \in LongOf(P, B) : i \in B /\ i # a /\ i \in C
    BY DEF LongOf
  <2>4. \A i \in B : i # a => (i \in LongOf(P \cup {n}, C) <=> i \in LongOf(P, B))
    BY <1>1 DEF Settled, LongOf
  <2>5. QED
    BY <2>2, <2>3, <2>4
<1>3. ASSUME NEW i \in LongOf(P, B)
      PROVE  /\ RunOf(P \cup {n}, C, i) = RunOf(P, B, i)
             /\ BytesOf(m, RunOf(P, B, i)) = BytesOf(l, RunOf(P, B, i))
             /\ TimeOf(m, RunOf(P, B, i)) = TimeOf(l, RunOf(P, B, i))
  BY <1>1 DEF Settled, LongOf
<1>4. QED
  BY <1>2, <1>3 DEF Packs, Sizes, Spans

\* What a packet n adds to the sums, when it makes the last run, R from a to
\* z with k packets, one of 4 or more.
Adding(l, m, P, B, n, a, z, R, k) ==
    /\ Cardinality(LongOf(P \cup {n}, B)) =
         Cardinality(LongOf(P, B)) + (IF k >= 4 THEN 0 ELSE 1)
    /\ SumFunction(Packs(P \cup {n}, B)) =
         SumFunction(Packs(P, B)) + (IF k >= 4 THEN 1 ELSE k + 1)
    /\ SumFunction(Sizes(m, P \cup {n}, B)) =
         SumFunction(Sizes(l, P, B))
           + (IF k >= 4 THEN m[n].payload_bytes
                        ELSE BytesOf(l, R) + m[n].payload_bytes)
    /\ SumFunction(Spans(m, P \cup {n}, B)) =
         SumFunction(Spans(l, P, B))
           + (IF k >= 4 THEN m[n].timestamp - l[z].timestamp
                        ELSE m[n].timestamp - l[a].timestamp)

\* From the fourth packet on it adds to the sums: all it has, then each more.
LEMMA ListsGrow ==
    ASSUME NEW P, NEW B, NEW n, Placed(P, B, n), NEW l, NEW m, Agree(l, m, P),
           Dated(l, P), Dated(m, P \cup {n}),
           NEW a \in B, \A i \in B : i <= a, NEW z \in P, \A i \in P : i <= z,
           NEW R, R = RunOf(P, B, a), NEW k, k = Cardinality(R), k + 1 >= 4,
           NEW T, T = P \cup {n}
    PROVE  Adding(l, m, P, B, n, a, z, R, k)
<1>1. /\ n \in Nat /\ n \notin P /\ B \subseteq P
      /\ \A j \in P : j \in Nat /\ j < n
      /\ m[n].timestamp \in Int /\ m[n].payload_bytes \in Int
      /\ \A i \in P : l[i].timestamp \in Int /\ l[i].payload_bytes \in Int /\ m[i] = l[i]
  BY PlacedFacts DEF Dated, Agree
<1>2. /\ R \subseteq P /\ a \in R /\ IsFiniteSet(R) /\ k \in Nat
      /\ Min(R) = a /\ Max(R) \in R
      /\ BytesOf(l, R) \in Int /\ TimeOf(l, R) \in Int
  BY RunFacts, RunValues
<1>3. /\ R = {j \in P : a <= j}
      /\ RunOf(T, B, a) = R \cup {n} /\ n \notin R
  <2>1. R = {j \in P : a <= j}
    BY RunToEnd
  <2>2. a \in B /\ \A i \in B : i <= a
    OBVIOUS
  <2>3. RunOf(P \cup {n}, B, a) = RunOf(P, B, a) \cup {n}
    BY ONLY <2>2, RunExtends, Placed(P, B, n)
  <2>4. QED
    BY <1>1, <2>1, <2>3
<1>4. Max(R) = z
  <2>1. a \in Nat /\ z \in Nat /\ a <= z
    BY <1>1
  <2>2. z \in R /\ R \in SUBSET Nat /\ \A i \in R : i <= z
    BY <1>1, <1>3, <2>1
  <2>3. QED
    BY ONLY <2>2, MaxIs
<1>5. TimeOf(l, R) = l[z].timestamp - l[a].timestamp
  BY <1>2, <1>4 DEF TimeOf
<1>6. Cardinality(R \cup {n}) = k + 1
  BY <1>2, <1>3, FS_AddElement
<1>7. BytesOf(m, R \cup {n}) = BytesOf(l, R) + m[n].payload_bytes
  <2>1. Follows(l, m, n, R)
    BY <1>2, <1>3 DEF Follows, Agree, Dated
  <2>2. QED
    BY ONLY <2>1, BytesGrow
<1>8. TimeOf(m, R \cup {n}) = m[n].timestamp - l[a].timestamp
  <2>1. /\ R \cup {n} \in SUBSET Nat /\ n \in R \cup {n} /\ a \in R \cup {n}
        /\ \A i \in R \cup {n} : i <= n /\ a <= i
    BY <1>1, <1>2, <1>3
  <2>2. Max(R \cup {n}) = n /\ Min(R \cup {n}) = a
    BY ONLY <2>1, MaxIs, MinIs
  <2>3. QED
    BY <1>1, <2>2 DEF TimeOf
<1>9. Settled(l, m, P, B, n, B, a)
  BY OthersSettled
<1>10. /\ IsFiniteSet(LongOf(P, B)) /\ Cardinality(LongOf(P, B)) \in Nat
       /\ Packs(P, B) \in [LongOf(P, B) -> Int]
       /\ Sizes(l, P, B) \in [LongOf(P, B) -> Int]
       /\ Spans(l, P, B) \in [LongOf(P, B) -> Int]
  BY ListTypes
<1>11. /\ Packs(T, B) \in [LongOf(T, B) -> Int]
       /\ Sizes(m, T, B) \in [LongOf(T, B) -> Int]
       /\ Spans(m, T, B) \in [LongOf(T, B) -> Int]
  <2>1. Placed(T, B, n + 1)
    BY <1>1 DEF Placed
  <2>2. Dated(m, T)
    OBVIOUS
  <2>3. QED
    BY ONLY <2>1, <2>2, ListTypes
<1>12. a \in LongOf(P, B) <=> k >= 4
  BY DEF LongOf
<1>13. LongOf(T, B) = LongOf(P, B) \cup {a}
  <2>1. a \in LongOf(T, B)
    BY <1>3, <1>6 DEF LongOf
  <2>2. \A i \in B : i # a => (i \in LongOf(T, B) <=> i \in LongOf(P, B))
    BY <1>9 DEF Settled, LongOf
  <2>3. LongOf(T, B) \subseteq B /\ LongOf(P, B) \subseteq B
    BY DEF LongOf
  <2>4. QED
    BY <2>1, <2>2, <2>3
<1>14. Cardinality(LongOf(T, B)) =
         Cardinality(LongOf(P, B)) + (IF k >= 4 THEN 0 ELSE 1)
  <2>1. PICK S : S = LongOf(P, B)
    OBVIOUS
  <2>2. IsFiniteSet(S) /\ Cardinality(S) \in Nat
    BY <1>10, <2>1
  <2>3. CASE k >= 4
    <3>1. LongOf(T, B) = S
      BY <1>12, <1>13, <2>1, <2>3
    <3>2. QED
      BY ONLY <2>1, <2>2, <2>3, <3>1
  <2>4. CASE ~(k >= 4)
    <3>1. LongOf(T, B) = S \cup {a} /\ a \notin S
      BY <1>12, <1>13, <2>1, <2>4
    <3>2. Cardinality(S \cup {a}) = Cardinality(S) + 1
      BY ONLY <2>2, <3>1, FS_AddElement
    <3>3. QED
      BY ONLY <2>1, <2>4, <3>1, <3>2
  <2>5. QED
    BY <2>3, <2>4
<1>15. PICK S, U, d1, d2, d3 :
         /\ S = LongOf(P, B) /\ U = LongOf(T, B)
         /\ d1 = IF k >= 4 THEN 1 ELSE k + 1
         /\ d2 = IF k >= 4 THEN m[n].payload_bytes
                           ELSE BytesOf(l, R) + m[n].payload_bytes
         /\ d3 = IF k >= 4 THEN m[n].timestamp - l[z].timestamp
                           ELSE m[n].timestamp - l[a].timestamp
  OBVIOUS
<1>16. d1 \in Int /\ d2 \in Int /\ d3 \in Int
  BY <1>1, <1>2, <1>15
<1>17. /\ U = S \cup {a} /\ IsFiniteSet(S) /\ (a \in S <=> k >= 4)
       /\ \A i \in S : i \in U /\ i \in B
  BY <1>10, <1>12, <1>13, <1>15 DEF LongOf
<1>18. SumFunction(Packs(T, B)) = SumFunction(Packs(P, B)) + d1
  <2>1. PICK f, g : f = Packs(P, B) /\ g = Packs(T, B)
    OBVIOUS
  <2>2. f \in [S -> Int] /\ g \in [U -> Int]
    BY <1>10, <1>11, <1>15, <2>1
  <2>3. /\ \A i \in S : f[i] = Cardinality(RunOf(P, B, i))
        /\ \A i \in U : g[i] = Cardinality(RunOf(T, B, i))
    BY <1>15, <2>1 DEF Packs
  <2>4. \A i \in S : i # a => g[i] = f[i]
    BY <1>9, <1>17, <2>3 DEF Settled
  <2>5. g[a] = (IF a \in S THEN f[a] + d1 ELSE d1)
    BY <1>2, <1>3, <1>6, <1>15, <1>17, <2>3
  <2>6. SumFunction(g) = SumFunction(f) + d1
    BY ONLY <1>16, <1>17, <2>2, <2>4, <2>5, SumAdds
  <2>7. QED
    BY <2>1, <2>6
<1>19. SumFunction(Sizes(m, T, B)) = SumFunction(Sizes(l, P, B)) + d2
  <2>1. PICK f, g : f = Sizes(l, P, B) /\ g = Sizes(m, T, B)
    OBVIOUS
  <2>2. f \in [S -> Int] /\ g \in [U -> Int]
    BY <1>10, <1>11, <1>15, <2>1
  <2>3. /\ \A i \in S : f[i] = BytesOf(l, RunOf(P, B, i))
        /\ \A i \in U : g[i] = BytesOf(m, RunOf(T, B, i))
    BY <1>15, <2>1 DEF Sizes
  <2>4. \A i \in S : i # a => g[i] = f[i]
    BY <1>9, <1>17, <2>3 DEF Settled
  <2>5. g[a] = (IF a \in S THEN f[a] + d2 ELSE d2)
    BY <1>2, <1>3, <1>7, <1>15, <1>17, <2>3
  <2>6. SumFunction(g) = SumFunction(f) + d2
    BY ONLY <1>16, <1>17, <2>2, <2>4, <2>5, SumAdds
  <2>7. QED
    BY <2>1, <2>6
<1>20. SumFunction(Spans(m, T, B)) = SumFunction(Spans(l, P, B)) + d3
  <2>1. PICK f, g : f = Spans(l, P, B) /\ g = Spans(m, T, B)
    OBVIOUS
  <2>2. f \in [S -> Int] /\ g \in [U -> Int]
    BY <1>10, <1>11, <1>15, <2>1
  <2>3. /\ \A i \in S : f[i] = TimeOf(l, RunOf(P, B, i))
        /\ \A i \in U : g[i] = TimeOf(m, RunOf(T, B, i))
    BY <1>15, <2>1 DEF Spans
  <2>4. \A i \in S : i # a => g[i] = f[i]
    BY <1>9, <1>17, <2>3 DEF Settled
  <2>5. g[a] = (IF a \in S THEN f[a] + d3 ELSE d3)
    <3>1. g[a] = m[n].timestamp - l[a].timestamp
      BY <1>3, <1>8, <1>17, <2>3
    <3>2. a \in S => f[a] = l[z].timestamp - l[a].timestamp
      BY <1>5, <2>3
    <3>3. /\ l[z].timestamp \in Int /\ l[a].timestamp \in Int /\ m[n].timestamp \in Int
      BY <1>1
    <3>4. QED
      BY ONLY <1>15, <1>17, <3>1, <3>2, <3>3
  <2>6. SumFunction(g) = SumFunction(f) + d3
    BY ONLY <1>16, <1>17, <2>2, <2>4, <2>5, SumAdds
  <2>7. QED
    BY <2>1, <2>6
<1>21. QED
  BY <1>14, <1>15, <1>18, <1>19, <1>20 DEF Adding

-----------------------------------------------------------------------------
(* A tracker and the runs.                                                 *)

Committed(b, l, P, B) ==
    /\ b.state_count = Cardinality(LongOf(P, B))
    /\ b.packet_count = SumFunction(Packs(P, B))
    /\ b.size_total = SumFunction(Sizes(l, P, B))
    /\ b.duration = SumFunction(Spans(l, P, B))

NoRun(b, P) == P = {} /\ b.start_helper = 0 /\ b.last_bulk_ts = 0

\* The last run, from a to z; none of the other direction's packets Q lies in
\* it, and one that follows it is the reason why it may have been ended; or
\* it is a single packet at 0.
InRun(b, l, P, B, Q, a, z) ==
    /\ a \in B /\ \A i \in B : i <= a
    /\ z \in P /\ \A i \in P : i <= z
    /\ b.last_bulk_ts = l[z].timestamp
    /\ b.packet_count_helper = Cardinality(RunOf(P, B, a))
    /\ b.size_helper = BytesOf(l, RunOf(P, B, a))
    /\ b.start_helper \in {0, l[a].timestamp}
    /\ \A q \in Q : q < a \/ z < q
    /\ b.start_helper = 0 => (\E q \in Q : z < q) \/ l[z].timestamp = 0

Tracks(b, l, P, B, Q) ==
    /\ b \in Bulk
    /\ Committed(b, l, P, B)
    /\ NoRun(b, P) \/ \E a, z : InRun(b, l, P, B, Q, a, z)

\* The first packet of a run.
LEMMA StartTracks ==
    ASSUME NEW P, NEW B, NEW n, Placed(P, B, n), NEW Q, \A q \in Q : q < n,
           NEW l, NEW m, Agree(l, m, P), Dated(m, P \cup {n}),
           NEW b \in Bulk, Committed(b, l, P, B),
           NEW c, c = StartRun(b, m[n].timestamp, m[n].payload_bytes)
    PROVE  Tracks(c, m, P \cup {n}, B \cup {n}, Q)
<1>1. /\ n \in Nat /\ n \notin P /\ n \notin B /\ B \subseteq P
      /\ \A i \in P : i \in Nat /\ i < n
      /\ m[n].timestamp \in Int /\ m[n].payload_bytes \in Nat
  BY PlacedFacts DEF Dated
<1>2. /\ c \in Bulk /\ c.start_helper = m[n].timestamp
      /\ c.last_bulk_ts = m[n].timestamp /\ c.packet_count_helper = 1
      /\ c.size_helper = m[n].payload_bytes
      /\ c.state_count = b.state_count /\ c.packet_count = b.packet_count
      /\ c.size_total = b.size_total /\ c.duration = b.duration
  BY <1>1 DEF StartRun, Bulk
<1>3. RunOf(P \cup {n}, B \cup {n}, n) = {n}
  BY RunBegins
<1>4. Cardinality({n}) = 1
  BY FS_Singleton
<1>5. BytesOf(m, {n}) = m[n].payload_bytes
  <2>1. PICK f : f = [i \in {n} |-> m[i].payload_bytes]
    OBVIOUS
  <2>2. f \in [{n} -> Int] /\ f[n] = m[n].payload_bytes
    BY <1>1, <2>1
  <2>3. SumFunction(f) = f[n]
    BY ONLY <2>2, SumOfOne
  <2>4. QED
    BY <2>1, <2>2, <2>3 DEF BytesOf
<1>6. Committed(c, m, P \cup {n}, B \cup {n})
  <2>1. PICK C : C = B \cup {n}
    OBVIOUS
  <2>2. /\ n \in C /\ \A k \in C : k <= n
        /\ n \notin LongOf(P, B)
        /\ ~(Cardinality(RunOf(P \cup {n}, C, n)) >= 4)
    BY <1>1, <1>3, <1>4, <2>1 DEF LongOf
  <2>3. /\ LongOf(P \cup {n}, C) = LongOf(P, B)
        /\ Packs(P \cup {n}, C) = Packs(P, B)
        /\ Sizes(m, P \cup {n}, C) = Sizes(l, P, B)
        /\ Spans(m, P \cup {n}, C) = Spans(l, P, B)
    BY <2>1, <2>2, ListsStay
  <2>4. QED
    BY <1>2, <2>1, <2>3 DEF Committed
<1>7. InRun(c, m, P \cup {n}, B \cup {n}, Q, n, n)
  BY <1>1, <1>2, <1>3, <1>4, <1>5, SMTT(30) DEF InRun
<1>8. QED
  BY <1>2, <1>6, <1>7 DEF Tracks

\* A packet that follows in the run.
LEMMA ExtendTracks ==
    ASSUME NEW P, NEW B, NEW n, Placed(P, B, n), NEW Q,
           NEW l, NEW m, Agree(l, m, P), Dated(l, P), Dated(m, P \cup {n}),
           NEW b \in Bulk, Committed(b, l, P, B),
           NEW a, NEW z, InRun(b, l, P, B, Q, a, z), b.start_helper # 0,
           \A q \in Q : ~(z < q),
           NEW c, c = ExtendRun(b, m[n].timestamp, m[n].payload_bytes)
    PROVE  Tracks(c, m, P \cup {n}, B, Q)
<1>1. /\ n \in Nat /\ n \notin P /\ B \subseteq P
      /\ \A i \in P : i \in Nat /\ i < n
      /\ m[n].timestamp \in Int /\ m[n].payload_bytes \in Nat
  BY PlacedFacts DEF Dated
<1>2. PICK R, k, T : R = RunOf(P, B, a) /\ k = Cardinality(R) /\ T = P \cup {n}
  OBVIOUS
<1>3. /\ a \in B /\ \A i \in B : i <= a
      /\ z \in P /\ \A i \in P : i <= z
      /\ b.last_bulk_ts = l[z].timestamp
      /\ b.packet_count_helper = k
      /\ b.size_helper = BytesOf(l, R)
      /\ b.start_helper = l[a].timestamp
      /\ \A q \in Q : q < a
  BY <1>2 DEF InRun
<1>4. /\ R \subseteq P /\ IsFiniteSet(R) /\ k \in Nat
      /\ RunOf(T, B, a) = R \cup {n} /\ n \notin R
  <2>1. /\ RunOf(P, B, a) \subseteq P /\ IsFiniteSet(RunOf(P, B, a))
        /\ Cardinality(RunOf(P, B, a)) \in Nat
    BY <1>3, RunFacts
  <2>2. RunOf(P \cup {n}, B, a) = RunOf(P, B, a) \cup {n}
    BY <1>3, RunExtends
  <2>3. QED
    BY ONLY <1>1, <1>2, <2>1, <2>2
<1>5. Cardinality(R \cup {n}) = k + 1
  BY <1>2, <1>4, FS_AddElement
<1>6. BytesOf(m, R \cup {n}) = BytesOf(l, R) + m[n].payload_bytes
  <2>1. Follows(l, m, n, R)
    BY <1>1, <1>4 DEF Follows, Agree, Dated
  <2>2. QED
    BY ONLY <2>1, BytesGrow
<1>7. PICK ts, y : ts = m[n].timestamp /\ y = m[n].payload_bytes
  OBVIOUS
<1>8. ts \in Int /\ y \in Nat /\ c = ExtendRun(b, ts, y)
  BY <1>1, <1>7
<1>9. /\ c \in Bulk
      /\ c.packet_count_helper = k + 1 /\ c.size_helper = b.size_helper + y
      /\ c.last_bulk_ts = ts /\ c.start_helper = b.start_helper
      /\ k + 1 < 4 => /\ c.state_count = b.state_count
                      /\ c.packet_count = b.packet_count
                      /\ c.size_total = b.size_total /\ c.duration = b.duration
      /\ k + 1 >= 4 =>
           /\ c.state_count = b.state_count + (IF k >= 4 THEN 0 ELSE 1)
           /\ c.packet_count = b.packet_count + (IF k >= 4 THEN 1 ELSE k + 1)
           /\ c.size_total = b.size_total
                + (IF k >= 4 THEN y ELSE b.size_helper + y)
           /\ c.duration = b.duration
                + (IF k >= 4 THEN ts - b.last_bulk_ts ELSE ts - b.start_helper)
  <2>1. PICK h : h = b.packet_count_helper + 1
    OBVIOUS
  <2>2. /\ c \in Bulk
        /\ c.packet_count_helper = h
        /\ c.state_count = b.state_count + (IF h = 4 THEN 1 ELSE 0)
        /\ c.packet_count = b.packet_count + (IF h = 4 THEN 4
                                             ELSE IF h > 4 THEN 1 ELSE 0)
        /\ c.size_helper = b.size_helper + y
        /\ c.size_total = b.size_total + (IF h = 4 THEN b.size_helper + y
                                         ELSE IF h > 4 THEN y ELSE 0)
        /\ c.duration = b.duration + (IF h = 4 THEN ts - b.start_helper
                                     ELSE IF h > 4 THEN ts - b.last_bulk_ts ELSE 0)
        /\ c.last_bulk_ts = ts /\ c.start_helper = b.start_helper
    BY <1>8, <2>1, ExtendRunFacts
  <2>3. /\ b.state_count \in Nat /\ b.packet_count \in Nat /\ b.size_total \in Nat
        /\ b.duration \in Int /\ h = k + 1 /\ k \in Nat
    BY <1>3, <1>4, <2>1 DEF Bulk
  <2>4. QED
    BY ONLY <2>2, <2>3
<1>10. Committed(c, m, T, B)
  <2>1. CASE k + 1 < 4
    <3>1. /\ ~(Cardinality(RunOf(T, B, a)) >= 4) /\ a \notin LongOf(P, B)
          /\ n \notin B
      <4>1. n \notin B
        BY <1>1
      <4>2. ~(k + 1 >= 4) /\ ~(k >= 4)
        BY ONLY <1>4, <2>1
      <4>3. Cardinality(RunOf(T, B, a)) = k + 1
        BY <1>4, <1>5
      <4>4. a \notin LongOf(P, B)
        BY <1>2, <4>2 DEF LongOf
      <4>5. QED
        BY ONLY <4>1, <4>2, <4>3, <4>4
    <3>2. /\ LongOf(T, B) = LongOf(P, B) /\ Packs(T, B) = Packs(P, B)
          /\ Sizes(m, T, B) = Sizes(l, P, B) /\ Spans(m, T, B) = Spans(l, P, B)
      BY <1>2, <1>3, <3>1, ListsStay
    <3>3. QED
      BY <1>9, <2>1, <3>2 DEF Committed
  <2>2. CASE k + 1 >= 4
    <3>1. Adding(l, m, P, B, n, a, z, R, k)
      <4>1. /\ a \in B /\ \A i \in B : i <= a
            /\ z \in P /\ \A i \in P : i <= z
        BY <1>3
      <4>2. R = RunOf(P, B, a) /\ k = Cardinality(R) /\ T = P \cup {n}
        BY <1>2
      <4>3. /\ Placed(P, B, n) /\ Agree(l, m, P)
            /\ Dated(l, P) /\ Dated(m, P \cup {n})
        OBVIOUS
      <4>4. QED
        BY ONLY <2>2, <4>1, <4>2, <4>3, ListsGrow
    <3>2. QED
      BY ONLY <1>2, <1>3, <1>7, <1>9, <2>2, <3>1, Committed(b, l, P, B)
         DEF Committed, Adding
  <2>3. QED
    BY <1>4, <2>1, <2>2
<1>11. InRun(c, m, T, B, Q, a, n)
  <2>1. m[a] = l[a] /\ a < n
    BY <1>1, <1>3 DEF Agree
  <2>2. /\ n \in T /\ \A i \in T : i <= n
    BY <1>1, <1>2
  <2>3. c.packet_count_helper = Cardinality(RunOf(T, B, a))
        /\ c.size_helper = BytesOf(m, RunOf(T, B, a))
    BY <1>3, <1>4, <1>5, <1>6, <1>7, <1>9
  <2>4. c.start_helper = m[a].timestamp /\ c.start_helper # 0
    BY <1>3, <1>9, <2>1
  <2>5. QED
    BY <1>3, <1>7, <1>9, <2>2, <2>3, <2>4 DEF InRun
<1>12. QED
  BY <1>2, <1>9, <1>10, <1>11 DEF Tracks

\* The packets up to n - 1: later ones have later timestamps.
Rising(l, n) ==
    /\ n \in Nat
    /\ \A i \in 1 .. (n - 1) :
         /\ l[i].timestamp \in Int /\ l[i].timestamp >= 0
         /\ l[i].payload_bytes \in Nat
    /\ \A i, j \in 1 .. (n - 1) : i < j => l[i].timestamp < l[j].timestamp

\* The time of the last of some packets, 0 when there is none.
LastOf(l, P) == IF P = {} THEN 0 ELSE l[Max(P)].timestamp

LEMMA RisingDated ==
    ASSUME NEW l, NEW n, Rising(l, n), NEW P \in SUBSET (1 .. (n - 1))
    PROVE  /\ Dated(l, P) /\ n \in Nat
           /\ \A i \in P : /\ i \in Nat /\ i < n
                           /\ l[i].timestamp \in Int /\ l[i].timestamp >= 0
           /\ \A i, j \in P : i < j => l[i].timestamp < l[j].timestamp
<1>1. /\ n \in Nat
      /\ \A i \in 1 .. (n - 1) : /\ i \in Nat /\ i < n
  BY DEF Rising
<1>2. \A i \in P : /\ l[i].timestamp \in Int /\ l[i].timestamp >= 0
                   /\ l[i].payload_bytes \in Nat
  BY DEF Rising
<1>3. \A i, j \in P : i < j => l[i].timestamp < l[j].timestamp
  BY DEF Rising
<1>4. Dated(l, P)
  BY <1>2 DEF Dated
<1>5. QED
  BY <1>1, <1>2, <1>3, <1>4

LEMMA LastIn ==
    ASSUME NEW n \in Nat, NEW P \in SUBSET (1 .. (n - 1)), P # {}
    PROVE  Max(P) \in P /\ \A i \in P : i <= Max(P)
<1>1. n - 1 \in Nat
  <2>1. PICK i \in P : TRUE
    OBVIOUS
  <2>2. i \in Int /\ 1 <= i /\ i <= n - 1
    BY <2>1
  <2>3. QED
    BY <2>2
<1>2. PICK k : k = n - 1
  OBVIOUS
<1>3. k \in Nat /\ P \in SUBSET (1 .. k) /\ P # {}
  BY <1>1, <1>2
<1>4. QED
  BY ONLY <1>3, MaxOf

\* A run that the other direction interrupted is ended, and no other.
LEMMA InterruptTracks ==
    ASSUME NEW l, NEW n, Rising(l, n), NEW P, NEW B, Placed(P, B, n),
           NEW Q \in SUBSET (1 .. (n - 1)),
           NEW b \in Bulk, Committed(b, l, P, B),
           NEW a, NEW z, InRun(b, l, P, B, Q, a, z),
           NEW c, c = Interrupt(b, LastOf(l, Q))
    PROVE  /\ c \in Bulk /\ Committed(c, l, P, B) /\ InRun(c, l, P, B, Q, a, z)
           /\ c.start_helper = 0 <=>
                (\E q \in Q : z < q) \/ l[z].timestamp = 0
<1>1. PICK other : other = LastOf(l, Q)
  OBVIOUS
<1>2. /\ c \in Bulk
      /\ c.last_bulk_ts = b.last_bulk_ts
      /\ c.packet_count_helper = b.packet_count_helper
      /\ c.size_helper = b.size_helper
      /\ c.state_count = b.state_count /\ c.packet_count = b.packet_count
      /\ c.size_total = b.size_total /\ c.duration = b.duration
      /\ c.start_helper = IF other > b.start_helper THEN 0 ELSE b.start_helper
  BY <1>1 DEF Interrupt, Bulk
<1>3. /\ a \in B /\ \A i \in B : i <= a
      /\ z \in P /\ \A i \in P : i <= z
      /\ b.last_bulk_ts = l[z].timestamp
      /\ b.packet_count_helper = Cardinality(RunOf(P, B, a))
      /\ b.size_helper = BytesOf(l, RunOf(P, B, a))
      /\ b.start_helper \in {0, l[a].timestamp}
      /\ \A q \in Q : q < a \/ z < q
      /\ b.start_helper = 0 => (\E q \in Q : z < q) \/ l[z].timestamp = 0
  BY DEF InRun
<1>4. /\ a \in P /\ a \in 1 .. (n - 1) /\ z \in 1 .. (n - 1) /\ a <= z
      /\ n \in Nat
  BY <1>3 DEF Placed
<1>5. /\ l[a].timestamp \in Int /\ l[a].timestamp >= 0
      /\ \A q \in Q : /\ l[q].timestamp \in Int /\ l[q].timestamp >= 0
                      /\ q < a => l[q].timestamp < l[a].timestamp
                      /\ a < q => l[a].timestamp < l[q].timestamp
  BY <1>4 DEF Rising
<1>6. c.start_helper \in {0, l[a].timestamp}
  BY <1>2, <1>3
<1>7. ASSUME NEW q \in Q, z < q
      PROVE  c.start_helper = 0
  <2>1. Max(Q) \in Q /\ q <= Max(Q)
    BY <1>4, LastIn
  <2>2. a < Max(Q)
    <3>1. \A i \in 1 .. (n - 1) : i \in Nat
      BY <1>4
    <3>2. PICK k : k = Max(Q)
      OBVIOUS
    <3>3. a \in Nat /\ z \in Nat /\ q \in Nat /\ k \in Nat
      BY <1>4, <1>7, <2>1, <3>1, <3>2
    <3>4. QED
      BY <1>4, <1>7, <2>1, <3>2, <3>3
  <2>3. l[a].timestamp < other
    BY <1>1, <1>5, <2>1, <2>2 DEF LastOf
  <2>4. other \in Int
    BY <1>1, <1>5, <2>1 DEF LastOf
  <2>5. other > b.start_helper
    BY <1>3, <1>5, <2>3, <2>4
  <2>6. QED
    BY <1>2, <2>5
<1>8. ASSUME c.start_helper = 0
      PROVE  (\E q \in Q : z < q) \/ l[z].timestamp = 0
  <2>1. CASE b.start_helper = 0
    BY <1>3, <2>1
  <2>2. CASE b.start_helper = l[a].timestamp /\ b.start_helper # 0
    <3>1. other > l[a].timestamp
      BY <1>2, <1>5, <1>8, <2>2
    <3>2. Q # {}
      BY <1>1, <1>5, <3>1 DEF LastOf
    <3>3. Max(Q) \in Q /\ l[Max(Q)].timestamp > l[a].timestamp
      BY <1>1, <1>4, <3>1, <3>2, LastIn DEF LastOf
    <3>4. PICK k : k = Max(Q)
      OBVIOUS
    <3>5. k \in Q /\ l[k].timestamp > l[a].timestamp
      BY <3>3, <3>4
    <3>6. ~(k < a)
      BY ONLY <1>5, <3>5
    <3>7. QED
      BY <1>3, <3>5, <3>6
  <2>3. QED
    BY <1>3, <2>1, <2>2
<1>9. Committed(c, l, P, B)
  BY <1>2 DEF Committed
<1>10. InRun(c, l, P, B, Q, a, z)
  BY <1>2, <1>3, <1>6, <1>8 DEF InRun
\* Only the first packet of all can be at 0.
<1>11. ASSUME l[z].timestamp = 0
       PROVE  c.start_helper = 0
  <2>1. l[a].timestamp = 0
    <3>1. a = z \/ a < z
      BY <1>4
    <3>2. a < z => l[a].timestamp < l[z].timestamp
      BY <1>4 DEF Rising
    <3>3. QED
      BY <1>5, <1>11, <3>1, <3>2
  <2>2. QED
    BY <1>6, <2>1
<1>12. QED
  BY <1>2, <1>7, <1>8, <1>9, <1>10, <1>11

\* A tracker holds the time of the last payload packet of its direction.
LEMMA LastBulk ==
    ASSUME NEW l, NEW n, Rising(l, n), NEW P, NEW B, Placed(P, B, n),
           NEW Q, NEW b, Tracks(b, l, P, B, Q)
    PROVE  b.last_bulk_ts = LastOf(l, P)
<1>1. CASE NoRun(b, P)
  BY <1>1 DEF NoRun, LastOf
<1>2. ASSUME NEW a, NEW z, InRun(b, l, P, B, Q, a, z)
      PROVE  b.last_bulk_ts = LastOf(l, P)
  <2>1. z \in P /\ b.last_bulk_ts = l[z].timestamp /\ \A i \in P : i <= z
    BY <1>2 DEF InRun
  <2>2. P \in SUBSET Nat
    BY PlacedFacts
  <2>3. Max(P) = z
    BY ONLY <2>1, <2>2, MaxIs
  <2>4. QED
    BY <2>1, <2>3 DEF LastOf
<1>3. QED
  BY <1>1, <1>2 DEF Tracks

\* Packets that carry nothing, and those of the other direction.
LEMMA OtherTracks ==
    ASSUME NEW P, NEW B, NEW n, Placed(P, B, n), NEW l, NEW m, Agree(l, m, P),
           NEW Q, NEW b, Tracks(b, l, P, B, Q), NEW U, U = Q \/ U = Q \cup {n}
    PROVE  Tracks(b, m, P, B, U)
<1>1. ASSUME NEW i \in B
      PROVE  /\ BytesOf(m, RunOf(P, B, i)) = BytesOf(l, RunOf(P, B, i))
             /\ TimeOf(m, RunOf(P, B, i)) = TimeOf(l, RunOf(P, B, i))
             /\ i \in P
  <2>1. PICK R : R = RunOf(P, B, i)
    OBVIOUS
  <2>2. R \in SUBSET P /\ Min(R) \in R /\ Max(R) \in R
    BY <2>1, RunFacts
  <2>3. BytesOf(m, R) = BytesOf(l, R) /\ TimeOf(m, R) = TimeOf(l, R)
    BY ONLY <2>2, ValuesStay, Agree(l, m, P)
  <2>4. QED
    BY <2>1, <2>3, PlacedFacts
<1>2. Sizes(m, P, B) = Sizes(l, P, B) /\ Spans(m, P, B) = Spans(l, P, B)
  BY <1>1 DEF Sizes, Spans, LongOf
<1>3. Committed(b, m, P, B)
  BY <1>2 DEF Tracks, Committed
<1>4. ASSUME NEW a, NEW z, InRun(b, l, P, B, Q, a, z)
      PROVE  InRun(b, m, P, B, U, a, z)
  <2>1. /\ a \in B /\ z \in P /\ m[a] = l[a] /\ m[z] = l[z]
        /\ BytesOf(m, RunOf(P, B, a)) = BytesOf(l, RunOf(P, B, a))
    BY <1>1, <1>4 DEF InRun, Agree
  <2>2. z < n
    BY <2>1, PlacedFacts
  <2>3. \A q \in U : q < a \/ z < q
    BY <1>4, <2>2 DEF InRun
  <2>4. b.start_helper = 0 => (\E q \in U : z < q) \/ m[z].timestamp = 0
    BY <1>4, <2>1, <2>2 DEF InRun
  <2>5. QED
    BY <1>4, <2>1, <2>3, <2>4 DEF InRun
<1>5. QED
  BY <1>3, <1>4 DEF Tracks

\* A packet without a payload, at n.
LEMMA SkipTracks ==
    ASSUME NEW l, NEW n, Rising(l, n), NEW P, NEW B, Placed(P, B, n),
           NEW Q \in SUBSET (1 .. (n - 1)), NEW m, Agree(l, m, P),
           NEW b, Tracks(b, l, P, B, Q), NEW ts,
           NEW c, c = Update(b, ts, 0, LastOf(l, Q))
    PROVE  Tracks(c, m, P, B, Q)
<1>1. b \in Bulk /\ Committed(b, l, P, B) /\ c = Interrupt(b, LastOf(l, Q))
  BY DEF Tracks, Update
<1>2. CASE NoRun(b, P)
  <2>1. /\ c \in Bulk /\ c.start_helper = 0 /\ c.last_bulk_ts = b.last_bulk_ts
        /\ c.state_count = b.state_count /\ c.packet_count = b.packet_count
        /\ c.size_total = b.size_total /\ c.duration = b.duration
    BY <1>1, <1>2 DEF Interrupt, Bulk, NoRun
  <2>2. Tracks(c, l, P, B, Q)
    BY <1>1, <1>2, <2>1 DEF Tracks, NoRun, Committed
  <2>3. QED
    BY ONLY <2>2, OtherTracks, Placed(P, B, n), Agree(l, m, P)
<1>3. ASSUME NEW a, NEW z, InRun(b, l, P, B, Q, a, z)
      PROVE  Tracks(c, m, P, B, Q)
  <2>1. c \in Bulk /\ Committed(c, l, P, B) /\ InRun(c, l, P, B, Q, a, z)
    BY <1>1, <1>3, InterruptTracks
  <2>2. Tracks(c, l, P, B, Q)
    BY <2>1 DEF Tracks
  <2>3. QED
    BY ONLY <2>2, OtherTracks, Placed(P, B, n), Agree(l, m, P)
<1>4. QED
  BY <1>2, <1>3 DEF Tracks

\* What makes a payload packet n begin a run: it is the first, it comes more
\* than OneSecond after the last or after one at 0, or one of Q is in between.
Opens(l, m, n, P, Q) ==
    \/ P = {}
    \/ m[n].timestamp - l[Max(P)].timestamp > OneSecond
    \/ l[Max(P)].timestamp = 0
    \/ \E q \in Q : Max(P) < q

LEMMA TakeTracks ==
    ASSUME NEW l, NEW n, Rising(l, n), NEW P, NEW B, Placed(P, B, n),
           NEW Q \in SUBSET (1 .. (n - 1)), NEW m, Agree(l, m, P),
           Dated(m, P \cup {n}), m[n].payload_bytes > 0,
           NEW b, Tracks(b, l, P, B, Q),
           NEW C, C = (IF Opens(l, m, n, P, Q) THEN B \cup {n} ELSE B),
           NEW c, c = Update(b, m[n].timestamp, m[n].payload_bytes, LastOf(l, Q))
    PROVE  Tracks(c, m, P \cup {n}, C, Q)
<1>1. PICK ts, y, d : /\ ts = m[n].timestamp /\ y = m[n].payload_bytes
                      /\ d = Interrupt(b, LastOf(l, Q))
  OBVIOUS
<1>2. /\ b \in Bulk /\ Committed(b, l, P, B)
      /\ y \in Nat /\ y # 0
  BY <1>1 DEF Tracks, Dated
<1>3. c = IF d.start_helper = 0 \/ ts - d.last_bulk_ts > OneSecond
          THEN StartRun(d, ts, y) ELSE ExtendRun(d, ts, y)
  BY <1>1, <1>2 DEF Update
<1>4. Dated(l, P) /\ \A q \in Q : q < n
  <2>1. P \in SUBSET (1 .. (n - 1))
    BY DEF Placed
  <2>2. Dated(l, P)
    BY ONLY <2>1, RisingDated, Rising(l, n)
  <2>3. QED
    BY <2>2 DEF Rising
<1>5. ASSUME d \in Bulk, Committed(d, l, P, B), c = StartRun(d, ts, y), C = B \cup {n}
      PROVE  Tracks(c, m, P \cup {n}, C, Q)
  <2>1. Tracks(c, m, P \cup {n}, B \cup {n}, Q)
    <3>1. c = StartRun(d, m[n].timestamp, m[n].payload_bytes)
      BY <1>1, <1>5
    <3>2. /\ Placed(P, B, n) /\ Agree(l, m, P) /\ Dated(m, P \cup {n})
      OBVIOUS
    <3>3. \A q \in Q : q < n
      BY <1>4
    <3>4. QED
      BY ONLY <1>5, <3>1, <3>2, <3>3, StartTracks
  <2>2. QED
    BY <1>5, <2>1
<1>6. CASE NoRun(b, P)
  <2>1. /\ d \in Bulk /\ d.start_helper = 0
        /\ d.state_count = b.state_count /\ d.packet_count = b.packet_count
        /\ d.size_total = b.size_total /\ d.duration = b.duration
    BY <1>1, <1>2, <1>6 DEF Interrupt, Bulk, NoRun
  <2>2. Committed(d, l, P, B)
    BY <1>2, <2>1 DEF Committed
  <2>3. c = StartRun(d, ts, y) /\ C = B \cup {n}
    BY <1>3, <1>6, <2>1 DEF NoRun, Opens
  <2>4. QED
    BY <1>5, <2>1, <2>2, <2>3
<1>7. ASSUME NEW a, NEW z, InRun(b, l, P, B, Q, a, z)
      PROVE  Tracks(c, m, P \cup {n}, C, Q)
  <2>1. /\ d \in Bulk /\ Committed(d, l, P, B) /\ InRun(d, l, P, B, Q, a, z)
        /\ d.start_helper = 0 <=>
             (\E q \in Q : z < q) \/ l[z].timestamp = 0
    BY <1>1, <1>2, <1>7, InterruptTracks
  <2>2. z \in P /\ (\A i \in P : i <= z) /\ d.last_bulk_ts = l[z].timestamp
    BY <2>1 DEF InRun
  <2>3. Max(P) = z
    <3>1. P \in SUBSET Nat
      BY PlacedFacts
    <3>2. QED
      BY ONLY <2>2, <3>1, MaxIs
  <2>4. Opens(l, m, n, P, Q) <=>
          d.start_helper = 0 \/ ts - d.last_bulk_ts > OneSecond
    BY <1>1, <2>1, <2>2, <2>3 DEF Opens
  <2>5. CASE Opens(l, m, n, P, Q)
    BY <1>3, <1>5, <2>1, <2>4, <2>5
  <2>6. CASE ~Opens(l, m, n, P, Q)
    <3>1. /\ c = ExtendRun(d, ts, y) /\ C = B
          /\ d.start_helper # 0 /\ \A q \in Q : ~(z < q)
      BY <1>3, <2>1, <2>4, <2>6
    <3>2. Tracks(c, m, P \cup {n}, B, Q)
      BY <1>1, <1>4, <2>1, <3>1, ExtendTracks
    <3>3. QED
      BY <3>1, <3>2
  <2>7. QED
    BY <2>5, <2>6
<1>8. QED
  BY <1>6, <1>7 DEF Tracks


-----------------------------------------------------------------------------
(* The runs of a flow's log.                                               *)

\* The payload packets of a direction that begin a run.
BeginsOf(f) == {i \in Payload(f) : Begins(f, i)}

DirectionTracks(b, f) ==
    Tracks(b, log, Payload(f), BeginsOf(f), Payload(~f))

\* A tracker that holds the sums over the runs matches the bulks.
LEMMA RunsAreBulks ==
    ASSUME NEW f \in BOOLEAN, NEW b, Committed(b, log, Payload(f), BeginsOf(f))
    PROVE  MatchesBulks(b, f)
<1>1. PICK P, B : P = Payload(f) /\ B = BeginsOf(f)
  OBVIOUS
<1>2. \A m \in P : m \in B <=> Begins(f, m)
  BY <1>1 DEF BeginsOf
<1>3. \A i : RunFrom(f, i) = RunOf(P, B, i)
  BY <1>1, <1>2 DEF RunFrom, RunOf
<1>4. Bulks(f) = LongOf(P, B)
  <2>1. B \subseteq P
    BY <1>1 DEF BeginsOf
  <2>2. QED
    BY <1>1, <1>2, <1>3, <2>1 DEF Bulks, LongOf
<1>5. \A R : Bytes(R) = BytesOf(log, R) /\ Duration(R) = TimeOf(log, R)
  BY DEF Bytes, BytesOf, Duration, TimeOf
<1>6. /\ Packs(P, B) = [i \in Bulks(f) |-> Cardinality(RunFrom(f, i))]
      /\ Sizes(log, P, B) = [i \in Bulks(f) |-> Bytes(RunFrom(f, i))]
      /\ Spans(log, P, B) = [i \in Bulks(f) |-> Duration(RunFrom(f, i))]
  BY <1>3, <1>4, <1>5 DEF Packs, Sizes, Spans
<1>7. QED
  BY <1>1, <1>4, <1>6 DEF Committed, MatchesBulks

LEMMA PayloadPlaced ==
    ASSUME log \in Seq(Packet), NEW f, NEW n, n = Len(log) + 1
    PROVE  /\ Placed(Payload(f), BeginsOf(f), n)
           /\ Payload(f) \in SUBSET (1 .. (n - 1))
<1>1. Len(log) \in Nat /\ n - 1 = Len(log) /\ DOMAIN log = 1 .. Len(log)
  OBVIOUS
<1>2. QED
  BY <1>1 DEF Placed, Payload, BeginsOf

LEMMA PayloadsGrow ==
    ASSUME NEW n, NEW p, Longer(log, log', n, p), NEW f \in BOOLEAN
    PROVE  Payload(f)' = IF p.forward = f /\ p.payload_bytes > 0
                         THEN Payload(f) \cup {n} ELSE Payload(f)
<1>1. /\ DOMAIN log = 1 .. Len(log) /\ Len(log) \in Nat
      /\ DOMAIN log' = (1 .. Len(log)) \cup {n}
      /\ n \notin 1 .. Len(log) /\ log'[n] = p
      /\ \A i \in 1 .. Len(log) : log'[i] = log[i]
  BY DEF Longer
<1>2. Payload(f) \subseteq 1 .. Len(log) /\ Payload(f)' \subseteq (1 .. Len(log)) \cup {n}
  BY <1>1 DEF Payload
<1>3. \A i \in 1 .. Len(log) : i \in Payload(f)' <=> i \in Payload(f)
  BY <1>1 DEF Payload
<1>4. n \in Payload(f)' <=> p.forward = f /\ p.payload_bytes > 0
  BY <1>1 DEF Payload
<1>5. AddedTo(1 .. Len(log), Payload(f), n, Payload(f)')
  BY ONLY <1>1, <1>2, <1>3, Zenon DEF AddedTo
<1>6. Payload(f)' = IF n \in Payload(f)' THEN Payload(f) \cup {n} ELSE Payload(f)
  BY ONLY <1>5, OneMore
<1>7. QED
  BY <1>4, <1>6

\* An old packet begins a run if it did; the new one if it opens one.
LEMMA BeginsGrow ==
    ASSUME NEW n, NEW p, Longer(log, log', n, p), NEW f \in BOOLEAN
    PROVE  /\ \A i \in Payload(f) : Begins(f, i)' <=> Begins(f, i)
           /\ p.forward = f /\ p.payload_bytes > 0 =>
                (Begins(f, n)' <=> Opens(log, log', n, Payload(f), Payload(~f)))
<1>1. PICK P, Q, P1, Q1 :
        P = Payload(f) /\ Q = Payload(~f) /\ P1 = Payload(f)' /\ Q1 = Payload(~f)'
  OBVIOUS
<1>2. /\ n \in Nat /\ n = Len(log) + 1 /\ log \in Seq(Packet)
      /\ \A i \in 1 .. Len(log) : log'[i] = log[i]
  BY DEF Longer
<1>3. /\ P1 = P \/ P1 = P \cup {n}
      /\ Q1 = Q \/ Q1 = Q \cup {n}
  BY <1>1, PayloadsGrow
<1>4. /\ P \in SUBSET (1 .. Len(log)) /\ Q \in SUBSET (1 .. Len(log))
      /\ Len(log) \in Nat
      /\ \A i \in P \cup Q : i \in Nat /\ i < n /\ log'[i] = log[i]
  <2>1. Payload(f) \subseteq 1 .. Len(log) /\ Payload(~f) \subseteq 1 .. Len(log)
    BY <1>2, PayloadFinite
  <2>2. Len(log) \in Nat
    BY <1>2
  <2>3. \A i \in 1 .. Len(log) : i \in Nat /\ i < n /\ log'[i] = log[i]
    BY <1>2, <2>2
  <2>4. QED
    BY <1>1, <2>1, <2>2, <2>3
<1>5. ASSUME NEW i \in P
      PROVE  Begins(f, i)' <=> Begins(f, i)
  <2>1. PICK S, z : S = {j \in P : j < i} /\ z = Max(S)
    OBVIOUS
  <2>2. {j \in P1 : j < i} = S
    BY <1>2, <1>3, <1>4, <2>1
  <2>3. Begins(f, i) <=> \/ S = {}
                         \/ log[i].timestamp - log[z].timestamp > OneSecond
                         \/ log[z].timestamp = 0
                         \/ \E m \in Q : z < m /\ m < i
    BY <1>1, <2>1 DEF Begins
  <2>4. Begins(f, i)' <=> \/ S = {}
                          \/ log'[i].timestamp - log'[z].timestamp > OneSecond
                          \/ log'[z].timestamp = 0
                          \/ \E m \in Q1 : z < m /\ m < i
    BY <1>1, <2>1, <2>2 DEF Begins
  <2>5. (\E m \in Q1 : z < m /\ m < i) <=> (\E m \in Q : z < m /\ m < i)
    <3>1. i \in Nat /\ i < n /\ n \in Nat
      BY <1>2, <1>4
    <3>2. ~(n < i)
      BY <3>1
    <3>3. QED
      BY <1>3, <3>2
  <2>6. S # {} => z \in P
    <3>1. S \in SUBSET (1 .. Len(log))
      BY <1>4, <2>1
    <3>2. S # {} => z \in S
      BY ONLY <1>4, <2>1, <3>1, MaxOf
    <3>3. QED
      BY <2>1, <3>2
  <2>7. QED
    <3>1. log'[i] = log[i] /\ (S # {} => log'[z] = log[z])
      BY <1>4, <2>6
    <3>2. QED
      BY ONLY <2>3, <2>4, <2>5, <3>1
<1>6. ASSUME p.forward = f, p.payload_bytes > 0
      PROVE  Begins(f, n)' <=> Opens(log, log', n, P, Q)
  <2>1. P1 = P \cup {n} /\ Q1 = Q
    <3>1. PICK g : g = ~f
      OBVIOUS
    <3>2. g \in BOOLEAN /\ p.forward # g
      BY <1>6, <3>1
    <3>3. Payload(f)' = Payload(f) \cup {n} /\ Payload(g)' = Payload(g)
      BY <1>6, <3>2, PayloadsGrow
    <3>4. QED
      BY <1>1, <3>1, <3>3
  <2>2. {j \in P1 : j < n} = P
    <3>1. ~(n < n) /\ \A j \in P : j < n
      BY <1>2, <1>4
    <3>2. QED
      BY <2>1, <3>1
  <2>3. PICK z : z = Max(P)
    OBVIOUS
  <2>4. Begins(f, n)' <=> \/ P = {}
                          \/ log'[n].timestamp - log'[z].timestamp > OneSecond
                          \/ log'[z].timestamp = 0
                          \/ \E m \in Q : z < m /\ m < n
    BY <1>1, <2>1, <2>2, <2>3 DEF Begins
  <2>5. P # {} => z \in P
    BY ONLY <1>4, <2>3, MaxOf
  <2>6. (\E m \in Q : z < m /\ m < n) <=> (\E m \in Q : z < m)
    BY <1>4
  <2>7. Opens(log, log', n, P, Q) <=>
          \/ P = {}
          \/ log'[n].timestamp - log[z].timestamp > OneSecond
          \/ log[z].timestamp = 0
          \/ \E m \in Q : z < m
    BY <2>3 DEF Opens
  <2>8. QED
    BY <1>4, <2>4, <2>5, <2>6, <2>7
<1>7. QED
  BY <1>1, <1>5, <1>6

LEMMA BeginningsGrow ==
    ASSUME NEW n, NEW p, Longer(log, log', n, p), NEW f \in BOOLEAN
    PROVE  BeginsOf(f)' =
             IF p.forward = f /\ p.payload_bytes > 0
                  /\ Opens(log, log', n, Payload(f), Payload(~f))
             THEN BeginsOf(f) \cup {n} ELSE BeginsOf(f)
<1>1. PICK P, P1, B, B1 : /\ P = Payload(f) /\ P1 = Payload(f)'
                          /\ B = BeginsOf(f) /\ B1 = BeginsOf(f)'
  OBVIOUS
<1>2. /\ P1 = IF p.forward = f /\ p.payload_bytes > 0 THEN P \cup {n} ELSE P
      /\ n \notin P /\ B \subseteq P /\ B1 \subseteq P1
  <2>1. log \in Seq(Packet) /\ n = Len(log) + 1
    BY DEF Longer
  <2>2. Placed(P, B, n)
    BY <1>1, <2>1, PayloadPlaced
  <2>3. n \notin P /\ B \subseteq P
    BY ONLY <2>2, PlacedFacts
  <2>4. B1 \subseteq P1
    BY <1>1 DEF BeginsOf
  <2>5. QED
    BY <1>1, <2>3, <2>4, PayloadsGrow
<1>3. \A i \in P : i \in B1 <=> i \in B
  <2>1. \A i \in P : i \in B1 <=> Begins(f, i)'
    BY <1>1, <1>2 DEF BeginsOf
  <2>2. \A i \in P : i \in B <=> Begins(f, i)
    BY <1>1 DEF BeginsOf
  <2>3. \A i \in P : Begins(f, i)' <=> Begins(f, i)
    BY <1>1, BeginsGrow
  <2>4. QED
    BY <2>1, <2>2, <2>3
<1>4. p.forward = f /\ p.payload_bytes > 0 =>
        (n \in B1 <=> Opens(log, log', n, Payload(f), Payload(~f)))
  <2> SUFFICES ASSUME p.forward = f, p.payload_bytes > 0
               PROVE  n \in B1 <=> Opens(log, log', n, Payload(f), Payload(~f))
    OBVIOUS
  <2>1. n \in Payload(f)'
    BY <1>1, <1>2
  <2>2. n \in B1 <=> Begins(f, n)'
    BY <1>1, <2>1 DEF BeginsOf
  <2>3. QED
    BY <2>2, BeginsGrow
<1>5. n \in B1 => p.forward = f /\ p.payload_bytes > 0
  BY <1>2
<1>6. AddedTo(P, B, n, B1)
  BY ONLY <1>2, <1>3 DEF AddedTo
<1>7. B1 = IF n \in B1 THEN B \cup {n} ELSE B
  BY ONLY <1>6, OneMore
<1>8. QED
  BY <1>1, <1>4, <1>5, <1>7


-----------------------------------------------------------------------------
(* The invariant of the bulks.                                             *)

\* When time has only gone on, each tracker tracks the runs of its direction.
RunInv ==
    /\ BulkInv
    /\ log[1].timestamp >= 0
    /\ TimesIncrease =>
         /\ Rising(log, Len(log) + 1)
         /\ DirectionTracks(flow.fwd_bulk, TRUE)
         /\ DirectionTracks(flow.bwd_bulk, FALSE)

\* What a packet does to the tracker of a direction.
LEMMA DirectionGrows ==
    ASSUME NEW n, NEW p, Longer(log, log', n, p), Rising(log, n),
           NEW f \in BOOLEAN, NEW b, DirectionTracks(b, f),
           NEW c, c = IF p.forward = f
                      THEN Update(b, p.timestamp, p.payload_bytes,
                                  LastOf(log, Payload(~f)))
                      ELSE b
    PROVE  Tracks(c, log', Payload(f)', BeginsOf(f)', Payload(~f)')
<1>1. PICK P, Q, B, g, m :
        P = Payload(f) /\ Q = Payload(~f) /\ B = BeginsOf(f) /\ g = ~f /\ m = log'
  OBVIOUS
<1>2. /\ n = Len(log) + 1 /\ log \in Seq(Packet) /\ n \in Nat
      /\ m[n] = p /\ p \in Packet /\ \A i \in 1 .. Len(log) : m[i] = log[i]
  BY <1>1 DEF Longer
<1>3. /\ Placed(P, B, n) /\ P \in SUBSET (1 .. (n - 1)) /\ Q \in SUBSET (1 .. (n - 1))
  BY <1>1, <1>2, PayloadPlaced
<1>4. Tracks(b, log, P, B, Q)
  BY <1>1 DEF DirectionTracks
<1>5. /\ p.forward \in BOOLEAN /\ p.timestamp \in Int /\ p.payload_bytes \in Nat
  BY <1>2, PacketTypes
<1>6. Agree(log, m, P) /\ Dated(m, P \cup {n})
  <2>1. Dated(log, P)
    BY ONLY <1>3, RisingDated, Rising(log, n)
  <2>2. \A i \in P : m[i] = log[i]
    BY <1>2, <1>3
  <2>3. QED
    BY <1>2, <1>5, <2>1, <2>2 DEF Agree, Dated
<1>7. /\ Payload(f)' = IF p.forward = f /\ p.payload_bytes > 0 THEN P \cup {n} ELSE P
      /\ Payload(~f)' = IF p.forward # f /\ p.payload_bytes > 0 THEN Q \cup {n} ELSE Q
      /\ BeginsOf(f)' = IF p.forward = f /\ p.payload_bytes > 0
                             /\ Opens(log, m, n, P, Q)
                        THEN B \cup {n} ELSE B
  <2>1. g \in BOOLEAN /\ (p.forward = g <=> p.forward # f)
    BY <1>1, <1>5
  <2>2. /\ Payload(f)' = IF p.forward = f /\ p.payload_bytes > 0
                         THEN Payload(f) \cup {n} ELSE Payload(f)
        /\ Payload(g)' = IF p.forward = g /\ p.payload_bytes > 0
                         THEN Payload(g) \cup {n} ELSE Payload(g)
    BY <2>1, PayloadsGrow
  <2>3. QED
    BY <1>1, <2>1, <2>2, BeginningsGrow
<1>8. CASE p.forward # f
  <2>1. c = b /\ Payload(f)' = P /\ BeginsOf(f)' = B
    BY <1>7, <1>8
  <2>2. PICK U : U = Payload(~f)'
    OBVIOUS
  <2>3. U = Q \/ U = Q \cup {n}
    BY <1>7, <2>2
  <2>4. Tracks(b, m, P, B, U)
    BY ONLY <1>3, <1>4, <1>6, <2>3, OtherTracks
  <2>5. QED
    BY <1>1, <2>1, <2>2, <2>4
<1>9. CASE p.forward = f /\ p.payload_bytes = 0
  <2>1. /\ Payload(f)' = P /\ BeginsOf(f)' = B /\ Payload(~f)' = Q
        /\ c = Update(b, p.timestamp, 0, LastOf(log, Q))
    BY <1>1, <1>7, <1>9
  <2>2. Tracks(c, m, P, B, Q)
    BY ONLY <1>3, <1>4, <1>6, <2>1, SkipTracks, Rising(log, n)
  <2>3. QED
    BY <1>1, <2>1, <2>2
<1>10. CASE p.forward = f /\ p.payload_bytes > 0
  <2>1. PICK C : C = IF Opens(log, m, n, P, Q) THEN B \cup {n} ELSE B
    OBVIOUS
  <2>2. Payload(f)' = P \cup {n} /\ BeginsOf(f)' = C /\ Payload(~f)' = Q
    BY <1>7, <1>10, <2>1
  <2>3. /\ c = Update(b, m[n].timestamp, m[n].payload_bytes, LastOf(log, Q))
        /\ m[n].payload_bytes > 0
    BY <1>1, <1>2, <1>10
  <2>4. Tracks(c, m, P \cup {n}, C, Q)
    BY ONLY <1>3, <1>4, <1>6, <2>1, <2>3, TakeTracks, Rising(log, n)
  <2>5. QED
    BY <1>1, <2>2, <2>4
<1>11. QED
  BY <1>5, <1>8, <1>9, <1>10

\* A log whose times increase goes on with a later one.
LEMMA TimesGoOn ==
    ASSUME NEW n, NEW p, Longer(log, log', n, p), log # <<>>, log[1].timestamp >= 0,
           TimesIncrease', TimesIncrease => Rising(log, n)
    PROVE  TimesIncrease /\ Rising(log', n + 1)
<1>1. PICK m : m = log'
  OBVIOUS
<1>2. /\ n = Len(log) + 1 /\ log \in Seq(Packet) /\ n \in Nat /\ Len(m) = n
      /\ m[n] = p /\ p \in Packet /\ \A i \in 1 .. Len(log) : m[i] = log[i]
      /\ Len(log) \in Nat \ {0}
  BY <1>1 DEF Longer
<1>3. \A i \in 2 .. n : m[i - 1].timestamp < m[i].timestamp
  BY <1>1, <1>2 DEF TimesIncrease
<1>4. TimesIncrease
  <2> SUFFICES ASSUME NEW i \in 2 .. Len(log)
               PROVE  log[i - 1].timestamp < log[i].timestamp
    BY DEF TimesIncrease
  <2>1. i \in 2 .. n /\ i - 1 \in 1 .. Len(log) /\ i \in 1 .. Len(log)
    BY <1>2
  <2>2. QED
    BY <1>2, <1>3, <2>1
<1>5. Rising(log, n)
  BY <1>4
<1>6. PICK k : k = n - 1
  OBVIOUS
<1>7. k \in 1 .. (n - 1) /\ n \in 2 .. n /\ m[k] = log[k]
  BY <1>2, <1>6
<1>8. /\ p.timestamp \in Int /\ p.payload_bytes \in Nat
      /\ log[k].timestamp \in Int /\ log[k].timestamp >= 0
      /\ log[k].timestamp < p.timestamp
  <2>1. p.timestamp \in Int /\ p.payload_bytes \in Nat
    BY <1>2, PacketTypes
  <2>2. log[k].timestamp \in Int /\ log[k].timestamp >= 0
    BY <1>5, <1>7 DEF Rising
  <2>3. m[k].timestamp < m[n].timestamp
    BY <1>3, <1>6, <1>7
  <2>4. QED
    BY <1>2, <1>7, <2>1, <2>2, <2>3
<1>9. \A i \in 1 .. (n - 1) : /\ m[i].timestamp \in Int /\ m[i].timestamp >= 0
                              /\ m[i].payload_bytes \in Nat
                              /\ m[i].timestamp < p.timestamp
  <2> TAKE i \in 1 .. (n - 1)
  <2>1. /\ m[i] = log[i] /\ log[i].timestamp \in Int /\ log[i].timestamp >= 0
        /\ log[i].payload_bytes \in Nat
    BY <1>2, <1>5 DEF Rising
  <2>2. i < k => log[i].timestamp < log[k].timestamp
    BY <1>5, <1>7 DEF Rising
  <2>3. i = k \/ i < k
    BY <1>2, <1>6
  <2>4. QED
    BY <1>8, <2>1, <2>2, <2>3
<1>10. \A i, j \in 1 .. (n - 1) : i < j => m[i].timestamp < m[j].timestamp
  <2>1. \A i \in 1 .. (n - 1) : m[i] = log[i]
    BY <1>2
  <2>2. QED
    BY <1>5, <2>1 DEF Rising
<1>11. /\ n + 1 \in Nat /\ \A i \in 1 .. ((n + 1) - 1) : i \in 1 .. (n - 1) \/ i = n
       /\ \A i \in 1 .. (n - 1) : ~(n < i)
       /\ ~(n < n)
  BY <1>2
<1>12. Rising(m, n + 1)
  BY <1>2, <1>8, <1>9, <1>10, <1>11, SMTT(30) DEF Rising
<1>13. QED
  BY <1>1, <1>4, <1>8, <1>12


\* A tracker that has seen nothing.
LEMMA NewTracks ==
    ASSUME NEW l, NEW E, E = {}
    PROVE  Tracks(NewBulk, l, E, E, E)
<1>1. LongOf(E, E) = {}
  BY DEF LongOf
<1>2. /\ Packs(E, E) = [i \in {} |-> 0] /\ Sizes(l, E, E) = [i \in {} |-> 0]
      /\ Spans(l, E, E) = [i \in {} |-> 0]
  BY <1>1 DEF Packs, Sizes, Spans
<1>3. PICK S, e : S = {} /\ e = [i \in S |-> 0]
  OBVIOUS
<1>4. SumFunction(e) = 0
  BY <1>3, SumEmpty
<1>5. Cardinality({}) = 0
  BY FS_EmptySet
<1>6. NewBulk \in Bulk /\ NoRun(NewBulk, E)
  BY DEF NewBulk, Bulk, NoRun
<1>7. Committed(NewBulk, l, E, E)
  BY <1>1, <1>2, <1>3, <1>4, <1>5 DEF Committed, NewBulk
<1>8. QED
  BY <1>6, <1>7 DEF Tracks

LEMMA RunInvBegins == Begun => RunInv
<1> SUFFICES ASSUME Begun PROVE RunInv
  OBVIOUS
<1>1. PICK ts \in StartTimes, shape \in Shapes :
        /\ log = <<PacketAt(shape, TRUE, ts)>>
        /\ flow = Begin(PacketAt(shape, TRUE, ts))
  BY DEF Begun
<1>2. PICK p : /\ p = PacketAt(shape, TRUE, ts)
               /\ log = <<p>> /\ flow = Begin(p)
  BY <1>1
<1>3. /\ p \in Packet /\ p.forward = TRUE /\ p.timestamp = ts
      /\ ts \in Nat
      /\ p.payload_bytes \in Nat
  <2>1. TRUE \in BOOLEAN /\ ts \in Nat /\ ts \in Int
    BY RecordAssumption
  <2>2. p = PacketAt(shape, TRUE, ts)
    BY <1>2
  <2>3. /\ p \in Packet
        /\ p.forward = TRUE /\ p.timestamp = ts
        /\ p.payload_bytes \in Nat
    BY <2>1, <2>2, PacketFields, Zenon
  <2>4. QED
    BY <2>1, <2>3
<1>4. /\ flow.fwd_bulk = Update(NewBulk, p.timestamp, p.payload_bytes, 0)
      /\ flow.bwd_bulk = NewBulk
  <2>1. p.forward \in BOOLEAN
    BY <1>3
  <2>2. /\ Advances(NewRecord(p), Begin(p), p)
        /\ NewRecord(p).fwd_bulk = NewBulk /\ NewRecord(p).bwd_bulk = NewBulk
    BY ONLY <2>1, BeginBulks
  <2>3. NewBulk.last_bulk_ts = 0
    BY DEF NewBulk
  <2>4. QED
    BY ONLY <1>2, <1>3, <2>2, <2>3 DEF Advances
<1>5. DOMAIN log = {1} /\ log[1] = p /\ Len(log) = 1
  BY <1>2
<1>6. PICK E, n : E = {} /\ n = 1
  OBVIOUS
<1>7. /\ Rising(log, n) /\ Placed(E, E, n) /\ E \in SUBSET (1 .. (n - 1))
      /\ Agree(log, log, E) /\ Dated(log, E \cup {n})
  <2>1. n \in Nat /\ 1 .. (n - 1) = {}
    BY <1>6
  <2>2. QED
    BY <1>3, <1>5, <1>6, <2>1 DEF Rising, Placed, Agree, Dated
<1>8. Rising(log, Len(log) + 1)
  <2>1. 1 .. ((Len(log) + 1) - 1) = {1} /\ Len(log) + 1 \in Nat
    BY <1>5
  <2>2. QED
    BY <1>3, <1>5, <2>1 DEF Rising
<1>9. Payload(FALSE) = {} /\ BeginsOf(FALSE) = {}
  BY <1>3, <1>5 DEF Payload, BeginsOf
<1>10. Tracks(NewBulk, log, E, E, E) /\ LastOf(log, E) = 0
  BY <1>6, NewTracks DEF LastOf
<1>11. Tracks(flow.fwd_bulk, log, Payload(TRUE), BeginsOf(TRUE), E)
  <2>1. PICK c : c = flow.fwd_bulk
    OBVIOUS
  <2>2. CASE p.payload_bytes = 0
    <3>1. Payload(TRUE) = E /\ BeginsOf(TRUE) = E
      <4>1. \A i \in DOMAIN log : ~(log[i].payload_bytes > 0)
        BY <1>5, <2>2
      <4>2. Payload(TRUE) = {}
        BY <4>1 DEF Payload
      <4>3. QED
        BY <1>6, <4>2 DEF BeginsOf
    <3>2. c = Update(NewBulk, p.timestamp, 0, LastOf(log, E))
      BY <1>4, <1>10, <2>1, <2>2
    <3>3. Tracks(c, log, E, E, E)
      BY ONLY <1>7, <1>10, <3>2, SkipTracks
    <3>4. QED
      BY <2>1, <3>1, <3>3
  <2>3. CASE p.payload_bytes > 0
    <3>1. Payload(TRUE) = {1}
      BY <1>3, <1>5, <2>3 DEF Payload
    <3>2. \A j \in Payload(TRUE) : ~(j < 1)
      <4>1. PICK P : P = Payload(TRUE)
        OBVIOUS
      <4>2. P = {1}
        BY <3>1, <4>1
      <4>3. \A j \in P : ~(j < 1)
        BY ONLY <4>2
      <4>4. QED
        BY <4>1, <4>3
    <3>3. Begins(TRUE, 1)
      BY <3>2 DEF Begins
    <3>4. BeginsOf(TRUE) = {1}
      BY <3>1, <3>3 DEF BeginsOf
    <3>5. PICK C : C = IF Opens(log, log, n, E, E) THEN E \cup {n} ELSE E
      OBVIOUS
    <3>6. C = E \cup {n}
      BY <1>6, <3>5 DEF Opens
    <3>7. /\ c = Update(NewBulk, log[n].timestamp, log[n].payload_bytes,
                        LastOf(log, E))
          /\ log[n].payload_bytes > 0
      BY <1>3, <1>4, <1>5, <1>6, <1>10, <2>1, <2>3
    <3>8. Tracks(c, log, E \cup {n}, C, E)
      BY ONLY <1>7, <1>10, <3>5, <3>7, TakeTracks
    <3>9. E \cup {n} = {1}
      BY <1>6
    <3>10. QED
      <4>1. /\ C = BeginsOf(TRUE) /\ E \cup {n} = Payload(TRUE)
        BY <3>1, <3>4, <3>6, <3>9
      <4>2. QED
        BY <2>1, <3>8, <4>1
  <2>4. p.payload_bytes = 0 \/ p.payload_bytes > 0
    BY ONLY <1>3
  <2>5. QED
    BY ONLY <2>2, <2>3, <2>4
<1>12. Tracks(NewBulk, log, E, E, Payload(TRUE))
  <2>1. Payload(TRUE) = E \/ Payload(TRUE) = E \cup {n}
    BY <1>5, <1>6 DEF Payload
  <2>2. QED
    BY ONLY <1>7, <1>10, <2>1, OtherTracks
<1>13. /\ DirectionTracks(flow.fwd_bulk, TRUE)
       /\ DirectionTracks(flow.bwd_bulk, FALSE)
  <2>1. ~TRUE = FALSE /\ ~FALSE = TRUE
    OBVIOUS
  <2>2. QED
    BY <1>4, <1>6, <1>9, <1>11, <1>12, <2>1 DEF DirectionTracks
<1>14. log[1].timestamp >= 0
  BY <1>3, <1>5
<1>15. BulkInv
  BY BegunKeeps
<1>16. QED
  BY <1>8, <1>13, <1>14, <1>15 DEF RunInv

LEMMA RunInvGrows ==
    ASSUME RunInv, BulkInv', NEW p \in Packet, log' = Append(log, p),
           flow' = AddPacket(flow, p)
    PROVE  RunInv'
<1>1. PICK n : n = Len(log) + 1
  OBVIOUS
<1>2. /\ log \in Seq(Packet) /\ log # <<>> /\ HasBulks(flow)
      /\ flow.forward_bytes \in Nat /\ flow.backward_bytes \in Nat
      /\ log[1].timestamp >= 0
  BY DEF RunInv, BulkInv
<1>3. Longer(log, log', n, p)
  BY ONLY <1>1, <1>2, p \in Packet, log' = Append(log, p), LogGrows
<1>4. Len(log') = n /\ log'[1] = log[1]
  <2>1. Len(log) \in Nat /\ Len(log) # 0
    BY <1>2
  <2>2. 1 \in 1 .. Len(log)
    BY <2>1
  <2>3. QED
    BY <1>3, <2>2 DEF Longer
<1>5. Advances(flow, flow', p)
  <2>1. p.forward \in BOOLEAN /\ p.payload_bytes \in Nat
    BY PacketTypes
  <2>2. PICK r : r = flow
    OBVIOUS
  <2>3. HasBulks(r) /\ r.forward_bytes \in Nat /\ r.backward_bytes \in Nat
    BY <1>2, <2>2
  <2>4. Advances(r, AddPacket(r, p), p)
    BY ONLY <2>1, <2>3, AddPacketBulks
  <2>5. QED
    BY <2>2, <2>4
<1>6. ASSUME TimesIncrease'
      PROVE  /\ Rising(log', n + 1)
             /\ DirectionTracks(flow.fwd_bulk, TRUE)'
             /\ DirectionTracks(flow.bwd_bulk, FALSE)'
  <2>1. TimesIncrease => Rising(log, n)
    BY <1>1 DEF RunInv
  <2>2. TimesIncrease /\ Rising(log', n + 1)
    BY ONLY <1>2, <1>3, <1>6, <2>1, TimesGoOn
  <2>3. PICK b, d, c, e : /\ b = flow.fwd_bulk /\ d = flow.bwd_bulk
                          /\ c = flow'.fwd_bulk /\ e = flow'.bwd_bulk
    OBVIOUS
  <2>4. /\ Rising(log, n) /\ DirectionTracks(b, TRUE) /\ DirectionTracks(d, FALSE)
    BY <1>1, <2>2, <2>3 DEF RunInv
  <2>5. /\ b.last_bulk_ts = LastOf(log, Payload(TRUE))
        /\ d.last_bulk_ts = LastOf(log, Payload(FALSE))
    <3>1. /\ Placed(Payload(TRUE), BeginsOf(TRUE), n)
          /\ Placed(Payload(FALSE), BeginsOf(FALSE), n)
      BY <1>1, <1>2, PayloadPlaced
    <3>2. /\ Tracks(b, log, Payload(TRUE), BeginsOf(TRUE), Payload(~TRUE))
          /\ Tracks(d, log, Payload(FALSE), BeginsOf(FALSE), Payload(~FALSE))
      BY <2>4 DEF DirectionTracks
    <3>3. QED
      BY ONLY <2>4, <3>1, <3>2, LastBulk
  <2>6. /\ p.forward \in BOOLEAN /\ ~TRUE = FALSE /\ ~FALSE = TRUE
        /\ TRUE \in BOOLEAN /\ FALSE \in BOOLEAN
    BY PacketTypes
  <2>7. c = IF p.forward = TRUE
            THEN Update(b, p.timestamp, p.payload_bytes, LastOf(log, Payload(~TRUE)))
            ELSE b
    BY <1>5, <2>3, <2>5, <2>6 DEF Advances
  <2>8. e = IF p.forward = FALSE
            THEN Update(d, p.timestamp, p.payload_bytes, LastOf(log, Payload(~FALSE)))
            ELSE d
    BY <1>5, <2>3, <2>5, <2>6 DEF Advances
  <2>9. /\ Tracks(c, log', Payload(TRUE)', BeginsOf(TRUE)', Payload(~TRUE)')
        /\ Tracks(e, log', Payload(FALSE)', BeginsOf(FALSE)', Payload(~FALSE)')
    BY ONLY <1>3, <2>2, <2>4, <2>6, <2>7, <2>8, DirectionGrows
  <2>10. QED
    BY <2>2, <2>3, <2>9 DEF DirectionTracks
<1>7. QED
  BY <1>2, <1>4, <1>6 DEF RunInv

LEMMA RunInvStep == RunInv /\ [Next]_vars => RunInv'
<1> SUFFICES ASSUME RunInv, [Next]_vars PROVE RunInv'
  OBVIOUS
<1>1. log \in Seq(Packet) /\ log # <<>> /\ BulkInv'
  BY BulkInvStep DEF RunInv, BulkInv
<1>2. ASSUME NEW p \in Packet, log' = Append(log, p), flow' = AddPacket(flow, p)
      PROVE  RunInv'
  BY <1>1, <1>2, RunInvGrows
<1>3. CASE Begun'
  <2>1. Begun' => RunInv'
    BY RunInvBegins, PTL
  <2>2. QED
    BY <1>3, <2>1
<1>4. CASE UNCHANGED vars
  BY <1>1, <1>4 DEF vars, RunInv, TimesIncrease, DirectionTracks, Payload, BeginsOf, Begins
<1>5. QED
  BY <1>1, <1>2, <1>3, <1>4, RecordSteps

\* When time only goes on, the counters of each direction are those of its maximal
\* runs of at least 4 payload packets with no gap over OneSecond and no payload packet
\* of the other direction in between: the one timestamp a tracker keeps of the other
\* is enough to see every interruption.
THEOREM BulksExact == Spec => []BulksAreMaximalRuns
<1>1. RunInv => BulksAreMaximalRuns
  <2> SUFFICES ASSUME RunInv, TimesIncrease
               PROVE  /\ MatchesBulks(flow.fwd_bulk, TRUE)
                      /\ MatchesBulks(flow.bwd_bulk, FALSE)
    BY DEF BulksAreMaximalRuns
  <2>1. /\ Committed(flow.fwd_bulk, log, Payload(TRUE), BeginsOf(TRUE))
        /\ Committed(flow.bwd_bulk, log, Payload(FALSE), BeginsOf(FALSE))
    BY DEF RunInv, DirectionTracks, Tracks
  <2>2. TRUE \in BOOLEAN /\ FALSE \in BOOLEAN
    OBVIOUS
  <2>3. QED
    BY ONLY <2>1, <2>2, RunsAreBulks
<1>2. Init => RunInv
  BY InitBegun, RunInvBegins
<1>3. QED
  BY <1>1, <1>2, RunInvStep, PTL DEF Spec
=============================================================================
