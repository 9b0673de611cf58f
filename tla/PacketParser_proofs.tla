------------------------ MODULE PacketParser_proofs -------------------------
(***************************************************************************)
(* Theorems about the packet parser, for frames of every length and every  *)
(* value of the fields in them.                                            *)
(***************************************************************************)
EXTENDS PacketParser, TLAPS

-----------------------------------------------------------------------------
(* The invariant, stage by stage.                                          *)

\* Where the transport data ends.
End == IF seen.declared < seen.network THEN seen.declared ELSE seen.network

\* The parser has no result before it is done.
NoResultYet == scan.pc # "done" => scan.result = {}

\* The loop over tags never runs past the slice.
InTags == scan.pc = "tags" => 14 <= scan.offset /\ scan.offset <= scan.data

\* The network data is the slice in hand until a transport layer is found.
InNetwork ==
    scan.pc \in IP \cup {"network", "walk"} => seen.network = scan.data

\* A network layer is entered only when it is to be read.
InFamily == scan.pc \in IP => scan.pc \in families

\* The walk over extension headers keeps to the packet, except that it may
\* start behind the end of one that claims to be shorter than its header.
InWalk ==
    scan.pc = "walk" =>
        /\ 40 <= scan.offset
        /\ scan.max_len = End
        /\ scan.nibble = "ipv6" /\ "ipv6" \in families

\* The transport data is the packet from "start" on.
InTransport ==
    scan.pc = "transport" =>
        /\ 0 <= seen.start
        /\ scan.data = End - seen.start
        /\ scan.nibble \in families
        /\ scan.protocol \in Extensions =>
             \/ seen.start + Fixed(scan.protocol) > scan.max_len
             \/ seen.start + seen.extension > scan.max_len

\* The inductive invariant.
ParserInv ==
    /\ TypeOK
    /\ NoPanic
    /\ NoResultYet
    /\ InTags /\ InNetwork /\ InFamily /\ InWalk /\ InTransport
    /\ PayloadWithinPacket
    /\ UpperLayerReached
    /\ FamilyAskedFor

\* The properties that are about a result hold as long as there is none.
LEMMA NoResult ==
    ASSUME scan.result = {}
    PROVE  PayloadWithinPacket /\ UpperLayerReached /\ FamilyAskedFor
BY DEF PayloadWithinPacket, UpperLayerReached, FamilyAskedFor

-----------------------------------------------------------------------------
(* The two records stay what they are, field by field.                     *)

Stages == {"idle", "link", "tags", "network", "walk", "transport", "done"} \cup IP
Ethertypes == IP \cup {"tag", "other"}
Nibbles == IP \cup {"other", "unread"}

LEMMA ScanFields ==
    ASSUME NEW s \in Scan
    PROVE  /\ s.pc \in Stages
           /\ s.data \in Int /\ s.offset \in Int /\ s.max_len \in Int
           /\ s.ethertype \in Ethertypes /\ s.nibble \in Nibbles
           /\ s.protocol \in Transports \cup Extensions
BY DEF Scan, Stages, Ethertypes, Nibbles

LEMMA SeenFields ==
    ASSUME NEW f \in Seen
    PROVE  /\ f.in_range \in BOOLEAN /\ f.network \in Int /\ f.declared \in Int
           /\ f.start \in Int /\ f.extension \in Int /\ f.udp \in Int
BY DEF Seen

\* A slice is left for another one.
LEMMA StripType ==
    ASSUME NEW s \in Scan, NEW n \in Int
    PROVE  Strip(s, n) \in Scan
<1> DEFINE d == s.data - n
<1> DEFINE q == [s EXCEPT !.pc = "network", !.data = d]
<1>1. d \in Int
  BY ScanFields
<1>2. Strip(s, n) = [q EXCEPT !.offset = 0]
  BY Zenon DEF Strip
<1> HIDE DEF d
<1>3. q \in Scan
  BY <1>1 DEF Scan
<1> HIDE DEF q
<1>4. [q EXCEPT !.offset = 0] \in Scan
  BY <1>3 DEF Scan
<1>5. QED
  BY <1>2, <1>4, Zenon

\* The type of what follows is read.
LEMMA TypeFieldType ==
    ASSUME NEW s \in Scan, NEW t \in Ethertypes, NEW v \in Nibbles
    PROVE  [s EXCEPT !.ethertype = t, !.nibble = v] \in Scan
BY DEF Scan, Ethertypes, Nibbles

LEMMA EnterTagsType ==
    ASSUME NEW s \in Scan, NEW t \in Ethertypes, NEW x \in Stages, NEW o \in Int
    PROVE  [s EXCEPT !.pc = x, !.ethertype = t, !.offset = o] \in Scan
<1> DEFINE r == [s EXCEPT !.pc = x, !.ethertype = t]
<1>1. r \in Scan
  BY DEF Scan, Stages, Ethertypes
<1> HIDE DEF r
<1>2. [r EXCEPT !.offset = o] \in Scan
  BY <1>1 DEF Scan
<1>3. QED
  BY <1>2 DEF r

\* An IP header is read.
LEMMA HeaderType ==
    ASSUME NEW s \in Scan, NEW v \in Nibbles, NEW p \in Transports \cup Extensions
    PROVE  [s EXCEPT !.nibble = v, !.protocol = p] \in Scan
BY DEF Scan, Nibbles

LEMMA WalkType ==
    ASSUME NEW s \in Scan, NEW x \in Stages, NEW v \in Nibbles,
           NEW p \in Transports \cup Extensions, NEW o \in Int, NEW m \in Int,
           NEW r, r = [s EXCEPT !.pc = x, !.nibble = v, !.protocol = p,
                                !.offset = o, !.max_len = m]
    PROVE  r \in Scan
<1> DEFINE h == [s EXCEPT !.pc = x, !.nibble = v]
<1> DEFINE q == [h EXCEPT !.protocol = p, !.offset = o]
<1>1. h \in Scan
  BY DEF Scan, Stages, Nibbles
<1> HIDE DEF h
<1>2. q \in Scan
  BY <1>1 DEF Scan
<1> HIDE DEF q
<1>3. [q EXCEPT !.max_len = m] \in Scan
  BY <1>2 DEF Scan
<1>4. QED
  BY <1>3 DEF h, q

-----------------------------------------------------------------------------
(* Every step keeps it.                                                    *)

LEMMA ParserInit == Init => ParserInv
<1> SUFFICES ASSUME Init PROVE ParserInv
  OBVIOUS
<1>1. TypeOK
  BY DEF Init, TypeOK, NewScan, NothingSeen, Scan, Seen, Transports
<1>2. scan.result = {} /\ NoPanic
  BY DEF Init, NewScan, NothingSeen, NoPanic
<1>3. NoResultYet /\ InTags /\ InNetwork /\ InFamily /\ InWalk /\ InTransport
  BY DEF Init, NewScan, NoResultYet, InTags, InNetwork, InFamily, InWalk,
         InTransport, IP
<1>4. QED
  BY <1>1, <1>2, <1>3, NoResult DEF ParserInv

\* The caller's steps.
LEMMA CallerStep ==
    ASSUME ParserInv, SetLinkType \/ ParsePacket \/ Return
    PROVE  ParserInv'
<1> USE DEF ParserInv
<1>1. CASE SetLinkType
  BY <1>1 DEF SetLinkType, TypeOK, NoPanic, NoResultYet, InTags, InNetwork,
     InFamily, InWalk, InTransport, PayloadWithinPacket, UpperLayerReached,
     FamilyAskedFor, End, Fixed
<1>2. CASE ParsePacket
  <2>1. PICK n \in Lengths : scan' = NewScan("link", n)
    BY <1>2 DEF ParsePacket
  <2>2. UNCHANGED <<link_type, families, seen>> /\ n \in Nat
    BY <1>2, ParserAssumption DEF ParsePacket
  <2>3. TypeOK'
    BY <2>1, <2>2 DEF TypeOK, NewScan, Scan, Transports
  <2>4. scan'.result = {} /\ NoPanic'
    BY <2>1, <2>2 DEF NewScan, NoPanic
  <2>5. /\ NoResultYet' /\ InTags' /\ InNetwork' /\ InFamily' /\ InWalk'
        /\ InTransport'
    BY <2>1 DEF NewScan, NoResultYet, InTags, InNetwork, InFamily, InWalk,
       InTransport, IP
  <2>6. QED
    BY <2>3, <2>4, <2>5 DEF PayloadWithinPacket, UpperLayerReached, FamilyAskedFor
<1>3. CASE Return
  <2>1. TypeOK'
    BY <1>3 DEF Return, TypeOK, NewScan, NothingSeen, Scan, Seen, Transports
  <2>2. scan'.result = {} /\ NoPanic'
    BY <1>3 DEF Return, NewScan, NothingSeen, NoPanic
  <2>3. /\ NoResultYet' /\ InTags' /\ InNetwork' /\ InFamily' /\ InWalk'
        /\ InTransport'
    BY <1>3 DEF Return, NewScan, NoResultYet, InTags, InNetwork, InFamily,
       InWalk, InTransport, IP
  <2>4. QED
    BY <2>1, <2>2, <2>3 DEF PayloadWithinPacket, UpperLayerReached, FamilyAskedFor
<1>4. QED
  BY <1>1, <1>2, <1>3

\* A step that rejects the frame.
LEMMA DropStep ==
    ASSUME ParserInv, scan.pc # "done", scan' = Rejected,
           UNCHANGED <<link_type, families>>, seen' \in Seen, seen'.in_range
    PROVE  ParserInv'
<1> USE DEF ParserInv
<1>1. TypeOK'
  BY DEF TypeOK, Rejected, Scan
<1>2. scan'.result = {} /\ NoPanic' /\ scan'.pc = "done"
  BY DEF TypeOK, Rejected, Scan, NoPanic, NoResultYet
<1>3. /\ NoResultYet' /\ InTags' /\ InNetwork' /\ InFamily' /\ InWalk'
      /\ InTransport'
  BY <1>2 DEF NoResultYet, InTags, InNetwork, InFamily, InWalk, InTransport, IP
<1>4. QED
  BY <1>1, <1>2, <1>3 DEF PayloadWithinPacket, UpperLayerReached, FamilyAskedFor

\* A step to another stage that has no result yet: what is left to show is
\* what the stage reached asks for.
LEMMA StageStep ==
    ASSUME ParserInv, scan.pc # "done", scan' \in Scan, seen' \in Seen,
           scan'.result = scan.result, NoPanic',
           UNCHANGED <<link_type, families>>,
           InTags', InNetwork', InFamily', InWalk', InTransport'
    PROVE  ParserInv'
<1>1. scan.result = {} /\ scan'.result = {}
  BY DEF ParserInv, NoResultYet
<1>2. TypeOK' /\ NoResultYet'
  BY <1>1 DEF ParserInv, TypeOK, NoResultYet
<1>3. PayloadWithinPacket' /\ UpperLayerReached' /\ FamilyAskedFor'
  BY <1>1 DEF PayloadWithinPacket, UpperLayerReached, FamilyAskedFor
<1>4. QED
  BY <1>2, <1>3 DEF ParserInv

\* An index within the slice leaves the record of indices good.
LEMMA ReachHolds ==
    ASSUME ParserInv, NEW n \in Int, n <= scan.data
    PROVE  Reach(n) = TRUE
BY DEF ParserInv, TypeOK, NoPanic, Reach, Seen

LEMMA RangeKept ==
    ASSUME ParserInv, NEW n \in Int, n <= scan.data,
           NEW r, r = [seen EXCEPT !.in_range = Reach(n)]
    PROVE  /\ r \in Seen /\ r.in_range
           /\ r.network = seen.network /\ r.declared = seen.declared
           /\ r.start = seen.start /\ r.extension = seen.extension
<1>1. Reach(n) = TRUE
  BY ReachHolds
<1>2. r = [seen EXCEPT !.in_range = TRUE]
  BY <1>1
<1>3. QED
  BY <1>2 DEF ParserInv, TypeOK, Seen

\* The fields of a record of what was seen, after one of them is set.
LEMMA DeclaredSet ==
    ASSUME NEW x \in Int, seen \in Seen
    PROVE  LET r == [seen EXCEPT !.in_range = TRUE, !.declared = x]
           IN  r \in Seen /\ r.in_range /\ r.declared = x /\ r.network = seen.network
BY DEF Seen

LEMMA UdpSet ==
    ASSUME NEW x \in Int, seen \in Seen
    PROVE  LET r == [seen EXCEPT !.in_range = TRUE, !.udp = x]
           IN  /\ r \in Seen /\ r.in_range /\ r.udp = x
               /\ r.start = seen.start /\ r.extension = seen.extension
               /\ r.network = seen.network /\ r.declared = seen.declared
BY DEF Seen

LEMMA NetworkRange ==
    ASSUME ParserInv, NEW n \in Int, n <= scan.data, NetworkFrom(n)
    PROVE  seen' \in Seen /\ seen'.in_range /\ seen'.network = scan.data - n
<1>1. Reach(n) = TRUE
  BY ReachHolds
<1>2. seen' = [seen EXCEPT !.in_range = TRUE, !.network = scan.data - n]
  BY <1>1, Zenon DEF NetworkFrom
<1>3. scan.data - n \in Int /\ seen \in Seen
  BY ScanFields DEF ParserInv, TypeOK
<1>4. QED
  BY <1>2, <1>3 DEF Seen

\* The start of the network data is in the slice.
LEMMA StripKeeps ==
    ASSUME ParserInv, scan.pc \in {"link", "tags"},
           NEW n \in Nat, n <= scan.data,
           NEW t \in Ethertypes, NEW v \in Nibbles,
           scan' = Strip([scan EXCEPT !.ethertype = t, !.nibble = v], n),
           NetworkFrom(n), UNCHANGED <<link_type, families>>
    PROVE  ParserInv'
<1> DEFINE s == [scan EXCEPT !.ethertype = t, !.nibble = v]
<1>1. scan \in Scan /\ seen \in Seen /\ NoPanic
  BY DEF ParserInv, TypeOK
<1>2. s \in Scan /\ s.data = scan.data /\ s.result = scan.result
  BY <1>1, TypeFieldType DEF Scan
<1>3. scan.data - n \in Int /\ n \in Int
  BY <1>1, ScanFields
<1>4. seen' \in Seen /\ seen'.network = scan.data - n /\ seen'.in_range
  BY <1>3, NetworkRange, Zenon
<1>5. scan' = [s EXCEPT !.pc = "network", !.data = scan.data - n, !.offset = 0]
  BY <1>2 DEF Strip
<1> HIDE DEF s
<1>6. scan' \in Scan
  <2>1. scan' = Strip(s, n)
    BY DEF s
  <2>2. QED
    BY <1>2, <1>3, <2>1, StripType, Zenon
<1>7. scan'.pc = "network" /\ scan'.data = scan.data - n /\ scan'.result = scan.result
  BY <1>2, <1>5 DEF Scan
<1>8. NoPanic' /\ InTags' /\ InNetwork' /\ InFamily' /\ InWalk' /\ InTransport'
  BY <1>1, <1>3, <1>4, <1>7, ScanFields DEF NoPanic, InTags, InNetwork, InFamily,
     InWalk, InTransport, IP
<1>9. scan.pc # "done"
  OBVIOUS
<1>10. QED
  BY <1>4, <1>6, <1>7, <1>8, <1>9, StageStep, Zenon

\* The record with its own values put in.
LEMMA SameScan ==
    ASSUME scan \in Scan
    PROVE  /\ scan = [scan EXCEPT !.ethertype = scan.ethertype, !.nibble = scan.nibble]
           /\ \A t : [scan EXCEPT !.ethertype = t]
                       = [scan EXCEPT !.ethertype = t, !.nibble = scan.nibble]
           /\ scan.ethertype \in Ethertypes
           /\ scan.nibble \in Nibbles
BY DEF Scan, Ethertypes, Nibbles

LEMMA FixedHeaderKeeps ==
    ASSUME ParserInv, At("link"),
           NEW n \in Nat, NEW types \in SUBSET Ethertypes,
           FixedHeader(n, types)
    PROVE  ParserInv'
<1>1. /\ scan \in Scan /\ seen \in Seen /\ NoPanic /\ scan.pc = "link"
      /\ UNCHANGED <<link_type, families>>
  BY DEF ParserInv, TypeOK, At
<1>2. CASE scan.data < n /\ Drop
  BY <1>1, <1>2, DropStep DEF Drop, NoPanic
<1>3. CASE /\ scan.data >= n /\ NetworkFrom(n)
           /\ \E t \in types : scan' = Strip([scan EXCEPT !.ethertype = t], n)
  <2>1. PICK t \in types : scan' = Strip([scan EXCEPT !.ethertype = t], n)
    BY <1>3
  <2>2. scan' = Strip([scan EXCEPT !.ethertype = t, !.nibble = scan.nibble], n)
    BY <1>1, <2>1, SameScan, Zenon
  <2>3. n <= scan.data
    BY <1>1, <1>3, ScanFields
  <2>4. t \in Ethertypes /\ scan.nibble \in Nibbles
    BY <1>1, SameScan, Zenon
  <2>5. QED
    BY <1>1, <1>3, <2>2, <2>3, <2>4, StripKeeps, Zenon
<1>4. QED
  BY <1>2, <1>3 DEF FixedHeader

LEMMA EthernetKeeps ==
    ASSUME ParserInv, At("link"), Ethernet
    PROVE  ParserInv'
<1>1. /\ scan \in Scan /\ seen \in Seen /\ NoPanic /\ scan.pc = "link"
      /\ UNCHANGED <<link_type, families>>
  BY DEF ParserInv, TypeOK, At
<1>2. CASE scan.data < 14 /\ Drop
  BY <1>1, <1>2, DropStep DEF Drop, NoPanic
<1>3. CASE ~(scan.data < 14 /\ Drop)
  <2>1. PICK t \in IP \cup {"tag", "other"} :
          /\ scan.data >= 14
          /\ scan' = [scan EXCEPT !.pc = "tags", !.ethertype = t, !.offset = 14]
          /\ seen' = [seen EXCEPT !.in_range = Reach(14)]
    BY <1>3 DEF Ethernet
  <2>2. 14 \in Int /\ 14 <= scan.data
    BY <1>1, <2>1, ScanFields
  <2>3. seen' \in Seen /\ seen'.in_range
    BY <2>1, <2>2, RangeKept, Zenon
  <2>4. scan' \in Scan
    <3>1. "tags" \in Stages /\ t \in Ethertypes
      BY DEF Stages, Ethertypes
    <3>2. QED
      BY <1>1, <2>1, <2>2, <3>1, EnterTagsType, Zenon
  <2>5. /\ scan'.pc = "tags" /\ scan'.offset = 14 /\ scan'.data = scan.data
        /\ scan'.result = scan.result
    BY <1>1, <2>1 DEF Scan
  <2>6. /\ NoPanic' /\ InTags' /\ InNetwork' /\ InFamily' /\ InWalk'
        /\ InTransport'
    BY <1>1, <2>2, <2>3, <2>5 DEF NoPanic, InTags, InNetwork, InFamily, InWalk,
       InTransport, IP
  <2>7. scan.pc # "done"
    BY <1>1
  <2>8. QED
    BY <1>1, <2>3, <2>4, <2>5, <2>6, <2>7, StageStep, Zenon
<1>4. QED
  BY <1>2, <1>3

LEMMA ByVersionKeeps ==
    ASSUME ParserInv, At("link"), ByVersion
    PROVE  ParserInv'
<1>1. /\ scan \in Scan /\ seen \in Seen /\ NoPanic /\ scan.pc = "link"
      /\ UNCHANGED <<link_type, families>>
  BY DEF ParserInv, TypeOK, At
<1>2. 0 \in Nat /\ 0 \in Int /\ 0 <= scan.data /\ scan.pc # "done"
  BY <1>1, ScanFields DEF NoPanic
<1>3. CASE scan.data = 0 /\ Drop
  BY <1>1, <1>3, DropStep DEF Drop, NoPanic
<1>4. CASE scan.data > 0 /\ NetworkFrom(0) /\ scan' = Rejected
  <2>1. seen' \in Seen /\ seen'.in_range
    BY <1>2, <1>4, NetworkRange, Zenon
  <2>2. QED
    BY <1>1, <1>2, <1>4, <2>1, DropStep, Zenon
<1>5. CASE /\ scan.data > 0 /\ NetworkFrom(0)
           /\ \E v \in IP :
                scan' = Strip([scan EXCEPT !.ethertype = v, !.nibble = v], 0)
  <2>1. PICK v \in IP :
               scan' = Strip([scan EXCEPT !.ethertype = v, !.nibble = v], 0)
    BY <1>5
  <2>2. v \in Ethertypes /\ v \in Nibbles
    BY DEF Ethertypes, Nibbles
  <2>3. QED
    BY <1>1, <1>2, <1>5, <2>1, <2>2, StripKeeps, Zenon
<1>6. QED
  BY <1>3, <1>4, <1>5 DEF ByVersion

LEMMA RawKeeps ==
    ASSUME ParserInv, At("link"), NEW t \in IP, Raw(t)
    PROVE  ParserInv'
<1>1. /\ scan \in Scan /\ NoPanic /\ scan.pc = "link"
      /\ UNCHANGED <<link_type, families>>
  BY DEF ParserInv, TypeOK, At
<1>2. 0 \in Nat /\ 0 <= scan.data
  BY <1>1, ScanFields DEF NoPanic
<1>3. scan' = Strip([scan EXCEPT !.ethertype = t, !.nibble = scan.nibble], 0)
  BY <1>1, SameScan, Zenon DEF Raw
<1>4. t \in Ethertypes /\ scan.nibble \in Nibbles
  BY <1>1, SameScan DEF Ethertypes
<1>5. QED
  BY <1>1, <1>2, <1>3, <1>4, StripKeeps, Zenon DEF Raw

LEMMA StripLinkLayerKeeps ==
    ASSUME ParserInv, StripLinkLayer
    PROVE  ParserInv'
<1>1. At("link")
  BY DEF StripLinkLayer
<1>2. CASE Ethernet
  BY <1>1, <1>2, EthernetKeeps
<1>3. ASSUME NEW n \in {4, 16, 20},
             NEW types \in {IP \cup {"other"}, IP \cup {"tag", "other"}},
             FixedHeader(n, types)
      PROVE  ParserInv'
  <2>1. n \in Nat /\ types \in SUBSET Ethertypes
    BY DEF Ethertypes
  <2>2. QED
    BY <1>1, <1>3, <2>1, FixedHeaderKeeps, Zenon
<1>4. ASSUME NEW t \in {"ipv4", "ipv6"}, Raw(t) PROVE ParserInv'
  BY <1>1, <1>4, RawKeeps, Zenon DEF IP
<1>5. CASE ByVersion
  BY <1>1, <1>5, ByVersionKeeps
<1>6. QED
  BY <1>2, <1>3, <1>4, <1>5, Zenon DEF StripLinkLayer

\* A tag is read only when it is whole.
LEMMA TagsKeep ==
    ASSUME ParserInv, PeelTag \/ EndOfTags
    PROVE  ParserInv'
<1>1. /\ scan \in Scan /\ seen \in Seen /\ NoPanic /\ InTags
      /\ scan.pc = "tags" /\ scan.pc # "done"
      /\ UNCHANGED <<link_type, families>>
  BY DEF ParserInv, TypeOK, At, PeelTag, EndOfTags
<1>2. CASE PeelTag
  <2>1. PICK t \in IP \cup {"tag", "other"} :
          scan' = [scan EXCEPT !.ethertype = t, !.offset = @ + 4]
    BY <1>2, Zenon DEF PeelTag
  <2>2. scan.offset + 4 \in Int /\ scan.offset + 4 <= scan.data
    <3>1. scan.offset + 4 <= scan.data
      BY <1>2, Zenon DEF PeelTag, TagAhead
    <3>2. scan.offset \in Int
      BY <1>1, ScanFields
    <3>3. QED
      BY <3>1, <3>2
  <2>3. seen' \in Seen /\ seen'.in_range
    <3>1. seen' = [seen EXCEPT !.in_range = Reach(scan.offset + 4)]
      BY <1>2 DEF PeelTag
    <3>2. QED
      BY <2>2, <3>1, RangeKept, Zenon
  <2>4. scan' \in Scan
    BY <1>1, <2>1, <2>2 DEF Scan
  <2>5. /\ scan'.pc = "tags" /\ scan'.offset = scan.offset + 4
        /\ scan'.data = scan.data /\ scan'.result = scan.result
    BY <1>1, <2>1 DEF Scan
  <2>6. /\ NoPanic' /\ InTags' /\ InNetwork' /\ InFamily' /\ InWalk'
        /\ InTransport'
    BY <1>1, <2>2, <2>3, <2>5, ScanFields DEF NoPanic, InTags, InNetwork,
       InFamily, InWalk, InTransport, IP
  <2>7. QED
    BY <1>1, <2>3, <2>4, <2>5, <2>6, StageStep, Zenon
<1>3. CASE EndOfTags
  <2>1. scan.offset \in Nat /\ scan.offset <= scan.data
    BY <1>1, ScanFields DEF InTags
  <2>2. scan' = Strip([scan EXCEPT !.ethertype = scan.ethertype,
                                   !.nibble = scan.nibble], scan.offset)
    BY <1>1, <1>3, SameScan, Zenon DEF EndOfTags
  <2>3. scan.ethertype \in Ethertypes /\ scan.nibble \in Nibbles
    BY <1>1, SameScan, Zenon
  <2>4. QED
    BY <1>1, <1>3, <2>1, <2>2, <2>3, StripKeeps, Zenon DEF EndOfTags
<1>4. QED
  BY <1>2, <1>3

\* Which network layer follows is decided by what is to be read.
LEMMA DispatchKeeps ==
    ASSUME ParserInv, Dispatch
    PROVE  ParserInv'
<1>1. /\ scan \in Scan /\ seen \in Seen /\ NoPanic /\ families \subseteq IP
      /\ scan.pc = "network" /\ scan.pc # "done" /\ seen.network = scan.data
      /\ UNCHANGED <<link_type, families>>
  BY ParserAssumption DEF ParserInv, TypeOK, At, Dispatch, InNetwork
<1>2. ASSUME Drop PROVE ParserInv'
  BY <1>1, <1>2, DropStep DEF Drop, NoPanic
<1>3. CASE /\ scan.ethertype \in families
           /\ scan' = [scan EXCEPT !.pc = scan.ethertype]
           /\ UNCHANGED seen
  <2>1. /\ scan' \in Scan /\ seen' \in Seen
        /\ scan'.pc = scan.ethertype /\ scan'.data = scan.data
        /\ scan'.result = scan.result
    BY <1>1, <1>3 DEF Scan
  <2>2. /\ NoPanic' /\ InTags' /\ InNetwork' /\ InFamily' /\ InWalk'
        /\ InTransport'
    BY <1>1, <1>3, <2>1 DEF NoPanic, InTags, InNetwork, InFamily, InWalk,
       InTransport, IP
  <2>3. QED
    BY <1>1, <2>1, <2>2, StageStep, Zenon
<1>4. ASSUME NEW v \in Versions, scan.data > 0, scan' = TakeAs(v),
             seen' = [seen EXCEPT !.in_range = Reach(1)]
      PROVE  ParserInv'
  <2>1. 1 \in Int /\ 1 <= scan.data
    BY <1>1, <1>4, ScanFields
  <2>2. seen' \in Seen /\ seen'.in_range /\ seen'.network = seen.network
    BY <1>4, <2>1, RangeKept, Zenon
  <2>3. v \in Nibbles
    BY <1>1, ScanFields DEF Versions, Nibbles
  <2>4. CASE v \in families
    <3>1. scan' = [scan EXCEPT !.pc = v, !.nibble = v]
      BY <1>4, <2>4 DEF TakeAs
    <3>2. /\ scan' \in Scan /\ scan'.pc = v /\ scan'.data = scan.data
          /\ scan'.result = scan.result
      BY <1>1, <2>4, <3>1 DEF Scan
    <3>3. /\ NoPanic' /\ InTags' /\ InNetwork' /\ InFamily' /\ InWalk'
          /\ InTransport'
      BY <1>1, <2>2, <2>4, <3>2 DEF NoPanic, InTags, InNetwork, InFamily,
         InWalk, InTransport, IP
    <3>4. QED
      BY <1>1, <2>2, <3>2, <3>3, StageStep, Zenon
  <2>5. CASE v \notin families
    <3>1. scan' = [scan EXCEPT !.pc = "done", !.nibble = v]
      BY <1>4, <2>5 DEF TakeAs
    <3>2. /\ scan' \in Scan /\ scan'.pc = "done" /\ scan'.data = scan.data
          /\ scan'.result = scan.result
      BY <1>1, <2>3, <3>1 DEF Scan, Nibbles
    <3>3. /\ NoPanic' /\ InTags' /\ InNetwork' /\ InFamily' /\ InWalk'
          /\ InTransport'
      BY <1>1, <2>2, <3>2 DEF NoPanic, InTags, InNetwork, InFamily, InWalk,
         InTransport, IP
    <3>4. QED
      BY <1>1, <2>2, <3>2, <3>3, StageStep, Zenon
  <2>6. QED
    BY <2>4, <2>5
<1>5. QED
  BY <1>2, <1>3, <1>4 DEF Dispatch

\* The end of a packet, by what it claims and by what is captured.
LEMMA PacketEndFacts ==
    ASSUME scan \in Scan, NEW n \in Nat
    PROVE  /\ PacketEnd(n) \in Int /\ PacketEnd(n) <= scan.data
           /\ PacketEnd(n) <= n
           /\ PacketEnd(n) = IF n < scan.data THEN n ELSE scan.data
BY ScanFields DEF PacketEnd

\* An IPv4 packet is cut off where it ends.
LEMMA Ipv4Keeps ==
    ASSUME ParserInv, ParseIpv4
    PROVE  ParserInv'
<1>1. /\ scan \in Scan /\ seen \in Seen /\ NoPanic /\ families \subseteq IP
      /\ scan.pc = "ipv4" /\ scan.pc # "done" /\ seen.network = scan.data
      /\ "ipv4" \in families
      /\ UNCHANGED <<link_type, families>>
  BY ParserAssumption DEF ParserInv, TypeOK, At, ParseIpv4, InNetwork, InFamily, IP
<1>2. CASE scan.data < 20 /\ Drop
  BY <1>1, <1>2, DropStep DEF Drop, NoPanic
<1>3. CASE ~(scan.data < 20 /\ Drop)
  <2>1. PICK v \in Versions, words \in HeaderWords, total \in Declared,
             p \in Transports :
          /\ scan.data >= 20
          /\ scan' = IF /\ v = "ipv4"
                        /\ 4 * words >= 20 /\ 4 * words <= scan.data
                        /\ 4 * words <= PacketEnd(total)
                     THEN Hand([scan EXCEPT !.nibble = v, !.protocol = p],
                               4 * words, PacketEnd(total))
                     ELSE [[scan EXCEPT !.nibble = v, !.protocol = p]
                             EXCEPT !.pc = "done"]
          /\ seen' = [seen EXCEPT !.in_range = Reach(20),
                                  !.declared = total, !.start = 4 * words]
    BY <1>3, Zenon DEF ParseIpv4
  <2>2. words \in Nat /\ total \in Nat /\ 4 * words \in Nat
    BY ParserAssumption
  <2>3. /\ seen' \in Seen /\ seen'.in_range /\ seen'.network = seen.network
        /\ seen'.declared = total /\ seen'.start = 4 * words
    <3>1. 20 \in Int /\ 20 <= scan.data
      BY <1>1, <2>1, ScanFields
    <3>2. Reach(20) = TRUE
      BY <3>1, ReachHolds, Zenon
    <3> DEFINE ihl == 4 * words
    <3>3. seen' = [seen EXCEPT !.in_range = TRUE, !.declared = total, !.start = ihl]
      BY <2>1, <3>2, Zenon
    <3>4. ihl \in Int
      BY <2>2
    <3> HIDE DEF ihl
    <3> DEFINE q == [seen EXCEPT !.in_range = TRUE, !.declared = total]
    <3>5. /\ q \in Seen /\ q.in_range /\ q.network = seen.network
          /\ q.declared = total
      <4>1. total \in Int
        BY <2>2
      <4>2. seen \in Seen
        BY <1>1
      <4>3. QED
        BY <4>1, <4>2, DeclaredSet, Zenon
    <3>6. seen' = [q EXCEPT !.start = ihl]
      BY <3>3, Zenon
    <3> HIDE DEF q
    <3>7. /\ seen' \in Seen /\ seen'.in_range /\ seen'.network = seen.network
          /\ seen'.declared = total /\ seen'.start = ihl
      BY <3>4, <3>5, <3>6 DEF Seen
    <3>8. QED
      BY <3>7 DEF ihl
  <2> DEFINE s == [scan EXCEPT !.nibble = v, !.protocol = p]
  <2>4. /\ s \in Scan /\ s.data = scan.data /\ s.result = scan.result
        /\ s.nibble = v /\ s.protocol = p
    <3>1. v \in Nibbles
      BY <1>1, ScanFields DEF Versions, Nibbles
    <3>2. QED
      BY <1>1, <3>1, HeaderType DEF Scan
  <2>5. CASE /\ v = "ipv4" /\ 4 * words <= PacketEnd(total)
             /\ scan' = Hand(s, 4 * words, PacketEnd(total))
    <3> HIDE DEF s
    <3>1. scan' = [s EXCEPT !.pc = "transport", !.data = PacketEnd(total) - 4 * words]
      BY <2>5 DEF Hand
    <3>2. PacketEnd(total) - 4 * words \in Int /\ PacketEnd(total) - 4 * words >= 0
      BY <1>1, <2>2, <2>5, PacketEndFacts
    <3>3. /\ scan' \in Scan /\ scan'.pc = "transport"
          /\ scan'.data = PacketEnd(total) - 4 * words
          /\ scan'.result = scan.result /\ scan'.nibble = "ipv4"
          /\ scan'.protocol = p
      BY <2>4, <2>5, <3>1, <3>2 DEF Scan
    <3>4. End' = PacketEnd(total)
      BY <1>1, <2>2, <2>3, PacketEndFacts DEF End
    <3>5. p \notin Extensions
      BY DEF Transports, Extensions, Options
    <3>6. NoPanic' /\ InTags' /\ InNetwork' /\ InFamily' /\ InWalk'
      BY <2>3, <3>2, <3>3 DEF NoPanic, InTags, InNetwork, InFamily, InWalk, IP
    <3>7. InTransport'
      BY <1>1, <2>2, <2>3, <3>3, <3>4, <3>5 DEF InTransport
    <3>8. QED
      BY <1>1, <2>3, <3>3, <3>6, <3>7, StageStep, Zenon
  <2>6. CASE scan' = [s EXCEPT !.pc = "done"]
    <3> HIDE DEF s
    <3>1. /\ scan' \in Scan /\ scan'.pc = "done" /\ scan'.data = scan.data
          /\ scan'.result = scan.result
      BY <2>4, <2>6 DEF Scan
    <3>2. /\ NoPanic' /\ InTags' /\ InNetwork' /\ InFamily' /\ InWalk'
          /\ InTransport'
      BY <1>1, <2>3, <3>1 DEF NoPanic, InTags, InNetwork, InFamily, InWalk,
         InTransport, IP
    <3>3. QED
      BY <1>1, <2>3, <3>1, <3>2, StageStep, Zenon
  <2>7. QED
    BY <2>1, <2>5, <2>6, Zenon
<1>4. QED
  BY <1>2, <1>3

\* The walk over an IPv6 packet begins behind its fixed header.
LEMMA Ipv6Keeps ==
    ASSUME ParserInv, ParseIpv6
    PROVE  ParserInv'
<1>1. /\ scan \in Scan /\ seen \in Seen /\ NoPanic /\ families \subseteq IP
      /\ scan.pc = "ipv6" /\ scan.pc # "done" /\ seen.network = scan.data
      /\ "ipv6" \in families
      /\ UNCHANGED <<link_type, families>>
  BY ParserAssumption DEF ParserInv, TypeOK, At, ParseIpv6, InNetwork, InFamily, IP
<1>2. CASE scan.data < 40 /\ Drop
  BY <1>1, <1>2, DropStep DEF Drop, NoPanic
<1>3. CASE ~(scan.data < 40 /\ Drop)
  <2>1. PICK v \in Versions, claimed \in Declared,
             next_header \in Transports \cup Extensions :
          /\ scan.data >= 40
          /\ scan' = [scan EXCEPT
                        !.pc = IF v = "ipv6" THEN "walk" ELSE "done",
                        !.nibble = v, !.protocol = next_header,
                        !.offset = 40, !.max_len = PacketEnd(40 + claimed)]
          /\ seen' = [seen EXCEPT !.in_range = Reach(40),
                                  !.declared = 40 + claimed]
    BY <1>3, Zenon DEF ParseIpv6
  <2>2. claimed \in Nat /\ 40 + claimed \in Nat /\ 40 \in Int /\ 40 <= scan.data
    BY <1>1, <2>1, ParserAssumption, ScanFields
  <2> DEFINE x == IF v = "ipv6" THEN "walk" ELSE "done"
  <2> DEFINE m == PacketEnd(40 + claimed)
  <2>3. x \in Stages /\ v \in Nibbles /\ m \in Int
    BY <1>1, <2>2, ScanFields, PacketEndFacts DEF Versions, Nibbles, Stages
  <2>4. /\ seen' \in Seen /\ seen'.in_range /\ seen'.network = seen.network
        /\ seen'.declared = 40 + claimed
    <3>1. Reach(40) = TRUE
      BY <2>2, ReachHolds, Zenon
    <3> DEFINE d == 40 + claimed
    <3>2. seen' = [seen EXCEPT !.in_range = TRUE, !.declared = d]
      BY <2>1, <3>1, Zenon
    <3>3. d \in Int
      BY <2>2
    <3> HIDE DEF d
    <3>4. /\ seen' \in Seen /\ seen'.in_range /\ seen'.network = seen.network
          /\ seen'.declared = d
      BY <1>1, <3>2, <3>3 DEF Seen
    <3>5. QED
      BY <3>4 DEF d
  <2>5. scan' = [scan EXCEPT !.pc = x, !.nibble = v, !.protocol = next_header,
                             !.offset = 40, !.max_len = m]
    BY <2>1, Zenon
  <2> HIDE DEF x, m
  <2>6. scan' \in Scan
    BY <1>1, <2>2, <2>3, <2>5, WalkType, ZenonT(30)
  <2>7. /\ scan'.pc = x /\ scan'.data = scan.data /\ scan'.offset = 40
        /\ scan'.max_len = m /\ scan'.nibble = v /\ scan'.result = scan.result
    BY <1>1, <2>5 DEF Scan
  <2>8. End' = m
    BY <1>1, <2>2, <2>4, PacketEndFacts DEF End, m
  <2>9. NoPanic' /\ InTags' /\ InNetwork' /\ InFamily' /\ InTransport'
    BY <1>1, <2>4, <2>7 DEF NoPanic, InTags, InNetwork, InFamily, InTransport,
       IP, x
  <2>10. InWalk'
    BY <1>1, <2>4, <2>7, <2>8 DEF InWalk, x
  <2>11. QED
    BY <1>1, <2>4, <2>6, <2>7, <2>9, <2>10, StageStep, Zenon
<1>4. QED
  BY <1>2, <1>3

\* The transport data is what is left of the packet.
LEMMA HandKeeps ==
    ASSUME ParserInv, scan.pc = "walk", 0 <= scan.offset,
           scan.offset <= scan.max_len,
           scan' = Hand(scan, scan.offset, scan.max_len),
           seen' \in Seen, seen'.in_range, seen'.start = scan.offset,
           seen'.network = seen.network, seen'.declared = seen.declared,
           scan.protocol \in Extensions =>
             \/ scan.offset + Fixed(scan.protocol) > scan.max_len
             \/ scan.offset + seen'.extension > scan.max_len,
           UNCHANGED <<link_type, families>>
    PROVE  ParserInv'
<1>1. scan \in Scan /\ seen \in Seen /\ InWalk /\ scan.pc # "done"
  BY DEF ParserInv, TypeOK
<1> DEFINE d == scan.max_len - scan.offset
<1>2. d \in Int /\ d >= 0
  BY <1>1, ScanFields
<1>3. scan' = [scan EXCEPT !.pc = "transport", !.data = d]
  BY Zenon DEF Hand
<1> HIDE DEF d
<1>4. /\ scan' \in Scan /\ scan'.pc = "transport" /\ scan'.data = d
      /\ scan'.max_len = scan.max_len /\ scan'.protocol = scan.protocol
      /\ scan'.nibble = scan.nibble /\ scan'.result = scan.result
  BY <1>1, <1>2, <1>3 DEF Scan
<1>5. End' = End
  BY DEF End
<1>6. NoPanic' /\ InTags' /\ InNetwork' /\ InFamily' /\ InWalk'
  BY <1>2, <1>4 DEF NoPanic, InTags, InNetwork, InFamily, InWalk, IP
<1>7. InTransport'
  BY <1>1, <1>4, <1>5 DEF InTransport, InWalk, Fixed, d
<1>8. QED
  BY <1>1, <1>4, <1>6, <1>7, StageStep, Zenon

\* An extension header is passed over when it is whole.
LEMMA WalkKeeps ==
    ASSUME ParserInv, PassExtension \/ EndOfWalk
    PROVE  ParserInv'
<1>1. /\ scan \in Scan /\ seen \in Seen /\ NoPanic /\ InWalk
      /\ scan.pc = "walk" /\ scan.pc # "done" /\ seen.network = scan.data
      /\ UNCHANGED <<link_type, families>>
  BY DEF ParserInv, TypeOK, At, PassExtension, EndOfWalk, InNetwork
<1>2. /\ 40 <= scan.offset /\ scan.max_len = End /\ End <= scan.data
      /\ scan.offset \in Int /\ scan.max_len \in Int /\ scan.data \in Int
  BY <1>1, ScanFields, SeenFields DEF InWalk, End
<1>3. CASE PassExtension
  <2>1. scan.protocol \in Extensions /\ Fits(Fixed(scan.protocol))
    BY <1>3, Zenon DEF PassExtension, AtExtension
  <2>2. scan.offset + 2 <= scan.max_len /\ scan.offset + 2 \in Int
    BY <1>2, <2>1 DEF Fits, Fixed
  <2>3. PICK n \in ExtensionUnits, next \in Transports \cup Extensions :
          LET length == ExtensionLength(scan.protocol, n) IN
          \/ /\ Fits(length)
             /\ scan' = [scan EXCEPT !.protocol = next, !.offset = @ + length]
             /\ seen' = [seen EXCEPT !.in_range = Reach(scan.offset + 2)]
          \/ /\ ~Fits(length)
             /\ scan' = Hand(scan, scan.offset, scan.max_len)
             /\ seen' = [seen EXCEPT
                           !.in_range = /\ Reach(scan.offset + 2)
                                        /\ Reach(scan.max_len),
                           !.start = scan.offset, !.extension = length]
    BY <1>3, Zenon DEF PassExtension
  <2> DEFINE length == ExtensionLength(scan.protocol, n)
  <2>4. length \in Int /\ length > 0
    <3>1. n \in Nat
      BY ParserAssumption
    <3>2. scan.protocol \in Options \cup {"fragment", "ah"}
      BY <2>1 DEF Extensions
    <3>3. QED
      BY <3>1, <3>2 DEF ExtensionLength, Options
  <2>5. Reach(scan.offset + 2) = TRUE /\ Reach(scan.max_len) = TRUE
    <3>1. scan.offset + 2 <= scan.data /\ scan.max_len <= scan.data
      BY <1>2, <2>2
    <3>2. QED
      BY <1>2, <2>2, <3>1, ReachHolds, Zenon
  <2> HIDE DEF length
  <2>6. CASE /\ Fits(length)
             /\ scan' = [scan EXCEPT !.protocol = next, !.offset = @ + length]
             /\ seen' = [seen EXCEPT !.in_range = Reach(scan.offset + 2)]
    <3> DEFINE o == scan.offset + length
    <3>1. o \in Int /\ 40 <= o
      BY <1>2, <2>4
    <3>2. scan' = [scan EXCEPT !.protocol = next, !.offset = o]
      BY <2>6, Zenon
    <3> HIDE DEF o
    <3>3. /\ scan' \in Scan /\ scan'.pc = "walk" /\ scan'.data = scan.data
          /\ scan'.offset = o /\ scan'.max_len = scan.max_len
          /\ scan'.nibble = scan.nibble /\ scan'.result = scan.result
      BY <1>1, <3>1, <3>2 DEF Scan
    <3>4. seen' = [seen EXCEPT !.in_range = TRUE]
      BY <2>5, <2>6, Zenon
    <3>5. /\ seen' \in Seen /\ seen'.in_range /\ seen'.network = seen.network
          /\ seen'.declared = seen.declared
      BY <1>1, <3>4 DEF Seen
    <3>6. NoPanic' /\ InTags' /\ InNetwork' /\ InFamily' /\ InTransport'
      BY <1>1, <3>3, <3>5 DEF NoPanic, InTags, InNetwork, InFamily,
         InTransport, IP
    <3>7. InWalk'
      BY <1>1, <3>1, <3>3, <3>5 DEF InWalk, End
    <3>8. QED
      BY <1>1, <3>3, <3>5, <3>6, <3>7, StageStep, Zenon
  <2>7. CASE /\ ~Fits(length)
             /\ scan' = Hand(scan, scan.offset, scan.max_len)
             /\ seen' = [seen EXCEPT
                           !.in_range = /\ Reach(scan.offset + 2)
                                        /\ Reach(scan.max_len),
                           !.start = scan.offset, !.extension = length]
    <3>1. (Reach(scan.offset + 2) /\ Reach(scan.max_len)) = TRUE
      BY <2>5, Zenon
    <3>2. seen' = [seen EXCEPT !.in_range = TRUE, !.start = scan.offset,
                               !.extension = length]
      BY <2>7, <3>1, Zenon
    <3>3. /\ seen' \in Seen /\ seen'.in_range /\ seen'.start = scan.offset
          /\ seen'.extension = length
          /\ seen'.network = seen.network /\ seen'.declared = seen.declared
      BY <1>1, <1>2, <2>4, <3>2 DEF Seen
    <3>4. 0 <= scan.offset /\ scan.offset <= scan.max_len
      BY <1>2, <2>2
    <3>5. scan.offset + seen'.extension > scan.max_len
      BY <1>2, <2>4, <2>7, <3>3 DEF Fits
    <3>6. QED
      BY <1>1, <2>7, <3>3, <3>4, <3>5, HandKeeps, Zenon
  <2>8. QED
    BY <2>3, <2>6, <2>7, Zenon DEF length
<1>4. CASE EndOfWalk
  <2>1. CASE Drop
    BY <1>1, <2>1, DropStep DEF Drop, NoPanic
  <2>2. CASE ~Drop
    <3>1. /\ AtExtension => ~Fits(Fixed(scan.protocol))
          /\ scan.offset <= scan.max_len
          /\ scan' = Hand(scan, scan.offset, scan.max_len)
          /\ seen' = [seen EXCEPT !.in_range = Reach(scan.max_len),
                                  !.start = scan.offset]
      BY <1>4, <2>2, Zenon DEF EndOfWalk
    <3>2. Reach(scan.max_len) = TRUE
      BY <1>2, ReachHolds
    <3>3. seen' = [seen EXCEPT !.in_range = TRUE, !.start = scan.offset]
      BY <3>1, <3>2, Zenon
    <3>4. /\ seen' \in Seen /\ seen'.in_range /\ seen'.start = scan.offset
          /\ seen'.network = seen.network /\ seen'.declared = seen.declared
      BY <1>1, <1>2, <3>3 DEF Seen
    <3>5. scan.protocol \in Extensions =>
            scan.offset + Fixed(scan.protocol) > scan.max_len
      BY <1>2, <3>1 DEF AtExtension, Fits, Fixed
    <3>6. 0 <= scan.offset
      BY <1>2
    <3>7. QED
      BY <1>1, <3>1, <3>4, <3>5, <3>6, HandKeeps, Zenon
  <2>3. QED
    BY <2>1, <2>2
<1>5. QED
  BY <1>3, <1>4

-----------------------------------------------------------------------------
(* The transport layer gives a result.                                     *)

\* A packet is delivered that fits into what is left.
LEMMA DeliverKeeps ==
    ASSUME ParserInv, scan.pc = "transport",
           NEW h \in Nat, NEW n \in Nat, h + n <= scan.data,
           Deliver(h, n),
           seen' \in Seen, seen'.in_range,
           seen'.start = seen.start, seen'.extension = seen.extension,
           seen'.network = seen.network, seen'.declared = seen.declared,
           scan.protocol = "tcp" => h + n = scan.data,
           scan.protocol = "udp" /\ seen'.udp >= 8 =>
             /\ h + n <= seen'.udp
             /\ seen'.udp <= scan.data => h + n = seen'.udp,
           UNCHANGED <<link_type, families>>
    PROVE  ParserInv'
<1>1. /\ scan \in Scan /\ seen \in Seen /\ NoPanic /\ InTransport
      /\ families \subseteq IP
  BY ParserAssumption DEF ParserInv, TypeOK
<1> DEFINE p == [version |-> scan.nibble, protocol |-> scan.protocol,
                 header |-> h, payload |-> n]
<1>2. p \in Packet
  <2>1. scan.nibble \in IP /\ scan.protocol \in Transports \cup Extensions
    BY <1>1, ScanFields DEF InTransport
  <2>2. QED
    BY <2>1 DEF Packet
<1>3. /\ p.version = scan.nibble /\ p.protocol = scan.protocol
      /\ p.header = h /\ p.payload = n
  OBVIOUS
<1>4. scan' = [scan EXCEPT !.pc = "done", !.result = {p}]
  BY Zenon DEF Deliver
<1> HIDE DEF p
<1>5. /\ scan' \in Scan /\ scan'.pc = "done" /\ scan'.result = {p}
      /\ scan'.data = scan.data /\ scan'.max_len = scan.max_len
  BY <1>1, <1>2, <1>4 DEF Scan
<1>6. TypeOK' /\ NoPanic' /\ NoResultYet'
  BY <1>1, <1>5 DEF ParserInv, TypeOK, NoPanic, NoResultYet
<1>7. InTags' /\ InNetwork' /\ InFamily' /\ InWalk' /\ InTransport'
  BY <1>5 DEF InTags, InNetwork, InFamily, InWalk, InTransport, IP
<1>8. PayloadWithinPacket'
  <2>1. End' = End /\ End = seen.start + scan.data
    <3>1. End' = End /\ scan.data = End - seen.start
      BY <1>1 DEF End, InTransport
    <3>2. End \in Int /\ seen.start \in Int
      BY <1>1, SeenFields DEF End
    <3>3. QED
      BY <3>1, <3>2
  <2>2. /\ h >= 0 /\ n >= 0
        /\ seen.start + (h + n) <= End
        /\ scan.protocol = "tcp" => seen.start + (h + n) = End
        /\ scan.protocol = "udp" /\ seen'.udp >= 8 =>
             /\ h + n <= seen'.udp
             /\ seen.start + seen'.udp <= End => h + n = seen'.udp
    BY <1>1, <2>1, ScanFields, SeenFields
  <2>3. QED
    BY <1>3, <1>5, <2>1, <2>2 DEF PayloadWithinPacket, End
<1>9. UpperLayerReached'
  BY <1>1, <1>3, <1>5 DEF UpperLayerReached, InTransport, Fixed
<1>10. FamilyAskedFor'
  BY <1>1, <1>3, <1>5 DEF FamilyAskedFor, InTransport
<1>11. QED
  BY <1>6, <1>7, <1>8, <1>9, <1>10 DEF ParserInv

LEMMA TransportKeeps ==
    ASSUME ParserInv, Tcp \/ Udp \/ OtherTransport
    PROVE  ParserInv'
<1>1. /\ scan \in Scan /\ seen \in Seen /\ NoPanic
      /\ scan.pc = "transport" /\ scan.pc # "done"
      /\ UNCHANGED <<link_type, families>>
  BY DEF ParserInv, TypeOK, At, Tcp, Udp, OtherTransport
<1>2. scan.data \in Nat
  BY <1>1, ScanFields DEF NoPanic
<1>3. ASSUME Drop PROVE ParserInv'
  BY <1>1, <1>3, DropStep DEF Drop, NoPanic
<1>4. CASE Tcp /\ ~Drop
  <2>1. PICK words \in HeaderWords :
          /\ scan.protocol = "tcp" /\ scan.data >= 20
          /\ \/ scan' = Rejected
             \/ /\ 4 * words >= 20 /\ scan.data >= 4 * words
                /\ Deliver(4 * words, scan.data - 4 * words)
          /\ seen' = [seen EXCEPT !.in_range = Reach(20)]
    BY <1>4, Zenon DEF Tcp
  <2>2. /\ seen' \in Seen /\ seen'.in_range
        /\ seen'.start = seen.start /\ seen'.extension = seen.extension
        /\ seen'.network = seen.network /\ seen'.declared = seen.declared
    <3>1. 20 \in Int /\ 20 <= scan.data
      BY <1>2, <2>1
    <3>2. QED
      BY <2>1, <3>1, RangeKept, Zenon
  <2>3. CASE scan' = Rejected
    BY <1>1, <2>2, <2>3, DropStep, Zenon
  <2>4. CASE /\ scan.data >= 4 * words
             /\ Deliver(4 * words, scan.data - 4 * words)
    <3> DEFINE h == 4 * words
    <3> DEFINE n == scan.data - h
    <3>1. words \in Nat
      BY ParserAssumption
    <3>2. h \in Nat /\ n \in Nat /\ h + n = scan.data /\ h + n <= scan.data
      BY <1>2, <2>4, <3>1
    <3>3. Deliver(h, n) /\ ~(scan.protocol = "udp")
      BY <2>1, <2>4
    <3> HIDE DEF h, n
    <3>4. QED
      BY <1>1, <2>2, <3>2, <3>3, DeliverKeeps, Zenon
  <2>5. QED
    BY <2>1, <2>3, <2>4, Zenon
<1>5. CASE Udp /\ ~Drop
  <2>1. PICK u \in UdpLengths :
          /\ scan.protocol = "udp" /\ scan.data >= 8
          /\ Deliver(8, IF u < 8 THEN 0 ELSE PacketEnd(u) - 8)
          /\ seen' = [seen EXCEPT !.in_range = Reach(8), !.udp = u]
    BY <1>5, Zenon DEF Udp
  <2>2. u \in Nat
    BY ParserAssumption
  <2>3. /\ seen' \in Seen /\ seen'.in_range /\ seen'.udp = u
        /\ seen'.start = seen.start /\ seen'.extension = seen.extension
        /\ seen'.network = seen.network /\ seen'.declared = seen.declared
    <3>1. 8 \in Int /\ 8 <= scan.data
      BY <1>2, <2>1
    <3>2. Reach(8) = TRUE
      BY <3>1, ReachHolds, Zenon
    <3>3. seen' = [seen EXCEPT !.in_range = TRUE, !.udp = u]
      BY <2>1, <3>2, Zenon
    <3>4. u \in Int
      BY <2>2
    <3>5. seen \in Seen
      BY <1>1
    <3>6. QED
      BY <3>3, <3>4, <3>5, UdpSet, Zenon
  <2> DEFINE n == IF u < 8 THEN 0 ELSE PacketEnd(u) - 8
  <2>4. /\ n \in Nat /\ 8 \in Nat /\ 8 + n <= scan.data
        /\ u >= 8 => 8 + n <= u /\ (u <= scan.data => 8 + n = u)
    BY <1>2, <2>1, <2>2 DEF PacketEnd
  <2>5. Deliver(8, n) /\ ~(scan.protocol = "tcp")
    BY <2>1
  <2> HIDE DEF n
  <2>6. seen'.udp >= 8 => 8 + n <= seen'.udp /\ (seen'.udp <= scan.data => 8 + n = seen'.udp)
    BY <2>3, <2>4
  <2>7. QED
    BY <1>1, <2>3, <2>4, <2>5, <2>6, DeliverKeeps, Zenon
<1>6. CASE OtherTransport
  <2>1. /\ ~(scan.protocol = "tcp") /\ ~(scan.protocol = "udp")
        /\ Deliver(0, scan.data) /\ seen' = seen
    BY <1>6 DEF OtherTransport
  <2>2. 0 \in Nat /\ 0 + scan.data <= scan.data
    BY <1>2
  <2>3. seen' \in Seen /\ seen'.in_range
    BY <1>1, <2>1 DEF NoPanic
  <2>4. /\ seen'.start = seen.start /\ seen'.extension = seen.extension
        /\ seen'.network = seen.network /\ seen'.declared = seen.declared
    BY <2>1
  <2>5. QED
    BY <1>1, <1>2, <2>1, <2>2, <2>3, <2>4, DeliverKeeps, Zenon
<1>7. QED
  BY <1>3, <1>4, <1>5, <1>6

-----------------------------------------------------------------------------
(* The theorems.                                                           *)

LEMMA ParserStep == ParserInv /\ [Next]_vars => ParserInv'
<1> SUFFICES ASSUME ParserInv, [Next]_vars PROVE ParserInv'
  OBVIOUS
<1>1. CASE UNCHANGED vars
  BY <1>1 DEF vars, ParserInv, TypeOK, NoPanic, NoResultYet, InTags, InNetwork,
     InFamily, InWalk, InTransport, PayloadWithinPacket, UpperLayerReached,
     FamilyAskedFor, End, Fixed
<1>2. CASE Next
  BY <1>2, CallerStep, StripLinkLayerKeeps, TagsKeep, DispatchKeeps, Ipv4Keeps,
     Ipv6Keeps, WalkKeeps, TransportKeeps, Zenon DEF Next, Parse
<1>3. QED
  BY <1>1, <1>2

LEMMA ParserInvariant == Spec => []ParserInv
<1>1. QED
  BY ParserInit, ParserStep, PTL DEF Spec

\* The parser's locals have their types in every stage.
THEOREM ParserTypeSafe == Spec => []TypeOK
<1>1. ParserInv => TypeOK
  BY DEF ParserInv
<1>2. QED
  BY <1>1, ParserInvariant, PTL

\* parse_packet indexes and slices nothing beyond what it has, whatever a
\* frame holds and however long it is: it cannot panic.
THEOREM ParserNeverPanics == Spec => []NoPanic
<1>1. ParserInv => NoPanic
  BY DEF ParserInv
<1>2. QED
  BY <1>1, ParserInvariant, PTL

\* Header and payload of every packet that parse_packet returns are within the
\* datagram and the capture, for all lengths and claimed lengths.
THEOREM PayloadBounded == Spec => []PayloadWithinPacket
<1>1. ParserInv => PayloadWithinPacket
  BY DEF ParserInv
<1>2. QED
  BY <1>1, ParserInvariant, PTL

\* The walk over IPv6 extension headers stops at one only when it is not whole,
\* however many there are.
THEOREM WalkReachesTransport == Spec => []UpperLayerReached
<1>1. ParserInv => UpperLayerReached
  BY DEF ParserInv
<1>2. QED
  BY <1>1, ParserInvariant, PTL

\* parse_packet returns packets of the families it was told to read only.
THEOREM FamiliesRespected == Spec => []FamilyAskedFor
<1>1. ParserInv => FamilyAskedFor
  BY DEF ParserInv
<1>2. QED
  BY <1>1, ParserInvariant, PTL
=============================================================================
