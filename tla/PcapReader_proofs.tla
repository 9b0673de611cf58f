-------------------------- MODULE PcapReader_proofs --------------------------
(***************************************************************************)
(* Theorems about what the capture file reader delivers, for every set of  *)
(* files: any number of records of any kinds in any order, any number of   *)
(* interfaces and link types.                                              *)
(***************************************************************************)
EXTENDS PcapReader, FiniteSetTheorems, SequenceTheorems, WellFoundedInduction, TLAPS

-----------------------------------------------------------------------------
(* Files and types.                                                        *)

RecordKind == {"frame", "idb", "epb", "spb", "other", "section", "short_epb",
               "bad_length", "cut_header", "cut_body"}

FileRecord ==
    [kind: RecordKind, if_id: Nat, link: LinkTypes, links: SUBSET LinkTypes]

TypeInv ==
    /\ capture \in Captures
    /\ pc \in {"open", "read", "eof", "error"}
    /\ pos \in Nat \ {0}
    /\ pcapng_interfaces \in Seq(LinkTypes)
    /\ delivered \in Seq([record: Nat, link: LinkTypes \cup {1}])

LEMMA RecordsFacts ==
    ASSUME capture \in Captures
    PROVE  /\ Records \in Seq(FileRecord)
           /\ Len(Records) \in Nat
           /\ \A k \in 1 .. Len(Records) : Records[k] \in FileRecord
           /\ \A k \in 1 .. Len(Records) :
                 Records[k].kind \in {"cut_header", "cut_body"} => k = Len(Records)
           /\ capture.pcapng \in BOOLEAN
           /\ \A k \in 1 .. Len(Records) :
                 /\ ~capture.pcapng =>
                      Records[k].kind \in {"frame", "cut_header", "cut_body"}
                 /\ capture.pcapng => Records[k].kind # "frame"
<1> DEFINE kinds == IF capture.pcapng
                    THEN {"idb", "epb", "spb", "other", "section", "short_epb",
                          "bad_length", "cut_header", "cut_body"}
                    ELSE {"frame", "cut_header", "cut_body"}
           R == [kind: kinds, if_id: Nat, link: LinkTypes, links: SUBSET LinkTypes]
<1>1. /\ Records \in Seq(R)
      /\ capture.pcapng \in BOOLEAN
      /\ \A i \in 1 .. Len(Records) - 1 :
            Records[i].kind \notin {"cut_header", "cut_body"}
  BY ReaderAssumption DEF Records
<1>2. R \subseteq FileRecord /\ \A r \in R : r.kind \in kinds
  BY DEF FileRecord, RecordKind
<1> HIDE DEF R
<1>3. /\ Len(Records) \in Nat
      /\ \A k \in 1 .. Len(Records) : Records[k] \in R
  BY <1>1
<1>4. Records \in Seq(FileRecord)
  BY <1>1, <1>2, SeqMonotonic
<1>5. \A k \in 1 .. Len(Records) : Records[k] \in FileRecord /\ Records[k].kind \in kinds
  BY <1>2, <1>3
<1>6. QED
  BY <1>1, <1>3, <1>4, <1>5

\* The kind that is read next is the record's, or the end.
LEMMA NextKindFacts ==
    ASSUME TypeInv, pos \in 1 .. Len(Records) + 1
    PROVE  \/ pos \in 1 .. Len(Records) /\ NextKind = Records[pos].kind
                /\ NextKind \in RecordKind
           \/ pos = Len(Records) + 1 /\ NextKind = "end"
<1>1. pos \in Nat /\ Len(Records) \in Nat
  BY RecordsFacts DEF TypeInv
<1>2. CASE pos > Len(Records)
  BY <1>1, <1>2 DEF NextKind
<1>3. CASE ~(pos > Len(Records))
  <2>1. pos \in 1 .. Len(Records) /\ NextKind = Records[pos].kind
    BY <1>1, <1>3 DEF NextKind
  <2>2. Records[pos] \in FileRecord
    BY <2>1, RecordsFacts DEF TypeInv
  <2>3. QED
    BY <2>1, <2>2 DEF FileRecord
<1>4. QED
  BY <1>2, <1>3

\* A delivery is appended.
LEMMA DeliverFacts ==
    ASSUME TypeInv, NEW k \in Nat, NEW l \in LinkTypes \cup {1}
    PROVE  /\ Deliver(k, l) \in Seq([record: Nat, link: LinkTypes \cup {1}])
           /\ Len(Deliver(k, l)) = Len(delivered) + 1
           /\ Deliver(k, l)[Len(delivered) + 1].record = k
           /\ Deliver(k, l)[Len(delivered) + 1].link = l
           /\ \A i \in 1 .. Len(delivered) : Deliver(k, l)[i] = delivered[i]
<1> DEFINE e == [record |-> k, link |-> l]
<1>1. e \in [record: Nat, link: LinkTypes \cup {1}] /\ e.record = k /\ e.link = l
  OBVIOUS
<1> HIDE DEF e
<1>2. Deliver(k, l) = Append(delivered, e)
  BY DEF Deliver, e
<1>3. QED
  BY <1>1, <1>2 DEF TypeInv

-----------------------------------------------------------------------------
(* Classic files.                                                          *)

\* What has been read are n frames with a packet, each of them delivered.
FramesTaken(n) ==
    /\ Len(delivered) = n
    /\ \A i \in 1 .. n :
          /\ delivered[i].record = i
          /\ Records[i].kind = "frame" /\ capture.link \in Records[i].links

ClassicInv ==
    ~capture.pcapng =>
        /\ pc = "read" =>
             /\ pos \in 1 .. Len(Records) + 1
             /\ link_type = capture.link
             /\ FramesTaken(pos - 1)
        /\ AtEnd => \E n \in 0 .. Len(Records) :
             /\ FramesTaken(n)
             /\ n < Len(Records) =>
                  \/ Records[n + 1].kind # "frame"
                  \/ capture.link \notin Records[n + 1].links

NotOpened ==
    pc = "open" => pos = 1 /\ delivered = <<>> /\ pcapng_interfaces = <<>>

LEMMA ClassicKeeps ==
    ASSUME TypeInv, ClassicInv, NextClassic
    PROVE  TypeInv' /\ ClassicInv'
<1>1. /\ pc = "read" /\ ~capture.pcapng /\ pos' = pos + 1
      /\ UNCHANGED <<capture, link_type, pcapng_interfaces>>
      /\ pos \in 1 .. Len(Records) + 1 /\ link_type = capture.link
      /\ FramesTaken(pos - 1)
      /\ Records' = Records
  BY DEF NextClassic, ClassicInv, Records
<1>2. /\ capture.link \in LinkTypes /\ pos \in Nat \ {0}
      /\ Len(Records) \in Nat
  BY ReaderAssumption, RecordsFacts DEF TypeInv
<1>3. CASE NextKind = "frame" /\ link_type \in Records[pos].links
  <2>1. delivered' = Deliver(pos, link_type) /\ pc' = "read"
    BY <1>1, <1>3 DEF NextClassic
  <2>2. pos \in 1 .. Len(Records) /\ Records[pos].kind = "frame"
    BY <1>1, <1>3, NextKindFacts
  <2>a. pos \in Nat /\ link_type \in LinkTypes \cup {1}
    BY <1>1, <1>2
  <2>3. /\ delivered' \in Seq([record: Nat, link: LinkTypes \cup {1}])
        /\ Len(delivered') = Len(delivered) + 1
        /\ delivered'[Len(delivered) + 1].record = pos
        /\ \A i \in 1 .. Len(delivered) : delivered'[i] = delivered[i]
    BY <2>1, <2>a, DeliverFacts, ZenonT(30)
  <2>4. TypeInv'
    BY <1>1, <1>2, <2>1, <2>3 DEF TypeInv
  <2>5. Len(delivered) = pos - 1
    BY <1>1 DEF FramesTaken
  <2>6. ASSUME NEW i \in 1 .. pos
        PROVE  /\ delivered'[i].record = i
               /\ Records'[i].kind = "frame" /\ capture'.link \in Records'[i].links
    <3>1. CASE i = pos
      BY <1>1, <1>2, <1>3, <2>2, <2>3, <2>5, <3>1
    <3>2. CASE i # pos
      <4>1. i \in 1 .. pos - 1
        BY <1>2, <3>2
      <4>2. /\ delivered[i].record = i
            /\ Records[i].kind = "frame" /\ capture.link \in Records[i].links
        BY <1>1, <4>1 DEF FramesTaken
      <4>3. QED
        BY <1>1, <2>3, <2>5, <4>1, <4>2
    <3>3. QED
      BY <3>1, <3>2
  <2>7. pos' - 1 = pos /\ pos' \in 1 .. Len(Records') + 1
    BY <1>1, <1>2, <2>2
  <2>8. Len(delivered') = pos' - 1
    <3>1. Len(delivered') = (pos - 1) + 1
      BY <2>3, <2>5
    <3>2. (pos - 1) + 1 = pos
      BY <1>2
    <3>3. QED
      BY <2>7, <3>1, <3>2
  <2>9. QED
    BY <1>1, <2>1, <2>4, <2>6, <2>7, <2>8 DEF ClassicInv, AtEnd, FramesTaken
<1>4. CASE ~(NextKind = "frame" /\ link_type \in Records[pos].links)
  <2>1. delivered' = delivered /\ pc' \in {"eof", "error"}
    BY <1>4 DEF NextClassic
  <2>2. TypeInv'
    BY <1>1, <1>2, <2>1 DEF TypeInv
  <2>3. pos - 1 \in 0 .. Len(Records) /\ pos - 1 + 1 = pos
    BY <1>1, <1>2
  <2>4. pos - 1 < Len(Records) =>
            Records[pos].kind # "frame" \/ capture.link \notin Records[pos].links
    <3>1. pos - 1 < Len(Records) => NextKind = Records[pos].kind
      BY <1>1, <1>2, NextKindFacts
    <3>2. QED
      BY <1>1, <1>4, <3>1
  <2>5. PICK n \in 0 .. Len(Records) : n = pos - 1
    BY <2>3
  <2>6. FramesTaken(n)'
    BY <1>1, <2>1, <2>5 DEF FramesTaken
  <2>7. n < Len(Records) =>
            Records[n + 1].kind # "frame" \/ capture.link \notin Records[n + 1].links
    BY <2>3, <2>4, <2>5
  <2>8. QED
    BY <1>1, <2>1, <2>2, <2>6, <2>7 DEF ClassicInv, AtEnd
<1>5. QED
  BY <1>3, <1>4

-----------------------------------------------------------------------------
(* The interfaces of a pcapng file.                                        *)

LEMMA BeforeFacts ==
    ASSUME capture \in Captures, NEW k \in 1 .. Len(Records) + 1
    PROVE  /\ InterfacesBefore(k) \subseteq 1 .. k - 1
           /\ IsFiniteSet(InterfacesBefore(k))
           /\ Cardinality(InterfacesBefore(k)) \in Nat
<1>1. k \in Nat /\ Len(Records) \in Nat
  BY RecordsFacts
<1>2. InterfacesBefore(k) \subseteq 1 .. k - 1
  BY DEF InterfacesBefore
<1>3. IsFiniteSet(1 .. k - 1)
  BY <1>1, FS_Interval
<1>4. QED
  BY <1>2, <1>3, FS_Subset, FS_CardinalityType

\* A block adds to the interfaces before it if it describes one.
LEMMA BeforeNext ==
    ASSUME capture \in Captures, NEW k \in 1 .. Len(Records)
    PROVE  /\ Records[k].kind = "idb" =>
                /\ InterfacesBefore(k + 1) = InterfacesBefore(k) \cup {k}
                /\ Cardinality(InterfacesBefore(k + 1)) =
                     Cardinality(InterfacesBefore(k)) + 1
           /\ Records[k].kind # "idb" =>
                InterfacesBefore(k + 1) = InterfacesBefore(k)
<1>1. k \in Nat /\ Len(Records) \in Nat
  BY RecordsFacts
<1>2. \A j : j \in 1 .. (k + 1) - 1 <=> (j \in 1 .. k - 1 \/ j = k)
  BY <1>1
<1>3. k \notin InterfacesBefore(k) /\ IsFiniteSet(InterfacesBefore(k))
  BY <1>1, BeforeFacts DEF InterfacesBefore
<1>4. CASE Records[k].kind = "idb"
  <2>1. InterfacesBefore(k + 1) = InterfacesBefore(k) \cup {k}
    BY <1>2, <1>4 DEF InterfacesBefore
  <2>2. QED
    BY <1>3, <1>4, <2>1, FS_AddElement
<1>5. CASE Records[k].kind # "idb"
  BY <1>2, <1>5 DEF InterfacesBefore
<1>6. QED
  BY <1>4, <1>5

\* An interface has fewer before it than a later block has.
LEMMA BeforeGrows ==
    ASSUME capture \in Captures, NEW k \in 1 .. Len(Records) + 1,
           NEW j \in InterfacesBefore(k)
    PROVE  Cardinality(InterfacesBefore(j)) < Cardinality(InterfacesBefore(k))
<1>1. k \in Nat /\ Len(Records) \in Nat /\ j \in 1 .. k - 1
  BY RecordsFacts, BeforeFacts
<1>2. j \in 1 .. Len(Records) + 1 /\ j \in Nat
  BY <1>1
<1>3. InterfacesBefore(j) \subseteq InterfacesBefore(k) /\ j \notin InterfacesBefore(j)
  BY <1>1, <1>2 DEF InterfacesBefore
<1>4. InterfacesBefore(j) # InterfacesBefore(k)
  BY <1>3
<1>5. QED
  BY <1>3, <1>4, FS_Subset, BeforeFacts

\* The reader's list holds the link types of the interfaces before block k,
\* in the order of the file.
InterfacesKnown(k) ==
    /\ Len(pcapng_interfaces) = Cardinality(InterfacesBefore(k))
    /\ \A j \in InterfacesBefore(k) :
          pcapng_interfaces[Cardinality(InterfacesBefore(j)) + 1] = Records[j].link
    /\ \A n \in 1 .. Len(pcapng_interfaces) :
          \E j \in InterfacesBefore(k) : Cardinality(InterfacesBefore(j)) = n - 1

\* A set of natural numbers that has a member has a least one.
LEMMA MinFacts ==
    ASSUME NEW S \in SUBSET Nat, S # {}
    PROVE  Min(S) \in S
<1> DEFINE R == OpToRel(<, Nat)
<1>1. PICK m \in S : \A n \in S : <<n, m>> \notin R
  <2> HIDE DEF R
  <2>1. IsWellFoundedOn(R, Nat)
    BY NatLessThanWellFounded DEF R
  <2>2. QED
    BY <2>1, WFMin
<1>2. \A n \in S : ~(n < m)
  BY <1>1 DEF OpToRel
<1>3. \A n \in S : m <= n
  BY <1>2
<1>4. QED
  BY <1>3 DEF Min

\* With that list the reader parses a packet block under the link type that
\* the file means for it.
LEMMA BlockLinkIsMeant ==
    ASSUME TypeInv, NEW k \in 1 .. Len(Records), InterfacesKnown(k),
           Records[k].kind \in {"epb", "spb"}
    PROVE  BlockLink(Records[k]) = MeantLink(k)
<1> DEFINE n == IF Records[k].kind = "epb" THEN Records[k].if_id ELSE 0
           own == {j \in InterfacesBefore(k) : Cardinality(InterfacesBefore(j)) = n}
<1>1. /\ n \in Nat /\ Len(pcapng_interfaces) \in Nat
      /\ k \in 1 .. Len(Records) + 1 /\ k \in Nat /\ capture \in Captures
  BY RecordsFacts DEF TypeInv, FileRecord
<1>2. BlockLink(Records[k]) = IF n + 1 <= Len(pcapng_interfaces)
                              THEN pcapng_interfaces[n + 1] ELSE 1
  BY DEF BlockLink
<1>3. MeantLink(k) = IF own = {} THEN 1 ELSE Records[Min(own)].link
  BY DEF MeantLink
<1> HIDE DEF n
<1>4. CASE n + 1 <= Len(pcapng_interfaces)
  <2>1. n + 1 \in 1 .. Len(pcapng_interfaces) /\ (n + 1) - 1 = n
    BY <1>1, <1>4
  <2>2. own # {}
    BY <2>1 DEF InterfacesKnown
  <2>3. own \subseteq Nat
    BY <1>1, BeforeFacts
  <2>4. Min(own) \in own
    BY <2>2, <2>3, MinFacts
  <2>5. pcapng_interfaces[n + 1] = Records[Min(own)].link
    BY <2>4 DEF InterfacesKnown
  <2>6. QED
    BY <1>2, <1>3, <1>4, <2>2, <2>5
<1>5. CASE ~(n + 1 <= Len(pcapng_interfaces))
  <2>1. \A j \in InterfacesBefore(k) :
           Cardinality(InterfacesBefore(j)) < Len(pcapng_interfaces)
    BY <1>1, BeforeGrows DEF InterfacesKnown
  <2>2. \A j \in InterfacesBefore(k) : Cardinality(InterfacesBefore(j)) \in Nat
    <3> SUFFICES ASSUME NEW j \in InterfacesBefore(k)
                 PROVE  Cardinality(InterfacesBefore(j)) \in Nat
      OBVIOUS
    <3>1. j \in 1 .. Len(Records) + 1
      BY <1>1, BeforeFacts, RecordsFacts
    <3>2. QED
      BY <1>1, <3>1, BeforeFacts
  <2>3. own = {}
    BY <1>1, <1>5, <2>1, <2>2
  <2>4. QED
    BY <1>2, <1>3, <1>5, <2>3
<1>6. QED
  BY <1>4, <1>5

-----------------------------------------------------------------------------
(* The blocks of a pcapng file.                                            *)

WithPacket(k) ==
    /\ Records[k].kind \in {"epb", "spb"}
    /\ MeantLink(k) \in Records[k].links

\* Of the first m blocks, those with a packet are delivered in order.
DeliveredUpTo(m) ==
    /\ \A i \in 1 .. Len(delivered) :
          /\ delivered[i].record \in 1 .. m
          /\ delivered[i].link = MeantLink(delivered[i].record)
    /\ \A i, j \in 1 .. Len(delivered) :
          i < j => delivered[i].record < delivered[j].record
    /\ \A k \in 1 .. m : WithPacket(k) <=> k \in Delivered

PcapngInv ==
    capture.pcapng =>
        /\ pc = "read" =>
             /\ pos \in 1 .. Len(Records) + 1
             /\ InterfacesKnown(pos)
             /\ DeliveredUpTo(pos - 1)
             /\ \A k \in 1 .. pos - 1 : Records[k].kind # "bad_length"
        /\ (AtEnd /\ ~capture.big_endian) => \E m \in 0 .. Len(Records) :
             /\ DeliveredUpTo(m)
             /\ \A k \in 1 .. m : Records[k].kind # "bad_length"
             /\ m < Len(Records) => Records[m + 1].kind \in
                                      {"bad_length", "cut_header", "cut_body"}

\* Nothing of this depends on more than the file and what is delivered.
LEMMA SameFile ==
    ASSUME capture' = capture, NEW m
    PROVE  /\ Records' = Records
           /\ InterfacesBefore(m)' = InterfacesBefore(m)
           /\ MeantLink(m)' = MeantLink(m)
           /\ WithPacket(m)' <=> WithPacket(m)
           /\ (delivered' = delivered => (DeliveredUpTo(m)' <=> DeliveredUpTo(m)))
           /\ (pcapng_interfaces' = pcapng_interfaces =>
                 (InterfacesKnown(m)' <=> InterfacesKnown(m)))
<1>1. Records' = Records
  BY DEF Records
<1>2. \A k : InterfacesBefore(k)' = InterfacesBefore(k)
  BY <1>1 DEF InterfacesBefore
<1>3. \A k : MeantLink(k)' = MeantLink(k)
  BY <1>1, <1>2 DEF MeantLink
<1>4. \A k : WithPacket(k)' <=> WithPacket(k)
  BY <1>1, <1>3 DEF WithPacket
<1>5. delivered' = delivered => (DeliveredUpTo(m)' <=> DeliveredUpTo(m))
  BY <1>3, <1>4 DEF DeliveredUpTo, Delivered
<1>6. pcapng_interfaces' = pcapng_interfaces =>
        (InterfacesKnown(m)' <=> InterfacesKnown(m))
  BY <1>1, <1>2 DEF InterfacesKnown
<1>7. QED
  BY <1>1, <1>2, <1>3, <1>4, <1>5, <1>6

AtBlockFacts(k) ==
    /\ pc = "read" /\ capture.pcapng
    /\ k = pos /\ k \in 1 .. Len(Records)
    /\ capture' = capture /\ pos' = pos + 1
    /\ InterfacesKnown(k)
    /\ DeliveredUpTo(k - 1)
    /\ \A j \in 1 .. k - 1 : Records[j].kind # "bad_length"

\* Every round of the loop but the last is at a block of the file.
LEMMA AtBlockMeaning ==
    ASSUME TypeInv, PcapngInv, NEW kinds, AtBlock(kinds), "end" \notin kinds,
           UNCHANGED capture
    PROVE  AtBlockFacts(pos) /\ Records[pos].kind \in kinds
<1>1. /\ pc = "read" /\ capture.pcapng /\ pos' = pos + 1 /\ NextKind \in kinds
      /\ pos \in 1 .. Len(Records) + 1
      /\ InterfacesKnown(pos)
      /\ DeliveredUpTo(pos - 1)
      /\ \A k \in 1 .. pos - 1 : Records[k].kind # "bad_length"
  BY DEF AtBlock, PcapngInv
<1>2. pos \in 1 .. Len(Records) /\ NextKind = Records[pos].kind
  BY <1>1, NextKindFacts
<1>3. QED
  BY <1>1, <1>2 DEF AtBlockFacts

\* What is left to show when the loop goes on behind block k.
LEMMA GoesOn ==
    ASSUME TypeInv, NEW k, AtBlockFacts(k), pc' = "read",
           Records[k].kind # "bad_length",
           InterfacesKnown(k + 1)', DeliveredUpTo(k)'
    PROVE  PcapngInv'
<1>1. k \in Nat /\ Len(Records) \in Nat /\ k \in 1 .. Len(Records) /\ pos' = k + 1
  BY RecordsFacts DEF TypeInv, AtBlockFacts
<1>2. pos' - 1 = k /\ pos' \in 1 .. Len(Records) + 1
  BY <1>1
<1>3. \A j \in 1 .. k : Records[j].kind # "bad_length"
  <2>1. \A j \in 1 .. k : j = k \/ j \in 1 .. k - 1
    BY <1>1
  <2>2. QED
    BY <2>1 DEF AtBlockFacts
<1>4. capture' = capture /\ Records' = Records
  BY SameFile DEF AtBlockFacts
<1>5. InterfacesKnown(pos)' /\ DeliveredUpTo(pos - 1)'
  <2>1. PICK n : n = k + 1
    OBVIOUS
  <2>2. InterfacesKnown(n)' /\ pos' = n
    BY <1>1, <2>1
  <2>3. InterfacesKnown(pos)'
    BY <2>2 DEF InterfacesKnown
  <2>4. DeliveredUpTo(pos - 1)'
    BY <1>2 DEF DeliveredUpTo
  <2>5. QED
    BY <2>3, <2>4
<1>6. QED
  BY <1>2, <1>3, <1>4, <1>5 DEF PcapngInv, AtEnd

\* A block without a packet keeps what is delivered right.
LEMMA PassedBlock ==
    ASSUME TypeInv, NEW k, AtBlockFacts(k), delivered' = delivered, ~WithPacket(k)
    PROVE  DeliveredUpTo(k)'
<1>1. /\ k \in Nat /\ k \in 1 .. Len(Records) /\ capture' = capture
      /\ DeliveredUpTo(k - 1)
  BY RecordsFacts DEF TypeInv, AtBlockFacts
<1>2. \A j \in 1 .. k : j \in 1 .. k - 1 \/ j = k
  BY <1>1
<1>3. \A j \in 1 .. k - 1 : j \in 1 .. k /\ j # k
  BY <1>1
<1>4. k \notin Delivered
  BY <1>1, <1>3 DEF DeliveredUpTo, Delivered
<1>5. DeliveredUpTo(k)
  BY <1>1, <1>2, <1>3, <1>4 DEF DeliveredUpTo
<1>6. QED
  BY <1>1, <1>5, SameFile

LEMMA InterfaceKeeps ==
    ASSUME TypeInv, PcapngInv, InterfaceBlock
    PROVE  TypeInv' /\ PcapngInv'
<1>1. /\ AtBlockFacts(pos) /\ Records[pos].kind = "idb"
      /\ UNCHANGED <<capture, pc, link_type, delivered>>
      /\ pcapng_interfaces' = Append(pcapng_interfaces, Records[pos].link)
  BY AtBlockMeaning DEF InterfaceBlock
<1>2. PICK k \in 1 .. Len(Records) : k = pos
  BY <1>1 DEF AtBlockFacts
<1>3. /\ AtBlockFacts(k) /\ capture \in Captures /\ k \in Nat
      /\ Records[k] \in FileRecord /\ Len(Records) \in Nat
      /\ pcapng_interfaces \in Seq(LinkTypes)
  BY <1>1, <1>2, RecordsFacts DEF TypeInv
<1> DEFINE l == Records[k].link
           n == Len(pcapng_interfaces)
<1>4. l \in LinkTypes /\ n \in Nat
  BY <1>3 DEF FileRecord
<1>5. /\ pcapng_interfaces' \in Seq(LinkTypes)
      /\ Len(pcapng_interfaces') = n + 1
      /\ pcapng_interfaces'[n + 1] = l
      /\ \A i \in 1 .. n : pcapng_interfaces'[i] = pcapng_interfaces[i]
  BY <1>1, <1>2, <1>3, <1>4
<1>6. TypeInv'
  BY <1>1, <1>5 DEF TypeInv, AtBlockFacts
<1>7. InterfacesKnown(k + 1)'
  <2>1. /\ InterfacesBefore(k + 1) = InterfacesBefore(k) \cup {k}
        /\ Cardinality(InterfacesBefore(k + 1)) = n + 1
        /\ Cardinality(InterfacesBefore(k)) = n
        /\ InterfacesKnown(k)
    BY <1>1, <1>2, <1>3, BeforeNext DEF AtBlockFacts, InterfacesKnown
  <2>2. \A j \in InterfacesBefore(k) :
            Cardinality(InterfacesBefore(j)) + 1 \in 1 .. n
    <3> SUFFICES ASSUME NEW j \in InterfacesBefore(k)
                 PROVE  Cardinality(InterfacesBefore(j)) + 1 \in 1 .. n
      OBVIOUS
    <3>1. k \in 1 .. Len(Records) + 1
      BY <1>3
    <3>2. j \in 1 .. Len(Records) + 1
      BY <1>3, <3>1, BeforeFacts
    <3>3. Cardinality(InterfacesBefore(j)) \in Nat
      BY <1>3, <3>2, BeforeFacts
    <3>4. Cardinality(InterfacesBefore(j)) < n
      BY <1>3, <2>1, <3>1, BeforeGrows
    <3>5. QED
      BY <1>4, <3>3, <3>4
  <2>3. \A j \in InterfacesBefore(k + 1) :
           pcapng_interfaces'[Cardinality(InterfacesBefore(j)) + 1] = Records[j].link
    <3>1. \A j \in InterfacesBefore(k) :
             pcapng_interfaces'[Cardinality(InterfacesBefore(j)) + 1] = Records[j].link
      BY <1>5, <2>1, <2>2 DEF InterfacesKnown
    <3>2. QED
      BY <1>5, <2>1, <3>1
  <2>4. \A i \in 1 .. n + 1 :
           \E j \in InterfacesBefore(k + 1) : Cardinality(InterfacesBefore(j)) = i - 1
    <3>1. \A i \in 1 .. n + 1 : i \in 1 .. n \/ i = n + 1
      BY <1>4
    <3>2. (n + 1) - 1 = n
      BY <1>4
    <3>3. QED
      BY <2>1, <3>1, <3>2 DEF InterfacesKnown
  <2>5. /\ Records' = Records
        /\ \A j : InterfacesBefore(j)' = InterfacesBefore(j)
    BY <1>1, SameFile
  <2>6. /\ Len(pcapng_interfaces') = Cardinality(InterfacesBefore(k + 1)')
        /\ \A j \in InterfacesBefore(k + 1)' :
              pcapng_interfaces'[Cardinality(InterfacesBefore(j)') + 1] = Records'[j].link
        /\ \A i \in 1 .. Len(pcapng_interfaces') :
              \E j \in InterfacesBefore(k + 1)' : Cardinality(InterfacesBefore(j)') = i - 1
    BY <1>5, <2>1, <2>3, <2>4, <2>5
  <2>7. QED
    BY <2>6 DEF InterfacesKnown
<1>8. DeliveredUpTo(k)'
  BY <1>1, <1>2, <1>3, PassedBlock DEF WithPacket
<1>9. QED
  BY <1>1, <1>2, <1>3, <1>6, <1>7, <1>8, GoesOn DEF AtBlockFacts

\* Behind a block that describes no interface the list is still right.
LEMMA SameInterfaces ==
    ASSUME TypeInv, NEW k, AtBlockFacts(k), Records[k].kind # "idb",
           pcapng_interfaces' = pcapng_interfaces
    PROVE  InterfacesKnown(k + 1)'
<1>1. InterfacesBefore(k + 1) = InterfacesBefore(k)
  BY BeforeNext DEF TypeInv, AtBlockFacts
<1>2. InterfacesKnown(k + 1)
  BY <1>1 DEF AtBlockFacts, InterfacesKnown
<1>3. QED
  BY <1>2, SameFile DEF AtBlockFacts

LEMMA PacketKeeps ==
    ASSUME TypeInv, PcapngInv, PacketBlock
    PROVE  TypeInv' /\ PcapngInv'
<1>1. /\ AtBlockFacts(pos) /\ Records[pos].kind \in {"epb", "spb"}
      /\ UNCHANGED <<capture, pc, pcapng_interfaces>>
      /\ delivered' = IF BlockLink(Records[pos]) \in Records[pos].links
                      THEN Deliver(pos, BlockLink(Records[pos])) ELSE delivered
  BY AtBlockMeaning DEF PacketBlock
<1>2. PICK k \in 1 .. Len(Records) : k = pos
  BY <1>1 DEF AtBlockFacts
<1>3. /\ AtBlockFacts(k) /\ capture \in Captures /\ k \in Nat
      /\ Records[k] \in FileRecord /\ Len(Records) \in Nat
  BY <1>1, <1>2, RecordsFacts DEF TypeInv
<1> DEFINE l == MeantLink(k)
<1>4. BlockLink(Records[k]) = l
  BY <1>1, <1>2, <1>3, BlockLinkIsMeant DEF AtBlockFacts
<1>5. l \in LinkTypes \cup {1}
  <2>1. Records[k].if_id \in Nat
    BY <1>3 DEF FileRecord
  <2>2. pcapng_interfaces \in Seq(LinkTypes)
    BY DEF TypeInv
  <2>3. QED
    BY <1>4, <2>1, <2>2 DEF BlockLink
<1>6. delivered' = IF WithPacket(k) THEN Deliver(k, l) ELSE delivered
  BY <1>1, <1>2, <1>4 DEF WithPacket
<1> HIDE DEF l
<1>7. CASE ~WithPacket(k)
  <2>1. delivered' = delivered
    BY <1>6, <1>7
  <2>2. TypeInv'
    BY <1>1, <2>1 DEF TypeInv, AtBlockFacts
  <2>3. DeliveredUpTo(k)'
    BY <1>3, <1>7, <2>1, PassedBlock
  <2>4. QED
    BY <1>1, <1>2, <1>3, <2>2, <2>3, SameInterfaces, GoesOn DEF AtBlockFacts
<1>8. CASE WithPacket(k)
  <2> DEFINE n == Len(delivered)
  <2>1. /\ delivered' \in Seq([record: Nat, link: LinkTypes \cup {1}])
        /\ Len(delivered') = n + 1
        /\ delivered'[n + 1].record = k
        /\ delivered'[n + 1].link = l
        /\ \A i \in 1 .. n : delivered'[i] = delivered[i]
    BY <1>3, <1>5, <1>6, <1>8, DeliverFacts, ZenonT(30)
  <2>2. n \in Nat /\ \A i \in 1 .. n + 1 : i \in 1 .. n \/ i = n + 1
    BY DEF TypeInv
  <2> HIDE DEF n
  <2>3. TypeInv'
    BY <1>1, <2>1 DEF TypeInv, AtBlockFacts
  <2>4. DeliveredUpTo(k - 1)
    BY <1>3 DEF AtBlockFacts
  <2>5. \A i \in 1 .. n : /\ delivered[i].record \in 1 .. k - 1
                         /\ delivered[i].link = MeantLink(delivered[i].record)
    BY <2>4 DEF DeliveredUpTo, n
  <2>6. \A i \in 1 .. n + 1 :
            /\ delivered'[i].record \in 1 .. k
            /\ delivered'[i].link = MeantLink(delivered'[i].record)
    <3>1. k \in 1 .. k /\ \A j \in 1 .. k - 1 : j \in 1 .. k
      BY <1>3
    <3>2. QED
      BY <2>1, <2>2, <2>5, <3>1 DEF l
  <2>7. \A i, j \in 1 .. n + 1 :
            i < j => delivered'[i].record < delivered'[j].record
    <3> SUFFICES ASSUME NEW i \in 1 .. n + 1, NEW j \in 1 .. n + 1, i < j
                 PROVE  delivered'[i].record < delivered'[j].record
      OBVIOUS
    <3>1. i \in 1 .. n
      BY <2>2
    <3>2. CASE j = n + 1
      <4>1. delivered[i].record < k
        BY <1>3, <2>5, <3>1
      <4>2. QED
        BY <2>1, <3>1, <3>2, <4>1
    <3>3. CASE j \in 1 .. n
      BY <2>1, <2>4, <3>1, <3>3 DEF DeliveredUpTo, n
    <3>4. QED
      BY <2>2, <3>2, <3>3
  <2>8. \A j \in 1 .. k : WithPacket(j) <=> j \in Delivered'
    <3>1. \A j : j \in Delivered' <=> (j \in Delivered \/ j = k)
      <4>1. /\ \A i \in 1 .. n : i \in 1 .. n + 1
            /\ n + 1 \in 1 .. n + 1
        BY <2>2
      <4>2. Delivered' = {delivered'[i].record : i \in 1 .. n + 1}
        BY <2>1 DEF Delivered
      <4>3. Delivered = {delivered[i].record : i \in 1 .. n}
        BY DEF Delivered, n
      <4>4. QED
        BY <2>1, <2>2, <4>1, <4>2, <4>3
    <3>2. \A j \in 1 .. k : j \in 1 .. k - 1 \/ j = k
      BY <1>3
    <3>3. QED
      BY <1>8, <2>4, <3>1, <3>2 DEF DeliveredUpTo
  <2>9. DeliveredUpTo(k)'
    <3>1. /\ \A j : MeantLink(j)' = MeantLink(j)
          /\ \A j : WithPacket(j)' <=> WithPacket(j)
      BY <1>1, SameFile
    <3>2. ASSUME NEW i \in 1 .. n + 1
          PROVE  (delivered[i].link = MeantLink(delivered[i].record))'
      <4>1. PICK r : r = delivered'[i].record
        OBVIOUS
      <4>2. delivered'[i].link = MeantLink(r)'
        BY <2>6, <3>1, <4>1
      <4>3. MeantLink(r)' = MeantLink(delivered[i].record)'
        BY <4>1 DEF MeantLink, InterfacesBefore
      <4>4. QED
        BY <4>2, <4>3
    <3>3. QED
      BY <2>1, <2>6, <2>7, <2>8, <3>1, <3>2 DEF DeliveredUpTo
  <2>10. QED
    BY <1>1, <1>2, <1>3, <2>3, <2>9, SameInterfaces, GoesOn DEF AtBlockFacts
<1>9. QED
  BY <1>7, <1>8

LEMMA SkipKeeps ==
    ASSUME TypeInv, PcapngInv, SkipBlock
    PROVE  TypeInv' /\ PcapngInv'
<1>1. /\ AtBlockFacts(pos) /\ Records[pos].kind \in {"other", "section", "short_epb"}
      /\ UNCHANGED <<capture, pc, link_type, pcapng_interfaces, delivered>>
  BY AtBlockMeaning DEF SkipBlock
<1>2. PICK k \in 1 .. Len(Records) : k = pos
  BY <1>1 DEF AtBlockFacts
<1>3. TypeInv'
  BY <1>1 DEF TypeInv, AtBlockFacts
<1>4. DeliveredUpTo(k)'
  BY <1>1, <1>2, PassedBlock DEF WithPacket
<1>5. QED
  BY <1>1, <1>2, <1>3, <1>4, SameInterfaces, GoesOn DEF AtBlockFacts

\* The end of a file, or of what can be read of it.
LEMMA StopKeeps ==
    ASSUME TypeInv, PcapngInv, BadBlock \/ EndOfBlocks
    PROVE  TypeInv' /\ PcapngInv'
<1>1. /\ pc = "read" /\ pc' \in {"eof", "error"} /\ capture.pcapng
      /\ UNCHANGED <<capture, pcapng_interfaces, delivered>>
      /\ pos' = pos + 1 \/ pos' = pos
      /\ NextKind \in {"bad_length", "cut_header", "cut_body", "end"}
  BY DEF BadBlock, EndOfBlocks, AtBlock
<1>2. /\ pos \in 1 .. Len(Records) + 1
      /\ DeliveredUpTo(pos - 1)
      /\ \A k \in 1 .. pos - 1 : Records[k].kind # "bad_length"
  BY <1>1 DEF PcapngInv
<1>3. pos \in Nat /\ Len(Records) \in Nat /\ capture \in Captures
  BY RecordsFacts DEF TypeInv
<1>4. TypeInv'
  BY <1>1 DEF TypeInv
<1>5. PICK m \in 0 .. Len(Records) : m = pos - 1 /\ m + 1 = pos
  BY <1>2, <1>3
<1>6. m < Len(Records) =>
         Records[m + 1].kind \in {"bad_length", "cut_header", "cut_body"}
  <2>1. m < Len(Records) => NextKind = Records[m + 1].kind /\ NextKind \in RecordKind
    BY <1>2, <1>3, <1>5, NextKindFacts
  <2>2. "end" \notin RecordKind
    BY DEF RecordKind
  <2>3. QED
    BY <1>1, <2>1, <2>2
<1>7. DeliveredUpTo(m)' /\ Records' = Records
  BY <1>1, <1>2, <1>5, SameFile
<1>8. QED
  BY <1>1, <1>2, <1>4, <1>5, <1>6, <1>7 DEF PcapngInv, AtEnd

-----------------------------------------------------------------------------
(* The whole reader.                                                       *)

ReaderInv == TypeInv /\ NotOpened /\ ClassicInv /\ PcapngInv

LEMMA InvInit == Init => ReaderInv
<1> SUFFICES ASSUME Init PROVE ReaderInv
  OBVIOUS
<1>1. TypeInv
  BY DEF Init, TypeInv
<1>2. QED
  BY <1>1 DEF Init, ReaderInv, NotOpened, ClassicInv, PcapngInv, AtEnd

LEMMA OpenKeeps == ReaderInv /\ OpenCapture => ReaderInv'
<1> SUFFICES ASSUME ReaderInv, OpenCapture PROVE ReaderInv'
  OBVIOUS
<1>1. /\ pc = "open" /\ pos = 1 /\ delivered = <<>> /\ pcapng_interfaces = <<>>
      /\ UNCHANGED <<capture, pos, pcapng_interfaces, delivered>>
      /\ TypeInv /\ capture \in Captures /\ Len(Records) \in Nat
      /\ pc' \in {"read", "error"}
      /\ Records' = Records
  BY RecordsFacts DEF OpenCapture, ReaderInv, NotOpened, TypeInv, Records
<1>2. TypeInv' /\ NotOpened'
  BY <1>1 DEF TypeInv, NotOpened
<1>3. ClassicInv'
  <2> SUFFICES ASSUME ~capture.pcapng PROVE ClassicInv'
    BY <1>1 DEF ClassicInv
  <2>1. pc' = "read" /\ link_type' = capture.link
    BY DEF OpenCapture
  <2>2. pos' - 1 = 0 /\ pos' \in 1 .. Len(Records) + 1 /\ Len(delivered') = 0
    BY <1>1
  <2>3. FramesTaken(pos - 1)'
    BY <2>2 DEF FramesTaken
  <2>4. QED
    BY <1>1, <2>1, <2>2, <2>3 DEF ClassicInv, AtEnd
<1>4. PcapngInv'
  <2> SUFFICES ASSUME capture.pcapng PROVE PcapngInv'
    BY <1>1 DEF PcapngInv
  <2>1. pc' = IF capture.big_endian THEN "error" ELSE "read"
    BY DEF OpenCapture
  <2>2. pos' - 1 = 0 /\ pos' = 1 /\ pos' \in 1 .. Len(Records) + 1
        /\ Len(delivered') = 0 /\ Len(pcapng_interfaces') = 0
    BY <1>1
  <2>3. DeliveredUpTo(pos - 1)'
    BY <2>2 DEF DeliveredUpTo, Delivered
  <2>4. InterfacesKnown(pos)'
    <3>1. InterfacesBefore(1)' = {}
      BY DEF InterfacesBefore
    <3>2. Cardinality({}) = 0
      BY FS_EmptySet
    <3>3. InterfacesKnown(1)'
      BY <2>2, <3>1, <3>2 DEF InterfacesKnown
    <3>4. QED
      BY <2>2, <3>3 DEF InterfacesKnown
  <2>5. QED
    BY <1>1, <2>1, <2>2, <2>3, <2>4 DEF PcapngInv, AtEnd
<1>5. QED
  BY <1>2, <1>3, <1>4 DEF ReaderInv

LEMMA InvStep == ReaderInv /\ [Next]_vars => ReaderInv'
<1> SUFFICES ASSUME ReaderInv, [Next]_vars PROVE ReaderInv'
  OBVIOUS
<1>1. CASE OpenCapture
  BY <1>1, OpenKeeps
<1>2. CASE NextClassic
  <2>1. TypeInv' /\ ClassicInv'
    BY <1>2, ClassicKeeps DEF ReaderInv
  <2>2. pc = "read" /\ pc' # "open" /\ ~capture'.pcapng
    BY <1>2 DEF NextClassic
  <2>3. QED
    BY <2>1, <2>2 DEF ReaderInv, NotOpened, PcapngInv
<1>3. CASE InterfaceBlock \/ PacketBlock \/ SkipBlock \/ BadBlock \/ EndOfBlocks
  <2>1. TypeInv' /\ PcapngInv'
    BY <1>3, InterfaceKeeps, PacketKeeps, SkipKeeps, StopKeeps DEF ReaderInv
  <2>2. pc' # "open" /\ capture'.pcapng
    BY <1>3 DEF InterfaceBlock, PacketBlock, SkipBlock, BadBlock, EndOfBlocks, AtBlock
  <2>3. QED
    BY <2>1, <2>2 DEF ReaderInv, NotOpened, ClassicInv
<1>4. CASE UNCHANGED vars
  <2>1. UNCHANGED <<capture, pc, pos, link_type, pcapng_interfaces, delivered>>
    BY <1>4 DEF vars
  <2>2. TypeInv' /\ NotOpened'
    BY <2>1 DEF ReaderInv, TypeInv, NotOpened
  <2>3. Records' = Records /\ \A n : FramesTaken(n)' <=> FramesTaken(n)
    BY <2>1 DEF Records, FramesTaken
  <2>4. PICK k : k = pos
    OBVIOUS
  <2>5. FramesTaken(pos - 1)' <=> FramesTaken(k - 1)
    BY <2>1, <2>3, <2>4 DEF FramesTaken
  <2>6. ClassicInv'
    BY <2>1, <2>3, <2>4, <2>5 DEF ReaderInv, ClassicInv, AtEnd
  <2>7. /\ \A n : DeliveredUpTo(n)' <=> DeliveredUpTo(n)
        /\ \A n : InterfacesKnown(n)' <=> InterfacesKnown(n)
    BY <2>1, SameFile
  <2>8. DeliveredUpTo(pos - 1)' <=> DeliveredUpTo(k - 1)'
    BY <2>1, <2>4 DEF DeliveredUpTo
  <2>9. InterfacesKnown(pos)' <=> InterfacesKnown(k)'
    BY <2>1, <2>4 DEF InterfacesKnown
  <2>10. PcapngInv'
    BY <2>1, <2>3, <2>4, <2>7, <2>8, <2>9 DEF ReaderInv, PcapngInv, AtEnd
  <2>11. QED
    BY <2>2, <2>6, <2>10 DEF ReaderInv
<1>5. QED
  BY <1>1, <1>2, <1>3, <1>4 DEF Next, Terminated

LEMMA InvCorrect == Spec => []ReaderInv
BY InvInit, InvStep, PTL DEF Spec

\* Of a classic file of any length the caller gets the frames up to the first
\* record that has no packet in it: each of them, once, in order.
THEOREM ClassicPrefix == Spec => []ClassicDeliversPrefix
<1>1. ReaderInv => ClassicDeliversPrefix
  <2> SUFFICES ASSUME ReaderInv, AtEnd, ~capture.pcapng
               PROVE  ClassicDeliversPrefix
    BY DEF ClassicDeliversPrefix
  <2>1. PICK n \in 0 .. Len(Records) :
             /\ FramesTaken(n)
             /\ n < Len(Records) =>
                  \/ Records[n + 1].kind # "frame"
                  \/ capture.link \notin Records[n + 1].links
    BY DEF ReaderInv, ClassicInv
  <2>2. [i \in 1 .. Len(delivered) |-> delivered[i].record] = [i \in 1 .. n |-> i]
    BY <2>1 DEF FramesTaken
  <2>3. QED
    BY <2>1, <2>2 DEF ClassicDeliversPrefix, FramesTaken
<1>2. QED
  BY <1>1, InvCorrect, PTL

\* Of a pcapng file with any number of interfaces the caller gets each packet
\* block that has a packet under the link type of its own interface, up to the
\* end or the first broken block.
THEOREM PcapngComplete == Spec => []PcapngDeliversAll
<1>1. ReaderInv => PcapngDeliversAll
  <2> SUFFICES ASSUME ReaderInv, AtEnd, capture.pcapng, ~capture.big_endian
               PROVE  PcapngDeliversAll
    BY DEF PcapngDeliversAll
  <2>1. PICK m \in 0 .. Len(Records) :
             /\ DeliveredUpTo(m)
             /\ \A k \in 1 .. m : Records[k].kind # "bad_length"
             /\ m < Len(Records) => Records[m + 1].kind \in
                                      {"bad_length", "cut_header", "cut_body"}
    BY DEF ReaderInv, PcapngInv
  <2>2. capture \in Captures /\ Len(Records) \in Nat
    BY RecordsFacts DEF ReaderInv, TypeInv
  <2>3. ASSUME NEW k \in Delivered
        PROVE  /\ k \in 1 .. Len(Records) /\ WithPacket(k)
               /\ \A j \in 1 .. k : Records[j].kind # "bad_length"
    <3>1. k \in 1 .. m
      BY <2>1, <2>3 DEF DeliveredUpTo, Delivered
    <3>2. k \in 1 .. Len(Records) /\ \A j \in 1 .. k : j \in 1 .. m
      BY <2>2, <3>1
    <3>3. QED
      BY <2>1, <2>3, <3>1, <3>2 DEF DeliveredUpTo
  <2>4. ASSUME NEW k \in 1 .. Len(Records), WithPacket(k),
               \A j \in 1 .. k : Records[j].kind # "bad_length"
        PROVE  k \in Delivered
    <3>1. CASE k \in 1 .. m
      BY <2>1, <2>4, <3>1 DEF DeliveredUpTo
    <3>2. CASE k \notin 1 .. m
      <4>1. m < Len(Records) /\ m + 1 \in 1 .. k /\ m + 1 \in 1 .. Len(Records)
        BY <2>2, <3>2
      <4>2. Records[m + 1].kind \in {"cut_header", "cut_body"}
        BY <2>1, <2>4, <4>1
      <4>3. m + 1 = Len(Records)
        BY <2>2, <4>1, <4>2, RecordsFacts
      <4>4. k = m + 1
        BY <2>2, <4>1, <4>3
      <4>5. QED
        BY <2>4, <4>2, <4>4 DEF WithPacket
    <3>3. QED
      BY <3>1, <3>2
  <2>5. Delivered =
          {k \in 1 .. Len(Records) :
              /\ Records[k].kind \in {"epb", "spb"}
              /\ MeantLink(k) \in Records[k].links
              /\ \A j \in 1 .. k : Records[j].kind # "bad_length"}
    BY <2>3, <2>4 DEF WithPacket
  <2>6. QED
    BY <2>1, <2>5 DEF PcapngDeliversAll, DeliveredUpTo
<1>2. QED
  BY <1>1, InvCorrect, PTL
=============================================================================
