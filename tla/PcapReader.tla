----------------------------- MODULE PcapReader -----------------------------
(***************************************************************************)
(* The capture file reader (src/src/reader/pcap.rs) under the loop of the  *)
(* engine, which calls next_packet until it returns no packet.             *)
(*                                                                         *)
(* A capture is a sequence of records: those of a classic file hold one    *)
(* frame each, those of a pcapng file are blocks.  The parser's work on a  *)
(* frame is abstracted to the link types under which it finds a packet in  *)
(* it.  Byte order, lengths and options inside a record are left out.      *)
(***************************************************************************)
EXTENDS Integers, Sequences, FiniteSetsExt

CONSTANTS
    Captures,       \* the files: [pcapng, big_endian, link, records]
    LinkTypes

ASSUME ReaderAssumption ==
    \A c \in Captures :
        /\ c.pcapng \in BOOLEAN
        /\ c.big_endian \in BOOLEAN
        /\ c.link \in LinkTypes
        /\ c.records \in
             Seq([kind: IF c.pcapng
                        THEN {"idb", "epb", "spb", "other", "section", "short_epb",
                              "bad_length", "cut_header", "cut_body"}
                        ELSE {"frame", "cut_header", "cut_body"},
                  if_id: Nat, link: LinkTypes, links: SUBSET LinkTypes])
        \* what is cut short is the end of the file
        /\ \A i \in 1 .. Len(c.records) - 1 :
              c.records[i].kind \notin {"cut_header", "cut_body"}

VARIABLES
    capture,
    pc,             \* "open", "read", and at the end "eof" or "error"
    pos,            \* the record that is read next
    link_type,      \* the parser's
    pcapng_interfaces,
    delivered       \* history: what next_packet has returned

vars == <<capture, pc, pos, link_type, pcapng_interfaces, delivered>>

Init ==
    /\ capture \in Captures
    /\ pc = "open"
    /\ pos = 1
    /\ link_type = 1
    /\ pcapng_interfaces = <<>>
    /\ delivered = <<>>

\* PcapReader::open and new.  init_pcapng takes the length of the first block
\* for little-endian, and so runs over the end of a file that is not.
OpenCapture ==
    /\ pc = "open"
    /\ \/ /\ ~capture.pcapng
          /\ link_type' = capture.link
          /\ pc' = "read"
       \/ /\ capture.pcapng
          /\ pc' = IF capture.big_endian THEN "error" ELSE "read"
          /\ UNCHANGED link_type
    /\ UNCHANGED <<capture, pos, pcapng_interfaces, delivered>>

Records == capture.records

\* The kind of the record that is read next.
NextKind == IF pos > Len(Records) THEN "end" ELSE Records[pos].kind

Deliver(k, link) == Append(delivered, [record |-> k, link |-> link])

\* A mutated form: a frame without a packet is passed over.
MutNextClassic ==
    /\ pc = "read" /\ ~capture.pcapng
    /\ pos' = pos + 1
    /\ \/ /\ NextKind = "frame"
          /\ delivered' = IF link_type \in Records[pos].links
                          THEN Deliver(pos, link_type) ELSE delivered
          /\ UNCHANGED pc
       \/ NextKind \in {"end", "cut_header"} /\ pc' = "eof" /\ UNCHANGED delivered
       \/ NextKind = "cut_body" /\ pc' = "error" /\ UNCHANGED delivered
    /\ UNCHANGED <<capture, link_type, pcapng_interfaces>>

\* next_classic_pcap_packet.  The parser's "no packet" is returned as it is,
\* and is what the caller takes for the end of the file; so is a header that
\* is cut short, while a body that is cut short is an error.
NextClassic ==
    /\ pc = "read" /\ ~capture.pcapng
    /\ pos' = pos + 1
    /\ \/ /\ NextKind = "frame" /\ link_type \in Records[pos].links
          /\ delivered' = Deliver(pos, link_type)
          /\ UNCHANGED pc
       \/ /\ NextKind = "frame" /\ link_type \notin Records[pos].links
          /\ pc' = "eof"
          /\ UNCHANGED delivered
       \/ NextKind \in {"end", "cut_header"} /\ pc' = "eof" /\ UNCHANGED delivered
       \/ NextKind = "cut_body" /\ pc' = "error" /\ UNCHANGED delivered
    /\ UNCHANGED <<capture, link_type, pcapng_interfaces>>

-----------------------------------------------------------------------------
(* next_pcapng_packet: a loop over the blocks; each action is one round.   *)

AtBlock(kinds) ==
    /\ pc = "read" /\ capture.pcapng
    /\ NextKind \in kinds
    /\ pos' = pos + 1

InterfaceBlock ==
    /\ AtBlock({"idb"})
    /\ pcapng_interfaces' = Append(pcapng_interfaces, Records[pos].link)
    /\ UNCHANGED <<capture, pc, link_type, delivered>>

\* The link type that a packet block is parsed with: an enhanced one names
\* its interface, a simple one belongs to the first; Ethernet otherwise.
MutBlockLink(b) == link_type
BlockLink(b) ==
    LET i == IF b.kind = "epb" THEN b.if_id + 1 ELSE 1
    IN  IF i <= Len(pcapng_interfaces) THEN pcapng_interfaces[i] ELSE 1

\* A block without a packet is passed over.
PacketBlock ==
    LET b == Records[pos] IN
    /\ AtBlock({"epb", "spb"})
    /\ link_type' = BlockLink(b)
    /\ delivered' = IF BlockLink(b) \in b.links
                    THEN Deliver(pos, BlockLink(b)) ELSE delivered
    /\ UNCHANGED <<capture, pc, pcapng_interfaces>>

\* Blocks of other types, later section headers among them, and an enhanced
\* packet block with less data than it announces.
SkipBlock ==
    /\ AtBlock({"other", "section", "short_epb"})
    /\ UNCHANGED <<capture, pc, link_type, pcapng_interfaces, delivered>>

BadBlock ==
    /\ AtBlock({"bad_length", "cut_body"})
    /\ pc' = "error"
    /\ UNCHANGED <<capture, link_type, pcapng_interfaces, delivered>>

\* A mutated form: the reader waits for the rest of a header that is cut.
MutEndOfBlocks ==
    /\ pc = "read" /\ capture.pcapng
    /\ NextKind = "end"
    /\ pc' = "eof"
    /\ UNCHANGED <<capture, pos, link_type, pcapng_interfaces, delivered>>
EndOfBlocks ==
    /\ pc = "read" /\ capture.pcapng
    /\ NextKind \in {"end", "cut_header"}
    /\ pc' = "eof"
    /\ UNCHANGED <<capture, pos, link_type, pcapng_interfaces, delivered>>

Terminated == pc \in {"eof", "error"} /\ UNCHANGED vars

Next ==
    \/ OpenCapture
    \/ NextClassic
    \/ InterfaceBlock \/ PacketBlock \/ SkipBlock \/ BadBlock \/ EndOfBlocks
    \/ Terminated

\* The caller goes on reading, and reads of a file return.
Spec == Init /\ [][Next]_vars /\ WF_vars(Next)

-----------------------------------------------------------------------------
(* Properties.                                                             *)

Delivered == {delivered[i].record : i \in 1 .. Len(delivered)}
AtEnd == pc \in {"eof", "error"}

\* From a classic file the caller gets every frame up to the first record
\* that has no packet in it, none of them missing and none from behind it,
\* in the order of the file.
ClassicDeliversPrefix ==
    (AtEnd /\ ~capture.pcapng) =>
        \E n \in 0 .. Len(Records) :
            /\ [i \in 1 .. Len(delivered) |-> delivered[i].record] =
                 [i \in 1 .. n |-> i]
            /\ \A k \in 1 .. n :
                  Records[k].kind = "frame" /\ capture.link \in Records[k].links
            /\ n < Len(Records) =>
                  \/ Records[n + 1].kind # "frame"
                  \/ capture.link \notin Records[n + 1].links

\* The interface descriptions before block k, and what the file means by the
\* link type of that block.
InterfacesBefore(k) == {j \in 1 .. k - 1 : Records[j].kind = "idb"}
MeantLink(k) ==
    LET n == IF Records[k].kind = "epb" THEN Records[k].if_id ELSE 0
        own == {j \in InterfacesBefore(k) : Cardinality(InterfacesBefore(j)) = n}
    IN  IF own = {} THEN 1 ELSE Records[Min(own)].link

OneSection == \A k \in 1 .. Len(Records) : Records[k].kind # "section"

\* From a pcapng file of one section the caller gets every packet block that
\* has a packet under the link type of its own interface, wherever in the
\* file that was described, up to the end or the first broken block, once and
\* in the order of the file.
PcapngDeliversAll ==
    (AtEnd /\ capture.pcapng /\ ~capture.big_endian /\ OneSection) =>
        /\ \A i \in 1 .. Len(delivered) :
              delivered[i].link = MeantLink(delivered[i].record)
        /\ \A i, j \in 1 .. Len(delivered) :
              i < j => delivered[i].record < delivered[j].record
        /\ Delivered =
              {k \in 1 .. Len(Records) :
                  /\ Records[k].kind \in {"epb", "spb"}
                  /\ MeantLink(k) \in Records[k].links
                  /\ \A j \in 1 .. k : Records[j].kind # "bad_length"}

\* A file is read to an end, whatever is in it.
ReadsToAnEnd == <>AtEnd

\* A frame that the parser rejects is discarded.  The classic reader hands
\* the parser's "no packet" on as the end of the file, so all frames behind
\* it are lost as well.
RejectedFramesAreSkipped ==
    (pc = "eof" /\ ~capture.pcapng) =>
        \A k \in 1 .. Len(Records) :
            (Records[k].kind = "frame" /\ capture.link \in Records[k].links)
                => k \in Delivered
=============================================================================
