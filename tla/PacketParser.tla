---------------------------- MODULE PacketParser ----------------------------
(***************************************************************************)
(* PacketParser::parse_packet (src/src/packet/parser.rs): from a captured  *)
(* frame to the packet that flow tracking sees.                            *)
(*                                                                         *)
(* A frame is a number of captured bytes.  What a field says is chosen     *)
(* when the parser reads it; only the version nibble is ever read twice,   *)
(* and it is kept.  Each stage hands a subslice to the next, so offsets    *)
(* count from the start of the slice in hand.  Addresses, ports, TCP flags *)
(* and windows are copied from fixed places inside headers that have been  *)
(* found to be there, and are left out; so is the packet counter, which    *)
(* nothing reads.                                                          *)
(***************************************************************************)
EXTENDS Integers

CONSTANTS
    LinkTypes,          \* link types of the captures
    Families,           \* what the parser may be told to read
    Lengths,            \* captured lengths
    Declared,           \* values of total_length and payload_length
    HeaderWords,        \* values of the IHL and data offset fields
    ExtensionUnits,     \* values of an extension header's length field
    UdpLengths          \* values of the UDP length field

IP == {"ipv4", "ipv6"}

ASSUME ParserAssumption ==
    /\ LinkTypes \subseteq {"ethernet", "sll", "sll2", "loopback",
                            "raw4", "raw6", "raw", "unknown"}
    /\ Families \subseteq SUBSET IP
    /\ Lengths \subseteq Nat /\ Declared \subseteq Nat
    /\ HeaderWords \subseteq Nat /\ ExtensionUnits \subseteq Nat
    /\ UdpLengths \subseteq Nat

VARIABLES
    link_type,
    families,           \* read_ipv4 and read_ipv6
    scan,               \* the parser's locals
    seen                \* history: what the frame has been found to say

vars == <<link_type, families, scan, seen>>

\* Next-header values that the walk passes over, and the protocols that
\* parse_transport tells apart.
Options == {"hopbyhop", "routing", "destination"}
Extensions == Options \cup {"fragment", "ah"}
Transports == {"tcp", "udp", "other"}

Packet == [version: IP, protocol: Transports \cup Extensions,
           header: Int, payload: Int]

Scan ==
    [pc: {"idle", "link", "tags", "network", "walk", "transport", "done"} \cup IP,
     data: Int,                             \* length of the slice in hand
     offset: Int, max_len: Int,             \* of the loops
     ethertype: IP \cup {"tag", "other"},
     nibble: IP \cup {"other", "unread"},   \* the version
     protocol: Transports \cup Extensions,
     result: SUBSET Packet]                 \* the packet, if there is one

\* "in_range": no index and no slice so far was beyond its slice.  "network"
\* is the length of the network data, "declared" the length that its header
\* claims, "start" where its payload begins, "extension" the length of the
\* extension header at hand once read, and "udp" the UDP length field.
Seen == [in_range: BOOLEAN, network: Int, declared: Int, start: Int,
         extension: Int, udp: Int]

NewScan(stage, length) ==
    [pc |-> stage, data |-> length, offset |-> 0, max_len |-> 0,
     ethertype |-> "other", nibble |-> "unread", protocol |-> "other",
     result |-> {}]

NothingSeen ==
    [in_range |-> TRUE, network |-> 0, declared |-> 0, start |-> 0,
     extension |-> 0, udp |-> 0]

Init ==
    /\ link_type \in LinkTypes
    /\ families \in Families
    /\ scan = NewScan("idle", 0)
    /\ seen = NothingSeen

\* A reader sets the link type before each packet of a pcapng file.
SetLinkType ==
    /\ scan.pc = "idle"
    /\ link_type' \in LinkTypes
    /\ UNCHANGED <<families, scan, seen>>

ParsePacket ==
    /\ scan.pc = "idle"
    /\ \E n \in Lengths : scan' = NewScan("link", n)
    /\ UNCHANGED <<link_type, families, seen>>

\* The reader has the result.
Return ==
    /\ scan.pc = "done"
    /\ scan' = NewScan("idle", 0)
    /\ seen' = NothingSeen
    /\ UNCHANGED <<link_type, families>>

At(stage) == scan.pc = stage /\ UNCHANGED <<link_type, families>>

\* The frame is rejected.
Rejected == [scan EXCEPT !.pc = "done"]
Drop == scan' = Rejected /\ UNCHANGED seen

\* The first n bytes of the slice are there to be read.
Reach(n) == seen.in_range /\ n <= scan.data

-----------------------------------------------------------------------------
(* The link layer.                                                         *)

\* &data[n..] is the network data.
Strip(s, n) == [s EXCEPT !.pc = "network", !.data = @ - n, !.offset = 0]
NetworkFrom(n) ==
    seen' = [seen EXCEPT !.in_range = Reach(n), !.network = scan.data - n]

\* The type field stands before the end of the header of n bytes.
FixedHeader(n, types) ==
    \/ scan.data < n /\ Drop
    \/ /\ scan.data >= n
       /\ \E t \in types : scan' = Strip([scan EXCEPT !.ethertype = t], n)
       /\ NetworkFrom(n)

\* An Ethernet type field may announce tags.
Ethernet ==
    \/ scan.data < 14 /\ Drop
    \/ /\ scan.data >= 14
       /\ \E t \in IP \cup {"tag", "other"} :
            scan' = [scan EXCEPT !.pc = "tags", !.ethertype = t, !.offset = 14]
       /\ seen' = [seen EXCEPT !.in_range = Reach(14)]

\* A mutated form: a tag is taken to be there when its first half is.
MutTagAhead == scan.ethertype = "tag" /\ scan.offset + 2 <= scan.data
TagAhead == scan.ethertype = "tag" /\ scan.offset + 4 <= scan.data

\* One turn of the loop over 802.1Q and 802.1ad tags.
PeelTag ==
    /\ At("tags")
    /\ TagAhead
    /\ \E t \in IP \cup {"tag", "other"} :
         scan' = [scan EXCEPT !.ethertype = t, !.offset = @ + 4]
    /\ seen' = [seen EXCEPT !.in_range = Reach(scan.offset + 4)]

EndOfTags ==
    /\ At("tags")
    /\ ~TagAhead
    /\ scan' = Strip(scan, scan.offset)
    /\ NetworkFrom(scan.offset)

\* A raw capture, known by its link type or by the version nibble.
Raw(t) == scan' = Strip([scan EXCEPT !.ethertype = t], 0) /\ NetworkFrom(0)

ByVersion ==
    \/ scan.data = 0 /\ Drop
    \/ /\ scan.data > 0
       /\ \/ scan' = Rejected
          \/ \E v \in IP :
               scan' = Strip([scan EXCEPT !.ethertype = v, !.nibble = v], 0)
       /\ NetworkFrom(0)

StripLinkLayer ==
    /\ At("link")
    /\ \/ link_type = "ethernet" /\ Ethernet
       \/ link_type = "sll" /\ FixedHeader(16, IP \cup {"tag", "other"})
       \/ link_type = "sll2" /\ FixedHeader(20, IP \cup {"tag", "other"})
       \/ link_type = "loopback" /\ FixedHeader(4, IP \cup {"other"})
       \/ link_type = "raw4" /\ Raw("ipv4")
       \/ link_type = "raw6" /\ Raw("ipv6")
       \/ link_type \in {"raw", "unknown"} /\ ByVersion

-----------------------------------------------------------------------------
(* The network layer.                                                      *)

\* The values that the version nibble can have.
Versions == IF scan.nibble = "unread" THEN IP \cup {"other"} ELSE {scan.nibble}

\* A mutated form: the nibble decides although the family is not to be read.
MutTakeAs(v) == [scan EXCEPT !.pc = IF v \in IP THEN v ELSE "done", !.nibble = v]
TakeAs(v) ==
    [scan EXCEPT !.pc = IF v \in families THEN v ELSE "done", !.nibble = v]

\* By the type field if it names IP, and by the version nibble if it does not.
Dispatch ==
    /\ At("network")
    /\ \/ /\ scan.ethertype \in families
          /\ scan' = [scan EXCEPT !.pc = scan.ethertype]
          /\ UNCHANGED seen
       \/ /\ scan.ethertype \in IP \ families
          /\ Drop
       \/ /\ scan.ethertype \notin IP
          /\ scan.data = 0
          /\ Drop
       \/ /\ scan.ethertype \notin IP
          /\ scan.data > 0
          /\ \E v \in Versions : scan' = TakeAs(v)
          /\ seen' = [seen EXCEPT !.in_range = Reach(1)]

\* Where the packet ends: what it claims, at most what is captured.
MutPacketEnd(claimed) == scan.data
PacketEnd(claimed) == IF claimed < scan.data THEN claimed ELSE scan.data

\* The slice from one offset to another is the transport data.
Hand(s, from, to) == [s EXCEPT !.pc = "transport", !.data = to - from]

ParseIpv4 ==
    /\ At("ipv4")
    /\ \/ scan.data < 20 /\ Drop
       \/ /\ scan.data >= 20
          /\ \E v \in Versions, words \in HeaderWords, total \in Declared,
                p \in Transports :
               LET ihl == 4 * words
                   s == [scan EXCEPT !.nibble = v, !.protocol = p]
               IN  /\ scan' = IF /\ v = "ipv4"
                                 /\ ihl >= 20 /\ ihl <= scan.data
                                 /\ ihl <= PacketEnd(total)
                              THEN Hand(s, ihl, PacketEnd(total))
                              ELSE [s EXCEPT !.pc = "done"]
                   /\ seen' = [seen EXCEPT !.in_range = Reach(20),
                                           !.declared = total, !.start = ihl]

ParseIpv6 ==
    /\ At("ipv6")
    /\ \/ scan.data < 40 /\ Drop
       \/ /\ scan.data >= 40
          /\ \E v \in Versions, claimed \in Declared,
                next_header \in Transports \cup Extensions :
               /\ scan' = [scan EXCEPT
                             !.pc = IF v = "ipv6" THEN "walk" ELSE "done",
                             !.nibble = v, !.protocol = next_header,
                             !.offset = 40, !.max_len = PacketEnd(40 + claimed)]
               /\ seen' = [seen EXCEPT !.in_range = Reach(40),
                                       !.declared = 40 + claimed]

\* How much of an extension header must be there before it is looked at, and
\* how long it is when its length field holds n.
Fixed(header) == IF header = "fragment" THEN 8 ELSE 2

\* A mutated form: the length of an option header does not count its first
\* eight bytes.
MutExtensionLength(header, n) ==
    CASE header \in Options -> n * 8
      [] header = "fragment" -> 8
      [] header = "ah" -> (n + 2) * 4
ExtensionLength(header, n) ==
    CASE header \in Options -> (n + 1) * 8
      [] header = "fragment" -> 8
      [] header = "ah" -> (n + 2) * 4

\* A mutated form: an extension header is not passed when it ends the packet.
MutFits(length) == scan.offset + length < scan.max_len
Fits(length) == scan.offset + length <= scan.max_len

AtExtension == scan.offset < scan.max_len /\ scan.protocol \in Extensions

\* One turn of the loop over extension headers: the header is passed over, or
\* the loop ends at one that is not whole.
PassExtension ==
    /\ At("walk")
    /\ AtExtension
    /\ Fits(Fixed(scan.protocol))
    /\ \E n \in ExtensionUnits, next \in Transports \cup Extensions :
         LET length == ExtensionLength(scan.protocol, n) IN
         \/ /\ Fits(length)
            /\ scan' = [scan EXCEPT !.protocol = next, !.offset = @ + length]
            /\ seen' = [seen EXCEPT !.in_range = Reach(scan.offset + 2)]
         \/ /\ ~Fits(length)
            /\ scan' = Hand(scan, scan.offset, scan.max_len)
            /\ seen' = [seen EXCEPT
                          !.in_range = /\ Reach(scan.offset + 2)
                                       /\ Reach(scan.max_len),
                          !.start = scan.offset, !.extension = length]

EndOfWalk ==
    /\ At("walk")
    /\ AtExtension => ~Fits(Fixed(scan.protocol))
    /\ \/ scan.offset > scan.max_len /\ Drop
       \/ /\ scan.offset <= scan.max_len
          /\ scan' = Hand(scan, scan.offset, scan.max_len)
          /\ seen' = [seen EXCEPT !.in_range = Reach(scan.max_len),
                                  !.start = scan.offset]

-----------------------------------------------------------------------------
(* The transport layer.                                                    *)

Deliver(header, payload) ==
    scan' = [scan EXCEPT
               !.pc = "done",
               !.result = {[version |-> scan.nibble, protocol |-> scan.protocol,
                            header |-> header, payload |-> payload]}]

Tcp ==
    /\ At("transport")
    /\ scan.protocol = "tcp"
    /\ \/ scan.data < 20 /\ Drop
       \/ /\ scan.data >= 20
          /\ \E words \in HeaderWords :
               \/ /\ 4 * words < 20 \/ scan.data < 4 * words
                  /\ scan' = Rejected
               \/ /\ 4 * words >= 20 /\ scan.data >= 4 * words
                  /\ Deliver(4 * words, scan.data - 4 * words)
          /\ seen' = [seen EXCEPT !.in_range = Reach(20)]

\* The UDP length field may be too small, or larger than what is there.
Udp ==
    /\ At("transport")
    /\ scan.protocol = "udp"
    /\ \/ scan.data < 8 /\ Drop
       \/ /\ scan.data >= 8
          /\ \E n \in UdpLengths :
               /\ Deliver(8, IF n < 8 THEN 0 ELSE PacketEnd(n) - 8)
               /\ seen' = [seen EXCEPT !.in_range = Reach(8), !.udp = n]

\* Of any other protocol the first four bytes, if they are there, are taken
\* for ports, and all of it is payload.
OtherTransport ==
    /\ At("transport")
    /\ scan.protocol \notin {"tcp", "udp"}
    /\ Deliver(0, scan.data)
    /\ UNCHANGED seen

Parse ==
    \/ StripLinkLayer \/ PeelTag \/ EndOfTags
    \/ Dispatch \/ ParseIpv4
    \/ ParseIpv6 \/ PassExtension \/ EndOfWalk
    \/ Tcp \/ Udp \/ OtherTransport

Next == SetLinkType \/ ParsePacket \/ Parse \/ Return

\* The parser is a function called by a thread: it runs until it returns.
Spec == Init /\ [][Next]_vars /\ WF_vars(Parse)

-----------------------------------------------------------------------------
(* Properties.                                                             *)

TypeOK ==
    /\ link_type \in LinkTypes
    /\ families \in Families
    /\ scan \in Scan
    /\ seen \in Seen

\* Whatever the length of a frame and whatever its fields claim, no index and
\* no slice is out of range: the parser, which has no other checks, cannot
\* panic and take the capture down with it.
NoPanic == seen.in_range /\ scan.data >= 0

\* A packet's header and payload lie within the datagram that its IP header
\* declares and within what was captured, so that neither padding of short
\* Ethernet frames nor a trailer counts as payload; a TCP segment reaches to
\* the very end, and a datagram that is captured whole has its UDP length.
PayloadWithinPacket ==
    \A p \in scan.result :
        LET end == IF seen.declared < seen.network THEN seen.declared
                                                   ELSE seen.network
            size == p.header + p.payload
        IN  /\ p.header >= 0 /\ p.payload >= 0
            /\ seen.start + size <= end
            /\ p.protocol = "tcp" => seen.start + size = end
            /\ p.protocol = "udp" /\ seen.udp >= 8 =>
                 /\ size <= seen.udp
                 /\ seen.start + seen.udp <= end => size = seen.udp

\* A packet is taken for one of an extension header only when that header is
\* not whole in it: the walk over a complete chain reaches the transport
\* header, and the flow is one of its ports.
UpperLayerReached ==
    \A p \in scan.result :
        p.protocol \in Extensions =>
            \/ seen.start + Fixed(p.protocol) > scan.max_len
            \/ seen.start + seen.extension > scan.max_len

\* A packet is of a family that was asked for, by its own version field,
\* also when the type field named neither or the wrong one.
FamilyAskedFor ==
    \A p \in scan.result : p.version \in families

\* Every frame is done with: the loops over tags and extension headers end,
\* whatever lengths the headers claim.
ParseEnds == (scan.pc # "idle") ~> (scan.pc = "done")
=============================================================================
