------------------------------- MODULE Packet -------------------------------
(***************************************************************************)
(* What flow tracking reads of a decoded packet                            *)
(* (src/src/packet/info.rs) and the 5-tuple keys of src/src/flow/key.rs.   *)
(* A flow id is the string "src-dst-sport-dport-proto"; the fields contain *)
(* no "-", so the string and the 5-tuple determine each other and the id   *)
(* is modelled by the 5-tuple.  Octets are those of src_bytes; they are    *)
(* equal exactly when the addresses are.                                   *)
(***************************************************************************)
EXTENDS Integers, Sequences

CONSTANTS
    Hosts, Ports, Protocols,
    Octets          \* the octets of a host's address

ASSUME OctetsAssumption ==
    /\ Octets \in [Hosts -> Seq(0 .. 255)]
    /\ \A g, h \in Hosts : Octets[g] = Octets[h] => g = h

Key == [src_ip: Hosts, dst_ip: Hosts, src_port: Ports, dst_port: Ports,
        protocol: Protocols]

PacketInfo ==
    [key: Key, timestamp: Int, flag_fin: BOOLEAN, flag_rst: BOOLEAN]

\* FlowKey::reverse
Reverse(k) ==
    [src_ip |-> k.dst_ip, dst_ip |-> k.src_ip,
     src_port |-> k.dst_port, dst_port |-> k.src_port,
     protocol |-> k.protocol]

\* BasicPacketInfo::fwd_flow_id and bwd_flow_id
FwdId(p) == p.key
BwdId(p) == Reverse(p.key)

\* The first position in which two addresses differ, if there is one.
FirstDifference(s, d) ==
    {i \in DOMAIN s \cap DOMAIN d :
        s[i] # d[i] /\ \A j \in 1 .. i - 1 : s[j] = d[j]}

\* The octet as it is compared: as an i8 in the compatible mode.
Rank(octet, compat_mode) ==
    IF compat_mode /\ octet > 127 THEN octet - 256 ELSE octet

\* A mutated form: the comparison goes on behind the first difference.
MutGenerateFlowId(k, compat_mode) ==
    LET s == Octets[k.src_ip]
        d == Octets[k.dst_ip]
    IN  IF \E i \in DOMAIN s \cap DOMAIN d :
              Rank(s[i], compat_mode) > Rank(d[i], compat_mode)
        THEN Reverse(k) ELSE k

\* BasicPacketInfo::generate_flow_id: the id that is exported has the lower
\* address first.
GenerateFlowId(k, compat_mode) ==
    LET s == Octets[k.src_ip]
        d == Octets[k.dst_ip]
    IN  IF \E i \in FirstDifference(s, d) :
              Rank(s[i], compat_mode) > Rank(d[i], compat_mode)
        THEN Reverse(k) ELSE k

\* BasicPacketInfo::is_forward_packet: only the addresses are compared.
IsForward(p, first_src) == p.key.src_ip = first_src

\* The two directions of one connection.
Connection(k) == {k, Reverse(k)}
=============================================================================
