----------------------------- MODULE MCPackets ------------------------------
(***************************************************************************)
(* Packets for TLC: of two hosts with two ports each.  Timestamps are in a *)
(* unit in which the subflow gap is 1, the activity timeout 2 and the flow *)
(* timeout 4.                                                              *)
(***************************************************************************)
EXTENDS Naturals

CONSTANTS HostA, HostB

MCHosts == {HostA, HostB}
\* The order of the addresses depends on the sign of an octet, and the octets
\* behind the first difference are in the other order.
MCOctets == [h \in MCHosts |-> IF h = HostA THEN <<10, 1, 200>> ELSE <<10, 190, 100>>]
MCPorts == {1, 2}
MCProtocols == {6}

\* A TCP connection, the reverse direction of it, a second connection of the
\* same hosts, and one of a host with itself.
AB == [src_ip |-> HostA, dst_ip |-> HostB, src_port |-> 1, dst_port |-> 2,
       protocol |-> 6]
BA == [src_ip |-> HostB, dst_ip |-> HostA, src_port |-> 2, dst_port |-> 1,
       protocol |-> 6]
AB2 == [AB EXCEPT !.src_port = 2]
BA2 == [BA EXCEPT !.dst_port = 2]
AA == [AB EXCEPT !.dst_ip = HostA]
AA2 == [BA EXCEPT !.src_ip = HostA]

PacketsOf(keys, times, flags) ==
    {p \in [key: keys, timestamp: times, flag_fin: BOOLEAN, flag_rst: BOOLEAN] :
        <<p.flag_fin, p.flag_rst>> \in flags}

Data == <<FALSE, FALSE>>
Fin == <<TRUE, FALSE>>
Rst == <<FALSE, TRUE>>
FinRst == <<TRUE, TRUE>>

\* One connection, all kinds of packets, times before and after the timeout.
OneConnection == PacketsOf({AB, BA}, {0, 6}, {Data, Fin, Rst})

\* Connections that share hosts and ports, expire although never silent for
\* long, and are closed by packets that have both flags.
SharedEndpoints ==
    PacketsOf({AB, BA, AB2, BA2, AA, AA2}, {0, 6}, {Data})
      \cup PacketsOf({AB, BA}, {0}, {FinRst}) \cup PacketsOf({AB}, {3}, {Data})

\* Times around every threshold, for the activity periods.
ManyTimes == PacketsOf({AB}, 0 .. 4, {Data, Fin, Rst})

\* The packets that the documents' claims are tried on.
FinPackets == PacketsOf({AB, BA}, {0}, {Data, Fin})
TwoConnections == PacketsOf({AB, AB2}, {0, 6}, {Data})
HalfClosed == PacketsOf({AB}, {0, 1, 3}, {Data, Fin})

\* For the engine: a connection whose flow expires, and one whose second
\* packet resets it, so that flows are reported while others are open.
EnginePackets == PacketsOf({AB}, {0, 6}, {Data}) \cup PacketsOf({AB2}, {0}, {Rst})
=============================================================================
