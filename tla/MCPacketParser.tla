--------------------------- MODULE MCPacketParser ---------------------------
\* PacketParser on every captured length up to that of an IPv6 packet with
\* two extension headers, and a tagged Ethernet header before it.
EXTENDS PacketParser

MCFamilies == {IP, {"ipv4"}, {"ipv6"}}
MCLengths == 0 .. 90
=============================================================================
