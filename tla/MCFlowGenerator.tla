-------------------------- MODULE MCFlowGenerator ---------------------------
\* FlowGenerator with the packets that TLC feeds to it.
EXTENDS FlowGenerator, MCPackets
=============================================================================
