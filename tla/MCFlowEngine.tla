---------------------------- MODULE MCFlowEngine ----------------------------
\* FlowEngine with the packets that TLC lets it read.
EXTENDS FlowEngine, MCPackets
=============================================================================
