---------------------------- MODULE MCFlowRecord ----------------------------
\* Records and bulks on packets with and without payload.  Steps go back,
\* stay, and go forth by less and by more than a second.
EXTENDS BulkTransfer

MCModes == BOOLEAN \X BOOLEAN
MCShapes ==
    {[payload_bytes |-> 0, header_bytes |-> 32, tcp_window |-> 7, flags |-> {"ack"}],
     [payload_bytes |-> 3, header_bytes |-> 20, tcp_window |-> 8,
      flags |-> {"ack", "psh"}]}
MCSteps == {-1, 0, 1, 3}
=============================================================================
