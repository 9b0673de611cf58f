SPECIFICATION Spec
CONSTANTS
  HostA = HostA
  HostB = HostB
  Hosts <- MCHosts
  Octets <- MCOctets
  Ports <- MCPorts
  Protocols <- MCProtocols
  Packets <- FinPackets
  Bidirectional = TRUE
  FlowTimeout = 4
  ActivityTimeout = 2
  OneSecond = 1
  MinChoices = {1}
  MaxPackets = 4
INVARIANTS
  FinBothWaysCloses
