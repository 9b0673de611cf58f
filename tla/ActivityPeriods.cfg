SPECIFICATION Spec
CONSTANTS
  HostA = HostA
  HostB = HostB
  Hosts <- MCHosts
  Octets <- MCOctets
  Ports <- MCPorts
  Protocols <- MCProtocols
  Packets <- ManyTimes
  Bidirectional = TRUE
  FlowTimeout = 4
  ActivityTimeout = 2
  OneSecond = 1
  MinChoices = {2}
  MaxPackets = 4
INVARIANTS
  IdleIsLongGaps
  PeriodsTileTheFlow
  SubflowsAreSeparated
