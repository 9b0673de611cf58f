SPECIFICATION EngineSpec
CONSTANTS
  HostA = HostA
  HostB = HostB
  Hosts <- MCHosts
  Octets <- MCOctets
  Ports <- MCPorts
  Protocols <- MCProtocols
  Packets <- EnginePackets
  Bidirectional = TRUE
  FlowTimeout = 4
  ActivityTimeout = 2
  OneSecond = 1
  MinChoices = {1, 2}
  MaxPackets = 3
  Formats = {"csv", "json", "jsonl"}
  Modes = {TRUE, FALSE}
  Faults = {"open", "read", "write", "kill"}
  MaxRuns = 2
INVARIANTS
  SuccessIsComplete
  FailureKeepsReported
  LiveRowsAreDurable
  HeaderFirstOnly
  LinesStayWhole
  JsonWellFormed
PROPERTIES
  CsvOnlyGrows
  EngineImplementsSink
  EveryRunEnds
  StopIsHeeded
