SPECIFICATION Spec
CONSTANTS
  OneSecond = 2
  ActivityTimeout = 4
  MaxCount = 7
  Scale = 420
  Modes <- MCModes
  Shapes <- MCShapes
  StartTimes = {0, 1}
  Steps <- MCSteps
  MaxPackets = 5
  MaxLate = 1
INVARIANTS
  StatisticsMatchPackets
  FeaturesAgree
  BulksAreMaximalRuns
  BulksAreWhole
