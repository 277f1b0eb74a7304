SPECIFICATION GateSpec
CONSTANTS
  ToolchainConfigs <- MCToolchainConfigs
  WordLength <- MCWordLength
  WorkRequests <- MCWorkRequests
  NodeShapes = {}
  Minimal = TRUE
  ImplementationRetries = 1
  StatRetries = 1
  MaxPodWrites = 2
  MaxSpaceFaults = 0
  MaxWorkRuns = 1
  MaxRemediations = 1
INVARIANT
  GateNamesLatest
CHECK_DEADLOCK FALSE
