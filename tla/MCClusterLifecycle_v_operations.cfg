SPECIFICATION Spec
CONSTANTS
  NumNodes = 2
  BasePorts <- OverlappingPorts
  MaxAttempts = 2
  MaxRuns = 2
  MaxPolls = 2
INVARIANT OperationsReachNodes
