SPECIFICATION FairSpec
CONSTANTS
  Checks <- TwoChecks
  CriticalChecks <- SlotsCritical
  MaxRetries <- AnyRetries
  Scenarios <- Mixed
  ChaosEvents <- Events
INVARIANTS
  TypeOK
  SuccessIsComplete
  OverrunOnlyInLastCheck
  ToleratedOnlyWithChaos
PROPERTIES
  ImplementsLog
  SerialPerShard
  RunRunsOut
  RunEnds
