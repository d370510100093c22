SPECIFICATION FairSpec
CONSTANTS
  NumNodes = 2
  BasePorts <- SamePorts
  MaxAttempts = 2
  MaxRuns = 2
  MaxPolls = 1
INVARIANTS
  IInv
  NothingLeaks
PROPERTIES
  AnsweredByOwnUnlessEscaped
  EngineRunsOut
  EveryRunEnds
