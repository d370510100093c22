SPECIFICATION FairSpec
CONSTANTS
  NumShards = 2
  Replicas = 1
  TotalSlots = 5
  NoNode = NoNode
  MaxAttempts = 2
  MaxDeaths = 1
CHECK_DEADLOCK FALSE
INVARIANTS
  TypeOK
  FormedAsPlanned
  FormedWhole
PROPERTIES
  FormationRunsOut
  FormationEnds
