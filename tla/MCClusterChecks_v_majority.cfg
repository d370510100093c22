SPECIFICATION Spec
CONSTANTS
  s1 = s1
  s2 = s2
  s3 = s3
  Shard <- Shard3
  Replicas = 1
  Named = FALSE
  ReportsState = TRUE
  AcceptableStates <- OnlyOk
  MinReplicas = 1
  MaxKills = 3
  MaxCrashes = 0
  MaxRestarts = 0
  MaxFailovers = 0
SYMMETRY Symmetry
CHECK_DEADLOCK FALSE
INVARIANTS
  ServedMeansQuorum
