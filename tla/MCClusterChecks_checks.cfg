SPECIFICATION Spec
CONSTANTS
  s1 = s1
  s2 = s2
  s3 = s3
  Shard <- Shard3
  Replicas = 1
  Named = TRUE
  ReportsState = TRUE
  AcceptableStates <- OnlyOk
  MinReplicas = 1
  MaxKills = 3
  MaxCrashes = 1
  MaxRestarts = 1
  MaxFailovers = 1
SYMMETRY Symmetry
CHECK_DEADLOCK FALSE
INVARIANTS
  TypeOK
  NoFalseAlarm
  CrashIsCritical
  UnservedSlotsReported
  SurvivorsReported
  QuorumNotOverstated
  PassCertifiesHealth
