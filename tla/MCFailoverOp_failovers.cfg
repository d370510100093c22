SPECIFICATION FairSpec
CONSTANTS
  s1 = s1
  s2 = s2
  o1 = o1
  Shard = {s1, s2}
  Replicas = 1
  Op = {o1}
  Targets <- AnyTarget
  NoNode = NoNode
  MaxKills = 2
  MaxForeign = 1
CHECK_DEADLOCK FALSE
INVARIANTS
  TypeOK
  SuccessHasGrounds
PROPERTIES
  LinksUpAtSuccess
  WaitingReplicasCount
  OperationsRunOut
  OperationsReport
