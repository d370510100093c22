SPECIFICATION FairSpec
CONSTANTS
  p1 = p1  r1 = r1  p2 = p2  r2 = r2  p3 = p3  r3 = r3
  s1 = s1  s2 = s2  s3 = s3  t1 = t1  t2 = t2
  NoNode = NoNode
  Node <- Node3
  Shard = {s1, s2, s3}
  ShardOf <- ShardOf3
  InitialPrimaries = {p1, p2, p3}
  Thread = {t1, t2}
  Configs <- MalformedOrNamed
  KillOutcomes = {TRUE, FALSE}
  MaxWaves = 1
  MaxPromotions = 0
PROPERTIES
  ReservationResolved
  AllJoined
