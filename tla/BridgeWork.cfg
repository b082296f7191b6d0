SPECIFICATION FairSpec
CONSTANTS
  p1 = p1
  p2 = p2
  e1 = e1
  Bad = Bad
  Null = Null
  PoolJobs <- MCPoolJobs
  Extranonce1s <- MCExtranonce1s
  Nonces <- MCOneNonce
  Difficulties <- MCOneDifficulty
  TagModulus = 2
  En2Modulus = 2
  QueueBound = 1
  HwBound = 1
  MaxEn2 = 2
  MaxSubmits = 0
INVARIANTS
  TypeOK
  DistinctWork
PROPERTIES
  RotationHappens
  WorkReachesCard
