SPECIFICATION FairSpec
CONSTANTS
  p1 = p1
  e1 = e1
  Bad = Bad
  Null = Null
  PoolJobs <- MCPoolJobs
  Extranonce1s <- MCExtranonce1s
  Nonces <- MCNonces
  Difficulties <- MCDifficulties
  TagModulus = 4
  En2Modulus = 4
  MaxLines = 1
  MaxEn2 = 4
  MaxEvents = 2
INVARIANTS
  LanesDisjoint
  PairInStep
  AssignedIsPhysical
PROPERTIES
  ImplementsSession
  RollHappens
