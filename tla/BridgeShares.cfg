SPECIFICATION Spec
CONSTANTS
  p1 = p1
  p2 = p2
  e1 = e1
  Bad = Bad
  Null = Null
  PoolJobs <- MCOneJob
  Extranonce1s <- MCExtranonce1s
  Nonces <- MCNonces
  Difficulties <- MCDifficulties
  TagModulus = 2
  En2Modulus = 2
  QueueBound = 1
  HwBound = 1
  MaxEn2 = 1
  MaxSubmits = 2
INVARIANTS
  SubmitsOwnSession
  NoDuplicateSubmit
  SubmitsTrueWork
  ResponsesMatch
  AtMostOneLateSubmit
