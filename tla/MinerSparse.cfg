SPECIFICATION FairSpec
CONSTANTS
  j1 = j1
  j2 = j2
  j3 = j3
  None = None
  Mixed = Mixed
  Zero = Zero
  Jobs <- MCThreeJobs
  Tag <- MCThreeTags
  Depth = 2
  MinGap = 2
  MaxGap = 3
  KeepsUp = TRUE
  MayReset = FALSE
INVARIANTS
  NoTornJob
  EmittedIsGenuine
PROPERTIES
  CandidateBecomesShare
  JobReachesEngine
