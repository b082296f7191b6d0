SPECIFICATION Spec
CONSTANTS
  j1 = j1
  j2 = j2
  j3 = j3
  None = None
  Mixed = Mixed
  Zero = Zero
  Jobs <- MCTwoJobs
  Tag <- MCTwoTags
  Depth = 1
  MinGap = 2
  MaxGap = 2
  KeepsUp = FALSE
  MayReset = TRUE
INVARIANTS
  EmittedIsCurrent
  NoShareDropped
