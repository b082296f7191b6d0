SPECIFICATION FairSpec
CONSTANTS
  Mixed = Mixed
  PayloadBytes = 2
  MaxFrames = 6
  MaxFailures = 2
INVARIANTS
  TypeOK
  AlignmentIsRight
  RecoversInTime
PROPERTIES
  ImplementsChannel
  WholeFrameArrives
