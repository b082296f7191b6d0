SPECIFICATION FairSpec
CONSTANTS
  A = A
  B = B
  Devices <- MCDevices
CHECK_DEADLOCK FALSE
INVARIANTS
  FailureRestores
  ReportIsTrue
  OnlyQualifiedStays
PROPERTY
  RunnerEnds
