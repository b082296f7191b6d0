SPECIFICATION Spec
CONSTANTS
  A = A
  B = B
  Devices <- MCDevices
CHECK_DEADLOCK FALSE
INVARIANT
  EveryOutcomeRestores
