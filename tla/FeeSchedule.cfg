SPECIFICATION Spec
CONSTANTS
  Cycle = 7
  BasisPoints = 3000
  MaxLag = 2
  MaxTime = 11
INVARIANTS
  CreditNearWindow
  DevShareBounded
