SPECIFICATION Spec
CONSTANTS
  s1 = s1
  s2 = s2
  Zero = Zero
  Header = Header
  Garbage = Garbage
  NoData = NoData
  Shares <- MCShares
  PayloadBytes = 1
  MaxPayload = 10
  Radix = 10
  Value <- MCValue
  StatusFirst = FALSE
  MayFail = TRUE
  MaxShares = 5
  MaxFailures = 2
INVARIANTS
  DeliveredInOrder
  LossIsBounded
