SPECIFICATION FairSpec
CONSTANTS
  s1 = s1
  s2 = s2
  Zero = Zero
  Header = Header
  Garbage = Garbage
  NoData = NoData
  Shares <- MCShares
  PayloadBytes = 1
  MaxPayload = 10
  Radix = 10
  Value <- MCValue
  StatusFirst = TRUE
  MayFail = FALSE
  MaxShares = 3
  MaxFailures = 0
INVARIANT
  TypeOK
PROPERTIES
  NoOverwrite
  ImplementsSlot
  EveryShareArrives
