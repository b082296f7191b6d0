SPECIFICATION Spec
CONSTANTS
  IrBits = 3
  ByteBits = 3
  Idcode <- MCIdcode
  Probe <- MCProbe
  Frames <- MCFrames
  Outbox <- MCOutbox
  ReadScans = 2
  IdleClocks = 1
  MaxRequests = 8
CHECK_DEADLOCK FALSE
INVARIANTS
  WritesArrive
  ReadsExact
  ChainMeasured
