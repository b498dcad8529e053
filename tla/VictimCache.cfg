SPECIFICATION FairSpec
CONSTANTS
  a0 = a0
  a1 = a1
  a2 = a2
  zero = zero
  Lines <- MCLines
  ZeroLine = a0
  Data <- MCData
  ZeroData = zero
  NoData = NoData
  NumBlocks = 2
  Latency = 1
  PortCap = 1
  MaxReqs = 4
  MaxClock = 2
INVARIANTS
  TypeOK
  DirectorySound
  RequestsAccounted
  PortsServed
PROPERTIES
  ImplementsLruBuffer
  EveryRequestAnswered
CHECK_DEADLOCK FALSE
