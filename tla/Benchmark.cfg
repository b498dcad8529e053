SPECIFICATION BFairSpec
CONSTANTS
  a1 = a1
  a2 = a2
  a3 = a3
  b1 = b1
  NoLine = NoLine
  NoData = NoData
  ZeroLine = a1
  Lines <- FourLines
  Traces <- MCTraces
  PortCap = 1
  MaxAccesses = 8
  L1NumBlocks = 2
  SetOf <- DirectMapped
  NumMSHREntry = 1
  WriteBufferCapacity = 2
  MaxInflightFetch = 1
  MaxInflightEviction = 1
  BankLatency = 0
  L1PortCap = 1
  VCNumBlocks = 1
  Latency = 1
  VCPortCap = 1
  MaxClock = 2
INVARIANTS
  TraceReplayed
  FreshUntilAHit
PROPERTIES
  ServesTheCpu
  CountsAreFinal
  ReachesItsReport
CHECK_DEADLOCK FALSE
