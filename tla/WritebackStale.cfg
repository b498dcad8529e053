SPECIFICATION Spec
CONSTANTS
  x1 = x1
  x2 = x2
  x3 = x3
  NoLine = NoLine
  Lines <- TwoLines
  NumBlocks = 1
  SetOf <- TwoLinesOneSet
  NumMSHREntry = 2
  WriteBufferCapacity = 3
  MaxInflightFetch = 1
  MaxInflightEviction = 1
  BankLatency = 0
  PortCap = 2
  MaxReqs = 5
  Script <- WritesThenReads
SYMMETRY TwoSymmetry
INVARIANT
  ReadNotStale
CHECK_DEADLOCK FALSE
