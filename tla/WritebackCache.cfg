SPECIFICATION Spec
CONSTANTS
  x1 = x1
  x2 = x2
  x3 = x3
  NoLine = NoLine
  Lines <- TwoLines
  NumBlocks = 1
  SetOf <- TwoLinesOneSet
  NumMSHREntry = 2
  WriteBufferCapacity = 2
  MaxInflightFetch = 1
  MaxInflightEviction = 1
  BankLatency = 0
  PortCap = 1
  MaxReqs = 4
  Script <- WriteToRead
SYMMETRY TwoSymmetry
INVARIANTS
  WTypeOK
  BlocksHeld
  AnsweredOnce
  QuietMeansDone
  ReadNotStale
CHECK_DEADLOCK FALSE
