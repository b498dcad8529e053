SPECIFICATION Spec
CONSTANTS
  x1 = x1
  x2 = x2
  x3 = x3
  NoLine = NoLine
  Lines <- JamLines
  NumBlocks = 7
  SetOf <- JamLinesOneSet
  NumMSHREntry = 2
  WriteBufferCapacity = 5
  MaxInflightFetch = 2
  MaxInflightEviction = 5
  BankLatency = 1
  PortCap = 1
  MaxReqs = 13
  Script <- Jam
INVARIANT
  QuietMeansDone
CHECK_DEADLOCK FALSE
