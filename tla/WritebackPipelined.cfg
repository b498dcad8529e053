SPECIFICATION FairSpec
CONSTANTS
  x1 = x1
  x2 = x2
  x3 = x3
  NoLine = NoLine
  Lines <- ThreeLines
  NumBlocks = 2
  SetOf <- ThreeLinesOneSet
  NumMSHREntry = 2
  WriteBufferCapacity = 2
  MaxInflightFetch = 1
  MaxInflightEviction = 1
  BankLatency = 1
  PortCap = 2
  MaxReqs = 3
  Script <- InOrder
PROPERTY
  EveryRequestAnswered
CHECK_DEADLOCK FALSE
