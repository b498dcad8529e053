SPECIFICATION HSpec
CONSTANTS
  a0 = a0
  a1 = a1
  Lines <- MCTwoLines
  ZeroLine = a0
  Data <- MCData
  ZeroData = 0
  NoData = NoData
  NumBlocks = 1
  Latency = 1
  PortCap = 1
  MaxReqs = 5
  MaxClock = 2
  MaxVersion = 2
INVARIANTS
  LevelsOrdered
  AnswersAreFresh
PROPERTIES
  OnlyADropLoses
  ImplementsStore
CHECK_DEADLOCK FALSE
