SPECIFICATION MCSpec
CONSTANTS
  MaxChats = 3
  MaxQuestions = 3
  MaxPending = 2
  Names = {n1, n2}
  Keys = {k1, k2}
  MaxFiles = 3
  MaxReading = 1
  MaxTraceTime = 3
  Served = {0, 2, 20}
  Everything <- MCEverything
  Filters <- MCFilters
  Unreadable = {halfTyped}
  Axes = {"ReqInCount", "AvgLatency"}
  TimeRanges = {z0, z1}
  FullRange = z0
  Absent = Absent
  Widths = {1500, 2100}
  OpenedAt = {2}
  MaxPast = 2
  MaxLoads = 1
  d1 = d1
  d2 = d2
  t1 = t1
  t2 = t2
  Plots <- MCPlots
  Skipped = Skipped
  Spans <- MCSpans
  Nothing = Nothing
  MaxPictures = 2
  MaxDrawings = 3
INVARIANTS
  DaisenTypeOK
  ChatsKept
  ShownIsSaid
  AttachmentsAgree
  PeriodSound
  
  RangesShared
  CurvesAreAsked
PROPERTIES
  NothingUnsaid
CHECK_DEADLOCK FALSE
