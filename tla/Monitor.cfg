SPECIFICATION MCSpec
CONSTANTS
  Comps = {c1}
  Runners = {r1, r2}
  Requests = {h1, h2}
  Nobody = Nobody
  MaxEvents = 3
  MaxTime = 3
  Bars = {p1, p2}
  MaxProgressBars = 1
  Slots = {s1, s2}
  MaxLeaving = 0
  WindowHeights = {4, 5}
  DividerPositions = {4}
  GroupHeight = 2
  Components = {k1, k2}
  Fields = {f1, f2}
  Inner = {f1}
  NoComponent = NoComponent
  MaxAsked = 1
  MaxWidgets = 2
  MaxUpdates = 2
  MaxNow = 1
  MaxData = 2
  Trees <- MCTrees
  MaxBuffers = 2
  MaxClicks = 3
  MaxClock = 2
  Funcs = {f1, f2, f3}
  MaxStack = 3
  MaxSamples = 2
  SampleValues = {1, 2}
INVARIANTS
  TimesAddUp
  MonitorTypeOK
  EventsAndTicksKept
  LayoutSound
  WidgetsAgree
  PanesAgree
  TracingAgrees
PROPERTIES
  PausedMeansStill
  PauseTakesHold
  ShowsWhatIsActive
CHECK_DEADLOCK FALSE
