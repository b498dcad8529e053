SPECIFICATION EngineSpec
CONSTANTS
  Comps = {c1}
  Runners = {r1}
  Requests = {h1}
  Nobody = Nobody
  MaxEvents = 3
  MaxTime = 3
INVARIANT NothingInThePast
CHECK_DEADLOCK FALSE
