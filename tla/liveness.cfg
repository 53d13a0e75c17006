SPECIFICATION FairSpec
CHECK_DEADLOCK FALSE
CONSTANTS
  Program = {p1}
  Workers = {w1, w2}
  States = {s1}
  NoState = NoState
  EQ_MAX = 2
  MaxEvents = 3
  PendingCount = TRUE
  Reload = TRUE
  Nested = FALSE
PROPERTIES EventsRun TstoreReturns BarrierEnds EventuallyValid
