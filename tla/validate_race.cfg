SPECIFICATION Spec
CHECK_DEADLOCK FALSE
CONSTANTS
  Program = {p1}
  Workers = {w1}
  States = {s1}
  NoState = NoState
  EQ_MAX = 2
  MaxEvents = 3
  PendingCount = FALSE
  Reload = TRUE
  Nested = FALSE
PROPERTY ValidatesOnlyWhenDone
