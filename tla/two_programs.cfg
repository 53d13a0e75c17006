SPECIFICATION Spec
CHECK_DEADLOCK FALSE
CONSTANTS
  Program = {p1, p2}
  Workers = {w1}
  States = {s1}
  NoState = NoState
  EQ_MAX = 2
  MaxEvents = 3
  PendingCount = TRUE
  Reload = FALSE
  Nested = TRUE
SYMMETRY Symmetry
INVARIANTS PendingCounts ExactlyOnce NoLostValidation NeverGrabbedByOthers
PROPERTIES BarrierWaitsForEvents ImplementsTasks
