SPECIFICATION EquakeFair
CHECK_DEADLOCK FALSE
CONSTANTS
  Program = {Main}
  Workers = {w1}
  States = {phi0_skip}
  NoState = NoState
  EQ_MAX = 3
  MaxEvents = 6
  PendingCount = FALSE
  Reload = FALSE
  Nested = FALSE
  Main = Main
  phi0_skip = phi0_skip
  time_at = 8
  old_at = 16
  Timesteps = 6
  Ramp = 4
INVARIANTS EquakeTypeOK StaleByTwo TriggersEveryIteration HangsOnlyOnReuse
PROPERTIES EndsOrHangs
