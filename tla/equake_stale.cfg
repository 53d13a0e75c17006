SPECIFICATION EquakeSpec
CHECK_DEADLOCK FALSE
CONSTANTS
  Program = {Main}
  Workers = {w1}
  States = {phi0_skip}
  NoState = NoState
  EQ_MAX = 2
  MaxEvents = 3
  PendingCount = FALSE
  Reload = FALSE
  Nested = FALSE
  Main = Main
  phi0_skip = phi0_skip
  time_at = 8
  old_at = 16
  Timesteps = 3
  Ramp = 3
INVARIANT Phi0Current
