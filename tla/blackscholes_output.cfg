CONSTANTS
  Threads = {t1, t2}
  EQ_MAX = 2
  Builds = {"SPAWN"}
  Args = {0, 1, 2}
  MaxOptions = 3
  Versions = {"serial"}
  MaxThreads = 1
  NUM_RUNS = 2
SPECIFICATION Spec
INVARIANT OutputComplete
CHECK_DEADLOCK FALSE
