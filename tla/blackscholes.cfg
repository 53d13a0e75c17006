CONSTANTS
  Threads = {t1, t2}
  EQ_MAX = 2
  Builds = {"SINGLE_THREAD", "DTT_POLLING", "NODTT", "SPAWN", "TAIL_RECURSION"}
  Args = {0, 1, 2}
  MaxOptions = 3
  Versions = {"serial", "pthreads"}
  MaxThreads = 2
  NUM_RUNS = 2
SPECIFICATION FairSpec
PROPERTY Terminates
INVARIANTS TypeOK PricesSound SingleThreadComplete HeadEventsOnly PricersAlone
CHECK_DEADLOCK FALSE
