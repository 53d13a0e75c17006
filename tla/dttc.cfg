CONSTANTS
  Texts = {v, w}
  Functions = {f, g}
  Regions = {a, b}
  None = None
  NoEnd = NoEnd
  Bare = v
  Indented = w
  MaxFiles = 2
  MaxItems = 4
  MaxComments = 1
SPECIFICATION MCSpec
INVARIANTS TypeOK StoresTrigger InitBeforeStores StatesDeclared LinesKept CrashCauses
CHECK_DEADLOCK FALSE
