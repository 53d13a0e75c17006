CONSTANTS
  Texts = {v, w}
  Functions = {f}
  Regions = {a}
  None = None
  NoEnd = NoEnd
  Bare = v
  Indented = w
  MaxFiles = 1
  MaxItems = 3
  MaxComments = 0
SPECIFICATION MCSpec
INVARIANT ModificationsStored
CHECK_DEADLOCK FALSE
