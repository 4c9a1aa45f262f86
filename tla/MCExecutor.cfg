SPECIFICATION Spec
CONSTANTS
  Executors = {e1, e2, e3}
  None = None
  Empty = Empty
  EventLoops = {1, 2}
  Capacity = 1
  MinGrowth = 3
  MaxCalls = 3
  MaxCaptures = 2
  MaxDrains = 1
SYMMETRY Symmetry
INVARIANTS
  Drained
  NotNested
  NoStaleExecutor
  EachOnceInOrder
