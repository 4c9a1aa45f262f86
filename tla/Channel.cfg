SPECIFICATION Spec
CONSTANTS
  Readers = {r1, r2}
  Writers = {w1, w2}
  Capacity = 2
  Batch = 2
  MaxBuffered = 3
  MinGrowth = 2
  Empty = Empty
INVARIANTS
  ClaimsCovered
  NoMissedWakeup
  InOrderOnce
