SPECIFICATION Spec
CONSTANTS
  Modes <- AllModes
  Tuples <- PairsAndTriples
INVARIANTS
  ResumedOnceDone
  AssertionsHold
  LosersCancelled
  NothingSwallowed
