SPECIFICATION Spec
CONSTANTS
  Counts = {1, 2}
  Modes = {"external", "cancelFn", "plain"}
  MaxUses = 3
  MaxCalls = 5
INVARIANTS
  ProxyOutlivesUse
  KeepsUp
  CancelHonoured
PROPERTIES
  CallBeatsCancellation
CHECK_DEADLOCK FALSE
