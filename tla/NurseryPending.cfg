SPECIFICATION Spec
CONSTANTS
  Tasks = {b, t1, o}
  Body = b
  Outsiders = {o}
  AwaitKinds = {"abortable", "slow"}
  NoTask = NoTask
INVARIANTS
  IdleNurseryCloses
CHECK_DEADLOCK FALSE
