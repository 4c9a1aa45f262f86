SPECIFICATION FairSpec
CONSTANTS
  Tasks = {b, t1, t2, o}
  Body = b
  Outsiders = {o}
  AwaitKinds = {"abortable", "slow", "shielded"}
  NoTask = NoTask
INVARIANTS
  Consistent
  EachCallbackOnce
PROPERTIES
  ImplementsTaskScope
  NurseryCloses
CHECK_DEADLOCK FALSE
