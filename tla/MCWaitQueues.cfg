SPECIFICATION Spec
CONSTANTS
  Tasks = {t1, t2, t3}
  Values = {0, 1}
  NoTask = NoTask
SYMMETRY Symmetry
INVARIANTS
  WokenOnce
  YieldsTransition
