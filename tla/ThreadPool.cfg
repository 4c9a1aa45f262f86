SPECIFICATION FairSpec
CONSTANTS
  Calls = 3
  Workers = {w1, w2}
  Capacity = 2
  Stride = 7
  Width = 8
  Empty = Empty
  Exit = Exit
INVARIANTS
  EachTaskOnce
  NoLostWakeup
  CancelTokenHonoured
PROPERTIES
  EveryTaskResumes
