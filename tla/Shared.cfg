SPECIFICATION FairSpec
CONSTANTS
  Parents = {p1, p2, p3, p4}
  Kinds <- AwaitableKinds
  Early = {TRUE, FALSE}
INVARIANTS
  Supervised
  UsedAsAwaiter
PROPERTIES
  ResultReachesAll
