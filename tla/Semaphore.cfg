SPECIFICATION FairSpec
CONSTANTS
  Users = {u1, u2, u3, u4}
  Initial = 1
  MaxExtra = 1
INVARIANTS
  PermitsConserved
PROPERTIES
  FirstComeFirstServed
  EveryWaiterServed
