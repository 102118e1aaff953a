SPECIFICATION FairSpec
CONSTANTS
  k1 = k1
  k2 = k2
  Nil = Nil
  Keys = {k1, k2}
  IDs = {1, 2}
  PageSize = 1
  Lookahead = 1
  Lifetime = 1
  MaxTime = 1
CHECK_DEADLOCK FALSE
INVARIANTS
  NoDueSessionMissed
PROPERTIES
  SweepEnds
