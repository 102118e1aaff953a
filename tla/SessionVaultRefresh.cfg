SPECIFICATION FairSpec
CONSTANTS
  k1 = k1
  p1 = p1
  p2 = p2
  c1 = c1
  c2 = c2
  Nil = Nil
  Keys = {k1}
  Procs = {p1, p2}
  Replicas <- MCReplicas
  Clients = {c1}
  LockedSessionSlots = 2
  MaxRetries = 2
  Lookahead = 1
  Lifetimes = {1}
  MaxTime = 1
  MaxGrants = 1
  MaxServed = 1
  MaxUUID = 2
INVARIANTS
  StoredTokenIsLive
PROPERTIES
  LockReleased
