SPECIFICATION FairSpec
CONSTANTS
  b1 = b1
  c1 = c1
  Brokers = {b1}
  Calls = {c1}
  MaxApprovals = 1
  MaxVersion = 4
  MaxFaults = 1
INVARIANTS
  NoLostWakeup
  CacheVersionIsHonest
  UsesAreConsumed
PROPERTIES
  CacheCatchesUp
