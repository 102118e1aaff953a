SPECIFICATION FairSpec
CONSTANTS
  a = a
  b = b
  r1 = r1
  r2 = r2
  Nil = Nil
  KIDs = {a, b}
  Breakable = {b}
  Legacy = {a}
  Requests = {r1, r2}
  MaxVersion = 1
  MaxExpiry = 1
CHECK_DEADLOCK FALSE
INVARIANTS
  ServedSetIsFresh
PROPERTIES
  RequestReturns
