SPECIFICATION RecordsSpec
SYMMETRY Symmetry
CONSTANTS
  t1 = t1
  t2 = t2
  r1 = r1
  r2 = r2
  b1 = b1
  b2 = b2
  Tools = {t1, t2}
  Requests = {r1, r2}
  Brokers = {b1, b2}
  MaxPending = 1
  MaxRows = 2
  MaxUncounted = 1
INVARIANTS
  PendingBounded
  AnswersStayTrue
  StoresAgree
PROPERTIES
  ImplementsLifecycle
