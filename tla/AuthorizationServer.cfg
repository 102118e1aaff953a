SPECIFICATION MCSpec
CONSTANTS
  k1 = k1
  k2 = k2
  c1 = c1
  c2 = c2
  t1 = t1
  t2 = t2
  x1 = x1
  x2 = x2
  Nil = Nil
  Keys = {k1, k2}
  Callers = {c1, c2}
  Tasks = {t1, t2}
  Closers = {x1, x2}
  Workers = 1
  Lookahead = 1
  Lifetime = 2
  MaxTime = 3
  q1 = q1
  q2 = q2
  q3 = q3
  g1 = g1
  g2 = g2
  g3 = g3
  None = None
  KeyIDs = {q1, q2, q3}
  Goroutines = {g1, g2, g3}
  Remote = {g2}
  Grace = 3
  MaxAge = 1
  OpTime = 1
  SignerTTL = 2
  v1 = v1
  v2 = v2
  e1 = e1
  e2 = e2
  Nothing = Nothing
  Verifications = {v1, v2}
  KIDs = {e1, e2}
  Assertions <- MCAssertions
  KeySetTTL = 2
  MinRefetch = 2
  FetchTime = 1
  Skew = 1
  MaxLifetime = 2
  u1 = u1
  u2 = u2
  r1 = r1
  r2 = r2
  NoDoc = NoDoc
  URLs = {u1, u2}
  Documents <- MCDocuments
  Resolutions = {r1, r2}
  MinTTL = 0
  MaxTTL = 1
  MaxEntries = 1
  FetchTimeout = 1
  MaxAges = {0, 4}
  y1 = y1
  y2 = y2
  NoRecord = NoRecord
  AuthServices = {y1, y2}
  AgentShapes <- MCAgents
  DocShapes <- MCClientDocs
  GrantShapes <- MCGrants
  z1 = z1
  z2 = z2
  KeyRequests = {z1, z2}
  MinRefresh = 1
  MaxRefresh = 2
  FetchLimit = 1
CHECK_DEADLOCK FALSE
INVARIANTS
  OneCurrentKey
  VerifierKnowsSigner
  SpentOnce
  ProceedsWhenEntitled
  BoundChainStaysBound
  PairIsOfOneGeneration
PROPERTIES
  NotShadowedByOnDemand
  ReplacedDocumentFades
  UpstreamSetFades
