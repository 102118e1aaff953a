SPECIFICATION Spec
CONSTANTS
  a1 = a1
  a2 = a2
  s1 = s1
  s2 = s2
  u1 = u1
  u2 = u2
  i1 = i1
  i2 = i2
  c1 = c1
  k1 = k1
  k2 = k2
  p1 = p1
  p2 = p2
  v1 = v1
  v2 = v2
  x1 = x1
  n1 = n1
  e1 = e1
  w1 = w1
  Admins = {a1, a2}
  Services = {s1, s2}
  Issuers = {i1, i2}
  URIs = {u1, u2}
  Clients = {c1}
  Bodies <- MCBodies
  MaxVersion = 2
  MaxClock = 2
  Forms <- MCForms
  Callers = {k1, k2}
  PSets = {p1, p2}
  Svcs = {v1, v2}
  ExternalIDs = {x1}
  CanonicalIDs = {n1}
  ClientIDs = {e1}
  ClientURIs = {w1}
  MaxAgents = 2
  MaxGrants = 2
  MultiAgent = FALSE
  SetBodies <- MCSetBodies
INVARIANTS
  SessionsMatchProvider
  RegisteredClientIsKept
  ConflictIsReal
  FullConsentIsAccepted
