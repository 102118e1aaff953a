SPECIFICATION Spec
CONSTANTS
  k1 = k1
  p1 = p1
  p2 = p2
  c1 = c1
  c2 = c2
  Nil = Nil
  Keys = {k1}
  Procs = {p1, p2}
  Replicas <- MCReplicas
  Clients = {c1, c2}
  LockedSessionSlots = 2
  MaxRetries = 1
  Lookahead = 1
  Lifetimes = {0}
  MaxTime = 0
  MaxGrants = 2
  MaxServed = 1
  MaxUUID = 3
SYMMETRY Symmetry
ACTION_CONSTRAINT EarlyRotation
INVARIANTS
  CredentialsOfOneGrant
  RejectedTokenIsDead
  NoResurrection
