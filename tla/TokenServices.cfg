SPECIFICATION MCSpec
CONSTANTS
  c1 = c1
  h1 = h1
  h2 = h2
  Nil = Nil
  Codes = {c1}
  Handlers = {h1, h2}
  MaxTokens = 3
  MaxGrants = 2
  q1 = q1
  q2 = q2
  g1 = g1
  g2 = g2
  CacheKeys = {q1, q2}
  Clients = {g1, g2}
  ExpiresIn = {0, 3}
  MinExpiryMargin = 1
  ReAuthCooldown = 1
  DefaultTTL = 1
  MaxTTL = 3
  AssertionLife = 2
  RefreshBefore = 1
  MaxFailures = 2
  ResetTimeout = 1
  BrokerErrors = {"rejected", "reauth", "server_error"}
  MaxClock = 4
  SetDefinitions <- MCSetDefinitions
  Requirements <- MCRequirements
  RuleConfigs <- MCRuleConfigs
  MaxRules = 2
SYMMETRY Symmetry
INVARIANTS
  OneActivePerChain
  StoppedStaysDead
  NobodyStuck
  
  ForwardedIsAuthorized
  NothingWithoutConsent
  CoverageMatchesGrant
  MintedIsEntitled
