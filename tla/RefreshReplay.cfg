SPECIFICATION Spec
CONSTANTS
  c1 = c1
  c2 = c2
  h1 = h1
  h2 = h2
  h3 = h3
  Nil = Nil
  Codes = {c1}
  Handlers = {h1, h2}
  MaxTokens = 3
  MaxGrants = 2
SYMMETRY Symmetry
INVARIANT
  ReplayEndsChain
