CONSTANTS
  Nodes = {a, b}
  Handlers = {h1}
  Keys = {k1}
  Nobody = Nobody
  Validity = 1
  LeaseTTL = 2
  MaxNow = 2
  MaxTakeovers = 2
SPECIFICATION Spec
INVARIANT NothingAtRiskIsTrue
