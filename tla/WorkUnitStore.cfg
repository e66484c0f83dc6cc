CONSTANTS
  k1 = k1
  k2 = k2
  u1 = u1
  u2 = u2
  u3 = u3
  p1 = p1
  p2 = p2
  Contexts <- TwoContexts
  UnitIds <- MCUnitIds
  Creators <- MCCreators
  CacheSize = 2
  Limit = 1
  MaxClock = 2
  CommitErrors = TRUE
SPECIFICATION Spec
SYMMETRY UnitSymmetry
INVARIANTS
  TypeOK
  IndexMatchesUnits
  PagesFaithful
CHECK_DEADLOCK FALSE
