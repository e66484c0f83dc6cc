CONSTANTS
  k1 = k1
  k2 = k2
  p1 = p1
  p2 = p2
  m1 = m1
  m2 = m2
  Contexts <- MCContexts
  Callers <- MCCallers
  Members <- MCMembers
  Requests <- MCRequests
  CacheSize = 1
  MaxCalls = 4
  CommitErrors = TRUE
SPECIFICATION Spec
SYMMETRY ContextSymmetry
INVARIANTS
  TypeOK
  
  
CHECK_DEADLOCK FALSE
