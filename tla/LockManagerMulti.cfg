CONSTANTS
  a1 = a1
  a2 = a2
  i1 = i1
  i2 = i2
  i3 = i3
  i4 = i4
  i5 = i5
  g1 = g1
  g2 = g2
  Agents <- MCAgents
  Goroutines <- MCGoroutines
  Resources <- TwoResources
  LockIds <- MCIds4
  TTLs <- ShortTTL
  DefaultTTL = 2
  Second = 2
  MaxClock = 2
  MultiRequests <- CrossedRequests
  StorageErrors = FALSE
  Restarts = FALSE
SPECIFICATION Spec
SYMMETRY Symmetry4
INVARIANTS
  TypeOK
  NoMutualRefusal
PROPERTIES
  MultiAllOrNothing
