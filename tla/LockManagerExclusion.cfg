CONSTANTS
  a1 = a1
  a2 = a2
  i1 = i1
  i2 = i2
  i3 = i3
  i4 = i4
  i5 = i5
  g1 = g1
  g2 = g2
  Agents <- MCAgents
  Goroutines <- MCGoroutines
  Resources <- OneResource
  LockIds <- MCIds5
  TTLs <- OneTTL
  DefaultTTL = 2
  Second = 1
  MaxClock = 0
  MultiRequests <- NoRequests
  StorageErrors = FALSE
  Restarts = FALSE
SPECIFICATION Spec
SYMMETRY Symmetry5
INVARIANTS
  MutualExclusion
