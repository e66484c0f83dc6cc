CONSTANTS
  a1 = a1
  a2 = a2
  i1 = i1
  i2 = i2
  i3 = i3
  i4 = i4
  i5 = i5
  g1 = g1
  g2 = g2
  Agents <- MCAgents
  Goroutines <- MCGoroutines
  Resources <- OneResource
  LockIds <- MCIds3
  TTLs <- ZeroTTL
  DefaultTTL = 1
  Second = 1
  MaxClock = 2
  MultiRequests <- NoRequests
  StorageErrors = TRUE
  Restarts = TRUE
SPECIFICATION FairSpec
INVARIANTS
  HandleVisible
  ExclusiveUnlessRevoked
PROPERTIES
  ExpiredEventuallyCleaned
