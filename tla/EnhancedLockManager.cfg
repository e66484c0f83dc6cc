CONSTANTS
  a1 = a1
  a2 = a2
  i1 = i1
  i2 = i2
  c1 = c1
  c2 = c2
  Agents <- MCAgents
  Resources <- TwoResources
  LockIds <- MCIds2
  Calls <- TwoCalls
  Requests <- CrossedRequests
  TTL = 1
  Timeout = 1
  MaxLocks = 2
  MaxTasks = 3
  MaxClock = 3
SPECIFICATION Spec
SYMMETRY Symmetry22
INVARIANTS
  TypeOK
  LocksCoherent
  NoCircularWait
  RegisteredWaits
CHECK_DEADLOCK FALSE
