CONSTANTS
  c1 = c1
  k1 = k1
  Star = Star
  ClientIds <- OneClient
  Contexts <- MCContexts
  Asked <- MCAsked
  Requests <- MCRequests
  BufferSize = 2
  ChanSize = 1
  SseSize = 1
  MaxIdleTime = 0
  Traffic <- TwoUnits
  MaxClock = 1
SPECIFICATION FairSpec
INVARIANTS
  TypeOK
  NoSilentLoss
  DeliveredInOrder
  DoubleCloseNeedsWriteError
  RegisteredIsReachable
PROPERTIES
  GoneClientsLeave
CHECK_DEADLOCK FALSE
