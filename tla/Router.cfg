CONSTANTS
  x = x
  s1 = s1
  s2 = s2
  NoContext = NoContext
  Contexts <- OneContext
  SubIds <- MCSubIds
  MaxBufferSize = 1
  StreamSize = 1
  MaxIdle = 0
  Traffic <- TwoEvents
  MaxClock = 1
SPECIFICATION FairSpec
INVARIANTS
  TypeOK
  RegistryCoherent
  DeliveredInOrder
  NoSilentLoss
PROPERTIES
  RoutingNeverStalls
CHECK_DEADLOCK FALSE
