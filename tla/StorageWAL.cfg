CONSTANTS
  c1 = c1
  u1 = u1
  Contexts <- MCContexts
  WorkUnits <- MCWorkUnits
  MaxWriters = 2
  BatchSize = 2
  MaxWrites = 3
  Shutdowns = TRUE
  ProcessCrashes = TRUE
  PowerLosses = TRUE
SPECIFICATION FairSpec
INVARIANTS
  TypeOK
  LogInOrder
  
PROPERTIES
  ImplementsDurableLog
  
CHECK_DEADLOCK FALSE
