CONSTANTS
  c1 = c1
  u1 = u1
  Contexts <- MCContexts
  WorkUnits <- MCWorkUnits
  MaxWriters = 1
  BatchSize = 2
  MaxWrites = 3
  Shutdowns = TRUE
  ProcessCrashes = FALSE
  PowerLosses = FALSE
SPECIFICATION Spec
INVARIANTS
  AckedWritesSurvive
