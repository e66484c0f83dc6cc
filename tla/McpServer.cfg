CONSTANTS
  plain = plain
  colon = colon
  uuid = uuid
  text = text
  memoryType = memoryType
  userType = userType
  NoContext = NoContext
  Contexts <- MCContexts
  WithColon <- MCWithColon
  Generated <- MCGenerated
  MessageIds <- MCIds
  Texts <- MCTexts
  Types <- MCTypes
  MemoryType <- memoryType
  DefaultLimit = 1
  StorageErrors = TRUE
  Inputs <- MCInputs
  ChanSize = 1
  MaxLines = 3
  MaxClock = 1
  MaxLives = 2
SPECIFICATION FairServerSpec
INVARIANTS
  ServerTypeOK
  
PROPERTIES
  LoopServes
CHECK_DEADLOCK FALSE
