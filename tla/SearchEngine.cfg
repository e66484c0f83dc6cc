CONSTANTS
  Units <- MCUnits
  EmptyId = ""
  ShortWords <- MCShortWords
  System = "SYSTEM"
  Vegetable <- MCVegetable
  QueueSize = 1
  BatchSize = 2
  Queries <- MCQueries
  RelTypes <- MCRelTypes
  Targets <- MCTargets
SPECIFICATION FairSpec
INVARIANTS
  TypeOK
  
  
  PagesPartition

  
CHECK_DEADLOCK FALSE
