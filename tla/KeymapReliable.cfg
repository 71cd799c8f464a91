SPECIFICATION Spec
CONSTANTS
  b1 = b1
  b2 = b2
  NoBuild = NoBuild
  Builds <- TwoBuilds
  MaxLayers = 2
  LayerCount <- OneAndTwoLayers
  Keys = 2
  Sensors = 2
  MaxRetries = 1
  Losable <- Nothing
  Budget <- ReliableBudget
INVARIANTS
  TypeOK
  SettledIsSynced
  BindingsOfOneBuild
  FetchedLayersHaveSensors
CHECK_DEADLOCK FALSE
