SPECIFICATION RestartSpec
CONSTANTS
  b1 = b1
  b2 = b2
  NoBuild = NoBuild
  Builds <- TwoBuilds
  MaxLayers = 2
  LayerCount <- OneAndTwoLayers
  Keys = 1
  Sensors = 0
  MaxRetries = 1
  Losable <- Nothing
  Budget <- RestartBudget
INVARIANT SettledIsSynced
INVARIANT OwnFileWhole
CHECK_DEADLOCK FALSE
