SPECIFICATION FairSpec
CONSTANTS
  b1 = b1
  b2 = b2
  NoBuild = NoBuild
  Builds <- TwoBuilds
  MaxLayers = 2
  LayerCount <- OneAndTwoLayers
  Keys = 2
  Sensors = 0
  MaxRetries = 2
  Losable <- Probed
  Budget <- LiveBudget
PROPERTIES
  Discovered
CHECK_DEADLOCK FALSE
