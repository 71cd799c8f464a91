SPECIFICATION Spec
CONSTANTS
  b1 = b1
  b2 = b2
  NoBuild = NoBuild
  Builds <- TwoBuilds
  MaxLayers = 2
  LayerCount <- OneAndTwoLayers
  Keys = 2
  Sensors = 0
  MaxRetries = 1
  Losable <- QueryKinds
  Budget <- LossyBudget
INVARIANTS
  FilesWhole
  LoadedIsWhole
  FilesInv
PROPERTIES
  FilesKeepBindings
CHECK_DEADLOCK FALSE
