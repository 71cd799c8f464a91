SPECIFICATION Spec
CONSTANTS
  b1 = b1
  b2 = b2
  NoBuild = NoBuild
  Builds <- TwoBuilds
  MaxLayers = 1
  LayerCount <- OneLayer
  Keys = 1
  Sensors = 0
  MaxRetries = 1
  Losable <- Nothing
  BudgetA <- OneRequest
  BudgetB <- NoRequest
INVARIANTS
  BothSettle
PROPERTIES
  OthersFileKept
  
SYMMETRY Symmetric
CONSTRAINT FewInFlight
CHECK_DEADLOCK FALSE
