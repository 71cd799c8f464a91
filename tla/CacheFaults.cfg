SPECIFICATION Spec
CONSTANTS
  b1 = b1
  b2 = b2
  l1 = l1
  l2 = l2
  Builds <- TwoBuilds
  Lists <- TwoLists
  Saves <- LayersOnly
  Faults <- AllFaults
INVARIANTS
  TypeOK
  OnlySavedIsLoaded
PROPERTIES
  UpdatesKeepLists
  ImplementsStore
SYMMETRY SameLists
CONSTRAINT FewLeftovers
