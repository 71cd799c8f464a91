SPECIFICATION Spec
CONSTANTS
  old = old
  new = new
  NoLayout = NoLayout
  Layers <- TwoLayers
  Layouts <- TwoLayouts
  QueueSize = 8
  PairingReads = 3
  PlugDuringStart = TRUE
  Budget <- SafetyBudget
INVARIANTS
  TypeOK
  LayerFollowed
  ShownIsStored
PROPERTIES
  KeymapKept
CHECK_DEADLOCK FALSE
SYMMETRY SameLayouts
CONSTRAINT FewActs
