SPECIFICATION FairSpec
CONSTANTS
  old = old
  new = new
  NoLayout = NoLayout
  Layers <- TwoLayers
  Layouts <- TwoLayouts
  QueueSize = 8
  PairingReads = 3
  PlugDuringStart = FALSE
  Budget <- LiveBudget
INVARIANTS
  StoppedIsReleased
PROPERTIES
  CallAnswered
  PluggedIsServed
CHECK_DEADLOCK FALSE
