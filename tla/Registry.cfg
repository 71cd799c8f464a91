SPECIFICATION FairSpec
CONSTANTS
  k1 = k1
  k2 = k2
  n1 = n1
  n2 = n2
  NoId = NoId
  NoNode = NoNode
  Ids <- TwoIds
  Nodes <- TwoNodes
  UniqueIds = TRUE
  Moves = 6
  Glitches = 0
INVARIANTS
  TypeOK
  ActiveIsListed
  MapsAgree
  SettledServesPlugged
PROPERTIES
  SignalsTellObjects
  ImplementsActiveKeyboard
  GoneIsDropped
  PluggedIsServed
CHECK_DEADLOCK FALSE
