SPECIFICATION CliFairSpec
CONSTANTS
  k1 = k1
  k2 = k2
  n1 = n1
  n2 = n2
  NoId = NoId
  NoNode = NoNode
  Ids <- TwoIds
  Nodes <- TwoNodes
  UniqueIds = FALSE
  Moves = 3
  Glitches = 1
  Commands = 1
  Timeouts = 1
INVARIANTS
  CliTypeOK
  SteadyTargetAnswers
PROPERTIES
  StatusIsLive
  SignalsTellObjects
  CommandEnds
CHECK_DEADLOCK FALSE
