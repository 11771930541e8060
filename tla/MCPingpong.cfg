SPECIFICATION FairSpec
CONSTANTS
  bg = bg
  bg2 = bg2
  fg = fg
  Pairs <- ThreePairs
  Rounds <- ThreeRounds
  MsgSize = 2
  Cap = 4
  Leftovers <- DirtyQueues
  SetupMayFail = TRUE
INVARIANTS
  TypeOK
  Conservation
  NoSendFails
PROPERTIES
  Termination
  Poison
CHECK_DEADLOCK FALSE
