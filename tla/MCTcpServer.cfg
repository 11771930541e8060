SPECIFICATION FairSpec
CONSTANTS
  small = small
  full = full
  cut = cut
  huge = huge
  endnow = endnow
  Msgs <- MCMsgs
  SizeOf <- MCSizeOf
  KindOf <- MCKindOf
  ResOf <- MCResOf
  HdrLen = 2
  BufLen = 3
  Chunk = 2
  SizeMax = 7
  MaxRes = 1
  DivTraps = TRUE
  MaxFrames = 3
INVARIANTS
  TypeOK
  Framing
  Answers
  CounterIsComplete
  JunkIsLast
  StopAnswersAll
PROPERTIES
  EventuallyAnswered
  EndStops
CHECK_DEADLOCK FALSE
