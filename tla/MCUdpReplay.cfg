SPECIFICATION FairSpec
CONSTANTS
  Workloads <- MCWorkloads
  MAX_FILE_SIZE = 10
  SizeMax = 31
  Chunk = 2
  Results = {0, 3}
  MaxErrors = 1
  DivTraps = TRUE
INVARIANTS
  LoadIsPrefix
  ReplayIsExact
  AllOrError
PROPERTIES
  OverrunNeedsNoPairs
  Terminates
CHECK_DEADLOCK FALSE
