SPECIFICATION CopySpec
CONSTANTS
  Word = 2
  Unroll = 3
  SizeMax = 31
  Addr <- MCAddr
  MemByte <- MCAddr
  Memories <- DistinctBytes
  MemCalls <- MCCalls
INVARIANTS
  CopyTypeOK
  Copied
  NothingElse
CHECK_DEADLOCK FALSE
