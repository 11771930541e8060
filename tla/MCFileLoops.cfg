SPECIFICATION Spec
CONSTANTS
  Byte <- MCByte
  Size = 2
  Count = 2
  SendMax = 3
  Name = {"a", "b", "stdout"}
  Disks <- MCDisks
  Calls <- MCCalls
CHECK_DEADLOCK FALSE
INVARIANTS
  CleanCopy
  OnlyWhatWasRead
