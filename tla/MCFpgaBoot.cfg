SPECIFICATION Spec
CONSTANTS
  CmdSize = 2
  InitrdSize = 3
  Commands <- MCCommands
  Prefixed <- MCPrefixed
  Initrds <- MCInitrds
  MaxInvocations = 3
CHECK_DEADLOCK FALSE
INVARIANTS
  OwnCommand
  PanicNeedsCause
  ArqOnWhileRunning
PROPERTIES
  UntilEnds
