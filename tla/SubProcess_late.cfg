CONSTANTS
  MaxLen = 3
  Scripts <- AllScripts
  PipeCapacity = 3
  ReadBufSize = 2
  SysErrors = FALSE
SPECIFICATION FairCommandSpec
INVARIANT OutputComplete
CHECK_DEADLOCK FALSE
