CONSTANTS
  w1 = w1
  w2 = w2
  x = x
  y = y
  Writers <- TwoWriters
  Elements <- TwoElements
  None = None
  Capacity = 1
  MaxElems = 3
  MaxLen = 4
  Scripts <- AllScripts
  PipeCapacity = 3
  ReadBufSize = 2
  SysErrors = TRUE
SPECIFICATION PipesSpec
INVARIANTS
  TypeOK
  PipeInStep
  CommandTypeOK
  LostOnlyWhenLate
PROPERTIES
  DeliversInOrder
  CommandsEnd
CHECK_DEADLOCK FALSE
