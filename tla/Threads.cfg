CONSTANTS
  c1 = c1
  c2 = c2
  Controllers <- TwoControllers
  WorkerCycle_ms = 1
  w1 = w1
  w2 = w2
  Writers <- TwoWriters
  MaxPuts = 3
  ClearByOthers = FALSE
  None = None
  MaxInputs = 4
  HasOutput = TRUE
SPECIFICATION ThreadsSpec
INVARIANTS
  TypeOK
  StateMachineSafe
  QueueTypeOK
  GetIsSafe
  AsyncTypeOK
  ExactlyOneOutput
  SuspendIsSafe
PROPERTIES
  LifecycleSafety
  Served
  FifoSafety
  AnswersInTime
  InputsServed
