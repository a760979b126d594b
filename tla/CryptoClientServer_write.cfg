SPECIFICATION SessionSpec
CONSTANTS
  k1 = k1
  k2 = k2
  Connections <- BothClients
  maxConCount = 1
  MaxRequests <- TwoAndNone
INVARIANT FailedWriteEndsItsWorker
CHECK_DEADLOCK FALSE
