SPECIFICATION SessionFairSpec
CONSTANTS
  k1 = k1
  k2 = k2
  Connections <- BothClients
  maxConCount = 1
  MaxRequests <- TwoAndNone
INVARIANTS SessionTypeOK SessionsAgree NonceOnce
PROPERTIES StopsUnlessKilled
CHECK_DEADLOCK FALSE
