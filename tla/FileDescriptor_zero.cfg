CONSTANTS
  t1 = t1
  t2 = t2
  oA = oA
  oB = oB
  fA = fA
  Nil = Nil
  Threads = {t1}
  Objects = {oA}
  ReadChunkSize = 2
  ReadSizes <- OneByte
  MovePairs <- NoMoves
  WriteLen = 1
  MaxBytes <- ThreeBytes
  Fds = {fA}
  InitFd <- OneFdOnly
  CallBound = 2
  Errors = FALSE
  Timeouts = {"zero", "finite", "infinite"}
SPECIFICATION FairFdSpec
PROPERTY ZeroReturnsAtOnce
CHECK_DEADLOCK FALSE
