CONSTANTS
  t1 = t1
  t2 = t2
  oA = oA
  oB = oB
  fA = fA
  Nil = Nil
  Threads = {t1, t2}
  Objects = {oA, oB}
  ReadChunkSize = 2
  ReadSizes <- SomeSizes
  MovePairs <- MoveAB
  WriteLen = 2
  MaxBytes <- ThreeBytes
  Fds = {fA}
  InitFd <- OneFd
  CallBound = 2
  Errors = TRUE
  Timeouts = {"zero", "finite", "infinite"}
  Files <- MCFiles
  Dics <- MCDics
  StrLists <- MCStrLists
  Langs <- MCLangs
  Requests <- MCRequests
  Unreadable <- MCUnreadable
  MaxCalls = 1
  LocalNames <- MCNames
  JsonValues <- MCValues
SPECIFICATION FilesSpec
INVARIANTS
  FdTypeOK
  OneOwner
  DataKeptTogether
  StoreTypeOK
  ParsedAsWritten
  
PROPERTIES
  StaysUsable
  GetReturns
CHECK_DEADLOCK FALSE
