SPECIFICATION DataSpec
CONSTANTS
  n1 = n1
  n2 = n2
  n3 = n3
  n4 = n4
  v1 = v1
  v2 = v2
  Names = {n1, n2, n3, n4}
  Invalid = Invalid
  Values = {v1, v2}
  MaxCols = 3
  MaxRows = 3
  None = None
  Passwords = {p1, p2}
  Secrets = {s1, s2}
  Strengths = {moderate, sensitive}
  MaxRandom = 6
  MaxRecords = 1
  Arrays = {a1, a2}
  Elements = {0, 1}
  Buffers = {buf}
  MaxSize = 2
  MaxBlock = 3
  Gone = Gone
  Borrowed = Borrowed
SYMMETRY Interchangeable
INVARIANTS
  TypeOK
  TableFits
  SecretTypeOK
  SecretKept
  RecordsOpen
  NonceOnce
  ArrayTypeOK
  OneOwner
PROPERTIES
  ErasesNothingElse
  ArraysAreValues
