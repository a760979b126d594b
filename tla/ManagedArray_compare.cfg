SPECIFICATION ArraySpec
CONSTANTS
  Arrays = {a1, a2, a3}
  Elements = {0, 1}
  Buffers = {buf}
  MaxSize = 2
  MaxBlock = 3
  Gone = Gone
  Borrowed = Borrowed
SYMMETRY Interchangeable
INVARIANTS EachHasOneOwner
