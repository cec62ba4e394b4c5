\* Restarts: two writers and two readers, one after the other.
SPECIFICATION Spec
CONSTANTS
  w1 = w1  w2 = w2  r1 = r1  r2 = r2  a1 = a1  s1 = s1  s2 = s2
  None = None
  Writers = {w1, w2}
  Readers = {r1, r2}
  Admins = {}
  Mortal = {w1, r1}
  Seg = {s1, s2}
  Size = 3
  MaxLen = 2
  MaxBytes = 2
  WriteModes <- SomeWriteModes
  ReadModes <- SomeReadModes
  Timeouts = TRUE
  Overlap = FALSE
SYMMETRY SegSyms
INVARIANTS OneReader EndIsTrue
CHECK_DEADLOCK FALSE
