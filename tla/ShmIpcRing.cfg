\* A writer, a reader and shmadm, all flags: the ring and its end.
SPECIFICATION LiveSpec
CONSTANTS
  w1 = w1  w2 = w2  r1 = r1  r2 = r2  a1 = a1  s1 = s1  s2 = s2
  None = None
  Writers = {w1}
  Readers = {r1}
  Admins = {a1}
  Mortal = {w1, r1}
  Seg = {s1}
  Size = 3
  MaxLen = 2
  MaxBytes = 4
  WriteModes <- AllWriteModes
  ReadModes <- AllReadModes
  Timeouts = TRUE
  Overlap = FALSE
PROPERTIES ImplementsChannel EndIsSeen
CHECK_DEADLOCK FALSE
