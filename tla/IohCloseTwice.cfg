\* Small handle: the callback of a write closes the ioh again.
SPECIFICATION Spec
CONSTANTS
  Buf = {b1}
  None = None
  BufLen = 1
  QueueMax = 0
  WriteAll = FALSE
  Calls <- CloseCalls
  CloseTwice = TRUE
  Budget = 2
  MaxReads = 0
  MaxThrottle = 0
INVARIANT NothingStuck
CHECK_DEADLOCK FALSE
