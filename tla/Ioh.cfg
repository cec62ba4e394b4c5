SPECIFICATION LiveSpec
CONSTANTS
  Buf = {b1, b2}
  None = None
  BufLen = 2
  QueueMax = 3
  WriteAll = TRUE
  Calls <- AllCalls
  CloseTwice = FALSE
  Budget = 3
  MaxReads = 2
  MaxThrottle = 2
INVARIANTS WireInOrder ToldOnce NothingStuck ThrottleTrue NoWildPointer
PROPERTIES Drains CloseHappens
CHECK_DEADLOCK FALSE
