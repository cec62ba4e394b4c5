\* What is due, ready or raised is served.
SPECIFICATION LiveSpec
CONSTANTS
  MaxFd = 1
  Type = {read}
  Event = {e1}
  Poll = {}
  Idle = {}
  Demand = {}
  MaxSig = 1
  Calls <- LiveCalls
  Budget = 3
  MaxStack = 5
  AllowDead = FALSE
PROPERTIES EventRuns FdServed RaisedServed
CHECK_DEADLOCK FALSE
