SPECIFICATION SafetySpec
CONSTANTS
  MaxFd = 1
  Type = {read}
  Event = {e1}
  Poll = {p1}
  Idle = {i1}
  Demand = {d1}
  MaxSig = 0
  Calls <- SafetyCalls
  Budget = 3
  MaxStack = 5
  AllowDead = FALSE
INVARIANTS SleepsOnlyWithNothingToDo SelectMatchesRegistry 
PROPERTIES NoDeadState NonePassedOver
ACTION_CONSTRAINT Rest
CHECK_DEADLOCK FALSE
