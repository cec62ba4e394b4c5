SPECIFICATION Spec
INVARIANT ProcsTrue
PROPERTY ProcPromises
CHECK_DEADLOCK FALSE
