SPECIFICATION Spec
INVARIANTS RecordsTrue TextTrue 
CHECK_DEADLOCK FALSE
