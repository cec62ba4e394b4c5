SPECIFICATION Spec
CONSTANTS
    w1 = w1
    w2 = w2
    r1 = r1
    r2 = r2
    p1 = p1
    d = d
    a = a
    b = b
    Writers = {w1}
    Readers = {r1}
    Pollers = {p1}
    Destroyer = d
    Size = 3
    NULL = NULL
    DEADBEEF = DEADBEEF
    Items = {a}
    NoLock = {w1}
    WaitChoices <- BothWays
    DestroyWaits = TRUE
    MaxPuts = 3
INVARIANTS DrainedWhenFreed
PROPERTIES LengthExact

CHECK_DEADLOCK FALSE
