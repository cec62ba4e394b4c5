SPECIFICATION LiveSpec
CONSTANTS
    w1 = w1
    w2 = w2
    r1 = r1
    r2 = r2
    p1 = p1
    d = d
    a = a
    b = b
    Writers = {w1, w2}
    Readers = {r1, r2}
    Pollers = {}
    Destroyer = d
    Size = 3
    NULL = NULL
    DEADBEEF = DEADBEEF
    Items = {a, NULL}
    NoLock = {}
    WaitChoices <- Always
    DestroyWaits = TRUE
    MaxPuts = 3
INVARIANTS Fifo SlotsApart NeverBothAsleep
PROPERTIES ImplementsChannel WriteReturns
CHECK_DEADLOCK FALSE
