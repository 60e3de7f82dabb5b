\* Two handlers run together.
SPECIFICATION Spec
CONSTANTS
    c1 = c1
    c2 = c2
    c3 = c3
    Closes = {c1, c2, c3}
    Size <- MCSize
    Held0 = 2
    CacheFor = 2
    Together = 2
    Horizon = 5
INVARIANTS
    ClosedOnce
CHECK_DEADLOCK FALSE
