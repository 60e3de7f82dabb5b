\* Transit is one minute, and patience outlasts it.  The count is tight enough to refuse
\* the open once a close is sent, and a program's second close after a cancel.
SPECIFICATION Spec
CONSTANTS
    o1 = o1
    o2 = o2
    c1 = c1
    c2 = c2
    ka = ka
    kb = kb
    Opens = {o1, o2}
    Closes = {c1, c2}
    Structure <- MCStructure
    Size <- MCSize
    Target <- MCTarget
    MaxOrdersDay = 8
    ForcedRoom = 1
    MaxAttempts = 3
    LostAfter = 1
    Transit = 1
    Horizon = 2
    MaxCrashes = 1
    MaxCancels = 2
INVARIANTS
    TypeOK
    BookedOnce
    CountCovers
    OneStream
    NoOverClose
    OneSide
CHECK_DEADLOCK FALSE
SYMMETRY Alike
