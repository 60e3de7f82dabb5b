\* One fault: a process that dies, a restart out of turn, one that fails, or a launch beside
\* another process.
SPECIFICATION FairSpec
CONSTANTS
    None = None
    First = First
    Before = Before
    Heads = {a}
    Owned = {First}
    Drills = {d}
    Keep = 3
    Hours = 1
    MaxOwned = 2
    MaxFaults = 1
    Horizon = 2
INVARIANTS TypeOK LinksStand
PROPERTIES KeepsWayBack NoReturn TrainKept DrillCostsNothing DrillEnds
CHECK_DEADLOCK FALSE
