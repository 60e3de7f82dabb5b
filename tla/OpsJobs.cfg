\* A child hangs for more than one tick, and a failed run waits one; the House stops twice
\* and its pause is switched once.
SPECIFICATION FairSpec
CONSTANTS
    economics = economics
    drills = drills
    Jobs = {economics, drills}
    Rank <- MCRank
    At <- MCAt
    AtStart = {}
    After <- MCAfter
    Retry = {economics}
    InPause = {economics}
    Grace <- MCGrace
    Wall = 0
    RetryAfter = 1
    MaxAttempts = 2
    Horizon = 2
    MaxStops = 1
    MaxPauses = 1
INVARIANTS
    TypeOK
    OneChild
    StartedWithin
    OkIsTrue
PROPERTIES
    FinalStays
    EveryDueSettles
CHECK_DEADLOCK FALSE
