\* A failed run that the House no longer looks at when its backoff is over.
SPECIFICATION Spec
CONSTANTS
    economics = economics
    drills = drills
    Jobs = {economics, drills}
    Rank <- MCRank
    At <- MCAt
    AtStart = {}
    After <- MCAfter
    Retry = {economics}
    InPause = {economics}
    Grace <- MCGrace
    Wall = 0
    RetryAfter = 1
    MaxAttempts = 2
    Horizon = 2
    MaxStops = 1
    MaxPauses = 1
INVARIANTS LookedAtAgain
CHECK_DEADLOCK FALSE
