\* The House's line of 5 has no room for both holds, but has for one hold and the other's
\* settled cost; the funded total of 4 refuses the second at the gateway.  A handler may
\* settle after its hold was swept.
SPECIFICATION FairSpec
CONSTANTS
    c1 = c1
    c2 = c2
    Calls = {c1, c2}
    Worst <- MCWorst
    Hold0 <- MCHold
    Costs <- MCCosts
    Funded = 4
    StaleHold = 2
    RecentRequests = 2
    Deadline = 3
    Horizon = 5
    UsdCap = 5
    MinAge = 0
    AbsentAfter = 2
    Delivery = 1
    AdmitBy = 1
INVARIANTS
    HouseTypeOK
    MeterAddsUp
    WithinFunded
    BooksAgree
    HouseCovers
    WithinUsdCap
PROPERTIES
    FilingsEnd
CHECK_DEADLOCK FALSE
