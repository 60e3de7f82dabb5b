\* A reading lasts two ticks, so a caller may hold the room of one reading while another
\* thread takes the next.
SPECIFICATION AdmitSpec
CONSTANTS
    c1 = c1
    c2 = c2
    Calls = {c1, c2}
    Worst <- MCWorst
    Hold0 <- MCHold
    Costs <- MCCosts
    Funded = 5
    StaleHold = 9
    RecentRequests = 2
    Deadline = 9
    Horizon = 4
    UsdCap = 9
    MinAge = 6
    AbsentAfter = 18
    Delivery = 1
    AdmitBy = 3
    ReserveUsd = 1
    Ttl = 2
    Margin = 1
INVARIANTS
    ReserveKept
CHECK_DEADLOCK FALSE
