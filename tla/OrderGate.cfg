\* Four orders over two days while the account moves, reads fail, answers come late and the
\* kill switch is thrown.
SPECIFICATION MCSpec
CONSTANTS
    Requests = {r1, r2, r3, r4}
    Orders <- MCOrders
    Equities <- TwoEquities
    MaxDayOrders = 3
    MaxDayOpenOrders = 2
    KalshiOrderCap = 2
    KalshiDayCap = 3
    OrderLimit = 2
    OrderShare = 50
    DayLimit = 3
    DayShare = 100
    CreditMin = 3
    DayLength = 1
    MaxAge = 0
    Horizon = 1
    MaxSwitches = 2
SYMMETRY Symmetry
INVARIANTS TypeOK DayIsTheSum SizedByRecentEquity OpensWithinDay LogClearsReservations
PROPERTIES ExitsKeepRoom
CHECK_DEADLOCK FALSE
