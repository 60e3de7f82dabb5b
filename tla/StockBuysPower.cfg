\* The account lends less than the book cap: a buy fills between the two reads.
SPECIFICATION BuySpec
CONSTANTS
    a = a
    b = b
    c = c
    SPY = SPY
    Orders = {a, b}
    Size <- SizeTwo
    Unnamed = {}
    QQQ = QQQ
    SymbolCap = 2
    BookCap = 3
    DayCap = 3
    Power = 2
    DayLength = 2
    SymbolOf <- TwoStocks
    NoClient = NoClient
    Pending = 1
    Hold = 2
    MaxAge = 1
    Horizon = 6
INVARIANT WithinPower
CHECK_DEADLOCK FALSE
