\* Three buys of two names whose sums pass the caps of one name and of the book; one buy
\* names no client_order_id.
SPECIFICATION BuySpec
CONSTANTS
    a = a
    b = b
    c = c
    SPY = SPY
    Orders = {a, b, c}
    Size <- SizeMixed
    Unnamed = {b}
    QQQ = QQQ
    SymbolCap = 2
    BookCap = 2
    DayCap = 4
    Power = 3
    DayLength = 2
    SymbolOf <- Mixed
    NoClient = NoClient
    Pending = 1
    Hold = 1
    MaxAge = 0
    Horizon = 3
INVARIANTS DayIsTheSum WithinCaps
CHECK_DEADLOCK FALSE
CONSTRAINT NoneStale
