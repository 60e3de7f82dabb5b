\* Three sales of one share each, of two held; orders may arrive, rest and fill late.
SPECIFICATION Spec
CONSTANTS
    a = a
    b = b
    c = c
    SPY = SPY
    Orders = {a, b, c}
    Size <- SizeThree
    Unnamed = {}
    Shares = 2
    SymbolOf <- OneStock
    NoClient = NoClient
    Pending = 1
    Hold = 1
    MaxAge = 2
    Horizon = 4
SYMMETRY Symmetry
INVARIANTS NoShortSale
CHECK_DEADLOCK FALSE
CONSTRAINT NoneStale
