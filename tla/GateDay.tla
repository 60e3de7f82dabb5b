------------------------------- MODULE GateDay -------------------------------
(***************************************************************************)
(* The gate's row for one New York day and the caps an order is judged by  *)
(* before it is signed (gateway/lib/gate.mjs: counters, reserve,           *)
(* reserveReal, refund; gateway/lib/account.mjs: the caps that follow the  *)
(* account's equity).  There are no variables here: each operator is what  *)
(* one atomic step of the Durable Object computes from the row it read.    *)
(*                                                                         *)
(* Money is in whole units and shares of equity in percent; the code       *)
(* counts micro-dollars and millionths, rounded down in the same places.   *)
(***************************************************************************)
EXTENDS Integers

CONSTANTS
    MaxDayOrders,       \* MAX_DAY_ORDERS: the day's orders, exits included
    MaxDayOpenOrders,   \* MAX_DAY_OPEN_ORDERS: no real order opens past it
    KalshiOrderCap,     \* the tighter of MAX_ORDER_USD and the venue's own
    KalshiDayCap,       \* MAX_DAY_USD
    OrderLimit,         \* MAX_ORDER_MAX_LOSS_USD
    OrderShare,         \* MAX_ORDER_EQUITY_SHARE, percent
    DayLimit,           \* MAX_DAY_USD_ALPACA
    DayShare,           \* MAX_DAY_EQUITY_SHARE, percent
    CreditMin           \* CREDIT_MIN_EQUITY_USD

ASSUME GateDayAssumption ==
    /\ {MaxDayOrders, MaxDayOpenOrders, KalshiOrderCap, KalshiDayCap} \subseteq Nat
    /\ {OrderLimit, OrderShare, DayLimit, DayShare, CreditMin} \subseteq Nat

(* The lower of two caps. *)
Lower(a, b) == IF a < b THEN a ELSE b

(* A share of equity, rounded down; a negative equity is none. *)
OfEquity(equity, share) == IF equity > 0 THEN (equity * share) \div 100 ELSE 0

OrderCap(equity) == Lower(OfEquity(equity, OrderShare), OrderLimit)
DayCap(equity)   == Lower(OfEquity(equity, DayShare), DayLimit)

EmptyRow(day) ==
    [day |-> day, orders |-> 0, notional |-> 0, alpacaOpen |-> 0,
     alpacaNotional |-> 0, alpacaStock |-> 0]

(* The stored row as read on `day`: a row of another day counts for nothing. *)
Counters(row, day) == IF row.day = day THEN row ELSE EmptyRow(day)

OpenOrdersCap == Lower(MaxDayOpenOrders, MaxDayOrders)

(* What MAX_DAY_USD has counted: everything but the real Alpaca venue's. *)
KalshiNotional(row) ==
    IF row.notional > row.alpacaNotional THEN row.notional - row.alpacaNotional ELSE 0

(* The last places of the day are kept for exits.  With no place set aside *)
(* the whole day's count is the only bound.  OpenPlacesGoneLate is a defect *)
(* the runs must find: the opens stop one place too late.                  *)
OpenPlacesGoneLate(row) == row.orders > OpenOrdersCap /\ OpenOrdersCap < MaxDayOrders
OpenPlacesGone(row) == row.orders >= OpenOrdersCap /\ OpenOrdersCap < MaxDayOrders

(* An order is [venue, exit, credit, amount]; `equities` holds the fresh    *)
(* reading of the account's equity, or nothing when there is none.          *)
(* A defect the runs must find: the day's openings are not added up.        *)
RealAdmitsAlone(row, o, equities) ==
    /\ row.orders + 1 <= MaxDayOrders
    /\ o.exit \/ (~OpenPlacesGone(row) /\ \E equity \in equities :
                                 o.amount <= OrderCap(equity) /\ o.amount <= DayCap(equity))

RealAdmits(row, o, equities) ==
    /\ row.orders + 1 <= MaxDayOrders
    /\ \/ o.exit
       \/ /\ ~OpenPlacesGone(row)
          /\ \E equity \in equities :
                /\ o.credit => equity >= CreditMin
                /\ o.amount <= OrderCap(equity)
                /\ row.alpacaOpen + o.amount <= DayCap(equity)

KalshiAdmits(row, o) ==
    /\ row.orders + 1 <= MaxDayOrders
    /\ \/ o.exit
       \/ /\ o.amount <= KalshiOrderCap
          /\ KalshiNotional(row) + o.amount <= KalshiDayCap

(* What the order adds to the day's opening maximum loss on the real venue. *)
Opening(o) == IF o.venue = "alpaca" /\ ~o.exit THEN o.amount ELSE 0
AlpacaPart(o) == IF o.venue = "alpaca" THEN o.amount ELSE 0

(* The row once the order's place and money are taken. *)
Taken(row, o) ==
    [row EXCEPT !.orders = @ + 1, !.notional = @ + o.amount,
                !.alpacaOpen = @ + Opening(o), !.alpacaNotional = @ + AlpacaPart(o)]

Less(a, b) == IF a > b THEN a - b ELSE 0

(* The row once a reservation that never left the gateway is given back. *)
GivenBack(row, o) ==
    [row EXCEPT !.orders = Less(@, 1), !.notional = Less(@, o.amount),
                !.alpacaOpen = Less(@, Opening(o)),
                !.alpacaNotional = Less(@, AlpacaPart(o))]
=============================================================================
