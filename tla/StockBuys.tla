------------------------------ MODULE StockBuys ------------------------------
(***************************************************************************)
(* Stock and ETF buys on the real account (gateway/lib/router.mjs          *)
(* stockBuyReads, gateway/lib/caps.mjs stockExposure, gateway/lib/gate.mjs *)
(* reserveStock), in dollars at each order's limit.  The account's equity, *)
(* and so every cap, stands still; no options are held, so every dollar of *)
(* the book counts once.                                                   *)
(***************************************************************************)
EXTENDS StockOrders

CONSTANTS
    SymbolCap,   \* stockSymbolCapMicro: one name's share of equity
    BookCap,     \* stockTotalCapMicro: the whole book
    DayCap,      \* stockDayCapMicro: the day's buys
    Power,       \* the buying power at first
    DayLength    \* the clock units of one New York day

ASSUME StockBuysAssumption ==
    /\ {SymbolCap, BookCap, DayCap, Power} \subseteq Nat
    /\ DayLength \in Nat \ {0}

VARIABLES
    bought,      \* the stored row: its day and alpacaStock, the buys that day that stand
    days         \* the day each buy's reservation was taken on, as its handler keeps it

buyVars == <<vars, bought, days>>

DayOf(at) == at \div DayLength

(* counters: the row of another day counts for nothing. *)
Today == IF bought.day = DayOf(now) THEN bought ELSE [day |-> DayOf(now), sum |-> 0]

(* Positions, fresh. *)
ReadHoldings(b) ==
    /\ Moves(b, "orders", "positions")
    /\ read' = [read EXCEPT ![b].seen = [s \in Symbols |-> Shown(Of(s))]]
    /\ UNCHANGED <<now, ledger, venue>>

(* The account: the venue's buying power nets its open orders and the fills *)
(* it shows.                                                                *)
ReadAccount(b) ==
    /\ Moves(b, "positions", "read")
    /\ read' = [read EXCEPT ![b].power =
                   Short(Power, Open(Resting, Orders) + Shown(Orders))]
    /\ UNCHANGED <<now, ledger, venue>>

(* What the buys the gate still holds add to a reading, of the symbols S:   *)
(* each net of the open order the reading shows for it by client_order_id.  *)
Flight(b, S) ==
    LET counted == {e \in Known(b, "buy") : HeldFor(e, read[b].at) /\ e.symbol \in S}
        shown(e) == IF e.client = NoClient THEN 0 ELSE read[b].open[e.id]
    IN  MapThenSumSet(LAMBDA e : Short(e.amount, shown(e)), counted)

(* What the account holds and has on order of S, as the gate counts it. *)
Exposure(b, S) ==
    LET listed == {o \in Orders : SymbolOf[o] \in S}
    IN  MapThenSumSet(LAMBDA s : read[b].seen[s], S) + Open(read[b].open, listed) + Flight(b, S)

(* gate.reserveStock. *)
ReserveBuy(b) ==
    /\ Fresh(b)
    /\ Today.sum + Size[b] <= DayCap
    /\ Exposure(b, {SymbolOf[b]}) + Size[b] <= SymbolCap
    /\ Exposure(b, Symbols) + Size[b] <= BookCap
    /\ Flight(b, Symbols) + Size[b] <= read[b].power
    /\ Admit(b, "buy", 0)
    /\ bought' = [Today EXCEPT !.sum = @ + Size[b]]
    /\ days' = [days EXCEPT ![b] = Today.day]

AmountHeld(b, entries) == AmountOf({e \in entries : e.id = b})

(* gate.refund: the entry leaves the ledger whatever the day; what it       *)
(* counts goes back to the day it was taken on, and to no other.            *)
(* In RefundAnyDay, a defect the runs must find, the day is not asked.      *)
GiveBack(sum) == bought' = [Today EXCEPT !.sum = Short(@, sum)]

RefundAnyDay(b) ==
    /\ Refund(b)
    /\ GiveBack(AmountHeld(b, Pruned(ledger, now)))
    /\ UNCHANGED days

RefundBuy(b) ==
    /\ Refund(b)
    /\ IF days[b] = Today.day THEN GiveBack(AmountHeld(b, Pruned(ledger, now)))
       ELSE UNCHANGED bought
    /\ UNCHANGED days

BuyInit == Init /\ bought = [day |-> 0, sum |-> 0] /\ days = [o \in Orders |-> 0]

HandleBuy(b) ==
    \/ (Handler(b, "buy") \/ ReadHoldings(b) \/ ReadAccount(b)) /\ UNCHANGED <<bought, days>>
    \/ ReserveBuy(b) \/ RefundBuy(b)

BuyNext ==
    \/ \E b \in Orders : HandleBuy(b) \/ (Exchange(b) /\ UNCHANGED <<bought, days>>)
    \/ Tick /\ UNCHANGED <<bought, days>>

(* The code, and a venue that shows what is past its hold. *)
BuySpec == BuyInit /\ [][BuyNext /\ PastIsShown]_buyVars
-----------------------------------------------------------------------------
(* The day's row counts every buy the gate admitted that day and the router *)
(* did not give back, once: what a refund takes off is what the entry held, *)
(* and never what another day's entry held.                                 *)
DayIsTheSum ==
    Today.sum = MapThenSumSet(LAMBDA b : Size[b],
                              {b \in Orders : Standing(b) /\ days[b] = Today.day})

(* However the fills, the lagging positions and the answers fall, no name   *)
(* and no book ever grows past its cap.                                     *)
WithinCaps ==
    /\ \A s \in Symbols : Filled(Of(s)) <= SymbolCap
    /\ Filled(Orders) <= BookCap

(* No margin past what the venue offers: the gate admits no buys that       *)
(* together cost more than the buying power there was.                      *)
WithinPower == Filled(Orders) <= Power
=============================================================================
