----------------------------- MODULE StockOrders -----------------------------
(***************************************************************************)
(* What every real stock order goes through: its handler in the router     *)
(* (gateway/lib/router.mjs: realOrder, stockBuyReads, heldStatuses and the *)
(* order route of handle) around the gate's ledger, and the venue it goes  *)
(* to.  StockCloses and StockBuys add how each kind, "close" or "buy", is  *)
(* judged.                                                                 *)
(*                                                                         *)
(* A handler reads the venue's open orders, then its positions (a buy also *)
(* its account), then the statuses of the orders the gate still holds, and *)
(* asks the gate.  The venue has an order some time after the forward, may *)
(* fill it in parts whenever it likes, and its positions may show a fill   *)
(* later than the order's status does: no bound is put on any of these.    *)
(* What the gate counts on is PastIsShown below: a reading shows every     *)
(* order whose hold has ended.                                             *)
(*                                                                         *)
(* The day's row and the kill switch can refuse a stock order as well;     *)
(* they are OrderGate's, and here a refusal that may meet any request.     *)
(***************************************************************************)
EXTENDS StockLedger

CONSTANTS
    Orders,    \* order requests; each is also its own client_order_id
    Size,      \* the shares or the dollars of each
    SymbolOf,  \* the stock of each
    Unnamed,   \* those that carry no client_order_id
    Horizon    \* bound: the clock stops here

ASSUME StockOrdersAssumption ==
    /\ Size \in [Orders -> Nat \ {0}]
    /\ DOMAIN SymbolOf = Orders
    /\ Unnamed \subseteq Orders /\ NoClient \notin Orders /\ IsFiniteSet(Orders)
    /\ Horizon \in Nat

VARIABLES
    now,       \* the clock
    ledger,    \* the gate's stock ledger
    phase,     \* where each request's handler is
    read,      \* each request's reading: [at, open, seen, power, statuses]; `seen` is
               \* what the positions leave to close, or hold, of each symbol
    venue      \* each order at the venue: [state, filled, shown]

vars == <<now, ledger, phase, read, venue>>

Reads     == {"begun", "orders", "positions", "read", "ready"}
Symbols   == {SymbolOf[o] : o \in Orders}
Client(o) == IF o \in Unnamed THEN NoClient ELSE o
Of(s)     == {o \in Orders : SymbolOf[o] = s}

Filled(S) == MapThenSumSet(LAMBDA o : venue[o].filled, S)
Shown(S)  == MapThenSumSet(LAMBDA o : venue[o].shown, S)
Resting   == [o \in Orders |-> IF venue[o].state = "open" THEN Size[o] - venue[o].filled ELSE 0]
Open(open, S) == MapThenSumSet(LAMBDA o : open[o], S)

NoReading == [at |-> 0, open |-> [o \in Orders |-> 0], seen |-> [s \in Symbols |-> 0],
              power |-> 0, statuses |-> {}]
NoOrder   == [state |-> "none", filled |-> 0, shown |-> 0]
-----------------------------------------------------------------------------
Init ==
    /\ now = 0
    /\ ledger = {}
    /\ phase = [o \in Orders |-> "new"]
    /\ read = [o \in Orders |-> NoReading]
    /\ venue = [o \in Orders |-> NoOrder]

Moves(o, from, to) == phase[o] = from /\ phase' = [phase EXCEPT ![o] = to]

(* The reading begins, and the open orders come first. *)
BeginRead(o) ==
    /\ Moves(o, "new", "begun")
    /\ read' = [read EXCEPT ![o].at = now]
    /\ UNCHANGED <<now, ledger, venue>>

ReadOrders(o) ==
    /\ Moves(o, "begun", "orders")
    /\ read' = [read EXCEPT ![o].open = Resting]
    /\ UNCHANGED <<now, ledger, venue>>

(* A read that fails refuses the order. *)
ReadFails(o) ==
    /\ phase[o] \in {"begun", "orders", "positions"}
    /\ phase' = [phase EXCEPT ![o] = "refused"]
    /\ read' = [read EXCEPT ![o] = NoReading]
    /\ UNCHANGED <<now, ledger, venue>>

(* heldStatuses: the orders the gate holds and the open orders did not list *)
(* are read by client_order_id; any of those reads may fail.                *)
StatusOf(o) ==
    [client |-> Client(o), symbol |-> SymbolOf[o], filled |-> venue[o].filled,
     status |-> venue[o].state]

ReadStatuses(o, kind) ==
    LET asked  == {e.id : e \in Asked(Pruned(ledger, read[o].at), kind, read[o].at)}
        wanted == {d \in asked : /\ kind = "buy" \/ SymbolOf[d] = SymbolOf[o]
                                 /\ read[o].open[d] = 0
                                 /\ venue[d].state \notin {"none", "transit"}}
    IN  \E answered \in SUBSET wanted :
           /\ Moves(o, "read", "ready")
           /\ read' = [read EXCEPT ![o].statuses = {StatusOf(d) : d \in answered}]
           /\ UNCHANGED <<now, ledger, venue>>

(* What the gate does with a reading: it must be fresh, and what it teaches *)
(* is kept even when the order is refused.                                  *)
Fresh(o)       == now - read[o].at <= MaxAge
Known(o, kind) == Learned(Pruned(ledger, now), read[o].statuses, kind)

Admit(o, kind, free) ==
    /\ Moves(o, "ready", "reserved")
    /\ ledger' = Known(o, kind) \cup
           {[id |-> o, nth |-> NextNth(Known(o, kind)), at |-> now, kind |-> kind,
             symbol |-> SymbolOf[o], client |-> Client(o), amount |-> Size[o],
             settled |-> NoTime, final |-> "none", free |-> free]}
    /\ read' = [read EXCEPT ![o] = NoReading]
    /\ UNCHANGED <<now, venue>>

(* The kill switch or too old a reading, before the ledger is read; a cap   *)
(* or the day's row, after.                                                 *)
Refuse(o, kind) ==
    /\ Moves(o, "ready", "refused")
    /\ \/ ledger' = ledger
       \/ Fresh(o) /\ ledger' = Known(o, kind)
    /\ read' = [read EXCEPT ![o] = NoReading]
    /\ UNCHANGED <<now, venue>>

(* The signature failed: gate.refund takes the entry out of the ledger. *)
Refund(o) ==
    /\ Moves(o, "reserved", "refunded")
    /\ ledger' = Without(Pruned(ledger, now), o)
    /\ UNCHANGED <<now, read, venue>>

Forward(o) ==
    /\ Moves(o, "reserved", "sent")
    /\ venue' = [venue EXCEPT ![o].state = "transit"]
    /\ UNCHANGED <<now, ledger, read>>

(* The venue's answer reaches the router: gate.stockSettle, a definite      *)
(* refusal when the order was rejected at its submit.  A rejection may also *)
(* come as a 5xx, which says nothing.                                       *)
Answer(o) ==
    /\ Moves(o, "sent", "answered")
    /\ venue[o].state \notin {"none", "transit"}
    /\ \E refused \in {venue[o].state = "rejected", FALSE} :
          ledger' = Settled(Pruned(ledger, now), o, now, refused)
    /\ UNCHANGED <<now, read, venue>>

(* No answer in time: nothing is settled, the reservation stays. *)
NoAnswer(o) ==
    /\ Moves(o, "sent", "unanswered")
    /\ UNCHANGED <<now, ledger, read, venue>>
-----------------------------------------------------------------------------
(* The venue. *)
Accept(o) ==
    /\ venue[o].state = "transit"
    /\ venue' = [venue EXCEPT ![o].state = "open"]
    /\ UNCHANGED <<now, ledger, phase, read>>

(* Refused by the venue, or the forward never arrived. *)
Reject(o) ==
    /\ venue[o].state = "transit"
    /\ venue' = [venue EXCEPT ![o].state = "rejected"]
    /\ UNCHANGED <<now, ledger, phase, read>>

Fill(o) ==
    /\ venue[o].state = "open"
    /\ \E n \in 1..Resting[o] :
          venue' = [venue EXCEPT
              ![o].filled = @ + n,
              ![o].state  = IF n = Resting[o] THEN "filled" ELSE @]
    /\ UNCHANGED <<now, ledger, phase, read>>

(* The House cancels, or the day ends. *)
Cancel(o) ==
    /\ venue[o].state = "open"
    /\ venue' = [venue EXCEPT ![o].state = "canceled"]
    /\ UNCHANGED <<now, ledger, phase, read>>

(* The positions and the account show the order's fills. *)
Show(o) ==
    /\ venue[o].shown < venue[o].filled
    /\ venue' = [venue EXCEPT ![o].shown = venue[o].filled]
    /\ UNCHANGED <<now, ledger, phase, read>>

(* A forward is signed and gives up well within Pending (the router's fetch *)
(* times out in 30 s of STOCK_PENDING_MS's 60); nothing else holds time.    *)
Tick ==
    /\ now < Horizon
    /\ \A e \in ledger : phase[e.id] \in {"reserved", "sent"} => now < e.at + Pending
    /\ now' = now + 1
    /\ UNCHANGED <<ledger, phase, read, venue>>

Handler(o, kind) ==
    \/ BeginRead(o) \/ ReadOrders(o) \/ ReadFails(o) \/ ReadStatuses(o, kind) \/ Refuse(o, kind)
    \/ Forward(o) \/ Answer(o) \/ NoAnswer(o)

Exchange(o) == Accept(o) \/ Reject(o) \/ Fill(o) \/ Cancel(o) \/ Show(o)
-----------------------------------------------------------------------------
(* An order admitted and not given back, and all it may ever have filled.   *)
Standing(o) == phase[o] \in {"reserved", "sent", "answered", "unanswered"}

Commit ==
    [o \in Orders |-> IF ~Standing(o) THEN 0
                      ELSE IF venue[o].state \in Done THEN venue[o].filled ELSE Size[o]]

(* The orders the gate does not count against q's reading: their hold ended *)
(* before it began.                                                         *)
Past(q) == {o \in Orders : Standing(o) /\ \A e \in ledger : e.id = o => ~HeldFor(e, read[q].at)}

(* What the hold is for (STOCK_LEDGER_HOLD_MS, "the venue's account and     *)
(* positions can lag"): once it is over, a reading shows the whole order,   *)
(* as open when the open orders were read or as filled in the positions.    *)
(* The order may rest and fill for as long as it likes after that.          *)
ShowsPast(q) == \A o \in Past(q) : Commit[o] <= venue[o].shown + read[q].open[o]

PastIsShown ==
    \A q \in Orders :
        phase[q] = "orders" /\ phase'[q] \in {"positions", "read"} => ShowsPast(q)
=============================================================================
