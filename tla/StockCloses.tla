----------------------------- MODULE StockCloses -----------------------------
(***************************************************************************)
(* Sales of one stock the real account holds long (gateway/lib/router.mjs  *)
(* realOrder, gateway/lib/caps.mjs closeAvailable, gateway/lib/gate.mjs    *)
(* reserveStockClose).  A cover of a short is the same with the sides      *)
(* exchanged; closes of two symbols or two sides never meet in the gate.   *)
(***************************************************************************)
EXTENDS StockOrders

CONSTANT Shares   \* the shares held at first

ASSUME StockClosesAssumption == Shares \in Nat

(* The orders are sales of one stock. *)
OfOneStock == Cardinality(Symbols) <= 1

(* The positions, fresh: the lower of what they leave available, which may  *)
(* net the venue's own open orders or not, and of the position less the     *)
(* open orders read before.  A sale of more than the position has available *)
(* is refused here.                                                         *)
ReadPositions(c) ==
    LET position == Shares - Shown(Orders)
    IN  \E netted \in {0, Open(Resting, Orders)} :
           /\ Moves(c, "orders", IF Size[c] > position - netted THEN "refused" ELSE "read")
           /\ read' = [read EXCEPT ![c].seen[SymbolOf[c]] =
                          Short(position, Higher(netted, Open(read[c].open, Orders)))]
           /\ UNCHANGED <<now, ledger, venue>>

Free(c) == read[c].seen[SymbolOf[c]]

(* gate.reserveStockClose. *)
Reserve(c) ==
    LET left == Left(Known(c, "close"), SymbolOf[c], read[c].at, Free(c))
    IN  /\ Fresh(c)
        /\ Size[c] <= left
        /\ Admit(c, "close", left)

Handle(c) == Handler(c, "close") \/ ReadPositions(c) \/ Reserve(c) \/ Refund(c)

Next == (\E c \in Orders : Handle(c) \/ Exchange(c)) \/ Tick

(* A close is judged before the closes admitted since the oldest one that   *)
(* counts against it may have left the ledger: seconds after its reading,   *)
(* in the router.                                                           *)
JudgedInTime ==
    \A c \in Orders : phase[c] = "ready" /\ phase'[c] = "reserved" =>
        \A e \in Known(c, "close") : HeldFor(e, read[c].at) => now <= e.at + Hold + MaxAge

(* The specification: the code, a venue that shows what is past its hold,   *)
(* and no close judged too late.                                            *)
Spec == Init /\ [][Next /\ PastIsShown /\ JudgedInTime]_vars
-----------------------------------------------------------------------------
(* Nothing sold is ever a short sale: whatever orders fill in whatever      *)
(* order, through however many isolates, the account never sells more than  *)
(* it holds.                                                                *)
NoShortSale == Filled(Orders) <= Shares
=============================================================================
