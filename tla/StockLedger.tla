----------------------------- MODULE StockLedger -----------------------------
(***************************************************************************)
(* The gate's in-flight ledger of real stock orders (gateway/lib/gate.mjs: *)
(* stockLedger, stockHeld, stockLearn, stockTake, stockSettle, stockAsk,   *)
(* and what reserveStockClose and reserveStock compute from it).  An entry *)
(* is an order the gate admitted; it counts against the venue's own        *)
(* readings until it is known that they show it.  No variables here.       *)
(*                                                                         *)
(* The ledger is a set of entries [id, nth, at, kind, symbol, client,      *)
(* amount, settled, final, free]: `nth` is the order they were admitted in,*)
(* `amount` the shares of a close or the dollars of a buy, `settled` when  *)
(* the venue answered its submit (NoTime while it has not), `final` a      *)
(* definite answer or "none", `free` what a close found free.  Every close *)
(* carries `free`: one written before the gate kept it, which it refuses   *)
(* over, was held for minutes after that release and never again.          *)
(***************************************************************************)
EXTENDS Integers, FiniteSetsExt

CONSTANTS
    Pending,   \* STOCK_PENDING_MS: an unanswered order counts as answered then
    Hold,      \* STOCK_LEDGER_HOLD_MS: how long an answered order is held
    MaxAge,    \* EQUITY_CAP_MAX_AGE_MS: the oldest reading the gate takes
    NoClient   \* an order that named no client_order_id

ASSUME StockLedgerAssumption == {Pending, Hold, MaxAge} \subseteq Nat

NoTime == -1
Done   == {"canceled", "expired", "rejected"}

(* When an entry's hold starts. *)
Answered(e) == IF e.settled = NoTime THEN e.at + Pending ELSE e.settled

(* Whether an entry counts against a reading begun at readAt. *)
HeldFor(e, readAt) == Answered(e) >= readAt - Hold

(* The ledger as read at `at`: without what no reading can count any more. *)
Pruned(ledger, at) == {e \in ledger : Answered(e) + Hold + MaxAge >= at}

(* The next entry's number. *)
NextNth(ledger) == 1 + Max({e.nth : e \in ledger} \cup {0})

(* What the entry learns from the statuses read: a done order counts what   *)
(* it filled and no more, a filled one is marked and kept whole.            *)
(* In LearnedEntryOpen, a defect the runs must find, an open order too      *)
(* counts only what it has filled so far.                                   *)
LearnedEntryOpen(e, statuses, kind) ==
    LET rows == {s \in statuses : s.client = e.client /\ s.symbol = e.symbol}
    IN  IF e.kind # kind \/ e.final # "none" \/ rows = {} THEN e
        ELSE LET s == CHOOSE s \in rows : TRUE
             IN  [e EXCEPT !.amount = IF s.filled < @ THEN s.filled ELSE @]

LearnedEntry(e, statuses, kind) ==
    LET rows == {s \in statuses : /\ s.client = e.client /\ s.symbol = e.symbol
                                  /\ s.status \in Done \cup {"filled"}}
    IN  IF e.kind # kind \/ e.client = NoClient \/ e.final # "none" \/ rows = {} THEN e
        ELSE LET s == CHOOSE s \in rows : TRUE
             IN  [e EXCEPT !.final = s.status,
                           !.amount = IF s.status # "filled" /\ s.filled < @ THEN s.filled ELSE @]

Learned(ledger, statuses, kind) == {LearnedEntry(e, statuses, kind) : e \in ledger}

(* The ledger without an order that never reached the venue. *)
Without(ledger, id) == {e \in ledger : e.id # id}

(* The submit of order `id` was answered; a definite refusal placed nothing. *)
SettledEntry(e, id, at, refused) ==
    IF e.id # id \/ e.settled # NoTime THEN e
    ELSE IF refused /\ e.final = "none"
         THEN [e EXCEPT !.settled = at, !.final = "refused", !.amount = 0]
         ELSE [e EXCEPT !.settled = at]

Settled(ledger, id, at, refused) == {SettledEntry(e, id, at, refused) : e \in ledger}

(* The held orders whose status is worth asking for. *)
Asked(ledger, kind, at) ==
    {e \in ledger : /\ e.kind = kind /\ e.client # NoClient
                    /\ e.final = "none" /\ HeldFor(e, at)}

AmountOf(entries) == MapThenSumSet(LAMBDA e : e.amount, entries)

Higher(a, b) == IF a > b THEN a ELSE b
Short(a, b)  == IF a > b THEN a - b ELSE 0

(* What is left to close of the shares a reading leaves `available`: from   *)
(* the oldest close still held on, the larger of what the closes ask and of *)
(* how far what is free has fallen since.                                   *)
Mine(ledger, symbol) == {e \in ledger : e.kind = "close" /\ e.symbol = symbol}

Left(ledger, symbol, readAt, available) ==
    LET mine == Mine(ledger, symbol)
        held == {e \in mine : HeldFor(e, readAt)}
    IN  IF held = {} THEN available
        ELSE LET first == CHOOSE e \in held : \A d \in held : e.nth <= d.nth
                 asked == AmountOf({e \in mine : e.nth >= first.nth})
             IN  Short(first.free, Higher(asked, Short(first.free, available)))
=============================================================================
