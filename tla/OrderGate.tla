------------------------------ MODULE OrderGate ------------------------------
(***************************************************************************)
(* Option and Kalshi orders through the gateway: the router's handler for  *)
(* an order-creating call (gateway/lib/router.mjs) and the Gate object's   *)
(* methods it calls (gateway/lib/gate.mjs).  Every Gate method is one      *)
(* atomic step; between two of its awaits a request's handler interleaves  *)
(* with every other request, with the kill switch and with the calendar.   *)
(*                                                                         *)
(* A request: an opening order of the real account is first sized (the     *)
(* stored equity reading, or a new read recorded in the gate), then every  *)
(* order is reserved, signed, and forwarded.  A signature that fails gives *)
(* the reservation back; once forwarded, an order keeps it whatever the    *)
(* venue answers, or if no answer comes.                                   *)
(*                                                                         *)
(* Time is a count of ticks shared by the workers and the gate; a New York *)
(* day is DayLength ticks.  Real stock orders are in StockOrders.          *)
(***************************************************************************)
EXTENDS GateDay, Sequences, FiniteSetsExt

CONSTANTS
    Requests,     \* order-creating calls, each the handler of one request
    Orders,       \* the orders a request may carry
    Equities,     \* what the real account's equity may be
    DayLength,    \* ticks of one New York day
    MaxAge,       \* EQUITY_CAP_MAX_AGE_MS, in ticks
    Horizon,      \* bound: the clock stops here
    MaxSwitches   \* bound: how often the kill switch is thrown

ASSUME OrderGateAssumption ==
    /\ IsFiniteSet(Requests)
    /\ \A o \in Orders : /\ o.venue \in {"alpaca", "kalshi"}
                         /\ {o.exit, o.credit} \subseteq BOOLEAN
                         /\ o.amount \in Nat \ {0}
    /\ Equities \subseteq Int /\ Equities # {}
    /\ {DayLength, MaxAge, Horizon, MaxSwitches} \subseteq Nat /\ DayLength > 0

VARIABLES
    now,        \* the clock
    killed,     \* the kill switch
    adminLog,   \* the switch's entries in the admin log, oldest first
    row,        \* the day row as stored
    reading,    \* the stored equity reading: [at, equities], no equity if the read failed
    account,    \* the real account's equity at the venue, tick by tick until now
    order,      \* the order each request carries
    phase,      \* where each request's handler is
    fetchAt,    \* when the request's own read of the account began
    basis       \* the reservation: its day, its tick, the equity that sized it, and
                \* how many entries the admin log had

vars == <<now, killed, adminLog, row, reading, account, order, phase, fetchAt, basis>>

Phases == {"sizing", "fetching", "priced", "reserved", "refused", "refunded", "sent"}

Today == now \div DayLength

(* account.freshEquity: the equity of a reading the caps may use now. *)
FreshEquity(r) == IF now - r.at <= MaxAge THEN r.equities ELSE {}

NeedsEquity(o) == o.venue = "alpaca" /\ ~o.exit

(* realOrder: an open is sized first; an exit and a Kalshi order are not. *)
FirstPhase(o) == IF NeedsEquity(o) THEN "sizing" ELSE "priced"
-----------------------------------------------------------------------------
Init ==
    /\ now = 0
    /\ killed = FALSE
    /\ adminLog = <<>>
    /\ row = EmptyRow(0)
    /\ reading = [at |-> 0, equities |-> {}]
    /\ account \in [0..0 -> Equities]
    /\ order \in [Requests -> Orders]
    /\ phase = [r \in Requests |-> FirstPhase(order[r])]
    /\ fetchAt = [r \in Requests |-> 0]
    /\ basis = [r \in Requests |-> [day |-> 0, at |-> 0, sized |-> {}, logged |-> 0]]

Moves(r, from, to) == phase[r] = from /\ phase' = [phase EXCEPT ![r] = to]

(* refreshAccountEquity: the stored reading while it is young enough. *)
UseStored(r) ==
    /\ FreshEquity(reading) # {}
    /\ Moves(r, "sizing", "priced")
    /\ UNCHANGED <<now, killed, adminLog, row, reading, account, order, fetchAt, basis>>

(* Otherwise, or when the gate does not say what it has stored, the account *)
(* is read again; the reading is stamped with when its read began.          *)
StartFetch(r) ==
    /\ Moves(r, "sizing", "fetching")
    /\ fetchAt' = [fetchAt EXCEPT ![r] = now]
    /\ UNCHANGED <<now, killed, adminLog, row, reading, account, order, basis>>

(* A defect the runs must find: the reading is stamped when it arrives. *)
EndFetchStampedLate(r, ok, recorded) ==
    \E t \in fetchAt[r]..now :
       /\ Moves(r, "fetching", IF ok THEN "priced" ELSE "refused")
       /\ reading' = [at |-> now, equities |-> IF ok THEN {account[t]} ELSE {}]
       /\ UNCHANGED <<now, killed, adminLog, row, account, order, fetchAt, basis>>

(* The venue answers with an equity the account had during the read, or the *)
(* read fails.  What was found is recorded over whatever is stored, unless  *)
(* recording it throws, and is judged once more either way.                 *)
EndFetch(r, ok, recorded) ==
    \E t \in fetchAt[r]..now :
       LET found == [at |-> fetchAt[r], equities |-> IF ok THEN {account[t]} ELSE {}]
       IN  /\ Moves(r, "fetching", IF FreshEquity(found) # {} THEN "priced" ELSE "refused")
           /\ reading' = IF recorded THEN found ELSE reading
           /\ UNCHANGED <<now, killed, adminLog, row, account, order, fetchAt, basis>>

Admits(r, today) ==
    /\ ~killed
    /\ IF order[r].venue = "alpaca"
       THEN RealAdmits(today, order[r], FreshEquity(reading))
       ELSE KalshiAdmits(today, order[r])

(* gate.reserve: the kill switch, then the caps, then the day's row. *)
Reserve(r) ==
    LET today == Counters(row, Today)
        sized == IF NeedsEquity(order[r]) THEN FreshEquity(reading) ELSE {}
    IN  /\ Admits(r, today)
        /\ Moves(r, "priced", "reserved")
        /\ row' = Taken(today, order[r])
        /\ basis' = [basis EXCEPT ![r] = [day |-> Today, at |-> now, sized |-> sized,
                                          logged |-> Len(adminLog)]]
        /\ UNCHANGED <<now, killed, adminLog, reading, account, order, fetchAt>>

Refuse(r) ==
    /\ ~Admits(r, Counters(row, Today))
    /\ Moves(r, "priced", "refused")
    /\ UNCHANGED <<now, killed, adminLog, row, reading, account, order, fetchAt, basis>>

(* Defects the runs must find: a reservation given back to whatever day it  *)
(* is, with the floors at zero and without them.                            *)
RefundAnyDay(r) ==
    /\ Moves(r, "reserved", "refunded")
    /\ row' = GivenBack(Counters(row, Today), order[r])
    /\ UNCHANGED <<now, killed, adminLog, reading, account, order, fetchAt, basis>>

RefundBelowZero(r) ==
    /\ Moves(r, "reserved", "refunded")
    /\ row' = [Counters(row, Today) EXCEPT !.orders = @ - 1, !.notional = @ - order[r].amount]
    /\ UNCHANGED <<now, killed, adminLog, reading, account, order, fetchAt, basis>>

(* The signature failed, so no order can exist: gate.refund, which only     *)
(* the day that took the reservation can give back.                         *)
Refund(r) ==
    LET today == Counters(row, Today)
    IN  /\ Moves(r, "reserved", "refunded")
        /\ row' = IF today.day = basis[r].day THEN GivenBack(today, order[r]) ELSE row
        /\ UNCHANGED <<now, killed, adminLog, reading, account, order, fetchAt, basis>>

(* Signed and forwarded.  The kill switch is not read again, and the        *)
(* reservation stays whatever the venue answers, or if it does not.         *)
Forward(r) ==
    /\ Moves(r, "reserved", "sent")
    /\ UNCHANGED <<now, killed, adminLog, row, reading, account, order, fetchAt, basis>>

(* gate.setKill: an engage is never gated by the log (`logs` is whether an  *)
(* entry can be written); a release is.  UnkillUnlogged is a defect the runs *)
(* must find.                                                               *)
Kill(logs) ==
    /\ Len(adminLog) < MaxSwitches
    /\ killed' = TRUE
    /\ adminLog' = IF logs THEN Append(adminLog, "kill") ELSE adminLog
    /\ UNCHANGED <<now, row, reading, account, order, phase, fetchAt, basis>>

UnkillUnlogged(logs) ==
    /\ Len(adminLog) < MaxSwitches
    /\ killed' = FALSE
    /\ adminLog' = IF logs THEN Append(adminLog, "unkill") ELSE adminLog
    /\ UNCHANGED <<now, row, reading, account, order, phase, fetchAt, basis>>

Unkill(logs) ==
    /\ logs
    /\ Len(adminLog) < MaxSwitches
    /\ killed' = FALSE
    /\ adminLog' = Append(adminLog, "unkill")
    /\ UNCHANGED <<now, row, reading, account, order, phase, fetchAt, basis>>

(* A tick passes, and the market has moved the account. *)
Tick(equity) ==
    /\ now < Horizon
    /\ now' = now + 1
    /\ account' = [t \in 0..(now + 1) |-> IF t <= now THEN account[t] ELSE equity]
    /\ UNCHANGED <<killed, adminLog, row, reading, order, phase, fetchAt, basis>>

Handler(r) ==
    \/ UseStored(r) \/ StartFetch(r)
    \/ \E ok, recorded \in BOOLEAN : EndFetch(r, ok, recorded)
    \/ Reserve(r) \/ Refuse(r) \/ Refund(r) \/ Forward(r)

Next ==
    \/ \E r \in Requests : Handler(r)
    \/ \E logs \in BOOLEAN : Kill(logs) \/ Unkill(logs)
    \/ \E equity \in Equities : Tick(equity)

Spec == Init /\ [][Next]_vars
-----------------------------------------------------------------------------
TypeOK ==
    /\ now \in 0..Horizon
    /\ killed \in BOOLEAN
    /\ adminLog \in Seq({"kill", "unkill"})
    /\ row \in [day : Nat, orders : Nat, notional : Nat, alpacaOpen : Nat,
               alpacaNotional : Nat, alpacaStock : Nat]
    /\ reading \in [at : 0..Horizon, equities : SUBSET Equities]
    /\ account \in [0..now -> Equities]
    /\ order \in [Requests -> Orders]
    /\ phase \in [Requests -> Phases]
    /\ fetchAt \in [Requests -> 0..Horizon]
    /\ basis \in [Requests -> [day : Nat, at : 0..Horizon, sized : SUBSET Equities, logged : Nat]]

(* The requests that hold a place of `day`: reserved and not given back. *)
Holding(day) ==
    {r \in Requests : phase[r] \in {"reserved", "sent"} /\ basis[r].day = day}

IsOpen(r) == NeedsEquity(order[r])

(* Today's row is exactly today's reservations that stand, however requests, *)
(* failed signatures and the change of day interleave: nothing is counted   *)
(* twice, lost with a refund, or given back to a day that did not take it.  *)
DayIsTheSum ==
    LET today == Counters(row, Today)
        held  == Holding(Today)
    IN  /\ today.orders = Cardinality(held)
        /\ today.notional = MapThenSumSet(LAMBDA r : order[r].amount, held)
        /\ today.alpacaOpen = MapThenSumSet(LAMBDA r : Opening(order[r]), held)
        /\ today.alpacaNotional = MapThenSumSet(LAMBDA r : AlpacaPart(order[r]), held)

(* Of the orders that hold a place today, those that open on the real       *)
(* account never take the places kept for exits, and lose together at most  *)
(* MAX_DAY_USD_ALPACA; and Kalshi's stay inside MAX_DAY_USD, whatever the   *)
(* real account's orders added to the same row.                             *)
OpensWithinDay ==
    LET opens  == {r \in Holding(Today) : IsOpen(r)}
        kalshi == {r \in Holding(Today) : order[r].venue = "kalshi" /\ ~order[r].exit}
    IN  /\ Cardinality(opens) <= OpenOrdersCap
        /\ MapThenSumSet(LAMBDA r : order[r].amount, opens) <= DayLimit
        /\ MapThenSumSet(LAMBDA r : order[r].amount, kalshi) <= KalshiDayCap

(* Every open that was admitted fits the caps of an equity the account had  *)
(* at most MAX_AGE before: not of a reading stamped younger than it is, and *)
(* not of one another request's late answer wrote over.                     *)
SizedByRecentEquity ==
    \A r \in Requests :
        phase[r] \in {"reserved", "sent"} /\ IsOpen(r) =>
            \E equity \in basis[r].sized :
                /\ \E t \in 0..basis[r].at : basis[r].at - t <= MaxAge /\ account[t] = equity
                /\ order[r].amount <= OrderCap(equity)
                /\ order[r].credit => equity >= CreditMin

(* An exit that the kill switch does not stop is refused only when orders   *)
(* that are not real opens took every place kept for exits.                 *)
ExitsKeepRoom ==
    [][\A r \in Requests :
          /\ order[r].exit /\ ~killed
          /\ phase[r] = "priced" /\ phase'[r] = "refused"
          => Cardinality({q \in Holding(Today) : ~IsOpen(q)}) >= MaxDayOrders - OpenOrdersCap]_vars

(* The admin log tells of every reservation that the switch did not stand:  *)
(* read up to the reservation, its last word of the switch is no engage.    *)
(* An engage that could not be logged leaves a gap in it, but nothing that  *)
(* reads as a reservation made under the switch.                            *)
LogClearsReservations ==
    \A r \in Requests :
        phase[r] \in {"reserved", "sent", "refunded"} /\ basis[r].logged > 0
          => adminLog[basis[r].logged] = "unkill"
=============================================================================
