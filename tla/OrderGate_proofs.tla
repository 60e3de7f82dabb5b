-------------------------- MODULE OrderGate_proofs --------------------------
(***************************************************************************)
(* Proofs about OrderGate, for every set of requests, orders and equities  *)
(* and every value of the caps.                                            *)
(***************************************************************************)
EXTENDS OrderGate, Totals

USE DEF Phases, Moves

(* What the day row's operators return is again a day row: the type half of *)
(* counters, reserve and refund.                                            *)
RowType == [day : Nat, orders : Nat, notional : Nat, alpacaOpen : Nat,
            alpacaNotional : Nat, alpacaStock : Nat]

\* What the day row's operators return is a row of the day they are for.
LEMMA RowsStayRows ==
    ASSUME NEW w \in RowType, NEW d \in Nat, NEW o \in Orders
    PROVE  /\ Counters(w, d) \in RowType
           /\ Counters(w, d).day = d
           /\ Taken(w, o) \in RowType /\ Taken(w, o).day = w.day
           /\ GivenBack(w, o) \in RowType /\ GivenBack(w, o).day = w.day
<1>1. o.amount \in Nat
  BY OrderGateAssumption
<1>2. Opening(o) \in Nat /\ AlpacaPart(o) \in Nat
  BY <1>1 DEF Opening, AlpacaPart
<1>2a. \A a, b \in Nat : Less(a, b) \in Nat
  BY DEF Less
<1>3. Counters(w, d) \in RowType /\ Counters(w, d).day = d
  BY DEF RowType, Counters, EmptyRow
<1>4. Taken(w, o) \in RowType /\ Taken(w, o).day = w.day
  <2>1. /\ w.orders + 1 \in Nat /\ w.notional + o.amount \in Nat
        /\ w.alpacaOpen + Opening(o) \in Nat
        /\ w.alpacaNotional + AlpacaPart(o) \in Nat
    BY <1>1, <1>2 DEF RowType
  <2> QED
    BY <2>1 DEF RowType, Taken
<1>5. GivenBack(w, o) \in RowType /\ GivenBack(w, o).day = w.day
  <2>1. /\ Less(w.orders, 1) \in Nat /\ Less(w.notional, o.amount) \in Nat
        /\ Less(w.alpacaOpen, Opening(o)) \in Nat
        /\ Less(w.alpacaNotional, AlpacaPart(o)) \in Nat
    BY <1>1, <1>2, <1>2a DEF RowType
  <2> QED
    BY <2>1 DEF RowType, GivenBack
<1> QED
  BY <1>3, <1>4, <1>5

\* Today is a number.
LEMMA DaysAreNumbers == ASSUME TypeOK PROVE Today \in Nat
<1>1. now \in Nat /\ DayLength \in Nat /\ DayLength > 0
  BY OrderGateAssumption DEF TypeOK
<1>2. \A n, d \in Nat : d > 0 => n \div d \in Nat
  OBVIOUS
<1> QED
  BY <1>1, <1>2 DEF Today

\* The first states are of their types.
LEMMA TypeInit == ASSUME Init PROVE TypeOK
<1>1. 0 \in 0..Horizon
  BY OrderGateAssumption
<1>2. row \in RowType /\ adminLog \in Seq({"kill", "unkill"})
  BY DEF Init, EmptyRow, RowType
<1>3. basis \in [Requests -> [day : Nat, at : 0..Horizon, sized : SUBSET Equities, logged : Nat]]
  BY <1>1 DEF Init
<1>4. account \in [0..now -> Equities]
  BY DEF Init
<1>5. phase \in [Requests -> Phases]
  BY DEF Init, FirstPhase
<1> QED
  BY <1>1, <1>2, <1>3, <1>4, <1>5 DEF Init, TypeOK, RowType

\* A request that only moves on leaves every other type as it was.
LEMMA MovesKeepType ==
    ASSUME TypeOK, NEW r \in Requests, NEW p \in Phases, phase' = [phase EXCEPT ![r] = p],
           UNCHANGED <<now, killed, adminLog, row, reading, account, order, fetchAt, basis>>
    PROVE  TypeOK'
<1>1. phase' \in [Requests -> Phases]
  BY DEF TypeOK
<1> QED
  BY <1>1 DEF TypeOK

(* A request moves on: its row and its sizing stay as they are.  Everything *)
(* a handler does but reading the account, reserving and giving back.       *)
Plain(r) ==
    /\ \E p \in Phases :
          /\ phase' = [phase EXCEPT ![r] = p]
          /\ p \in {"reserved", "sent"} <=> phase[r] \in {"reserved", "sent"}
    /\ UNCHANGED <<now, killed, adminLog, row, reading, account, order, fetchAt, basis>>

\* The handler steps that touch neither the row, the switch nor a reading.
LEMMA PlainHandlers ==
    ASSUME NEW r \in Requests,
           UseStored(r) \/ Refuse(r) \/ Forward(r)
    PROVE  Plain(r)
<1>2. CASE UseStored(r)
  BY <1>2 DEF UseStored, Plain
<1>3. CASE Refuse(r)
  BY <1>3 DEF Refuse, Plain
<1>4. CASE Forward(r)
  BY <1>4 DEF Forward, Plain
<1> QED
  BY <1>2, <1>3, <1>4

\* The read ends: what is stored then is the answer, an equity of some tick of the read, or what was.
LEMMA ReadEnds ==
    ASSUME TypeOK, NEW r \in Requests, NEW ok \in BOOLEAN, NEW recorded \in BOOLEAN,
           EndFetch(r, ok, recorded)
    PROVE  /\ \/ reading' = reading
              \/ \E t \in fetchAt[r]..now :
                    reading' = [at |-> fetchAt[r], equities |-> IF ok THEN {account[t]} ELSE {}]
           /\ phase[r] = "fetching"
           /\ \E p \in {"priced", "refused"} : phase' = [phase EXCEPT ![r] = p]
           /\ UNCHANGED <<now, killed, adminLog, row, account, order, fetchAt, basis>>
BY DEF EndFetch

\* What a reservation notes: its day, its tick, the equity it is sized by and the log's length.
Stamp(r) ==
    [day |-> Today, at |-> now,
     sized |-> IF NeedsEquity(order[r]) THEN FreshEquity(reading) ELSE {},
     logged |-> Len(adminLog)]

\* Every step keeps the types.
LEMMA TypeStep == ASSUME TypeOK, [Next]_vars PROVE TypeOK'
<1>0. Today \in Nat
  BY DaysAreNumbers
<1>1. ASSUME NEW r \in Requests, Plain(r) PROVE TypeOK'
  BY <1>1, MovesKeepType DEF Plain
<1>3. ASSUME NEW r \in Requests, StartFetch(r) PROVE TypeOK'
  <2>1. /\ phase' = [phase EXCEPT ![r] = "fetching"] /\ fetchAt' = [fetchAt EXCEPT ![r] = now]
        /\ UNCHANGED <<now, killed, adminLog, row, reading, account, order, basis>>
    BY <1>3 DEF StartFetch
  <2>2. phase' \in [Requests -> Phases]
    BY <2>1 DEF TypeOK
  <2>3. fetchAt' \in [Requests -> 0..Horizon]
    BY <2>1 DEF TypeOK
  <2> QED
    BY <2>1, <2>2, <2>3 DEF TypeOK
<1>4. ASSUME NEW r \in Requests, NEW ok \in BOOLEAN, NEW recorded \in BOOLEAN,
             EndFetch(r, ok, recorded)
      PROVE  TypeOK'
  <2>2. PICK p \in Phases : phase' = [phase EXCEPT ![r] = p]
    BY <1>4, ReadEnds
  <2>3. UNCHANGED <<now, killed, adminLog, row, account, order, fetchAt, basis>>
    BY <1>4, ReadEnds
  <2>4. fetchAt[r] \in 0..Horizon /\ now \in 0..Horizon /\ account \in [0..now -> Equities]
    BY DEF TypeOK
  <2>5. reading' \in [at : 0..Horizon, equities : SUBSET Equities]
    <3>1. CASE reading' = reading
      BY <3>1 DEF TypeOK
    <3>2. ASSUME NEW t \in fetchAt[r]..now,
                 reading' = [at |-> fetchAt[r], equities |-> IF ok THEN {account[t]} ELSE {}]
          PROVE  reading' \in [at : 0..Horizon, equities : SUBSET Equities]
      <4>1. t \in 0..now
        BY <2>4, OrderGateAssumption
      <4>2. account[t] \in Equities
        BY <2>4, <4>1
      <4> QED
        BY <2>4, <3>2, <4>2
    <3> QED
      BY <1>4, <3>1, <3>2, ReadEnds
  <2>6. phase' \in [Requests -> Phases]
    BY <2>2 DEF TypeOK
  <2> QED
    BY <2>3, <2>5, <2>6 DEF TypeOK
<1>5. ASSUME NEW r \in Requests, Reserve(r) PROVE TypeOK'
  <2>1. /\ phase' = [phase EXCEPT ![r] = "reserved"]
        /\ row' = Taken(Counters(row, Today), order[r])
        /\ basis' = [basis EXCEPT ![r] = Stamp(r)]
        /\ UNCHANGED <<now, killed, adminLog, reading, account, order, fetchAt>>
    BY <1>5 DEF Reserve, Stamp
  <2>1a. row \in RowType /\ order[r] \in Orders
    BY DEF TypeOK, RowType
  <2>1b. Counters(row, Today) \in RowType
    BY <1>0, <2>1a, RowsStayRows
  <2>2. row' \in RowType
    BY <2>1, <2>1a, <2>1b, RowsStayRows
  <2>3. phase' \in [Requests -> Phases]
    BY <2>1 DEF TypeOK
  <2>4. Stamp(r) \in [day : Nat, at : 0..Horizon, sized : SUBSET Equities, logged : Nat]
    BY <1>0 DEF TypeOK, Stamp, FreshEquity
  <2>5. basis' \in [Requests -> [day : Nat, at : 0..Horizon, sized : SUBSET Equities, logged : Nat]]
    BY <2>1, <2>4 DEF TypeOK
  <2> QED
    BY <2>1, <2>2, <2>3, <2>5 DEF RowType, TypeOK
<1>7. ASSUME NEW r \in Requests, Refund(r) PROVE TypeOK'
  <2>1. /\ phase' = [phase EXCEPT ![r] = "refunded"]
        /\ row' \in {GivenBack(Counters(row, Today), order[r]), row}
        /\ UNCHANGED <<now, killed, adminLog, reading, account, order, fetchAt, basis>>
    BY <1>7 DEF Refund
  <2>1a. row \in RowType /\ order[r] \in Orders
    BY DEF TypeOK, RowType
  <2>1b. Counters(row, Today) \in RowType
    BY <1>0, <2>1a, RowsStayRows
  <2>2. row' \in RowType
    BY <2>1, <2>1a, <2>1b, RowsStayRows
  <2>3. phase' \in [Requests -> Phases]
    BY <2>1 DEF TypeOK
  <2> QED
    BY <2>1, <2>2, <2>3 DEF RowType, TypeOK
<1>10. ASSUME NEW logs \in BOOLEAN, Kill(logs) \/ Unkill(logs) PROVE TypeOK'
  <2>1. adminLog' \in Seq({"kill", "unkill"}) /\ killed' \in BOOLEAN
    <3>1. adminLog \in Seq({"kill", "unkill"}) /\ killed \in BOOLEAN
      BY DEF TypeOK
    <3>2. \A w \in {"kill", "unkill"} : Append(adminLog, w) \in Seq({"kill", "unkill"})
      BY <3>1
    <3>3. /\ adminLog' = adminLog \/ (\E w \in {"kill", "unkill"} : adminLog' = Append(adminLog, w))
          /\ killed' \in BOOLEAN
      BY <1>10 DEF Kill, Unkill
    <3> QED
      BY <3>1, <3>2, <3>3
  <2>2. UNCHANGED <<now, row, reading, account, order, phase, fetchAt, basis>>
    BY <1>10 DEF Kill, Unkill
  <2> QED
    BY <2>1, <2>2 DEF TypeOK
<1>12. ASSUME NEW equity \in Equities, Tick(equity) PROVE TypeOK'
  <2>1. now' = now + 1 /\ now' \in 0..Horizon
    BY <1>12, OrderGateAssumption DEF Tick, TypeOK
  <2>2. account' \in [0..now' -> Equities]
    <3>1. account' = [t \in 0..(now + 1) |-> IF t <= now THEN account[t] ELSE equity]
      BY <1>12 DEF Tick
    <3>2. \A t \in 0..(now + 1) : t <= now => account[t] \in Equities
      <4>1. account \in [0..now -> Equities] /\ now \in 0..Horizon
        BY DEF TypeOK
      <4> QED
        BY <4>1, OrderGateAssumption
    <3> QED
      BY <2>1, <3>1, <3>2
  <2>3. UNCHANGED <<killed, adminLog, row, reading, order, phase, fetchAt, basis>>
    BY <1>12 DEF Tick
  <2> QED
    BY <2>1, <2>2, <2>3 DEF TypeOK
<1>13. CASE UNCHANGED vars
  BY <1>13 DEF vars, TypeOK
<1> QED
  BY <1>1, PlainHandlers, <1>3, <1>4, <1>5, <1>7, <1>10, <1>12, <1>13
     DEF Next, Handler

(* The type of every variable, in every reachable state. *)
THEOREM TypeCorrect == Spec => []TypeOK
<1>1. Init => TypeOK
  BY TypeInit
<1>2. TypeOK /\ [Next]_vars => TypeOK'
  BY TypeStep
<1> QED
  BY <1>1, <1>2, PTL DEF Spec
-----------------------------------------------------------------------------
(* Every stamp is in the past, and a stored reading is an equity the        *)
(* account had at its stamp or later: what SizedByRecentEquity needs to be  *)
(* inductive.                                                               *)
ReadingIsPast ==
    /\ \A r \in Requests : fetchAt[r] <= now /\ basis[r].at <= now
    /\ reading.at <= now
    /\ \A equity \in reading.equities : \E t \in reading.at..now : account[t] = equity

SizedInv == TypeOK /\ ReadingIsPast /\ SizedByRecentEquity

(* What the account was is never rewritten, only added to. *)
LEMMA PastStays ==
    ASSUME TypeOK, [Next]_vars
    PROVE  now <= now' /\ \A t \in 0..now : account'[t] = account[t]
<1>0. now \in Nat
  BY OrderGateAssumption DEF TypeOK
<1>1. CASE account' = account /\ now' = now
  BY <1>0, <1>1
<1>3. ASSUME NEW equity \in Equities, Tick(equity)
      PROVE  now <= now' /\ \A t \in 0..now : account'[t] = account[t]
  <2>1. /\ now' = now + 1
        /\ account' = [t \in 0..(now + 1) |-> IF t <= now THEN account[t] ELSE equity]
    BY <1>3 DEF Tick
  <2> QED
    BY <1>0, <2>1
<1>4. ASSUME NEW r \in Requests, Handler(r) PROVE account' = account /\ now' = now
  <2>1. CASE \E ok, recorded \in BOOLEAN : EndFetch(r, ok, recorded)
    BY <2>1 DEF EndFetch
  <2>2. CASE StartFetch(r) \/ Reserve(r) \/ Refund(r)
    BY <2>2 DEF StartFetch, Reserve, Refund
  <2>3. CASE Plain(r)
    BY <2>3 DEF Plain
  <2> QED
    BY <1>4, <2>1, <2>2, <2>3, PlainHandlers DEF Handler
<1>5. ASSUME NEW logs \in BOOLEAN, Kill(logs) \/ Unkill(logs) PROVE account' = account /\ now' = now
  BY <1>5 DEF Kill, Unkill
<1>6. CASE UNCHANGED vars
  BY <1>1, <1>6 DEF vars
<1> QED
  BY <1>1, <1>3, <1>4, <1>5, <1>6 DEF Next

(* A step that leaves a request's reservation alone leaves it sized. *)
Held == {"reserved", "sent"}

\* A step that begins no hold and keeps orders and bases keeps what is sized.
LEMMA SizedStays ==
    ASSUME SizedInv, [Next]_vars, order' = order, basis' = basis,
           \A r \in Requests : phase'[r] \in Held => phase[r] \in Held
    PROVE  SizedByRecentEquity'
<1> SUFFICES ASSUME NEW r \in Requests, phase'[r] \in Held, NeedsEquity(order'[r])
             PROVE  \E equity \in basis'[r].sized :
                        /\ \E t \in 0..basis'[r].at : basis'[r].at - t <= MaxAge /\ account'[t] = equity
                        /\ order'[r].amount <= OrderCap(equity)
                        /\ order'[r].credit => equity >= CreditMin
  BY DEF SizedByRecentEquity, IsOpen, Held
<1>1. phase[r] \in Held /\ NeedsEquity(order[r])
  OBVIOUS
<1>2. PICK equity \in basis[r].sized :
         /\ \E t \in 0..basis[r].at : basis[r].at - t <= MaxAge /\ account[t] = equity
         /\ order[r].amount <= OrderCap(equity)
         /\ order[r].credit => equity >= CreditMin
  BY <1>1 DEF SizedInv, SizedByRecentEquity, IsOpen, Held
<1>2a. PICK t \in 0..basis[r].at : basis[r].at - t <= MaxAge /\ account[t] = equity
  BY <1>2
<1>3. t \in 0..now
  <2>1. basis[r].at <= now /\ basis[r].at \in 0..Horizon
    <3>1. basis[r].at \in 0..Horizon
      BY DEF SizedInv, TypeOK
    <3> QED
      BY <3>1 DEF SizedInv, ReadingIsPast
  <2>2. t \in Int /\ 0 <= t /\ t <= basis[r].at /\ now \in Int
    BY <2>1, OrderGateAssumption DEF SizedInv, TypeOK
  <2> QED
    BY <2>1, <2>2
<1>4. account'[t] = equity
  BY <1>2a, <1>3, PastStays DEF SizedInv
<1> QED
  BY <1>2, <1>2a, <1>4

(* The step that reserves sizes the open by a reading that is fresh now. *)
LEMMA ReserveSizes ==
    ASSUME SizedInv, [Next]_vars, NEW r \in Requests, Reserve(r)
    PROVE  SizedByRecentEquity'
<1> USE OrderGateAssumption
<1>1. /\ phase' = [phase EXCEPT ![r] = "reserved"]
      /\ basis' = [basis EXCEPT ![r] = Stamp(r)]
      /\ order' = order /\ account' = account /\ now' = now
      /\ Admits(r, Counters(row, Today))
  BY DEF Reserve, Stamp
<1> SUFFICES ASSUME NEW q \in Requests, phase'[q] \in Held, NeedsEquity(order'[q])
             PROVE  \E equity \in basis'[q].sized :
                        /\ \E t \in 0..basis'[q].at : basis'[q].at - t <= MaxAge /\ account'[t] = equity
                        /\ order'[q].amount <= OrderCap(equity)
                        /\ order'[q].credit => equity >= CreditMin
  BY DEF SizedByRecentEquity, IsOpen, Held
<1>2. CASE q # r
  <2>1. phase[q] \in Held /\ NeedsEquity(order[q]) /\ basis'[q] = basis[q]
    BY <1>1, <1>2 DEF SizedInv, TypeOK
  <2> QED
    BY <1>1, <2>1 DEF SizedInv, SizedByRecentEquity, IsOpen, Held
<1>3. CASE q = r
  <2>1. basis'[r] = Stamp(r)
    BY <1>1 DEF SizedInv, TypeOK
  <2>2. PICK equity \in FreshEquity(reading) :
           /\ order[r].credit => equity >= CreditMin
           /\ order[r].amount <= OrderCap(equity)
    <3>1. RealAdmits(Counters(row, Today), order[r], FreshEquity(reading)) /\ ~order[r].exit
      BY <1>1, <1>3 DEF Admits, NeedsEquity
    <3> QED
      BY <3>1 DEF RealAdmits
  <2>2a. now - reading.at <= MaxAge /\ equity \in reading.equities
    BY <2>2 DEF FreshEquity
  <2>3. PICK t \in reading.at..now : account[t] = equity
    BY <2>2a DEF SizedInv, ReadingIsPast
  <2>4. t \in 0..now /\ now - t <= MaxAge
    <3>1. reading.at \in Nat /\ now \in Nat /\ MaxAge \in Nat
      BY DEF SizedInv, TypeOK
    <3> QED
      BY <2>2a, <2>3, <3>1
  <2>5. Stamp(r).at = now /\ Stamp(r).sized = FreshEquity(reading)
    BY <1>1, <1>3 DEF Stamp
  <2> QED
    BY <1>1, <1>3, <2>1, <2>2, <2>3, <2>4, <2>5
<1> QED
  BY <1>2, <1>3

\* Every step keeps a stored reading an equity the account had at its stamp or later.
LEMMA PastStep == ASSUME SizedInv, [Next]_vars PROVE ReadingIsPast'
<1>0. TypeOK /\ ReadingIsPast
  BY DEF SizedInv
<1>1. now <= now' /\ \A t \in 0..now : account'[t] = account[t]
  BY <1>0, PastStays
<1>1a. /\ now \in Int /\ now' \in Int /\ reading.at \in Int
       /\ \A r \in Requests : fetchAt[r] \in Int /\ basis[r].at \in Int
  BY <1>0, TypeStep DEF TypeOK
<1>2. ASSUME reading' = reading, fetchAt' = fetchAt, basis' = basis PROVE ReadingIsPast'
  <2>1. ASSUME NEW equity \in reading.equities
        PROVE  \E t \in reading.at..now' : account'[t] = equity
    <3>1. PICK t \in reading.at..now : account[t] = equity
      BY <1>0, <2>1 DEF ReadingIsPast
    <3>2. t \in 0..now /\ t \in reading.at..now'
      <4>1. reading.at >= 0
        BY <1>0 DEF TypeOK
      <4> QED
        BY <1>1, <1>1a, <3>1, <4>1
    <3> QED
      BY <1>1, <3>1, <3>2
  <2>2. \A r \in Requests : fetchAt[r] <= now' /\ basis[r].at <= now'
    <3>1. \A r \in Requests : fetchAt[r] <= now /\ basis[r].at <= now
      BY <1>0 DEF ReadingIsPast
    <3> QED
      BY <1>1, <1>1a, <3>1
  <2>3. reading.at <= now'
    <3>1. reading.at <= now
      BY <1>0 DEF ReadingIsPast
    <3> QED
      BY <1>1, <1>1a, <3>1
  <2> QED
    BY <1>2, <2>1, <2>2, <2>3 DEF ReadingIsPast
<1>3. ASSUME NEW r \in Requests, StartFetch(r) PROVE ReadingIsPast'
  <2>1. fetchAt' = [fetchAt EXCEPT ![r] = now] /\ UNCHANGED <<now, account, reading, basis>>
    BY <1>3 DEF StartFetch
  <2>2. \A q \in Requests : fetchAt'[q] <= now
    BY <1>0, <1>1a, <2>1 DEF TypeOK, ReadingIsPast
  <2> QED
    BY <1>0, <2>1, <2>2 DEF ReadingIsPast
<1>4. ASSUME NEW r \in Requests, NEW ok \in BOOLEAN, NEW recorded \in BOOLEAN,
             EndFetch(r, ok, recorded)
      PROVE  ReadingIsPast'
  <2>2. UNCHANGED <<now, account, fetchAt, basis>>
    BY <1>0, <1>4, ReadEnds
  <2>3. CASE reading' = reading
    BY <1>2, <2>2, <2>3
  <2>4. ASSUME NEW t \in fetchAt[r]..now,
               reading' = [at |-> fetchAt[r], equities |-> IF ok THEN {account[t]} ELSE {}]
        PROVE  ReadingIsPast'
    <3>1. reading'.at = fetchAt[r] /\ \A equity \in reading'.equities : account[t] = equity
      BY <2>4
    <3> QED
      BY <1>0, <2>2, <3>1 DEF ReadingIsPast
  <2> QED
    BY <1>0, <1>4, <2>3, <2>4, ReadEnds
<1>5. ASSUME NEW r \in Requests, Reserve(r) PROVE ReadingIsPast'
  <2>1. /\ basis' = [basis EXCEPT ![r] = Stamp(r)]
        /\ UNCHANGED <<now, account, fetchAt, reading>>
    BY <1>5 DEF Reserve, Stamp
  <2>2. \A q \in Requests : basis'[q].at <= now
    BY <1>0, <1>1a, <2>1 DEF TypeOK, ReadingIsPast, Stamp
  <2> QED
    BY <1>0, <2>1, <2>2 DEF ReadingIsPast
<1>6. ASSUME NEW r \in Requests, Plain(r) \/ Refund(r) PROVE ReadingIsPast'
  <2>1. UNCHANGED <<reading, fetchAt, basis>>
    BY <1>6 DEF Plain, Refund
  <2> QED
    BY <1>2, <2>1
<1>7. ASSUME \/ (\E equity \in Equities : Tick(equity)) \/ UNCHANGED vars
             \/ \E logs \in BOOLEAN : Kill(logs) \/ Unkill(logs)
      PROVE  ReadingIsPast'
  <2>1. UNCHANGED <<reading, fetchAt, basis>>
    BY <1>7 DEF Tick, vars, Kill, Unkill
  <2> QED
    BY <1>2, <2>1
<1> QED
  BY PlainHandlers, <1>3, <1>4, <1>5, <1>6, <1>7 DEF Next, Handler

(* Every admitted open fits the caps of an equity the account really had at *)
(* most MaxAge before its reservation, whatever the order in which reads    *)
(* are answered and recorded.                                               *)
THEOREM Sized == Spec => []SizedByRecentEquity
<1>1. Init => SizedInv
  <2> SUFFICES ASSUME Init PROVE ReadingIsPast /\ SizedByRecentEquity
    BY TypeInit DEF SizedInv
  <2> QED
    BY DEF Init, FirstPhase, ReadingIsPast, SizedByRecentEquity
<1>2. SizedInv /\ [Next]_vars => SizedInv'
  <2> SUFFICES ASSUME SizedInv, [Next]_vars PROVE SizedByRecentEquity'
    BY TypeStep, PastStep DEF SizedInv
  <2>1. ASSUME NEW r \in Requests, Reserve(r) PROVE SizedByRecentEquity'
    BY <2>1, ReserveSizes
  <2>2. ASSUME order' = order, basis' = basis,
               \A r \in Requests : phase'[r] \in Held => phase[r] \in Held
        PROVE  SizedByRecentEquity'
    BY <2>2, SizedStays
  <2>3. ASSUME NEW r \in Requests, Handler(r), ~Reserve(r) PROVE SizedByRecentEquity'
    <3>1. phase \in [Requests -> Phases]
      BY DEF SizedInv, TypeOK
    <3>2. /\ order' = order /\ basis' = basis
          /\ \E p \in Phases : /\ phase' = [phase EXCEPT ![r] = p]
                               /\ p \in Held => phase[r] \in Held
      <4>1. CASE UseStored(r) \/ StartFetch(r) \/ Refuse(r)
        BY <4>1 DEF UseStored, StartFetch, Refuse, Moves, Phases, Held
      <4>2. CASE \E ok, recorded \in BOOLEAN : EndFetch(r, ok, recorded)
        BY <4>2 DEF EndFetch, Moves, Phases, Held
      <4>3. CASE Refund(r) \/ Forward(r)
        BY <4>3 DEF Refund, Forward, Moves, Phases, Held
      <4> QED
        BY <2>3, <4>1, <4>2, <4>3 DEF Handler
    <3>3. PICK p \in Phases : /\ phase' = [phase EXCEPT ![r] = p]
                              /\ p \in Held => phase[r] \in Held
      BY <3>2
    <3>4. \A q \in Requests : phase'[q] \in Held => phase[q] \in Held
      <4>1. phase'[r] = p /\ \A q \in Requests \ {r} : phase'[q] = phase[q]
        BY <3>1, <3>3
      <4> QED
        BY <3>3, <4>1
    <3> QED
      BY <2>2, <3>2, <3>4
  <2>4. CASE UNCHANGED phase /\ UNCHANGED order /\ UNCHANGED basis
    BY <2>2, <2>4
  <2> QED
    BY <2>1, <2>3, <2>4 DEF Next, vars, Handler, Kill, Unkill, Tick
<1>3. SizedInv => SizedByRecentEquity
  BY DEF SizedInv
<1> QED
  BY <1>1, <1>2, <1>3, PTL DEF Spec
-----------------------------------------------------------------------------
Opens(day) == {r \in Holding(day) : IsOpen(r)}

(* The count of the row is the number of reservations that stand.  The row  *)
(* is never ahead of the calendar and no reservation is of a later day than *)
(* the row, so a new day finds nothing held.                                *)
PlacesInv ==
    /\ \A r \in Requests : phase[r] \in Held => basis[r].day <= row.day
    /\ row.day <= Today
    /\ row.day = Today => row.orders = Cardinality(Holding(Today))
    /\ Cardinality(Opens(Today)) <= OpenOrdersCap

\* The reservations that stand on a day are finitely many, and so are their opens.
LEMMA HoldingFinite ==
    ASSUME NEW d
    PROVE  /\ IsFiniteSet(Holding(d)) /\ IsFiniteSet(Opens(d))
           /\ Cardinality(Holding(d)) \in Nat /\ Cardinality(Opens(d)) \in Nat
           /\ Cardinality(Opens(d)) <= Cardinality(Holding(d))
<1>1. Holding(d) \subseteq Requests /\ Opens(d) \subseteq Holding(d)
  BY DEF Holding, Opens
<1>2. IsFiniteSet(Holding(d))
  BY <1>1, OrderGateAssumption, FS_Subset
<1> QED
  BY <1>1, <1>2, FS_Subset, FS_CardinalityType

\* The places for opens are a number, no more than all places.
LEMMA CapIsNat == OpenOrdersCap \in Nat /\ OpenOrdersCap <= MaxDayOrders /\ MaxDayOrders \in Nat
BY GateDayAssumption DEF OpenOrdersCap, Lower

(* What a handler reads as the day's orders is how many reservations stand. *)
LEMMA OrdersAreHeld ==
    ASSUME TypeOK, PlacesInv
    PROVE  Counters(row, Today).orders = Cardinality(Holding(Today))
<1>1. CASE row.day = Today
  BY <1>1 DEF PlacesInv, Counters
<1>2. CASE row.day # Today
  <2>1. Today \in Nat /\ row.day \in Nat
    BY DaysAreNumbers DEF TypeOK
  <2>2. Holding(Today) = {}
    BY <1>2, <2>1 DEF PlacesInv, Holding, Held, TypeOK
  <2> QED
    BY <1>2, <2>2, FS_EmptySet DEF Counters, EmptyRow
<1> QED
  BY <1>1, <1>2

\* A reservation (reserve) takes one place of the row, and is one more that stands.
LEMMA PlacesReserve ==
    ASSUME TypeOK, PlacesInv, NEW r \in Requests, Reserve(r)
    PROVE  PlacesInv'
<1>1. /\ phase[r] = "priced"
      /\ phase' = [phase EXCEPT ![r] = "reserved"]
      /\ basis' = [basis EXCEPT ![r] = Stamp(r)] /\ Stamp(r).day = Today
      /\ row' = Taken(Counters(row, Today), order[r])
      /\ Admits(r, Counters(row, Today))
      /\ order' = order /\ Today' = Today
  BY DEF Reserve, Stamp, Today
<1>2. Today \in Nat /\ row \in RowType /\ order[r] \in Orders
  BY DaysAreNumbers DEF TypeOK, RowType
<1>3. row'.day = Today /\ row'.orders = Cardinality(Holding(Today)) + 1
  <2>1. /\ Counters(row, Today) \in RowType /\ Counters(row, Today).day = Today
    BY <1>2, RowsStayRows
  <2> QED
    BY <1>1, <2>1, OrdersAreHeld DEF Taken, RowType
<1>4. r \notin Holding(Today) /\ Holding(Today)' = Holding(Today) \cup {r}
  BY <1>1 DEF Holding, TypeOK
<1>5. Cardinality(Holding(Today)') = Cardinality(Holding(Today)) + 1
  BY <1>4, HoldingFinite, FS_AddElement
<1>6. Cardinality(Opens(Today)') <= OpenOrdersCap
  <2>1. CASE IsOpen(r)
    <3>1. Opens(Today)' = Opens(Today) \cup {r} /\ r \notin Opens(Today)
      BY <1>1, <1>4, <2>1 DEF Opens, IsOpen
    <3>2. Cardinality(Opens(Today)') = Cardinality(Opens(Today)) + 1
      BY <3>1, HoldingFinite, FS_AddElement
    <3>3. /\ Cardinality(Holding(Today)) + 1 <= MaxDayOrders
          /\ Cardinality(Holding(Today)) < OpenOrdersCap \/ OpenOrdersCap >= MaxDayOrders
      <4>1. RealAdmits(Counters(row, Today), order[r], FreshEquity(reading)) /\ ~order[r].exit
        BY <1>1, <2>1 DEF Admits, IsOpen, NeedsEquity
      <4> QED
        BY <4>1, OrdersAreHeld, HoldingFinite, CapIsNat DEF RealAdmits, OpenPlacesGone
    <3> QED
      BY <3>2, <3>3, HoldingFinite, CapIsNat
  <2>2. CASE ~IsOpen(r)
    <3>1. Opens(Today)' = Opens(Today)
      BY <1>1, <1>4, <2>2 DEF Opens, IsOpen
    <3> QED
      BY <3>1 DEF PlacesInv
  <2> QED
    BY <2>1, <2>2
<1>7. \A q \in Requests : phase'[q] \in Held => basis'[q].day <= row'.day
  <2> SUFFICES ASSUME NEW q \in Requests, phase'[q] \in Held PROVE basis'[q].day <= Today
    BY <1>3
  <2>1. CASE q = r
    BY <1>1, <1>2, <2>1 DEF TypeOK
  <2>2. CASE q # r
    <3>1. basis'[q] = basis[q] /\ phase[q] \in Held
      BY <1>1, <2>2 DEF TypeOK
    <3>2. basis[q].day \in Nat /\ row.day \in Nat
      BY DEF TypeOK
    <3> QED
      BY <1>2, <3>1, <3>2 DEF PlacesInv
  <2> QED
    BY <2>1, <2>2
<1> QED
  BY <1>1, <1>2, <1>3, <1>5, <1>6, <1>7 DEF PlacesInv

\* A refund gives its place back only on the day it was taken.
LEMMA PlacesRefund ==
    ASSUME TypeOK, PlacesInv, NEW r \in Requests, Refund(r)
    PROVE  PlacesInv'
<1>1. /\ phase[r] = "reserved" /\ phase' = [phase EXCEPT ![r] = "refunded"]
      /\ basis' = basis /\ order' = order /\ Today' = Today
      /\ row' = IF Counters(row, Today).day = basis[r].day
                THEN GivenBack(Counters(row, Today), order[r]) ELSE row
  BY DEF Refund, Today
<1>2. /\ Today \in Nat /\ row \in RowType /\ order[r] \in Orders
      /\ row.day \in Nat /\ basis[r].day \in Nat /\ basis[r].day <= row.day /\ row.day <= Today
  BY <1>1, DaysAreNumbers DEF TypeOK, RowType, PlacesInv, Held
<1>3. Counters(row, Today).day = Today
  BY <1>2, RowsStayRows
<1>4. \A q \in Requests : phase'[q] \in Held => phase[q] \in Held
  BY <1>1 DEF TypeOK, Held
<1>5. CASE basis[r].day = Today
  <2>1. row.day = Today /\ row' = GivenBack(row, order[r])
    BY <1>1, <1>2, <1>3, <1>5 DEF Counters
  <2>2. row'.day = row.day /\ row'.orders = Less(row.orders, 1)
    BY <2>1, <1>2 DEF GivenBack, RowType
  <2>3. r \in Holding(Today) /\ Holding(Today)' = Holding(Today) \ {r}
    BY <1>1, <1>5 DEF Holding, TypeOK
  <2>4. Cardinality(Holding(Today)') = Cardinality(Holding(Today)) - 1
    BY <2>3, HoldingFinite, FS_RemoveElement
  <2>5. row.orders = Cardinality(Holding(Today)) /\ Cardinality(Holding(Today)) > 0
    BY <2>1, <2>3, HoldingFinite, FS_EmptySet DEF PlacesInv
  <2>6. row'.orders = Cardinality(Holding(Today)')
    BY <2>2, <2>4, <2>5, HoldingFinite DEF Less
  <2>7. Opens(Today)' \subseteq Opens(Today)
    BY <1>1, <2>3 DEF Opens, IsOpen
  <2>8. Cardinality(Opens(Today)') <= Cardinality(Opens(Today)) /\ Cardinality(Opens(Today)') \in Nat
    BY <2>7, HoldingFinite, FS_Subset, FS_CardinalityType
  <2> QED
    BY <1>1, <1>2, <1>4, <2>2, <2>6, <2>8, HoldingFinite, CapIsNat DEF PlacesInv
<1>6. CASE basis[r].day # Today
  <2>1. row' = row
    BY <1>1, <1>3, <1>6
  <2>2. Holding(Today)' = Holding(Today)
    BY <1>1, <1>6 DEF Holding, TypeOK
  <2>3. Opens(Today)' = Opens(Today)
    BY <1>1, <2>2 DEF Opens, IsOpen
  <2> QED
    BY <1>1, <1>4, <2>1, <2>2, <2>3 DEF PlacesInv
<1> QED
  BY <1>5, <1>6

\* The clock may end the day: the row of the day before counts for nothing.
LEMMA PlacesTick ==
    ASSUME TypeOK, PlacesInv, NEW equity \in Equities, Tick(equity)
    PROVE  PlacesInv'
<1>1. Today \in Nat /\ Today' \in Nat /\ Today <= Today'
  <2>1. now \in Nat /\ now' = now + 1 /\ DayLength \in Nat /\ DayLength > 0
    BY OrderGateAssumption DEF Tick, TypeOK
  <2>2. \A n, d \in Nat : d > 0 => n \div d \in Nat /\ n \div d <= (n + 1) \div d /\ (n + 1) \div d \in Nat
    OBVIOUS
  <2> QED
    BY <2>1, <2>2 DEF Today
<1>2. UNCHANGED <<phase, basis, order, row>>
  BY DEF Tick
<1>3. CASE Today' = Today
  <2>1. Holding(Today)' = Holding(Today) /\ Opens(Today)' = Opens(Today)
    BY <1>2, <1>3 DEF Holding, Opens, IsOpen
  <2> QED
    BY <1>2, <1>3, <2>1 DEF PlacesInv
<1>4. CASE Today' # Today
  <2>1. row.day \in Nat /\ row.day < Today'
    BY <1>1, <1>4 DEF TypeOK, PlacesInv
  <2>2. \A r \in Requests : phase[r] \in Held => basis[r].day \in Nat /\ basis[r].day < Today'
    BY <1>1, <2>1 DEF TypeOK, PlacesInv
  <2>3. Opens(Today)' = {}
    BY <1>2, <2>2, <1>1 DEF Opens, Holding, Held
  <2> QED
    BY <1>1, <1>2, <2>1, <2>3, FS_EmptySet, CapIsNat DEF PlacesInv
<1> QED
  BY <1>3, <1>4

\* Only a reservation and its giving back change which requests hold a place.
LEMMA OthersHoldAlike ==
    ASSUME TypeOK, NEW r \in Requests, Handler(r), ~Reserve(r), ~Refund(r)
    PROVE  /\ UNCHANGED <<order, basis, row, now, killed>>
           /\ \A q \in Requests : phase'[q] \in Held <=> phase[q] \in Held
<1>0. phase \in [Requests -> Phases]
  BY DEF TypeOK
<1>1. CASE Plain(r)
  BY <1>0, <1>1 DEF Plain, Held
<1>2. CASE StartFetch(r)
  <2>1. /\ phase[r] = "sizing" /\ phase' = [phase EXCEPT ![r] = "fetching"]
        /\ UNCHANGED <<order, basis, row, now, killed>>
    BY <1>2 DEF StartFetch
  <2> QED
    BY <1>0, <2>1 DEF Held
<1>3. ASSUME NEW ok \in BOOLEAN, NEW recorded \in BOOLEAN, EndFetch(r, ok, recorded)
      PROVE  /\ UNCHANGED <<order, basis, row, now, killed>>
             /\ \A q \in Requests : phase'[q] \in Held <=> phase[q] \in Held
  <2>1. /\ phase[r] = "fetching" /\ \E p \in {"priced", "refused"} : phase' = [phase EXCEPT ![r] = p]
        /\ UNCHANGED <<order, basis, row, now, killed>>
    BY <1>3, ReadEnds
  <2> QED
    BY <1>0, <2>1 DEF Held
<1> QED
  BY <1>1, <1>2, <1>3, PlainHandlers DEF Handler

\* Every step keeps the row's counts what stands.
LEMMA PlacesStep == ASSUME TypeOK, PlacesInv, [Next]_vars PROVE PlacesInv'
<1>1. ASSUME UNCHANGED <<order, basis, row, now>>,
             \A r \in Requests : phase'[r] \in Held <=> phase[r] \in Held
      PROVE  PlacesInv'
  <2>1. Today' = Today /\ Holding(Today)' = Holding(Today)
    BY <1>1 DEF Today, Holding, Held
  <2>2. Opens(Today)' = Opens(Today)
    BY <1>1, <2>1 DEF Opens, IsOpen
  <2> QED
    BY <1>1, <2>1, <2>2 DEF PlacesInv
<1>2. ASSUME NEW r \in Requests, Handler(r), ~Reserve(r), ~Refund(r) PROVE PlacesInv'
  BY <1>1, <1>2, OthersHoldAlike
<1>3. CASE UNCHANGED <<order, basis, row, now, phase>>
  BY <1>1, <1>3
<1> QED
  BY <1>2, <1>3, PlacesReserve, PlacesRefund, PlacesTick
     DEF Next, vars, Handler, Kill, Unkill

\* At first nothing stands and the row counts nothing.
LEMMA PlacesInit == ASSUME Init PROVE PlacesInv
<1>1. Today \in Nat /\ row.day = 0 /\ row.orders = 0
  BY TypeInit, DaysAreNumbers DEF Init, EmptyRow
<1>2. \A d : Holding(d) = {} /\ Opens(d) = {}
  BY DEF Init, FirstPhase, Holding, Opens
<1>3. \A r \in Requests : phase[r] \notin Held
  BY DEF Init, FirstPhase, Held
<1>4. Cardinality(Holding(Today)) = 0 /\ Cardinality(Opens(Today)) = 0
  BY <1>2, FS_EmptySet
<1> QED
  BY <1>1, <1>3, <1>4, CapIsNat DEF PlacesInv

(* An exit the kill switch does not stop is refused only when orders that   *)
(* are not real opens hold every place kept for exits.                      *)
THEOREM ExitsHaveRoom == Spec => ExitsKeepRoom
<1>1. Init => TypeOK /\ PlacesInv
  BY TypeInit, PlacesInit
<1>2. (TypeOK /\ PlacesInv) /\ [Next]_vars => (TypeOK /\ PlacesInv)'
  BY TypeStep, PlacesStep
<1>3. ASSUME TypeOK, PlacesInv, [Next]_vars
      PROVE  [\A r \in Requests :
                 /\ order[r].exit /\ ~killed
                 /\ phase[r] = "priced" /\ phase'[r] = "refused"
                 => Cardinality({q \in Holding(Today) : ~IsOpen(q)})
                       >= MaxDayOrders - OpenOrdersCap]_vars
  <2> SUFFICES ASSUME NEW r \in Requests, order[r].exit, ~killed,
                      phase[r] = "priced", phase'[r] = "refused"
               PROVE  Cardinality({q \in Holding(Today) : ~IsOpen(q)}) >= MaxDayOrders - OpenOrdersCap
    OBVIOUS
  <2>1. Refuse(r)
    <3>0. phase \in [Requests -> Phases]
      BY <1>3 DEF TypeOK
    <3>1. phase' # phase
      OBVIOUS
    <3>2. PICK q \in Requests : Handler(q)
      BY <1>3, <3>1 DEF Next, vars, Kill, Unkill, Tick
    <3>3. PICK p \in Phases : phase' = [phase EXCEPT ![q] = p]
      BY <1>3, <3>2, ReadEnds, PlainHandlers DEF Handler, Plain, StartFetch, Reserve, Refund
    <3>4. q = r
      BY <3>0, <3>3
    <3>5. ~UseStored(r) /\ ~StartFetch(r) /\ ~Forward(r)
      BY DEF UseStored, StartFetch, Forward
    <3>6. ~Reserve(r) /\ ~Refund(r) /\ ~\E ok, recorded \in BOOLEAN : EndFetch(r, ok, recorded)
      BY <3>0 DEF Reserve, Refund, EndFetch
    <3> QED
      BY <3>2, <3>4, <3>5, <3>6 DEF Handler
  <2>2. Cardinality(Holding(Today)) + 1 > MaxDayOrders
    <3>1. ~Admits(r, Counters(row, Today))
      BY <2>1 DEF Refuse
    <3>2. ~(Counters(row, Today).orders + 1 <= MaxDayOrders)
      BY <3>1 DEF Admits, RealAdmits, KalshiAdmits
    <3> QED
      BY <1>3, <3>2, OrdersAreHeld, HoldingFinite, CapIsNat
  <2>3. /\ {q \in Holding(Today) : ~IsOpen(q)} = Holding(Today) \ Opens(Today)
        /\ Opens(Today) = Holding(Today) \cap Opens(Today)
    BY DEF Opens
  <2>4. Cardinality(Holding(Today) \ Opens(Today)) = Cardinality(Holding(Today)) - Cardinality(Opens(Today))
    BY <2>3, HoldingFinite, FS_Difference
  <2> QED
    BY <1>3, <2>2, <2>3, <2>4, HoldingFinite, CapIsNat DEF PlacesInv
<1> QED
  BY <1>1, <1>2, <1>3, PTL DEF Spec, ExitsKeepRoom
-----------------------------------------------------------------------------
(* What each request's order adds to a column of the row, and its Kalshi    *)
(* parts: all of them, and those that open.                                 *)
Amount     == [r \in Requests |-> order[r].amount]
OpenPart   == [r \in Requests |-> Opening(order[r])]
RealPart   == [r \in Requests |-> AlpacaPart(order[r])]
KalshiPart == [r \in Requests |-> IF order[r].venue = "kalshi" THEN order[r].amount ELSE 0]
KalshiOpen == [r \in Requests |->
                 IF order[r].venue = "kalshi" /\ ~order[r].exit THEN order[r].amount ELSE 0]

(* The row's money is what today's reservations add up to; what opens on    *)
(* the real account and on Kalshi is within the day's two limits.           *)
MoneyInv ==
    /\ row.day = Today =>
          /\ row.notional = Total(Amount, Holding(Today))
          /\ row.alpacaOpen = Total(OpenPart, Holding(Today))
          /\ row.alpacaNotional = Total(RealPart, Holding(Today))
    /\ Total(OpenPart, Holding(Today)) <= DayLimit
    /\ Total(KalshiOpen, Holding(Today)) <= KalshiDayCap

(* The sums the properties are written with are these totals.               *)
LEMMA AmountsAddUp ==
    ASSUME NEW H \in SUBSET Requests
    PROVE  MapThenSumSet(LAMBDA r : order[r].amount, H) = Total(Amount, H)
<1> DEFINE P(g) == g = [s \in SUBSET H |-> IF s = {} THEN 0
                          ELSE order[AnyOf(s)].amount + g[s \ {AnyOf(s)}]]
           h == CHOOSE g : P(g)
<1>1. MapThenSumSet(LAMBDA r : order[r].amount, H) = h[H]
  BY DEF MapThenSumSet, MapThenFoldSet, AnyOf
<1>2. \A s \in SUBSET H : s # {} => order[AnyOf(s)].amount = Amount[AnyOf(s)]
  BY AnyIn DEF Amount
<1>3. \A g : P(g) <=> Adds(g, Amount, H)
  BY <1>2 DEF Adds
<1>4. IsFiniteSet(H)
  BY OrderGateAssumption, FS_Subset
<1>5. \E g : P(g)
  BY <1>3, <1>4, AddsExists
<1>6. P(h)
  <2> HIDE DEF P
  <2> QED
    BY <1>5
<1>7. Adds(h, Amount, H)
  <2> HIDE DEF h, P
  <2> QED
    BY <1>3, <1>6
<1> HIDE DEF h
<1> QED
  BY <1>1, <1>4, <1>7, TotalAdds

\* What opens hold, as a sum of one number a request.
LEMMA OpeningsAddUp ==
    ASSUME NEW H \in SUBSET Requests
    PROVE  MapThenSumSet(LAMBDA r : Opening(order[r]), H) = Total(OpenPart, H)
<1> DEFINE P(g) == g = [s \in SUBSET H |-> IF s = {} THEN 0
                          ELSE Opening(order[AnyOf(s)]) + g[s \ {AnyOf(s)}]]
           h == CHOOSE g : P(g)
<1>1. MapThenSumSet(LAMBDA r : Opening(order[r]), H) = h[H]
  BY DEF MapThenSumSet, MapThenFoldSet, AnyOf
<1>2. \A s \in SUBSET H : s # {} => Opening(order[AnyOf(s)]) = OpenPart[AnyOf(s)]
  BY AnyIn DEF OpenPart
<1>3. \A g : P(g) <=> Adds(g, OpenPart, H)
  BY <1>2 DEF Adds
<1>4. IsFiniteSet(H)
  BY OrderGateAssumption, FS_Subset
<1>5. \E g : P(g)
  BY <1>3, <1>4, AddsExists
<1>6. P(h)
  <2> HIDE DEF P
  <2> QED
    BY <1>5
<1>7. Adds(h, OpenPart, H)
  <2> HIDE DEF h, P
  <2> QED
    BY <1>3, <1>6
<1> HIDE DEF h
<1> QED
  BY <1>1, <1>4, <1>7, TotalAdds

\* What the orders of the real account hold, as a sum of one number a request.
LEMMA RealPartsAddUp ==
    ASSUME NEW H \in SUBSET Requests
    PROVE  MapThenSumSet(LAMBDA r : AlpacaPart(order[r]), H) = Total(RealPart, H)
<1> DEFINE P(g) == g = [s \in SUBSET H |-> IF s = {} THEN 0
                          ELSE AlpacaPart(order[AnyOf(s)]) + g[s \ {AnyOf(s)}]]
           h == CHOOSE g : P(g)
<1>1. MapThenSumSet(LAMBDA r : AlpacaPart(order[r]), H) = h[H]
  BY DEF MapThenSumSet, MapThenFoldSet, AnyOf
<1>2. \A s \in SUBSET H : s # {} => AlpacaPart(order[AnyOf(s)]) = RealPart[AnyOf(s)]
  BY AnyIn DEF RealPart
<1>3. \A g : P(g) <=> Adds(g, RealPart, H)
  BY <1>2 DEF Adds
<1>4. IsFiniteSet(H)
  BY OrderGateAssumption, FS_Subset
<1>5. \E g : P(g)
  BY <1>3, <1>4, AddsExists
<1>6. P(h)
  <2> HIDE DEF P
  <2> QED
    BY <1>5
<1>7. Adds(h, RealPart, H)
  <2> HIDE DEF h, P
  <2> QED
    BY <1>3, <1>6
<1> HIDE DEF h
<1> QED
  BY <1>1, <1>4, <1>7, TotalAdds

\* The parts of an order's dollars are numbers, and are all of them.
LEMMA PartsAreNumbers ==
    ASSUME TypeOK, NEW r \in Requests
    PROVE  /\ order[r].amount \in Nat
           /\ Amount[r] = order[r].amount /\ OpenPart[r] = Opening(order[r])
           /\ RealPart[r] = AlpacaPart(order[r])
           /\ {Amount[r], OpenPart[r], RealPart[r], KalshiPart[r], KalshiOpen[r]} \subseteq Nat
           /\ Amount[r] = RealPart[r] + KalshiPart[r] /\ KalshiOpen[r] <= KalshiPart[r]
<1>1. order[r].amount \in Nat /\ order[r].venue \in {"alpaca", "kalshi"}
  BY OrderGateAssumption DEF TypeOK
<1> QED
  BY <1>1 DEF Amount, OpenPart, RealPart, KalshiPart, KalshiOpen, Opening, AlpacaPart

\* The parts of what stands on a day are numbers, and are all of it.
LEMMA HeldTotals ==
    ASSUME TypeOK, NEW d
    PROVE  LET H == Holding(d) IN
           /\ {Total(Amount, H), Total(OpenPart, H), Total(RealPart, H), Total(KalshiPart, H),
               Total(KalshiOpen, H)} \subseteq Nat
           /\ Total(Amount, H) = Total(RealPart, H) + Total(KalshiPart, H)
           /\ Total(KalshiOpen, H) <= Total(KalshiPart, H)
<1> DEFINE H == Holding(d)
           both == [r \in H |-> RealPart[r] + KalshiPart[r]]
<1>1. IsFiniteSet(H) /\ H \subseteq Requests
  BY HoldingFinite DEF Holding
<1> HIDE DEF H
<1>2. \A r \in H : /\ {Amount[r], OpenPart[r], RealPart[r], KalshiPart[r], KalshiOpen[r]} \subseteq Nat
                   /\ Amount[r] = both[r] /\ KalshiOpen[r] <= KalshiPart[r]
  BY <1>1, PartsAreNumbers
<1>3. Total(both, H) = Total(RealPart, H) + Total(KalshiPart, H)
  BY <1>1, <1>2, TotalsCompare
<1> HIDE DEF both
<1>4. Total(Amount, H) = Total(both, H)
  BY <1>1, <1>2, TotalSame
<1>5. Total(KalshiOpen, H) <= Total(KalshiPart, H)
  BY <1>1, <1>2, TotalBelow
<1>6. \A w : (\A r \in H : w[r] \in Nat) => Total(w, H) \in Nat
  <2> SUFFICES ASSUME NEW w, \A r \in H : w[r] \in Nat PROVE Total(w, H) \in Nat
    OBVIOUS
  <2>1. Total(w, H) \in Int /\ Total(w, H) >= 0
    BY <1>1, TotalType
  <2> QED
    BY <2>1
<1>7. {Total(Amount, H), Total(OpenPart, H), Total(RealPart, H), Total(KalshiPart, H),
       Total(KalshiOpen, H)} \subseteq Nat
  BY <1>2, <1>6
<1> QED
  BY <1>3, <1>4, <1>5, <1>7 DEF H

(* One reservation more, or one less.                                       *)
LEMMA OneMore ==
    ASSUME TypeOK, NEW d, NEW r \in Requests, r \notin Holding(d)
    PROVE  LET H == Holding(d) IN
           /\ Total(Amount, H \cup {r}) = Total(Amount, H) + Amount[r]
           /\ Total(OpenPart, H \cup {r}) = Total(OpenPart, H) + OpenPart[r]
           /\ Total(RealPart, H \cup {r}) = Total(RealPart, H) + RealPart[r]
           /\ Total(KalshiPart, H \cup {r}) = Total(KalshiPart, H) + KalshiPart[r]
           /\ Total(KalshiOpen, H \cup {r}) = Total(KalshiOpen, H) + KalshiOpen[r]
<1>1. IsFiniteSet(Holding(d)) /\ Holding(d) \cup {r} \subseteq Requests
  BY HoldingFinite DEF Holding
<1>2. \A q \in Holding(d) \cup {r} :
        {Amount[q], OpenPart[q], RealPart[q], KalshiPart[q], KalshiOpen[q]} \subseteq Int
  BY <1>1, PartsAreNumbers
<1> QED
  BY <1>1, <1>2, TotalWith

\* What stands on a day, with and without one of its reservations.
LEMMA OneLess ==
    ASSUME TypeOK, NEW d, NEW r \in Holding(d)
    PROVE  LET H == Holding(d) IN
           /\ Total(Amount, H) = Amount[r] + Total(Amount, H \ {r})
           /\ Total(OpenPart, H) = OpenPart[r] + Total(OpenPart, H \ {r})
           /\ Total(RealPart, H) = RealPart[r] + Total(RealPart, H \ {r})
           /\ Total(KalshiOpen, H) = KalshiOpen[r] + Total(KalshiOpen, H \ {r})
<1>1. IsFiniteSet(Holding(d)) /\ Holding(d) \subseteq Requests
  BY HoldingFinite DEF Holding
<1>2. \A q \in Holding(d) :
        {Amount[q], OpenPart[q], RealPart[q], KalshiOpen[q]} \subseteq Int
  BY <1>1, PartsAreNumbers
<1> QED
  BY <1>1, <1>2, TotalWithout

(* What a handler reads of the day's money is what stands.                  *)
LEMMA MoneyIsHeld ==
    ASSUME TypeOK, PlacesInv, MoneyInv
    PROVE  LET today == Counters(row, Today) IN
           /\ today.notional = Total(Amount, Holding(Today))
           /\ today.alpacaOpen = Total(OpenPart, Holding(Today))
           /\ today.alpacaNotional = Total(RealPart, Holding(Today))
<1>1. CASE row.day = Today
  BY <1>1 DEF MoneyInv, Counters
<1>2. CASE row.day # Today
  <2>1. Today \in Nat /\ row.day \in Nat
    BY DaysAreNumbers DEF TypeOK
  <2>2. Holding(Today) = {}
    BY <1>2, <2>1 DEF PlacesInv, Holding, Held, TypeOK
  <2>3. \A w : Total(w, {}) = 0
    BY TotalStep, FS_EmptySet
  <2> QED
    BY <1>2, <2>2, <2>3 DEF Counters, EmptyRow
<1> QED
  BY <1>1, <1>2

(* An order that is admitted leaves the day's two limits kept.              *)
LEMMA MoneyReserve ==
    ASSUME TypeOK, PlacesInv, MoneyInv, NEW r \in Requests, Reserve(r)
    PROVE  MoneyInv'
<1> DEFINE today == Counters(row, Today)
           H == Holding(Today)
<1>1. /\ phase[r] = "priced"
      /\ phase' = [phase EXCEPT ![r] = "reserved"]
      /\ basis' = [basis EXCEPT ![r] = Stamp(r)] /\ Stamp(r).day = Today
      /\ row' = Taken(today, order[r]) /\ Admits(r, today)
      /\ order' = order /\ Today' = Today
  BY DEF Reserve, Stamp, Today
<1>2. Today \in Nat /\ row \in RowType /\ order[r] \in Orders
  BY DaysAreNumbers DEF TypeOK, RowType
<1>3. r \notin H /\ Holding(Today)' = H \cup {r}
  BY <1>1 DEF Holding, TypeOK
<1>4. Amount' = Amount /\ OpenPart' = OpenPart /\ RealPart' = RealPart /\ KalshiOpen' = KalshiOpen
  BY <1>1 DEF Amount, OpenPart, RealPart, KalshiOpen
<1>5. today \in RowType
  BY <1>2, RowsStayRows
<1>6. /\ row'.notional = today.notional + order[r].amount
      /\ row'.alpacaOpen = today.alpacaOpen + Opening(order[r])
      /\ row'.alpacaNotional = today.alpacaNotional + AlpacaPart(order[r])
  <2> HIDE DEF today
  <2> QED
    BY <1>1, <1>5 DEF Taken, RowType
<1>7. /\ today.notional = Total(Amount, H) /\ today.alpacaOpen = Total(OpenPart, H)
      /\ today.alpacaNotional = Total(RealPart, H)
  BY MoneyIsHeld
<1>8. /\ {Total(Amount, H), Total(OpenPart, H), Total(RealPart, H), Total(KalshiPart, H),
          Total(KalshiOpen, H)} \subseteq Nat
      /\ Total(Amount, H) = Total(RealPart, H) + Total(KalshiPart, H)
      /\ Total(KalshiOpen, H) <= Total(KalshiPart, H)
  BY HeldTotals
<1>9. /\ Total(Amount, H \cup {r}) = Total(Amount, H) + Amount[r]
      /\ Total(OpenPart, H \cup {r}) = Total(OpenPart, H) + OpenPart[r]
      /\ Total(RealPart, H \cup {r}) = Total(RealPart, H) + RealPart[r]
      /\ Total(KalshiOpen, H \cup {r}) = Total(KalshiOpen, H) + KalshiOpen[r]
  BY <1>3, OneMore
<1>10. /\ order[r].amount \in Nat /\ Amount[r] = order[r].amount
       /\ OpenPart[r] = Opening(order[r]) /\ RealPart[r] = AlpacaPart(order[r])
       /\ order[r].venue \in {"alpaca", "kalshi"} /\ DayLimit \in Nat /\ KalshiDayCap \in Nat
  BY <1>2, PartsAreNumbers, OrderGateAssumption, GateDayAssumption
<1> HIDE DEF today, H
<1>11. Total(OpenPart, H \cup {r}) <= DayLimit
  <2>1. CASE Opening(order[r]) = 0
    BY <1>8, <1>9, <1>10, <2>1 DEF MoneyInv, H
  <2>2. CASE Opening(order[r]) # 0
    <3>1. RealAdmits(today, order[r], FreshEquity(reading)) /\ ~order[r].exit
          /\ Opening(order[r]) = order[r].amount
      BY <1>1, <2>2 DEF Opening, Admits
    <3>2. PICK equity \in FreshEquity(reading) : today.alpacaOpen + order[r].amount <= DayCap(equity)
      BY <3>1 DEF RealAdmits
    <3>3. equity \in Int
      BY OrderGateAssumption DEF TypeOK, FreshEquity
    <3>4. DayCap(equity) <= DayLimit
      <4>1. OfEquity(equity, DayShare) \in Int
        <5>1. \A n \in Int : n \div 100 \in Int
          OBVIOUS
        <5>2. equity * DayShare \in Int
          BY <3>3, GateDayAssumption
        <5> QED
          BY <5>1, <5>2 DEF OfEquity
      <4> QED
        BY <1>10, <4>1 DEF DayCap, Lower
    <3>5. DayCap(equity) \in Int
      <4>1. OfEquity(equity, DayShare) \in Int
        <5>1. \A n \in Int : n \div 100 \in Int
          OBVIOUS
        <5>2. equity * DayShare \in Int
          BY <3>3, GateDayAssumption
        <5> QED
          BY <5>1, <5>2 DEF OfEquity
      <4> QED
        BY <1>10, <4>1 DEF DayCap, Lower
    <3> QED
      BY <1>7, <1>8, <1>9, <1>10, <3>1, <3>2, <3>4, <3>5
  <2> QED
    BY <2>1, <2>2
<1>12. Total(KalshiOpen, H \cup {r}) <= KalshiDayCap
  <2>1. CASE order[r].venue = "kalshi" /\ ~order[r].exit
    <3>1. KalshiAdmits(today, order[r]) /\ KalshiOpen[r] = order[r].amount
      BY <1>1, <2>1 DEF Admits, KalshiOpen
    <3>2. KalshiNotional(today) + order[r].amount <= KalshiDayCap
      BY <2>1, <3>1 DEF KalshiAdmits
    <3>3. KalshiNotional(today) = Total(KalshiPart, H)
      BY <1>7, <1>8 DEF KalshiNotional
    <3> QED
      BY <1>8, <1>9, <1>10, <3>1, <3>2, <3>3
  <2>2. CASE ~(order[r].venue = "kalshi" /\ ~order[r].exit)
    <3>1. KalshiOpen[r] = 0
      BY <2>2 DEF KalshiOpen
    <3> QED
      BY <1>8, <1>9, <1>10, <3>1 DEF MoneyInv, H
  <2> QED
    BY <2>1, <2>2
<1> QED
  BY <1>1, <1>3, <1>4, <1>6, <1>7, <1>9, <1>10, <1>11, <1>12 DEF MoneyInv

(* A refund takes out of the row what its reservation put in: the floors at *)
(* zero of gate.refund never bite.                                          *)
LEMMA MoneyRefund ==
    ASSUME TypeOK, PlacesInv, MoneyInv, NEW r \in Requests, Refund(r)
    PROVE  MoneyInv'
<1> DEFINE H == Holding(Today)
<1>1. /\ phase[r] = "reserved" /\ phase' = [phase EXCEPT ![r] = "refunded"]
      /\ basis' = basis /\ order' = order /\ Today' = Today
      /\ row' = IF Counters(row, Today).day = basis[r].day
                THEN GivenBack(Counters(row, Today), order[r]) ELSE row
  BY DEF Refund, Today
<1>2. /\ Today \in Nat /\ row \in RowType /\ order[r] \in Orders
      /\ row.day \in Nat /\ basis[r].day \in Nat /\ basis[r].day <= row.day /\ row.day <= Today
  BY <1>1, DaysAreNumbers DEF TypeOK, RowType, PlacesInv, Held
<1>3. Counters(row, Today).day = Today
  BY <1>2, RowsStayRows
<1>4. Amount' = Amount /\ OpenPart' = OpenPart /\ RealPart' = RealPart /\ KalshiOpen' = KalshiOpen
  BY <1>1 DEF Amount, OpenPart, RealPart, KalshiOpen
<1>5. CASE basis[r].day = Today
  <2>1. row.day = Today /\ row' = GivenBack(row, order[r])
    BY <1>1, <1>2, <1>3, <1>5 DEF Counters
  <2>2. /\ row'.notional = Less(row.notional, order[r].amount)
        /\ row'.alpacaOpen = Less(row.alpacaOpen, Opening(order[r]))
        /\ row'.alpacaNotional = Less(row.alpacaNotional, AlpacaPart(order[r]))
    BY <2>1, <1>2 DEF GivenBack, RowType
  <2>3. r \in H /\ Holding(Today)' = H \ {r}
    BY <1>1, <1>5 DEF Holding, TypeOK
  <2>4. /\ Total(Amount, H) = Amount[r] + Total(Amount, H \ {r})
        /\ Total(OpenPart, H) = OpenPart[r] + Total(OpenPart, H \ {r})
        /\ Total(RealPart, H) = RealPart[r] + Total(RealPart, H \ {r})
        /\ Total(KalshiOpen, H) = KalshiOpen[r] + Total(KalshiOpen, H \ {r})
    BY <2>3, OneLess
  <2>5. {Total(Amount, H \ {r}), Total(OpenPart, H \ {r}), Total(RealPart, H \ {r}),
         Total(KalshiOpen, H \ {r})} \subseteq Nat
    <3>2. IsFiniteSet(H \ {r}) /\ H \ {r} \subseteq Requests
      BY HoldingFinite, FS_Subset DEF Holding
    <3>3. \A q \in H \ {r} : /\ Amount[q] \in Nat /\ OpenPart[q] \in Nat
                             /\ RealPart[q] \in Nat /\ KalshiOpen[q] \in Nat
      BY <3>2, PartsAreNumbers
    <3> DEFINE R == H \ {r}
    <3> HIDE DEF R, H
    <3>4. \A w : (\A q \in R : w[q] \in Nat) => Total(w, R) \in Nat
      <4> SUFFICES ASSUME NEW w, \A q \in R : w[q] \in Nat PROVE Total(w, R) \in Nat
        OBVIOUS
      <4>1. Total(w, R) \in Int /\ Total(w, R) >= 0
        BY <3>2, TotalType DEF R
      <4> QED
        BY <4>1
    <3> QED
      BY <3>3, <3>4 DEF R
  <2>6. /\ Amount[r] \in Nat /\ OpenPart[r] \in Nat /\ RealPart[r] \in Nat /\ KalshiOpen[r] \in Nat
        /\ Amount[r] = order[r].amount /\ OpenPart[r] = Opening(order[r])
        /\ RealPart[r] = AlpacaPart(order[r])
    BY PartsAreNumbers
  <2>7. /\ row.notional = Total(Amount, H) /\ row.alpacaOpen = Total(OpenPart, H)
        /\ row.alpacaNotional = Total(RealPart, H)
        /\ Total(OpenPart, H) <= DayLimit /\ Total(KalshiOpen, H) <= KalshiDayCap
    BY <2>1 DEF MoneyInv
  <2> HIDE DEF H
  <2>8. \A a, b \in Nat : Less(a + b, a) = b
    BY DEF Less
  <2>9. /\ row'.notional = Total(Amount, H \ {r}) /\ row'.alpacaOpen = Total(OpenPart, H \ {r})
        /\ row'.alpacaNotional = Total(RealPart, H \ {r})
    <3>1. /\ row'.notional = Less(Amount[r] + Total(Amount, H \ {r}), Amount[r])
          /\ row'.alpacaOpen = Less(OpenPart[r] + Total(OpenPart, H \ {r}), OpenPart[r])
          /\ row'.alpacaNotional = Less(RealPart[r] + Total(RealPart, H \ {r}), RealPart[r])
      BY <2>2, <2>4, <2>6, <2>7
    <3> QED
      BY <2>5, <2>6, <2>8, <3>1
  <2>10. Total(OpenPart, H \ {r}) <= DayLimit /\ Total(KalshiOpen, H \ {r}) <= KalshiDayCap
    BY <2>4, <2>5, <2>6, <2>7, GateDayAssumption
  <2> QED
    BY <1>1, <1>4, <2>3, <2>9, <2>10 DEF MoneyInv
<1>6. CASE basis[r].day # Today
  <2>1. row' = row
    BY <1>1, <1>3, <1>6
  <2>2. Holding(Today)' = Holding(Today)
    BY <1>1, <1>6 DEF Holding, TypeOK
  <2> QED
    BY <1>1, <1>4, <2>1, <2>2 DEF MoneyInv
<1> QED
  BY <1>5, <1>6

\* The clock may end the day: the row of the day before holds no money.
LEMMA MoneyTick ==
    ASSUME TypeOK, PlacesInv, MoneyInv, NEW equity \in Equities, Tick(equity)
    PROVE  MoneyInv'
<1>1. Today \in Nat /\ Today' \in Nat /\ Today <= Today'
  <2>1. now \in Nat /\ now' = now + 1 /\ DayLength \in Nat /\ DayLength > 0
    BY OrderGateAssumption DEF Tick, TypeOK
  <2>2. \A n, d \in Nat : d > 0 => n \div d \in Nat /\ n \div d <= (n + 1) \div d /\ (n + 1) \div d \in Nat
    OBVIOUS
  <2> QED
    BY <2>1, <2>2 DEF Today
<1>2. UNCHANGED <<phase, basis, order, row>>
  BY DEF Tick
<1>3. Amount' = Amount /\ OpenPart' = OpenPart /\ RealPart' = RealPart /\ KalshiOpen' = KalshiOpen
  BY <1>2 DEF Amount, OpenPart, RealPart, KalshiOpen
<1>4. CASE Today' = Today
  <2>1. Holding(Today)' = Holding(Today)
    BY <1>2, <1>4 DEF Holding
  <2> QED
    BY <1>2, <1>3, <1>4, <2>1 DEF MoneyInv
<1>5. CASE Today' # Today
  <2>1. row.day \in Nat /\ row.day < Today'
    BY <1>1, <1>5 DEF TypeOK, PlacesInv
  <2>2. \A r \in Requests : phase[r] \in Held => basis[r].day \in Nat /\ basis[r].day < Today'
    BY <1>1, <2>1 DEF TypeOK, PlacesInv
  <2>3. Holding(Today)' = {}
    BY <1>2, <2>2, <1>1 DEF Holding, Held
  <2>4. \A w : Total(w, {}) = 0
    BY TotalStep, FS_EmptySet
  <2> QED
    BY <1>2, <2>1, <2>3, <2>4, GateDayAssumption DEF MoneyInv
<1> QED
  BY <1>4, <1>5

\* Every step keeps the row's dollars those of what stands.
LEMMA MoneyStep == ASSUME TypeOK, PlacesInv, MoneyInv, [Next]_vars PROVE MoneyInv'
<1>1. ASSUME UNCHANGED <<order, basis, row, now>>,
             \A r \in Requests : phase'[r] \in Held <=> phase[r] \in Held
      PROVE  MoneyInv'
  <2>1. Today' = Today /\ Holding(Today)' = Holding(Today)
    BY <1>1 DEF Today, Holding, Held
  <2>2. Amount' = Amount /\ OpenPart' = OpenPart /\ RealPart' = RealPart /\ KalshiOpen' = KalshiOpen
    BY <1>1 DEF Amount, OpenPart, RealPart, KalshiOpen
  <2> QED
    BY <1>1, <2>1, <2>2 DEF MoneyInv
<1>2. ASSUME NEW r \in Requests, Handler(r), ~Reserve(r), ~Refund(r) PROVE MoneyInv'
  BY <1>1, <1>2, OthersHoldAlike
<1>3. CASE UNCHANGED <<order, basis, row, now, phase>>
  BY <1>1, <1>3
<1> QED
  BY <1>2, <1>3, MoneyReserve, MoneyRefund, MoneyTick
     DEF Next, vars, Handler, Kill, Unkill

\* At first the row holds no money.
LEMMA MoneyInit == ASSUME Init PROVE MoneyInv
<1>1. Holding(Today) = {}
  BY DEF Init, FirstPhase, Holding
<1>2. \A w : Total(w, {}) = 0
  BY TotalStep, FS_EmptySet
<1> QED
  BY <1>1, <1>2, GateDayAssumption DEF Init, EmptyRow, MoneyInv

\* The row's money, its places and its types hold together: each needs the others to be kept.
THEOREM MoneyHolds == Spec => [](TypeOK /\ PlacesInv /\ MoneyInv)
<1>1. Init => TypeOK /\ PlacesInv /\ MoneyInv
  BY TypeInit, PlacesInit, MoneyInit
<1>2. (TypeOK /\ PlacesInv /\ MoneyInv) /\ [Next]_vars => (TypeOK /\ PlacesInv /\ MoneyInv)'
  BY TypeStep, PlacesStep, MoneyStep
<1> QED
  BY <1>1, <1>2, PTL DEF Spec

(* Today's row (gate.mjs: reserve and refund) is today's standing           *)
(* reservations, column by column, for any number of requests, however they *)
(* interleave with failed signatures and the change of day.                 *)
THEOREM RowIsTheSum == Spec => []DayIsTheSum
<1>1. TypeOK /\ PlacesInv /\ MoneyInv => DayIsTheSum
  <2> SUFFICES ASSUME TypeOK, PlacesInv, MoneyInv PROVE DayIsTheSum
    OBVIOUS
  <2>1. Holding(Today) \in SUBSET Requests
    BY DEF Holding
  <2> QED
    BY <2>1, OrdersAreHeld, MoneyIsHeld, AmountsAddUp, OpeningsAddUp, RealPartsAddUp
    DEF DayIsTheSum
<1> QED
  BY <1>1, MoneyHolds, PTL

(* The day's opens never take a place kept for exits, never lose more than  *)
(* MAX_DAY_USD_ALPACA together, and Kalshi's never pass MAX_DAY_USD.        *)
THEOREM OpensAreWithin == Spec => []OpensWithinDay
<1>1. TypeOK /\ PlacesInv /\ MoneyInv => OpensWithinDay
  <2> SUFFICES ASSUME TypeOK, PlacesInv, MoneyInv PROVE OpensWithinDay
    OBVIOUS
  <2> DEFINE H == Holding(Today)
             opens == {r \in H : IsOpen(r)}
             kalshi == {r \in H : order[r].venue = "kalshi" /\ ~order[r].exit}
  <2>1. /\ IsFiniteSet(H) /\ H \subseteq Requests
        /\ opens \in SUBSET H /\ kalshi \in SUBSET H
    BY HoldingFinite DEF Holding
  <2>2. MapThenSumSet(LAMBDA r : order[r].amount, opens) = Total(Amount, opens)
    BY <2>1, AmountsAddUp
  <2>3. MapThenSumSet(LAMBDA r : order[r].amount, kalshi) = Total(Amount, kalshi)
    BY <2>1, AmountsAddUp
  <2>4. /\ \A r \in H : OpenPart[r] \in Int /\ KalshiOpen[r] \in Int
        /\ \A r \in opens : OpenPart[r] = Amount[r]
        /\ \A r \in H \ opens : OpenPart[r] = 0
        /\ \A r \in kalshi : KalshiOpen[r] = Amount[r]
        /\ \A r \in H \ kalshi : KalshiOpen[r] = 0
    BY <2>1, PartsAreNumbers DEF IsOpen, NeedsEquity, Opening, KalshiOpen
  <2>5. Cardinality(opens) <= OpenOrdersCap
    BY DEF PlacesInv, Opens
  <2> HIDE DEF opens, kalshi
  <2>6. Total(OpenPart, H) = Total(Amount, opens)
    <3> HIDE DEF H
    <3> QED
      BY <2>1, <2>4, TotalOnlyOver
  <2>7. Total(KalshiOpen, H) = Total(Amount, kalshi)
    <3> HIDE DEF H
    <3> QED
      BY <2>1, <2>4, TotalOnlyOver
  <2>8. Total(Amount, opens) <= DayLimit /\ Total(Amount, kalshi) <= KalshiDayCap
    BY <2>6, <2>7 DEF MoneyInv
  <2> QED
    BY <2>2, <2>3, <2>5, <2>8 DEF OpensWithinDay, opens, kalshi
<1> QED
  BY <1>1, MoneyHolds, PTL
-----------------------------------------------------------------------------
(* While the switch is off the log's last word of it is no engage, and no   *)
(* reservation noted a length the log has not reached: what makes           *)
(* LogClearsReservations inductive, with the log only growing.              *)
LogInv ==
    /\ ~killed /\ adminLog # <<>> => adminLog[Len(adminLog)] = "unkill"
    /\ \A r \in Requests : basis[r].logged <= Len(adminLog)
    /\ LogClearsReservations

\* Every step keeps the log's last word and the words reservations were made after.
LEMMA LogStep == ASSUME TypeOK, LogInv, [Next]_vars PROVE LogInv'
<1>0. /\ phase \in [Requests -> Phases] /\ adminLog \in Seq({"kill", "unkill"})
      /\ \A r \in Requests : basis[r].logged \in Nat
      /\ basis \in [Requests -> [day : Nat, at : 0..Horizon, sized : SUBSET Equities, logged : Nat]]
  BY DEF TypeOK
<1>1. ASSUME UNCHANGED <<killed, adminLog, basis>>,
             \A r \in Requests : phase'[r] \in {"reserved", "sent", "refunded"} =>
                                 phase[r] \in {"reserved", "sent", "refunded"}
      PROVE  LogInv'
  BY <1>1 DEF LogInv, LogClearsReservations
<1>2. ASSUME NEW r \in Requests, Reserve(r) PROVE LogInv'
  <2>1. /\ phase' = [phase EXCEPT ![r] = "reserved"] /\ basis' = [basis EXCEPT ![r] = Stamp(r)]
        /\ Stamp(r).logged = Len(adminLog) /\ ~killed /\ UNCHANGED <<killed, adminLog>>
    BY <1>2 DEF Reserve, Admits, Stamp
  <2>2. \A q \in Requests \ {r} : basis'[q] = basis[q] /\ phase'[q] = phase[q]
    BY <1>0, <2>1
  <2>3. basis'[r].logged = Len(adminLog)
    BY <1>0, <2>1
  <2>4. Len(adminLog) > 0 => adminLog[Len(adminLog)] = "unkill"
    BY <1>0, <2>1 DEF LogInv
  <2>5. \A q \in Requests : basis'[q].logged <= Len(adminLog)
    BY <1>0, <2>2, <2>3 DEF LogInv
  <2>6. LogClearsReservations'
    BY <2>1, <2>2, <2>3, <2>4 DEF LogInv, LogClearsReservations
  <2> QED
    BY <2>1, <2>5, <2>6 DEF LogInv
<1>3. ASSUME NEW logs \in BOOLEAN, Kill(logs) \/ Unkill(logs) PROVE LogInv'
  <2>1. /\ UNCHANGED <<phase, basis>>
        /\ \/ adminLog' = adminLog /\ killed'
           \/ adminLog' = Append(adminLog, "kill") /\ killed'
           \/ adminLog' = Append(adminLog, "unkill")
    BY <1>3 DEF Kill, Unkill
  <2>2. /\ Len(adminLog) <= Len(adminLog') /\ Len(adminLog) \in Nat /\ Len(adminLog') \in Nat
        /\ \A i \in 1..Len(adminLog) : adminLog'[i] = adminLog[i]
        /\ ~killed' => adminLog'[Len(adminLog')] = "unkill"
    <3>1. CASE adminLog' = adminLog /\ killed'
      BY <1>0, <3>1
    <3>2. ASSUME NEW word \in {"kill", "unkill"}, adminLog' = Append(adminLog, word),
                 word = "unkill" \/ killed'
          PROVE  /\ Len(adminLog) <= Len(adminLog') /\ Len(adminLog) \in Nat /\ Len(adminLog') \in Nat
                 /\ \A i \in 1..Len(adminLog) : adminLog'[i] = adminLog[i]
                 /\ ~killed' => adminLog'[Len(adminLog')] = "unkill"
      <4>1. Len(adminLog') = Len(adminLog) + 1 /\ Len(adminLog) \in Nat
        BY <1>0, <3>2
      <4>2. \A i \in 1..Len(adminLog) : adminLog'[i] = adminLog[i]
        BY <1>0, <3>2
      <4>3. adminLog'[Len(adminLog) + 1] = word
        BY <1>0, <3>2
      <4> QED
        BY <3>2, <4>1, <4>2, <4>3
    <3> QED
      BY <2>1, <3>1, <3>2
  <2>3. \A r \in Requests : basis[r].logged \in Nat /\ basis[r].logged <= Len(adminLog)
    BY <1>0 DEF LogInv
  <2>4. \A r \in Requests : basis[r].logged > 0 => adminLog'[basis[r].logged] = adminLog[basis[r].logged]
    BY <2>2, <2>3
  <2>5. \A r \in Requests : basis'[r].logged <= Len(adminLog')
    BY <2>1, <2>2, <2>3
  <2>6. LogClearsReservations'
    BY <2>1, <2>4 DEF LogInv, LogClearsReservations
  <2> QED
    BY <2>2, <2>5, <2>6 DEF LogInv
<1>4. ASSUME NEW r \in Requests, Handler(r), ~Reserve(r) PROVE LogInv'
  <2>1. UNCHANGED <<killed, adminLog, basis>>
    BY <1>4, PlainHandlers, ReadEnds DEF Handler, Plain, StartFetch, Refund
  <2>2. \/ \E p \in {"priced", "fetching", "refused"} : phase' = [phase EXCEPT ![r] = p]
        \/ phase[r] = "reserved" /\ \E p \in {"refunded", "sent"} : phase' = [phase EXCEPT ![r] = p]
    BY <1>4, ReadEnds DEF Handler, UseStored, Refuse, Forward, StartFetch, Refund
  <2>3. \A q \in Requests : phase'[q] \in {"reserved", "sent", "refunded"} =>
                            phase[q] \in {"reserved", "sent", "refunded"}
    BY <1>0, <2>2
  <2> QED
    BY <1>1, <2>1, <2>3
<1>5. ASSUME (\E equity \in Equities : Tick(equity)) \/ UNCHANGED vars PROVE LogInv'
  <2>1. UNCHANGED <<phase, killed, adminLog, basis>>
    BY <1>5 DEF Tick, vars
  <2> QED
    BY <1>1, <2>1
<1> QED
  BY <1>2, <1>3, <1>4, <1>5 DEF Next

(* The admin log (gate.mjs: setKill, adminRecord) tells of every            *)
(* reservation that the switch did not stand, whatever engages and releases *)
(* were thrown between the handlers' steps and whichever engages went       *)
(* unlogged.                                                                *)
THEOREM LogIsClear == Spec => []LogClearsReservations
<1>1. Init => TypeOK /\ LogInv
  <2> SUFFICES ASSUME Init PROVE LogInv
    BY TypeInit
  <2> QED
    BY DEF Init, FirstPhase, LogInv, LogClearsReservations
<1>2. (TypeOK /\ LogInv) /\ [Next]_vars => (TypeOK /\ LogInv)'
  BY TypeStep, LogStep
<1>3. LogInv => LogClearsReservations
  BY DEF LogInv
<1> QED
  BY <1>1, <1>2, <1>3, PTL DEF Spec
=============================================================================
