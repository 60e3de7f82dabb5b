---------------------------- MODULE Stock_proofs ----------------------------
(***************************************************************************)
(* Proofs about StockCloses and StockBuys, for any set of orders.  Nothing *)
(* sold is ever a short sale; no name and no book of buys ever passes its  *)
(* cap, and the day's row counts each buy of its day once.  Orders may     *)
(* arrive, rest, fill and be shown as late as they like: what is counted   *)
(* on is what the specifications name (PastIsShown, JudgedInTime).         *)
(*                                                                         *)
(* What the two kinds share comes first: the venue, the readings and the   *)
(* ledger are what Sound says; then what each kind promises on top, which  *)
(* every step but an admission, a refund and a reading of the positions    *)
(* keeps for one reason (Plain, Heir).                                     *)
(***************************************************************************)
EXTENDS StockCloses, StockBuys, Totals

Ids(L)     == {e.id : e \in L}
From(L, n) == {e.id : e \in {d \in L : d.nth >= n}}

(* The orders that no entry of L counts against a reading begun at t. *)
Behind(L, t) == {o \in Orders : Standing(o) /\ \A e \in L : e.id = o => ~HeldFor(e, t)}

(* The handlers whose positions are read. *)
Told == {"positions", "read", "ready"}
-----------------------------------------------------------------------------
Phases == Reads \cup {"new", "refused", "refunded", "reserved", "sent", "answered", "unanswered"}
States == Done \cup {"none", "transit", "open", "filled"}
Entry  == [id : Orders, nth : Nat, at : Nat, kind : {"close", "buy"}, symbol : Symbols,
           client : Orders \cup {NoClient}, amount : Nat, settled : Nat \cup {NoTime},
           final : Done \cup {"none", "filled", "refused"}, free : Nat]
Status == [client : Orders \cup {NoClient}, symbol : Symbols, filled : Nat, status : States]
Glance == [at : Nat, open : [Orders -> Nat], seen : [Symbols -> Nat],
             power : Nat, statuses : SUBSET Status]
Trade  == [state : States, filled : Nat, shown : Nat]

Typed ==
    /\ now \in Nat
    /\ phase \in [Orders -> Phases]
    /\ read \in [Orders -> Glance]
    /\ venue \in [Orders -> Trade]

(* What the venue has of an order, and where its handler is. *)
VenueOK(o) ==
    /\ venue[o].shown <= venue[o].filled /\ venue[o].filled <= Size[o]
    /\ venue[o].state = "filled" => venue[o].filled = Size[o]
    /\ venue[o].state \in {"none", "transit", "rejected"} => venue[o].filled = 0
    /\ venue[o].state # "none" <=> phase[o] \in {"sent", "answered", "unanswered"}

EntryOK(e) ==
    /\ Standing(e.id) /\ e.symbol = SymbolOf[e.id] /\ e.client = Client(e.id)
    /\ e.at <= now
    /\ Commit[e.id] <= e.amount
    /\ e.settled # NoTime => e.at <= e.settled
    /\ phase[e.id] = "reserved" =>
          e.amount = Size[e.id] /\ e.settled = NoTime /\ now <= e.at + Pending

(* One entry of each order, in the order they were admitted in. *)
InOrder(L) ==
    \A e, d \in L : /\ e.id = d.id \/ e.nth = d.nth => e = d
                    /\ e.nth <= d.nth => e.at <= d.at

(* What waits for its signature is in the ledger. *)
ReservedIsIn(L) == \A o \in Orders : phase[o] = "reserved" => o \in Ids(L)

LedgerOK(L) ==
    /\ L \subseteq Entry /\ IsFiniteSet(L)
    /\ \A e \in L : EntryOK(e)
    /\ InOrder(L) /\ ReservedIsIn(L)

ReadOK(q) ==
    /\ phase[q] \in Reads => read[q].at <= now
    /\ \A s \in read[q].statuses :
          s.client \in Orders /\ s.status \in Done \cup {"filled"} =>
             venue[s.client].state = s.status /\ venue[s.client].filled = s.filled

(* All but the ledger, which a handler replaces. *)
OrdersOK ==
    /\ Typed
    /\ \A o \in Orders : VenueOK(o) /\ ReadOK(o)

(* What both kinds of orders share. *)
Sound == OrdersOK /\ LedgerOK(ledger)
-----------------------------------------------------------------------------
(* Closes: what an entry found free is what the orders before it leave, for *)
(* as long as nothing admitted since can have left the ledger.              *)
Room(L) ==
    \A e \in L : now <= e.at + Hold + MaxAge =>
                    e.free + Total(Commit, Orders \ From(L, e.nth)) <= Shares

(* What a close's request read, if the gate may still take it, is what the  *)
(* orders that do not count against it leave.                               *)
SeenIsFree(L) ==
    \A q \in Orders : phase[q] \in Told /\ Fresh(q) =>
                         Free(q) + Total(Commit, Behind(L, read[q].at)) <= Shares

ClosesOK(L) ==
    /\ \A e \in L : e.kind = "close"
    /\ Total(Commit, Orders) <= Shares
    /\ Room(L) /\ SeenIsFree(L)

ClosesInv == Sound /\ ClosesOK(ledger)

(* What of an order a reading did not show open. *)
Rest(q) == [o \in Orders |-> Short(Commit[o], read[q].open[o])]

(* Buys: a reading the gate may still take holds, of each symbol, all of    *)
(* what does not count against it and was not open.                         *)
SeenIsAll(L) ==
    \A q \in Orders : phase[q] \in Told /\ Fresh(q) =>
       \A s \in Symbols : Total(Rest(q), Behind(L, read[q].at) \cap Of(s)) <= read[q].seen[s]

(* What the buys may ever have filled is within the caps. *)
InCaps ==
    /\ \A s \in Symbols : Total(Commit, Of(s)) <= SymbolCap
    /\ Total(Commit, Orders) <= BookCap

BuysOK(L) == SeenIsAll(L) /\ InCaps

(* The day's row: no buy that stands was taken on a later day than it, and  *)
(* it is the sum of today's.                                                *)
Taken(d) == {b \in Orders : Standing(b) /\ days[b] = d}

RowOK ==
    /\ bought \in [day : Nat, sum : Nat] /\ days \in [Orders -> Nat]
    /\ bought.day <= DayOf(now)
    /\ \A b \in Orders : Standing(b) => days[b] <= bought.day
    /\ bought.day = DayOf(now) => bought.sum = Total(Size, Taken(bought.day))

BuysInv == Sound /\ BuysOK(ledger) /\ RowOK
-----------------------------------------------------------------------------
\* The constants' types.
LEMMA Bounds ==
    /\ Pending \in Nat /\ Hold \in Nat /\ MaxAge \in Nat /\ Shares \in Nat /\ NoTime = -1
    /\ IsFiniteSet(Orders) /\ NoClient \notin Orders
    /\ \A o \in Orders : Size[o] \in Nat /\ Size[o] > 0 /\ SymbolOf[o] \in Symbols
BY StockLedgerAssumption, StockOrdersAssumption, StockClosesAssumption DEF NoTime, Symbols

\* What a finite set maps to is finite.
LEMMA ImageIsFinite ==
    ASSUME NEW S, IsFiniteSet(S), NEW F
    PROVE  IsFiniteSet({F[x] : x \in S})
<1> DEFINE T == {F[x] : x \in S}
           f == [x \in S |-> F[x]]
<1>1. f \in Surjection(S, T)
  BY DEF Surjection
<1> QED
  BY <1>1, FS_Surjection

\* There are finitely many symbols.
LEMMA SymbolsFinite == IsFiniteSet(Symbols)
BY Bounds, ImageIsFinite DEF Symbols

\* The fields of an entry.
LEMMA EntryTypes ==
    ASSUME NEW e \in Entry
    PROVE  /\ e.id \in Orders /\ e.nth \in Nat /\ e.at \in Nat
           /\ e.amount \in Nat /\ e.free \in Nat /\ e.symbol \in Symbols
           /\ e.settled \in Int /\ (e.settled # NoTime => e.settled \in Nat)
BY Bounds DEF Entry

\* An order at the venue.
LEMMA VenueTypes ==
    ASSUME Typed, NEW o \in Orders
    PROVE  /\ venue[o].state \in States /\ venue[o].filled \in Nat
           /\ venue[o].shown \in Nat /\ phase[o] \in Phases /\ now \in Nat
BY DEF Typed, Trade

\* A reading.
LEMMA ReadTypes ==
    ASSUME Typed, NEW o \in Orders
    PROVE  /\ read[o].at \in Nat /\ read[o].open \in [Orders -> Nat] /\ Free(o) \in Nat
           /\ read[o].seen \in [Symbols -> Nat] /\ read[o].statuses \subseteq Status
BY Bounds DEF Typed, Glance, Free

\* What may be filled is a number.
LEMMA CommitTypes ==
    ASSUME Typed
    PROVE  \A o \in Orders : Commit[o] \in Nat /\ Commit[o] \in Int
BY VenueTypes, Bounds DEF Commit

\* What is standing may be filled, and no other.
LEMMA CommitStands == \A o \in Orders : ~ Standing(o) => Commit[o] = 0
BY DEF Commit

\* What some orders may sell is no more than what others may, if each of the
\* first has nothing to sell or is one of the others with no less.
LEMMA TotalCovers ==
    ASSUME NEW S, IsFiniteSet(S), NEW A \in SUBSET S, NEW B \in SUBSET S, NEW v, NEW w,
           \A x \in S : v[x] \in Nat /\ w[x] \in Nat,
           \A x \in A : w[x] = 0 \/ (x \in B /\ w[x] <= v[x])
    PROVE  /\ Total(w, A) <= Total(v, B)
           /\ Total(w, A) \in Nat /\ Total(v, B) \in Nat
<1> DEFINE both == A \cap B
           rest == A \ both
<1>1. /\ IsFiniteSet(A) /\ IsFiniteSet(B) /\ IsFiniteSet(both) /\ IsFiniteSet(rest)
      /\ both \in SUBSET A /\ both \in SUBSET B
  BY FS_Subset
<1>2. /\ \A x \in A : w[x] \in Int /\ w[x] >= 0
      /\ \A x \in B : v[x] \in Int /\ v[x] >= 0
  OBVIOUS
<1>3. \A x \in rest : w[x] = 0
  OBVIOUS
<1>4. \A x \in both : w[x] \in Int /\ v[x] \in Int /\ w[x] <= v[x]
  OBVIOUS
<1> HIDE DEF both
<1>5. Total(w, A) = Total(w, both) + Total(w, rest)
  BY <1>1, <1>2, TotalSplits
<1>6. Total(v, both) <= Total(v, B)
  BY <1>1, <1>2, TotalSplits
<1>7. Total(w, rest) = 0
  BY <1>1, <1>3, TotalOfNothing
<1>8. Total(w, both) <= Total(v, both)
  BY <1>1, <1>4, TotalBelow
<1>9. /\ Total(w, A) \in Int /\ Total(v, B) \in Int /\ Total(w, both) \in Int
      /\ Total(v, both) \in Int /\ Total(w, A) >= 0 /\ Total(v, B) >= 0
  BY <1>1, <1>2, <1>4, TotalType
<1> QED
  BY <1>5, <1>6, <1>7, <1>8, <1>9

\* What some entries' orders come to is no more than what the entries come to,
\* if it is so of each.
LEMMA EntriesCover ==
    ASSUME NEW L \in SUBSET Entry, IsFiniteSet(L), InOrder(L), NEW S \in SUBSET L, NEW v, NEW am,
           \A e \in S : am[e] \in Nat /\ v[e.id] \in Nat /\ v[e.id] <= am[e]
    PROVE  /\ Total(v, Ids(S)) <= Total(am, S)
           /\ Total(am, S) \in Nat /\ Ids(S) \in SUBSET Orders
<1>1. IsFiniteSet(S)
  BY FS_Subset
<1>2. \A e \in S : /\ e.id \in Orders /\ am[e] \in Nat
                   /\ v[e.id] \in Nat /\ v[e.id] <= am[e]
  BY EntryTypes
<1>3. \A e, d \in S : e.id = d.id => e = d
  BY DEF InOrder
<1>4. Total(v, Ids(S)) <= Total(am, S)
  <2> DEFINE Good(s) == Total(v, Ids(s)) <= Total(am, s)
             T == {s \in SUBSET S : ~ Good(s)}
  <2>1. SUFFICES ASSUME T # {} PROVE FALSE
    OBVIOUS
  <2>2. PICK m \in T : \A t \in T : t \subseteq m => t = m
    <3> T \subseteq SUBSET S
      OBVIOUS
    <3> HIDE DEF T
    <3> QED
      BY <1>1, <2>1, SmallestSubset
  <2>3. m \subseteq S /\ IsFiniteSet(m) /\ ~ Good(m)
    BY <1>1, FS_Subset
  <2>4. \A s \in SUBSET m : s # m => Good(s)
    BY <2>2
  <2> HIDE DEF T
  <2>5. CASE m = {}
    <3>1. Ids(m) = {} /\ IsFiniteSet(Ids(m))
      BY <2>3, <2>5 DEF Ids
    <3>2. Total(v, Ids(m)) = 0 /\ Total(am, m) = 0
      BY <2>3, <2>5, <3>1, TotalStep
    <3> QED
      BY <2>3, <3>2
  <2>6. CASE m # {}
    <3> DEFINE x == AnyOf(m)
               r == m \ {x}
    <3>1. x \in m /\ IsFiniteSet(r) /\ Total(am, m) = am[x] + Total(am, r)
      BY <2>3, <2>6, TotalStep
    <3>2. Good(r) /\ r \subseteq S /\ x \in S
      BY <2>3, <2>4, <3>1
    <3>3. x.id \notin Ids(r) /\ Ids(m) = Ids(r) \cup {x.id} /\ Ids(r) \in SUBSET Orders
      BY <1>2, <1>3, <2>3, <3>1 DEF Ids
    <3> HIDE DEF x, r
    <3>4. IsFiniteSet(Ids(r)) /\ \A y \in Ids(r) \cup {x.id} : v[y] \in Int
      <4>1. IsFiniteSet(Ids(r))
        BY Bounds, FS_Subset, <3>3
      <4>2. \A y \in Ids(r) \cup {x.id} : \E e \in S : y = e.id
        BY <3>2 DEF Ids
      <4> QED
        BY <1>2, <4>1, <4>2
    <3>5. Total(v, Ids(m)) = Total(v, Ids(r)) + v[x.id]
      <4> DEFINE i == Ids(r)
                 z == x.id
      <4>1. IsFiniteSet(i) /\ z \notin i /\ \A y \in i \cup {z} : v[y] \in Int
        BY <3>3, <3>4
      <4> HIDE DEF i, z
      <4>2. Total(v, i \cup {z}) = Total(v, i) + v[z]
        BY <4>1, TotalWith
      <4> QED
        BY <3>3, <4>2 DEF i, z
    <3>6. Total(v, Ids(r)) \in Int
      BY <3>4, TotalType
    <3>7. Total(am, r) \in Int
      BY <1>2, <3>1, <3>2, TotalType
    <3> QED
      BY <1>2, <2>3, <3>1, <3>2, <3>5, <3>6, <3>7
  <2> QED
    BY <2>5, <2>6
<1>5. Total(am, S) \in Int /\ Total(am, S) >= 0
  BY <1>1, <1>2, TotalType
<1>6. Ids(S) \in SUBSET Orders
  BY <1>2 DEF Ids
<1> QED
  BY <1>4, <1>5, <1>6

\* The model's sum of the entries' amounts.
LEMMA AmountsAddUp ==
    ASSUME NEW S, IsFiniteSet(S)
    PROVE  AmountOf(S) = Total([e \in S |-> e.amount], S)
<1> DEFINE am == [e \in S |-> e.amount]
           P(g) == g = [s \in SUBSET S |-> IF s = {} THEN 0
                          ELSE AnyOf(s).amount + g[s \ {AnyOf(s)}]]
           h == CHOOSE g : P(g)
<1>1. AmountOf(S) = h[S]
  BY DEF AmountOf, MapThenSumSet, MapThenFoldSet, AnyOf
<1>2. \A s \in SUBSET S : s # {} => AnyOf(s).amount = am[AnyOf(s)]
  BY AnyIn
<1>3. \A g : P(g) <=> Adds(g, am, S)
  <2> HIDE DEF am
  <2> QED
    BY <1>2 DEF Adds
<1>4. \E g : P(g)
  <2> HIDE DEF am
  <2> QED
    BY <1>3, AddsExists
<1>5. P(h)
  <2> HIDE DEF P
  <2> QED
    BY <1>4
<1>6. Adds(h, am, S)
  <2> HIDE DEF h, P, am
  <2> QED
    BY <1>3, <1>5
<1> HIDE DEF h, am
<1>7. AmountOf(S) = Total(am, S)
  BY <1>1, <1>6, TotalAdds
<1> QED
  BY <1>7 DEF am

\* The orders of some entries may fill no more than the entries ask.
LEMMA AskedCovers ==
    ASSUME OrdersOK, NEW L \in SUBSET Entry, IsFiniteSet(L), InOrder(L),
           \A e \in L : EntryOK(e), NEW S \in SUBSET L
    PROVE  /\ Total(Commit, Ids(S)) <= AmountOf(S)
           /\ AmountOf(S) \in Nat /\ Ids(S) \in SUBSET Orders
<1> DEFINE am == [e \in S |-> e.amount]
<1>1. AmountOf(S) = Total(am, S)
  BY FS_Subset, AmountsAddUp
<1>2. \A e \in S : am[e] \in Nat /\ Commit[e.id] \in Nat /\ Commit[e.id] <= am[e]
  BY EntryTypes, CommitTypes DEF OrdersOK, EntryOK
<1> HIDE DEF am
<1> QED
  BY <1>1, <1>2, EntriesCover
-----------------------------------------------------------------------------
(* The entries are renewed one by one, and stay who and when they were; the *)
(* hold of one may begin now.                                               *)
Same(e, d) == /\ e.id = d.id /\ e.nth = d.nth /\ e.at = d.at /\ e.free = d.free
              /\ e.kind = d.kind
              /\ d.settled = e.settled \/ (d.settled = now /\ now # NoTime)

Renewed(L, K) == \E F : K = {F[e] : e \in L} /\ \A e \in L : Same(e, F[e])

(* The ledger as a handler leaves it: the same, or pruned and renewed. *)
Heir(K) == K = ledger \/ Renewed(Pruned(ledger, now), K)

\* What a renewal keeps.
LEMMA RenewedIds ==
    ASSUME now \in Nat, NEW L, NEW K, Renewed(L, K)
    PROVE  /\ IsFiniteSet(L) => IsFiniteSet(K)
           /\ \A d \in K : \E e \in L : Same(e, d)
           /\ Ids(K) = Ids(L)
           /\ \A n : From(K, n) = From(L, n)
           /\ \A t \in Nat : t <= now => Behind(K, t) \subseteq Behind(L, t)
           /\ InOrder(L) => InOrder(K)
<1>1. PICK F : K = {F[e] : e \in L} /\ \A e \in L : Same(e, F[e])
  BY DEF Renewed
<1>2. IsFiniteSet(L) => IsFiniteSet(K)
  BY <1>1, ImageIsFinite
<1>3. \A d \in K : \E e \in L : d = F[e] /\ Same(e, d)
  BY <1>1
<1>4. \A e \in L : F[e] \in K /\ Same(e, F[e])
  BY <1>1
<1>5. Ids(K) = Ids(L)
  BY <1>3, <1>4 DEF Ids, Same
<1>6. ASSUME NEW n PROVE From(K, n) = From(L, n)
  <2>1. From(K, n) \subseteq From(L, n)
    BY <1>3 DEF From, Same
  <2>2. From(L, n) \subseteq From(K, n)
    BY <1>4 DEF From, Same
  <2> QED
    BY <2>1, <2>2
<1>7. ASSUME NEW t \in Nat, t <= now PROVE Behind(K, t) \subseteq Behind(L, t)
  <2>1. ASSUME NEW e \in L, HeldFor(e, t) PROVE HeldFor(F[e], t)
    <3>1. CASE F[e].settled = e.settled
      BY <1>4, <2>1, <3>1 DEF Same, HeldFor, Answered
    <3>2. CASE F[e].settled = now /\ now # NoTime
      BY <1>7, <3>2, Bounds DEF HeldFor, Answered
    <3> QED
      BY <1>4, <3>1, <3>2 DEF Same
  <2> QED
    BY <1>4, <2>1 DEF Behind, Same
<1>8. ASSUME InOrder(L) PROVE InOrder(K)
  <2> SUFFICES ASSUME NEW e \in K, NEW d \in K
               PROVE  /\ e.id = d.id \/ e.nth = d.nth => e = d
                      /\ e.nth <= d.nth => e.at <= d.at
    BY DEF InOrder
  <2>1. PICK x \in L : e = F[x] /\ Same(x, e)
    BY <1>3
  <2>2. PICK y \in L : d = F[y] /\ Same(y, d)
    BY <1>3
  <2>3. /\ x.id = y.id \/ x.nth = y.nth => x = y
        /\ x.nth <= y.nth => x.at <= y.at
    BY <1>8 DEF InOrder
  <2> QED
    BY <2>1, <2>2, <2>3 DEF Same
<1> QED
  BY <1>2, <1>3, <1>5, <1>6, <1>7, <1>8


\* A renewed ledger is as good, if its entries are.
LEMMA RenewedOK ==
    ASSUME now \in Nat, NEW L, LedgerOK(L), NEW K \in SUBSET Entry, Renewed(L, K),
           \A e \in K : EntryOK(e)
    PROVE  LedgerOK(K)
BY RenewedIds DEF LedgerOK, ReservedIsIn

\* An entry's hold starts no sooner than it was admitted.
LEMMA AnsweredTypes ==
    ASSUME NEW e \in Entry, EntryOK(e)
    PROVE  Answered(e) \in Int /\ e.at \in Nat /\ e.at <= Answered(e)
BY EntryTypes, Bounds DEF EntryOK, Answered

\* What leaves the ledger with time no longer waits for a signature.
LEMMA PrunedOK ==
    ASSUME OrdersOK, NEW L, LedgerOK(L)
    PROVE  LedgerOK(Pruned(L, now))
<1> DEFINE K == Pruned(L, now)
<1>1. /\ L \subseteq Entry /\ IsFiniteSet(L) /\ InOrder(L) /\ ReservedIsIn(L)
      /\ \A e \in L : EntryOK(e)
  BY DEF LedgerOK
<1>2. K \subseteq L /\ IsFiniteSet(K)
  BY <1>1, FS_Subset DEF Pruned
<1>3. now \in Nat /\ {Pending, Hold, MaxAge} \subseteq Nat
  BY Bounds DEF OrdersOK, Typed
<1>4. ASSUME NEW e \in L, phase[e.id] = "reserved" PROVE e \in K
  <2>1. e.settled = NoTime /\ now <= e.at + Pending /\ e.at \in Nat
    BY <1>1, <1>4, EntryTypes DEF EntryOK
  <2> QED
    BY <1>3, <2>1 DEF Pruned, Answered
<1> HIDE DEF K
<1>5. InOrder(K)
  BY <1>1, <1>2 DEF InOrder
<1>6. ReservedIsIn(K)
  BY <1>1, <1>4 DEF ReservedIsIn, Ids
<1> QED
  BY <1>1, <1>2, <1>5, <1>6 DEF LedgerOK, K

\* What a status read teaches an entry is true of the order.
LEMMA LearnedOK ==
    ASSUME OrdersOK, NEW L, LedgerOK(L), NEW c \in Orders, NEW kind
    PROVE  /\ LedgerOK(Learned(L, read[c].statuses, kind))
           /\ Renewed(L, Learned(L, read[c].statuses, kind))
<1> DEFINE st == read[c].statuses
           G(e) == LearnedEntry(e, st, kind)
           F == [e \in L |-> G(e)]
           K == Learned(L, st, kind)
<1>0. /\ L \in SUBSET Entry /\ \A e \in L : EntryOK(e)
      /\ \A s \in st : s \in Status /\ s.filled \in Nat
      /\ \A s \in st : s.client \in Orders /\ s.status \in Done \cup {"filled"} =>
             venue[s.client].state = s.status /\ venue[s.client].filled = s.filled
  BY ReadTypes DEF LedgerOK, OrdersOK, ReadOK, Status
<1> HIDE DEF st
<1>1. ASSUME NEW e \in L
      PROVE  G(e) \in Entry /\ Same(e, G(e)) /\ EntryOK(G(e))
  <2>1. e \in Entry /\ EntryOK(e)
    BY <1>0
  <2>2. /\ e.id \in Orders /\ e.at \in Nat /\ e.amount \in Nat /\ Commit[e.id] \in Nat
        /\ e.client = Client(e.id)
    BY <2>1, EntryTypes, CommitTypes DEF OrdersOK, EntryOK
  <2>3. CASE G(e) = e
    BY <2>1, <2>3 DEF Same
  <2>4. CASE G(e) # e
    <3> DEFINE rows == {s \in st : /\ s.client = e.client /\ s.symbol = e.symbol
                                   /\ s.status \in Done \cup {"filled"}}
               row == CHOOSE s \in rows : TRUE
    <3>1. /\ rows # {} /\ e.client # NoClient
          /\ G(e) = [e EXCEPT !.final = row.status,
                        !.amount = IF row.status # "filled" /\ row.filled < @
                                   THEN row.filled ELSE @]
      BY <2>4 DEF LearnedEntry
    <3>2. row \in rows
      BY <3>1
    <3> HIDE DEF row
    <3> PICK s \in rows : s = row
      BY <3>2
    <3>3. /\ s.client = e.id /\ s.status \in Done \cup {"filled"} /\ s.filled \in Nat
          /\ venue[e.id].state = s.status /\ venue[e.id].filled = s.filled
      BY <1>0, <2>2, <3>1 DEF Client
    <3> DEFINE a == IF s.status # "filled" /\ s.filled < e.amount THEN s.filled ELSE e.amount
               g == G(e)
    <3> HIDE DEF rows
    <3>4. g = [e EXCEPT !.final = s.status, !.amount = a]
      BY <3>1
    <3>5. a \in Nat
      BY <2>2, <3>3
    <3>6. Commit[e.id] <= a
      <4>1. Commit[e.id] <= e.amount
        BY <2>1 DEF EntryOK
      <4>2. ASSUME s.status # "filled" PROVE Commit[e.id] <= s.filled
        <5>1. Commit[e.id] = s.filled
          BY <2>1, <2>2, <3>3, <4>2 DEF Commit, EntryOK
        <5> QED
          BY <3>3, <5>1
      <4> QED
        BY <4>1, <4>2
    <3> HIDE DEF a, g
    <3>7. /\ g.id = e.id /\ g.nth = e.nth /\ g.at = e.at /\ g.free = e.free
          /\ g.kind = e.kind /\ g.symbol = e.symbol /\ g.client = e.client /\ g.settled = e.settled
          /\ g.amount = a /\ g \in Entry
      BY <2>1, <3>3, <3>4, <3>5 DEF Entry
    <3>8. phase[e.id] # "reserved"
      BY <2>2, <3>3 DEF OrdersOK, VenueOK, Done
    <3>9. EntryOK(g)
      BY <2>1, <3>6, <3>7, <3>8 DEF EntryOK
    <3> QED
      BY <3>7, <3>9 DEF Same, g
  <2> QED
    BY <2>3, <2>4
<1>2. K = {G(e) : e \in L}
  BY DEF Learned
<1> HIDE DEF G
<1>3. Renewed(L, K)
  <2>1. K = {F[e] : e \in L} /\ \A e \in L : Same(e, F[e])
    BY <1>1, <1>2
  <2> HIDE DEF F, K
  <2> QED
    BY <2>1 DEF Renewed
<1>4. K \in SUBSET Entry /\ \A e \in K : EntryOK(e)
  BY <1>1, <1>2
<1> HIDE DEF K
<1>5. LedgerOK(K)
  BY <1>3, <1>4, RenewedOK DEF OrdersOK, Typed
<1> QED
  BY <1>3, <1>5 DEF K, st

\* An answer settles its order, and a refused one has sold nothing.
LEMMA SettledOK ==
    ASSUME OrdersOK, NEW L, LedgerOK(L), NEW o \in Orders, phase[o] = "sent",
           NEW refused \in {venue[o].state = "rejected", FALSE}
    PROVE  /\ LedgerOK(Settled(L, o, now, refused))
           /\ Renewed(L, Settled(L, o, now, refused))
<1> DEFINE G(e) == SettledEntry(e, o, now, refused)
           F == [e \in L |-> G(e)]
           K == Settled(L, o, now, refused)
<1>0. /\ L \in SUBSET Entry /\ \A e \in L : EntryOK(e)
      /\ now \in Nat /\ VenueOK(o)
  BY DEF LedgerOK, OrdersOK, Typed
<1>1. ASSUME NEW e \in L
      PROVE  G(e) \in Entry /\ Same(e, G(e)) /\ EntryOK(G(e))
  <2>1. e \in Entry /\ EntryOK(e)
    BY <1>0
  <2>2. /\ e.id \in Orders /\ e.at \in Nat /\ e.amount \in Nat /\ Commit[e.id] \in Nat
        /\ e.at <= now /\ now # NoTime
    BY <1>0, <2>1, EntryTypes, CommitTypes, Bounds DEF OrdersOK, EntryOK
  <2>3. CASE e.id # o \/ e.settled # NoTime
    <3>1. G(e) = e
      BY <2>3 DEF SettledEntry
    <3> QED
      BY <2>1, <3>1 DEF Same
  <2>4. CASE e.id = o /\ e.settled = NoTime /\ refused /\ e.final = "none"
    <3> DEFINE g == G(e)
    <3>1. g = [e EXCEPT !.settled = now, !.final = "refused", !.amount = 0]
      BY <2>4 DEF SettledEntry
    <3>2. venue[o].state = "rejected" /\ venue[o].filled = 0
      BY <1>0, <2>4 DEF VenueOK
    <3>3. Commit[e.id] = 0
      BY <2>2, <2>4, <3>2 DEF Commit, Done
    <3> HIDE DEF g
    <3>4. /\ g.id = e.id /\ g.nth = e.nth /\ g.at = e.at /\ g.free = e.free
          /\ g.kind = e.kind /\ g.symbol = e.symbol /\ g.client = e.client /\ g.settled = now
          /\ g.amount = 0 /\ g \in Entry
      BY <1>0, <2>1, <3>1 DEF Entry
    <3>5. EntryOK(g)
      BY <2>1, <2>2, <2>4, <3>3, <3>4 DEF EntryOK
    <3> QED
      BY <2>2, <3>4, <3>5 DEF Same, g
  <2>5. CASE e.id = o /\ e.settled = NoTime /\ ~ (refused /\ e.final = "none")
    <3> DEFINE g == G(e)
    <3>1. g = [e EXCEPT !.settled = now]
      BY <2>5 DEF SettledEntry
    <3> HIDE DEF g
    <3>4. /\ g.id = e.id /\ g.nth = e.nth /\ g.at = e.at /\ g.free = e.free
          /\ g.kind = e.kind /\ g.symbol = e.symbol /\ g.client = e.client /\ g.settled = now
          /\ g.amount = e.amount /\ g \in Entry
      BY <1>0, <2>1, <3>1 DEF Entry
    <3>5. EntryOK(g)
      BY <2>1, <2>2, <2>5, <3>4 DEF EntryOK
    <3> QED
      BY <2>2, <3>4, <3>5 DEF Same, g
  <2> QED
    BY <2>3, <2>4, <2>5
<1>2. K = {G(e) : e \in L}
  BY DEF Settled
<1> HIDE DEF G
<1>3. Renewed(L, K)
  <2>1. K = {F[e] : e \in L} /\ \A e \in L : Same(e, F[e])
    BY <1>1, <1>2
  <2> HIDE DEF F, K
  <2> QED
    BY <2>1 DEF Renewed
<1>4. K \in SUBSET Entry /\ \A e \in K : EntryOK(e)
  BY <1>1, <1>2
<1> HIDE DEF K
<1>5. LedgerOK(K)
  BY <1>0, <1>3, <1>4, RenewedOK
<1> QED
  BY <1>3, <1>5 DEF K

\* The ledger a handler works on.
LEMMA KnownOK ==
    ASSUME Sound, NEW c \in Orders, NEW kind
    PROVE  LedgerOK(Known(c, kind)) /\ Heir(Known(c, kind))
BY PrunedOK, LearnedOK DEF Known, Sound, Heir

-----------------------------------------------------------------------------
(* A step that admits, refunds and tells no order the positions: no more    *)
(* may be filled than before, and a handler knows what it knew.             *)
Plain ==
    /\ now \in Nat /\ now' \in Nat /\ now <= now'
    /\ \A p \in Orders :
          /\ Standing(p)' <=> Standing(p)
          /\ Commit'[p] \in Nat /\ Commit'[p] <= Commit[p]
          /\ phase'[p] \in Told => /\ phase[p] \in Told
                                   /\ read'[p].at = read[p].at /\ read'[p].seen = read[p].seen
                                   /\ read'[p].open = read[p].open

(* A step of one request before it is admitted: its phase and its reading. *)
ReadsOnly(c) ==
    /\ UNCHANGED <<now, venue>>
    /\ phase' \in [Orders -> Phases] /\ read' \in [Orders -> Glance]
    /\ \A q \in Orders \ {c} : phase'[q] = phase[q] /\ read'[q] = read[q]
    /\ phase[c] \in Reads \cup {"new", "refused"} /\ phase'[c] \in Reads \cup {"new", "refused"}

\* Such a step keeps what both kinds share.
LEMMA ReadStep ==
    ASSUME OrdersOK, NEW c \in Orders, ReadsOnly(c), ReadOK(c)', NEW L, LedgerOK(L)
    PROVE  /\ OrdersOK' /\ LedgerOK(L)'
           /\ Commit' = Commit /\ \A o \in Orders : Standing(o)' <=> Standing(o)
<1>1. /\ now' = now /\ venue' = venue
      /\ phase' \in [Orders -> Phases] /\ read' \in [Orders -> Glance]
      /\ \A q \in Orders \ {c} : phase'[q] = phase[q] /\ read'[q] = read[q]
      /\ phase[c] \in Reads \cup {"new", "refused"} /\ phase'[c] \in Reads \cup {"new", "refused"}
  BY DEF ReadsOnly
<1>2. \A o \in Orders : Standing(o)' <=> Standing(o)
  BY <1>1 DEF Standing, Reads
<1>3. Commit' = Commit
  BY <1>1, <1>2 DEF Commit
<1>4. Typed' /\ \A o \in Orders : VenueOK(o)'
  BY <1>1 DEF OrdersOK, Typed, VenueOK, Reads
<1>5. \A q \in Orders : ReadOK(q)'
  BY <1>1 DEF OrdersOK, ReadOK
<1>6. OrdersOK'
  BY <1>4, <1>5 DEF OrdersOK
<1>7. ASSUME NEW e \in L PROVE EntryOK(e)'
  <2>1. EntryOK(e) /\ e.id \in Orders
    BY EntryTypes DEF LedgerOK
  <2>2. phase'[e.id] = "reserved" => phase[e.id] = "reserved"
    BY <1>1, <2>1 DEF Reads
  <2> QED
    BY <1>1, <1>2, <1>3, <2>1, <2>2 DEF EntryOK
<1>8. ReservedIsIn(L)'
  BY <1>1 DEF LedgerOK, ReservedIsIn, Reads
<1>9. InOrder(L)'
  BY DEF LedgerOK, InOrder
<1> QED
  BY <1>2, <1>3, <1>6, <1>7, <1>8, <1>9 DEF LedgerOK

\* It is plain if it does not tell the positions.
LEMMA ReadPlain ==
    ASSUME OrdersOK, NEW c \in Orders, ReadsOnly(c), ReadOK(c)', NEW L, LedgerOK(L),
           phase'[c] \in Told => /\ phase[c] \in Told
                                 /\ read'[c].at = read[c].at /\ read'[c].seen = read[c].seen
                                 /\ read'[c].open = read[c].open
    PROVE  OrdersOK' /\ LedgerOK(L)' /\ Plain
<1>1. /\ OrdersOK' /\ LedgerOK(L)'
      /\ Commit' = Commit /\ \A o \in Orders : Standing(o)' <=> Standing(o)
  BY ReadStep
<1>2. now \in Nat /\ \A p \in Orders : Commit[p] \in Nat
  BY CommitTypes DEF OrdersOK, Typed
<1> QED
  BY <1>1, <1>2 DEF Plain, ReadsOnly

(* A step of an order that stands: the venue's, or its forward and answer. *)
StandsOnly(o) ==
    /\ UNCHANGED <<now, read>>
    /\ phase' \in [Orders -> Phases] /\ venue' \in [Orders -> Trade]
    /\ \A p \in Orders \ {o} : phase'[p] = phase[p] /\ venue'[p] = venue[p]
    /\ Standing(o) /\ Standing(o)'

\* Such a step is plain, if no more may be filled for it than before.
LEMMA StandStep ==
    ASSUME OrdersOK, NEW o \in Orders, StandsOnly(o), VenueOK(o)',
           Commit'[o] <= Commit[o], phase'[o] # "reserved" \/ phase[o] = "reserved",
           venue[o].state \in Done \cup {"filled"} =>
              venue'[o].state = venue[o].state /\ venue'[o].filled = venue[o].filled,
           NEW L, LedgerOK(L), \A e \in L : e.id = o => EntryOK(e)'
    PROVE  OrdersOK' /\ LedgerOK(L)' /\ Plain
<1>1. /\ now' = now /\ read' = read
      /\ phase' \in [Orders -> Phases] /\ venue' \in [Orders -> Trade]
      /\ \A p \in Orders \ {o} : phase'[p] = phase[p] /\ venue'[p] = venue[p]
  BY DEF StandsOnly
<1>2. \A p \in Orders : Standing(p)' <=> Standing(p)
  BY <1>1 DEF StandsOnly, Standing
<1>3. Typed' /\ now \in Nat
  BY <1>1 DEF OrdersOK, Typed
<1>4. \A p \in Orders : Commit'[p] \in Nat /\ Commit'[p] <= Commit[p]
  <2>1. \A p \in Orders : Commit[p] \in Nat
    BY CommitTypes DEF OrdersOK
  <2>2. \A p \in Orders : Commit'[p] \in Nat
    BY <1>3, VenueTypes, Bounds DEF Commit, Typed, Trade
  <2>3. \A p \in Orders \ {o} : Commit'[p] = Commit[p]
    BY <1>1, <1>2 DEF Commit
  <2> QED
    BY <2>1, <2>2, <2>3
<1>5. OrdersOK'
  <2>1. \A p \in Orders : VenueOK(p)'
    BY <1>1 DEF OrdersOK, VenueOK
  <2>2. \A q \in Orders : ReadOK(q)'
    <3> SUFFICES ASSUME NEW q \in Orders PROVE ReadOK(q)'
      OBVIOUS
    <3>1. ReadOK(q)
      BY DEF OrdersOK
    <3>2. phase'[q] \in Reads => phase[q] \in Reads
      BY <1>1, <1>2 DEF StandsOnly, Standing, Reads
    <3>3. \A p \in Orders : venue[p].state \in Done \cup {"filled"} =>
              venue'[p].state = venue[p].state /\ venue'[p].filled = venue[p].filled
      BY <1>1
    <3> QED
      BY <1>1, <3>1, <3>2, <3>3 DEF ReadOK
  <2> QED
    BY <1>3, <2>1, <2>2 DEF OrdersOK
<1>6. ASSUME NEW e \in L PROVE EntryOK(e)'
  <2>1. EntryOK(e) /\ e.id \in Orders
    BY EntryTypes DEF LedgerOK
  <2>2. CASE e.id # o
    <3>1. Commit'[e.id] = Commit[e.id]
      BY <1>1, <1>2, <2>1, <2>2 DEF Commit
    <3> QED
      BY <1>1, <1>2, <2>1, <2>2, <3>1 DEF EntryOK
  <2> QED
    BY <2>2
<1>7. ReservedIsIn(L)'
  BY <1>1 DEF LedgerOK, ReservedIsIn
<1>8. InOrder(L)'
  BY DEF LedgerOK, InOrder
<1>9. Plain
  <2>1. \A p \in Orders : phase'[p] \in Told => phase[p] \in Told
    BY <1>1 DEF StandsOnly, Standing, Told
  <2> QED
    BY <1>1, <1>2, <1>3, <1>4, <2>1 DEF Plain
<1> QED
  BY <1>5, <1>6, <1>7, <1>8, <1>9 DEF LedgerOK

-----------------------------------------------------------------------------
\* The steps of a request before it is admitted.
LEMMA NoReadingType == NoReading \in Glance /\ NoReading.statuses = {}
BY Bounds DEF NoReading, Glance

\* What rests at the venue is a number.
LEMMA RestingTypes ==
    ASSUME OrdersOK
    PROVE  \A o \in Orders : Resting[o] \in Nat
BY VenueTypes, Bounds DEF OrdersOK, VenueOK, Resting

\* A reading begins.
LEMMA BeginStep ==
    ASSUME Sound, NEW c \in Orders, BeginRead(c)
    PROVE  Sound' /\ Plain /\ ledger' = ledger
<1>1. PICK L : L = ledger
  OBVIOUS
<1>2. OrdersOK /\ LedgerOK(L) /\ Typed /\ ReadOK(c)
  BY <1>1 DEF Sound, OrdersOK
<1>3. PICK g : g = [read[c] EXCEPT !.at = now]
  OBVIOUS
<1>4. /\ phase[c] = "new" /\ phase' = [phase EXCEPT ![c] = "begun"]
      /\ read' = [read EXCEPT ![c] = g] /\ now' = now /\ venue' = venue /\ ledger' = L
  BY <1>1, <1>3 DEF BeginRead, Moves
<1>5. g \in Glance /\ g.at = now /\ g.statuses = read[c].statuses /\ now \in Nat
  BY <1>2, <1>3 DEF Typed, Glance
<1>6. /\ ReadsOnly(c) /\ phase'[c] = "begun" /\ read'[c] = g
  BY <1>2, <1>4, <1>5 DEF ReadsOnly, Typed, Phases, Reads
<1>7. ReadOK(c)'
  BY <1>2, <1>4, <1>5, <1>6, Bounds DEF ReadOK, Reads
<1>8. OrdersOK' /\ LedgerOK(L)' /\ Plain
  BY <1>2, <1>6, <1>7, ReadPlain DEF Told
<1> QED
  BY <1>1, <1>4, <1>8 DEF Sound

\* The open orders are read.
LEMMA OrdersStep ==
    ASSUME Sound, NEW c \in Orders, ReadOrders(c)
    PROVE  Sound' /\ Plain /\ ledger' = ledger
<1>1. PICK L : L = ledger
  OBVIOUS
<1>2. OrdersOK /\ LedgerOK(L) /\ Typed /\ ReadOK(c)
  BY <1>1 DEF Sound, OrdersOK
<1>3. PICK g : g = [read[c] EXCEPT !.open = Resting]
  OBVIOUS
<1>4. /\ phase[c] = "begun" /\ phase' = [phase EXCEPT ![c] = "orders"]
      /\ read' = [read EXCEPT ![c] = g] /\ now' = now /\ venue' = venue /\ ledger' = L
  BY <1>1, <1>3 DEF ReadOrders, Moves
<1>5. Resting \in [Orders -> Nat]
  BY <1>2, RestingTypes DEF Resting
<1>6. g \in Glance /\ g.at = read[c].at /\ g.statuses = read[c].statuses
  BY <1>2, <1>3, <1>5 DEF Typed, Glance
<1>7. /\ ReadsOnly(c) /\ phase'[c] = "orders" /\ read'[c] = g
  BY <1>2, <1>4, <1>6 DEF ReadsOnly, Typed, Phases, Reads
<1>8. ReadOK(c)'
  BY <1>2, <1>4, <1>6, <1>7 DEF ReadOK, Reads
<1>9. OrdersOK' /\ LedgerOK(L)' /\ Plain
  BY <1>2, <1>7, <1>8, ReadPlain DEF Told
<1> QED
  BY <1>1, <1>4, <1>9 DEF Sound

\* A request that goes no further, with the ledger as it was or as it learned.
LEMMA DroppedStep ==
    ASSUME OrdersOK, NEW L, LedgerOK(L), NEW c \in Orders,
           phase[c] \in Reads, phase' = [phase EXCEPT ![c] = "refused"],
           read' = [read EXCEPT ![c] = NoReading], now' = now, venue' = venue
    PROVE  OrdersOK' /\ LedgerOK(L)' /\ Plain
<1>1. Typed /\ NoReading \in Glance /\ NoReading.statuses = {}
  BY NoReadingType DEF OrdersOK
<1>2. /\ phase' \in [Orders -> Phases] /\ read' \in [Orders -> Glance]
      /\ phase'[c] = "refused" /\ read'[c] = NoReading
  BY <1>1 DEF Typed, Phases
<1>3. ReadsOnly(c)
  BY <1>1, <1>2 DEF ReadsOnly, Typed
<1>4. ReadOK(c)'
  BY <1>1, <1>2 DEF ReadOK, Reads
<1> QED
  BY <1>2, <1>3, <1>4, ReadPlain DEF Told

\* A read fails.
LEMMA FailsStep ==
    ASSUME Sound, NEW c \in Orders, ReadFails(c)
    PROVE  Sound' /\ Plain /\ ledger' = ledger
<1>1. PICK L : L = ledger
  OBVIOUS
<1>2. /\ OrdersOK /\ LedgerOK(L) /\ phase[c] \in Reads
      /\ phase' = [phase EXCEPT ![c] = "refused"] /\ read' = [read EXCEPT ![c] = NoReading]
      /\ now' = now /\ venue' = venue /\ ledger' = L
  BY <1>1 DEF Sound, ReadFails, Reads
<1>3. OrdersOK' /\ LedgerOK(L)' /\ Plain
  BY <1>2, DroppedStep
<1> QED
  BY <1>1, <1>2, <1>3 DEF Sound

\* The gate refuses.
LEMMA RefuseStep ==
    ASSUME Sound, NEW c \in Orders, NEW kind, Refuse(c, kind)
    PROVE  Sound' /\ Plain /\ Heir(ledger')
<1>1. PICK L \in {ledger, Known(c, kind)} : ledger' = L
  BY DEF Refuse
<1>2. /\ OrdersOK /\ LedgerOK(L) /\ phase[c] \in Reads
      /\ phase' = [phase EXCEPT ![c] = "refused"] /\ read' = [read EXCEPT ![c] = NoReading]
      /\ now' = now /\ venue' = venue /\ Heir(L)
  BY <1>1, KnownOK DEF Sound, Refuse, Moves, Reads, Heir
<1>3. OrdersOK' /\ LedgerOK(L)' /\ Plain
  BY <1>2, DroppedStep
<1> QED
  BY <1>1, <1>2, <1>3 DEF Sound

\* The statuses are read.
LEMMA StatusesStep ==
    ASSUME Sound, NEW c \in Orders, NEW kind, ReadStatuses(c, kind)
    PROVE  Sound' /\ Plain /\ ledger' = ledger
<1>1. PICK L : L = ledger
  OBVIOUS
<1>2. OrdersOK /\ LedgerOK(L) /\ Typed /\ ReadOK(c)
  BY <1>1 DEF Sound, OrdersOK
<1>3. PICK answered \in SUBSET {e.id : e \in Asked(Pruned(ledger, read[c].at), kind, read[c].at)} :
          /\ phase[c] = "read" /\ phase' = [phase EXCEPT ![c] = "ready"]
          /\ read' = [read EXCEPT ![c].statuses = {StatusOf(d) : d \in answered}]
          /\ now' = now /\ venue' = venue /\ ledger' = L
  BY <1>1 DEF ReadStatuses, Moves
<1>4. \A d \in answered : d \in Orders
  BY <1>1, <1>2, EntryTypes DEF Asked, Pruned, LedgerOK
<1>5. PICK st : st = {StatusOf(d) : d \in answered}
  OBVIOUS
<1>6. \A d \in Orders : /\ StatusOf(d) \in Status
                        /\ StatusOf(d).client \in Orders =>
                              /\ StatusOf(d).client = d
                              /\ StatusOf(d).status = venue[d].state
                              /\ StatusOf(d).filled = venue[d].filled
  BY <1>2, VenueTypes, Bounds DEF StatusOf, Status, Client
<1>7. /\ st \in SUBSET Status
      /\ \A s \in st : s.client \in Orders =>
            venue[s.client].state = s.status /\ venue[s.client].filled = s.filled
  BY <1>4, <1>5, <1>6
<1>8. PICK g : g = [read[c] EXCEPT !.statuses = st]
  OBVIOUS
<1>9. g \in Glance /\ g.at = read[c].at /\ g.statuses = st /\ g.seen = read[c].seen
      /\ g.open = read[c].open
  BY <1>2, <1>7, <1>8 DEF Typed, Glance
<1>10. read' = [read EXCEPT ![c] = g]
  BY <1>3, <1>5, <1>8
<1>11. /\ ReadsOnly(c) /\ phase'[c] = "ready" /\ read'[c] = g
  BY <1>2, <1>3, <1>9, <1>10 DEF ReadsOnly, Typed, Phases, Reads
<1>12. ReadOK(c)'
  BY <1>2, <1>3, <1>7, <1>9, <1>11 DEF ReadOK, Reads
<1>13. OrdersOK' /\ LedgerOK(L)' /\ Plain
  BY <1>2, <1>3, <1>9, <1>11, <1>12, ReadPlain DEF Told
<1> QED
  BY <1>1, <1>3, <1>13 DEF Sound

-----------------------------------------------------------------------------
\* The handler of an admitted order.
LEMMA ForwardStep ==
    ASSUME Sound, NEW o \in Orders, Forward(o)
    PROVE  Sound' /\ Plain /\ ledger' = ledger
<1>1. PICK L : L = ledger
  OBVIOUS
<1>2. OrdersOK /\ LedgerOK(L) /\ Typed /\ VenueOK(o)
  BY <1>1 DEF Sound, OrdersOK
<1>3. PICK g : g = [venue[o] EXCEPT !.state = "transit"]
  OBVIOUS
<1>4. /\ phase[o] = "reserved" /\ phase' = [phase EXCEPT ![o] = "sent"]
      /\ venue' = [venue EXCEPT ![o] = g] /\ now' = now /\ read' = read /\ ledger' = L
  BY <1>1, <1>3 DEF Forward, Moves
<1>5. /\ g \in Trade /\ g.state = "transit" /\ g.filled = venue[o].filled
      /\ g.shown = venue[o].shown
  BY <1>2, <1>3 DEF Typed, Trade, States
<1>6. /\ StandsOnly(o) /\ phase'[o] = "sent" /\ venue'[o] = g
  BY <1>2, <1>4, <1>5 DEF StandsOnly, Standing, Typed, Phases
<1>7. venue[o].state = "none" /\ venue[o].filled = 0
  BY <1>2, <1>4 DEF VenueOK
<1>8. VenueOK(o)'
  BY <1>2, <1>5, <1>6, <1>7 DEF VenueOK
<1>9. Commit'[o] <= Commit[o]
  <2>1. Commit'[o] = Size[o] /\ Commit[o] = Size[o]
    BY <1>4, <1>5, <1>6, <1>7 DEF Commit, Standing, Done
  <2> QED
    BY <2>1, Bounds
<1>10. \A e \in L : e.id = o => EntryOK(e)'
  <2> SUFFICES ASSUME NEW e \in L, e.id = o PROVE EntryOK(e)'
    OBVIOUS
  <2>1. EntryOK(e) /\ e.at \in Nat /\ now \in Nat
    BY <1>2, EntryTypes DEF LedgerOK, Typed
  <2>4. Commit'[o] <= e.amount
    <3>1. Commit'[o] = Commit[o]
      BY <1>4, <1>5, <1>6, <1>7 DEF Commit, Standing, Done
    <3> QED
      BY <2>1, <3>1 DEF EntryOK
  <2> QED
    BY <1>4, <1>6, <2>1, <2>4 DEF EntryOK, StandsOnly
<1>11. ~ (venue[o].state \in Done \cup {"filled"}) /\ phase'[o] # "reserved"
  BY <1>6, <1>7 DEF Done
<1>12. OrdersOK' /\ LedgerOK(L)' /\ Plain
  BY <1>2, <1>6, <1>8, <1>9, <1>10, <1>11, StandStep
<1> QED
  BY <1>1, <1>4, <1>12 DEF Sound

\* An answer, or none.
LEMMA AnsweredStep ==
    ASSUME OrdersOK, NEW L, LedgerOK(L), NEW o \in Orders, NEW to \in {"answered", "unanswered"},
           phase[o] = "sent", phase' = [phase EXCEPT ![o] = to],
           now' = now, read' = read, venue' = venue
    PROVE  OrdersOK' /\ LedgerOK(L)' /\ Plain
<1>1. Typed /\ VenueOK(o)
  BY DEF OrdersOK
<1>2. StandsOnly(o) /\ phase'[o] = to
  BY <1>1 DEF StandsOnly, Standing, Typed, Phases
<1>3. VenueOK(o)'
  BY <1>1, <1>2 DEF VenueOK
<1>4. Commit'[o] = Commit[o] /\ Commit[o] \in Nat
  BY <1>1, <1>2, CommitTypes DEF Commit, Standing
<1>5. \A e \in L : e.id = o => EntryOK(e)'
  <2> SUFFICES ASSUME NEW e \in L, e.id = o PROVE EntryOK(e)'
    OBVIOUS
  <2>1. EntryOK(e)
    BY DEF LedgerOK
  <2> QED
    BY <1>2, <1>4, <2>1 DEF EntryOK, StandsOnly
<1>6. phase'[o] # "reserved"
  BY <1>2
<1>7. Commit'[o] <= Commit[o]
  BY <1>4
<1> QED
  BY <1>2, <1>3, <1>5, <1>6, <1>7, StandStep

\* The venue's answer.
LEMMA AnswerStep ==
    ASSUME Sound, NEW o \in Orders, Answer(o)
    PROVE  Sound' /\ Plain /\ Heir(ledger')
<1>1. PICK refused \in {venue[o].state = "rejected", FALSE} :
          ledger' = Settled(Pruned(ledger, now), o, now, refused)
  BY DEF Answer
<1>2. PICK L : L = Settled(Pruned(ledger, now), o, now, refused)
  OBVIOUS
<1>3. /\ OrdersOK /\ phase[o] = "sent" /\ phase' = [phase EXCEPT ![o] = "answered"]
      /\ now' = now /\ read' = read /\ venue' = venue
  BY DEF Sound, Answer, Moves
<1>4. LedgerOK(Pruned(ledger, now))
  BY PrunedOK DEF Sound
<1>5. LedgerOK(L) /\ Heir(L)
  BY <1>2, <1>3, <1>4, SettledOK DEF Heir
<1>6. OrdersOK' /\ LedgerOK(L)' /\ Plain
  BY <1>3, <1>5, AnsweredStep
<1> QED
  BY <1>1, <1>2, <1>5, <1>6 DEF Sound

\* No answer.
LEMMA NoAnswerStep ==
    ASSUME Sound, NEW o \in Orders, NoAnswer(o)
    PROVE  Sound' /\ Plain /\ ledger' = ledger
<1>1. PICK L : L = ledger
  OBVIOUS
<1>2. /\ OrdersOK /\ LedgerOK(L)
      /\ phase[o] = "sent" /\ phase' = [phase EXCEPT ![o] = "unanswered"]
      /\ now' = now /\ read' = read /\ venue' = venue /\ ledger' = L
  BY <1>1 DEF Sound, NoAnswer, Moves
<1>3. OrdersOK' /\ LedgerOK(L)' /\ Plain
  BY <1>2, AnsweredStep
<1> QED
  BY <1>1, <1>2, <1>3 DEF Sound

\* Every step of a handler but the reading of the positions, the admission and
\* the refund.
LEMMA HandlerStep ==
    ASSUME Sound, NEW o \in Orders, NEW kind, Handler(o, kind)
    PROVE  Sound' /\ Plain /\ Heir(ledger')
BY BeginStep, OrdersStep, FailsStep, StatusesStep, RefuseStep, ForwardStep, AnswerStep,
   NoAnswerStep DEF Handler, Heir

-----------------------------------------------------------------------------
\* A step of the venue.
LEMMA TradeStep ==
    ASSUME OrdersOK, NEW L, LedgerOK(L), NEW o \in Orders, NEW g \in Trade,
           venue[o].state # "none", UNCHANGED <<now, phase, read>>,
           venue' = [venue EXCEPT ![o] = g], VenueOK(o)',
           venue[o].state \in Done \cup {"filled"} =>
              g.state = venue[o].state /\ g.filled = venue[o].filled,
           g.state \in Done \/ venue[o].state \notin Done
    PROVE  OrdersOK' /\ LedgerOK(L)' /\ Plain
<1>1. /\ Typed /\ VenueOK(o) /\ venue'[o] = g /\ now' = now /\ phase' = phase /\ read' = read
  BY DEF OrdersOK, Typed
<1>2. StandsOnly(o)
  BY <1>1 DEF StandsOnly, Standing, Typed, VenueOK
<1>3. Commit'[o] <= Commit[o]
  <2>1. Standing(o) /\ Standing(o)'
    BY <1>2 DEF StandsOnly
  <2>2. /\ venue[o].filled \in Nat /\ Size[o] \in Nat /\ venue[o].filled <= Size[o]
        /\ g.filled \in Nat /\ g.filled <= Size[o]
    BY <1>1, VenueTypes, Bounds DEF VenueOK, Trade
  <2>3. /\ Commit[o]  = IF venue[o].state \in Done THEN venue[o].filled ELSE Size[o]
        /\ Commit'[o] = IF g.state \in Done THEN g.filled ELSE Size[o]
    BY <1>1, <2>1 DEF Commit
  <2> QED
    BY <2>2, <2>3
<1>4. \A e \in L : e.id = o => EntryOK(e)'
  <2> SUFFICES ASSUME NEW e \in L, e.id = o PROVE EntryOK(e)'
    OBVIOUS
  <2>1. EntryOK(e) /\ e.at \in Nat /\ e.amount \in Nat
    BY EntryTypes DEF LedgerOK
  <2>3. Commit'[o] <= e.amount
    <3>1. Commit[o] \in Nat /\ Commit[o] <= e.amount
      BY <1>1, <2>1, CommitTypes DEF EntryOK
    <3>2. Commit'[o] \in Nat
      BY <1>1, <1>2, Bounds DEF Commit, StandsOnly, Trade
    <3> QED
      BY <1>3, <2>1, <3>1, <3>2
  <2> QED
    BY <1>1, <1>2, <2>1, <2>3 DEF EntryOK, StandsOnly
<1> QED
  BY <1>1, <1>2, <1>3, <1>4, StandStep

\* What each step of the venue does to its order.
LEMMA ExchangeStep ==
    ASSUME Sound, NEW o \in Orders, Exchange(o)
    PROVE  Sound' /\ Plain /\ ledger' = ledger
<1>1. PICK L : L = ledger
  OBVIOUS
<1> DEFINE v == venue[o]
<1>2. /\ OrdersOK /\ LedgerOK(L) /\ Typed /\ VenueOK(o)
      /\ v.state \in States /\ v.filled \in Nat /\ v.shown \in Nat
  BY <1>1, VenueTypes DEF Sound, OrdersOK
<1>3. SUFFICES \E g \in Trade :
          /\ v.state # "none" /\ UNCHANGED <<now, phase, read, ledger>>
          /\ venue' = [venue EXCEPT ![o] = g] /\ VenueOK(o)'
          /\ v.state \in Done \cup {"filled"} => g.state = v.state /\ g.filled = v.filled
          /\ g.state \in Done \/ v.state \notin Done
  <2>1. PICK g \in Trade :
          /\ v.state # "none" /\ UNCHANGED <<now, phase, read, ledger>>
          /\ venue' = [venue EXCEPT ![o] = g] /\ VenueOK(o)'
          /\ v.state \in Done \cup {"filled"} => g.state = v.state /\ g.filled = v.filled
          /\ g.state \in Done \/ v.state \notin Done
    BY <1>3
  <2>2. OrdersOK' /\ LedgerOK(L)' /\ Plain
    BY <1>2, <2>1, TradeStep
  <2> QED
    BY <1>1, <2>1, <2>2 DEF Sound
<1>4. ASSUME NEW to \in {"open", "rejected", "canceled"},
             v.state \in {"transit", "open"}, to \in {"open", "rejected"} => v.state = "transit",
             venue' = [venue EXCEPT ![o].state = to], UNCHANGED <<now, phase, read, ledger>>
      PROVE  \E g \in Trade :
          /\ v.state # "none" /\ UNCHANGED <<now, phase, read, ledger>>
          /\ venue' = [venue EXCEPT ![o] = g] /\ VenueOK(o)'
          /\ v.state \in Done \cup {"filled"} => g.state = v.state /\ g.filled = v.filled
          /\ g.state \in Done \/ v.state \notin Done
  <2>1. PICK g : g = [v EXCEPT !.state = to]
    OBVIOUS
  <2>2. /\ g \in Trade /\ g.state = to /\ g.filled = v.filled /\ g.shown = v.shown
        /\ venue' = [venue EXCEPT ![o] = g] /\ venue'[o] = g
    BY <1>2, <1>4, <2>1 DEF Typed, Trade, States, Done
  <2>3. VenueOK(o)'
    BY <1>2, <1>4, <2>2 DEF VenueOK
  <2>4. v.state \notin Done \cup {"filled"}
    BY <1>4 DEF Done
  <2> QED
    BY <1>4, <2>2, <2>3, <2>4
<1>5. CASE Accept(o) \/ Reject(o) \/ Cancel(o)
  BY <1>4, <1>5 DEF Accept, Reject, Cancel
<1>6. CASE Fill(o)
  <2>1. PICK n \in 1..Resting[o] :
            venue' = [venue EXCEPT
              ![o].filled = @ + n,
              ![o].state  = IF n = Resting[o] THEN "filled" ELSE @]
    BY <1>6 DEF Fill
  <2>2. /\ v.state = "open" /\ UNCHANGED <<now, phase, read, ledger>>
        /\ Resting[o] = Size[o] - v.filled /\ n \in Nat /\ n > 0 /\ n <= Size[o] - v.filled
        /\ Size[o] \in Nat
    BY <1>2, <1>6, <2>1, Bounds DEF Fill, Resting
  <2>3. PICK s : s = IF n = Resting[o] THEN "filled" ELSE v.state
    OBVIOUS
  <2>4. PICK g : g = [v EXCEPT !.filled = v.filled + n, !.state = s]
    OBVIOUS
  <2>5. venue' = [venue EXCEPT ![o] = g]
    BY <2>1, <2>3, <2>4
  <2>6. /\ g \in Trade /\ g.state = s /\ g.filled = v.filled + n /\ g.shown = v.shown
        /\ venue'[o] = g
    <3>1. s \in {"open", "filled"} /\ v.filled + n \in Nat
      BY <1>2, <2>2, <2>3
    <3>2. v \in Trade /\ venue \in [Orders -> Trade]
      BY <1>2 DEF Typed
    <3> QED
      BY <2>4, <2>5, <3>1, <3>2 DEF Trade, States
  <2>7. VenueOK(o)'
    BY <1>2, <2>2, <2>3, <2>6 DEF VenueOK
  <2>8. v.state \notin Done \cup {"filled"}
    BY <2>2 DEF Done
  <2> QED
    BY <2>2, <2>5, <2>6, <2>7, <2>8
<1>7. CASE Show(o)
  <2>1. PICK g : g = [v EXCEPT !.shown = v.filled]
    OBVIOUS
  <2>2. /\ v.shown < v.filled /\ venue' = [venue EXCEPT ![o] = g]
        /\ UNCHANGED <<now, phase, read, ledger>>
    BY <1>7, <2>1 DEF Show
  <2>3. /\ g \in Trade /\ g.state = v.state /\ g.filled = v.filled
        /\ g.shown = v.filled /\ venue'[o] = g
    BY <1>2, <2>1, <2>2 DEF Typed, Trade
  <2>4. VenueOK(o)' /\ v.state # "none"
    BY <1>2, <2>2, <2>3 DEF VenueOK
  <2> QED
    BY <2>2, <2>3, <2>4
<1> QED
  BY <1>5, <1>6, <1>7 DEF Exchange

\* Time passes.
LEMMA TickStep ==
    ASSUME Sound, Tick
    PROVE  Sound' /\ Plain /\ ledger' = ledger
<1>1. PICK L : L = ledger
  OBVIOUS
<1>2. OrdersOK /\ LedgerOK(L) /\ Typed /\ now \in Nat
  BY <1>1 DEF Sound, OrdersOK, Typed
<1>3. /\ now' = now + 1 /\ phase' = phase /\ read' = read /\ venue' = venue /\ ledger' = L
      /\ \A e \in L : phase[e.id] \in {"reserved", "sent"} => now < e.at + Pending
  BY <1>1 DEF Tick
<1>4. Commit' = Commit /\ \A o \in Orders : (Standing(o)' <=> Standing(o))
  BY <1>3 DEF Commit, Standing
<1>5. OrdersOK'
  <2>1. Typed'
    BY <1>2, <1>3 DEF Typed
  <2>2. \A o \in Orders : VenueOK(o)'
    BY <1>2, <1>3 DEF OrdersOK, VenueOK
  <2>3. \A q \in Orders : ReadOK(q)'
    <3> SUFFICES ASSUME NEW q \in Orders PROVE ReadOK(q)'
      OBVIOUS
    <3>1. ReadOK(q) /\ read[q].at \in Nat
      BY <1>2, ReadTypes DEF OrdersOK
    <3> QED
      BY <1>2, <1>3, <3>1, Bounds DEF ReadOK
  <2> QED
    BY <2>1, <2>2, <2>3 DEF OrdersOK
<1>6. \A e \in L : EntryOK(e)'
  <2> SUFFICES ASSUME NEW e \in L PROVE EntryOK(e)'
    OBVIOUS
  <2>1. EntryOK(e) /\ e.id \in Orders /\ e.at \in Nat
    BY <1>2, EntryTypes DEF LedgerOK
  <2>2. Commit'[e.id] <= e.amount
    BY <1>4, <2>1 DEF EntryOK
  <2> QED
    BY <1>2, <1>3, <1>4, <2>1, <2>2, Bounds DEF EntryOK
<1>7. ReservedIsIn(L)'
  BY <1>2, <1>3 DEF LedgerOK, ReservedIsIn
<1>8. LedgerOK(L)'
  BY <1>2, <1>6, <1>7 DEF LedgerOK, InOrder
<1>9. Plain
  BY <1>2, <1>3, <1>4, CommitTypes DEF Plain
<1> QED
  BY <1>1, <1>3, <1>5, <1>8, <1>9 DEF Sound

\* Nothing happens.
LEMMA StutterStep ==
    ASSUME Sound, UNCHANGED vars
    PROVE  Sound' /\ Plain /\ ledger' = ledger
<1>1. now' = now /\ ledger' = ledger /\ phase' = phase /\ read' = read /\ venue' = venue
  BY DEF vars
<1>2. Commit' = Commit /\ \A o \in Orders : Standing(o)' <=> Standing(o)
  BY <1>1 DEF Commit, Standing
<1>3. OrdersOK'
  BY <1>1, <1>2 DEF Sound, OrdersOK, Typed, VenueOK, ReadOK
<1>4. PICK L : L = ledger
  OBVIOUS
<1>5. LedgerOK(L)
  BY <1>4 DEF Sound
<1>6. \A e \in L : EntryOK(e)'
  <2> SUFFICES ASSUME NEW e \in L PROVE EntryOK(e)'
    OBVIOUS
  <2>1. EntryOK(e) /\ e.id \in Orders
    BY <1>5, EntryTypes DEF LedgerOK
  <2> QED
    BY <1>1, <1>2, <2>1 DEF EntryOK
<1>7. ReservedIsIn(L)'
  BY <1>1, <1>5 DEF LedgerOK, ReservedIsIn
<1>8. LedgerOK(L)'
  BY <1>5, <1>6, <1>7 DEF LedgerOK, InOrder
<1>9. Plain
  BY <1>1, <1>2, CommitTypes DEF Plain, Sound, OrdersOK, Typed
<1> QED
  BY <1>1, <1>3, <1>4, <1>8, <1>9 DEF Sound

\* At first nothing is ordered.
LEMMA InitSound ==
    ASSUME Init
    PROVE  /\ Sound /\ ledger = {} /\ \A o \in Orders : phase[o] = "new"
           /\ \A S \in SUBSET Orders : Total(Commit, S) = 0
<1>1. /\ now = 0 /\ ledger = {} /\ phase = [o \in Orders |-> "new"]
      /\ read = [o \in Orders |-> NoReading] /\ venue = [o \in Orders |-> NoOrder]
  BY DEF Init
<1>2. NoReading \in Glance /\ NoReading.statuses = {} /\ NoOrder \in Trade
  BY NoReadingType DEF NoOrder, Trade, States
<1>3. Typed
  BY <1>1, <1>2 DEF Typed, Phases
<1>4. \A o \in Orders : VenueOK(o) /\ ReadOK(o) /\ ~Standing(o)
  BY <1>1, <1>2, Bounds DEF VenueOK, ReadOK, Standing, NoOrder, Reads
<1>5. ASSUME NEW S \in SUBSET Orders PROVE Total(Commit, S) = 0
  <2>1. IsFiniteSet(S) /\ \A o \in S : Commit[o] = 0
    BY <1>4, CommitStands, Bounds, FS_Subset
  <2> QED
    BY <2>1, TotalOfNothing
<1>6. OrdersOK
  BY <1>3, <1>4 DEF OrdersOK
<1>7. LedgerOK(ledger)
  <2>1. IsFiniteSet({})
    BY FS_EmptySet
  <2> QED
    BY <1>1, <1>4, <2>1 DEF LedgerOK, InOrder, ReservedIsIn
<1> QED
  BY <1>1, <1>5, <1>6, <1>7 DEF Sound

-----------------------------------------------------------------------------
\* Something of a finite set is the greatest, by any measure.
LEMMA GreatestIsOne ==
    ASSUME NEW S, IsFiniteSet(S), S # {}, NEW f, \A x \in S : f[x] \in Int
    PROVE  \E x \in S : \A y \in S : f[x] >= f[y]
<1> DEFINE Has(s) == \E x \in s : \A y \in s : f[x] >= f[y]
           T == {s \in SUBSET S : s # {} /\ ~ Has(s)}
<1>1. SUFFICES ASSUME T # {} PROVE FALSE
  OBVIOUS
<1>2. PICK m \in T : \A t \in T : t \subseteq m => t = m
  <2> T \subseteq SUBSET S
    OBVIOUS
  <2> HIDE DEF T
  <2> QED
    BY <1>1, SmallestSubset
<1>3. m \subseteq S /\ m # {} /\ ~ Has(m)
  OBVIOUS
<1>4. PICK x \in m : TRUE
  BY <1>3
<1> DEFINE r == m \ {x}
<1>5. r = {} \/ Has(r)
  <2>1. r \subseteq m /\ r # m /\ r \in SUBSET S
    BY <1>3, <1>4
  <2>2. r \notin T
    <3> HIDE DEF T, r
    <3> QED
      BY <1>2, <2>1
  <2> HIDE DEF r
  <2> QED
    BY <2>1, <2>2
<1>6. \A y \in m : f[y] \in Int
  BY <1>3
<1>7. CASE r = {}
  BY <1>3, <1>4, <1>6, <1>7
<1>8. CASE Has(r)
  <2>1. PICK z \in r : \A y \in r : f[z] >= f[y]
    BY <1>8
  <2>2. CASE f[x] >= f[z]
    <3>1. \A y \in m : f[x] >= f[y]
      BY <1>4, <1>6, <2>1, <2>2
    <3> QED
      BY <1>3, <1>4, <3>1
  <2>3. CASE ~ (f[x] >= f[z])
    <3>1. \A y \in m : f[z] >= f[y]
      BY <1>4, <1>6, <2>1, <2>3
    <3> QED
      BY <1>3, <2>1, <3>1
  <2> QED
    BY <2>2, <2>3
<1> QED
  BY <1>5, <1>7, <1>8

\* The next entry comes after every other.
LEMMA NextIsLast ==
    ASSUME NEW L \in SUBSET Entry, IsFiniteSet(L)
    PROVE  NextNth(L) \in Nat /\ \A e \in L : e.nth < NextNth(L)
<1> DEFINE f == [e \in L |-> e.nth]
           N == {e.nth : e \in L} \cup {0}
           g == [n \in N |-> n]
<1>1. IsFiniteSet(N) /\ N \in SUBSET Nat
  <2>1. {e.nth : e \in L} = {f[e] : e \in L}
    OBVIOUS
  <2>2. IsFiniteSet({f[e] : e \in L})
    BY ImageIsFinite
  <2>3. \A e \in L : e.nth \in Nat
    BY EntryTypes
  <2> QED
    BY <2>1, <2>2, <2>3, FS_AddElement
<1>2. N # {} /\ \A n \in N : g[n] = n /\ g[n] \in Int
  BY <1>1
<1>3. NextNth(L) = 1 + Max(N)
  BY DEF NextNth
<1>4. \A e \in L : e.nth \in N
  OBVIOUS
<1> HIDE DEF N, g
<1>5. \E x \in N : \A y \in N : x >= y
  <2>1. PICK x \in N : \A y \in N : g[x] >= g[y]
    BY <1>1, <1>2, GreatestIsOne
  <2> QED
    BY <1>2, <2>1
<1>6. Max(N) \in N /\ \A y \in N : Max(N) >= y
  BY <1>5 DEF Max
<1> DEFINE top == Max(N)
<1>7. top \in Nat /\ NextNth(L) = 1 + top /\ \A e \in L : e.nth \in Nat /\ top >= e.nth
  BY <1>1, <1>3, <1>4, <1>6
<1> HIDE DEF top
<1> QED
  BY <1>7

\* What is admitted now counts against every reading begun before.
LEMMA NewIsHeld ==
    ASSUME now \in Nat, NEW e, e.at = now, e.settled = NoTime, NEW t \in Nat, t <= now
    PROVE  HeldFor(e, t)
BY Bounds DEF HeldFor, Answered

(* The step that admits order c with entry e, to the ledger L. *)
Admits(c, L, e) ==
    /\ LedgerOK(L) /\ Heir(L) /\ c \notin Ids(L)
    /\ e.id = c /\ e.at = now /\ e.settled = NoTime /\ \A d \in L : d.nth < e.nth
    /\ ledger' = L \cup {e} /\ now' = now
    /\ phase[c] = "ready" /\ phase'[c] = "reserved" /\ ~Standing(c)
    /\ \A p \in Orders :
          /\ p # c => phase'[p] = phase[p] /\ read'[p] = read[p]
          /\ Standing(p)' <=> Standing(p) \/ p = c
          /\ Commit'[p] = IF p = c THEN Size[c] ELSE Commit[p]

\* An order is admitted.
LEMMA AdmitStep ==
    ASSUME Sound, NEW c \in Orders, NEW kind \in {"close", "buy"}, NEW free \in Nat,
           Admit(c, kind, free)
    PROVE  /\ Sound'
           /\ \E e \in Entry : Admits(c, Known(c, kind), e) /\ e.kind = kind /\ e.free = free
<1>1. PICK L : L = Known(c, kind)
  OBVIOUS
<1> DEFINE n == NextNth(L)
<1> PICK new : new = [id |-> c, nth |-> n, at |-> now, kind |-> kind, symbol |-> SymbolOf[c],
                      client |-> Client(c), amount |-> Size[c], settled |-> NoTime,
                      final |-> "none", free |-> free]
  OBVIOUS
<1> DEFINE K == L \cup {new}
<1>2. OrdersOK /\ LedgerOK(L) /\ Heir(L)
  BY <1>1, KnownOK DEF Sound
<1>3. /\ phase[c] = "ready" /\ phase' = [phase EXCEPT ![c] = "reserved"]
      /\ ledger' = K /\ venue' = venue
      /\ read' = [read EXCEPT ![c] = NoReading] /\ now' = now
  BY <1>1 DEF Admit, Moves
<1>4. /\ L \in SUBSET Entry /\ IsFiniteSet(L) /\ InOrder(L) /\ ReservedIsIn(L)
      /\ \A e \in L : EntryOK(e)
  BY <1>2 DEF LedgerOK
<1>5. n \in Nat /\ \A e \in L : e.nth < n
  BY <1>4, NextIsLast
<1>6. Typed /\ Typed' /\ ~Standing(c) /\ c \notin Ids(L) /\ now \in Nat
  <2>1. Typed /\ now \in Nat
    BY <1>2 DEF OrdersOK, Typed
  <2>2. phase' \in [Orders -> Phases]
    BY <1>3, <2>1 DEF Typed, Phases
  <2>3. read' \in [Orders -> Glance]
    BY <1>3, <2>1, NoReadingType DEF Typed
  <2>4. venue' \in [Orders -> Trade]
    BY <1>3, <2>1 DEF Typed
  <2>5. ~Standing(c)
    BY <1>3 DEF Standing
  <2> QED
    BY <1>3, <1>4, <2>1, <2>2, <2>3, <2>4, <2>5 DEF Ids, EntryOK, Typed
<1>7. /\ new \in Entry /\ new.id = c /\ new.nth = n /\ new.at = now /\ new.free = free
      /\ new.symbol = SymbolOf[c] /\ new.client = Client(c) /\ new.amount = Size[c]
      /\ new.settled = NoTime /\ new.kind = kind
  BY <1>5, <1>6, Bounds DEF Entry, Client
<1> HIDE DEF n
<1>8. /\ \A p \in Orders \ {c} : phase'[p] = phase[p] /\ read'[p] = read[p]
      /\ phase'[c] = "reserved" /\ venue' = venue /\ read'[c].statuses = {}
  BY <1>3, <1>6, NoReadingType DEF Typed
<1>9. VenueOK(c) /\ venue[c].state = "none" /\ venue[c].filled = 0 /\ venue[c].shown = 0
  <2>1. VenueOK(c) /\ venue[c].filled \in Nat /\ venue[c].shown \in Nat
    BY <1>2, VenueTypes DEF OrdersOK
  <2> QED
    BY <1>3, <2>1 DEF VenueOK
<1>10. \A p \in Orders : Standing(p)' <=> Standing(p) \/ p = c
  BY <1>8 DEF Standing
<1>11. PICK w : w = Commit'
  OBVIOUS
<1>12. \A p \in Orders : w[p] = IF p = c THEN Size[c] ELSE Commit[p]
  BY <1>8, <1>9, <1>10, <1>11 DEF Commit, Done
<1>13. OrdersOK'
  <2>1. \A p \in Orders : VenueOK(p)'
    <3> SUFFICES ASSUME NEW p \in Orders PROVE VenueOK(p)'
      OBVIOUS
    <3>1. CASE p = c
      BY <1>8, <1>9, <3>1, Bounds DEF VenueOK
    <3>2. CASE p # c
      BY <1>2, <1>8, <3>2 DEF VenueOK, OrdersOK
    <3> QED
      BY <3>1, <3>2
  <2>2. \A q \in Orders : ReadOK(q)'
    <3> SUFFICES ASSUME NEW q \in Orders PROVE ReadOK(q)'
      OBVIOUS
    <3>1. CASE q = c
      BY <1>8, <3>1 DEF ReadOK, Reads
    <3>2. CASE q # c
      BY <1>2, <1>3, <1>8, <3>2 DEF ReadOK, OrdersOK
    <3> QED
      BY <3>1, <3>2
  <2> QED
    BY <1>6, <2>1, <2>2 DEF OrdersOK
<1>14. \A e \in K : EntryOK(e)'
  <2>1. EntryOK(new)'
    <3>1. w[c] <= new.amount /\ now <= now + Pending
      BY <1>6, <1>7, <1>12, Bounds
    <3> QED
      BY <1>3, <1>6, <1>7, <1>8, <1>10, <1>11, <3>1 DEF EntryOK
  <2>2. ASSUME NEW e \in L PROVE EntryOK(e)'
    <3>1. EntryOK(e) /\ e.id \in Orders /\ e.id # c
      BY <1>4, <1>6, EntryTypes DEF Ids
    <3>2. w[e.id] <= e.amount
      BY <1>12, <3>1 DEF EntryOK
    <3> QED
      BY <1>3, <1>8, <1>10, <1>11, <3>1, <3>2 DEF EntryOK
  <2> QED
    BY <2>1, <2>2
<1>15. InOrder(K)
  <2> SUFFICES ASSUME NEW e \in K, NEW d \in K
               PROVE  /\ e.id = d.id \/ e.nth = d.nth => e = d
                      /\ e.nth <= d.nth => e.at <= d.at
    BY DEF InOrder
  <2>1. \A x \in L : /\ x.id # c /\ x.nth < n /\ x.nth \in Nat /\ x.at \in Nat /\ x.at <= now
    BY <1>4, <1>5, <1>6, EntryTypes DEF Ids, EntryOK
  <2>2. CASE e \in L /\ d \in L
    BY <1>4, <2>2 DEF InOrder
  <2>3. CASE e \in L /\ d = new
    BY <1>5, <1>6, <1>7, <2>1, <2>3
  <2>4. CASE e = new /\ d \in L
    BY <1>5, <1>6, <1>7, <2>1, <2>4
  <2>5. CASE e = new /\ d = new
    BY <1>6, <1>7, <2>5
  <2> QED
    BY <2>2, <2>3, <2>4, <2>5
<1>16. ReservedIsIn(K)'
  <2>1. Ids(K) = Ids(L) \cup {c}
    BY <1>7 DEF Ids
  <2> QED
    BY <1>4, <1>8, <2>1 DEF ReservedIsIn
<1>17. K \subseteq Entry /\ IsFiniteSet(K)
  BY <1>4, <1>7, FS_AddElement
<1>18. LedgerOK(K)'
  BY <1>14, <1>15, <1>16, <1>17 DEF LedgerOK, InOrder
<1>19. Admits(c, L, new)
  BY <1>2, <1>3, <1>5, <1>6, <1>7, <1>8, <1>10, <1>11, <1>12 DEF Admits
<1> QED
  BY <1>1, <1>3, <1>7, <1>13, <1>18, <1>19 DEF Sound

(* The step that gives order c back, out of the ledger L. *)
Refunds(c, L) ==
    /\ LedgerOK(L) /\ L = Pruned(ledger, now)
    /\ ledger' = Without(L, c) /\ now' = now /\ read' = read
    /\ phase[c] = "reserved" /\ phase'[c] = "refunded" /\ Standing(c)
    /\ \A p \in Orders :
          /\ p # c => phase'[p] = phase[p]
          /\ Standing(p)' <=> Standing(p) /\ p # c
          /\ Commit'[p] = IF p = c THEN 0 ELSE Commit[p]

\* A refund takes the order's entry back, and nothing was filled for it.
LEMMA RefundStep ==
    ASSUME Sound, NEW c \in Orders, Refund(c)
    PROVE  Sound' /\ Refunds(c, Pruned(ledger, now))
<1>1. PICK L : L = Pruned(ledger, now)
  OBVIOUS
<1> DEFINE K == Without(L, c)
<1>2. OrdersOK /\ LedgerOK(L)
  BY <1>1, PrunedOK DEF Sound
<1>3. /\ phase[c] = "reserved" /\ phase' = [phase EXCEPT ![c] = "refunded"]
      /\ ledger' = K /\ venue' = venue /\ read' = read /\ now' = now
  BY <1>1 DEF Refund, Moves
<1>4. /\ L \in SUBSET Entry /\ IsFiniteSet(L) /\ InOrder(L) /\ ReservedIsIn(L)
      /\ \A e \in L : EntryOK(e)
  BY <1>2 DEF LedgerOK
<1>5. K \in SUBSET L /\ IsFiniteSet(K) /\ \A e \in L : e \in K <=> e.id # c
  BY <1>4, FS_Subset DEF Without
<1> HIDE DEF K
<1>6. Typed /\ Typed'
  <2>1. Typed
    BY <1>2 DEF OrdersOK
  <2> QED
    BY <1>3, <2>1 DEF Typed, Phases
<1>7. (\A p \in Orders : p # c => phase'[p] = phase[p]) /\ phase'[c] = "refunded"
  BY <1>3, <1>6 DEF Typed
<1>8. VenueOK(c) /\ venue[c].state = "none"
  BY <1>2, <1>3 DEF VenueOK, OrdersOK
<1>9. Standing(c) /\ \A p \in Orders : Standing(p)' <=> Standing(p) /\ p # c
  BY <1>3, <1>7 DEF Standing
<1>10. PICK w : w = Commit'
  OBVIOUS
<1>11. \A p \in Orders : w[p] = IF p = c THEN 0 ELSE Commit[p]
  BY <1>3, <1>7, <1>9, <1>10 DEF Commit
<1>12. OrdersOK'
  <2>1. \A p \in Orders : VenueOK(p)'
    <3> SUFFICES ASSUME NEW p \in Orders PROVE VenueOK(p)'
      OBVIOUS
    <3>1. CASE p = c
      BY <1>3, <1>7, <1>8, <3>1 DEF VenueOK
    <3>2. CASE p # c
      BY <1>2, <1>3, <1>7, <3>2 DEF VenueOK, OrdersOK
    <3> QED
      BY <3>1, <3>2
  <2>2. \A q \in Orders : ReadOK(q)'
    <3> SUFFICES ASSUME NEW q \in Orders PROVE ReadOK(q)'
      OBVIOUS
    <3>1. ReadOK(q)
      BY <1>2 DEF OrdersOK
    <3>2. phase'[q] \in Reads => phase[q] \in Reads
      BY <1>7 DEF Reads
    <3> QED
      BY <1>3, <3>1, <3>2 DEF ReadOK
  <2> QED
    BY <1>6, <2>1, <2>2 DEF OrdersOK
<1>13. \A e \in K : EntryOK(e)'
  <2> SUFFICES ASSUME NEW e \in K PROVE EntryOK(e)'
    OBVIOUS
  <2>1. EntryOK(e) /\ e.id \in Orders /\ e.id # c
    BY <1>4, <1>5, EntryTypes
  <2>2. w[e.id] <= e.amount
    BY <1>11, <2>1 DEF EntryOK
  <2> QED
    BY <1>3, <1>7, <1>9, <1>10, <2>1, <2>2 DEF EntryOK
<1>14. InOrder(K)
  BY <1>4, <1>5 DEF InOrder
<1>15. ReservedIsIn(K)'
  <2>1. \A p \in Orders : p # c /\ p \notin Ids(K) => p \notin Ids(L)
    BY <1>5 DEF Ids
  <2> QED
    BY <1>4, <1>7, <2>1 DEF ReservedIsIn
<1>16. K \subseteq Entry /\ IsFiniteSet(K)
  BY <1>4, <1>5
<1>17. LedgerOK(K)'
  BY <1>13, <1>14, <1>15, <1>16 DEF LedgerOK, InOrder
<1>18. Refunds(c, L)
  BY <1>1, <1>2, <1>3, <1>7, <1>9, <1>10, <1>11 DEF Refunds, K
<1> QED
  BY <1>1, <1>3, <1>12, <1>17, <1>18 DEF Sound

-----------------------------------------------------------------------------
(* The sums the model is written with are totals. *)
ShownOf  == [o \in Orders |-> venue[o].shown]
FilledOf == [o \in Orders |-> venue[o].filled]

\* What the positions show filled.
LEMMA ShownAddsUp ==
    ASSUME NEW S \in SUBSET Orders
    PROVE  Shown(S) = Total(ShownOf, S) /\ IsFiniteSet(S)
<1> DEFINE P(g) == g = [s \in SUBSET S |-> IF s = {} THEN 0
                          ELSE venue[AnyOf(s)].shown + g[s \ {AnyOf(s)}]]
           h == CHOOSE g : P(g)
<1>0. IsFiniteSet(S)
  BY Bounds, FS_Subset
<1>1. Shown(S) = h[S]
  BY DEF Shown, MapThenSumSet, MapThenFoldSet, AnyOf
<1>2. \A s \in SUBSET S : s # {} => venue[AnyOf(s)].shown = ShownOf[AnyOf(s)]
  BY AnyIn DEF ShownOf
<1>3. \A g : P(g) <=> Adds(g, ShownOf, S)
  BY <1>2 DEF Adds
<1>4. \E g : P(g)
  BY <1>0, <1>3, AddsExists
<1>5. P(h)
  <2> HIDE DEF P
  <2> QED
    BY <1>4
<1>6. Adds(h, ShownOf, S)
  <2> HIDE DEF h, P
  <2> QED
    BY <1>3, <1>5
<1> HIDE DEF h
<1> QED
  BY <1>0, <1>1, <1>6, TotalAdds

\* What is filled.
LEMMA FilledAddsUp ==
    ASSUME NEW S \in SUBSET Orders
    PROVE  Filled(S) = Total(FilledOf, S) /\ IsFiniteSet(S)
<1> DEFINE P(g) == g = [s \in SUBSET S |-> IF s = {} THEN 0
                          ELSE venue[AnyOf(s)].filled + g[s \ {AnyOf(s)}]]
           h == CHOOSE g : P(g)
<1>0. IsFiniteSet(S)
  BY Bounds, FS_Subset
<1>1. Filled(S) = h[S]
  BY DEF Filled, MapThenSumSet, MapThenFoldSet, AnyOf
<1>2. \A s \in SUBSET S : s # {} => venue[AnyOf(s)].filled = FilledOf[AnyOf(s)]
  BY AnyIn DEF FilledOf
<1>3. \A g : P(g) <=> Adds(g, FilledOf, S)
  BY <1>2 DEF Adds
<1>4. \E g : P(g)
  BY <1>0, <1>3, AddsExists
<1>5. P(h)
  <2> HIDE DEF P
  <2> QED
    BY <1>4
<1>6. Adds(h, FilledOf, S)
  <2> HIDE DEF h, P
  <2> QED
    BY <1>3, <1>5
<1> HIDE DEF h
<1> QED
  BY <1>0, <1>1, <1>6, TotalAdds

\* What is open.
LEMMA OpenAddsUp ==
    ASSUME NEW open, \A o \in Orders : open[o] \in Nat, NEW S \in SUBSET Orders
    PROVE  Open(open, S) = Total(open, S) /\ Open(open, S) \in Nat
<1>1. Open(open, S) = Total(open, S)
  BY DEF Open, Total
<1>2. /\ IsFiniteSet(S)
      /\ \A o \in S : open[o] \in Int
      /\ \A o \in S : open[o] >= 0
  BY Bounds, FS_Subset
<1>3. Total(open, S) \in Int /\ Total(open, S) >= 0
  BY <1>2, TotalType
<1> QED
  BY <1>1, <1>3

\* More orders may fill no less.
LEMMA CommitGrows ==
    ASSUME OrdersOK, NEW B \in SUBSET Orders, NEW A \in SUBSET B
    PROVE  /\ Total(Commit, A) <= Total(Commit, B)
           /\ Total(Commit, A) \in Nat /\ Total(Commit, B) \in Nat
<1>1. \A p \in Orders : Commit[p] \in Nat
  BY CommitTypes DEF OrdersOK
<1>2. \A p \in A : Commit[p] = 0 \/ (p \in B /\ Commit[p] <= Commit[p])
  BY <1>1
<1> QED
  BY <1>1, <1>2, Bounds, TotalCovers

\* What the venue has filled is no more than what the orders may fill.
LEMMA FilledInCommit ==
    ASSUME OrdersOK, NEW S \in SUBSET Orders
    PROVE  Filled(S) <= Total(Commit, S) /\ Filled(S) \in Nat /\ Total(Commit, S) \in Nat
<1>1. Typed
  BY DEF OrdersOK
<1>2. \A p \in Orders : Commit[p] \in Nat /\ FilledOf[p] \in Nat
  BY <1>1, CommitTypes, VenueTypes DEF FilledOf
<1>3. \A p \in S : FilledOf[p] = 0 \/ (p \in S /\ FilledOf[p] <= Commit[p])
  <2> SUFFICES ASSUME NEW p \in S PROVE FilledOf[p] = 0 \/ FilledOf[p] <= Commit[p]
    OBVIOUS
  <2>1. VenueOK(p) /\ venue[p].filled \in Nat /\ Size[p] \in Nat
    BY <1>1, VenueTypes, Bounds DEF OrdersOK
  <2> QED
    BY <2>1 DEF FilledOf, Commit, VenueOK, Standing
<1>4. Total(FilledOf, S) <= Total(Commit, S)
      /\ Total(FilledOf, S) \in Nat /\ Total(Commit, S) \in Nat
  BY <1>2, <1>3, Bounds, TotalCovers
<1> QED
  BY <1>4, FilledAddsUp

\* The orders past a reading are those its ledger does not count against it.
LEMMA PastIsBehind == \A q \in Orders : Past(q) = Behind(ledger, read[q].at)
BY DEF Past, Behind

\* A reading of the positions shows what is past it, as filled or as open.
LEMMA PastInView ==
    ASSUME OrdersOK, NEW q \in Orders, ShowsPast(q), NEW S \in SUBSET Orders
    PROVE  /\ Total(Commit, Past(q) \cap S) <= Shown(S) + Open(read[q].open, S)
           /\ Total(Rest(q), Past(q) \cap S) <= Shown(S)
           /\ Total(Commit, Past(q) \cap S) \in Nat /\ Total(Rest(q), Past(q) \cap S) \in Nat
           /\ Shown(S) \in Nat /\ Open(read[q].open, S) \in Nat
<1> DEFINE A == Past(q) \cap S
           open == read[q].open
           both == [o \in Orders |-> venue[o].shown + open[o]]
           rest == Rest(q)
<1>1. A \in SUBSET S /\ A \in SUBSET Orders
  BY DEF Past
<1>2. \A o \in Orders : /\ Commit[o] \in Nat /\ open[o] \in Nat /\ venue[o].shown \in Nat
                        /\ ShownOf[o] = venue[o].shown
  BY CommitTypes, VenueTypes, ReadTypes DEF OrdersOK, ShownOf
<1>3. \A o \in Orders : /\ both[o] = ShownOf[o] + open[o] /\ both[o] \in Nat
                        /\ rest[o] = Short(Commit[o], open[o]) /\ rest[o] \in Nat
  BY <1>2 DEF Rest, Short
<1>4. \A o \in A : Commit[o] <= venue[o].shown + open[o]
  BY DEF ShowsPast
<1>5. /\ \A o \in A : Commit[o] = 0 \/ (o \in S /\ Commit[o] <= both[o])
      /\ \A o \in A : rest[o] = 0 \/ (o \in S /\ rest[o] <= ShownOf[o])
  BY <1>1, <1>2, <1>3, <1>4 DEF Short
<1>6. IsFiniteSet(S) /\ Shown(S) = Total(ShownOf, S)
      /\ Open(open, S) = Total(open, S) /\ Open(open, S) \in Nat
  BY <1>2, ShownAddsUp, OpenAddsUp
<1> HIDE DEF A, both, rest, open
<1>7. Total(both, S) = Total(ShownOf, S) + Total(open, S)
  <2> DEFINE sum == [o \in S |-> ShownOf[o] + open[o]]
  <2>1. \A o \in S : /\ both[o] = sum[o]
                     /\ ShownOf[o] \in Int /\ open[o] \in Int
    BY <1>2, <1>3
  <2>2. Total(sum, S) = Total(ShownOf, S) + Total(open, S)
    BY <1>6, <2>1, TotalsCompare
  <2> HIDE DEF sum
  <2>3. Total(both, S) = Total(sum, S)
    BY <1>6, <2>1, TotalSame
  <2> QED
    BY <2>2, <2>3
<1>8. /\ Total(Commit, A) <= Total(both, S) /\ Total(Commit, A) \in Nat
      /\ Total(rest, A) <= Total(ShownOf, S) /\ Total(rest, A) \in Nat
      /\ Total(ShownOf, S) \in Nat
  <2>1. \A o \in Orders : Commit[o] \in Nat /\ both[o] \in Nat /\ ShownOf[o] \in Nat
                          /\ rest[o] \in Nat
    BY <1>2, <1>3
  <2> QED
    BY <1>1, <1>5, <2>1, Bounds, TotalCovers
<1> QED
  BY <1>6, <1>7, <1>8 DEF A, rest, open

\* A reading not too old counts nothing of what left the ledger.
LEMMA BehindPruned ==
    ASSUME OrdersOK, NEW L, LedgerOK(L), NEW t \in Nat, now <= t + MaxAge
    PROVE  Behind(Pruned(L, now), t) = Behind(L, t)
<1> DEFINE K == Pruned(L, now)
<1>1. ASSUME NEW e \in L, e \notin K PROVE ~HeldFor(e, t)
  <2>1. Answered(e) \in Int
    BY AnsweredTypes DEF LedgerOK
  <2>2. now \in Nat
    BY DEF OrdersOK, Typed
  <2> QED
    BY <1>1, <2>1, <2>2, Bounds DEF Pruned, HeldFor
<1>2. K \subseteq L
  BY DEF Pruned
<1> HIDE DEF K
<1> QED
  BY <1>1, <1>2 DEF Behind, K

-----------------------------------------------------------------------------

\* All the sales are of one stock.
LEMMA OneSymbol == ASSUME OfOneStock PROVE \A o, d \in Orders : SymbolOf[o] = SymbolOf[d]
<1> SUFFICES ASSUME NEW o \in Orders, NEW d \in Orders, SymbolOf[o] # SymbolOf[d] PROVE FALSE
  OBVIOUS
<1> DEFINE two == {SymbolOf[o], SymbolOf[d]}
<1>1. two \subseteq Symbols
  BY DEF Symbols
<1>2. IsFiniteSet(Symbols)
  BY Bounds, ImageIsFinite DEF Symbols
<1>3. Cardinality(two) <= Cardinality(Symbols) /\ Cardinality(Symbols) \in Nat
  BY <1>1, <1>2, FS_Subset, FS_CardinalityType
<1>4. Cardinality(two) = 2
  <2>1. IsFiniteSet({SymbolOf[o]}) /\ Cardinality({SymbolOf[o]}) = 1
    BY FS_Singleton
  <2>2. Cardinality({SymbolOf[o]} \cup {SymbolOf[d]}) = 1 + 1
    BY <2>1, FS_AddElement
  <2> QED
    BY <2>2
<1> QED
  BY <1>3, <1>4 DEF OfOneStock

\* The closes' ledger as a handler leaves it: no reading under way finds held what
\* left it, or what was admitted before.
LEMMA CloseHeir ==
    ASSUME Sound, ClosesOK(ledger), NEW K, Heir(K)
    PROVE  ClosesOK(K)
<1>1. PICK L : L = ledger
  OBVIOUS
<1> DEFINE M == Pruned(L, now)
<1>2. OrdersOK /\ Typed /\ LedgerOK(L) /\ ClosesOK(L)
  BY <1>1 DEF Sound, OrdersOK
<1>3. L \subseteq Entry /\ InOrder(L) /\ M \subseteq L
  BY <1>2 DEF LedgerOK, Pruned
<1>4. now \in Nat /\ {Pending, Hold, MaxAge} \subseteq Nat
  BY <1>2, Bounds DEF Typed
<1>5. ASSUME NEW e \in L, e \notin M PROVE e.at \in Nat /\ e.at + Hold + MaxAge < now
  <2>1. Answered(e) \in Int /\ e.at \in Nat /\ e.at <= Answered(e)
    BY <1>2, AnsweredTypes DEF LedgerOK
  <2> QED
    BY <1>4, <1>5, <2>1 DEF Pruned
<1>6. ASSUME NEW q \in Orders, phase[q] \in Told, Fresh(q)
      PROVE  /\ Behind(M, read[q].at) = Behind(L, read[q].at) /\ Free(q) \in Nat
             /\ read[q].at \in Nat /\ read[q].at <= now
  <2>1. read[q].at \in Nat /\ now <= read[q].at + MaxAge /\ Free(q) \in Nat
    BY <1>2, <1>4, <1>6, ReadTypes DEF Fresh
  <2>2. read[q].at <= now
    BY <1>2, <1>6 DEF OrdersOK, ReadOK, Reads, Told
  <2> QED
    BY <1>2, <2>1, <2>2, BehindPruned
<1> HIDE DEF M
<1>7. ClosesOK(M)
  <2>1. Room(M)
    <3> SUFFICES ASSUME NEW e \in M, now <= e.at + Hold + MaxAge
                 PROVE  e.free + Total(Commit, Orders \ From(M, e.nth)) <= Shares
      BY DEF Room
    <3>1. e \in L /\ e.at \in Nat
      BY <1>3, EntryTypes
    <3>2. From(M, e.nth) = From(L, e.nth)
      <4>1. ASSUME NEW d \in L, d.nth >= e.nth PROVE d \in M
        <5>1. d.nth \in Nat /\ e.nth \in Nat /\ d.at \in Nat
          BY <1>3, <3>1, <4>1, EntryTypes
        <5>2. e.at <= d.at
          BY <1>3, <3>1, <4>1, <5>1 DEF InOrder
        <5> QED
          BY <1>4, <1>5, <3>1, <4>1, <5>1, <5>2
      <4> QED
        BY <1>3, <4>1 DEF From
    <3> QED
      BY <1>2, <3>1, <3>2 DEF ClosesOK, Room
  <2>2. SeenIsFree(M)
    BY <1>2, <1>6 DEF ClosesOK, SeenIsFree
  <2> QED
    BY <1>2, <1>3, <2>1, <2>2 DEF ClosesOK
<1>8. CASE Renewed(M, K)
  <2>1. /\ \A n : From(K, n) = From(M, n)
        /\ \A t \in Nat : t <= now => Behind(K, t) \subseteq Behind(M, t)
        /\ \A d \in K : \E e \in M : Same(e, d)
    BY <1>4, <1>8, RenewedIds
  <2>2. \A e \in K : e.kind = "close"
    BY <1>7, <2>1 DEF ClosesOK, Same
  <2>3. Room(K)
    BY <1>7, <2>1 DEF ClosesOK, Room, Same
  <2>4. SeenIsFree(K)
    <3> SUFFICES ASSUME NEW q \in Orders, phase[q] \in Told, Fresh(q)
                 PROVE  Free(q) + Total(Commit, Behind(K, read[q].at)) <= Shares
      BY DEF SeenIsFree
    <3>1. PICK A : A = Behind(K, read[q].at)
      OBVIOUS
    <3>2. PICK B : B = Behind(M, read[q].at)
      OBVIOUS
    <3>3. A \in SUBSET B /\ B \in SUBSET Orders
      BY <1>6, <2>1, <3>1, <3>2 DEF Behind
    <3>4. Total(Commit, A) <= Total(Commit, B) /\ Total(Commit, A) \in Nat /\ Total(Commit, B) \in Nat
      BY <1>2, <3>3, CommitGrows
    <3>5. Free(q) + Total(Commit, B) <= Shares /\ Free(q) \in Nat
      BY <1>6, <1>7, <3>2 DEF ClosesOK, SeenIsFree
    <3> QED
      BY <3>1, <3>4, <3>5, Bounds
  <2> QED
    BY <1>7, <2>2, <2>3, <2>4 DEF ClosesOK
<1> QED
  BY <1>1, <1>2, <1>8 DEF Heir, M

\* What the closes promise is kept by a plain step.
LEMMA ClosePlain ==
    ASSUME Sound, Plain, NEW L \in SUBSET Entry, ClosesOK(L)
    PROVE  ClosesOK(L)'
<1>1. PICK w : w = Commit'
  OBVIOUS
<1>2. /\ OrdersOK /\ now \in Nat /\ now' \in Nat /\ now <= now'
      /\ \A p \in Orders : /\ Standing(p)' <=> Standing(p)
                           /\ w[p] \in Nat /\ Commit[p] \in Nat /\ w[p] <= Commit[p]
  BY <1>1, CommitTypes DEF Sound, Plain, OrdersOK
<1>3. ASSUME NEW S \in SUBSET Orders
      PROVE  Total(w, S) <= Total(Commit, S) /\ Total(w, S) \in Nat /\ Total(Commit, S) \in Nat
  <2>1. /\ \A p \in Orders : w[p] \in Nat /\ Commit[p] \in Nat
        /\ \A p \in S : w[p] <= Commit[p]
    BY <1>2
  <2> QED
    BY <2>1, Bounds, TotalCovers
<1>4. Room(L)'
  <2> SUFFICES ASSUME NEW e \in L, now' <= e.at + Hold + MaxAge
               PROVE  e.free + Total(w, Orders \ From(L, e.nth)) <= Shares
    BY <1>1 DEF Room
  <2> DEFINE S == Orders \ From(L, e.nth)
  <2>1. e.free \in Nat /\ e.at \in Nat
    BY EntryTypes
  <2>2. now <= e.at + Hold + MaxAge
    BY <1>2, <2>1, Bounds
  <2>3. e.free + Total(Commit, S) <= Shares
    BY <2>2 DEF ClosesOK, Room
  <2>4. S \in SUBSET Orders
    OBVIOUS
  <2> HIDE DEF S
  <2>5. e.free + Total(w, S) <= Shares
    BY <1>3, <2>1, <2>3, <2>4, Bounds
  <2> QED
    BY <2>5 DEF S
<1>5. SeenIsFree(L)'
  <2> SUFFICES ASSUME NEW q \in Orders, phase'[q] \in Told, Fresh(q)'
               PROVE  Free(q)' + Total(w, Behind(L, read[q].at)') <= Shares
    BY <1>1 DEF SeenIsFree, Told
  <2>1. /\ phase[q] \in Told /\ read'[q].at = read[q].at /\ Free(q)' = Free(q)
    BY DEF Plain, Free
  <2>2. /\ Fresh(q) /\ Free(q) \in Nat
    <3>1. read[q].at \in Nat /\ Free(q) \in Nat
      BY <1>2, ReadTypes DEF OrdersOK
    <3> QED
      BY <1>2, <2>1, <3>1, Bounds DEF Fresh
  <2> PICK t : t = read[q].at
    OBVIOUS
  <2> PICK S : S = Behind(L, t)
    OBVIOUS
  <2>3. Behind(L, t)' = S /\ S \in SUBSET Orders
    BY <1>2 DEF Behind
  <2>4. Free(q) + Total(Commit, S) <= Shares
    BY <2>1, <2>2 DEF ClosesOK, SeenIsFree
  <2>5. Free(q) + Total(w, S) <= Shares
    BY <1>3, <2>2, <2>3, <2>4, Bounds
  <2>6. Behind(L, read[q].at)' = S
    BY <2>1, <2>3
  <2> QED
    BY <2>1, <2>5, <2>6
<1>6. Total(w, Orders) <= Shares
  <2>1. Total(Commit, Orders) <= Shares
    BY DEF ClosesOK
  <2> QED
    BY <1>3, <2>1, Bounds
<1> QED
  BY <1>1, <1>4, <1>5, <1>6 DEF ClosesOK


\* What the gate finds left is what all the orders together leave.
LEMMA LeftIsFree ==
    ASSUME OfOneStock, OrdersOK, NEW L, LedgerOK(L), ClosesOK(L), NEW c \in Orders, phase[c] = "ready",
           Fresh(c), \A e \in L : HeldFor(e, read[c].at) => now <= e.at + Hold + MaxAge,
           NEW left, left = Left(L, SymbolOf[c], read[c].at, Free(c)), left >= Size[c]
    PROVE  left \in Nat /\ left + Total(Commit, Orders) <= Shares
<1> DEFINE t    == read[c].at
           mine == Mine(L, SymbolOf[c])
           held == {e \in mine : HeldFor(e, t)}
<1>0. /\ L \in SUBSET Entry /\ IsFiniteSet(L) /\ InOrder(L) /\ Room(L) /\ SeenIsFree(L)
      /\ \A e \in L : EntryOK(e)
  BY DEF LedgerOK, ClosesOK
<1>1. /\ t \in Nat /\ Free(c) \in Nat /\ now \in Nat
      /\ {Pending, Hold, MaxAge, Shares} \subseteq Nat /\ Size[c] \in Nat /\ Size[c] > 0
  BY ReadTypes, Bounds DEF OrdersOK, Typed
<1>2. mine = L
  <2>1. \A e \in L : e.kind = "close" /\ e.symbol = SymbolOf[c]
    BY <1>0, EntryTypes, OneSymbol DEF EntryOK, ClosesOK
  <2> QED
    BY <2>1 DEF Mine
<1>3. ASSUME NEW e \in L
      PROVE  e.at \in Nat /\ e.free \in Nat /\ e.nth \in Nat
  BY <1>0, EntryTypes
<1>4. \A S \in SUBSET Orders : Total(Commit, S) \in Nat
  <2>1. \A p \in Orders : Commit[p] \in Nat
    BY CommitTypes DEF OrdersOK
  <2> QED
    BY <2>1, Bounds, TotalCovers
<1> HIDE DEF t, mine
<1>5. CASE held = {}
  <2>1. left = Free(c)
    BY <1>5 DEF Left, mine, t
  <2>2. \A e \in L : ~HeldFor(e, t)
    BY <1>2, <1>5
  <2>3. Total(Commit, Orders) <= Total(Commit, Behind(L, t))
    <3> DEFINE S == Behind(L, t)
    <3>1. S \in SUBSET Orders
      BY DEF Behind
    <3>2. \A p \in Orders : Commit[p] = 0 \/ (p \in S /\ Commit[p] <= Commit[p])
      <4> SUFFICES ASSUME NEW p \in Orders, p \notin S PROVE Commit[p] = 0
        BY CommitTypes DEF OrdersOK
      <4>1. ~ Standing(p)
        BY <2>2 DEF Behind
      <4> QED
        BY <4>1 DEF Commit
    <3>3. \A p \in Orders : Commit[p] \in Nat
      BY CommitTypes DEF OrdersOK
    <3> HIDE DEF S
    <3>4. Total(Commit, Orders) <= Total(Commit, S)
      BY <3>1, <3>2, <3>3, Bounds, TotalCovers
    <3> QED
      BY <3>4 DEF S
  <2>4. Free(c) + Total(Commit, Behind(L, t)) <= Shares
    BY <1>0 DEF SeenIsFree, t, Told
  <2>5. Total(Commit, Orders) \in Nat /\ Total(Commit, Behind(L, t)) \in Nat
    BY <1>4 DEF Behind
  <2> QED
    BY <1>1, <2>1, <2>3, <2>4, <2>5
<1>6. CASE held # {}
  <2> DEFINE first == CHOOSE e \in held : \A d \in held : e.nth <= d.nth
             S     == {e \in mine : e.nth >= first.nth}
             asked == AmountOf(S)
  <2>1. left = Short(first.free, Higher(asked, Short(first.free, Free(c))))
    BY <1>6 DEF Left, mine, t
  <2>2. first \in held
    <3>1. \E e \in held : \A d \in held : e.nth <= d.nth
      <4> DEFINE f == [e \in held |-> 0 - e.nth]
      <4>1. IsFiniteSet(held) /\ \A e \in held : e.nth \in Nat
        BY <1>0, <1>2, <1>3, FS_Subset
      <4> HIDE DEF held
      <4>2. \A e \in held : f[e] = 0 - e.nth /\ f[e] \in Int
        BY <4>1
      <4> HIDE DEF f
      <4>3. PICK e \in held : \A d \in held : f[e] >= f[d]
        BY <1>6, <4>1, <4>2, GreatestIsOne
      <4>4. \A d \in held : e.nth <= d.nth
        BY <4>1, <4>2, <4>3
      <4> QED
        BY <4>4
    <3> HIDE DEF held
    <3> QED
      BY <3>1
  <2>3. first \in L /\ HeldFor(first, t)
    BY <1>2, <2>2
  <2> HIDE DEF first
  <2>4. first.free + Total(Commit, Orders \ From(L, first.nth)) <= Shares
    <3>1. now <= first.at + Hold + MaxAge
      BY <2>3 DEF t
    <3> QED
      BY <1>0, <2>3, <3>1 DEF Room
  <2>5. Total(Commit, From(L, first.nth)) <= asked /\ asked \in Nat
        /\ From(L, first.nth) \in SUBSET Orders
    <3>1. S \in SUBSET L /\ From(L, first.nth) = Ids(S)
      BY <1>2 DEF From, Ids
    <3> HIDE DEF S
    <3> QED
      BY <1>0, <3>1, AskedCovers
  <2>6. /\ Total(Commit, Orders) = Total(Commit, From(L, first.nth))
                                 + Total(Commit, Orders \ From(L, first.nth))
    <3>1. \A p \in Orders : Commit[p] \in Int
      BY CommitTypes DEF OrdersOK
    <3> QED
      BY <2>5, <3>1, Bounds, TotalSplits
  <2> HIDE DEF asked, S
  <2>7. left \in Nat /\ left + asked <= first.free
    <3>1. first.free \in Nat
      BY <1>3, <2>3
    <3> QED
      BY <1>1, <2>1, <2>5, <3>1 DEF Short, Higher
  <2>8. /\ Total(Commit, From(L, first.nth)) \in Nat
        /\ Total(Commit, Orders \ From(L, first.nth)) \in Nat
        /\ first.free \in Nat
    BY <1>3, <1>4, <2>3, <2>5
  <2> QED
    BY <1>1, <2>4, <2>5, <2>6, <2>7, <2>8
<1> QED
  BY <1>5, <1>6

\* A close is admitted: what it found left is what the others leave it.
LEMMA CloseAdmits ==
    ASSUME OfOneStock, ClosesInv, JudgedInTime, NEW c \in Orders, Reserve(c)
    PROVE  ClosesInv'
<1>1. PICK L : L = Known(c, "close")
  OBVIOUS
<1>2. PICK left : left = Left(L, SymbolOf[c], read[c].at, Free(c))
  OBVIOUS
<1>3. OrdersOK /\ Typed /\ Sound /\ ClosesOK(ledger)
  BY DEF ClosesInv, Sound, OrdersOK
<1>4. LedgerOK(L) /\ ClosesOK(L) /\ L \in SUBSET Entry /\ \A e \in L : EntryOK(e)
  BY <1>1, <1>3, KnownOK, CloseHeir DEF LedgerOK
<1>5. /\ phase[c] = "ready" /\ Size[c] <= left /\ Size[c] \in Nat /\ Size[c] > 0
      /\ Admit(c, "close", left) /\ Fresh(c)
      /\ \A e \in L : HeldFor(e, read[c].at) => now <= e.at + Hold + MaxAge
  <2>1. /\ phase[c] = "ready" /\ Size[c] <= left /\ Size[c] \in Nat /\ Size[c] > 0
        /\ Admit(c, "close", left) /\ Fresh(c)
    BY <1>1, <1>2, Bounds DEF Reserve, Admit, Moves
  <2>2. phase'[c] = "reserved"
    BY <1>3, <2>1 DEF Admit, Moves, Typed
  <2> QED
    BY <1>1, <2>1, <2>2 DEF JudgedInTime
<1>6. left \in Nat /\ left + Total(Commit, Orders) <= Shares
  <2>1. left >= Size[c]
    BY <1>5
  <2> QED
    BY <1>2, <1>3, <1>4, <1>5, <2>1, LeftIsFree
<1>7. Sound' /\ \E e \in Entry : Admits(c, L, e) /\ e.kind = "close" /\ e.free = left
  BY <1>1, <1>3, <1>5, <1>6, AdmitStep
<1>8. PICK new \in Entry : Admits(c, L, new) /\ new.kind = "close" /\ new.free = left
  BY <1>7
<1>9. PICK K : K = L \cup {new}
  OBVIOUS
<1>10. PICK w : w = Commit'
  OBVIOUS
<1>11. /\ c \notin Ids(L) /\ new.id = c /\ new.at = now /\ \A d \in L : d.nth < new.nth
       /\ new.settled = NoTime
       /\ ledger' = K /\ now' = now /\ phase'[c] = "reserved" /\ ~Standing(c)
       /\ \A p \in Orders : /\ p # c => phase'[p] = phase[p] /\ read'[p] = read[p]
                            /\ Standing(p)' <=> Standing(p) \/ p = c
                            /\ w[p] = IF p = c THEN Size[c] ELSE Commit[p]
  BY <1>8, <1>9, <1>10 DEF Admits
<1>12. /\ \A p \in Orders : Commit[p] \in Nat /\ w[p] \in Nat
       /\ Commit[c] = 0 /\ w[c] = Size[c] /\ now \in Nat
  BY <1>3, <1>5, <1>11, CommitTypes, CommitStands DEF Typed
<1>13. Total(w, Orders) <= Shares
  <2>1. Total(w, Orders) = Total(Commit, Orders) + w[c] - Commit[c]
    <3>1. /\ \A p \in Orders : w[p] \in Int /\ Commit[p] \in Int
          /\ \A p \in Orders \ {c} : w[p] = Commit[p]
      BY <1>11, <1>12
    <3> QED
      BY <3>1, Bounds, TotalChanges
  <2>2. Total(Commit, Orders) \in Nat
    BY <1>12, Bounds, TotalCovers
  <2> QED
    BY <1>5, <1>6, <1>12, <2>1, <2>2, Bounds
<1>14. ASSUME NEW A \in SUBSET Orders, NEW B \in SUBSET Orders, A \subseteq B, c \notin A
       PROVE  Total(w, A) <= Total(Commit, B) /\ Total(w, A) \in Nat /\ Total(Commit, B) \in Nat
  <2>1. \A p \in A : w[p] = 0 \/ (p \in B /\ w[p] <= Commit[p])
    BY <1>11, <1>12, <1>14
  <2> QED
    BY <1>12, <2>1, Bounds, TotalCovers
<1>15. Room(K)'
  <2> SUFFICES ASSUME NEW e \in K, now <= e.at + Hold + MaxAge
               PROVE  e.free + Total(w, Orders \ From(K, e.nth)) <= Shares
    BY <1>10, <1>11 DEF Room
  <2> DEFINE A == Orders \ From(K, e.nth)
  <2>1. CASE e = new
    <3>1. c \notin A /\ A \in SUBSET Orders
      <4>1. new.nth \in Nat
        BY EntryTypes
      <4> QED
        BY <1>9, <1>11, <2>1, <4>1 DEF From
    <3> HIDE DEF A
    <3>2. Total(w, A) <= Total(Commit, Orders) /\ Total(w, A) \in Nat /\ Total(Commit, Orders) \in Nat
      BY <1>14, <3>1
    <3>3. left + Total(w, A) <= Shares
      BY <1>6, <3>2, Bounds
    <3> QED
      BY <1>8, <2>1, <3>3 DEF A
  <2>2. CASE e \in L
    <3> DEFINE B == Orders \ From(L, e.nth)
    <3>1. e.nth \in Nat /\ e.nth < new.nth /\ e.free \in Nat /\ new.nth \in Nat
      BY <1>4, <1>11, <2>2, EntryTypes
    <3>2. c \notin A /\ A \subseteq B /\ A \in SUBSET Orders /\ B \in SUBSET Orders
      BY <1>9, <1>11, <3>1 DEF From
    <3>3. e.free + Total(Commit, B) <= Shares
      BY <1>4, <2>2 DEF ClosesOK, Room
    <3> HIDE DEF A, B
    <3>4. Total(w, A) <= Total(Commit, B) /\ Total(w, A) \in Nat /\ Total(Commit, B) \in Nat
      BY <1>14, <3>2
    <3>5. e.free + Total(w, A) <= Shares
      BY <3>1, <3>3, <3>4, Bounds
    <3> QED
      BY <3>5 DEF A
  <2> QED
    BY <1>9, <2>1, <2>2
<1>16. SeenIsFree(K)'
  <2> SUFFICES ASSUME NEW q \in Orders, phase'[q] \in Told, Fresh(q)'
               PROVE  Free(q)' + Total(w, Behind(K, read[q].at)') <= Shares
    BY <1>10 DEF SeenIsFree, Told
  <2>1. q # c /\ phase[q] \in Told /\ read'[q] = read[q] /\ Free(q)' = Free(q) /\ Fresh(q)
    BY <1>11 DEF Free, Told, Fresh
  <2> PICK t : t = read[q].at
    OBVIOUS
  <2> DEFINE B == Behind(L, t)
  <2>2. PICK A : A = Behind(K, t)'
    OBVIOUS
  <2>3. t \in Nat /\ t <= now /\ Free(q) \in Nat
    BY <1>3, <2>1, ReadTypes DEF OrdersOK, ReadOK, Reads, Told
  <2>4. Free(q) + Total(Commit, B) <= Shares
    BY <1>4, <2>1 DEF ClosesOK, SeenIsFree
  <2>5. c \notin A
    <3>1. HeldFor(new, t)
      BY <1>11, <1>12, <2>3, NewIsHeld
    <3> QED
      BY <1>9, <1>11, <2>2, <3>1 DEF Behind
  <2>6. A \subseteq B /\ A \in SUBSET Orders /\ B \in SUBSET Orders
    BY <1>9, <1>11, <2>2, <2>5 DEF Behind
  <2> HIDE DEF B
  <2>7. Total(w, A) <= Total(Commit, B) /\ Total(w, A) \in Nat /\ Total(Commit, B) \in Nat
    BY <1>14, <2>5, <2>6
  <2>8. Free(q) + Total(w, A) <= Shares
    BY <2>3, <2>4, <2>7, Bounds
  <2>9. Behind(K, read[q].at)' = A
    BY <2>1, <2>2
  <2> QED
    BY <2>1, <2>8, <2>9
<1>17. \A e \in K : e.kind = "close"
  BY <1>4, <1>8, <1>9 DEF ClosesOK
<1>18. ClosesOK(K)'
  BY <1>10, <1>13, <1>15, <1>16, <1>17 DEF ClosesOK
<1> QED
  BY <1>7, <1>11, <1>18 DEF ClosesInv

\* A refund gives back what nobody sold.
LEMMA CloseRefunds ==
    ASSUME ClosesInv, NEW c \in Orders, Refund(c)
    PROVE  ClosesInv'
<1>1. PICK L : L = Pruned(ledger, now)
  OBVIOUS
<1>2. PICK K : K = Without(L, c)
  OBVIOUS
<1>3. OrdersOK /\ Typed /\ Sound /\ ClosesOK(ledger)
  BY DEF ClosesInv, Sound, OrdersOK
<1>4. Sound' /\ Refunds(c, L)
  BY <1>1, <1>3, RefundStep
<1>5. LedgerOK(L) /\ ClosesOK(L) /\ L \in SUBSET Entry /\ \A e \in L : EntryOK(e)
  <2>1. Renewed(L, L)
    <3> DEFINE F == [e \in L |-> e]
    <3>1. L = {F[e] : e \in L} /\ \A e \in L : Same(e, F[e])
      BY DEF Same
    <3> HIDE DEF F
    <3> QED
      BY <3>1 DEF Renewed
  <2> QED
    BY <1>1, <1>3, <1>4, <2>1, CloseHeir DEF Refunds, LedgerOK, Heir
<1>6. PICK w : w = Commit'
  OBVIOUS
<1>7. /\ ledger' = K /\ now' = now /\ read' = read /\ phase'[c] = "refunded"
      /\ \A p \in Orders : /\ p # c => phase'[p] = phase[p]
                           /\ Standing(p)' <=> Standing(p) /\ p # c
                           /\ w[p] = IF p = c THEN 0 ELSE Commit[p]
  BY <1>2, <1>4, <1>6 DEF Refunds
<1>8. K \subseteq L /\ \A e \in L : e \in K <=> e.id # c
  BY <1>2 DEF Without
<1>9. \A p \in Orders : Commit[p] \in Nat /\ w[p] \in Nat /\ w[p] <= Commit[p]
  BY <1>3, <1>7, CommitTypes
<1>10. ASSUME NEW A \in SUBSET Orders, NEW B \in SUBSET Orders, \A p \in A : p = c \/ p \in B
       PROVE  Total(w, A) <= Total(Commit, B) /\ Total(w, A) \in Nat /\ Total(Commit, B) \in Nat
  <2>1. \A p \in A : w[p] = 0 \/ (p \in B /\ w[p] <= Commit[p])
    BY <1>7, <1>9, <1>10
  <2>2. \A p \in Orders : Commit[p] \in Nat /\ w[p] \in Nat
    BY <1>9
  <2> QED
    BY <2>1, <2>2, Bounds, TotalCovers
<1>11. Room(K)'
  <2> SUFFICES ASSUME NEW e \in K, now <= e.at + Hold + MaxAge
               PROVE  e.free + Total(w, Orders \ From(K, e.nth)) <= Shares
    BY <1>6, <1>7 DEF Room
  <2> DEFINE A == Orders \ From(K, e.nth)
             B == Orders \ From(L, e.nth)
  <2>1. e \in L /\ e.free \in Nat
    BY <1>5, <1>8, EntryTypes
  <2>2. e.free + Total(Commit, B) <= Shares
    BY <1>5, <2>1 DEF ClosesOK, Room
  <2>3. A \in SUBSET Orders /\ B \in SUBSET Orders /\ \A p \in A : p = c \/ p \in B
    BY <1>8 DEF From
  <2> HIDE DEF A, B
  <2>4. Total(w, A) <= Total(Commit, B) /\ Total(w, A) \in Nat /\ Total(Commit, B) \in Nat
    BY <1>10, <2>3
  <2>5. e.free + Total(w, A) <= Shares
    BY <2>1, <2>2, <2>4, Bounds
  <2> QED
    BY <2>5 DEF A
<1>12. SeenIsFree(K)'
  <2> SUFFICES ASSUME NEW q \in Orders, phase'[q] \in Told, Fresh(q)'
               PROVE  Free(q) + Total(w, Behind(K, read[q].at)') <= Shares
    BY <1>6, <1>7 DEF SeenIsFree, Free, Told
  <2> PICK t : t = read[q].at
    OBVIOUS
  <2> DEFINE B == Behind(L, t)
  <2>1. PICK A : A = Behind(K, t)'
    OBVIOUS
  <2>2. phase[q] \in Told /\ Free(q) \in Nat /\ Fresh(q)
    BY <1>3, <1>7, ReadTypes DEF Told, Fresh
  <2>3. Free(q) + Total(Commit, B) <= Shares
    BY <1>5, <2>2 DEF ClosesOK, SeenIsFree
  <2>4. A \in SUBSET Orders /\ B \in SUBSET Orders /\ \A p \in A : p = c \/ p \in B
    <3>1. ASSUME NEW p \in A, p # c PROVE p \in B
      <4>1. \A e \in L : e.id = p => e \in K
        BY <1>8, <3>1
      <4> QED
        BY <1>7, <2>1, <3>1, <4>1 DEF Behind
    <3> QED
      BY <2>1, <3>1 DEF Behind
  <2> HIDE DEF B
  <2>5. Total(w, A) <= Total(Commit, B) /\ Total(w, A) \in Nat /\ Total(Commit, B) \in Nat
    BY <1>10, <2>4
  <2>6. Free(q) + Total(w, A) <= Shares
    BY <2>2, <2>3, <2>5, Bounds
  <2>7. Behind(K, read[q].at)' = A
    BY <1>7, <2>1
  <2> QED
    BY <2>6, <2>7
<1>13. Total(w, Orders) <= Shares
  <2>1. Total(w, Orders) <= Total(Commit, Orders) /\ Total(w, Orders) \in Nat
        /\ Total(Commit, Orders) \in Nat
    BY <1>10
  <2>2. Total(Commit, Orders) <= Shares
    BY <1>5 DEF ClosesOK
  <2> QED
    BY <2>1, <2>2, Bounds
<1>14. \A e \in K : e.kind = "close"
  BY <1>5, <1>8 DEF ClosesOK
<1>15. ClosesOK(K)'
  BY <1>6, <1>11, <1>12, <1>13, <1>14 DEF ClosesOK
<1> QED
  BY <1>4, <1>7, <1>15 DEF ClosesInv

\* The positions read leave what the orders past them have not sold.
LEMMA ClosePositions ==
    ASSUME ClosesInv, PastIsShown, NEW c \in Orders, ReadPositions(c)
    PROVE  ClosesInv'
<1>1. PICK L : L = ledger
  OBVIOUS
<1> DEFINE position == Shares - Shown(Orders)
<1>2. PICK netted \in {0, Open(Resting, Orders)} :
          /\ Moves(c, "orders", IF Size[c] > position - netted THEN "refused" ELSE "read")
          /\ read' = [read EXCEPT ![c].seen[SymbolOf[c]] =
                         Short(position, Higher(netted, Open(read[c].open, Orders)))]
          /\ UNCHANGED <<now, ledger, venue>>
  BY DEF ReadPositions
<1>3. OrdersOK /\ LedgerOK(L) /\ ClosesOK(L) /\ ReadOK(c) /\ Typed
  BY <1>1 DEF ClosesInv, Sound, OrdersOK
<1>4. PICK x : x = Short(position, Higher(netted, Open(read[c].open, Orders)))
  OBVIOUS
<1>5. PICK to : to = IF Size[c] > position - netted THEN "refused" ELSE "read"
  OBVIOUS
<1>6. netted \in Nat /\ Open(read[c].open, Orders) \in Nat
  <2>1. \A o \in Orders : read[c].open[o] \in Nat
    BY <1>3, ReadTypes
  <2> QED
    BY <1>3, <2>1, RestingTypes, OpenAddsUp
<1>7. read[c].at \in Nat /\ read[c].at <= now /\ phase[c] = "orders"
  BY <1>2, <1>3, ReadTypes DEF ReadOK, Reads, Moves
<1>8. ASSUME to = "read"
      PROVE  /\ Total(Commit, Behind(L, read[c].at)) <= Shown(Orders) + Open(read[c].open, Orders)
             /\ Total(Commit, Behind(L, read[c].at)) \in Nat /\ Shown(Orders) \in Nat
  <2>1. phase'[c] = "read"
    BY <1>2, <1>3, <1>5, <1>8 DEF Moves, Typed
  <2>2. ShowsPast(c)
    BY <1>7, <2>1 DEF PastIsShown
  <2>3. Past(c) \cap Orders = Behind(L, read[c].at)
    BY <1>1, PastIsBehind DEF Behind
  <2>4. /\ Total(Commit, Past(c) \cap Orders) <= Shown(Orders) + Open(read[c].open, Orders)
        /\ Total(Commit, Past(c) \cap Orders) \in Nat /\ Shown(Orders) \in Nat
    BY <1>3, <2>2, PastInView
  <2> QED
    BY <2>3, <2>4
<1>9. x \in Nat /\ (to = "read" => x + Total(Commit, Behind(L, read[c].at)) <= Shares)
  <2>1. Higher(netted, Open(read[c].open, Orders)) \in Nat
        /\ Higher(netted, Open(read[c].open, Orders)) >= Open(read[c].open, Orders)
    BY <1>6 DEF Higher
  <2>2. Shown(Orders) \in Nat
    <3>1. Shown(Orders) = Total(ShownOf, Orders)
      BY ShownAddsUp
    <3>2. \A o \in Orders : ShownOf[o] \in Nat
      BY <1>3, VenueTypes DEF ShownOf
    <3>3. Total(ShownOf, Orders) \in Int /\ Total(ShownOf, Orders) >= 0
      <4>1. \A o \in Orders : ShownOf[o] \in Int /\ ShownOf[o] >= 0
        BY <3>2
      <4> QED
        BY <4>1, Bounds, TotalType
    <3> QED
      BY <3>1, <3>3
  <2>3. x \in Nat
    BY <1>4, <2>1, <2>2, Bounds DEF Short
  <2>4. ASSUME to = "read" PROVE x + Total(Commit, Behind(L, read[c].at)) <= Shares
    <3>1. /\ Total(Commit, Behind(L, read[c].at)) <= Shown(Orders) + Open(read[c].open, Orders)
          /\ Total(Commit, Behind(L, read[c].at)) \in Nat
      BY <1>8, <2>4
    <3>2. Total(Commit, Behind(L, read[c].at)) <= Shares
      <4>1. Behind(L, read[c].at) \in SUBSET Orders
        BY DEF Behind
      <4>2. Total(Commit, Behind(L, read[c].at)) <= Total(Commit, Orders)
            /\ Total(Commit, Orders) \in Nat
        BY <1>3, <4>1, CommitGrows
      <4>3. Total(Commit, Orders) <= Shares
        BY <1>3 DEF ClosesOK
      <4> QED
        BY <3>1, <4>2, <4>3, Bounds
    <3> QED
      BY <1>4, <1>6, <2>1, <2>2, <3>1, <3>2, Bounds DEF Short
  <2> QED
    BY <2>3, <2>4
<1>10. read' = [read EXCEPT ![c] = [read[c] EXCEPT !.seen = [read[c].seen EXCEPT ![SymbolOf[c]] = x]]]
  BY <1>2, <1>4
<1>11. PICK g : g = [read[c] EXCEPT !.seen = [read[c].seen EXCEPT ![SymbolOf[c]] = x]]
  OBVIOUS
<1>12. g \in Glance /\ g.at = read[c].at /\ g.seen[SymbolOf[c]] = x /\ g.statuses = read[c].statuses
  BY <1>3, <1>9, <1>11, Bounds DEF Typed, Glance
<1>13. /\ read' = [read EXCEPT ![c] = g] /\ phase' = [phase EXCEPT ![c] = to]
       /\ now' = now /\ venue' = venue /\ ledger' = L /\ to \in {"refused", "read"}
  BY <1>1, <1>2, <1>5, <1>10, <1>11 DEF Moves
<1>14. /\ phase' \in [Orders -> Phases] /\ read' \in [Orders -> Glance]
       /\ \A q \in Orders \ {c} : phase'[q] = phase[q] /\ read'[q] = read[q]
       /\ phase'[c] = to /\ read'[c] = g
  BY <1>3, <1>12, <1>13 DEF Typed, Phases, Reads
<1>15. ReadsOnly(c)
  BY <1>7, <1>13, <1>14 DEF ReadsOnly, Reads
<1>16. ReadOK(c)'
  BY <1>3, <1>7, <1>12, <1>13, <1>14 DEF ReadOK, Reads
<1>17. Free(c)' = x
  BY <1>12, <1>14 DEF Free
<1>18. /\ OrdersOK' /\ LedgerOK(L)'
       /\ Commit' = Commit /\ \A o \in Orders : Standing(o)' <=> Standing(o)
  BY <1>3, <1>15, <1>16, ReadStep
<1>19. SeenIsFree(L)'
  <2>1. \A t : Behind(L, t)' = Behind(L, t)
    BY <1>18 DEF Behind
  <2> SUFFICES ASSUME NEW q \in Orders, phase'[q] \in Told, Fresh(q)'
               PROVE  Free(q)' + Total(Commit, Behind(L, read'[q].at)) <= Shares
    BY <1>18, <2>1 DEF SeenIsFree, Told
  <2>2. CASE q = c
    BY <1>9, <1>12, <1>13, <1>14, <1>17, <2>2 DEF Told
  <2>3. CASE q # c
    <3>1. phase[q] \in Told /\ read'[q] = read[q] /\ Free(q)' = Free(q) /\ Fresh(q)
      BY <1>13, <1>14, <2>3 DEF Free, Told, Fresh
    <3> QED
      BY <1>3, <3>1 DEF ClosesOK, SeenIsFree
  <2> QED
    BY <2>2, <2>3
<1>20. ClosesOK(L)'
  BY <1>3, <1>13, <1>18, <1>19 DEF ClosesOK, Room
<1> QED
  BY <1>13, <1>18, <1>20 DEF ClosesInv, Sound

\* Every other step.
LEMMA CloseOther ==
    ASSUME ClosesInv, Sound', Plain, Heir(ledger')
    PROVE  ClosesInv'
<1>1. PICK K : K = ledger'
  OBVIOUS
<1>2. Heir(K)
  BY <1>1
<1>3. ClosesOK(K)
  BY <1>2, CloseHeir DEF ClosesInv
<1>4. K \in SUBSET Entry
  BY <1>1 DEF Sound, LedgerOK
<1> QED
  BY <1>1, <1>3, <1>4, ClosePlain DEF ClosesInv

-----------------------------------------------------------------------------
\* The caps are numbers.
LEMMA CapBounds == {SymbolCap, BookCap, DayCap, Power} \subseteq Nat
BY StockBuysAssumption

\* What a reading did not show open of the orders is a number, and more orders
\* have no less.
LEMMA RestGrows ==
    ASSUME OrdersOK, NEW q \in Orders, NEW B \in SUBSET Orders, NEW A \in SUBSET B
    PROVE  /\ \A o \in Orders : Rest(q)[o] \in Nat
           /\ Total(Rest(q), A) <= Total(Rest(q), B)
           /\ Total(Rest(q), A) \in Nat /\ Total(Rest(q), B) \in Nat
<1>1. PICK rest : rest = Rest(q)
  OBVIOUS
<1>2. \A o \in Orders : /\ rest[o] = Short(Commit[o], read[q].open[o])
                        /\ Commit[o] \in Nat /\ read[q].open[o] \in Nat
  BY <1>1, CommitTypes, ReadTypes DEF Rest, OrdersOK
<1>3. \A o \in Orders : rest[o] \in Nat
  BY <1>2 DEF Short
<1>4. \A p \in A : rest[p] = 0 \/ (p \in B /\ rest[p] <= rest[p])
  BY <1>3
<1> QED
  BY <1>1, <1>3, <1>4, Bounds, TotalCovers

\* With no more to fill, no more is left of them.
LEMMA RestLess ==
    ASSUME OrdersOK, NEW q \in Orders, NEW w, NEW rest, NEW S \in SUBSET Orders,
           \A o \in Orders : /\ w[o] \in Nat /\ w[o] <= Commit[o]
                             /\ rest[o] = Short(w[o], read[q].open[o])
    PROVE  /\ Total(rest, S) <= Total(Rest(q), S)
           /\ Total(rest, S) \in Nat /\ Total(Rest(q), S) \in Nat
<1>1. PICK old : old = Rest(q)
  OBVIOUS
<1>2. \A o \in Orders : /\ old[o] = Short(Commit[o], read[q].open[o])
                        /\ Commit[o] \in Nat /\ read[q].open[o] \in Nat
  BY <1>1, CommitTypes, ReadTypes DEF Rest, OrdersOK
<1>3. \A o \in Orders : old[o] \in Nat /\ rest[o] \in Nat /\ rest[o] <= old[o]
  BY <1>2 DEF Short
<1> QED
  BY <1>1, <1>3, Bounds, TotalCovers

\* A day follows the day before, or is the same.
LEMMA DaysPass ==
    ASSUME NEW n \in Nat
    PROVE  DayOf(n) \in Nat /\ DayOf(n) <= DayOf(n + 1)
<1>1. DayLength \in Nat /\ DayLength > 0
  BY StockBuysAssumption
<1>2. \A m, d \in Nat : d > 0 => m \div d \in Nat /\ m \div d <= (m + 1) \div d
  OBVIOUS
<1> QED
  BY <1>1, <1>2 DEF DayOf

\* What the day's row comes to today.
LEMMA RowToday ==
    ASSUME RowOK, now \in Nat
    PROVE  /\ Today \in [day : Nat, sum : Nat] /\ Today.day = DayOf(now)
           /\ Today.sum = Total(Size, Taken(Today.day))
<1>1. /\ bought \in [day : Nat, sum : Nat] /\ bought.day <= DayOf(now) /\ DayOf(now) \in Nat
      /\ \A b \in Orders : Standing(b) => days[b] <= bought.day /\ days[b] \in Nat
  BY DaysPass DEF RowOK
<1>2. CASE bought.day = DayOf(now)
  BY <1>1, <1>2 DEF RowOK, Today
<1>3. CASE bought.day # DayOf(now)
  <2>1. Taken(DayOf(now)) = {}
    BY <1>1, <1>3 DEF Taken
  <2>2. Total(Size, {}) = 0
    BY FS_EmptySet, TotalStep
  <2> QED
    BY <1>1, <1>3, <2>1, <2>2 DEF Today
<1> QED
  BY <1>2, <1>3

\* The row is kept by a step that admits and gives back nothing.
LEMMA RowKept ==
    ASSUME RowOK, now \in Nat, now' \in {now, now + 1}, UNCHANGED <<bought, days>>,
           \A o \in Orders : Standing(o)' <=> Standing(o)
    PROVE  RowOK'
<1>1. /\ DayOf(now) \in Nat /\ DayOf(now') \in Nat /\ DayOf(now) <= DayOf(now')
  BY DaysPass
<1>2. DayOf(now)' = DayOf(now')
  BY DEF DayOf
<1>3. \A d : Taken(d)' = Taken(d)
  BY DEF Taken
<1>4. bought.day \in Nat /\ bought' = bought /\ days' = days
  BY DEF RowOK
<1> QED
  BY <1>1, <1>2, <1>3, <1>4 DEF RowOK

\* What the buys promise does not depend on what the ledger lost or learned.
LEMMA BuyHeir ==
    ASSUME Sound, BuysOK(ledger), NEW K, Heir(K)
    PROVE  BuysOK(K)
<1>1. PICK L : L = ledger
  OBVIOUS
<1> DEFINE M == Pruned(L, now)
<1>2. OrdersOK /\ Typed /\ LedgerOK(L) /\ BuysOK(L) /\ now \in Nat
  BY <1>1 DEF Sound, OrdersOK, Typed
<1>3. ASSUME NEW q \in Orders, phase[q] \in Told, Fresh(q)
      PROVE  /\ Behind(M, read[q].at) = Behind(L, read[q].at)
             /\ read[q].at \in Nat /\ read[q].at <= now /\ read[q].seen \in [Symbols -> Nat]
  <2>1. read[q].at \in Nat /\ now <= read[q].at + MaxAge /\ read[q].seen \in [Symbols -> Nat]
    BY <1>2, <1>3, ReadTypes, Bounds DEF Fresh
  <2>2. read[q].at <= now
    BY <1>2, <1>3 DEF OrdersOK, ReadOK, Reads, Told
  <2> QED
    BY <1>2, <2>1, <2>2, BehindPruned
<1> HIDE DEF M
<1>4. BuysOK(M)
  BY <1>2, <1>3 DEF BuysOK, SeenIsAll
<1>5. CASE Renewed(M, K)
  <2>1. \A t \in Nat : t <= now => Behind(K, t) \subseteq Behind(M, t)
    BY <1>2, <1>5, RenewedIds
  <2>2. SeenIsAll(K)
    <3> SUFFICES ASSUME NEW q \in Orders, phase[q] \in Told, Fresh(q), NEW s \in Symbols
                 PROVE  Total(Rest(q), Behind(K, read[q].at) \cap Of(s)) <= read[q].seen[s]
      BY DEF SeenIsAll
    <3>1. PICK A : A = Behind(K, read[q].at) \cap Of(s)
      OBVIOUS
    <3>2. PICK B : B = Behind(M, read[q].at) \cap Of(s)
      OBVIOUS
    <3>3. A \in SUBSET B /\ B \in SUBSET Orders
      BY <1>3, <2>1, <3>1, <3>2 DEF Behind
    <3>4. Total(Rest(q), A) <= Total(Rest(q), B) /\ Total(Rest(q), A) \in Nat
          /\ Total(Rest(q), B) \in Nat
      BY <1>2, <3>3, RestGrows
    <3>5. Total(Rest(q), B) <= read[q].seen[s] /\ read[q].seen[s] \in Nat
      BY <1>3, <1>4, <3>2 DEF BuysOK, SeenIsAll
    <3> QED
      BY <3>1, <3>4, <3>5
  <2> QED
    BY <1>4, <2>2 DEF BuysOK
<1> QED
  BY <1>1, <1>2, <1>5 DEF Heir, M

\* What the buys promise is kept by a plain step.
LEMMA BuyPlain ==
    ASSUME Sound, Plain, NEW L, BuysOK(L)
    PROVE  BuysOK(L)'
<1>1. PICK w : w = Commit'
  OBVIOUS
<1>2. /\ OrdersOK /\ Typed /\ now \in Nat /\ now' \in Nat /\ now <= now'
      /\ \A p \in Orders : /\ Standing(p)' <=> Standing(p)
                           /\ w[p] \in Nat /\ Commit[p] \in Nat /\ w[p] <= Commit[p]
  BY <1>1, CommitTypes DEF Sound, Plain, OrdersOK
<1>3. ASSUME NEW S \in SUBSET Orders
      PROVE  Total(w, S) <= Total(Commit, S) /\ Total(w, S) \in Nat /\ Total(Commit, S) \in Nat
  <2>1. /\ \A p \in Orders : w[p] \in Nat /\ Commit[p] \in Nat
        /\ \A p \in S : w[p] <= Commit[p]
    BY <1>2
  <2> QED
    BY <2>1, Bounds, TotalCovers
<1>4. SeenIsAll(L)'
  <2> SUFFICES ASSUME NEW q \in Orders, phase'[q] \in Told, Fresh(q)', NEW s \in Symbols
               PROVE  Total(Rest(q)', Behind(L, read[q].at)' \cap Of(s)) <= read'[q].seen[s]
    BY DEF SeenIsAll, Told, Of
  <2>1. /\ phase[q] \in Told /\ read'[q].at = read[q].at /\ read'[q].seen = read[q].seen
        /\ read'[q].open = read[q].open
        /\ read[q].at \in Nat /\ read[q].seen[s] \in Nat
    BY <1>2, ReadTypes DEF Plain
  <2>2. Fresh(q)
    BY <1>2, <2>1, Bounds DEF Fresh
  <2> PICK t : t = read[q].at
    OBVIOUS
  <2> PICK S : S = Behind(L, t) \cap Of(s)
    OBVIOUS
  <2> PICK rest : rest = Rest(q)'
    OBVIOUS
  <2>3. Behind(L, t)' = Behind(L, t) /\ S \in SUBSET Orders
    BY <1>2 DEF Behind
  <2>4. Total(Rest(q), S) <= read[q].seen[s]
    BY <2>1, <2>2 DEF BuysOK, SeenIsAll
  <2>5. \A o \in Orders : rest[o] = Short(w[o], read[q].open[o])
    BY <1>1, <2>1 DEF Rest
  <2>6. Total(rest, S) <= Total(Rest(q), S) /\ Total(rest, S) \in Nat
        /\ Total(Rest(q), S) \in Nat
    BY <1>2, <2>3, <2>5, RestLess
  <2>7. Behind(L, read[q].at)' \cap Of(s) = S
    BY <2>1, <2>3
  <2> QED
    BY <2>1, <2>4, <2>6, <2>7
<1>5. InCaps'
  <2>1. \A s \in Symbols : Total(w, Of(s)) <= SymbolCap
    <3> SUFFICES ASSUME NEW s \in Symbols PROVE Total(w, Of(s)) <= SymbolCap
      OBVIOUS
    <3>1. Of(s) \in SUBSET Orders /\ Total(Commit, Of(s)) <= SymbolCap
      BY DEF Of, BuysOK, InCaps
    <3> QED
      BY <1>3, <3>1, CapBounds
  <2>2. Total(w, Orders) <= BookCap
    <3>1. Total(Commit, Orders) <= BookCap
      BY DEF BuysOK, InCaps
    <3> QED
      BY <1>3, <3>1, CapBounds
  <2> QED
    BY <1>1, <2>1, <2>2 DEF InCaps, Of
<1> QED
  BY <1>4, <1>5 DEF BuysOK

\* Every step but the reading of the positions, the admission and the refund.
LEMMA BuyOther ==
    ASSUME BuysInv, Sound', Plain, Heir(ledger'), RowOK'
    PROVE  BuysInv'
<1>1. PICK K : K = ledger'
  OBVIOUS
<1>2. BuysOK(K)
  BY <1>1, BuyHeir DEF BuysInv
<1> QED
  BY <1>1, <1>2, BuyPlain DEF BuysInv

\* The positions read hold all that is past them and was not open.
LEMMA BuyPositions ==
    ASSUME BuysInv, PastIsShown, NEW b \in Orders, ReadHoldings(b), UNCHANGED <<bought, days>>
    PROVE  BuysInv'
<1>1. PICK L : L = ledger
  OBVIOUS
<1>2. OrdersOK /\ LedgerOK(L) /\ BuysOK(L) /\ ReadOK(b) /\ Typed
  BY <1>1 DEF BuysInv, Sound, OrdersOK
<1>3. PICK x : x = [s \in Symbols |-> Shown(Of(s))]
  OBVIOUS
<1>4. PICK g : g = [read[b] EXCEPT !.seen = x]
  OBVIOUS
<1>5. /\ phase[b] = "orders" /\ phase' = [phase EXCEPT ![b] = "positions"]
      /\ read' = [read EXCEPT ![b] = g] /\ now' = now /\ venue' = venue /\ ledger' = L
  BY <1>1, <1>3, <1>4 DEF ReadHoldings, Moves
<1>6. Past(b) = Behind(L, read[b].at) /\ ShowsPast(b)
  <2>1. phase'[b] = "positions"
    BY <1>2, <1>5 DEF Typed
  <2> QED
    BY <1>1, <1>5, <2>1, PastIsBehind DEF PastIsShown
<1>7. \A s \in Symbols : /\ Total(Rest(b), Behind(L, read[b].at) \cap Of(s)) <= x[s]
                         /\ x[s] \in Nat
  <2> SUFFICES ASSUME NEW s \in Symbols
               PROVE  /\ Total(Rest(b), Behind(L, read[b].at) \cap Of(s)) <= x[s]
                      /\ x[s] \in Nat
    OBVIOUS
  <2>1. Of(s) \in SUBSET Orders /\ x[s] = Shown(Of(s))
    BY <1>3 DEF Of
  <2>2. Total(Rest(b), Past(b) \cap Of(s)) <= Shown(Of(s)) /\ Shown(Of(s)) \in Nat
    BY <1>2, <1>6, <2>1, PastInView
  <2> QED
    BY <1>6, <2>1, <2>2
<1>8. x \in [Symbols -> Nat]
  BY <1>3, <1>7
<1>9. g \in Glance /\ g.at = read[b].at /\ g.seen = x /\ g.statuses = read[b].statuses
      /\ g.open = read[b].open
  BY <1>2, <1>4, <1>8 DEF Typed, Glance
<1>10. /\ phase' \in [Orders -> Phases] /\ read' \in [Orders -> Glance]
       /\ \A q \in Orders \ {b} : phase'[q] = phase[q] /\ read'[q] = read[q]
       /\ phase'[b] = "positions" /\ read'[b] = g
  BY <1>2, <1>5, <1>9 DEF Typed, Phases, Reads
<1>11. ReadsOnly(b)
  BY <1>5, <1>10 DEF ReadsOnly, Reads
<1>12. ReadOK(b)'
  BY <1>2, <1>5, <1>9, <1>10 DEF ReadOK, Reads
<1>13. /\ OrdersOK' /\ LedgerOK(L)'
       /\ Commit' = Commit /\ \A o \in Orders : Standing(o)' <=> Standing(o)
  BY <1>2, <1>11, <1>12, ReadStep
<1>14. SeenIsAll(L)'
  <2>1. \A t : Behind(L, t)' = Behind(L, t)
    BY <1>13 DEF Behind
  <2>2. \A q \in Orders : read'[q].open = read[q].open
    BY <1>9, <1>10
  <2>3. \A q \in Orders : Rest(q)' = Rest(q)
    BY <1>13, <2>2 DEF Rest
  <2> SUFFICES ASSUME NEW q \in Orders, phase'[q] \in Told, Fresh(q)', NEW s \in Symbols
               PROVE  Total(Rest(q), Behind(L, read'[q].at) \cap Of(s)) <= read'[q].seen[s]
    BY <2>1, <2>3 DEF SeenIsAll, Told, Of
  <2>4. CASE q = b
    BY <1>7, <1>9, <1>10, <2>4
  <2>5. CASE q # b
    <3>1. phase[q] \in Told /\ read'[q] = read[q] /\ Fresh(q)
      BY <1>5, <1>10, <2>5 DEF Fresh, Told
    <3> QED
      BY <1>2, <3>1 DEF BuysOK, SeenIsAll
  <2> QED
    BY <2>4, <2>5
<1>15. BuysOK(L)'
  <2>1. InCaps'
    BY <1>2, <1>13 DEF BuysOK, InCaps, Of
  <2> QED
    BY <1>14, <2>1 DEF BuysOK
<1>16. RowOK'
  BY <1>2, <1>5, <1>13, RowKept DEF BuysInv, Typed
<1> QED
  BY <1>5, <1>13, <1>15, <1>16 DEF BuysInv, Sound

\* The account is read.
LEMMA AccountStep ==
    ASSUME Sound, NEW b \in Orders, ReadAccount(b)
    PROVE  Sound' /\ Plain /\ ledger' = ledger
<1>1. PICK L : L = ledger
  OBVIOUS
<1>2. OrdersOK /\ LedgerOK(L) /\ ReadOK(b) /\ Typed
  BY <1>1 DEF Sound, OrdersOK
<1>3. PICK x : x = Short(Power, Open(Resting, Orders) + Shown(Orders))
  OBVIOUS
<1>4. x \in Nat
  <2>1. Open(Resting, Orders) \in Nat
    BY <1>2, RestingTypes, OpenAddsUp
  <2>2. Shown(Orders) \in Nat
    <3>1. now \in Nat /\ Orders \in SUBSET Orders
      BY <1>2 DEF Typed
    <3>2. \A p \in Orders : ShownOf[p] \in Int /\ ShownOf[p] >= 0
      BY <1>2, VenueTypes DEF ShownOf
    <3>3. Total(ShownOf, Orders) \in Int /\ Total(ShownOf, Orders) >= 0
      BY <3>2, Bounds, TotalType
    <3> QED
      BY <3>3, ShownAddsUp
  <2>3. Power \in Nat
    BY CapBounds
  <2> QED
    BY <1>3, <2>1, <2>2, <2>3 DEF Short
<1>5. PICK g : g = [read[b] EXCEPT !.power = x]
  OBVIOUS
<1>6. /\ phase[b] = "positions" /\ phase' = [phase EXCEPT ![b] = "read"]
      /\ read' = [read EXCEPT ![b] = g] /\ now' = now /\ venue' = venue /\ ledger' = L
  BY <1>1, <1>3, <1>5 DEF ReadAccount, Moves
<1>7. g \in Glance /\ g.at = read[b].at /\ g.seen = read[b].seen /\ g.statuses = read[b].statuses
      /\ g.open = read[b].open
  BY <1>2, <1>4, <1>5 DEF Typed, Glance
<1>8. /\ ReadsOnly(b) /\ phase'[b] = "read" /\ read'[b] = g
  BY <1>2, <1>6, <1>7 DEF ReadsOnly, Typed, Phases, Reads
<1>9. ReadOK(b)'
  BY <1>2, <1>6, <1>7, <1>8 DEF ReadOK, Reads
<1>10. OrdersOK' /\ LedgerOK(L)' /\ Plain
  BY <1>2, <1>6, <1>7, <1>8, <1>9, ReadPlain DEF Told
<1> QED
  BY <1>1, <1>6, <1>10 DEF Sound

-----------------------------------------------------------------------------
(* The orders of some symbols. *)
Under(S) == {o \in Orders : SymbolOf[o] \in S}

\* Symbol by symbol, or all together.
LEMMA PartsAddUp ==
    ASSUME NEW S \in SUBSET Symbols, NEW A \in SUBSET Orders, NEW w, NEW seen,
           \A o \in Orders : w[o] \in Nat, \A s \in Symbols : seen[s] \in Nat,
           \A s \in S : Total(w, A \cap Of(s)) <= seen[s]
    PROVE  /\ Total(w, A \cap Under(S)) <= Total(seen, S)
           /\ Total(w, A \cap Under(S)) \in Nat /\ Total(seen, S) \in Nat
<1>0. IsFiniteSet(S)
  BY SymbolsFinite, FS_Subset
<1>1. ASSUME NEW B \in SUBSET Orders
      PROVE  IsFiniteSet(B) /\ Total(w, B) \in Nat /\ \A o \in B : w[o] \in Int
  <2>1. IsFiniteSet(B) /\ \A o \in B : w[o] \in Int /\ w[o] >= 0
    BY Bounds, FS_Subset
  <2>2. Total(w, B) \in Int /\ Total(w, B) >= 0
    BY <2>1, TotalType
  <2> QED
    BY <2>1, <2>2
<1>2. ASSUME NEW R \in SUBSET S PROVE Total(seen, R) \in Nat
  <2>1. IsFiniteSet(R) /\ \A s \in R : seen[s] \in Int /\ seen[s] >= 0
    BY <1>0, FS_Subset
  <2>2. Total(seen, R) \in Int /\ Total(seen, R) >= 0
    BY <2>1, TotalType
  <2> QED
    BY <2>2
<1> DEFINE Good(s) == Total(w, A \cap Under(s)) <= Total(seen, s)
           T == {s \in SUBSET S : ~ Good(s)}
<1>3. ASSUME T # {} PROVE FALSE
  <2>1. PICK m \in T : \A t \in T : t \subseteq m => t = m
    <3> T \subseteq SUBSET S
      OBVIOUS
    <3> HIDE DEF T
    <3> QED
      BY <1>0, <1>3, SmallestSubset
  <2>2. m \in SUBSET S /\ IsFiniteSet(m) /\ ~ Good(m)
    BY <1>0, FS_Subset
  <2>3. \A s \in SUBSET m : s # m => Good(s)
    BY <2>1
  <2> HIDE DEF T
  <2>4. CASE m = {}
    <3>1. A \cap Under(m) = {}
      BY <2>4 DEF Under
    <3>2. IsFiniteSet(A \cap Under(m))
      BY <1>1
    <3>3. Total(w, A \cap Under(m)) = 0 /\ Total(seen, m) = 0
      BY <2>2, <2>4, <3>1, <3>2, TotalStep
    <3> QED
      BY <2>2, <3>3
  <2>5. CASE m # {}
    <3> DEFINE x == AnyOf(m)
               r == m \ {x}
               B == A \cap Under(m)
               R == A \cap Under(r)
    <3>1. x \in m /\ Total(seen, m) = seen[x] + Total(seen, r)
      BY <2>2, <2>5, TotalStep
    <3>2. Good(r) /\ r \in SUBSET S /\ x \in S
      BY <2>2, <2>3, <3>1
    <3>3. B \ R = A \cap Of(x) /\ R \in SUBSET B /\ B \in SUBSET Orders
      BY <3>1 DEF Under, Of
    <3>4. Total(w, R) <= Total(seen, r) /\ ~ (Total(w, B) <= Total(seen, m))
      BY <2>2, <3>2
    <3> HIDE DEF x, r, B, R
    <3>5. Total(w, B) = Total(w, R) + Total(w, B \ R)
      <4>1. IsFiniteSet(B) /\ \A o \in B : w[o] \in Int
        BY <1>1, <3>3
      <4> QED
        BY <3>3, <4>1, TotalSplits
    <3>6. Total(w, B \ R) <= seen[x]
      BY <3>2, <3>3
    <3>7. /\ Total(w, B \ R) \in Nat /\ Total(w, R) \in Nat /\ Total(w, B) \in Nat
      <4>1. B \ R \in SUBSET Orders /\ R \in SUBSET Orders
        BY <3>3
      <4> QED
        BY <1>1, <3>3, <4>1
    <3>8. /\ seen[x] \in Nat /\ Total(seen, r) \in Nat /\ Total(seen, m) \in Nat
      BY <1>2, <2>2, <3>2
    <3> QED
      BY <3>1, <3>4, <3>5, <3>6, <3>7, <3>8
  <2> QED
    BY <2>4, <2>5
<1>4. Good(S)
  BY <1>3
<1>5. A \cap Under(S) \in SUBSET Orders
  OBVIOUS
<1> QED
  BY <1>1, <1>2, <1>4, <1>5

(* What an entry adds to a reading. *)
Net(e, open) == Short(e.amount, IF e.client = NoClient THEN 0 ELSE open[e.id])

(* The entries that count against the reading of request b. *)
Counted(b, L, S) == {e \in L : HeldFor(e, read[b].at) /\ e.symbol \in S}

\* The model's sum of what is in flight.
LEMMA FlightAddsUp ==
    ASSUME NEW b \in Orders, NEW S, NEW C, C = Counted(b, Known(b, "buy"), S), IsFiniteSet(C)
    PROVE  Flight(b, S) = Total([e \in C |-> Net(e, read[b].open)], C)
<1> DEFINE am == [e \in C |-> Net(e, read[b].open)]
           P(g) == g = [s \in SUBSET C |-> IF s = {} THEN 0
                          ELSE Short(AnyOf(s).amount,
                                     IF AnyOf(s).client = NoClient THEN 0
                                     ELSE read[b].open[AnyOf(s).id])
                               + g[s \ {AnyOf(s)}]]
           h == CHOOSE g : P(g)
<1>1. Flight(b, S) = h[C]
  BY DEF Flight, Counted, MapThenSumSet, MapThenFoldSet, AnyOf
<1>2. \A s \in SUBSET C : s # {} =>
         Short(AnyOf(s).amount, IF AnyOf(s).client = NoClient THEN 0 ELSE read[b].open[AnyOf(s).id])
            = am[AnyOf(s)]
  BY AnyIn DEF Net
<1>3. \A g : P(g) <=> Adds(g, am, C)
  <2> HIDE DEF am
  <2> QED
    BY <1>2 DEF Adds
<1>4. \E g : P(g)
  <2> HIDE DEF am
  <2> QED
    BY <1>3, AddsExists
<1>5. P(h)
  <2> HIDE DEF P
  <2> QED
    BY <1>4
<1>6. Adds(h, am, C)
  <2> HIDE DEF h, P, am
  <2> QED
    BY <1>3, <1>5
<1> HIDE DEF h, am
<1>7. Flight(b, S) = Total(am, C)
  BY <1>1, <1>6, TotalAdds
<1> QED
  BY <1>7 DEF am

\* What the gate counts of some symbols is all that their orders may fill.
LEMMA ExposureCovers ==
    ASSUME OrdersOK, NEW b \in Orders, phase[b] = "ready", Fresh(b),
           NEW L, L = Known(b, "buy"), LedgerOK(L), SeenIsAll(L), NEW S \in SUBSET Symbols
    PROVE  /\ Total(Commit, Under(S)) <= Exposure(b, S)
           /\ Total(Commit, Under(S)) \in Nat /\ Exposure(b, S) \in Nat
<1>1. PICK t, open, seen : t = read[b].at /\ open = read[b].open /\ seen = read[b].seen
  OBVIOUS
<1>2. PICK C : C = Counted(b, L, S)
  OBVIOUS
<1>3. PICK A : A = Under(S)
  OBVIOUS
<1>4. PICK old : old = Behind(L, t)
  OBVIOUS
<1>0. PICK v : v = Rest(b)
  OBVIOUS
<1> DEFINE am == [e \in C |-> Net(e, open)]
           I  == Ids(C)
<1>5. /\ t \in Nat /\ now \in Nat /\ {Pending, Hold} \subseteq Nat
      /\ \A o \in Orders : Commit[o] \in Nat /\ open[o] \in Nat
      /\ \A s \in Symbols : seen[s] \in Nat
      /\ \A o \in Orders : v[o] = Short(Commit[o], open[o])
  BY <1>0, <1>1, Bounds, ReadTypes, CommitTypes DEF OrdersOK, Typed, Rest
<1>6. /\ L \in SUBSET Entry /\ IsFiniteSet(L) /\ InOrder(L)
      /\ \A e \in L : EntryOK(e)
      /\ C \in SUBSET L /\ IsFiniteSet(C)
  BY <1>2, FS_Subset DEF LedgerOK, Counted
<1>7. Flight(b, S) = Total(am, C)
  BY <1>1, <1>2, <1>6, FlightAddsUp
<1>8. ASSUME NEW e \in C
      PROVE  /\ am[e] \in Nat /\ v[e.id] \in Nat /\ v[e.id] <= am[e]
             /\ e.id \in Orders /\ SymbolOf[e.id] \in S
  <2>1. /\ e \in Entry /\ EntryOK(e) /\ e.symbol \in S
    BY <1>2, <1>6 DEF Counted
  <2>2. /\ e.id \in Orders /\ e.amount \in Nat /\ Commit[e.id] <= e.amount
        /\ e.client = NoClient \/ e.client = e.id
    BY <2>1, EntryTypes DEF EntryOK, Client
  <2>3. Commit[e.id] \in Nat /\ open[e.id] \in Nat
    BY <1>5, <2>2
  <2>4. /\ v[e.id] = Short(Commit[e.id], open[e.id])
        /\ am[e] = Short(e.amount, IF e.client = NoClient THEN 0 ELSE open[e.id])
    BY <1>5, <2>2 DEF Net
  <2> HIDE DEF am
  <2>5. am[e] \in Nat /\ v[e.id] \in Nat /\ v[e.id] <= am[e]
    BY <2>2, <2>3, <2>4 DEF Short
  <2> QED
    BY <2>1, <2>2, <2>5 DEF EntryOK
<1>9. \A o \in Orders : v[o] \in Nat /\ Commit[o] <= open[o] + v[o]
  BY <1>5 DEF Short
<1> HIDE DEF am
<1>10. /\ Total(v, I) <= Total(am, C) /\ Total(am, C) \in Nat /\ I \in SUBSET Orders
  BY <1>6, <1>8, EntriesCover
<1>11. I \in SUBSET A /\ A \in SUBSET Orders /\ old \in SUBSET Orders
  BY <1>3, <1>4, <1>8 DEF Ids, Under, Behind
<1>12. ASSUME NEW o \in A \ old PROVE v[o] = 0 \/ o \in I
  <2>1. CASE ~Standing(o)
    <3>1. Commit[o] = 0 /\ o \in Orders
      BY <1>11, <2>1, CommitStands
    <3> QED
      BY <1>5, <3>1 DEF Short
  <2>2. CASE Standing(o)
    <3>1. PICK e \in L : e.id = o /\ HeldFor(e, read[b].at)
      BY <1>1, <1>4, <1>11, <2>2 DEF Behind
    <3>2. e.symbol = SymbolOf[o] /\ SymbolOf[o] \in S
      BY <1>3, <1>6, <3>1 DEF EntryOK, Under
    <3> QED
      BY <1>2, <3>1, <3>2 DEF Counted, Ids
  <2> QED
    BY <2>1, <2>2
<1> HIDE DEF I
<1>13. Total(v, A \ old) <= Total(v, I) /\ Total(v, A \ old) \in Nat /\ Total(v, I) \in Nat
  <2>1. A \ old \in SUBSET Orders
    BY <1>11
  <2>2. \A o \in A \ old : v[o] = 0 \/ (o \in I /\ v[o] <= v[o])
    BY <1>9, <1>11, <1>12
  <2> QED
    BY <1>9, <1>10, <2>1, <2>2, Bounds, TotalCovers
<1>14. Total(Commit, A) <= Total(open, A) + Total(v, A)
       /\ Total(open, A) \in Nat /\ Total(v, A) \in Nat /\ Total(Commit, A) \in Nat
  <2> DEFINE both == [o \in A |-> open[o] + v[o]]
  <2>1. IsFiniteSet(A)
    BY <1>11, Bounds, FS_Subset
  <2>2. \A o \in A : /\ Commit[o] \in Int /\ open[o] \in Int /\ v[o] \in Int
                     /\ open[o] >= 0 /\ v[o] >= 0 /\ Commit[o] >= 0
                     /\ both[o] \in Int /\ Commit[o] <= both[o]
    BY <1>5, <1>9, <1>11
  <2>3. Total(both, A) = Total(open, A) + Total(v, A)
    BY <2>1, <2>2, TotalsCompare
  <2> HIDE DEF both
  <2>4. Total(Commit, A) <= Total(both, A)
    BY <2>1, <2>2, TotalBelow
  <2>5. /\ Total(open, A) \in Int /\ Total(open, A) >= 0
        /\ Total(v, A) \in Int /\ Total(v, A) >= 0
        /\ Total(Commit, A) \in Int /\ Total(Commit, A) >= 0
    BY <2>1, <2>2, TotalType
  <2> QED
    BY <2>3, <2>4, <2>5
<1>15. Total(open, A) = Open(open, A)
  BY <1>5, <1>11, OpenAddsUp
<1>16. Total(v, old \cap A) <= Total(seen, S) /\ Total(v, old \cap A) \in Nat
       /\ Total(seen, S) \in Nat
  <2>1. \A s \in S : Total(v, old \cap Of(s)) <= seen[s]
    BY <1>0, <1>1, <1>4 DEF SeenIsAll, Told
  <2> QED
    BY <1>3, <1>5, <1>9, <1>11, <2>1, PartsAddUp
<1>17. Total(v, A) = Total(v, old \cap A) + Total(v, A \ old)
  <2> DEFINE R == old \cap A
  <2>1. A \ R = A \ old /\ R \in SUBSET A /\ IsFiniteSet(A) /\ \A o \in A : v[o] \in Int
    BY <1>9, <1>11, Bounds, FS_Subset
  <2> HIDE DEF R
  <2>2. Total(v, A) = Total(v, R) + Total(v, A \ R)
    BY <2>1, TotalSplits
  <2> QED
    BY <2>1, <2>2 DEF R
<1>18. Exposure(b, S) = Total(seen, S) + Open(open, A) + Flight(b, S)
  BY <1>1, <1>3 DEF Exposure, Under, Total
<1> QED
  BY <1>3, <1>7, <1>10, <1>13, <1>14, <1>15, <1>16, <1>17, <1>18

-----------------------------------------------------------------------------
\* A buy is admitted: what the gate counted, with it, is within the caps.
LEMMA BuyAdmits ==
    ASSUME BuysInv, NEW c \in Orders, ReserveBuy(c)
    PROVE  BuysInv'
<1>1. PICK L : L = Known(c, "buy")
  OBVIOUS
<1>2. OrdersOK /\ Typed /\ Sound /\ BuysOK(ledger)
  BY DEF BuysInv, Sound, OrdersOK
<1>3. LedgerOK(L) /\ BuysOK(L) /\ L \in SUBSET Entry
  BY <1>1, <1>2, KnownOK, BuyHeir DEF LedgerOK
<1>4. /\ phase[c] = "ready" /\ Fresh(c) /\ Size[c] \in Nat /\ SymbolOf[c] \in Symbols
      /\ Exposure(c, {SymbolOf[c]}) + Size[c] <= SymbolCap
      /\ Exposure(c, Symbols) + Size[c] <= BookCap
      /\ Admit(c, "buy", 0)
  BY Bounds DEF ReserveBuy, Admit, Moves
<1>5. Sound' /\ \E e \in Entry : Admits(c, L, e)
  BY <1>1, <1>2, <1>4, AdmitStep
<1>6. PICK new \in Entry : Admits(c, L, new)
  BY <1>5
<1>7. PICK K : K = L \cup {new}
  OBVIOUS
<1>8. PICK w : w = Commit'
  OBVIOUS
<1>9. /\ new.id = c /\ new.at = now /\ new.settled = NoTime /\ ledger' = K /\ now' = now
      /\ phase'[c] = "reserved" /\ ~Standing(c)
      /\ \A p \in Orders : /\ p # c => phase'[p] = phase[p] /\ read'[p] = read[p]
                           /\ Standing(p)' <=> Standing(p) \/ p = c
                           /\ w[p] = IF p = c THEN Size[c] ELSE Commit[p]
  BY <1>6, <1>7, <1>8 DEF Admits
<1>10. /\ \A p \in Orders : Commit[p] \in Nat /\ w[p] \in Nat
       /\ Commit[c] = 0 /\ w[c] = Size[c] /\ now \in Nat
  BY <1>2, <1>4, <1>9, CommitTypes, CommitStands DEF Typed
<1>11. ASSUME NEW S \in SUBSET Orders, c \in S
       PROVE  Total(w, S) = Total(Commit, S) + Size[c] /\ Total(Commit, S) \in Nat
  <2>1. IsFiniteSet(S) /\ \A p \in S : /\ w[p] \in Int /\ Commit[p] \in Int
                                       /\ p # c => w[p] = Commit[p]
    BY <1>9, <1>10, Bounds, FS_Subset
  <2>2. Total(w, S) = Total(Commit, S) + w[c] - Commit[c]
    BY <1>11, <2>1, TotalChanges
  <2>3. Total(Commit, S) \in Nat
    BY <1>2, CommitGrows
  <2> QED
    BY <1>4, <1>10, <2>2, <2>3
<1>12. ASSUME NEW S \in SUBSET Orders, c \notin S
       PROVE  Total(w, S) = Total(Commit, S)
  <2>1. IsFiniteSet(S) /\ \A p \in S : w[p] = Commit[p]
    BY <1>9, <1>12, Bounds, FS_Subset
  <2> QED
    BY <2>1, TotalSame
<1>13. \A s \in Symbols : Total(w, Of(s)) <= SymbolCap
  <2> SUFFICES ASSUME NEW s \in Symbols PROVE Total(w, Of(s)) <= SymbolCap
    OBVIOUS
  <2>1. Of(s) \in SUBSET Orders
    BY DEF Of
  <2>2. CASE c \in Of(s)
    <3>1. Of(s) = Under({s}) /\ s = SymbolOf[c] /\ {s} \in SUBSET Symbols
      BY <2>2 DEF Of, Under
    <3>2. /\ Total(Commit, Of(s)) <= Exposure(c, {SymbolOf[c]})
          /\ Total(Commit, Of(s)) \in Nat /\ Exposure(c, {SymbolOf[c]}) \in Nat
      <4>1. /\ Total(Commit, Under({s})) <= Exposure(c, {s})
            /\ Total(Commit, Under({s})) \in Nat /\ Exposure(c, {s}) \in Nat
        BY <1>1, <1>2, <1>3, <1>4, <3>1, ExposureCovers DEF BuysOK
      <4> QED
        BY <3>1, <4>1
    <3>3. Total(w, Of(s)) = Total(Commit, Of(s)) + Size[c]
      BY <1>11, <2>1, <2>2
    <3> QED
      BY <1>4, <3>2, <3>3, CapBounds
  <2>3. CASE c \notin Of(s)
    BY <1>3, <1>12, <2>1, <2>3 DEF BuysOK, InCaps
  <2> QED
    BY <2>2, <2>3
<1>14. Total(w, Orders) <= BookCap
  <2>1. Under(Symbols) = Orders
    BY Bounds DEF Under
  <2>2. /\ Total(Commit, Orders) <= Exposure(c, Symbols)
        /\ Total(Commit, Orders) \in Nat /\ Exposure(c, Symbols) \in Nat
    BY <1>1, <1>2, <1>3, <1>4, <2>1, ExposureCovers DEF BuysOK
  <2>3. Total(w, Orders) = Total(Commit, Orders) + Size[c]
    BY <1>11
  <2> QED
    BY <1>4, <2>2, <2>3, CapBounds
<1>15. SeenIsAll(K)'
  <2> SUFFICES ASSUME NEW q \in Orders, phase'[q] \in Told, Fresh(q)', NEW s \in Symbols
               PROVE  Total(Rest(q)', Behind(K, read[q].at)' \cap Of(s)) <= read'[q].seen[s]
    BY DEF SeenIsAll, Told, Of
  <2>1. q # c /\ phase[q] \in Told /\ read'[q] = read[q] /\ Fresh(q)
    BY <1>9 DEF Fresh, Told
  <2> PICK t : t = read[q].at
    OBVIOUS
  <2>2. PICK A : A = Behind(K, t)' \cap Of(s)
    OBVIOUS
  <2>3. PICK B : B = Behind(L, t) \cap Of(s)
    OBVIOUS
  <2>4. t \in Nat /\ t <= now /\ read[q].seen[s] \in Nat
    BY <1>2, <2>1, ReadTypes DEF OrdersOK, ReadOK, Reads, Told
  <2>5. Total(Rest(q), B) <= read[q].seen[s]
    BY <1>3, <2>1, <2>3 DEF BuysOK, SeenIsAll
  <2>6. c \notin A
    <3>1. HeldFor(new, t)
      BY <1>9, <1>10, <2>4, NewIsHeld
    <3> QED
      BY <1>7, <1>9, <2>2, <3>1 DEF Behind
  <2>7. A \in SUBSET B /\ B \in SUBSET Orders /\ IsFiniteSet(A)
    <3>1. A \in SUBSET B /\ B \in SUBSET Orders
      BY <1>7, <1>9, <2>2, <2>3, <2>6 DEF Behind
    <3> QED
      BY <3>1, Bounds, FS_Subset
  <2>8. PICK rest : rest = Rest(q)'
    OBVIOUS
  <2>9. \A o \in A : rest[o] = Rest(q)[o]
    BY <1>8, <1>9, <2>1, <2>6, <2>7, <2>8 DEF Rest
  <2>10. Total(rest, A) = Total(Rest(q), A)
    BY <2>7, <2>9, TotalSame
  <2>11. Total(Rest(q), A) <= Total(Rest(q), B)
         /\ Total(Rest(q), A) \in Nat /\ Total(Rest(q), B) \in Nat
    BY <1>2, <2>7, RestGrows
  <2>12. Behind(K, read[q].at)' \cap Of(s) = A
    BY <2>1, <2>2
  <2> QED
    BY <2>1, <2>4, <2>5, <2>8, <2>10, <2>11, <2>12
<1>16. RowOK'
  <2>1. PICK d : d = DayOf(now)
    OBVIOUS
  <2>2. /\ Today \in [day : Nat, sum : Nat] /\ Today.day = d
        /\ Today.sum = Total(Size, Taken(d)) /\ d \in Nat
    BY <1>10, <2>1, RowToday, DaysPass DEF BuysInv
  <2>3. /\ bought \in [day : Nat, sum : Nat] /\ days \in [Orders -> Nat] /\ bought.day <= d
        /\ \A b \in Orders : Standing(b) => days[b] <= bought.day
    BY <2>1 DEF BuysInv, RowOK
  <2>4. PICK n : n = Today.sum + Size[c]
    OBVIOUS
  <2>5. bought' = [Today EXCEPT !.sum = n] /\ days' = [days EXCEPT ![c] = d] /\ n \in Nat
    BY <1>4, <2>2, <2>4 DEF ReserveBuy
  <2>6. /\ bought' \in [day : Nat, sum : Nat] /\ bought'.day = d /\ bought'.sum = n
        /\ days' \in [Orders -> Nat] /\ days'[c] = d /\ \A p \in Orders \ {c} : days'[p] = days[p]
    BY <2>2, <2>3, <2>5
  <2>7. DayOf(now)' = d
    BY <1>9, <2>1 DEF DayOf
  <2>8. \A b \in Orders : Standing(b)' => days'[b] <= d
    BY <1>9, <2>2, <2>3, <2>6
  <2>9. PICK T : T = Taken(d)
    OBVIOUS
  <2>10. /\ Taken(d)' = T \cup {c} /\ c \notin T /\ IsFiniteSet(T)
         /\ \A o \in T \cup {c} : Size[o] \in Int
    <3>1. T \in SUBSET Orders /\ c \notin T
      BY <1>9, <2>9 DEF Taken
    <3>2. Taken(d)' = T \cup {c}
      BY <1>9, <2>6, <2>9 DEF Taken
    <3> QED
      BY <3>1, <3>2, Bounds, FS_Subset
  <2>11. Total(Size, T \cup {c}) = Total(Size, T) + Size[c]
    BY <2>10, TotalWith
  <2>12. bought'.sum = Total(Size, Taken(d)')
    BY <2>2, <2>4, <2>6, <2>9, <2>10, <2>11
  <2>13. Taken(bought.day)' = Taken(d)'
    BY <2>6 DEF Taken
  <2> QED
    BY <2>2, <2>6, <2>7, <2>8, <2>12, <2>13 DEF RowOK
<1>17. BuysOK(K)'
  BY <1>8, <1>13, <1>14, <1>15 DEF BuysOK, InCaps, Of
<1> QED
  BY <1>5, <1>9, <1>16, <1>17 DEF BuysInv

\* A refund takes off the day what the order's entry holds: all of its size.
LEMMA BuyRefunds ==
    ASSUME BuysInv, NEW c \in Orders, RefundBuy(c)
    PROVE  BuysInv'
<1>1. PICK L : L = Pruned(ledger, now)
  OBVIOUS
<1>2. PICK K : K = Without(L, c)
  OBVIOUS
<1>3. OrdersOK /\ Typed /\ Sound /\ BuysOK(ledger) /\ Refund(c)
  BY DEF BuysInv, Sound, OrdersOK, RefundBuy
<1>4. Sound' /\ Refunds(c, L)
  BY <1>1, <1>3, RefundStep
<1>5. LedgerOK(L) /\ BuysOK(L)
  <2>1. Renewed(L, L)
    <3> DEFINE F == [e \in L |-> e]
    <3>1. L = {F[e] : e \in L} /\ \A e \in L : Same(e, F[e])
      BY DEF Same
    <3> HIDE DEF F
    <3> QED
      BY <3>1 DEF Renewed
  <2> QED
    BY <1>1, <1>3, <1>4, <2>1, BuyHeir DEF Refunds, Heir
<1>6. PICK w : w = Commit'
  OBVIOUS
<1>7. /\ ledger' = K /\ now' = now /\ read' = read /\ phase[c] = "reserved"
      /\ phase'[c] = "refunded" /\ Standing(c)
      /\ \A p \in Orders : /\ p # c => phase'[p] = phase[p]
                           /\ Standing(p)' <=> Standing(p) /\ p # c
                           /\ w[p] = IF p = c THEN 0 ELSE Commit[p]
  BY <1>2, <1>4, <1>6 DEF Refunds
<1>8. AmountHeld(c, L) = Size[c] /\ Size[c] \in Nat
  <2>1. c \in Ids(L)
    BY <1>5, <1>7 DEF LedgerOK, ReservedIsIn
  <2>2. PICK x \in L : x.id = c
    BY <2>1 DEF Ids
  <2>3. {e \in L : e.id = c} = {x}
    BY <1>5, <2>2 DEF LedgerOK, InOrder
  <2>4. x.amount = Size[c]
    BY <1>5, <1>7, <2>2 DEF LedgerOK, EntryOK
  <2> DEFINE X == {x}
             am == [e \in X |-> e.amount]
  <2>5. IsFiniteSet(X) /\ X # {} /\ AnyOf(X) = x /\ IsFiniteSet({})
    BY FS_Singleton, FS_EmptySet, AnyIn
  <2>6. AmountOf(X) = Total(am, X) /\ am[x] = Size[c] /\ X \ {x} = {}
    BY <2>4, <2>5, AmountsAddUp
  <2> HIDE DEF am, X
  <2>7. Total(am, X) = am[x] + Total(am, {}) /\ Total(am, {}) = 0
    BY <2>5, <2>6, TotalStep
  <2>8. AmountHeld(c, L) = AmountOf(X)
    BY <2>3 DEF AmountHeld, X
  <2>9. Size[c] \in Nat
    BY Bounds
  <2> QED
    BY <2>6, <2>7, <2>8, <2>9
<1>9. \A p \in Orders : Commit[p] \in Nat /\ w[p] \in Nat /\ w[p] <= Commit[p]
  BY <1>3, <1>7, CommitTypes
<1>10. ASSUME NEW A \in SUBSET Orders, NEW B \in SUBSET Orders, \A p \in A : p = c \/ p \in B
       PROVE  Total(w, A) <= Total(Commit, B) /\ Total(w, A) \in Nat /\ Total(Commit, B) \in Nat
  <2>1. \A p \in A : w[p] = 0 \/ (p \in B /\ w[p] <= Commit[p])
    BY <1>7, <1>9, <1>10
  <2>2. \A p \in Orders : Commit[p] \in Nat /\ w[p] \in Nat
    BY <1>9
  <2> QED
    BY <2>1, <2>2, Bounds, TotalCovers
<1>11. SeenIsAll(K)'
  <2> SUFFICES ASSUME NEW q \in Orders, phase'[q] \in Told, Fresh(q)', NEW s \in Symbols
               PROVE  Total(Rest(q)', Behind(K, read[q].at)' \cap Of(s)) <= read[q].seen[s]
    BY <1>7 DEF SeenIsAll, Told, Of
  <2>1. phase[q] \in Told /\ Fresh(q) /\ read[q].seen[s] \in Nat
    BY <1>3, <1>7, ReadTypes DEF Fresh, Told
  <2> PICK t : t = read[q].at
    OBVIOUS
  <2> PICK rest : rest = Rest(q)'
    OBVIOUS
  <2>2. PICK A : A = Behind(K, t)' \cap Of(s)
    OBVIOUS
  <2>3. PICK B : B = Behind(L, t) \cap Of(s)
    OBVIOUS
  <2>4. Total(Rest(q), B) <= read[q].seen[s]
    BY <1>5, <2>1, <2>3 DEF BuysOK, SeenIsAll
  <2>5. A \in SUBSET B /\ B \in SUBSET Orders
    <3>1. ASSUME NEW p \in A PROVE p \in B
      <4>1. p # c
        BY <1>7, <2>2 DEF Behind
      <4>2. \A e \in L : e.id = p => e \in K
        BY <1>2, <4>1 DEF Without
      <4> QED
        BY <1>7, <2>2, <2>3, <4>1, <4>2 DEF Behind
    <3> QED
      BY <2>3, <3>1 DEF Behind
  <2>6. \A o \in Orders : rest[o] = Short(w[o], read[q].open[o])
    BY <1>6, <1>7 DEF Rest
  <2>7. Total(rest, A) <= Total(Rest(q), A) /\ Total(rest, A) \in Nat
        /\ Total(Rest(q), A) \in Nat
    BY <1>3, <1>9, <2>5, <2>6, RestLess
  <2>8. Total(Rest(q), A) <= Total(Rest(q), B) /\ Total(Rest(q), B) \in Nat
    BY <1>3, <2>5, RestGrows
  <2>9. Behind(K, read[q].at)' \cap Of(s) = A
    BY <1>7, <2>2
  <2> QED
    BY <2>1, <2>4, <2>7, <2>8, <2>9
<1>12. \A s \in Symbols : Total(w, Of(s)) <= SymbolCap
  <2> SUFFICES ASSUME NEW s \in Symbols PROVE Total(w, Of(s)) <= SymbolCap
    OBVIOUS
  <2>1. Of(s) \in SUBSET Orders /\ Total(Commit, Of(s)) <= SymbolCap
    BY <1>5 DEF Of, BuysOK, InCaps
  <2>2. Total(w, Of(s)) <= Total(Commit, Of(s)) /\ Total(w, Of(s)) \in Nat
        /\ Total(Commit, Of(s)) \in Nat
    BY <1>10, <2>1
  <2> QED
    BY <2>1, <2>2, CapBounds
<1>13. Total(w, Orders) <= BookCap
  <2>1. Total(w, Orders) <= Total(Commit, Orders) /\ Total(w, Orders) \in Nat
        /\ Total(Commit, Orders) \in Nat
    BY <1>10
  <2>2. Total(Commit, Orders) <= BookCap
    BY <1>5 DEF BuysOK, InCaps
  <2> QED
    BY <2>1, <2>2, CapBounds
<1>14. RowOK'
  <2>1. PICK d : d = DayOf(now)
    OBVIOUS
  <2>2. /\ Today \in [day : Nat, sum : Nat] /\ Today.day = d
        /\ Today.sum = Total(Size, Taken(d)) /\ d \in Nat
    BY <1>3, <2>1, RowToday, DaysPass DEF BuysInv, Typed
  <2>3. /\ bought \in [day : Nat, sum : Nat] /\ days \in [Orders -> Nat] /\ bought.day <= d
        /\ \A b \in Orders : Standing(b) => days[b] <= bought.day
        /\ bought.day = d => bought.sum = Total(Size, Taken(bought.day))
    BY <2>1 DEF BuysInv, RowOK
  <2>4. DayOf(now)' = d /\ days' = days
    BY <1>7, <2>1 DEF DayOf, RefundBuy
  <2>5. PICK T : T = Taken(d)
    OBVIOUS
  <2>6. CASE days[c] = d
    <3>1. PICK n : n = Short(Today.sum, Size[c])
      OBVIOUS
    <3>2. bought' = [Today EXCEPT !.sum = n] /\ n \in Nat
      <4>1. bought' = [Today EXCEPT !.sum = n]
        BY <1>1, <1>8, <2>2, <2>6, <3>1 DEF RefundBuy, GiveBack
      <4> QED
        BY <1>8, <2>2, <3>1, <4>1 DEF Short
    <3>3. bought' \in [day : Nat, sum : Nat] /\ bought'.day = d /\ bought'.sum = n
      BY <2>2, <3>2
    <3> DEFINE rest == T \ {c}
    <3>4. /\ Taken(d)' = rest /\ c \in T /\ IsFiniteSet(T) /\ IsFiniteSet(rest)
          /\ \A o \in T : Size[o] \in Int /\ Size[o] >= 0
      <4>1. T \in SUBSET Orders /\ c \in T
        BY <1>7, <2>5, <2>6 DEF Taken
      <4>2. Taken(d)' = rest
        BY <1>7, <2>4, <2>5 DEF Taken
      <4> QED
        BY <4>1, <4>2, Bounds, FS_Subset
    <3>5. Total(Size, T) = Size[c] + Total(Size, rest)
      BY <3>4, TotalWithout
    <3>6. \A o \in rest : Size[o] \in Int /\ Size[o] >= 0
      BY <3>4
    <3> HIDE DEF rest
    <3>7. PICK m : m = Total(Size, rest)
      OBVIOUS
    <3>8. m \in Int /\ m >= 0
      BY <3>4, <3>6, <3>7, TotalType
    <3>9. Today.sum = Size[c] + m
      BY <2>2, <2>5, <3>5, <3>7
    <3>10. n = m
      BY <1>8, <3>1, <3>8, <3>9 DEF Short
    <3>11. Taken(bought.day)' = rest
      BY <3>3, <3>4 DEF Taken
    <3>12. \A b \in Orders : Standing(b)' => days'[b] <= d
      BY <1>7, <2>2, <2>3, <2>4
    <3> QED
      BY <2>2, <2>3, <2>4, <3>3, <3>7, <3>10, <3>11, <3>12 DEF RowOK
  <2>7. CASE days[c] # d
    <3>1. bought' = bought
      BY <2>2, <2>7 DEF RefundBuy
    <3>2. Taken(d)' = Taken(d)
      BY <1>7, <2>4, <2>7 DEF Taken
    <3>3. bought.day = d => Taken(bought.day)' = Taken(bought.day)
      BY <3>1, <3>2 DEF Taken
    <3> QED
      BY <1>7, <2>3, <2>4, <3>1, <3>3 DEF RowOK
  <2> QED
    BY <2>6, <2>7
<1>15. BuysOK(K)'
  BY <1>6, <1>11, <1>12, <1>13 DEF BuysOK, InCaps, Of
<1> QED
  BY <1>4, <1>7, <1>14, <1>15 DEF BuysInv

-----------------------------------------------------------------------------
(* Whatever the orders, their sizes and the stock, in whatever order reads, *)
(* answers, fills and showings come: what the admitted sales may still      *)
(* sell, with what is sold, is never more than is held.                     *)
THEOREM ClosesHold == ASSUME OfOneStock PROVE Spec => []ClosesInv
<1>1. Init => ClosesInv
  <2> SUFFICES ASSUME Init PROVE ClosesInv
    OBVIOUS
  <2>1. Total(Commit, Orders) = 0 /\ ledger = {} /\ Sound /\ \A o \in Orders : phase[o] = "new"
    BY InitSound
  <2>2. ClosesOK(ledger)
    BY <2>1, Bounds DEF ClosesOK, Room, SeenIsFree, Told
  <2> QED
    BY <2>1, <2>2 DEF ClosesInv
<1>2. ClosesInv /\ [Next /\ PastIsShown /\ JudgedInTime]_vars => ClosesInv'
  <2> SUFFICES ASSUME ClosesInv, [Next /\ PastIsShown /\ JudgedInTime]_vars PROVE ClosesInv'
    OBVIOUS
  <2>1. Sound
    BY DEF ClosesInv
  <2>2. ASSUME NEW c \in Orders, Handle(c), PastIsShown, JudgedInTime PROVE ClosesInv'
    <3>1. CASE Handler(c, "close")
      BY <2>1, <3>1, HandlerStep, CloseOther
    <3>2. CASE ReadPositions(c)
      BY <2>2, <3>2, ClosePositions
    <3>3. CASE Reserve(c)
      BY <2>2, <3>3, CloseAdmits
    <3>4. CASE Refund(c)
      BY <3>4, CloseRefunds
    <3> QED
      BY <2>2, <3>1, <3>2, <3>3, <3>4 DEF Handle
  <2>3. ASSUME NEW c \in Orders, Exchange(c) PROVE ClosesInv'
    BY <2>1, <2>3, ExchangeStep, CloseOther DEF Heir
  <2>4. CASE Tick
    BY <2>1, <2>4, TickStep, CloseOther DEF Heir
  <2>5. CASE UNCHANGED vars
    BY <2>1, <2>5, StutterStep, CloseOther DEF Heir
  <2> QED
    BY <2>2, <2>3, <2>4, <2>5 DEF Next
<1> QED
  BY <1>1, <1>2, PTL DEF Spec

(* Nothing sold is ever a short sale (gate.reserveStockClose and the        *)
(* router's reads before it), however late orders arrive, fill and show, if *)
(* readings show what is past its hold and no close is judged too late.     *)
THEOREM NeverShort == ASSUME OfOneStock PROVE Spec => []NoShortSale
<1>1. Spec => []ClosesInv
  BY ClosesHold
<1>2. ClosesInv => NoShortSale
  <2> SUFFICES ASSUME ClosesInv PROVE NoShortSale
    OBVIOUS
  <2>1. /\ Filled(Orders) <= Total(Commit, Orders) /\ Filled(Orders) \in Nat
        /\ Total(Commit, Orders) \in Nat /\ Total(Commit, Orders) <= Shares
    BY FilledInCommit DEF ClosesInv, ClosesOK, Sound
  <2> QED
    BY <2>1, Bounds DEF NoShortSale
<1> QED
  BY <1>1, <1>2, PTL

(* Whatever the buys, their dollars and their symbols: what the admitted    *)
(* buys may still buy, with what is bought, is within every cap, and the    *)
(* day's row holds each buy that stands, once.                              *)
THEOREM BuysHold == BuySpec => []BuysInv
<1>1. BuyInit => BuysInv
  <2> SUFFICES ASSUME BuyInit PROVE BuysInv
    OBVIOUS
  <2>1. /\ Sound /\ ledger = {} /\ now = 0 /\ \A o \in Orders : phase[o] = "new"
        /\ \A S \in SUBSET Orders : Total(Commit, S) = 0
        /\ bought = [day |-> 0, sum |-> 0] /\ days = [o \in Orders |-> 0]
    BY InitSound DEF BuyInit, Init
  <2>2. InCaps
    BY <2>1, CapBounds DEF InCaps, Of
  <2>3. RowOK
    <3>1. \A o \in Orders : ~Standing(o)
      BY <2>1 DEF Standing
    <3>2. Taken(0) = {} /\ Total(Size, {}) = 0
      BY <3>1, FS_EmptySet, TotalStep DEF Taken
    <3>3. DayOf(now) \in Nat
      BY <2>1, DaysPass
    <3> QED
      BY <2>1, <3>1, <3>2, <3>3 DEF RowOK
  <2>4. SeenIsAll(ledger)
    BY <2>1 DEF SeenIsAll, Told
  <2> QED
    BY <2>1, <2>2, <2>3, <2>4 DEF BuysInv, BuysOK
<1>2. BuysInv /\ [BuyNext /\ PastIsShown]_buyVars => BuysInv'
  <2> SUFFICES ASSUME BuysInv, [BuyNext /\ PastIsShown]_buyVars PROVE BuysInv'
    OBVIOUS
  <2>1. Sound /\ RowOK /\ now \in Nat
    BY DEF BuysInv, Sound, OrdersOK, Typed
  <2>2. ASSUME Plain, UNCHANGED <<bought, days>>, now' \in {now, now + 1} PROVE RowOK'
    BY <2>1, <2>2, RowKept DEF Plain
  <2>3. ASSUME NEW b \in Orders, HandleBuy(b), PastIsShown PROVE BuysInv'
    <3>1. CASE Handler(b, "buy") /\ UNCHANGED <<bought, days>>
      <4>1. now' = now
        BY <3>1 DEF Handler, BeginRead, ReadOrders, ReadFails, ReadStatuses, Refuse, Forward,
                    Answer, NoAnswer
      <4> QED
        BY <2>1, <2>2, <3>1, <4>1, HandlerStep, BuyOther
    <3>2. CASE ReadHoldings(b) /\ UNCHANGED <<bought, days>>
      BY <2>3, <3>2, BuyPositions
    <3>3. CASE ReadAccount(b) /\ UNCHANGED <<bought, days>>
      <4>1. now' = now
        BY <3>3 DEF ReadAccount
      <4> QED
        BY <2>1, <2>2, <3>3, <4>1, AccountStep, BuyOther DEF Heir
    <3>4. CASE ReserveBuy(b)
      BY <3>4, BuyAdmits
    <3>5. CASE RefundBuy(b)
      BY <3>5, BuyRefunds
    <3> QED
      BY <2>3, <3>1, <3>2, <3>3, <3>4, <3>5 DEF HandleBuy
  <2>4. ASSUME NEW b \in Orders, Exchange(b), UNCHANGED <<bought, days>> PROVE BuysInv'
    <3>1. now' = now
      BY <2>4 DEF Exchange, Accept, Reject, Fill, Cancel, Show
    <3> QED
      BY <2>1, <2>2, <2>4, <3>1, ExchangeStep, BuyOther DEF Heir
  <2>5. CASE Tick /\ UNCHANGED <<bought, days>>
    <3>1. now' = now + 1
      BY <2>5 DEF Tick
    <3> QED
      BY <2>1, <2>2, <2>5, <3>1, TickStep, BuyOther DEF Heir
  <2>6. CASE UNCHANGED buyVars
    <3>1. now' = now /\ UNCHANGED vars /\ UNCHANGED <<bought, days>>
      BY <2>6 DEF buyVars, vars
    <3> QED
      BY <2>1, <2>2, <3>1, StutterStep, BuyOther DEF Heir
  <2> QED
    BY <2>3, <2>4, <2>5, <2>6 DEF BuyNext
<1> QED
  BY <1>1, <1>2, PTL DEF BuySpec

(* No name and no book of stock ever grows past its cap (gate.reserveStock  *)
(* and caps.mjs stockExposure), however long an order rests.                *)
THEOREM BuysStayInCaps == BuySpec => []WithinCaps
<1>1. BuySpec => []BuysInv
  BY BuysHold
<1>2. BuysInv => WithinCaps
  <2> SUFFICES ASSUME BuysInv PROVE WithinCaps
    OBVIOUS
  <2>1. OrdersOK /\ InCaps
    BY DEF BuysInv, BuysOK, Sound
  <2>2. ASSUME NEW S \in SUBSET Orders, NEW cap \in Nat, Total(Commit, S) <= cap
        PROVE  Filled(S) <= cap
    <3>1. Filled(S) <= Total(Commit, S) /\ Filled(S) \in Nat /\ Total(Commit, S) \in Nat
      BY <2>1, FilledInCommit
    <3> QED
      BY <2>2, <3>1
  <2>3. \A s \in Symbols : Filled(Of(s)) <= SymbolCap
    BY <2>1, <2>2, CapBounds DEF InCaps, Of
  <2>4. Filled(Orders) <= BookCap
    BY <2>1, <2>2, CapBounds DEF InCaps
  <2> QED
    BY <2>3, <2>4 DEF WithinCaps
<1> QED
  BY <1>1, <1>2, PTL

(* The row of stock buys counts every buy of its day that stands once,      *)
(* refunds and changes of the day and all (gate.reserveStock, gate.refund,  *)
(* gate.counters).                                                          *)
THEOREM BuysAddUp == BuySpec => []DayIsTheSum
<1>1. BuySpec => []BuysInv
  BY BuysHold
<1>2. BuysInv => DayIsTheSum
  <2> SUFFICES ASSUME BuysInv PROVE DayIsTheSum
    OBVIOUS
  <2>1. Today.sum = Total(Size, Taken(Today.day))
    BY RowToday DEF BuysInv, Sound, OrdersOK, Typed
  <2> QED
    BY <2>1 DEF DayIsTheSum, Taken, Total
<1> QED
  BY <1>1, <1>2, PTL
=============================================================================
