------------------------- MODULE ClaudeCalls_proofs -------------------------
(***************************************************************************)
(* Proofs about ClaudeMeter and ClaudeCalls, for every finite set of calls, *)
(* every cost they may have and every limit.                               *)
(***************************************************************************)
EXTENDS ClaudeCalls, Totals

\* A row of the meter.
IsRow(m) ==
    /\ m = [spent |-> m.spent, inflight |-> m.inflight, overrun |-> m.overrun,
            holds |-> m.holds, recent |-> m.recent]
    /\ {m.spent, m.inflight, m.overrun} \subseteq Nat
    /\ DOMAIN m.holds \subseteq Calls /\ m.holds \in [DOMAIN m.holds -> Hold]
    /\ DOMAIN m.recent \subseteq Calls /\ m.recent \in [DOMAIN m.recent -> Record]

Out == DOMAIN meter.holds

\* The handlers' variables have their types.
Handlers ==
    /\ now \in 0..Horizon /\ swept \subseteq Calls
    /\ stage \in [Calls -> {"new", "refused", "calling", "done", "dead"}]
    /\ since \in [Calls -> 0..Horizon]
    /\ billed \in [Calls -> Nat]

\* A row whose sums are right, over worst cases.
Sound(m) ==
    /\ IsRow(m)
    /\ \A c \in DOMAIN m.holds : m.holds[c].micro = Worst[c]
    /\ m.inflight = Total(Worst, DOMAIN m.holds)
    /\ m.spent >= Total(Worst, DOMAIN m.holds)

\* What each call has cost above its hold, as far as the meter counts it as an overrun: not
\* when a sweep had ended the hold.
OverOf(W) == [c \in Calls |-> IF c \in W THEN 0 ELSE Floor(billed[c] - Worst[c])]

\* A row that may be the meter's as the handlers stand and W is what sweeps have ended: what
\* is held of a call is its worst case, and its handler has not settled; a handler that has
\* not settled is held for or swept; nothing is booked of a call before its handler is done;
\* what is on record of it is true; and the sums are what they say they are.
RowFits(m, W) ==
    /\ Sound(m) /\ Cardinality(DOMAIN m.recent) <= RecentRequests /\ W \subseteq Calls
    /\ \A c \in Calls :
         /\ c \in DOMAIN m.holds => stage[c] \in {"calling", "dead"} /\ c \notin W
         /\ stage[c] \in {"calling", "dead"} => c \in DOMAIN m.holds \cup W
         /\ c \in W => stage[c] \in {"calling", "done", "dead"}
         /\ stage[c] # "done" => billed[c] = 0
         /\ c \in DOMAIN m.recent =>
              /\ stage[c] \in {"calling", "done", "dead"}
              /\ m.recent[c].state = "held" <=> c \in DOMAIN m.holds
              /\ m.recent[c].state = "released" => c \in W
              /\ m.recent[c].state \in {"settled", "unknown"} =>
                   stage[c] = "done" /\ m.recent[c].cost = billed[c]
    /\ m.spent = Total(Worst, DOMAIN m.holds) + Total(billed, Calls)
    /\ m.overrun = Total(OverOf(W), Calls)
    /\ m.spent <= Funded + m.overrun + Total(billed, W)

MeterInv == Handlers /\ RowFits(meter, swept)

HouseTyped ==
    /\ house \in [Calls -> {"idle", "asking", "left"}]
    /\ filed \subseteq Calls /\ sent \subseteq Calls
    /\ filedAt \in [Calls -> 0..Horizon]
    /\ spend \in [Calls -> Nat]
    /\ answer \in [Calls -> Answer]
    /\ view \in [Calls -> View]

\* Where a call is when the House has not asked, when its request is on its way, and when
\* its answer is.
Asked(c) ==
    /\ house[c] = "idle" =>
         /\ stage[c] = "new" /\ c \notin filed /\ c \notin sent /\ spend[c] = 0
         /\ answer[c] = None /\ view[c] = Unread
    /\ c \in sent => stage[c] = "new" /\ now <= filedAt[c] + Delivery
    /\ answer[c].kind = "cost" =>
         stage[c] \in {"refused", "done"} /\ c \notin Out /\ answer[c].cost = billed[c]
    /\ ~ view[c].read => view[c] = Unread

\* What the House has of a call: its hold while it is filed, then what the gateway booked,
\* or nothing.
Booked(c) ==
    /\ c \in filed => spend[c] = Hold0[c]
    /\ c \notin filed => spend[c] \in {0, billed[c]}
    /\ view[c].read => view[c].cost \in {0, billed[c]}

\* The part of its spend that the House asked its own line for.
Allowed == [c \in Calls |-> IF spend[c] > Hold0[c] THEN Hold0[c] ELSE spend[c]]
WithinLine == Total(Allowed, Calls) <= UsdCap

HouseInv == HouseTyped /\ (\A c \in Calls : Asked(c) /\ Booked(c)) /\ WithinLine

\* The gateway has a record of every call it let through whose filing is open: none has been
\* pushed out by newer ones (RECENT_REQUESTS).
FilingsOnRecord ==
    \A c \in filed : stage[c] \in {"calling", "done", "dead"} => c \in DOMAIN meter.recent

\* The gateway will neither hold nor book anything more of a call, or has swept its hold.
Over(c)  == c \notin Out /\ stage[c] # "calling" /\ c \notin sent
Agrees(c, x) == (x = billed[c] /\ Over(c)) \/ (x = 0 /\ c \in swept)

AgreeInv ==
    \A c \in Calls : /\ c \notin filed /\ house[c] # "idle" => Agrees(c, spend[c])
                     /\ view[c].read => Agrees(c, view[c].cost)
-----------------------------------------------------------------------------
\* Any set of calls is finite.
LEMMA PartsAreFinite == \A S \in SUBSET Calls : IsFiniteSet(S)
BY ClaudeMeterAssumption, FS_Subset

\* The worst cases of any calls add up to a number.
LEMMA WorstAddsUp ==
    ASSUME NEW S \in SUBSET Calls
    PROVE  Total(Worst, S) \in Nat
<1>1. IsFiniteSet(S) /\ \A c \in S : Worst[c] \in Int /\ Worst[c] >= 0
  BY PartsAreFinite, ClaudeMeterAssumption
<1>2. Total(Worst, S) \in Int /\ Total(Worst, S) >= 0
  BY <1>1, TotalType
<1> QED
  BY <1>2

\* What the meter sums over holds is a total of worst cases.
HeldOf(m, S) == MapThenSumSet(LAMBDA c : m.holds[c].micro, S)

\* Where each hold is the worst case of its call (claudeReserve), what is held is their sum.
LEMMA HoldsAddUp ==
    ASSUME NEW m, NEW S \in SUBSET Calls, \A c \in S : m.holds[c].micro = Worst[c]
    PROVE  HeldOf(m, S) = Total(Worst, S)
<1> DEFINE P(g) == g = [s \in SUBSET S |-> IF s = {} THEN 0
                          ELSE m.holds[AnyOf(s)].micro + g[s \ {AnyOf(s)}]]
           h == CHOOSE g : P(g)
<1>1. HeldOf(m, S) = h[S]
  BY DEF HeldOf, MapThenSumSet, MapThenFoldSet, AnyOf
<1>2. \A s \in SUBSET S : s # {} => m.holds[AnyOf(s)].micro = Worst[AnyOf(s)]
  BY AnyIn
<1>3. \A g : P(g) <=> Adds(g, Worst, S)
  BY <1>2 DEF Adds
<1>4. IsFiniteSet(S)
  BY PartsAreFinite
<1>5. \E g : P(g)
  BY <1>3, <1>4, AddsExists
<1>6. P(h)
  <2> HIDE DEF P
  <2> QED
    BY <1>5
<1>7. Adds(h, Worst, S)
  <2> HIDE DEF h, P
  <2> QED
    BY <1>3, <1>6
<1> HIDE DEF h
<1> QED
  BY <1>1, <1>4, <1>7, TotalAdds

\* _claudeWrite stores the row as it is, but for the records it drops.
LEMMA WrittenIs ==
    ASSUME NEW m, IsRow(m), NEW n \in Written(m)
    PROVE  /\ IsRow(n) /\ n.spent = m.spent /\ n.inflight = m.inflight
           /\ n.overrun = m.overrun /\ n.holds = m.holds
           /\ DOMAIN n.recent \subseteq DOMAIN m.recent
           /\ \A c \in DOMAIN n.recent : n.recent[c] = m.recent[c]
           /\ Cardinality(DOMAIN n.recent) <= RecentRequests
<1> DEFINE D == DOMAIN m.recent
           kept == IF Cardinality(D) < RecentRequests THEN Cardinality(D) ELSE RecentRequests
<1>1. PICK r \in Newest(m.recent) :
        n = [m EXCEPT !.spent = Floor(@), !.inflight = Floor(@), !.recent = r]
  BY DEF Written
<1>2. PICK T \in kSubset(kept, D) : r = Restrict(m.recent, T)
  BY <1>1 DEF Newest
<1>3. T \subseteq D /\ Cardinality(T) = kept /\ r = [c \in T |-> m.recent[c]]
  BY <1>2 DEF kSubset, Restrict
<1>4. IsFiniteSet(D) /\ Cardinality(D) \in Nat
  BY ClaudeMeterAssumption, FS_Subset, FS_CardinalityType DEF IsRow
<1>5. kept <= RecentRequests
  BY <1>4, ClaudeMeterAssumption
<1>7. Floor(m.spent) = m.spent /\ Floor(m.inflight) = m.inflight
  BY DEF Floor, IsRow
<1>8. n = [spent |-> m.spent, inflight |-> m.inflight, overrun |-> m.overrun,
           holds |-> m.holds, recent |-> r]
  BY <1>1, <1>7 DEF IsRow
<1> HIDE DEF kept, D
<1> QED
  BY <1>3, <1>5, <1>8 DEF IsRow, D

\* claudeSweep takes the stale holds out of both sums and puts them on record as released.
LEMMA SweptIs ==
    ASSUME NEW m, Sound(m), Cardinality(DOMAIN m.recent) <= RecentRequests,
           NEW at \in Nat, NEW n \in Swept(m, at)
    PROVE  LET S == Stale(m, at) IN
           /\ Sound(n) /\ DOMAIN n.holds = DOMAIN m.holds \ S
           /\ \A c \in DOMAIN n.holds : n.holds[c] = m.holds[c]
           /\ n.spent = m.spent - Total(Worst, S) /\ n.overrun = m.overrun
           /\ DOMAIN n.recent \subseteq DOMAIN m.recent \cup S
           /\ \A c \in DOMAIN n.recent :
                IF c \in S THEN n.recent[c].state = "released" ELSE n.recent[c] = m.recent[c]
           /\ Cardinality(DOMAIN n.recent) <= RecentRequests
<1> DEFINE D == DOMAIN m.holds
           S == Stale(m, at)
<1>1. D \subseteq Calls /\ S \subseteq D /\ S \in SUBSET Calls
  BY DEF Sound, IsRow, Stale
<1>2. CASE S = {}
  <2>1. n = m
    BY <1>2 DEF Swept
  <2>2. Total(Worst, S) = 0 /\ m.spent \in Nat
    BY <1>2, TotalStep, FS_EmptySet DEF Sound, IsRow
  <2>3. m.spent = m.spent - Total(Worst, S)
    <3> HIDE DEF S
    <3> QED
      BY <2>2
  <2>4. D = D \ S /\ DOMAIN m.recent = DOMAIN m.recent \cup S
    BY <1>2
  <2> QED
    BY <1>2, <2>1, <2>3, <2>4
<1>3. CASE S # {}
  <2> DEFINE freed == MapThenSumSet(LAMBDA c : m.holds[c].micro, S)
             kept == D \ S
             recent == [c \in DOMAIN m.recent \cup S |->
                          IF c \in S THEN [state |-> "released", cost |-> 0, at |-> at]
                          ELSE m.recent[c]]
             r == Released(m, at)
  <2>1. freed = Total(Worst, S)
    <3>1. \A c \in S : m.holds[c].micro = Worst[c]
      BY <1>1 DEF Sound
    <3>2. freed = HeldOf(m, S)
      BY DEF HeldOf
    <3> HIDE DEF S, freed
    <3> QED
      BY <1>1, <3>1, <3>2, HoldsAddUp
  <2>2. r = [spent |-> m.spent - Total(Worst, S), inflight |-> m.inflight - Total(Worst, S),
             overrun |-> m.overrun, holds |-> [c \in kept |-> m.holds[c]], recent |-> recent]
    <3>1. m = [spent |-> m.spent, inflight |-> m.inflight, overrun |-> m.overrun,
               holds |-> m.holds, recent |-> m.recent]
      BY DEF Sound, IsRow
    <3>2. r = [m EXCEPT !.spent = @ - freed, !.inflight = @ - freed,
                        !.holds = [c \in kept |-> m.holds[c]], !.recent = recent]
      BY DEF Released, Minus, Restrict
    <3> HIDE DEF r, kept, recent, freed
    <3> QED
      BY <2>1, <3>1, <3>2
  <2>3. /\ Total(Worst, D) = Total(Worst, S) + Total(Worst, kept)
        /\ Total(Worst, D) \in Nat /\ Total(Worst, S) \in Nat /\ Total(Worst, kept) \in Nat
    <3>1. IsFiniteSet(D) /\ S \in SUBSET D /\ \A c \in D : Worst[c] \in Int
      BY <1>1, PartsAreFinite, ClaudeMeterAssumption
    <3>2. kept \in SUBSET Calls /\ D \in SUBSET Calls
      BY <1>1
    <3> HIDE DEF D, S
    <3>3. Total(Worst, D) = Total(Worst, S) + Total(Worst, kept)
      BY <3>1, TotalSplits
    <3> QED
      BY <1>1, <3>2, <3>3, WorstAddsUp
  <2>4. \A c \in DOMAIN recent :
          recent[c] \in Record /\ (IF c \in S THEN recent[c].state = "released"
                                   ELSE recent[c] = m.recent[c])
    BY DEF Record, Sound, IsRow
  <2>5. /\ r.spent = m.spent - Total(Worst, S) /\ r.inflight = m.inflight - Total(Worst, S)
        /\ r.overrun = m.overrun /\ r.holds = [c \in kept |-> m.holds[c]] /\ r.recent = recent
    BY <2>2
  <2>6. IsRow(r) /\ r.inflight = Total(Worst, kept) /\ r.spent >= Total(Worst, kept)
    <3>1. m.spent \in Nat /\ m.inflight = Total(Worst, D) /\ m.spent >= Total(Worst, D)
          /\ m.overrun \in Nat /\ m.holds \in [D -> Hold] /\ DOMAIN m.recent \subseteq Calls
      BY DEF Sound, IsRow
    <3>2. r.spent \in Nat /\ r.inflight \in Nat /\ r.inflight = Total(Worst, kept)
          /\ r.spent >= Total(Worst, kept)
      <4> HIDE DEF D, S, kept, r
      <4> QED
        BY <2>3, <2>5, <3>1
    <3>3. DOMAIN recent \subseteq Calls /\ recent \in [DOMAIN recent -> Record]
      <4>1. DOMAIN recent \subseteq Calls
        BY <1>1, <3>1
      <4> QED
        BY <2>4, <4>1
    <3>4. [c \in kept |-> m.holds[c]] \in [kept -> Hold] /\ kept \subseteq Calls
      BY <1>1, <3>1
    <3> HIDE DEF kept, recent, r
    <3> QED
      BY <2>2, <2>5, <3>1, <3>2, <3>3, <3>4 DEF IsRow
  <2>7. n \in Written(r)
    BY <1>3 DEF Swept
  <2> HIDE DEF r
  <2>8. /\ IsRow(n) /\ n.spent = r.spent /\ n.inflight = r.inflight
        /\ n.overrun = r.overrun /\ n.holds = r.holds
        /\ DOMAIN n.recent \subseteq DOMAIN recent
        /\ \A c \in DOMAIN n.recent : n.recent[c] = recent[c]
        /\ Cardinality(DOMAIN n.recent) <= RecentRequests
    BY <2>5, <2>6, <2>7, WrittenIs
  <2>9. DOMAIN recent = DOMAIN m.recent \cup S
    OBVIOUS
  <2>10. DOMAIN n.holds = kept /\ \A c \in kept : n.holds[c] = m.holds[c]
    BY <2>5, <2>8
  <2>11. Sound(n)
    BY <1>1, <2>5, <2>6, <2>8, <2>10 DEF Sound
  <2> HIDE DEF recent
  <2>12. \A c \in DOMAIN n.recent :
            IF c \in S THEN n.recent[c].state = "released" ELSE n.recent[c] = m.recent[c]
    BY <2>4, <2>8
  <2> QED
    BY <2>5, <2>8, <2>9, <2>10, <2>11, <2>12
<1> QED
  BY <1>2, <1>3

\* claudeReserve adds a worst case to both sums.
LEMMA HeldIs ==
    ASSUME NEW m, Sound(m), NEW c \in Calls, c \notin DOMAIN m.holds, NEW at \in Nat,
           NEW n \in Written(Held(m, c, at))
    PROVE  /\ Sound(n) /\ DOMAIN n.holds = DOMAIN m.holds \cup {c}
           /\ n.spent = m.spent + Worst[c] /\ n.overrun = m.overrun
           /\ Total(Worst, DOMAIN n.holds) = Total(Worst, DOMAIN m.holds) + Worst[c]
           /\ DOMAIN n.recent \subseteq DOMAIN m.recent \cup {c}
           /\ \A d \in DOMAIN n.recent :
                IF d = c THEN n.recent[d].state = "held" ELSE n.recent[d] = m.recent[d]
           /\ Cardinality(DOMAIN n.recent) <= RecentRequests
<1> DEFINE D == DOMAIN m.holds
           holds == With(m.holds, c, [micro |-> Worst[c], at |-> at])
           recent == With(m.recent, c, [state |-> "held", cost |-> 0, at |-> at])
           r == Held(m, c, at)
<1>1. Worst[c] \in Nat
  BY ClaudeMeterAssumption
<1>2. /\ DOMAIN holds = D \cup {c} /\ holds \in [DOMAIN holds -> Hold]
      /\ holds[c].micro = Worst[c] /\ \A d \in D : holds[d] = m.holds[d]
  BY <1>1 DEF With, Hold, Sound, IsRow
<1>3. /\ DOMAIN recent = DOMAIN m.recent \cup {c} /\ recent \in [DOMAIN recent -> Record]
      /\ \A d \in DOMAIN recent : IF d = c THEN recent[d].state = "held" ELSE recent[d] = m.recent[d]
  BY DEF With, Record, Sound, IsRow
<1>4. r = [spent |-> m.spent + Worst[c], inflight |-> m.inflight + Worst[c],
           overrun |-> m.overrun, holds |-> holds, recent |-> recent]
  <2>1. m = [spent |-> m.spent, inflight |-> m.inflight, overrun |-> m.overrun,
             holds |-> m.holds, recent |-> m.recent]
    BY DEF Sound, IsRow
  <2>2. r = [m EXCEPT !.holds = holds, !.recent = recent, !.spent = @ + Worst[c],
                      !.inflight = @ + Worst[c]]
    BY DEF Held
  <2> HIDE DEF holds, recent, r
  <2> QED
    BY <2>1, <2>2
<1>5. D \subseteq Calls /\ m.spent \in Nat /\ m.overrun \in Nat
      /\ m.inflight = Total(Worst, D) /\ m.spent >= Total(Worst, D)
      /\ DOMAIN m.recent \subseteq Calls
      /\ \A d \in D : m.holds[d].micro = Worst[d]
  BY DEF Sound, IsRow
<1>6. Total(Worst, D \cup {c}) = Total(Worst, D) + Worst[c] /\ Total(Worst, D) \in Nat
  <2>1. /\ IsFiniteSet(D) /\ D \in SUBSET Calls /\ c \notin D
        /\ \A d \in D \cup {c} : Worst[d] \in Int
    BY <1>5, PartsAreFinite, ClaudeMeterAssumption
  <2> HIDE DEF D
  <2>2. Total(Worst, D \cup {c}) = Total(Worst, D) + Worst[c]
    BY <2>1, TotalWith
  <2> QED
    BY <2>1, <2>2, WorstAddsUp
<1> HIDE DEF holds, recent, r
<1>7. r.spent = m.spent + Worst[c] /\ r.inflight = Total(Worst, D) + Worst[c]
      /\ r.overrun = m.overrun /\ r.holds = holds /\ r.recent = recent
  BY <1>4, <1>5
<1>8. IsRow(r)
  <2>1. DOMAIN holds \subseteq Calls /\ DOMAIN recent \subseteq Calls
    BY <1>2, <1>3, <1>5
  <2>2. r.spent \in Nat /\ r.inflight \in Nat /\ r.overrun \in Nat
    BY <1>1, <1>5, <1>6, <1>7
  <2> QED
    BY <1>2, <1>3, <1>4, <1>7, <2>1, <2>2 DEF IsRow
<1>9. /\ IsRow(n) /\ n.spent = r.spent /\ n.inflight = r.inflight
      /\ n.overrun = r.overrun /\ n.holds = r.holds
      /\ DOMAIN n.recent \subseteq DOMAIN recent
      /\ \A d \in DOMAIN n.recent : n.recent[d] = recent[d]
      /\ Cardinality(DOMAIN n.recent) <= RecentRequests
  BY <1>7, <1>8, WrittenIs DEF r
<1>10. Sound(n)
  <2>1. \A d \in DOMAIN n.holds : n.holds[d].micro = Worst[d]
    BY <1>2, <1>5, <1>7, <1>9
  <2>2. n.inflight = Total(Worst, DOMAIN n.holds) /\ n.spent >= Total(Worst, DOMAIN n.holds)
    <3>1. DOMAIN n.holds = D \cup {c}
      BY <1>2, <1>7, <1>9
    <3> HIDE DEF D
    <3> QED
      BY <1>1, <1>5, <1>6, <1>7, <1>9, <3>1
  <2> QED
    BY <1>9, <2>1, <2>2 DEF Sound
<1> QED
  BY <1>2, <1>3, <1>6, <1>7, <1>9, <1>10

\* claudeSettle puts a cost in the place of what is still held of its call.
LEMMA ReplacedIs ==
    ASSUME NEW m, Sound(m), NEW c \in Calls, NEW cost \in Nat, NEW known \in BOOLEAN,
           NEW at \in Nat, NEW n \in Written(Replaced(m, c, cost, known, at))
    PROVE  LET freed == IF c \in DOMAIN m.holds THEN Worst[c] ELSE 0 IN
           /\ Sound(n) /\ DOMAIN n.holds = DOMAIN m.holds \ {c}
           /\ \A d \in DOMAIN n.holds : n.holds[d] = m.holds[d]
           /\ n.spent = m.spent - freed + cost
           /\ Total(Worst, DOMAIN n.holds) = Total(Worst, DOMAIN m.holds) - freed
           /\ n.overrun = m.overrun + (IF c \in DOMAIN m.holds THEN Floor(cost - Worst[c]) ELSE 0)
           /\ DOMAIN n.recent \subseteq
                DOMAIN m.recent \cup (IF c \in DOMAIN m.holds THEN {c} ELSE {})
           /\ \A d \in DOMAIN n.recent :
                IF d = c /\ c \in DOMAIN m.holds
                THEN n.recent[d].state \in {"settled", "unknown"} /\ n.recent[d].cost = cost
                ELSE n.recent[d] = m.recent[d]
           /\ Cardinality(DOMAIN n.recent) <= RecentRequests
<1> DEFINE D == DOMAIN m.holds
           r == Replaced(m, c, cost, known, at)
<1>1. /\ D \in SUBSET Calls /\ m.spent \in Nat /\ m.overrun \in Nat
      /\ m.inflight = Total(Worst, D) /\ m.spent >= Total(Worst, D) /\ m.inflight \in Nat
      /\ DOMAIN m.recent \subseteq Calls
      /\ \A d \in D : m.holds[d].micro = Worst[d]
      /\ m = [spent |-> m.spent, inflight |-> m.inflight, overrun |-> m.overrun,
              holds |-> m.holds, recent |-> m.recent]
  BY DEF Sound, IsRow
<1>2. Worst[c] \in Nat /\ Total(Worst, D) \in Nat
  BY <1>1, WorstAddsUp, ClaudeMeterAssumption
<1>3. CASE c \notin D
  <2>1. r = [m EXCEPT !.spent = @ + cost]
    BY <1>3 DEF Replaced
  <2>2. r = [spent |-> m.spent + cost, inflight |-> m.inflight, overrun |-> m.overrun,
             holds |-> m.holds, recent |-> m.recent]
    <3> HIDE DEF r
    <3> QED
      BY <1>1, <2>1
  <2> HIDE DEF r
  <2>3. /\ r.spent = m.spent + cost /\ r.inflight = m.inflight /\ r.overrun = m.overrun
        /\ r.holds = m.holds /\ r.recent = m.recent
    BY <2>2
  <2>4. IsRow(r)
    BY <1>1, <2>2, <2>3 DEF Sound, IsRow
  <2>5. /\ IsRow(n) /\ n.spent = r.spent /\ n.inflight = r.inflight
        /\ n.overrun = r.overrun /\ n.holds = r.holds
        /\ DOMAIN n.recent \subseteq DOMAIN r.recent
        /\ \A d \in DOMAIN n.recent : n.recent[d] = r.recent[d]
        /\ Cardinality(DOMAIN n.recent) <= RecentRequests
    BY <2>4, WrittenIs DEF r
  <2>6. Sound(n)
    <3>1. n.spent >= Total(Worst, D)
      <4> HIDE DEF D
      <4> QED
        BY <1>1, <1>2, <2>3, <2>5
    <3> QED
      BY <1>1, <2>3, <2>5, <3>1 DEF Sound
  <2>7. D \ {c} = D
    BY <1>3
  <2>8. n.spent = m.spent - 0 + cost /\ n.overrun = m.overrun + 0
        /\ Total(Worst, D) = Total(Worst, D) - 0
    <3> HIDE DEF D
    <3> QED
      BY <1>1, <1>2, <2>3, <2>5
  <2> QED
    BY <1>3, <2>3, <2>5, <2>6, <2>7, <2>8
<1>4. CASE c \in D
  <2> DEFINE kept == D \ {c}
             holds == [d \in kept |-> m.holds[d]]
             line == [state |-> IF known THEN "settled" ELSE "unknown", cost |-> cost, at |-> at]
             recent == With(m.recent, c, line)
             over == m.overrun + Floor(cost - Worst[c])
             left == Total(Worst, kept)
  <2>1. Total(Worst, D) = Worst[c] + left /\ left \in Nat
    <3>1. IsFiniteSet(D) /\ \A d \in D : Worst[d] \in Int
      BY <1>1, PartsAreFinite, ClaudeMeterAssumption
    <3>2. kept \in SUBSET Calls
      BY <1>1
    <3> HIDE DEF D
    <3>3. Total(Worst, D) = Worst[c] + Total(Worst, D \ {c})
      BY <1>4, <3>1, TotalWithout
    <3> QED
      BY <3>2, <3>3, WorstAddsUp
  <2>2. r = [spent |-> m.spent - Worst[c] + cost, inflight |-> m.inflight - Worst[c],
             overrun |-> over, holds |-> holds, recent |-> recent]
    <3>1. m.holds[c].micro = Worst[c]
      BY <1>1, <1>4
    <3>2. r = [m EXCEPT !.spent = @ - m.holds[c].micro + cost, !.inflight = @ - m.holds[c].micro,
                        !.overrun = @ + Floor(cost - m.holds[c].micro), !.holds = holds,
                        !.recent = recent]
      BY <1>4 DEF Replaced, Minus, Restrict
    <3> HIDE DEF r, holds, recent
    <3> QED
      BY <1>1, <3>1, <3>2
  <2> HIDE DEF r
  <2>3. line \in Record /\ line.state \in {"settled", "unknown"} /\ line.cost = cost
    BY DEF Record
  <2> HIDE DEF line
  <2>4. /\ DOMAIN recent = DOMAIN m.recent \cup {c} /\ recent \in [DOMAIN recent -> Record]
        /\ recent[c] = line /\ \A d \in DOMAIN recent \ {c} : recent[d] = m.recent[d]
    BY <2>3 DEF With, Sound, IsRow
  <2>5. over \in Nat
    BY <1>1, <1>2 DEF Floor
  <2>6. DOMAIN holds = kept /\ holds \in [kept -> Hold] /\ kept \in SUBSET Calls
        /\ \A d \in kept : holds[d] = m.holds[d]
    BY <1>1 DEF Sound, IsRow
  <2> HIDE DEF recent, over, holds
  <2>7. /\ r.spent = m.spent - Worst[c] + cost /\ r.inflight = m.inflight - Worst[c]
        /\ r.overrun = over /\ r.holds = holds /\ r.recent = recent
    BY <2>2
  <2>8. r.spent \in Nat /\ r.inflight \in Nat /\ r.inflight = left /\ r.spent >= left
    <3> HIDE DEF left, D
    <3> QED
      BY <1>1, <1>2, <2>1, <2>7
  <2>9. IsRow(r)
    BY <1>1, <2>2, <2>4, <2>5, <2>6, <2>7, <2>8 DEF IsRow
  <2>10. /\ IsRow(n) /\ n.spent = r.spent /\ n.inflight = r.inflight
         /\ n.overrun = r.overrun /\ n.holds = r.holds
         /\ DOMAIN n.recent \subseteq DOMAIN r.recent
         /\ \A d \in DOMAIN n.recent : n.recent[d] = r.recent[d]
         /\ Cardinality(DOMAIN n.recent) <= RecentRequests
    BY <2>9, WrittenIs DEF r
  <2>11. Sound(n)
    BY <1>1, <2>6, <2>7, <2>8, <2>10 DEF Sound
  <2>12. left = Total(Worst, D) - Worst[c]
    <3> HIDE DEF left, D
    <3> QED
      BY <1>2, <2>1
  <2>13. \A d \in DOMAIN n.recent :
           IF d = c THEN n.recent[d].state \in {"settled", "unknown"} /\ n.recent[d].cost = cost
           ELSE n.recent[d] = m.recent[d]
    BY <2>3, <2>4, <2>7, <2>10
  <2> QED
    BY <1>4, <2>4, <2>6, <2>7, <2>10, <2>11, <2>12, <2>13 DEF over
<1> QED
  BY <1>3, <1>4
-----------------------------------------------------------------------------
\* What the calls cost adds up to a number.
LEMMA BilledAddsUp ==
    ASSUME Handlers
    PROVE  Total(billed, Calls) \in Nat
<1>1. IsFiniteSet(Calls) /\ \A c \in Calls : billed[c] \in Int /\ billed[c] >= 0
  BY ClaudeMeterAssumption DEF Handlers
<1>2. Total(billed, Calls) \in Int /\ Total(billed, Calls) >= 0
  BY <1>1, TotalType
<1> QED
  BY <1>2

\* What calls cost that a sweep had ended adds up to a number.
LEMMA LateAddsUp ==
    ASSUME Handlers, NEW W \in SUBSET Calls
    PROVE  Total(billed, W) \in Nat
<1>1. IsFiniteSet(W) /\ \A c \in W : billed[c] \in Int /\ billed[c] >= 0
  BY PartsAreFinite DEF Handlers
<1>2. Total(billed, W) \in Int /\ Total(billed, W) >= 0
  BY <1>1, TotalType
<1> QED
  BY <1>2

\* A sweep of calls that have cost nothing yet makes nothing late, and no overrun less.
LEMMA NothingLate ==
    ASSUME Handlers, NEW W \in SUBSET Calls, NEW S \in SUBSET Calls, \A c \in S : billed[c] = 0
    PROVE  /\ Total(billed, W \cup S) = Total(billed, W)
           /\ Total(OverOf(W \cup S), Calls) = Total(OverOf(W), Calls)
<1>1. IsFiniteSet(W \cup S) /\ IsFiniteSet(Calls)
  BY ClaudeMeterAssumption, PartsAreFinite
<1>2. Total(billed, W \cup S) = Total(billed, W)
  <2>1. W \in SUBSET (W \cup S) /\ \A c \in W \cup S : billed[c] \in Int
    BY DEF Handlers
  <2>2. \A c \in (W \cup S) \ W : billed[c] = 0
    OBVIOUS
  <2> QED
    BY <1>1, <2>1, <2>2, TotalOnlyOver
<1>3. ASSUME NEW c \in Calls PROVE OverOf(W \cup S)[c] = OverOf(W)[c]
  <2>1. Worst[c] \in Nat /\ billed[c] \in Nat
    BY ClaudeMeterAssumption DEF Handlers
  <2>2. billed[c] = 0 => Floor(billed[c] - Worst[c]) = 0
    BY <2>1 DEF Floor
  <2> QED
    BY <2>2 DEF OverOf
<1> QED
  BY <1>1, <1>2, <1>3, TotalSame

\* The sweep leaves a row that fits.
LEMMA SweptFits ==
    ASSUME Handlers, NEW m, NEW W, RowFits(m, W), NEW n \in Swept(m, now)
    PROVE  RowFits(n, W \cup Stale(m, now)) /\ DOMAIN n.holds \subseteq DOMAIN m.holds
<1> DEFINE S == Stale(m, now)
           D == DOMAIN m.holds
<1>1. now \in Nat
  BY ClaudeMeterAssumption DEF Handlers
<1>2. /\ Sound(n) /\ DOMAIN n.holds = D \ S
      /\ n.spent = m.spent - Total(Worst, S) /\ n.overrun = m.overrun
      /\ DOMAIN n.recent \subseteq DOMAIN m.recent \cup S
      /\ \A c \in DOMAIN n.recent :
           IF c \in S THEN n.recent[c].state = "released" ELSE n.recent[c] = m.recent[c]
      /\ Cardinality(DOMAIN n.recent) <= RecentRequests
  BY <1>1, SweptIs DEF RowFits
<1>3. S \subseteq D /\ D \in SUBSET Calls
  BY DEF Stale, RowFits, Sound, IsRow
<1> HIDE DEF S
<1>4. /\ Total(Worst, D) = Total(Worst, S) + Total(Worst, D \ S)
      /\ Total(Worst, S) \in Nat /\ Total(Worst, D \ S) \in Nat
  <2>1. IsFiniteSet(D) /\ S \in SUBSET D /\ \A c \in D : Worst[c] \in Int
    BY <1>3, PartsAreFinite, ClaudeMeterAssumption
  <2>2. S \in SUBSET Calls /\ D \ S \in SUBSET Calls
    BY <1>3
  <2> HIDE DEF D
  <2> QED
    BY <2>1, <2>2, TotalSplits, WorstAddsUp
<1>5. /\ m.spent = Total(Worst, D) + Total(billed, Calls)
      /\ m.overrun = Total(OverOf(W), Calls)
      /\ m.spent <= Funded + m.overrun + Total(billed, W)
      /\ m.spent \in Nat /\ m.overrun \in Nat /\ Funded \in Nat
      /\ Total(billed, W) \in Nat /\ Total(billed, Calls) \in Nat
  BY BilledAddsUp, LateAddsUp, ClaudeMeterAssumption DEF RowFits, Sound, IsRow, Handlers
<1>s. /\ Total(billed, W \cup S) = Total(billed, W)
      /\ Total(OverOf(W \cup S), Calls) = Total(OverOf(W), Calls)
  <2>1. W \in SUBSET Calls /\ S \in SUBSET Calls /\ \A c \in S : billed[c] = 0
    BY <1>3 DEF RowFits
  <2> QED
    BY <2>1, NothingLate
<1>6. /\ n.spent = Total(Worst, DOMAIN n.holds) + Total(billed, Calls)
      /\ n.overrun = Total(OverOf(W \cup S), Calls)
      /\ n.spent <= Funded + n.overrun + Total(billed, W \cup S)
  <2> HIDE DEF D
  <2> QED
    BY <1>2, <1>4, <1>5, <1>s
<1>7. ASSUME NEW c \in Calls
      PROVE  /\ c \in DOMAIN n.holds => stage[c] \in {"calling", "dead"} /\ c \notin W \cup S
             /\ stage[c] \in {"calling", "dead"} => c \in DOMAIN n.holds \cup (W \cup S)
             /\ c \in W \cup S => stage[c] \in {"calling", "done", "dead"}
             /\ stage[c] # "done" => billed[c] = 0
             /\ c \in DOMAIN n.recent =>
                  /\ stage[c] \in {"calling", "done", "dead"}
                  /\ n.recent[c].state = "held" <=> c \in DOMAIN n.holds
                  /\ n.recent[c].state = "released" => c \in W \cup S
                  /\ n.recent[c].state \in {"settled", "unknown"} =>
                       stage[c] = "done" /\ n.recent[c].cost = billed[c]
  BY <1>2, <1>3 DEF RowFits
<1>8. W \cup S \subseteq Calls
  BY <1>3 DEF RowFits
<1>9. RowFits(n, W \cup S)
  BY <1>2, <1>6, <1>7, <1>8 DEF RowFits
<1> QED
  BY <1>2, <1>9 DEF S

\* A reservation (claudeReserve), admitted or refused, keeps the meter in order.
LEMMA ReserveStep ==
    ASSUME MeterInv, NEW c \in Calls, Reserve(c), now' = now
    PROVE  MeterInv'
<1>1. Handlers /\ RowFits(meter, swept) /\ stage[c] = "new" /\ now \in Nat
  BY ClaudeMeterAssumption DEF MeterInv, Reserve, Handlers
<1>w. PICK W : W = swept \cup Stale(meter, now)
  OBVIOUS
<1>2. PICK m \in Swept(meter, now) :
        \/ /\ meter' = m
           /\ stage' = [stage EXCEPT ![c] = "refused"]
           /\ UNCHANGED since
        \/ /\ m.spent + Worst[c] <= Funded
           /\ meter' \in Written(Held(m, c, now))
           /\ stage' = [stage EXCEPT ![c] = "calling"]
           /\ since' = [since EXCEPT ![c] = now]
  BY DEF Reserve
<1>3. RowFits(m, W) /\ W \in SUBSET Calls /\ billed' = billed /\ swept' = W
  <2>1. RowFits(m, W)
    BY <1>1, <1>w, SweptFits
  <2> QED
    BY <1>w, <2>1 DEF Reserve, RowFits
<1>4. c \notin DOMAIN m.holds /\ c \notin DOMAIN m.recent /\ c \notin W /\ billed[c] = 0
  BY <1>1, <1>3 DEF RowFits
<1>5. Handlers'
  BY <1>1, <1>2, <1>3 DEF Handlers
<1>o. OverOf(W)' = OverOf(W)
  BY <1>3 DEF OverOf
<1>6. CASE meter' = m /\ stage' = [stage EXCEPT ![c] = "refused"]
  <2>1. stage'[c] = "refused" /\ \A d \in Calls \ {c} : stage'[d] = stage[d]
    BY <1>1, <1>6 DEF Handlers
  <2>2. ASSUME NEW d \in Calls
        PROVE  /\ d \in DOMAIN m.holds => stage'[d] \in {"calling", "dead"} /\ d \notin W
               /\ stage'[d] \in {"calling", "dead"} => d \in DOMAIN m.holds \cup W
               /\ d \in W => stage'[d] \in {"calling", "done", "dead"}
               /\ stage'[d] # "done" => billed[d] = 0
               /\ d \in DOMAIN m.recent =>
                    /\ stage'[d] \in {"calling", "done", "dead"}
                    /\ m.recent[d].state = "held" <=> d \in DOMAIN m.holds
                    /\ m.recent[d].state = "released" => d \in W
                    /\ m.recent[d].state \in {"settled", "unknown"} =>
                         stage'[d] = "done" /\ m.recent[d].cost = billed[d]
    BY <1>3, <1>4, <2>1 DEF RowFits
  <2>3. RowFits(m, W)'
    BY <1>3, <1>o, <2>2 DEF RowFits, Sound, IsRow
  <2>4. RowFits(meter, swept)'
    BY <1>3, <1>6, <2>3 DEF RowFits, Sound, IsRow
  <2> QED
    BY <1>5, <2>4 DEF MeterInv
<1>7. CASE /\ m.spent + Worst[c] <= Funded
           /\ meter' \in Written(Held(m, c, now))
           /\ stage' = [stage EXCEPT ![c] = "calling"]
  <2>n. PICK n : n = meter'
    OBVIOUS
  <2>1. /\ Sound(n) /\ DOMAIN n.holds = DOMAIN m.holds \cup {c}
        /\ n.spent = m.spent + Worst[c] /\ n.overrun = m.overrun
        /\ Total(Worst, DOMAIN n.holds) = Total(Worst, DOMAIN m.holds) + Worst[c]
        /\ DOMAIN n.recent \subseteq DOMAIN m.recent \cup {c}
        /\ \A d \in DOMAIN n.recent :
             IF d = c THEN n.recent[d].state = "held" ELSE n.recent[d] = m.recent[d]
        /\ Cardinality(DOMAIN n.recent) <= RecentRequests
    BY <1>1, <1>3, <1>4, <1>7, <2>n, HeldIs DEF RowFits
  <2>2. /\ m.spent = Total(Worst, DOMAIN m.holds) + Total(billed, Calls)
        /\ m.spent \in Nat /\ m.overrun \in Nat /\ Total(billed, W) \in Nat /\ Worst[c] \in Nat
        /\ m.overrun = Total(OverOf(W), Calls)
        /\ Total(billed, Calls) \in Nat /\ Total(Worst, DOMAIN m.holds) \in Nat /\ Funded \in Nat
    BY <1>1, <1>3, BilledAddsUp, LateAddsUp, WorstAddsUp, ClaudeMeterAssumption
    DEF RowFits, Sound, IsRow, Handlers
  <2>3. /\ n.spent = Total(Worst, DOMAIN n.holds) + Total(billed, Calls)
        /\ n.overrun = Total(OverOf(W), Calls)
        /\ n.spent <= Funded + n.overrun + Total(billed, W)
    BY <1>7, <2>1, <2>2
  <2>4. stage'[c] = "calling" /\ \A d \in Calls \ {c} : stage'[d] = stage[d]
    BY <1>1, <1>7 DEF Handlers
  <2>5. ASSUME NEW d \in Calls
        PROVE  /\ d \in DOMAIN n.holds => stage'[d] \in {"calling", "dead"} /\ d \notin W
               /\ stage'[d] \in {"calling", "dead"} => d \in DOMAIN n.holds \cup W
               /\ d \in W => stage'[d] \in {"calling", "done", "dead"}
               /\ stage'[d] # "done" => billed[d] = 0
               /\ d \in DOMAIN n.recent =>
                    /\ stage'[d] \in {"calling", "done", "dead"}
                    /\ n.recent[d].state = "held" <=> d \in DOMAIN n.holds
                    /\ n.recent[d].state = "released" => d \in W
                    /\ n.recent[d].state \in {"settled", "unknown"} =>
                         stage'[d] = "done" /\ n.recent[d].cost = billed[d]
    BY <1>3, <1>4, <2>1, <2>4 DEF RowFits
  <2>6. RowFits(n, W)'
    BY <1>3, <1>o, <2>1, <2>3, <2>5 DEF RowFits, Sound, IsRow
  <2>7. RowFits(meter, swept)'
    BY <1>3, <2>n, <2>6 DEF RowFits, Sound, IsRow
  <2> QED
    BY <1>5, <2>7 DEF MeterInv
<1> QED
  BY <1>2, <1>6, <1>7

\* A total over the calls changes by what changes at the one call that does.
LEMMA OneCallChanges ==
    ASSUME NEW c \in Calls, NEW v, NEW w, \A d \in Calls : v[d] \in Int /\ w[d] \in Int,
           \A d \in Calls \ {c} : v[d] = w[d]
    PROVE  Total(v, Calls) = Total(w, Calls) + v[c] - w[c] /\ Total(w, Calls) \in Int
<1>1. IsFiniteSet(Calls)
  BY ClaudeMeterAssumption
<1>2. Total(v, Calls) = Total(w, Calls) + v[c] - w[c]
  BY <1>1, TotalChanges
<1>3. Total(w, Calls) \in Int
  BY <1>1, TotalType
<1> QED
  BY <1>2, <1>3

\* A settlement (claudeSettle) keeps the meter in order, books the cost of its call once,
\* on time or after the sweep, and touches no other call.
LEMMA SettleStep ==
    ASSUME MeterInv, NEW c \in Calls, NEW known \in BOOLEAN, NEW cost \in Costs \cup {Worst[c]},
           Settle(c, known, cost), now' = now
    PROVE  /\ MeterInv' /\ c \notin Out' /\ Out' \subseteq Out
           /\ stage'[c] = "done" /\ billed[c] = 0 /\ billed'[c] = cost /\ cost \in Nat
           /\ \A d \in Calls \ {c} : stage'[d] = stage[d] /\ billed'[d] = billed[d]
<1> PICK m : m = meter
  OBVIOUS
<1> PICK n : n = meter'
  OBVIOUS
<1> PICK W : W = swept
  OBVIOUS
<1> DEFINE freed == IF c \in DOMAIN m.holds THEN Worst[c] ELSE 0
<1>1. Handlers /\ RowFits(m, W) /\ stage[c] = "calling" /\ now \in Nat /\ cost \in Nat
      /\ Worst[c] \in Nat
  <2>1. Worst[c] \in Nat /\ cost \in Nat
    BY ClaudeMeterAssumption
  <2>2. Handlers /\ RowFits(m, W) /\ stage[c] = "calling"
    BY DEF MeterInv, Settle
  <2> QED
    BY <2>1, <2>2, ClaudeMeterAssumption DEF Handlers
<1>2. /\ Sound(n) /\ DOMAIN n.holds = DOMAIN m.holds \ {c}
      /\ n.spent = m.spent - freed + cost
      /\ Total(Worst, DOMAIN n.holds) = Total(Worst, DOMAIN m.holds) - freed
      /\ n.overrun = m.overrun + (IF c \in DOMAIN m.holds THEN Floor(cost - Worst[c]) ELSE 0)
      /\ DOMAIN n.recent \subseteq DOMAIN m.recent \cup (IF c \in DOMAIN m.holds THEN {c} ELSE {})
      /\ \A d \in DOMAIN n.recent :
           IF d = c /\ c \in DOMAIN m.holds
           THEN n.recent[d].state \in {"settled", "unknown"} /\ n.recent[d].cost = cost
           ELSE n.recent[d] = m.recent[d]
      /\ Cardinality(DOMAIN n.recent) <= RecentRequests
  BY <1>1, ReplacedIs DEF Settle, RowFits
<1>3. /\ billed[c] = 0 /\ billed'[c] = cost /\ billed' \in [Calls -> Nat]
      /\ stage'[c] = "done" /\ \A d \in Calls \ {c} : stage'[d] = stage[d] /\ billed'[d] = billed[d]
  BY <1>1 DEF Settle, Handlers, RowFits
<1>4. swept' = W /\ W \in SUBSET Calls /\ (c \in W <=> c \notin DOMAIN m.holds)
  BY <1>1 DEF Settle, RowFits
<1>5. Handlers'
  BY <1>1, <1>3, <1>4 DEF Handlers, Settle
<1>6. Total(billed', Calls) = Total(billed, Calls) + cost /\ Total(billed, Calls) \in Nat
  <2>1. Total(billed', Calls) = Total(billed, Calls) + billed'[c] - billed[c]
    <3>1. \A d \in Calls : billed'[d] \in Int /\ billed[d] \in Int
      BY <1>1, <1>3 DEF Handlers
    <3>2. \A d \in Calls \ {c} : billed'[d] = billed[d]
      BY <1>3
    <3> QED
      BY <3>1, <3>2, OneCallChanges
  <2>2. Total(billed, Calls) \in Nat
    BY <1>1, BilledAddsUp
  <2> QED
    BY <1>1, <1>3, <2>1, <2>2
<1>l. /\ Total(billed', W) = Total(billed, W) + (IF c \in W THEN cost ELSE 0)
      /\ Total(billed, W) \in Nat
  <2>1. IsFiniteSet(W) /\ \A d \in W : billed'[d] \in Int /\ billed[d] \in Int
    BY <1>1, <1>3, <1>4, PartsAreFinite DEF Handlers
  <2>2. Total(billed, W) \in Nat
    BY <1>1, <1>4, LateAddsUp
  <2>3. CASE c \in W
    <3>1. Total(billed', W) = Total(billed, W) + billed'[c] - billed[c]
      BY <1>3, <1>4, <2>1, <2>3, TotalChanges
    <3> QED
      BY <1>1, <1>3, <2>2, <2>3, <3>1
  <2>4. CASE c \notin W
    <3>1. Total(billed', W) = Total(billed, W)
      BY <1>3, <1>4, <2>1, <2>4, TotalSame
    <3> QED
      BY <2>2, <2>4, <3>1
  <2> QED
    BY <2>3, <2>4
<1>o. Total(OverOf(W)', Calls) = Total(OverOf(W), Calls)
                                 + (IF c \in W THEN 0 ELSE Floor(cost - Worst[c]))
  <2> PICK v : v = OverOf(W)'
    OBVIOUS
  <2> PICK w : w = OverOf(W)
    OBVIOUS
  <2>1. /\ \A d \in Calls : v[d] = IF d \in W THEN 0 ELSE Floor(billed'[d] - Worst[d])
        /\ \A d \in Calls : w[d] = IF d \in W THEN 0 ELSE Floor(billed[d] - Worst[d])
    BY DEF OverOf
  <2>2. \A d \in Calls : v[d] \in Int /\ w[d] \in Int
    BY <1>1, <1>3, <2>1, ClaudeMeterAssumption DEF Handlers, Floor
  <2>3. \A d \in Calls \ {c} : v[d] = w[d]
    BY <1>3, <2>1
  <2>4. Total(v, Calls) = Total(w, Calls) + v[c] - w[c] /\ Total(w, Calls) \in Int
    BY <2>2, <2>3, OneCallChanges
  <2>5. w[c] = 0
    BY <1>1, <1>3, <2>1 DEF Floor
  <2> QED
    BY <1>3, <2>1, <2>2, <2>4, <2>5
<1>7. /\ m.spent = Total(Worst, DOMAIN m.holds) + Total(billed, Calls)
      /\ m.overrun = Total(OverOf(W), Calls)
      /\ m.spent <= Funded + m.overrun + Total(billed, W)
      /\ m.spent \in Nat /\ m.overrun \in Nat
      /\ Total(Worst, DOMAIN m.holds) \in Nat /\ Funded \in Nat
  BY <1>1, WorstAddsUp, ClaudeMeterAssumption DEF RowFits, Sound, IsRow, Handlers
<1>8. n.spent = Total(Worst, DOMAIN n.holds) + Total(billed', Calls)
  BY <1>1, <1>2, <1>6, <1>7
<1>9. n.overrun = Total(OverOf(W)', Calls) /\ n.spent <= Funded + n.overrun + Total(billed', W)
  <2>1. CASE c \in DOMAIN m.holds
    <3>1. Floor(cost - Worst[c]) \in Nat /\ Floor(cost - Worst[c]) >= cost - Worst[c]
      BY <1>1 DEF Floor
    <3> QED
      BY <1>1, <1>2, <1>4, <1>7, <1>l, <1>o, <2>1, <3>1
  <2>2. CASE c \notin DOMAIN m.holds
    BY <1>1, <1>2, <1>4, <1>7, <1>l, <1>o, <2>2
  <2> QED
    BY <2>1, <2>2
<1>10. ASSUME NEW d \in Calls
       PROVE  /\ d \in DOMAIN n.holds => stage'[d] \in {"calling", "dead"} /\ d \notin W
              /\ stage'[d] \in {"calling", "dead"} => d \in DOMAIN n.holds \cup W
              /\ d \in W => stage'[d] \in {"calling", "done", "dead"}
              /\ stage'[d] # "done" => billed'[d] = 0
              /\ d \in DOMAIN n.recent =>
                   /\ stage'[d] \in {"calling", "done", "dead"}
                   /\ n.recent[d].state = "held" <=> d \in DOMAIN n.holds
                   /\ n.recent[d].state = "released" => d \in W
                   /\ n.recent[d].state \in {"settled", "unknown"} =>
                        stage'[d] = "done" /\ n.recent[d].cost = billed'[d]
  <2>1. CASE d # c
    BY <1>1, <1>2, <1>3, <2>1 DEF RowFits
  <2>2. CASE d = c
    BY <1>1, <1>2, <1>3, <1>4, <2>2 DEF RowFits
  <2> QED
    BY <2>1, <2>2
<1>11. RowFits(n, W)'
  BY <1>2, <1>4, <1>8, <1>9, <1>10 DEF RowFits, Sound, IsRow
<1>12. RowFits(meter, swept)'
  BY <1>4, <1>11 DEF RowFits, Sound, IsRow
<1> QED
  BY <1>1, <1>2, <1>3, <1>5, <1>12 DEF MeterInv, Out

\* A sweep (claudeSweep) keeps the meter in order and only ends holds.
LEMMA SweepStep ==
    ASSUME MeterInv, NEW m \in Swept(meter, now), meter' = m,
           swept' = swept \cup Stale(meter, now), UNCHANGED <<now, stage, since, billed>>
    PROVE  MeterInv' /\ Out' \subseteq Out
<1>w. PICK W : W = swept \cup Stale(meter, now)
  OBVIOUS
<1>1. RowFits(m, W) /\ DOMAIN m.holds \subseteq Out
  BY <1>w, SweptFits DEF MeterInv, Out
<1>2. OverOf(W)' = OverOf(W)
  BY DEF OverOf
<1>3. RowFits(m, W)'
  BY <1>1, <1>2 DEF RowFits, Sound, IsRow
<1>4. RowFits(meter, swept)'
  BY <1>w, <1>3 DEF RowFits, Sound, IsRow
<1>5. W \subseteq Calls
  BY <1>1 DEF RowFits
<1> QED
  BY <1>w, <1>1, <1>4, <1>5 DEF MeterInv, Handlers, Out

\* A reservation moves one call: it is refused, or its handler calls and holds.
LEMMA ReserveMoves ==
    ASSUME MeterInv, NEW c \in Calls, Reserve(c), now' = now
    PROVE  /\ Out' \subseteq Out \cup {c} /\ (c \in Out' => stage'[c] = "calling")
           /\ stage[c] = "new" /\ stage'[c] \in {"refused", "calling"} /\ billed' = billed
           /\ \A d \in Calls \ {c} : stage'[d] = stage[d]
<1>1. Handlers /\ RowFits(meter, swept) /\ stage[c] = "new" /\ now \in Nat /\ billed' = billed
  BY ClaudeMeterAssumption DEF MeterInv, Reserve, Handlers
<1>2. MeterInv'
  BY ReserveStep
<1>3. c \in Out' => stage'[c] \in {"calling", "dead"}
  BY <1>2 DEF MeterInv, RowFits, Out
<1>4. stage'[c] \in {"refused", "calling"} /\ \A d \in Calls \ {c} : stage'[d] = stage[d]
  BY <1>1 DEF Reserve, Handlers
<1>5. PICK m \in Swept(meter, now) :
        meter' = m \/ meter' \in Written(Held(m, c, now))
  BY DEF Reserve
<1>6. RowFits(m, swept \cup Stale(meter, now)) /\ DOMAIN m.holds \subseteq Out
  BY <1>1, SweptFits DEF Out
<1>7. c \notin DOMAIN m.holds
  BY <1>1, <1>6 DEF RowFits
<1>8. CASE meter' \in Written(Held(m, c, now))
  <2>1. DOMAIN meter'.holds = DOMAIN m.holds \cup {c}
    BY <1>1, <1>6, <1>7, <1>8, HeldIs DEF RowFits
  <2> QED
    BY <1>1, <1>3, <1>4, <1>6, <2>1 DEF Out
<1> QED
  BY <1>1, <1>3, <1>4, <1>5, <1>6, <1>8 DEF Out

\* A handler that turns its call away or dies keeps the meter as it is.
LEMMA HandlerStep ==
    ASSUME MeterInv, NEW c \in Calls, TurnAway(c) \/ Die(c), now' = now
    PROVE  /\ MeterInv' /\ Out' = Out /\ billed' = billed /\ meter' = meter
           /\ \A d \in Calls \ {c} : stage'[d] = stage[d]
           /\ TurnAway(c) => stage[c] = "new" /\ stage'[c] = "refused"
           /\ Die(c) => stage[c] = "calling" /\ stage'[c] = "dead"
<1>1. /\ UNCHANGED <<meter, since, billed, swept>>
      /\ \A d \in Calls \ {c} : stage'[d] = stage[d]
      /\ TurnAway(c) => stage[c] = "new" /\ stage'[c] = "refused"
      /\ Die(c) => stage[c] = "calling" /\ stage'[c] = "dead"
  BY DEF TurnAway, Die, MeterInv, Handlers
<1>2. Handlers'
  BY <1>1 DEF MeterInv, Handlers, TurnAway, Die
<1>o. OverOf(swept)' = OverOf(swept)
  BY <1>1 DEF OverOf
<1>3. RowFits(meter, swept)'
  BY <1>1, <1>o DEF MeterInv, RowFits, Sound, IsRow
<1> QED
  BY <1>1, <1>2, <1>3 DEF MeterInv, Out

\* The clock moves no call.
LEMMA TickStep ==
    ASSUME MeterInv, Tick
    PROVE  MeterInv' /\ UNCHANGED meterVars /\ now' = now + 1 /\ now' \in 0..Horizon
<1>1. UNCHANGED meterVars /\ now' = now + 1 /\ now' \in 0..Horizon
  BY ClaudeMeterAssumption DEF Tick, MeterInv, Handlers
<1> QED
  BY <1>1 DEF meterVars, MeterInv, Handlers, RowFits, OverOf, Sound, IsRow

\* At first no call holds or has cost anything.
LEMMA MeterInit0 == ASSUME Init PROVE MeterInv
<1>1. /\ meter = [spent |-> 0, inflight |-> 0, overrun |-> 0, holds |-> <<>>, recent |-> <<>>]
      /\ now = 0 /\ swept = {}
      /\ stage = [c \in Calls |-> "new"] /\ since = [c \in Calls |-> 0]
      /\ billed = [c \in Calls |-> 0]
  BY DEF Init, MeterInit
<1>2. DOMAIN meter.holds = {} /\ DOMAIN meter.recent = {}
  BY <1>1
<1>3. Total(Worst, {}) = 0 /\ Cardinality({}) = 0
  BY FS_EmptySet, TotalStep
<1>4. Total(billed, Calls) = 0
  <2>1. \A c \in Calls : billed[c] = 0
    BY <1>1
  <2> QED
    BY <2>1, ClaudeMeterAssumption, TotalOfNothing
<1>o. Total(OverOf(swept), Calls) = 0 /\ Total(billed, swept) = 0
  <2>1. ASSUME NEW c \in Calls PROVE OverOf(swept)[c] = 0
    BY <1>1, ClaudeMeterAssumption DEF OverOf, Floor
  <2>2. Total(billed, swept) = 0
    BY <1>1, FS_EmptySet, TotalStep
  <2> QED
    BY <2>1, <2>2, ClaudeMeterAssumption, TotalOfNothing
<1>5. Handlers
  BY <1>1, ClaudeMeterAssumption DEF Handlers
<1>6. RowFits(meter, swept)
  BY <1>1, <1>2, <1>3, <1>4, <1>o, ClaudeMeterAssumption DEF RowFits, Sound, IsRow, Hold, Record
<1> QED
  BY <1>5, <1>6 DEF MeterInv
-----------------------------------------------------------------------------
\* A step of the meter's changes neither what the House has nor, but for the one call it is
\* about, anything a call's answer or record rests on.
LEMMA OthersStand ==
    ASSUME HouseInv, NEW c \in Calls, NEW d \in Calls, d # c,
           UNCHANGED <<now, house, filed, filedAt, spend, view>>, Out' \subseteq Out \cup {c},
           sent' \in {sent, sent \ {c}}, answer'[d] = answer[d],
           stage'[d] = stage[d], billed'[d] = billed[d]
    PROVE  Asked(d)' /\ Booked(d)'
BY DEF HouseInv, Asked, Booked

\* A request that arrives is admitted or refused: the House has filed it, and still covers it.
LEMMA ArriveStep ==
    ASSUME MeterInv, HouseInv, NEW c \in Calls, Arrive(c)
    PROVE  MeterInv' /\ HouseInv'
<1>1. c \in sent /\ sent' = sent \ {c} /\ UNCHANGED <<now, house, filed, filedAt, spend, view>>
  BY DEF Arrive, houseVars
<1>2. /\ MeterInv' /\ Out' \subseteq Out \cup {c} /\ (c \in Out' => stage'[c] = "calling")
      /\ stage[c] = "new" /\ stage'[c] \in {"refused", "calling"} /\ billed' = billed
      /\ \A d \in Calls \ {c} : stage'[d] = stage[d]
  <2>1. CASE Reserve(c)
    BY <1>1, <2>1, ReserveStep, ReserveMoves
  <2>2. CASE TurnAway(c)
    <3>1. stage[c] = "new" => c \notin Out
      BY DEF MeterInv, RowFits, Out
    <3> QED
      BY <1>1, <2>2, <3>1, HandlerStep
  <2> QED
    BY <2>1, <2>2 DEF Arrive
<1>3. \/ answer' = answer
      \/ stage'[c] = "refused" /\ answer' = [answer EXCEPT ![c] = [kind |-> "cost", cost |-> 0]]
  BY DEF Arrive, Told, Lost
<1>4. HouseTyped'
  BY <1>1, <1>3 DEF HouseInv, HouseTyped, Answer
<1>5. \A d \in Calls \ {c} : answer'[d] = answer[d]
  BY <1>3 DEF HouseInv, HouseTyped
<1>6. \A d \in Calls \ {c} : Asked(d)' /\ Booked(d)'
  BY <1>1, <1>2, <1>5, OthersStand
<1>7. Booked(c)'
  BY <1>1, <1>2 DEF HouseInv, Booked
<1>8. Asked(c)'
  <2>1. house[c] # "idle" /\ ~ (answer[c].kind = "cost") /\ (~ view[c].read => view[c] = Unread)
    BY <1>1, <1>2 DEF HouseInv, Asked
  <2>2. CASE answer' = answer
    BY <1>1, <2>1, <2>2 DEF Asked
  <2>3. CASE stage'[c] = "refused" /\ answer' = [answer EXCEPT ![c] = [kind |-> "cost", cost |-> 0]]
    <3>1. answer'[c].cost = 0 /\ c \notin Out'
      BY <1>2, <2>3 DEF HouseInv, HouseTyped
    <3>2. billed'[c] = 0
      BY <1>2 DEF MeterInv, RowFits
    <3> QED
      BY <1>1, <2>1, <2>3, <3>1, <3>2 DEF Asked
  <2> QED
    BY <1>3, <2>2, <2>3
<1>9. WithinLine'
  BY <1>1 DEF HouseInv, WithinLine, Allowed
<1> QED
  BY <1>2, <1>4, <1>6, <1>7, <1>8, <1>9 DEF HouseInv

\* A request that ends is settled by what it cost: the House still covers the gateway.
LEMMA FinishStep ==
    ASSUME MeterInv, HouseInv, NEW c \in Calls, Finish(c)
    PROVE  MeterInv' /\ HouseInv'
<1>1. UNCHANGED <<now, house, filed, filedAt, spend, view, sent>>
  BY DEF Finish, houseVars
<1>2. PICK known \in BOOLEAN, cost \in Costs \cup {Worst[c]} :
        /\ Settle(c, known, cost)
        /\ \/ answer' = answer
           \/ answer' = [answer EXCEPT ![c] = [kind |-> "cost", cost |-> cost]]
           \/ answer' = [answer EXCEPT ![c] = [kind |-> "unverified", cost |-> cost]]
  BY DEF Finish, Told, Lost
<1>3. /\ MeterInv' /\ c \notin Out' /\ Out' \subseteq Out /\ stage[c] = "calling"
      /\ stage'[c] = "done" /\ billed[c] = 0 /\ billed'[c] = cost /\ cost \in Nat
      /\ \A d \in Calls \ {c} : stage'[d] = stage[d] /\ billed'[d] = billed[d]
  BY <1>1, <1>2, SettleStep DEF Settle
<1>4. HouseTyped'
  BY <1>1, <1>2, <1>3 DEF HouseInv, HouseTyped, Answer
<1>5. \A d \in Calls \ {c} : answer'[d] = answer[d]
  BY <1>2 DEF HouseInv, HouseTyped
<1>6. \A d \in Calls \ {c} : Asked(d)' /\ Booked(d)'
  BY <1>1, <1>3, <1>5, OthersStand
<1>7. Booked(c)'
  BY <1>1, <1>3 DEF HouseInv, Booked
<1>8. Asked(c)'
  <2>1. house[c] # "idle" /\ ~ (answer[c].kind = "cost") /\ c \notin sent
        /\ (~ view[c].read => view[c] = Unread)
    BY <1>3 DEF HouseInv, Asked
  <2>2. answer'[c].kind = "cost" => answer'[c].cost = billed'[c]
    BY <1>2, <1>3, <2>1 DEF HouseInv, HouseTyped
  <2> QED
    BY <1>1, <1>3, <2>1, <2>2 DEF Asked
<1>9. WithinLine'
  BY <1>1 DEF HouseInv, WithinLine, Allowed
<1> QED
  BY <1>3, <1>4, <1>6, <1>7, <1>8, <1>9 DEF HouseInv

\* What the gateway does of its own accord, and time.
LEMMA GatewayStep ==
    ASSUME MeterInv, HouseInv,
           CronSweep \/ Pass \/ (\E c \in Calls : Crash(c)) \/ UNCHANGED vars
    PROVE  MeterInv' /\ HouseInv'
<1>1. ASSUME MeterInv', UNCHANGED <<house, filed, filedAt, spend, view, sent, answer, billed>>,
             now' = now \/ (now' = now + 1 /\ now' \in 0..Horizon
                           /\ \A c \in sent : now < filedAt[c] + Delivery),
             Out' \subseteq Out,
             \A c \in Calls : stage'[c] = stage[c] \/ (stage[c] = "calling" /\ stage'[c] = "dead")
      PROVE  HouseInv'
  <2>1. HouseTyped'
    BY <1>1 DEF HouseInv, HouseTyped
  <2>2. ASSUME NEW c \in Calls PROVE Asked(c)' /\ Booked(c)'
    <3>1. Booked(c)'
      BY <1>1 DEF HouseInv, Booked
    <3>2. c \in sent => now' <= filedAt[c] + Delivery
      <4>1. filedAt[c] \in Int /\ now \in Int /\ Delivery \in Int
        BY ClaudeMeterAssumption, ClaudeCallsAssumption
        DEF HouseInv, HouseTyped, MeterInv, Handlers
      <4>2. c \in sent => now <= filedAt[c] + Delivery
        BY DEF HouseInv, Asked
      <4> QED
        BY <1>1, <4>1, <4>2
    <3>3. Asked(c)'
      BY <1>1, <3>2 DEF HouseInv, Asked
    <3> QED
      BY <3>1, <3>3
  <2>3. WithinLine'
    BY <1>1 DEF HouseInv, WithinLine, Allowed
  <2> QED
    BY <2>1, <2>2, <2>3 DEF HouseInv
<1>2. ASSUME CronSweep PROVE MeterInv' /\ HouseInv'
  <2>1. /\ UNCHANGED <<now, stage, since, billed, house, filed, filedAt, spend, view, sent, answer>>
        /\ meter' \in Swept(meter, now) /\ swept' = swept \cup Stale(meter, now)
    BY <1>2 DEF CronSweep, Sweep, houseVars
  <2>2. MeterInv' /\ Out' \subseteq Out
    BY <2>1, SweepStep
  <2> QED
    BY <1>1, <2>1, <2>2
<1>3. ASSUME Pass PROVE MeterInv' /\ HouseInv'
  <2>1. MeterInv' /\ UNCHANGED meterVars /\ now' = now + 1 /\ now' \in 0..Horizon
    BY <1>3, TickStep DEF Pass
  <2>2. UNCHANGED <<house, filed, filedAt, spend, view, sent, answer>>
        /\ \A c \in sent : now < filedAt[c] + Delivery
    BY <1>3 DEF Pass, houseVars
  <2>3. Out' = Out /\ UNCHANGED <<billed, stage>>
    BY <2>1 DEF meterVars, Out
  <2> QED
    BY <1>1, <2>1, <2>2, <2>3
<1>4. ASSUME NEW c \in Calls, Crash(c) PROVE MeterInv' /\ HouseInv'
  <2>1. Die(c) /\ UNCHANGED <<now, house, filed, filedAt, spend, view, sent, answer>>
    BY <1>4 DEF Crash, houseVars
  <2>2. /\ MeterInv' /\ Out' = Out /\ billed' = billed
        /\ \A d \in Calls : stage'[d] = stage[d] \/ (stage[d] = "calling" /\ stage'[d] = "dead")
    BY <2>1, HandlerStep
  <2> QED
    BY <1>1, <2>1, <2>2
<1>5. ASSUME UNCHANGED vars PROVE MeterInv' /\ HouseInv'
  <2>1. UNCHANGED <<now, meter, stage, since, billed, swept, house, filed, filedAt, spend,
                    view, sent, answer>>
    BY <1>5 DEF vars, meterVars, houseVars
  <2>2. MeterInv'
    BY <2>1 DEF MeterInv, Handlers, RowFits, OverOf, Sound, IsRow
  <2> QED
    BY <1>1, <2>1, <2>2 DEF Out
<1> QED
  BY <1>2, <1>3, <1>4, <1>5
-----------------------------------------------------------------------------
\* What the House books is the sum of its calls, and no less than what it was allowed.
LEMMA SpendTotals ==
    ASSUME HouseInv
    PROVE  /\ Spent = Total(spend, Calls) /\ Spent \in Nat
           /\ \A c \in Calls : Allowed[c] \in Nat /\ Allowed[c] <= spend[c] /\ Hold0[c] \in Nat
           /\ Total(Allowed, Calls) \in Nat /\ Total(Allowed, Calls) <= Spent
<1>1. IsFiniteSet(Calls) /\ \A c \in Calls : spend[c] \in Nat /\ Hold0[c] \in Nat
  BY ClaudeMeterAssumption, ClaudeCallsAssumption DEF HouseInv, HouseTyped
<1>2. \A c \in Calls : Allowed[c] \in Nat /\ Allowed[c] <= spend[c]
  BY <1>1 DEF Allowed
<1>3. /\ Total(spend, Calls) \in Int /\ Total(spend, Calls) >= 0
      /\ Total(Allowed, Calls) \in Int /\ Total(Allowed, Calls) >= 0
  BY <1>1, <1>2, TotalType
<1>4. Total(Allowed, Calls) <= Total(spend, Calls)
  BY <1>1, <1>2, TotalBelow
<1>5. Spent = Total(spend, Calls)
  BY DEF Spent, Total
<1> QED
  BY <1>1, <1>2, <1>3, <1>4, <1>5

\* Booking an amount in the place of a hold asks nothing more of the line.
LEMMA ResolveWrites ==
    ASSUME HouseInv, NEW c \in Calls, NEW amount \in Nat, Resolve(c, amount)
    PROVE  /\ spend' \in [Calls -> Nat] /\ filed' = filed \ {c}
           /\ \A d \in Calls \ {c} : spend'[d] = spend[d]
           /\ spend'[c] = IF c \in filed THEN amount ELSE spend[c]
           /\ WithinLine'
<1>1. /\ spend \in [Calls -> Nat] /\ Hold0[c] \in Nat
      /\ c \in filed => spend[c] = Hold0[c]
  BY ClaudeCallsAssumption DEF HouseInv, HouseTyped, Booked
<1>2. CASE c \notin filed
  <2>1. UNCHANGED <<filed, spend>>
    BY <1>2 DEF Resolve
  <2> QED
    BY <1>1, <1>2, <2>1 DEF HouseInv, WithinLine, Allowed
<1>3. CASE c \in filed
  <2>1. filed' = filed \ {c} /\ spend' = [spend EXCEPT ![c] = amount]
    BY <1>1, <1>3 DEF Resolve
  <2>2. spend' \in [Calls -> Nat] /\ spend'[c] = amount
        /\ \A d \in Calls \ {c} : spend'[d] = spend[d]
    BY <1>1, <2>1
  <2>3. \A d \in Calls : Allowed'[d] \in Nat /\ Allowed'[d] <= Allowed[d] /\ Allowed[d] \in Nat
    <3> TAKE d \in Calls
    <3>1. Hold0[d] \in Nat /\ spend[d] \in Nat /\ spend'[d] \in Nat
      BY <2>2, ClaudeCallsAssumption DEF HouseInv, HouseTyped
    <3>2. CASE d = c
      BY <1>1, <1>3, <2>2, <3>1, <3>2 DEF Allowed
    <3>3. CASE d # c
      BY <2>2, <3>1, <3>3 DEF Allowed
    <3> QED
      BY <3>2, <3>3
  <2>4. Total(Allowed', Calls) <= Total(Allowed, Calls)
    BY <2>3, TotalBelow, ClaudeMeterAssumption
  <2>5. Total(Allowed', Calls) \in Int /\ Total(Allowed, Calls) \in Int /\ UsdCap \in Int
    BY <2>3, TotalType, ClaudeMeterAssumption, ClaudeCallsAssumption
  <2>6. WithinLine'
    BY <2>4, <2>5 DEF HouseInv, WithinLine
  <2> QED
    BY <1>3, <2>1, <2>2, <2>6
<1> QED
  BY <1>2, <1>3

\* _claude_admit asks the line for the whole hold.
LEMMA AdmitStep ==
    ASSUME MeterInv, HouseInv, NEW c \in Calls, Admit(c)
    PROVE  HouseInv'
<1>1. /\ house[c] = "idle" /\ CapRoom >= Hold0[c]
      /\ house' = [house EXCEPT ![c] = "asking"] /\ filed' = filed \cup {c}
      /\ filedAt' = [filedAt EXCEPT ![c] = now] /\ spend' = [spend EXCEPT ![c] = @ + Hold0[c]]
      /\ sent' = sent \cup {c} /\ UNCHANGED <<now, meter, stage, billed, view, answer>>
  BY DEF Admit, meterVars
<1>2. Asked(c) /\ Booked(c) /\ Hold0[c] \in Nat /\ Hold0[c] > 0 /\ now \in 0..Horizon
      /\ now \in Nat /\ Delivery \in Nat
  BY ClaudeMeterAssumption, ClaudeCallsAssumption DEF HouseInv, MeterInv, Handlers
<1>3. /\ spend[c] = 0 /\ c \notin filed /\ c \notin sent /\ stage[c] = "new"
      /\ answer[c] = None /\ view[c] = Unread
  BY <1>1, <1>2 DEF Asked
<1>4. /\ spend' \in [Calls -> Nat] /\ spend'[c] = Hold0[c]
      /\ \A d \in Calls \ {c} : spend'[d] = spend[d] /\ filedAt'[d] = filedAt[d]
                               /\ house'[d] = house[d]
      /\ filedAt'[c] = now /\ house'[c] = "asking"
  BY <1>1, <1>2, <1>3 DEF HouseInv, HouseTyped
<1>5. HouseTyped'
  BY <1>1, <1>2, <1>4 DEF HouseInv, HouseTyped
<1>6. ASSUME NEW d \in Calls \ {c} PROVE Asked(d)' /\ Booked(d)'
  BY <1>1, <1>4 DEF HouseInv, Asked, Booked, Out
<1>7. Asked(c)' /\ Booked(c)'
  BY <1>1, <1>2, <1>3, <1>4 DEF Asked, Booked, None, Unread
<1>8. WithinLine'
  <2>1. Allowed[c] = 0 /\ Allowed'[c] = Hold0[c] /\ \A d \in Calls \ {c} : Allowed'[d] = Allowed[d]
    BY <1>2, <1>3, <1>4 DEF Allowed
  <2>2. \A d \in Calls : Allowed'[d] \in Int /\ Allowed[d] \in Int
    <3> TAKE d \in Calls
    <3>1. Hold0[d] \in Nat /\ spend'[d] \in Nat
      BY <1>4, ClaudeCallsAssumption
    <3> QED
      BY <3>1, SpendTotals DEF Allowed
  <2>3. Total(Allowed', Calls) = Total(Allowed, Calls) + Allowed'[c] - Allowed[c]
    <3>1. IsFiniteSet(Calls)
      BY ClaudeMeterAssumption
    <3>2. \A d \in Calls \ {c} : Allowed'[d] = Allowed[d]
      BY <2>1
    <3> HIDE DEF Allowed
    <3> QED
      BY <3>1, <3>2, <2>2, TotalChanges
  <2>4. Spent \in Nat /\ Total(Allowed, Calls) \in Nat /\ Total(Allowed, Calls) <= Spent
    BY SpendTotals
  <2>5. Spent + Hold0[c] <= UsdCap
    BY <1>1, <1>2, <2>4, ClaudeCallsAssumption DEF CapRoom, Floor
  <2> QED
    BY <1>2, <2>1, <2>3, <2>4, <2>5, ClaudeCallsAssumption DEF WithinLine
<1> QED
  BY <1>5, <1>6, <1>7, <1>8 DEF HouseInv

\* The House books one call: by its answer, or by the record the true-up has read.
LEMMA BookStep ==
    ASSUME MeterInv, HouseInv, NEW c \in Calls,
           Hear(c) \/ BookRecord(c)
    PROVE  HouseInv'
<1>1. UNCHANGED <<now, meter, stage, billed, filedAt, sent>> /\ Out' = Out
  BY DEF Hear, BookRecord, meterVars, Out
<1>2. PICK amount \in {0, billed[c]} :
        Resolve(c, amount) \/ (Hear(c) /\ UNCHANGED <<filed, spend>>)
  <2>1. CASE Hear(c)
    BY <2>1 DEF Hear, HouseInv, Asked
  <2>2. CASE BookRecord(c)
    <3>1. view[c].read
      BY <2>2 DEF BookRecord, HouseInv, Asked
    <3> QED
      BY <2>2, <3>1 DEF BookRecord, HouseInv, Booked
  <2> QED
    BY <2>1, <2>2
<1>3. amount \in Nat
  BY DEF MeterInv, Handlers
<1>4. /\ spend' \in [Calls -> Nat] /\ filed' \subseteq filed /\ WithinLine'
      /\ \A d \in Calls \ {c} : spend'[d] = spend[d] /\ (d \in filed' <=> d \in filed)
      /\ c \in filed' => c \in filed /\ spend'[c] = spend[c]
      /\ c \notin filed' => spend'[c] = amount \/ (c \notin filed /\ spend'[c] = spend[c])
  <2>1. CASE Resolve(c, amount)
    BY <1>3, <2>1, ResolveWrites
  <2>2. CASE UNCHANGED <<filed, spend>>
    BY <2>2 DEF HouseInv, HouseTyped, WithinLine, Allowed
  <2> QED
    BY <1>2, <2>1, <2>2
<1>5. \/ /\ house' = [house EXCEPT ![c] = "left"] /\ answer' = [answer EXCEPT ![c] = None]
         /\ view' = view
      \/ house' = house /\ answer' = answer /\ view' = [view EXCEPT ![c] = Unread]
  <2>1. ASSUME Hear(c)
        PROVE  /\ house' = [house EXCEPT ![c] = "left"] /\ answer' = [answer EXCEPT ![c] = None]
               /\ view' = view
    BY <2>1 DEF Hear
  <2>2. ASSUME BookRecord(c)
        PROVE  house' = house /\ answer' = answer /\ view' = [view EXCEPT ![c] = Unread]
    BY <2>2 DEF BookRecord
  <2> QED
    BY <2>1, <2>2
<1>6. HouseTyped'
  <2>1. HouseTyped /\ None \in Answer /\ Unread \in View
    BY DEF HouseInv, None, Unread, Answer, View
  <2>2. house' \in [Calls -> {"idle", "asking", "left"}]
        /\ answer' \in [Calls -> Answer] /\ view' \in [Calls -> View]
    <3>1. CASE house' = [house EXCEPT ![c] = "left"] /\ answer' = [answer EXCEPT ![c] = None]
               /\ view' = view
      BY <2>1, <3>1 DEF HouseTyped
    <3>2. CASE house' = house /\ answer' = answer /\ view' = [view EXCEPT ![c] = Unread]
      BY <2>1, <3>2 DEF HouseTyped
    <3> QED
      BY <1>5, <3>1, <3>2
  <2> QED
    BY <1>1, <1>4, <2>1, <2>2 DEF HouseTyped
<1>7. \A d \in Calls \ {c} : house'[d] = house[d] /\ answer'[d] = answer[d] /\ view'[d] = view[d]
  BY <1>5 DEF HouseInv, HouseTyped
<1>8. \A d \in Calls \ {c} : Asked(d)' /\ Booked(d)'
  BY <1>1, <1>4, <1>7 DEF HouseInv, Asked, Booked
<1>9. house[c] # "idle"
  BY DEF Hear, BookRecord, HouseInv, Asked
<1>10. /\ house'[c] # "idle" /\ answer'[c] \in {None, answer[c]} /\ view'[c] \in {Unread, view[c]}
  <2>1. HouseTyped
    BY DEF HouseInv
  <2>2. CASE house' = [house EXCEPT ![c] = "left"] /\ answer' = [answer EXCEPT ![c] = None]
             /\ view' = view
    BY <2>1, <2>2 DEF HouseTyped
  <2>3. CASE house' = house /\ answer' = answer /\ view' = [view EXCEPT ![c] = Unread]
    BY <1>9, <2>1, <2>3 DEF HouseTyped
  <2> QED
    BY <1>5, <2>2, <2>3
<1>11. Asked(c)'
  <2>1. Asked(c)
    BY DEF HouseInv
  <2>2. c \in sent' => stage'[c] = "new" /\ now' <= filedAt'[c] + Delivery
    BY <1>1, <2>1 DEF Asked
  <2>3. answer'[c].kind = "cost" =>
          stage'[c] \in {"refused", "done"} /\ c \notin Out' /\ answer'[c].cost = billed'[c]
    BY <1>1, <1>10, <2>1 DEF Asked, None
  <2>4. ~ view'[c].read => view'[c] = Unread
    BY <1>10, <2>1 DEF Asked
  <2> QED
    BY <1>10, <2>2, <2>3, <2>4 DEF Asked
<1>12. Booked(c)'
  <2>1. c \in filed' => spend'[c] = Hold0[c]
    BY <1>4 DEF HouseInv, Booked
  <2>2. c \notin filed' => spend'[c] \in {0, billed'[c]}
    BY <1>1, <1>2, <1>4 DEF HouseInv, Booked
  <2>3. view'[c].read => view'[c].cost \in {0, billed'[c]}
    BY <1>1, <1>10 DEF HouseInv, Booked, Unread
  <2> QED
    BY <2>1, <2>2, <2>3 DEF Booked
<1> QED
  BY <1>4, <1>6, <1>8, <1>11, <1>12 DEF HouseInv

\* Giving up, losing a request, reading a record or a restart books nothing.
LEMMA LeaveStep ==
    ASSUME MeterInv, HouseInv, NEW c \in Calls,
           GiveUp(c) \/ LoseRequest(c) \/ ReadRecord(c) \/ Restart
    PROVE  HouseInv'
<1>1. UNCHANGED <<now, meter, stage, billed, filed, filedAt, spend, answer>> /\ Out' = Out
  BY DEF GiveUp, LoseRequest, ReadRecord, Restart, meterVars, houseVars, Out
<1>2. ASSUME sent' \subseteq sent,
             house' \in [Calls -> {"idle", "asking", "left"}], view' \in [Calls -> View],
             \A d \in Calls :
               /\ house'[d] = "idle" => house[d] = "idle" /\ view'[d] = Unread
               /\ \/ view'[d] \in {view[d], Unread}
                  \/ view'[d].read /\ view'[d].cost \in {0, billed[d]}
      PROVE  HouseInv'
  <2>1. HouseTyped'
    BY <1>1, <1>2 DEF HouseInv, HouseTyped
  <2>2. ASSUME NEW d \in Calls PROVE Asked(d)' /\ Booked(d)'
    <3>1. (~ view'[d].read => view'[d] = Unread) /\ (view'[d].read => view'[d].cost \in {0, billed[d]})
      BY <1>2 DEF HouseInv, Asked, Booked, Unread
    <3> QED
      BY <1>1, <1>2, <3>1 DEF HouseInv, Asked, Booked
  <2>3. WithinLine'
    BY <1>1 DEF HouseInv, WithinLine, Allowed
  <2> QED
    BY <2>1, <2>2, <2>3 DEF HouseInv
<1>i. /\ HouseTyped /\ \A d \in Calls : house[d] = "idle" => view[d] = Unread /\ d \notin filed
  BY DEF HouseInv, Asked
<1>3. CASE GiveUp(c)
  BY <1>2, <1>3, <1>i DEF GiveUp, HouseTyped
<1>4. CASE LoseRequest(c)
  BY <1>2, <1>4, <1>i DEF LoseRequest, houseVars, HouseTyped
<1>5. CASE Restart
  BY <1>2, <1>5, <1>i DEF Restart, HouseTyped, View, Unread
<1>6. CASE ReadRecord(c)
  <2>1. PICK cost \in TrueUpCosts(RecordOf(c), now - filedAt[c]) :
          view' = [view EXCEPT ![c] = [read |-> TRUE, cost |-> cost]]
    BY <1>6 DEF ReadRecord
  <2>2. cost \in {0, billed[c]} /\ billed[c] \in Nat
    <3>1. RecordOf(c).state \in {"settled", "unknown"} => RecordOf(c).cost = billed[c]
      BY DEF MeterInv, RowFits, RecordOf
    <3>2. cost = 0 \/ (RecordOf(c).state \in {"settled", "unknown"} /\ cost = RecordOf(c).cost)
      BY DEF TrueUpCosts
    <3> QED
      BY <3>1, <3>2 DEF MeterInv, Handlers
  <2>3. view' \in [Calls -> View] /\ view'[c] = [read |-> TRUE, cost |-> cost]
        /\ \A d \in Calls \ {c} : view'[d] = view[d]
    BY <2>1, <2>2, <1>i DEF HouseTyped, View
  <2> QED
    BY <1>2, <1>6, <1>i, <2>2, <2>3 DEF ReadRecord, HouseTyped
<1> QED
  BY <1>3, <1>4, <1>5, <1>6
-----------------------------------------------------------------------------
\* At first nothing is filed.
LEMMA HouseInit == ASSUME CallsInit PROVE MeterInv /\ HouseInv
<1>1. MeterInv
  BY MeterInit0 DEF CallsInit
<1>2. /\ now = 0 /\ stage = [c \in Calls |-> "new"] /\ house = [c \in Calls |-> "idle"]
      /\ filed = {} /\ filedAt = [c \in Calls |-> 0] /\ spend = [c \in Calls |-> 0] /\ sent = {}
      /\ answer = [c \in Calls |-> None] /\ view = [c \in Calls |-> Unread]
  BY DEF CallsInit, Init, MeterInit
<1>3. None \in Answer /\ Unread \in View /\ None.kind = "none" /\ Unread.read = FALSE
  BY DEF None, Answer, Unread, View
<1>4. HouseTyped
  BY <1>2, <1>3, ClaudeMeterAssumption DEF HouseTyped
<1>5. \A c \in Calls : Asked(c) /\ Booked(c)
  BY <1>2, <1>3 DEF Asked, Booked
<1>6. WithinLine
  <2>1. \A c \in Calls : Allowed[c] = 0
    BY <1>2, ClaudeCallsAssumption DEF Allowed
  <2>2. Total(Allowed, Calls) = 0
    BY <2>1, TotalOfNothing, ClaudeMeterAssumption
  <2> QED
    BY <2>2, ClaudeCallsAssumption DEF WithinLine
<1> QED
  BY <1>1, <1>4, <1>5, <1>6 DEF HouseInv

\* What the House does alone leaves the gateway as it is.
LEMMA MeterStands ==
    ASSUME MeterInv, UNCHANGED <<now, meter, stage, since, billed, swept>>
    PROVE  MeterInv'
BY DEF MeterInv, Handlers, RowFits, OverOf, Sound, IsRow

\* Every step keeps the meter and the House in order.
LEMMA InvStep ==
    ASSUME MeterInv, HouseInv, [CallsNext]_vars
    PROVE  MeterInv' /\ HouseInv'
<1>1. CASE UNCHANGED vars
  BY <1>1, GatewayStep
<1>2. ASSUME NEW c \in Calls, Admit(c) PROVE MeterInv' /\ HouseInv'
  <2>1. UNCHANGED <<now, meter, stage, since, billed, swept>>
    BY <1>2 DEF Admit, meterVars
  <2> QED
    BY <1>2, <2>1, AdmitStep, MeterStands
<1>3. ASSUME NEW c \in Calls, Hear(c) \/ BookRecord(c) PROVE MeterInv' /\ HouseInv'
  <2>1. UNCHANGED <<now, meter, stage, since, billed, swept>>
    BY <1>3 DEF Hear, BookRecord, meterVars
  <2> QED
    BY <1>3, <2>1, BookStep, MeterStands
<1>4. ASSUME NEW c \in Calls, GiveUp(c) \/ LoseRequest(c) \/ ReadRecord(c) \/ Restart
      PROVE  MeterInv' /\ HouseInv'
  <2>1. UNCHANGED <<now, meter, stage, since, billed, swept>>
    BY <1>4 DEF GiveUp, LoseRequest, ReadRecord, Restart, meterVars
  <2> QED
    BY <1>4, <2>1, LeaveStep, MeterStands
<1>5. CASE Restart
  <2>1. \E c \in Calls : house[c] = "asking" \/ view[c] # Unread
    BY <1>5 DEF Restart
  <2> QED
    BY <1>4, <1>5, <2>1
<1>6. ASSUME NEW c \in Calls, Arrive(c) \/ Finish(c) \/ Crash(c) PROVE MeterInv' /\ HouseInv'
  BY <1>6, ArriveStep, FinishStep, GatewayStep
<1>7. CASE CronSweep \/ Pass
  BY <1>7, GatewayStep
<1> QED
  BY <1>1, <1>2, <1>3, <1>4, <1>5, <1>6, <1>7 DEF CallsNext, CallsStep

\* The meter and the swarm's books, with what each knows of the calls between them, hold together.
THEOREM InvHolds == CallsSpec => [](MeterInv /\ HouseInv)
<1>1. CallsInit => MeterInv /\ HouseInv
  BY HouseInit
<1>2. (MeterInv /\ HouseInv) /\ [CallsNext]_vars => (MeterInv /\ HouseInv)'
  BY InvStep
<1> QED
  BY <1>1, <1>2, PTL DEF CallsSpec
-----------------------------------------------------------------------------
\* Every variable of the House and of the meter has its type, through every call, loss,
\* sweep and restart; the gateway never has more records than it keeps, and none of them
\* says "held" of a hold that is gone.
THEOREM TypeCorrect == CallsSpec => []HouseTypeOK
<1>1. MeterInv /\ HouseInv => HouseTypeOK
  <2> SUFFICES ASSUME MeterInv, HouseInv PROVE HouseTypeOK
    OBVIOUS
  <2>1. IsRow(meter) /\ Cardinality(DOMAIN meter.recent) <= RecentRequests
    BY DEF MeterInv, RowFits, Sound
  <2>2. \A c \in DOMAIN meter.recent :
          meter.recent[c].state = "held" => c \in DOMAIN meter.holds
    BY <2>1 DEF MeterInv, RowFits, IsRow
  <2>3. TypeOK
    BY <2>1, <2>2 DEF TypeOK, MeterInv, Handlers, IsRow
  <2> QED
    BY <2>3 DEF HouseTypeOK, HouseInv, HouseTyped
<1> QED
  BY <1>1, InvHolds, PTL

\* The gateway's two sums (gate.mjs: claudeReserve, claudeSettle, claudeSweep) are what is
\* held and what was booked, in every order of reservations, sweeps and late settlements.
THEOREM SumsAddUp == CallsSpec => []MeterAddsUp
<1>1. MeterInv => MeterAddsUp
  <2> SUFFICES ASSUME MeterInv PROVE MeterAddsUp
    OBVIOUS
  <2>1. /\ Out \in SUBSET Calls /\ \A c \in Out : meter.holds[c].micro = Worst[c]
        /\ meter.inflight = Total(Worst, Out)
        /\ meter.spent = Total(Worst, Out) + Total(billed, Calls)
    BY DEF MeterInv, RowFits, Sound, IsRow, Out
  <2>2. HeldOf(meter, Out) = Total(Worst, Out)
    BY <2>1, HoldsAddUp
  <2>3. HeldSum(meter) = HeldOf(meter, Out)
    BY DEF HeldSum, HeldOf, Out
  <2>4. MapThenSumSet(LAMBDA c : billed[c], Calls) = Total(billed, Calls)
    BY DEF Total
  <2> QED
    BY <2>1, <2>2, <2>3, <2>4 DEF MeterAddsUp
<1> QED
  BY <1>1, InvHolds, PTL

\* The total the owner funded is passed by reported overruns and by settlements of swept
\* holds alone, whatever the calls, their worst cases and their costs.
THEOREM FundedHolds == CallsSpec => []WithinFunded
<1>1. MeterInv => WithinFunded
  BY DEF MeterInv, RowFits, WithinFunded, Late, Total
<1> QED
  BY <1>1, InvHolds, PTL

\* The House's own line for Claude is passed by overruns alone.
Overruns(S) == MapThenSumSet(LAMBDA c : Floor(billed[c] - Worst[c]), S)

\* What calls cost above their worst case, as a sum of one number a call.
LEMMA OverrunsAddUp ==
    ASSUME NEW o, \A c \in Calls : o[c] = Floor(billed[c] - Worst[c])
    PROVE  Overruns(Calls) = Total(o, Calls)
<1> DEFINE P(g) == g = [s \in SUBSET Calls |-> IF s = {} THEN 0
                          ELSE Floor(billed[AnyOf(s)] - Worst[AnyOf(s)]) + g[s \ {AnyOf(s)}]]
           h == CHOOSE g : P(g)
<1>1. Overruns(Calls) = h[Calls]
  BY DEF Overruns, MapThenSumSet, MapThenFoldSet, AnyOf
<1>2. \A s \in SUBSET Calls : s # {} => o[AnyOf(s)] = Floor(billed[AnyOf(s)] - Worst[AnyOf(s)])
  BY AnyIn
<1>3. \A g : P(g) <=> Adds(g, o, Calls)
  BY <1>2 DEF Adds
<1>4. \E g : P(g)
  BY <1>3, AddsExists, ClaudeMeterAssumption
<1>5. P(h)
  <2> HIDE DEF P
  <2> QED
    BY <1>4
<1>6. Adds(h, o, Calls)
  <2> HIDE DEF h, P
  <2> QED
    BY <1>3, <1>5
<1> HIDE DEF h
<1> QED
  BY <1>1, <1>6, TotalAdds, ClaudeMeterAssumption

\* The House's own line (models.py: _claude_admit) is passed by the overruns of single calls
\* alone: a call is asked for in full, and is booked at its hold or at what the gateway booked.
THEOREM LineHolds == CallsSpec => []WithinUsdCap
<1>1. MeterInv /\ HouseInv => WithinUsdCap
  <2> SUFFICES ASSUME MeterInv, HouseInv PROVE WithinUsdCap
    OBVIOUS
  <2> DEFINE over == [c \in Calls |-> Floor(billed[c] - Worst[c])]
             both == [c \in Calls |-> Allowed[c] + over[c]]
  <2>1. ASSUME NEW c \in Calls
        PROVE  /\ Allowed[c] \in Int /\ over[c] \in Int /\ spend[c] \in Int /\ both[c] \in Int
               /\ spend[c] <= both[c]
    <3>1. /\ Hold0[c] \in Nat /\ Worst[c] \in Nat /\ Worst[c] <= Hold0[c] /\ billed[c] \in Nat
          /\ spend[c] \in Nat /\ spend[c] \in {Hold0[c], 0, billed[c]}
      BY ClaudeMeterAssumption, ClaudeCallsAssumption
      DEF HouseInv, HouseTyped, Booked, MeterInv, Handlers
    <3>2. over[c] \in Nat /\ over[c] >= billed[c] - Worst[c]
      BY <3>1 DEF Floor
    <3>3. Allowed[c] = IF spend[c] > Hold0[c] THEN Hold0[c] ELSE spend[c]
      BY DEF Allowed
    <3>4. both[c] = Allowed[c] + over[c]
      OBVIOUS
    <3> HIDE DEF both, over
    <3> QED
      BY <3>1, <3>2, <3>3, <3>4
  <2>2. Overruns(Calls) = Total(over, Calls)
    BY OverrunsAddUp
  <2>3. IsFiniteSet(Calls)
    BY ClaudeMeterAssumption
  <2> HIDE DEF over
  <2>4. Total(both, Calls) = Total(Allowed, Calls) + Total(over, Calls)
    BY <2>1, <2>3, TotalsCompare
  <2> HIDE DEF both
  <2>5. Total(spend, Calls) <= Total(both, Calls)
    BY <2>1, <2>3, TotalBelow
  <2>6. Total(over, Calls) \in Int /\ Total(Allowed, Calls) \in Int
    BY <2>1, <2>3, TotalType
  <2>7. Spent = Total(spend, Calls) /\ Spent \in Nat /\ Total(Allowed, Calls) <= UsdCap
        /\ UsdCap \in Nat
    BY SpendTotals, ClaudeCallsAssumption DEF HouseInv, WithinLine
  <2>8. Spent <= UsdCap + Overruns(Calls)
    BY <2>2, <2>4, <2>5, <2>6, <2>7
  <2> QED
    BY <2>8 DEF WithinUsdCap, Overruns
<1> QED
  BY <1>1, InvHolds, PTL
-----------------------------------------------------------------------------
\* What a step may change of a call that is over or swept: nothing that matters.
LEMMA AgreementStays ==
    ASSUME MeterInv, HouseInv, [CallsNext]_vars
    PROVE  /\ swept \subseteq swept'
           /\ \A d \in Calls : Over(d) /\ house[d] # "idle" => Over(d)' /\ billed'[d] = billed[d]
<1>1. ASSUME UNCHANGED <<now, meter, stage, billed, swept>>,
             \A d \in Calls : house[d] # "idle" /\ d \notin sent => d \notin sent'
      PROVE  /\ swept \subseteq swept'
             /\ \A d \in Calls : Over(d) /\ house[d] # "idle" => Over(d)' /\ billed'[d] = billed[d]
  BY <1>1 DEF Over, Out
<1>2. CASE UNCHANGED vars
  BY <1>1, <1>2 DEF vars, meterVars, houseVars
<1>3. ASSUME NEW c \in Calls, Admit(c)
      PROVE  UNCHANGED <<now, meter, stage, billed, swept>>
             /\ \A d \in Calls : house[d] # "idle" /\ d \notin sent => d \notin sent'
  BY <1>3 DEF Admit, meterVars
<1>4. ASSUME NEW c \in Calls, Hear(c) \/ GiveUp(c) \/ ReadRecord(c) \/ BookRecord(c) \/ LoseRequest(c)
      PROVE  UNCHANGED <<now, meter, stage, billed, swept>> /\ sent' \subseteq sent
  BY <1>4 DEF Hear, GiveUp, ReadRecord, BookRecord, LoseRequest, meterVars, houseVars
<1>5. CASE Restart
  BY <1>1, <1>5 DEF Restart, meterVars
<1>6. CASE Pass
  <2>1. UNCHANGED <<meter, stage, billed, swept, sent>>
    BY <1>6 DEF Pass, Tick, meterVars
  <2> QED
    BY <2>1 DEF Over, Out
<1>7. CASE CronSweep
  <2>1. /\ UNCHANGED <<now, stage, since, billed, sent>> /\ meter' \in Swept(meter, now)
        /\ swept' = swept \cup Stale(meter, now)
    BY <1>7 DEF CronSweep, Sweep, houseVars
  <2>2. Out' \subseteq Out
    BY <2>1, SweepStep
  <2> QED
    BY <2>1, <2>2 DEF Over
<1>8. ASSUME NEW c \in Calls, Arrive(c) \/ Finish(c) \/ Crash(c)
      PROVE  /\ swept \subseteq swept'
             /\ \A d \in Calls : Over(d) /\ house[d] # "idle" => Over(d)' /\ billed'[d] = billed[d]
  <2>1. now' = now /\ sent' \subseteq sent
    BY <1>8 DEF Arrive, Finish, Crash
  <2>2. swept \subseteq swept'
    BY <1>8 DEF Arrive, Finish, Crash, TurnAway, Reserve, Settle, Die
  <2>3. Over(c) => FALSE
    BY <1>8 DEF Over, Arrive, Finish, Settle, Crash, Die
  <2>4. \A d \in Calls \ {c} : stage'[d] = stage[d] /\ billed'[d] = billed[d]
    BY <1>8 DEF MeterInv, Handlers, Arrive, Finish, Crash, TurnAway, Reserve, Settle, Die
  <2>5. Out' \subseteq Out \cup {c}
    <3>1. CASE Arrive(c)
      BY <2>1, <3>1, ReserveMoves, HandlerStep DEF Arrive
    <3>2. CASE Finish(c)
      BY <2>1, <3>2, SettleStep DEF Finish
    <3>3. CASE Crash(c)
      BY <2>1, <3>3, HandlerStep DEF Crash
    <3> QED
      BY <1>8, <3>1, <3>2, <3>3
  <2> QED
    BY <2>1, <2>2, <2>3, <2>4, <2>5 DEF Over
<1> QED
  BY <1>1, <1>2, <1>3, <1>4, <1>5, <1>6, <1>7, <1>8 DEF CallsNext, CallsStep

\* What the true-up takes from the gateway's record of a call that is filed.
LEMMA ReadAgrees ==
    ASSUME Delivery < AbsentAfter, MeterInv, HouseInv, FilingsOnRecord, NEW c \in Calls, c \in filed,
           NEW cost \in TrueUpCosts(RecordOf(c), now - filedAt[c])
    PROVE  Agrees(c, cost)
<1>1. CASE c \in DOMAIN meter.recent
  <2>1. RecordOf(c) = meter.recent[c]
    BY <1>1 DEF RecordOf
  <2>2. CASE meter.recent[c].state = "released"
    <3>1. c \in swept
      BY <1>1, <2>2 DEF MeterInv, RowFits
    <3> QED
      BY <2>1, <2>2, <3>1 DEF TrueUpCosts, Agrees
  <2>3. CASE meter.recent[c].state \in {"settled", "unknown"}
    <3>1. stage[c] = "done" /\ meter.recent[c].cost = billed[c] /\ c \notin Out
      BY <1>1, <2>3 DEF MeterInv, RowFits, Out
    <3>2. c \notin sent
      BY <3>1 DEF HouseInv, Asked
    <3> QED
      BY <2>1, <2>3, <3>1, <3>2 DEF TrueUpCosts, Agrees, Over
  <2>4. meter.recent[c].state \in {"held", "settled", "unknown", "released"}
    BY <1>1 DEF MeterInv, RowFits, Sound, IsRow, Record
  <2>5. CASE meter.recent[c].state = "held"
    BY <2>1, <2>5 DEF TrueUpCosts
  <2> QED
    BY <2>2, <2>3, <2>4, <2>5
<1>2. CASE c \notin DOMAIN meter.recent
  <2>1. RecordOf(c).state = "absent"
    BY <1>2 DEF RecordOf
  <2>2. cost = 0 /\ now - filedAt[c] >= AbsentAfter
    BY <2>1 DEF TrueUpCosts
  <2>3. now \in Int /\ filedAt[c] \in Int /\ Delivery \in Int /\ AbsentAfter \in Int
    BY ClaudeMeterAssumption, ClaudeCallsAssumption DEF MeterInv, Handlers, HouseInv, HouseTyped
  <2>4. c \notin sent
    <3>1. c \in sent => now <= filedAt[c] + Delivery
      BY DEF HouseInv, Asked
    <3> QED
      BY <2>2, <2>3, <3>1
  <2>5. stage[c] \in {"new", "refused"}
    BY <1>2 DEF FilingsOnRecord, MeterInv, Handlers
  <2>6. billed[c] = 0 /\ c \notin Out
    BY <2>5 DEF MeterInv, RowFits, Out
  <2> QED
    BY <2>2, <2>4, <2>5, <2>6 DEF Agrees, Over
<1> QED
  BY <1>1, <1>2

\* Every step keeps what the two books say of a call the same, while the gateway
\* has a record of what is filed, and a request is over before its record counts as absent.
LEMMA AgreeStep ==
    ASSUME Delivery < AbsentAfter, MeterInv, HouseInv, AgreeInv, FilingsOnRecord, [CallsNext]_vars
    PROVE  AgreeInv'
<1>1. /\ swept \subseteq swept'
      /\ \A d \in Calls : Over(d) /\ house[d] # "idle" => Over(d)' /\ billed'[d] = billed[d]
  BY AgreementStays
<1> DEFINE Same(d, x) == (x = billed'[d] /\ Over(d)') \/ (x = 0 /\ d \in swept')
<1>2. ASSUME NEW d \in Calls, house[d] # "idle", NEW x, Agrees(d, x) PROVE Same(d, x)
  BY <1>1, <1>2 DEF Agrees
<1>3. ASSUME NEW d \in Calls,
             \/ spend'[d] = spend[d] /\ (d \in filed' <=> d \in filed) /\ house'[d] = house[d]
             \/ d \in filed'
             \/ house[d] # "idle" /\ Agrees(d, spend'[d])
             \/ /\ house[d] # "idle" /\ spend'[d] = spend[d]
                /\ d \in filed' <=> d \in filed
      PROVE  d \notin filed' /\ house'[d] # "idle" => Agrees(d, spend[d])'
  <2>1. d \notin filed' /\ house'[d] # "idle" => Same(d, spend'[d])
    BY <1>2, <1>3 DEF AgreeInv
  <2> QED
    BY <2>1 DEF Agrees
<1>4. ASSUME NEW d \in Calls,
             view'[d] \in {view[d], Unread} \/ (d \in filed /\ Agrees(d, view'[d].cost))
      PROVE  view'[d].read => Agrees(d, view[d].cost)'
  <2>1. d \in filed \/ view[d] # Unread => house[d] # "idle"
    BY DEF HouseInv, Asked
  <2>2. view'[d].read => Same(d, view'[d].cost)
    BY <1>2, <1>4, <2>1 DEF AgreeInv, Unread
  <2> QED
    BY <2>2 DEF Agrees
<1>5. SUFFICES ASSUME NEW d \in Calls
               PROVE  /\ \/ spend'[d] = spend[d] /\ (d \in filed' <=> d \in filed) /\ house'[d] = house[d]
                         \/ d \in filed'
                         \/ house[d] # "idle" /\ Agrees(d, spend'[d])
                         \/ /\ house[d] # "idle" /\ spend'[d] = spend[d]
                            /\ d \in filed' <=> d \in filed
                      /\ view'[d] \in {view[d], Unread} \/ (d \in filed /\ Agrees(d, view'[d].cost))
  BY <1>1, <1>3, <1>4 DEF AgreeInv
<1>t. HouseTyped /\ Asked(d) /\ Booked(d)
  BY DEF HouseInv, AgreeInv
<1>6. CASE UNCHANGED <<house, filed, spend, view>>
  BY <1>6
<1>7. ASSUME NEW c \in Calls, Admit(c)
      PROVE  (d \in filed' \/ UNCHANGED <<spend[d], house[d]>>) /\ view' = view
             /\ (d \notin filed' => d \notin filed)
  BY <1>7, <1>t DEF Admit, HouseTyped
<1>8. ASSUME NEW c \in Calls, GiveUp(c) \/ Restart
      PROVE  /\ UNCHANGED <<spend, filed>> /\ view'[d] \in {view[d], Unread}
             /\ house[d] # "idle" \/ house'[d] = house[d]
  BY <1>8, <1>t DEF GiveUp, Restart, HouseTyped
<1>9. ASSUME NEW c \in Calls, NEW amount \in Nat, c = d, Resolve(d, amount), Agrees(d, amount)
      PROVE  \/ spend'[d] = spend[d] /\ filed' = filed
             \/ Agrees(d, spend'[d])
  <2>1. CASE d \in filed
    <3>1. spend'[d] = amount
      BY <1>9, <2>1, ResolveWrites
    <3> QED
      BY <1>9, <3>1
  <2>2. CASE d \notin filed
    BY <2>2, <1>9 DEF Resolve
  <2> QED
    BY <2>1, <2>2
<1>10. ASSUME NEW c \in Calls, NEW amount \in Nat, c # d, Resolve(c, amount)
       PROVE  spend'[d] = spend[d] /\ (d \in filed' <=> d \in filed)
  BY <1>10, ResolveWrites
<1>11. ASSUME NEW c \in Calls, Hear(c)
       PROVE  /\ \/ spend'[d] = spend[d] /\ (d \in filed' <=> d \in filed)
                 \/ house[d] # "idle" /\ Agrees(d, spend'[d])
              /\ view' = view /\ (house[d] # "idle" \/ (d # c /\ house'[d] = house[d]))
  <2>1. /\ view' = view /\ house[c] = "asking" /\ house' = [house EXCEPT ![c] = "left"]
        /\ IF answer[c].kind = "cost" THEN Resolve(c, answer[c].cost) ELSE UNCHANGED <<filed, spend>>
    BY <1>11 DEF Hear
  <2>2. house[d] # "idle" \/ (d # c /\ house'[d] = house[d])
    BY <2>1, <1>t DEF HouseTyped
  <2>3. CASE answer[c].kind = "cost"
    <3>1. Resolve(c, answer[c].cost) /\ answer[c].cost \in Nat
      <4>1. answer[c].cost = billed[c] /\ billed[c] \in Nat
        BY <2>3 DEF HouseInv, Asked, MeterInv, Handlers
      <4> QED
        BY <2>1, <2>3, <4>1
    <3>2. CASE c # d
      BY <1>10, <2>1, <2>2, <3>1, <3>2
    <3>3. CASE c = d
      <4>1. Agrees(d, answer[d].cost)
        <5>1. d \notin sent
          BY <1>t, <2>3, <3>3 DEF Asked
        <5> QED
          BY <1>t, <2>3, <3>3, <5>1 DEF Asked, Agrees, Over
      <4> QED
        BY <1>9, <2>1, <2>2, <3>1, <3>3, <4>1
    <3> QED
      BY <3>2, <3>3
  <2>4. CASE answer[c].kind # "cost"
    BY <2>1, <2>2, <2>4
  <2> QED
    BY <2>3, <2>4
<1>12. ASSUME NEW c \in Calls, BookRecord(c)
       PROVE  /\ \/ spend'[d] = spend[d] /\ (d \in filed' <=> d \in filed)
                 \/ house[d] # "idle" /\ Agrees(d, spend'[d])
              /\ view'[d] \in {view[d], Unread} /\ house' = house
  <2>1. /\ view[c] # Unread /\ Resolve(c, view[c].cost) /\ house' = house
        /\ view' = [view EXCEPT ![c] = Unread]
    BY <1>12 DEF BookRecord
  <2>2. view'[d] \in {view[d], Unread}
    BY <2>1, <1>t DEF HouseTyped
  <2>3. view[c].read /\ house[c] # "idle" /\ view[c].cost \in Nat
    BY <2>1 DEF HouseInv, Asked, HouseTyped, View
  <2>4. CASE c # d
    BY <1>10, <2>1, <2>2, <2>3, <2>4
  <2>5. CASE c = d
    <3>1. Agrees(d, view[d].cost)
      BY <2>3, <2>5 DEF AgreeInv
    <3> QED
      BY <1>9, <2>1, <2>2, <2>3, <2>5, <3>1
  <2> QED
    BY <2>4, <2>5
<1>13. ASSUME NEW c \in Calls, ReadRecord(c)
       PROVE  /\ UNCHANGED <<house, filed, spend>>
              /\ view'[d] = view[d] \/ (d \in filed /\ Agrees(d, view'[d].cost))
  <2>1. UNCHANGED <<house, filed, spend>> /\ c \in filed
    BY <1>13 DEF ReadRecord
  <2>2. PICK cost \in TrueUpCosts(RecordOf(c), now - filedAt[c]) :
          view' = [view EXCEPT ![c] = [read |-> TRUE, cost |-> cost]]
    BY <1>13 DEF ReadRecord
  <2>3. Agrees(c, cost)
    BY <1>t, <2>1, <2>2, ReadAgrees
  <2>4. CASE c # d
    BY <1>t, <2>1, <2>2, <2>4 DEF HouseTyped
  <2>5. CASE c = d
    <3>1. view'[d].cost = cost
      BY <1>t, <2>2, <2>5 DEF HouseTyped
    <3> QED
      BY <2>1, <2>3, <2>5, <3>1
  <2> QED
    BY <2>4, <2>5
<1>14. ASSUME NEW c \in Calls, LoseRequest(c) \/ Arrive(c) \/ Finish(c) \/ Crash(c)
       PROVE  UNCHANGED <<house, filed, spend, view>>
  BY <1>14 DEF LoseRequest, Arrive, Finish, Crash, houseVars
<1>15. CASE CronSweep \/ Pass \/ UNCHANGED vars
  <2>1. UNCHANGED <<house, filed, spend, view>>
    BY <1>15 DEF CronSweep, Pass, vars, houseVars
  <2> QED
    BY <1>6, <2>1
<1>16. CASE \E c \in Calls : Admit(c)
  <2>1. PICK c \in Calls : Admit(c)
    BY <1>16
  <2>2. (d \in filed' \/ UNCHANGED <<spend[d], house[d]>>) /\ view' = view
        /\ (d \notin filed' => d \notin filed)
    BY <1>7, <2>1
  <2> QED
    BY <2>2
<1>17. CASE Restart \/ \E c \in Calls : GiveUp(c)
  BY <1>8, <1>17
<1>18. CASE \E c \in Calls : Hear(c)
  BY <1>11, <1>18
<1>19. CASE \E c \in Calls : BookRecord(c)
  BY <1>12, <1>19
<1>20. CASE \E c \in Calls : ReadRecord(c)
  BY <1>13, <1>20
<1>21. CASE \E c \in Calls : LoseRequest(c) \/ Arrive(c) \/ Finish(c) \/ Crash(c)
  BY <1>6, <1>14, <1>21
<1> QED
  BY <1>15, <1>16, <1>17, <1>18, <1>19, <1>20, <1>21 DEF CallsNext, CallsStep

\* Where both sides' books are in order and agree, the gateway's total is covered: of each
\* call it has no more than the House does, but for the overruns and what is late.
LEMMA AgreedIsCovered ==
    ASSUME MeterInv, HouseInv, AgreeInv
    PROVE  HouseCovers
<1> DEFINE held  == [c \in Calls |-> IF c \in Out THEN Worst[c] ELSE 0]
           owed  == [c \in Calls |-> IF c \in swept THEN billed[c] ELSE 0]
           there == [c \in Calls |-> held[c] + billed[c]]
           apart == [c \in Calls |-> OverOf(swept)[c] + owed[c]]
           here  == [c \in Calls |-> spend[c] + apart[c]]
<1>1. IsFiniteSet(Calls) /\ Out \in SUBSET Calls /\ swept \in SUBSET Calls
  BY ClaudeMeterAssumption DEF MeterInv, RowFits, Sound, IsRow, Out
<1>2. ASSUME NEW c \in Calls
      PROVE  /\ held[c] \in Nat /\ owed[c] \in Nat /\ billed[c] \in Nat /\ spend[c] \in Nat
             /\ OverOf(swept)[c] \in Nat
             /\ there[c] <= here[c]
  <2>1. /\ billed[c] \in Nat /\ spend[c] \in Nat /\ Worst[c] \in Nat /\ Hold0[c] \in Nat
        /\ Worst[c] <= Hold0[c]
    BY ClaudeMeterAssumption, ClaudeCallsAssumption DEF MeterInv, Handlers, HouseInv, HouseTyped
  <2>2. /\ OverOf(swept)[c] = IF c \in swept THEN 0 ELSE Floor(billed[c] - Worst[c])
        /\ Floor(billed[c] - Worst[c]) \in Nat
        /\ Floor(billed[c] - Worst[c]) >= billed[c] - Worst[c]
    BY <2>1 DEF OverOf, Floor
  <2>3. c \in Out => billed[c] = 0 /\ c \notin swept
    BY DEF MeterInv, RowFits, Out
  <2>4. \/ spend[c] = Hold0[c]
        \/ spend[c] = billed[c] /\ c \notin Out
        \/ spend[c] = 0 /\ c \in swept
    <3>1. CASE c \in filed
      BY <3>1 DEF HouseInv, Booked
    <3>2. CASE house[c] = "idle"
      <4>1. stage[c] = "new" /\ spend[c] = 0
        BY <3>2 DEF HouseInv, Asked
      <4> QED
        BY <4>1 DEF MeterInv, RowFits, Out
    <3>3. CASE c \notin filed /\ house[c] # "idle"
      BY <3>3 DEF AgreeInv, Agrees, Over
    <3> QED
      BY <3>1, <3>2, <3>3
  <2>5. /\ held[c] = IF c \in Out THEN Worst[c] ELSE 0
        /\ owed[c] = IF c \in swept THEN billed[c] ELSE 0
        /\ there[c] = held[c] + billed[c] /\ here[c] = spend[c] + (OverOf(swept)[c] + owed[c])
    OBVIOUS
  <2> HIDE DEF held, owed, there, here, apart
  <2> QED
    BY <2>1, <2>2, <2>3, <2>4, <2>5
<1>3. Total(held, Calls) = Total(Worst, Out)
  <2>1. /\ \A c \in Calls : held[c] \in Int
        /\ \A c \in Out : held[c] = Worst[c]
        /\ \A c \in Calls \ Out : held[c] = 0
    BY <1>1, <1>2
  <2> HIDE DEF held
  <2> QED
    BY <1>1, <2>1, TotalOnlyOver
<1>4. Total(owed, Calls) = Total(billed, swept)
  <2>1. /\ \A c \in Calls : owed[c] \in Int
        /\ \A c \in swept : owed[c] = billed[c]
        /\ \A c \in Calls \ swept : owed[c] = 0
    BY <1>1, <1>2
  <2> HIDE DEF owed
  <2> QED
    BY <1>1, <2>1, TotalOnlyOver
<1>5. PICK o : o = OverOf(swept)
  OBVIOUS
<1> HIDE DEF held, owed
<1>6. Total(there, Calls) = Total(held, Calls) + Total(billed, Calls)
  BY <1>1, <1>2, TotalsCompare
<1>7. Total(apart, Calls) = Total(o, Calls) + Total(owed, Calls)
      /\ \A c \in Calls : apart[c] \in Nat
  <2>1. apart = [c \in Calls |-> o[c] + owed[c]]
    BY <1>5
  <2>2. \A c \in Calls : o[c] \in Int /\ owed[c] \in Int /\ o[c] + owed[c] \in Nat
    BY <1>2, <1>5
  <2> HIDE DEF apart
  <2> QED
    BY <1>1, <2>1, <2>2, TotalsCompare
<1>8. \A c \in Calls : there[c] \in Int
  BY <1>2
<1> HIDE DEF apart
<1>9. Total(here, Calls) = Total(spend, Calls) + Total(apart, Calls)
      /\ \A c \in Calls : here[c] \in Int
  <2>1. \A c \in Calls : spend[c] \in Int /\ apart[c] \in Int
    BY <1>2, <1>7
  <2>2. Total(here, Calls) = Total(spend, Calls) + Total(apart, Calls)
    BY ONLY <1>1, <2>1, TotalsCompare
  <2> QED
    BY <2>1, <2>2
<1>10. Total(there, Calls) <= Total(here, Calls)
  <2> HIDE DEF there, here
  <2> QED
    BY <1>1, <1>2, <1>8, <1>9, TotalBelow
<1>11. /\ meter.spent = Total(Worst, Out) + Total(billed, Calls)
       /\ meter.overrun = Total(o, Calls)
  BY <1>5 DEF MeterInv, RowFits, Out
<1>12. Spent = Total(spend, Calls) /\ Late = Total(billed, swept)
  BY SpendTotals DEF Late, Total
<1>13. /\ Total(spend, Calls) \in Int /\ Total(o, Calls) \in Int /\ Total(owed, Calls) \in Int
       /\ Total(held, Calls) \in Int /\ Total(billed, Calls) \in Int
  BY <1>1, <1>2, <1>5, TotalType
<1> HIDE DEF there, here
<1> QED
  BY <1>3, <1>4, <1>6, <1>7, <1>9, <1>10, <1>11, <1>12, <1>13 DEF HouseCovers

\* The two sides' books agree, in every order of answers, losses, sweeps, restarts and
\* true-ups, as long as the gateway has a record of each call whose filing is open, and the
\* House waits for a request longer than it may be on its way before it takes "absent" for
\* an answer (absent_after).  Without the first it fails: see README.
THEOREM AgreeHolds ==
    ASSUME Delivery < AbsentAfter
    PROVE  CallsSpec /\ []FilingsOnRecord => []AgreeInv
<1>1. CallsInit => AgreeInv
  <2> SUFFICES ASSUME CallsInit PROVE AgreeInv
    OBVIOUS
  <2> QED
    BY DEF AgreeInv, CallsInit, Init, MeterInit, Unread
<1>2. (MeterInv /\ HouseInv) /\ FilingsOnRecord /\ AgreeInv /\ [CallsNext]_vars => AgreeInv'
  BY AgreeStep
<1> QED
  BY <1>1, <1>2, InvHolds, PTL DEF CallsSpec

\* A call that is off the House's list is over, and booked at what the gateway booked, or at
\* nothing where a sweep ended its hold: for every set of calls and every order, while the
\* gateway has a record of each call whose filing is open.
THEOREM BooksStayAgreed ==
    ASSUME Delivery < AbsentAfter
    PROVE  CallsSpec /\ []FilingsOnRecord => []BooksAgree
<1>1. (MeterInv /\ HouseInv) /\ AgreeInv => BooksAgree
  <2> SUFFICES ASSUME MeterInv, HouseInv, AgreeInv, NEW c \in Calls \ filed
               PROVE  \/ /\ spend[c] = billed[c]
                         /\ c \notin DOMAIN meter.holds
                         /\ stage[c] # "calling"
                      \/ c \in swept /\ spend[c] = 0
    BY DEF BooksAgree
  <2>1. CASE house[c] = "idle"
    <3>1. stage[c] = "new" /\ spend[c] = 0
      BY <2>1 DEF HouseInv, Asked
    <3> QED
      BY <3>1 DEF MeterInv, RowFits
  <2>2. CASE house[c] # "idle"
    BY <2>2 DEF AgreeInv, Agrees, Over, Out
  <2> QED
    BY <2>1, <2>2
<1> QED
  BY <1>1, AgreeHolds, InvHolds, PTL

\* All that the gateway holds or has booked is in the House's books, but for the overruns it
\* reports and the late costs of swept calls, whatever is lost or given up, while the
\* gateway has a record of each call whose filing is open.
THEOREM BooksCover ==
    ASSUME Delivery < AbsentAfter
    PROVE  CallsSpec /\ []FilingsOnRecord => []HouseCovers
<1>1. (MeterInv /\ HouseInv) /\ AgreeInv => HouseCovers
  BY AgreedIsCovered
<1> QED
  BY <1>1, AgreeHolds, InvHolds, PTL
=============================================================================
