--------------------------- MODULE RealBook_proofs ---------------------------
(***************************************************************************)
(* Proofs about RealBook, for every finite set of orders, every structure  *)
(* and every limit.                                                        *)
(***************************************************************************)
EXTENDS RealBook, Totals

Live == {"pending", "working", "unknown"}

\* What the House may be at.
Doings ==
    {Idle}
    \cup [step : {"count", "post", "wait", "refund", "delete"}, order : Orders]
    \cup [step : {"book"}, order : Orders, units : Nat, was : Live,
          status : Statuses, attempts : Nat]
    \cup [step : {"save"}, order : Orders, status : Statuses, filled : Nat, attempts : Nat]

Legs == [o \in Orders |-> LegCount(o)]

\* A cancel counts the legs of its order.
Minutes == Orders \X (0..Horizon)
CancelLegs == [x \in Minutes |-> LegCount(x[1])]

Rows == [status : Statuses, qty : Nat, filled : Nat, placed : 0..Horizon, attempts : Nat]

Typed ==
    /\ now \in 0..Horizon /\ crashes \in 0..MaxCrashes
    /\ row \in [Orders -> Rows]
    /\ pos \in [Opens -> Nat]
    /\ counted \subseteq Orders /\ looked \subseteq Orders
    /\ cancels \subseteq Minutes /\ deleted \subseteq Minutes
    /\ venue \in [Orders -> [at : Places, filled : Nat]]
    /\ doing \in Doings

CountIs == count = Total(Legs, counted) + Total(CancelLegs, cancels)

\* Where an order is: its row, the venue and the day's count.
Stands(o) ==
    /\ row[o].status = "none" => row[o] = Unsent /\ venue[o].at = "nowhere"
    /\ row[o].status # "none" => row[o].qty > 0
    /\ row[o].placed <= now
    /\ row[o].filled <= venue[o].filled /\ venue[o].filled <= row[o].qty
    /\ venue[o].at \notin {"live", "over"} => venue[o].filled = 0
    /\ venue[o].at = "live" => venue[o].filled < row[o].qty
    /\ venue[o].at = "onway" => now <= row[o].placed + Transit
    /\ venue[o].at \in {"onway", "rejected", "live", "over"} => o \in counted

\* What the House is at agrees with the row and the venue of the order it is about.
Fresh(o) == row[o].status = "pending" /\ row[o].filled = 0 /\ row[o].attempts = 0
InHand ==
    LET o == doing.order IN
    /\ doing.step \in {"count", "post"} =>
         Fresh(o) /\ venue[o].at = "nowhere" /\ row[o].placed = now
    /\ doing.step \in {"post", "wait"} => o \in counted
    /\ doing.step = "wait" => Fresh(o) /\ venue[o].at # "nowhere" /\ now <= row[o].placed + Transit
    /\ doing.step = "refund" => Fresh(o) /\ venue[o].at \in {"nowhere", "never"}
    /\ doing.step = "book" =>
         /\ venue[o].at \in {"live", "over"} /\ row[o].status # "none"
         /\ doing.units \in RowsOf(o) /\ doing.status = StatusOf(o, doing.units)
    /\ doing.step = "save" =>
         doing.filled = row[o].filled /\ row[o].status # "none" /\ doing.status # "none"
    /\ doing.step = "delete" => <<o, now>> \in cancels

BookInv ==
    /\ Typed /\ CountIs /\ InHand
    /\ \A o \in Orders : Stands(o)
    /\ deleted \subseteq cancels
-----------------------------------------------------------------------------
\* The patience of look_up outlasts a request on its way.
Patience == Transit <= LostAfter /\ Transit + 2 <= MaxAttempts

\* How often an order may have been looked up by now.
Tries(o, n) ==
    /\ n <= now - row[o].placed + 1
    /\ o \notin looked /\ now > row[o].placed => n <= now - row[o].placed

\* Nothing more will come of an order with this status, and all that came is in its row.
Gone(o, status) ==
    /\ venue[o].at \notin {"onway", "live"}
    /\ row[o].filled = venue[o].filled
    /\ status \in {"none", "lost", "refused"} => venue[o].at # "over"

\* Orders that are not working are over.
Rested(o) ==
    /\ Tries(o, row[o].attempts) \/ row[o].status = "none"
    /\ ~Working(o) => Gone(o, row[o].status)
Settled ==
    /\ \A o \in Orders : Rested(o)
    /\ doing # Idle => Working(doing.order)
    /\ doing.step \in {"book", "save"} => Tries(doing.order, doing.attempts)
    /\ doing.step = "save" /\ doing.status \notin Live => Gone(doing.order, doing.status)

\* One working order on a contract; a close asks for no more than is held.
Streams ==
    \A o, q \in Orders : o # q /\ Working(o) /\ Working(q) => LegsOf(o) \cap LegsOf(q) = {}
Covered ==
    \A c \in Closes : Working(c) => row[c].qty <= row[c].filled + pos[Target[c]]

Filled == [o \in Orders |-> row[o].filled]
ClosesOf(p) == {c \in Closes : Target[c] = p}
PosIs == \A p \in Opens : pos[p] + Total(Filled, ClosesOf(p)) = row[p].filled

\* Structures held or being opened take one side of a contract they share.
Has(p) == pos[p] > 0 \/ Working(p)
Sides ==
    \A p, q \in Opens : Has(p) /\ Has(q) =>
      \A k \in LegsOf(p) \cap LegsOf(q) : Structure[p][k] = Structure[q][k]

PatientInv == Settled /\ Streams /\ Covered /\ PosIs /\ Sides
-----------------------------------------------------------------------------
\* An order has the legs of its structure, at least one.
LEMMA OrdersHaveLegs ==
    ASSUME NEW o \in Orders
    PROVE  /\ PositionOf(o) \in Opens /\ IsFiniteSet(LegsOf(o)) /\ LegsOf(o) # {}
           /\ LegCount(o) \in Nat /\ Legs[o] = LegCount(o)
<1>1. PositionOf(o) \in Opens
  BY RealBookAssumption DEF Orders, PositionOf
<1>2. IsFiniteSet(LegsOf(o)) /\ LegsOf(o) # {}
  BY <1>1, RealBookAssumption DEF LegsOf
<1> QED
  BY <1>1, <1>2, FS_CardinalityType DEF LegCount, Legs

\* What TypeOK sums is the total of the orders' legs.
LEMMA LegsAddUp ==
    ASSUME NEW S \in SUBSET Orders
    PROVE  IsFiniteSet(S) /\ MapThenSumSet(LegCount, S) = Total(Legs, S)
<1> DEFINE P(g) == g = [s \in SUBSET S |-> IF s = {} THEN 0
                          ELSE LegCount(AnyOf(s)) + g[s \ {AnyOf(s)}]]
           h == CHOOSE g : P(g)
<1>1. MapThenSumSet(LegCount, S) = h[S]
  BY DEF MapThenSumSet, MapThenFoldSet, AnyOf
<1>2. \A s \in SUBSET S : s # {} => LegCount(AnyOf(s)) = Legs[AnyOf(s)]
  BY AnyIn DEF Legs
<1>3. \A g : P(g) <=> Adds(g, Legs, S)
  BY <1>2 DEF Adds
<1>4. IsFiniteSet(S)
  BY RealBookAssumption, FS_Subset
<1>5. \E g : P(g)
  BY <1>3, <1>4, AddsExists
<1>6. P(h)
  <2> HIDE DEF P
  <2> QED
    BY <1>5
<1>7. Adds(h, Legs, S)
  <2> HIDE DEF h, P
  <2> QED
    BY <1>3, <1>6
<1> HIDE DEF h
<1> QED
  BY <1>1, <1>4, <1>7, TotalAdds

\* The count, one order more or one less.
LEMMA LegsChange ==
    ASSUME NEW S \in SUBSET Orders, NEW o \in Orders
    PROVE  /\ Total(Legs, S) \in Nat
           /\ o \notin S => Total(Legs, S \cup {o}) = Total(Legs, S) + LegCount(o)
           /\ o \in S => Total(Legs, S) = LegCount(o) + Total(Legs, S \ {o})
<1>1. IsFiniteSet(S) /\ (\A q \in S \cup {o} : Legs[q] \in Nat)
  BY LegsAddUp, OrdersHaveLegs
<1>0. \A q \in S \cup {o} : Legs[q] \in Int
  BY <1>1
<1>2. Total(Legs, S) \in Int /\ Total(Legs, S) >= 0
  BY <1>1, TotalType
<1>3. o \notin S => Total(Legs, S \cup {o}) = Total(Legs, S) + Legs[o]
  BY <1>0, <1>1, TotalWith
<1>4. o \in S => Total(Legs, S) = Legs[o] + Total(Legs, S \ {o})
  BY <1>1, TotalWithout
<1> QED
  BY <1>2, <1>3, <1>4, OrdersHaveLegs

\* What TypeOK sums over the cancels is the total of their legs.
LEMMA CancelsAddUp ==
    ASSUME NEW S \in SUBSET Minutes
    PROVE  /\ IsFiniteSet(S)
           /\ MapThenSumSet(LAMBDA x : LegCount(x[1]), S) = Total(CancelLegs, S)
<1> DEFINE P(g) == g = [s \in SUBSET S |-> IF s = {} THEN 0
                          ELSE LegCount(AnyOf(s)[1]) + g[s \ {AnyOf(s)}]]
           h == CHOOSE g : P(g)
<1>1. MapThenSumSet(LAMBDA x : LegCount(x[1]), S) = h[S]
  BY DEF MapThenSumSet, MapThenFoldSet, AnyOf
<1>2. \A s \in SUBSET S : s # {} => LegCount(AnyOf(s)[1]) = CancelLegs[AnyOf(s)]
  BY AnyIn DEF CancelLegs
<1>3. \A g : P(g) <=> Adds(g, CancelLegs, S)
  BY <1>2 DEF Adds
<1>4. IsFiniteSet(S)
  <2>1. IsFiniteSet(Minutes)
    <3>1. IsFiniteSet(Orders) /\ Horizon \in Int
      BY RealBookAssumption
    <3>2. IsFiniteSet(0..Horizon)
      BY <3>1, FS_Interval
    <3> QED
      BY <3>1, <3>2, FS_Product DEF Minutes
  <2> QED
    BY <2>1, FS_Subset
<1>5. \E g : P(g)
  BY <1>3, <1>4, AddsExists
<1>6. P(h)
  <2> HIDE DEF P
  <2> QED
    BY <1>5
<1>7. Adds(h, CancelLegs, S)
  <2> HIDE DEF h, P
  <2> QED
    BY <1>3, <1>6
<1> HIDE DEF h
<1> QED
  BY <1>1, <1>4, <1>7, TotalAdds

\* The cancels' legs add up to a number.
LEMMA CancelsNat ==
    ASSUME NEW S \in SUBSET Minutes
    PROVE  /\ IsFiniteSet(S) /\ \A x \in S : CancelLegs[x] \in Nat
           /\ Total(CancelLegs, S) \in Nat
<1>1. \A x \in S : CancelLegs[x] \in Nat /\ CancelLegs[x] \in Int /\ CancelLegs[x] >= 0
  BY OrdersHaveLegs DEF CancelLegs, Minutes
<1>2. IsFiniteSet(S)
  BY CancelsAddUp
<1>3. Total(CancelLegs, S) \in Int /\ Total(CancelLegs, S) >= 0
  BY <1>1, <1>2, TotalType
<1> QED
  BY <1>1, <1>2, <1>3

\* A cancel more.
LEMMA CancelsChange ==
    ASSUME NEW S \in SUBSET Minutes, NEW x \in Minutes, x \notin S
    PROVE  Total(CancelLegs, S \cup {x}) = Total(CancelLegs, S) + LegCount(x[1])
<1>1. S \cup {x} \in SUBSET Minutes
  OBVIOUS
<1>2. IsFiniteSet(S) /\ \A y \in S \cup {x} : CancelLegs[y] \in Int
  <2>1. IsFiniteSet(S)
    BY CancelsNat
  <2>2. \A y \in S \cup {x} : CancelLegs[y] \in Nat
    BY <1>1, CancelsNat
  <2> QED
    BY <2>1, <2>2
<1>3. Total(CancelLegs, S \cup {x}) = Total(CancelLegs, S) + CancelLegs[x]
  BY <1>2, TotalWith
<1> QED
  BY <1>3 DEF CancelLegs

\* An order that is counted adds its legs to the day's count once.
LEMMA CountedOnce ==
    ASSUME Typed, CountIs, NEW o \in Orders, Counted(o), cancels' = cancels
    PROVE  CountIs' /\ counted' = counted \cup {o} /\ counted' \subseteq Orders
<1>1. counted' = counted \cup {o} /\ counted \in SUBSET Orders /\ cancels \in SUBSET Minutes
  BY DEF Counted, Typed
<1>2. CASE o \in counted
  <2>1. counted' = counted /\ count' = count
    BY <1>1, <1>2 DEF Counted
  <2> QED
    BY <1>1, <2>1 DEF CountIs
<1>3. CASE o \notin counted
  <2>1. count' = count + LegCount(o)
    BY <1>3 DEF Counted
  <2>2. Total(Legs, counted') = Total(Legs, counted) + LegCount(o)
    BY <1>1, <1>3, LegsChange
  <2>3. Total(Legs, counted) \in Nat /\ Total(CancelLegs, cancels) \in Nat /\ LegCount(o) \in Nat
    BY <1>1, LegsChange, CancelsNat, OrdersHaveLegs
  <2>4. Total(CancelLegs, cancels') = Total(CancelLegs, cancels)
    OBVIOUS
  <2> QED
    BY <1>1, <2>1, <2>2, <2>3, <2>4 DEF CountIs
<1> QED
  BY <1>2, <1>3

\* What `doing` holds at each step.
LEMMA DoingIs ==
    ASSUME Typed
    PROVE  /\ doing.step \in {"idle", "count", "post", "wait", "refund", "delete", "book", "save"}
           /\ doing.step = "idle" <=> doing = Idle
           /\ doing.step # "idle" => doing.order \in Orders
           /\ doing.step \in {"count", "post", "wait", "refund", "delete"} =>
                doing = [step |-> doing.step, order |-> doing.order]
           /\ doing.step = "book" =>
                /\ doing.units \in Nat /\ doing.was \in Live /\ doing.status \in Statuses
                /\ doing.attempts \in Nat
           /\ doing.step = "save" =>
                /\ doing.filled \in Nat /\ doing.status \in Statuses /\ doing.attempts \in Nat
<1>1. CASE doing = Idle
  BY <1>1 DEF Idle
<1>2. CASE doing \in [step : {"count", "post", "wait", "refund", "delete"}, order : Orders]
  BY <1>2 DEF Idle
<1>3. CASE doing \in [step : {"book"}, order : Orders, units : Nat, was : Live,
                      status : Statuses, attempts : Nat]
  BY <1>3 DEF Idle
<1>4. CASE doing \in [step : {"save"}, order : Orders, status : Statuses, filled : Nat, attempts : Nat]
  BY <1>4 DEF Idle
<1> QED
  BY <1>1, <1>2, <1>3, <1>4 DEF Typed, Doings

\* The order's part of a step that only moves the House on.
LEMMA StandsOn ==
    ASSUME BookInv, UNCHANGED <<now, row, venue>>,
           \A o \in Orders : o \in counted /\ venue[o].at \in {"onway", "rejected", "live", "over"} =>
                            o \in counted'
    PROVE  \A o \in Orders : Stands(o)'
BY DEF BookInv, Stands

\* A placed order (place) keeps the book in order: it has a row before it is counted or sent.
LEMMA PlaceBook ==
    ASSUME BookInv, NEW o \in Orders, NEW qty \in Nat \ {0}, At("idle"), row[o] = Unsent,
           Place(o, qty)
    PROVE  BookInv'
<1> DEFINE new == [status |-> "pending", qty |-> qty, filled |-> 0, placed |-> now, attempts |-> 0]
<1>1. /\ row' = [row EXCEPT ![o] = new] /\ doing' = [step |-> "count", order |-> o]
      /\ UNCHANGED <<now, pos, counted, count, cancels, looked, crashes, venue, deleted>>
  BY DEF Place, market
<1>2. Typed /\ CountIs /\ Stands(o) /\ now \in 0..Horizon /\ now <= now
  BY RealBookAssumption DEF BookInv, Typed
<1>3. new \in Rows
  BY <1>2 DEF Rows, Statuses
<1>4. row' \in [Orders -> Rows] /\ row'[o] = new /\ \A q \in Orders \ {o} : row'[q] = row[q]
  BY <1>1, <1>2, <1>3 DEF Typed
<1>5. doing' \in Doings /\ doing'.step = "count" /\ doing'.order = o
  BY <1>1 DEF Doings
<1>6. Typed' /\ CountIs'
  BY <1>1, <1>2, <1>4, <1>5 DEF Typed, CountIs
<1>7. venue[o].at = "nowhere" /\ venue[o].filled = 0
  BY <1>2 DEF Stands, Unsent
<1>8. \A q \in Orders : Stands(q)'
  <2>1. Stands(o)'
    BY <1>1, <1>2, <1>4, <1>7 DEF Stands
  <2>2. \A q \in Orders \ {o} : Stands(q)'
    BY <1>1, <1>4 DEF Stands, BookInv
  <2> QED
    BY <2>1, <2>2
<1>9. InHand'
  BY <1>1, <1>4, <1>5, <1>7 DEF InHand, Fresh
<1> QED
  BY <1>1, <1>6, <1>8, <1>9 DEF BookInv

\* The count is committed before the order is posted (count_dispatch).
LEMMA CountBook ==
    ASSUME BookInv, CountDispatch
    PROVE  BookInv'
<1>0. PICK o : o = doing.order
  OBVIOUS
<1>1. /\ doing.step = "count" /\ Counted(o) /\ doing' = [doing EXCEPT !.step = "post"]
      /\ UNCHANGED <<now, row, pos, cancels, looked, crashes, venue, deleted>>
  BY <1>0 DEF CountDispatch, At, Goes, market
<1>2. /\ Typed /\ CountIs /\ InHand /\ o \in Orders
      /\ doing' = [step |-> "post", order |-> o]
  BY <1>0, <1>1, DoingIs DEF BookInv
<1>3. CountIs' /\ counted' = counted \cup {o} /\ counted' \subseteq Orders
  BY <1>1, <1>2, CountedOnce
<1>4. doing' \in Doings
  BY <1>2 DEF Doings
<1>5. Typed'
  BY <1>1, <1>2, <1>3, <1>4 DEF Typed
<1>6. \A q \in Orders : Stands(q)'
  BY <1>1, <1>3, StandsOn
<1>7. InHand'
  BY <1>0, <1>1, <1>2, <1>3 DEF InHand, Fresh
<1> QED
  BY <1>1, <1>3, <1>5, <1>6, <1>7 DEF BookInv

\* A post goes out counted, or is refused without being sent.
LEMMA PostBook ==
    ASSUME BookInv, Post
    PROVE  BookInv'
<1>0. PICK o : o = doing.order
  OBVIOUS
<1>1. /\ doing.step = "post"
      /\ UNCHANGED <<now, row, pos, counted, count, cancels, looked, crashes, deleted>>
      /\ \/ /\ venue' = [venue EXCEPT ![o].at = "onway"]
            /\ doing' = [doing EXCEPT !.step = "wait"]
         \/ doing' = [step |-> "refund", order |-> o] /\ venue' = venue
  BY <1>0 DEF Post, At, Goes, book
<1>2. /\ Typed /\ CountIs /\ InHand /\ o \in Orders /\ doing = [step |-> "post", order |-> o]
  BY <1>0, <1>1, DoingIs DEF BookInv
<1>3. Fresh(o) /\ venue[o].at = "nowhere" /\ row[o].placed = now /\ o \in counted
  BY <1>0, <1>1, <1>2 DEF InHand
<1>4. CASE doing' = [step |-> "refund", order |-> o] /\ venue' = venue
  <2>1. Typed' /\ CountIs'
    BY <1>1, <1>2, <1>4 DEF Typed, Doings, CountIs
  <2>2. InHand'
    BY <1>0, <1>1, <1>3, <1>4 DEF InHand, Fresh
  <2>3. \A q \in Orders : Stands(q)'
    BY <1>1, <1>4, StandsOn
  <2> QED
    BY <1>1, <2>1, <2>2, <2>3 DEF BookInv
<1>5. CASE venue' = [venue EXCEPT ![o].at = "onway"] /\ doing' = [doing EXCEPT !.step = "wait"]
  <2>0. doing' = [step |-> "wait", order |-> o]
    BY <1>2, <1>5
  <2>1. /\ venue' \in [Orders -> [at : Places, filled : Nat]]
        /\ venue'[o].at = "onway" /\ venue'[o].filled = venue[o].filled
        /\ \A q \in Orders \ {o} : venue'[q] = venue[q]
    BY <1>2, <1>5 DEF Typed, Places
  <2>2. Typed' /\ CountIs'
    BY <1>1, <1>2, <2>0, <2>1 DEF Typed, Doings, CountIs
  <2>3. now <= row[o].placed + Transit
    BY <1>2, <1>3, RealBookAssumption DEF Typed
  <2>4. InHand'
    BY <1>0, <1>1, <1>3, <2>0, <2>1, <2>3 DEF InHand, Fresh
  <2>5. Stands(o)'
    <3>1. Stands(o)
      BY <1>2 DEF BookInv
    <3> QED
      BY <1>1, <1>3, <2>1, <2>3, <3>1 DEF Stands, Fresh
  <2>6. \A q \in Orders \ {o} : Stands(q)'
    <3>1. \A q \in Orders : Stands(q)
      BY DEF BookInv
    <3>2. ASSUME NEW q \in Orders \ {o} PROVE Stands(q)'
      <4>1. Stands(q) /\ venue'[q] = venue[q]
        BY <2>1, <3>1
      <4> QED
        BY <1>1, <4>1 DEF Stands
    <3> QED
      BY <3>2
  <2> QED
    BY <1>1, <2>2, <2>4, <2>5, <2>6 DEF BookInv
<1> QED
  BY <1>1, <1>4, <1>5

\* A row in hand, to be booked.
LEMMA AbsorbBook ==
    ASSUME BookInv, NEW o \in Orders, row[o].status # "none", venue[o].at \in {"live", "over"},
           NEW units \in RowsOf(o), NEW was \in Live, NEW attempts \in Nat,
           Absorbs(o, units, was, attempts), looked' \subseteq Orders,
           UNCHANGED <<now, row, pos, counted, count, cancels, crashes, venue, deleted>>
    PROVE  BookInv'
<1>1. doing' = [step |-> "book", order |-> o, units |-> units, was |-> was,
                status |-> StatusOf(o, units), attempts |-> attempts]
  BY DEF Absorbs
<1>2. units \in Nat /\ StatusOf(o, units) \in Statuses
  BY DEF RowsOf, StatusOf, Statuses, BookInv, Typed
<1>3. Typed' /\ CountIs'
  BY <1>1, <1>2 DEF BookInv, Typed, Doings, CountIs
<1>4. InHand'
  BY <1>1 DEF InHand, RowsOf, StatusOf
<1>5. \A q \in Orders : Stands(q)'
  BY StandsOn
<1> QED
  BY <1>3, <1>4, <1>5 DEF BookInv

\* A status to be saved.
LEMMA SavesBook ==
    ASSUME BookInv, NEW o \in Orders, row[o].status # "none",
           NEW status \in Statuses \ {"none"}, NEW attempts \in Nat,
           Saves(o, status, row[o].filled, attempts), looked' \subseteq Orders,
           UNCHANGED <<now, row, pos, counted, count, cancels, crashes, venue, deleted>>
    PROVE  BookInv'
<1>1. doing' = [step |-> "save", order |-> o, status |-> status, filled |-> row[o].filled,
                attempts |-> attempts]
  BY DEF Saves
<1>2. Typed' /\ CountIs'
  BY <1>1 DEF BookInv, Typed, Doings, CountIs, Rows
<1>3. InHand'
  BY <1>1 DEF InHand
<1>4. \A q \in Orders : Stands(q)'
  BY StandsOn
<1> QED
  BY <1>2, <1>3, <1>4 DEF BookInv

\* An answer tells what the venue or the gateway made of the post.
LEMMA AnsweredBook ==
    ASSUME BookInv, Answered
    PROVE  BookInv'
<1>0. PICK o : o = doing.order
  OBVIOUS
<1>1. /\ doing.step = "wait"
      /\ UNCHANGED <<now, row, pos, counted, count, cancels, looked, crashes, venue, deleted>>
      /\ \/ venue[o].at \in {"live", "over"} /\ \E units \in RowsOf(o) : Absorbs(o, units, "working", 1)
         \/ Saves(o, "unknown", 0, 1)
         \/ Saves(o, "rejected", 0, 1)
         \/ venue[o].at = "never" /\ doing' = [step |-> "refund", order |-> o]
  BY <1>0 DEF Answered, At, book, market
<1>2. /\ Typed /\ CountIs /\ InHand /\ o \in Orders /\ looked \subseteq Orders
  BY <1>0, <1>1, DoingIs DEF BookInv, Typed
<1>3. Fresh(o) /\ row[o].status # "none" /\ row[o].filled = 0
  BY <1>0, <1>1, <1>2 DEF InHand, Fresh
<1>4. CASE venue[o].at \in {"live", "over"} /\ \E units \in RowsOf(o) : Absorbs(o, units, "working", 1)
  BY <1>1, <1>2, <1>3, <1>4, AbsorbBook DEF Live
<1>5. CASE Saves(o, "unknown", 0, 1) \/ Saves(o, "rejected", 0, 1)
  BY <1>1, <1>2, <1>3, <1>5, SavesBook DEF Statuses
<1>6. CASE venue[o].at = "never" /\ doing' = [step |-> "refund", order |-> o]
  <2>1. Typed' /\ CountIs'
    BY <1>1, <1>2, <1>6 DEF Typed, Doings, CountIs
  <2>2. InHand'
    BY <1>0, <1>1, <1>3, <1>6 DEF InHand, Fresh
  <2>3. \A q \in Orders : Stands(q)'
    BY <1>1, StandsOn
  <2> QED
    BY <1>1, <2>1, <2>2, <2>3 DEF BookInv
<1> QED
  BY <1>1, <1>4, <1>5, <1>6

\* A refund takes the order off the count at most once, and only where nothing reached the venue.
LEMMA RefundBook ==
    ASSUME BookInv, Refund
    PROVE  BookInv'
<1>0. PICK o : o = doing.order
  OBVIOUS
<1>1. /\ doing.step = "refund" /\ counted' = counted \ {o}
      /\ count' = (IF o \in counted THEN count - LegCount(o) ELSE count)
      /\ doing' = [step |-> "save", order |-> o, status |-> "refused", filled |-> 0, attempts |-> 1]
      /\ UNCHANGED <<now, row, pos, cancels, looked, crashes, venue, deleted>>
  BY <1>0 DEF Refund, At, Saves, market
<1>2. /\ Typed /\ CountIs /\ InHand /\ o \in Orders
      /\ counted \in SUBSET Orders /\ cancels \in SUBSET Minutes
  BY <1>0, <1>1, DoingIs DEF BookInv, Typed
<1>3. Fresh(o) /\ venue[o].at \in {"nowhere", "never"} /\ row[o].status # "none" /\ row[o].filled = 0
  BY <1>0, <1>1, <1>2 DEF InHand, Fresh
<1>4. CountIs'
  <2>1. CASE o \in counted
    <3>1. Total(Legs, counted) = LegCount(o) + Total(Legs, counted')
      BY <1>1, <1>2, <2>1, LegsChange
    <3>2. Total(Legs, counted') \in Nat /\ Total(CancelLegs, cancels) \in Nat /\ LegCount(o) \in Nat
      BY <1>1, <1>2, LegsChange, CancelsNat, OrdersHaveLegs
    <3> QED
      BY <1>1, <1>2, <2>1, <3>1, <3>2 DEF CountIs
  <2>2. CASE o \notin counted
    <3>1. counted' = counted
      BY <1>1, <2>2
    <3> QED
      BY <1>1, <1>2, <2>2, <3>1 DEF CountIs
  <2> QED
    BY <2>1, <2>2
<1>5. Typed'
  BY <1>1, <1>2 DEF Typed, Doings, Statuses
<1>6. InHand'
  BY <1>0, <1>1, <1>3 DEF InHand
<1>7. \A q \in Orders : Stands(q)'
  BY <1>1, <1>3, StandsOn
<1> QED
  BY <1>1, <1>4, <1>5, <1>6, <1>7 DEF BookInv

\* What a commit leaves in a row: _save_order's, and then _absorb's.
Saved(o, status, filled, attempts) ==
    row' = [row EXCEPT ![o].status = status, ![o].filled = filled, ![o].attempts = attempts]
\* A saved row changes one order and keeps its size and its minute.
LEMMA RowSaved ==
    ASSUME row \in [Orders -> Rows], NEW o \in Orders, NEW status \in Statuses, NEW filled \in Nat,
           NEW attempts \in Nat, Saved(o, status, filled, attempts)
    PROVE  /\ row' \in [Orders -> Rows]
           /\ row'[o].status = status /\ row'[o].filled = filled /\ row'[o].attempts = attempts
           /\ row'[o].qty = row[o].qty /\ row'[o].placed = row[o].placed
           /\ \A q \in Orders \ {o} : row'[q] = row[q]
<1>1. PICK s \in Statuses, q \in Nat, f \in Nat, p \in 0..Horizon, a \in Nat :
        row[o] = [status |-> s, qty |-> q, filled |-> f, placed |-> p, attempts |-> a]
  <2>1. row[o] \in Rows
    OBVIOUS
  <2> QED
    BY <2>1 DEF Rows
<1>2. [[status |-> s, qty |-> q, filled |-> f, placed |-> p, attempts |-> a] EXCEPT !.status = status] =
        [status |-> status, qty |-> q, filled |-> f, placed |-> p, attempts |-> a]
  OBVIOUS
<1>3. [[status |-> status, qty |-> q, filled |-> f, placed |-> p, attempts |-> a] EXCEPT !.filled = filled] =
        [status |-> status, qty |-> q, filled |-> filled, placed |-> p, attempts |-> a]
  OBVIOUS
<1>4. [[status |-> status, qty |-> q, filled |-> filled, placed |-> p, attempts |-> a] EXCEPT !.attempts = attempts] =
        [status |-> status, qty |-> q, filled |-> filled, placed |-> p, attempts |-> attempts]
  OBVIOUS
<1> DEFINE new == [status |-> status, qty |-> q, filled |-> filled, placed |-> p, attempts |-> attempts]
<1>5. row' = [row EXCEPT ![o] = new]
  <2>1. row' = [row EXCEPT ![o] = [[[row[o] EXCEPT !.status = status] EXCEPT !.filled = filled] EXCEPT !.attempts = attempts]]
    BY DEF Saved
  <2> QED
    BY <1>1, <1>2, <1>3, <1>4, <2>1
<1>6. /\ new.status = status /\ new.filled = filled /\ new.attempts = attempts
      /\ new.qty = q /\ new.placed = p /\ new \in Rows
  BY DEF Rows
<1>7. row[o].qty = q /\ row[o].placed = p
  BY <1>1
<1> HIDE DEF new
<1>8. row'[o] = new /\ (\A x \in Orders \ {o} : row'[x] = row[x]) /\ row' \in [Orders -> Rows]
  BY <1>5, <1>6
<1> QED
  BY <1>6, <1>7, <1>8

BookedRow(o, status, filled, attempts) ==
    row' = [row EXCEPT ![o].filled = filled, ![o].status = status, ![o].attempts = attempts]
\* So does a booked row.
LEMMA RowBooked ==
    ASSUME row \in [Orders -> Rows], NEW o \in Orders, NEW status \in Statuses, NEW filled \in Nat,
           NEW attempts \in Nat, BookedRow(o, status, filled, attempts)
    PROVE  /\ row' \in [Orders -> Rows]
           /\ row'[o].status = status /\ row'[o].filled = filled /\ row'[o].attempts = attempts
           /\ row'[o].qty = row[o].qty /\ row'[o].placed = row[o].placed
           /\ \A q \in Orders \ {o} : row'[q] = row[q]
<1>1. PICK s \in Statuses, q \in Nat, f \in Nat, p \in 0..Horizon, a \in Nat :
        row[o] = [status |-> s, qty |-> q, filled |-> f, placed |-> p, attempts |-> a]
  <2>1. row[o] \in Rows
    OBVIOUS
  <2> QED
    BY <2>1 DEF Rows
<1>2. [[status |-> s, qty |-> q, filled |-> f, placed |-> p, attempts |-> a] EXCEPT !.filled = filled] =
        [status |-> s, qty |-> q, filled |-> filled, placed |-> p, attempts |-> a]
  OBVIOUS
<1>3. [[status |-> s, qty |-> q, filled |-> filled, placed |-> p, attempts |-> a] EXCEPT !.status = status] =
        [status |-> status, qty |-> q, filled |-> filled, placed |-> p, attempts |-> a]
  OBVIOUS
<1>4. [[status |-> status, qty |-> q, filled |-> filled, placed |-> p, attempts |-> a] EXCEPT !.attempts = attempts] =
        [status |-> status, qty |-> q, filled |-> filled, placed |-> p, attempts |-> attempts]
  OBVIOUS
<1> DEFINE new == [status |-> status, qty |-> q, filled |-> filled, placed |-> p, attempts |-> attempts]
<1>5. row' = [row EXCEPT ![o] = new]
  <2>1. row' = [row EXCEPT ![o] = [[[row[o] EXCEPT !.filled = filled] EXCEPT !.status = status] EXCEPT !.attempts = attempts]]
    BY DEF BookedRow
  <2> QED
    BY <1>1, <1>2, <1>3, <1>4, <2>1
<1>6. /\ new.status = status /\ new.filled = filled /\ new.attempts = attempts
      /\ new.qty = q /\ new.placed = p /\ new \in Rows
  BY DEF Rows
<1>7. row[o].qty = q /\ row[o].placed = p
  BY <1>1
<1> HIDE DEF new
<1>8. row'[o] = new /\ (\A x \in Orders \ {o} : row'[x] = row[x]) /\ row' \in [Orders -> Rows]
  BY <1>5, <1>6
<1> QED
  BY <1>6, <1>7, <1>8

\* The order's part of a commit to its row.
LEMMA StandsSaved ==
    ASSUME BookInv, NEW o \in Orders, row[o].status # "none", row'[o].status # "none",
           row'[o].qty = row[o].qty, row'[o].placed = row[o].placed,
           row'[o].filled <= venue[o].filled,
           \A q \in Orders \ {o} : row'[q] = row[q],
           UNCHANGED <<now, venue>>, counted \subseteq counted'
    PROVE  \A q \in Orders : Stands(q)'
<1>1. \A q \in Orders : Stands(q)
  BY DEF BookInv
<1>2. Stands(o)'
  <2>1. Stands(o)
    BY <1>1
  <2> QED
    BY <2>1 DEF Stands
<1>3. ASSUME NEW q \in Orders \ {o} PROVE Stands(q)'
  <2>1. Stands(q) /\ row'[q] = row[q]
    BY <1>1
  <2> QED
    BY <2>1 DEF Stands
<1> QED
  BY <1>2, <1>3

\* The units a row in hand adds.
LEMMA UnitsAdd ==
    ASSUME BookInv, doing.step = "book"
    PROVE  LET o == doing.order
               filled == Larger(doing.units, row[o].filled)
           IN  /\ filled \in Nat /\ filled - row[o].filled \in Nat
               /\ row[o].filled <= filled /\ filled <= venue[o].filled
<1>0. PICK o : o = doing.order
  OBVIOUS
<1>1. o \in Orders /\ doing.units \in Nat
  BY <1>0, DoingIs DEF BookInv
<1>2. Stands(o) /\ doing.units \in RowsOf(o)
  BY <1>0, <1>1 DEF BookInv, InHand
<1>3. row[o].filled \in Nat /\ venue[o].filled \in Nat
  BY <1>1 DEF BookInv, Typed, Rows
<1>4. doing.units <= venue[o].filled /\ row[o].filled <= venue[o].filled
  BY <1>2, <1>3 DEF RowsOf, Stands
<1> QED
  BY <1>0, <1>1, <1>3, <1>4 DEF Larger

\* What _absorb's commit makes of the row in hand.
LEMMA BookMakes ==
    ASSUME BookInv, Book, NEW o, o = doing.order, NEW f, f = Larger(doing.units, row[o].filled)
    PROVE  /\ o \in Orders /\ doing.step = "book" /\ Counted(o) /\ Booked(o, f - row[o].filled)
           /\ f \in Nat /\ f - row[o].filled \in Nat /\ f <= venue[o].filled
           /\ doing' = [step |-> "save", order |-> o, status |-> doing.status, filled |-> f,
                        attempts |-> doing.attempts]
           /\ doing.units \in RowsOf(o) /\ doing.status = StatusOf(o, doing.units)
           /\ doing.attempts \in Nat /\ doing.status \in Statuses
           /\ row[o].status # "none"
           /\ row' \in [Orders -> Rows] /\ row'[o].filled = f
           /\ \/ row'[o].status = row[o].status /\ row'[o].attempts = row[o].attempts
              \/ row'[o].status = doing.was /\ row'[o].attempts = doing.attempts
           /\ doing.was \in Live
           /\ row'[o].qty = row[o].qty /\ row'[o].placed = row[o].placed
           /\ \A q \in Orders \ {o} : row'[q] = row[q]
           /\ UNCHANGED <<now, cancels, looked, crashes, venue, deleted>>
<1>1. /\ doing.step = "book" /\ Counted(o)
      /\ Booked(o, f - row[o].filled)
      /\ row' = IF f = row[o].filled THEN row
                ELSE [row EXCEPT ![o].filled = f, ![o].status = doing.was, ![o].attempts = doing.attempts]
      /\ doing' = [step |-> "save", order |-> o, status |-> doing.status, filled |-> f,
                   attempts |-> doing.attempts]
      /\ UNCHANGED <<now, cancels, looked, crashes, venue, deleted>>
  BY DEF Book, At, Saves, market
<1>2. /\ InHand /\ o \in Orders /\ row \in [Orders -> Rows]
      /\ doing.was \in Live /\ doing.attempts \in Nat /\ doing.status \in Statuses
  BY <1>1, DoingIs DEF BookInv, Typed
<1>3. f \in Nat /\ f - row[o].filled \in Nat /\ f <= venue[o].filled
  BY <1>1, UnitsAdd
<1>4. row[o].status # "none" /\ doing.units \in RowsOf(o) /\ doing.status = StatusOf(o, doing.units)
  BY <1>1, <1>2 DEF InHand
<1>5. CASE f = row[o].filled
  <2>1. row' = row
    BY <1>1, <1>5
  <2> QED
    BY <1>1, <1>2, <1>3, <1>4, <1>5, <2>1
<1>6. CASE f # row[o].filled
  <2>1. BookedRow(o, doing.was, f, doing.attempts)
    BY <1>1, <1>6 DEF BookedRow
  <2>2. doing.was \in Statuses
    BY <1>2 DEF Live, Statuses
  <2>3. /\ row' \in [Orders -> Rows] /\ row'[o].status = doing.was /\ row'[o].filled = f
        /\ row'[o].attempts = doing.attempts /\ row'[o].qty = row[o].qty /\ row'[o].placed = row[o].placed
        /\ \A q \in Orders \ {o} : row'[q] = row[q]
    BY <1>2, <1>3, <2>1, <2>2, RowBooked
  <2> QED
    BY <1>1, <1>2, <1>3, <1>4, <2>3
<1> QED
  BY <1>5, <1>6

\* The units booked are those read, and no more than were filled.
LEMMA BookBook ==
    ASSUME BookInv, Book
    PROVE  BookInv'
<1>0. PICK o : o = doing.order
  OBVIOUS
<1>1. PICK f : f = Larger(doing.units, row[o].filled)
  OBVIOUS
<1>2. /\ o \in Orders /\ Counted(o) /\ Booked(o, f - row[o].filled)
      /\ f \in Nat /\ f - row[o].filled \in Nat /\ f <= venue[o].filled
      /\ doing' = [step |-> "save", order |-> o, status |-> doing.status, filled |-> f,
                   attempts |-> doing.attempts]
      /\ doing.status = StatusOf(o, doing.units) /\ doing.attempts \in Nat /\ doing.status \in Statuses
      /\ row[o].status # "none"
      /\ UNCHANGED <<now, cancels, looked, crashes, venue, deleted>>
  BY <1>0, <1>1, BookMakes
<1>3. Typed /\ CountIs /\ row \in [Orders -> Rows] /\ pos \in [Opens -> Nat]
  BY DEF BookInv, Typed
<1>4. doing.status # "none"
  BY <1>2 DEF StatusOf
<1>5. /\ row' \in [Orders -> Rows] /\ row'[o].status # "none" /\ row'[o].filled = f
      /\ row'[o].qty = row[o].qty /\ row'[o].placed = row[o].placed
      /\ \A q \in Orders \ {o} : row'[q] = row[q]
  <2>1. \A s \in Live : s # "none"
    BY DEF Live
  <2> QED
    BY <1>0, <1>1, <1>2, <2>1, BookMakes
<1>6. CountIs' /\ counted \subseteq counted' /\ counted' \subseteq Orders
  BY <1>2, <1>3, CountedOnce
<1>8. pos' \in [Opens -> Nat]
  <2>1. PositionOf(o) \in Opens /\ pos[PositionOf(o)] \in Nat
    BY <1>2, <1>3, OrdersHaveLegs
  <2>2. CASE o \in Opens
    BY <1>2, <1>3, <2>1, <2>2 DEF Booked
  <2>3. CASE o \notin Opens
    <3>1. pos[PositionOf(o)] - Lesser(f - row[o].filled, pos[PositionOf(o)]) \in Nat
      BY <1>2, <2>1 DEF Lesser
    <3> QED
      BY <1>2, <1>3, <2>3, <3>1 DEF Booked
  <2> QED
    BY <2>2, <2>3
<1>9. doing' \in Doings
  BY <1>2 DEF Doings
<1>10. Typed'
  BY <1>2, <1>3, <1>5, <1>6, <1>8, <1>9 DEF Typed
<1>11. InHand'
  BY <1>2, <1>4, <1>5 DEF InHand
<1>12. \A q \in Orders : Stands(q)'
  BY <1>2, <1>3, <1>5, <1>6, StandsSaved
<1>13. deleted' \subseteq cancels'
  BY <1>2 DEF BookInv
<1> QED
  BY <1>6, <1>10, <1>11, <1>12, <1>13 DEF BookInv

\* A saved status keeps the fills of its row.
LEMMA SaveBook ==
    ASSUME BookInv, Save
    PROVE  BookInv'
<1>0. PICK o : o = doing.order
  OBVIOUS
<1>1. /\ doing.step = "save" /\ doing' = Idle
      /\ row' = [row EXCEPT ![o].status = doing.status, ![o].filled = doing.filled,
                            ![o].attempts = doing.attempts]
      /\ UNCHANGED <<now, pos, counted, count, cancels, looked, crashes, venue, deleted>>
  BY <1>0 DEF Save, At, Rests, market
<1>2. /\ Typed /\ CountIs /\ InHand /\ o \in Orders /\ row \in [Orders -> Rows]
      /\ doing.filled \in Nat /\ doing.status \in Statuses /\ doing.attempts \in Nat
  BY <1>0, <1>1, DoingIs DEF BookInv, Typed
<1>3. doing.filled = row[o].filled /\ doing.status # "none" /\ row[o].status # "none"
  BY <1>0, <1>1, <1>2 DEF InHand
<1>4. /\ row' \in [Orders -> Rows] /\ row'[o].status # "none" /\ row'[o].filled = row[o].filled
      /\ row'[o].qty = row[o].qty /\ row'[o].placed = row[o].placed
      /\ \A q \in Orders \ {o} : row'[q] = row[q]
  <2>1. Saved(o, doing.status, doing.filled, doing.attempts)
    BY <1>1 DEF Saved
  <2> QED
    BY <1>2, <1>3, <2>1, RowSaved
<1>5. Typed' /\ CountIs'
  BY <1>1, <1>2, <1>4 DEF Typed, CountIs, Doings
<1>6. InHand'
  BY <1>1 DEF InHand, Idle
<1>7. row[o].filled <= venue[o].filled
  BY <1>2 DEF BookInv, Stands
<1>8. \A q \in Orders : Stands(q)'
  BY <1>1, <1>2, <1>3, <1>4, <1>7, StandsSaved
<1>9. deleted' \subseteq cancels'
  BY <1>1 DEF BookInv
<1> QED
  BY <1>5, <1>6, <1>8, <1>9 DEF BookInv

\* A cancel is counted before it is sent.
LEMMA CancelBook ==
    ASSUME BookInv, NEW o \in Orders, Cancel(o)
    PROVE  BookInv'
<1>1. /\ <<o, now>> \notin cancels /\ cancels' = cancels \cup {<<o, now>>} /\ count' = count + LegCount(o)
      /\ doing' = [step |-> "delete", order |-> o]
      /\ UNCHANGED <<now, row, pos, counted, looked, crashes, venue, deleted>>
  BY DEF Cancel, market
<1>2. Typed /\ CountIs /\ counted \in SUBSET Orders /\ cancels \in SUBSET Minutes
      /\ <<o, now>> \in Minutes
  BY DEF BookInv, Typed, Minutes
<1>3. CountIs'
  <2>1. Total(CancelLegs, cancels') = Total(CancelLegs, cancels) + LegCount(o)
    <3>1. Total(CancelLegs, cancels') = Total(CancelLegs, cancels) + LegCount(<<o, now>>[1])
      BY <1>1, <1>2, CancelsChange
    <3> QED
      BY <3>1
  <2>2. Total(Legs, counted) \in Nat /\ Total(CancelLegs, cancels) \in Nat /\ LegCount(o) \in Nat
    BY <1>2, LegsChange, CancelsNat, OrdersHaveLegs
  <2>3. Total(Legs, counted') = Total(Legs, counted)
    BY <1>1
  <2> QED
    BY <1>1, <1>2, <2>1, <2>2, <2>3 DEF CountIs
<1>4. Typed'
  BY <1>1, <1>2 DEF Typed, Doings
<1>5. InHand'
  BY <1>1 DEF InHand
<1>6. \A q \in Orders : Stands(q)'
  BY <1>1, StandsOn
<1>7. deleted' \subseteq cancels'
  BY <1>1 DEF BookInv
<1> QED
  BY <1>3, <1>4, <1>5, <1>6, <1>7 DEF BookInv

\* A move of the venue.
LEMMA VenueStands ==
    ASSUME BookInv, NEW o \in Orders, NEW at \in Places, NEW n \in Nat,
           venue' = [venue EXCEPT ![o] = [at |-> at, filled |-> n]],
           venue[o].at # "nowhere", row[o].filled <= n, n <= row[o].qty,
           at \notin {"live", "over"} => n = 0, at = "live" => n < row[o].qty,
           at # "onway", at \in {"rejected", "live", "over"} => o \in counted,
           UNCHANGED <<now, row, counted>>
    PROVE  /\ venue' \in [Orders -> [at : Places, filled : Nat]]
           /\ venue'[o] = [at |-> at, filled |-> n] /\ \A q \in Orders \ {o} : venue'[q] = venue[q]
           /\ \A q \in Orders : Stands(q)'
<1>0. \A q \in Orders : Stands(q)
  BY DEF BookInv
<1>1. /\ venue' \in [Orders -> [at : Places, filled : Nat]]
      /\ venue'[o] = [at |-> at, filled |-> n] /\ \A q \in Orders \ {o} : venue'[q] = venue[q]
  BY DEF BookInv, Typed
<1>2. Stands(o)'
  <2>1. Stands(o)
    BY <1>0
  <2> QED
    BY <1>1, <2>1 DEF Stands
<1>3. ASSUME NEW q \in Orders \ {o} PROVE Stands(q)'
  <2>1. Stands(q) /\ venue'[q] = venue[q]
    BY <1>0, <1>1
  <2> QED
    BY <2>1 DEF Stands
<1> QED
  BY <1>1, <1>2, <1>3

\* Reading the list of orders reads no more than was filled.
LEMMA ReadListBook ==
    ASSUME BookInv, NEW o \in Orders, ReadList(o)
    PROVE  BookInv'
<1>1. /\ venue[o].at \in {"live", "over"}
      /\ Working(o) \/ row[o].status \in {"lost", "refused"}
      /\ UNCHANGED <<now, row, pos, counted, count, cancels, looked, crashes, venue, deleted>>
  BY DEF ReadList, book, market
<1>2. PICK units \in RowsOf(o), was \in Live : Absorbs(o, units, was, row[o].attempts)
  <2>1. (IF Working(o) THEN row[o].status ELSE "working") \in Live
    BY DEF Working, Live
  <2> QED
    BY <2>1 DEF ReadList
<1>3. row[o].status # "none" /\ row[o].attempts \in Nat /\ looked' \subseteq Orders
  BY <1>1 DEF Working, BookInv, Typed, Rows
<1> QED
  BY <1>1, <1>2, <1>3, AbsorbBook

\* So does looking an order up.
LEMMA LookUpBook ==
    ASSUME BookInv, NEW o \in Orders, LookUp(o)
    PROVE  BookInv'
<1>1. /\ row[o].status \in {"pending", "unknown"} /\ looked' = looked \cup {o}
      /\ UNCHANGED <<now, row, pos, counted, count, cancels, crashes, venue, deleted>>
      /\ \/ Saves(o, IF GivenUp(o) THEN "lost" ELSE row[o].status, row[o].filled, row[o].attempts + 1)
         \/ venue[o].at \in {"live", "over"}
            /\ \E units \in RowsOf(o) : Absorbs(o, units, row[o].status, row[o].attempts)
  BY DEF LookUp, book, market
<1>2. /\ row[o].status # "none" /\ row[o].attempts \in Nat /\ looked' \subseteq Orders
      /\ row[o].attempts + 1 \in Nat /\ row[o].status \in Live
  BY <1>1 DEF BookInv, Typed, Rows, Live
<1>3. CASE Saves(o, IF GivenUp(o) THEN "lost" ELSE row[o].status, row[o].filled, row[o].attempts + 1)
  <2>1. PICK status \in Statuses \ {"none"} : Saves(o, status, row[o].filled, row[o].attempts + 1)
    <3>1. (IF GivenUp(o) THEN "lost" ELSE row[o].status) \in Statuses \ {"none"}
      BY <1>1 DEF Statuses
    <3> QED
      BY <1>3, <3>1
  <2> QED
    BY <1>1, <1>2, <2>1, SavesBook
<1>4. CASE venue[o].at \in {"live", "over"}
           /\ \E units \in RowsOf(o) : Absorbs(o, units, row[o].status, row[o].attempts)
  BY <1>1, <1>2, <1>4, AbsorbBook
<1> QED
  BY <1>1, <1>3, <1>4

\* A delete goes out counted, and ends at most an order that is live.
LEMMA DeleteBook ==
    ASSUME BookInv, Delete
    PROVE  BookInv'
<1>0. PICK o : o = doing.order
  OBVIOUS
<1>1. /\ doing.step = "delete" /\ deleted' = deleted \cup {<<o, now>>} /\ doing' = Idle
      /\ UNCHANGED <<now, row, pos, counted, count, cancels, looked, crashes>>
      /\ \/ venue[o].at = "live" /\ venue' = [venue EXCEPT ![o].at = "over"]
         \/ venue' = venue
  BY <1>0 DEF Delete, At, Rests, book
<1>2. /\ Typed /\ CountIs /\ InHand /\ o \in Orders
  BY <1>0, <1>1, DoingIs DEF BookInv
<1>3. <<o, now>> \in cancels /\ cancels \subseteq Minutes
  BY <1>0, <1>1, <1>2 DEF InHand, Typed
<1>4. venue' \in [Orders -> [at : Places, filled : Nat]] /\ \A q \in Orders : Stands(q)'
  <2>1. CASE venue' = venue
    BY <1>1, <1>2, <2>1, StandsOn DEF Typed
  <2>2. CASE venue[o].at = "live" /\ venue' = [venue EXCEPT ![o].at = "over"]
    <3>1. venue[o].filled \in Nat /\ venue' = [venue EXCEPT ![o] = [at |-> "over", filled |-> venue[o].filled]]
      <4>1. venue \in [Orders -> [at : Places, filled : Nat]]
        BY <1>2 DEF Typed
      <4>2. venue[o] \in [at : Places, filled : Nat]
        BY <1>2, <4>1
      <4>3. [venue[o] EXCEPT !.at = "over"] = [at |-> "over", filled |-> venue[o].filled]
        BY <4>2
      <4> QED
        BY <2>2, <4>2, <4>3
    <3>2. Stands(o) /\ "over" \in Places
      BY <1>2 DEF BookInv, Places
    <3>3. row[o].filled <= venue[o].filled /\ venue[o].filled <= row[o].qty /\ o \in counted
      BY <2>2, <3>2 DEF Stands
    <3> QED
      BY <1>1, <1>2, <2>2, <3>1, <3>2, <3>3, VenueStands
  <2> QED
    BY <1>1, <2>1, <2>2
<1>5. Typed' /\ CountIs'
  BY <1>1, <1>2, <1>3, <1>4 DEF Typed, CountIs, Doings
<1>6. InHand'
  BY <1>1 DEF InHand, Idle
<1>7. deleted' \subseteq cancels'
  BY <1>1, <1>3 DEF BookInv
<1> QED
  BY <1>4, <1>5, <1>6, <1>7 DEF BookInv

\* A move of the venue, which the House does not see.
LEMMA VenueBook ==
    ASSUME BookInv, NEW o \in Orders, NEW at \in Places, NEW n \in Nat,
           venue' = [venue EXCEPT ![o] = [at |-> at, filled |-> n]],
           venue[o].at # "nowhere", row[o].filled <= n, n <= row[o].qty,
           at \notin {"live", "over"} => n = 0, at = "live" => n < row[o].qty,
           at # "onway", at # "nowhere", at \in {"rejected", "live", "over"} => o \in counted,
           VenueMay, UNCHANGED <<now, book, house, deleted>>
    PROVE  BookInv'
<1>1. UNCHANGED <<now, row, pos, counted, count, cancels, doing, looked, crashes, deleted>>
  BY DEF book, house
<1>2. /\ venue' \in [Orders -> [at : Places, filled : Nat]]
      /\ venue'[o] = [at |-> at, filled |-> n] /\ \A q \in Orders \ {o} : venue'[q] = venue[q]
      /\ \A q \in Orders : Stands(q)'
  BY <1>1, VenueStands
<1>3. Typed /\ CountIs /\ InHand /\ deleted \subseteq cancels /\ doing.step \in {"idle", "wait"}
  BY DEF BookInv, VenueMay
<1>4. Typed' /\ CountIs' /\ deleted' \subseteq cancels'
  BY <1>1, <1>2, <1>3 DEF Typed, CountIs
<1>5. InHand'
  <2>1. CASE doing.step = "idle"
    BY <1>1, <2>1 DEF InHand
  <2>2. CASE doing.step = "wait"
    <3>1. venue'[doing.order].at # "nowhere"
      <4>1. doing.order \in Orders /\ venue[doing.order].at # "nowhere"
        BY <1>3, <2>2, DoingIs DEF InHand
      <4> QED
        BY <1>2, <4>1
    <3> QED
      BY <1>1, <1>3, <2>2, <3>1 DEF InHand, Fresh
  <2> QED
    BY <1>3, <2>1, <2>2
<1> QED
  BY <1>2, <1>4, <1>5 DEF BookInv

\* A post that arrives, or an order the venue ends, keeps its fills.
LEMMA ArriveBook ==
    ASSUME BookInv, NEW o \in Orders, Arrive(o) \/ End(o)
    PROVE  BookInv'
<1>1. Stands(o) /\ venue[o] \in [at : Places, filled : Nat] /\ venue \in [Orders -> [at : Places, filled : Nat]]
      /\ row[o].qty \in Nat /\ row[o].filled \in Nat /\ Typed
  BY DEF BookInv, Typed, Rows
<1>2. PICK at \in Places : /\ VenueGoes(o, at)
                           /\ \/ venue[o].at = "onway" /\ at \in {"never", "rejected", "live", "over"}
                              \/ venue[o].at = "live" /\ at = "over"
  BY DEF Arrive, End, Places
<1>3. /\ venue' = [venue EXCEPT ![o] = [at |-> at, filled |-> venue[o].filled]]
      /\ VenueMay /\ UNCHANGED <<now, book, house, deleted>>
  <2>1. [venue[o] EXCEPT !.at = at] = [at |-> at, filled |-> venue[o].filled]
    BY <1>1
  <2> QED
    BY <1>2, <2>1 DEF VenueGoes
<1>4. /\ venue[o].filled \in Nat /\ row[o].filled <= venue[o].filled /\ venue[o].filled <= row[o].qty
      /\ o \in counted /\ venue[o].at # "nowhere" /\ row[o].status # "none"
  BY <1>1, <1>2 DEF Stands
<1>5. venue[o].at = "onway" => venue[o].filled = 0
  BY <1>1 DEF Stands
<1>6. row[o].qty > 0
  BY <1>1, <1>4 DEF Stands
<1> QED
  BY <1>1, <1>2, <1>3, <1>4, <1>5, <1>6, VenueBook

\* A fill is within its order.
LEMMA FillBook ==
    ASSUME BookInv, NEW o \in Orders, Fill(o)
    PROVE  BookInv'
<1>1. Stands(o) /\ venue[o] \in [at : Places, filled : Nat] /\ venue \in [Orders -> [at : Places, filled : Nat]]
      /\ row[o].qty \in Nat /\ row[o].filled \in Nat /\ Typed
  BY DEF BookInv, Typed, Rows
<1> DEFINE n == venue[o].filled + 1
           at == IF n = row[o].qty THEN "over" ELSE "live"
<1>2. /\ venue' = [venue EXCEPT ![o] = [at |-> at, filled |-> n]]
      /\ venue[o].at = "live" /\ VenueMay /\ UNCHANGED <<now, book, house, deleted>>
  BY <1>1 DEF Fill
<1>3. /\ venue[o].filled \in Nat /\ row[o].filled <= venue[o].filled /\ venue[o].filled < row[o].qty
      /\ o \in counted
  BY <1>1, <1>2 DEF Stands
<1>4. n \in Nat /\ at \in Places /\ at \in {"live", "over"} /\ row[o].filled <= n /\ n <= row[o].qty
      /\ (at = "live" => n < row[o].qty)
  BY <1>1, <1>3 DEF Places
<1> HIDE DEF n, at
<1> QED
  BY <1>2, <1>3, <1>4, VenueBook

\* The clock moves no order.
LEMMA TickBook ==
    ASSUME BookInv, Tick
    PROVE  BookInv'
<1>1. /\ now' = now + 1 /\ now < Horizon /\ looked' = {} /\ doing.step \in {"idle", "wait"}
      /\ UNCHANGED <<row, pos, counted, count, cancels, doing, crashes, venue, deleted>>
      /\ \A o \in Orders : venue[o].at = "onway" => now < row[o].placed + Transit
      /\ \A o \in Orders : doing.step = "wait" /\ doing.order = o => now < row[o].placed + Transit
  BY DEF Tick, book, market
<1>2. /\ Typed /\ CountIs /\ InHand /\ deleted \subseteq cancels /\ now \in Nat /\ Transit \in Nat /\ Horizon \in Nat
      /\ \A o \in Orders : Stands(o) /\ row[o].placed \in Nat
  BY RealBookAssumption DEF BookInv, Typed, Rows
<1>3. Typed' /\ CountIs'
  <2>1. now' \in 0..Horizon
    BY <1>1, <1>2
  <2> QED
    BY <1>1, <1>2, <2>1 DEF Typed, CountIs
<1>4. ASSUME NEW o \in Orders PROVE Stands(o)'
  <2>1. Stands(o) /\ (venue[o].at = "onway" => now < row[o].placed + Transit)
        /\ row[o].placed \in Nat
    BY <1>1, <1>2
  <2>2. row[o].placed <= now + 1 /\ (now < row[o].placed + Transit => now + 1 <= row[o].placed + Transit)
    BY <1>2, <2>1 DEF Stands
  <2> QED
    BY <1>1, <2>1, <2>2 DEF Stands
<1>5. InHand'
  <2>1. CASE doing.step = "idle"
    BY <1>1, <2>1 DEF InHand
  <2>2. CASE doing.step = "wait"
    <3>1. doing.order \in Orders
      BY <1>2, <2>2, DoingIs
    <3>2. now < row[doing.order].placed + Transit /\ row[doing.order].placed \in Nat
      BY <1>1, <1>2, <2>2, <3>1
    <3>3. now + 1 <= row[doing.order].placed + Transit
      BY <1>2, <3>2
    <3> QED
      BY <1>1, <1>2, <2>2, <3>3 DEF InHand, Fresh
  <2> QED
    BY <1>1, <2>1, <2>2
<1> QED
  BY <1>1, <1>2, <1>3, <1>4, <1>5 DEF BookInv

\* At first there are no orders.
LEMMA BookInit ==
    ASSUME Init
    PROVE  BookInv
<1>1. Typed
  BY RealBookAssumption DEF Init, Typed, Rows, Unsent, Doings, Statuses, Places
<1>2. CountIs
  <2>1. Total(Legs, {}) = 0 /\ Total(CancelLegs, {}) = 0
    BY FS_EmptySet, TotalStep
  <2> QED
    BY <2>1 DEF Init, CountIs
<1>3. InHand
  BY DEF Init, InHand, Idle
<1>4. \A o \in Orders : Stands(o)
  BY RealBookAssumption DEF Init, Stands, Unsent
<1> QED
  BY <1>1, <1>2, <1>3, <1>4 DEF Init, BookInv

\* Every step keeps the book in order.
LEMMA BookStep ==
    ASSUME BookInv, [Next]_vars
    PROVE  BookInv'
<1>1. ASSUME NEW o \in Opens, Open(o) PROVE BookInv'
  <2>1. o \in Orders /\ Size[o] \in Nat \ {0}
    BY RealBookAssumption DEF Orders
  <2> QED
    BY <1>1, <2>1, PlaceBook DEF Open
<1>2. ASSUME NEW c \in Closes, NEW forced \in BOOLEAN, NEW qty \in 1..Size[Target[c]], Close(c, qty, forced)
      PROVE  BookInv'
  <2>1. c \in Orders /\ qty \in Nat \ {0}
    BY RealBookAssumption DEF Orders
  <2> QED
    BY <1>2, <2>1, PlaceBook DEF Close
<1>3. ASSUME NEW o \in Orders, ReadList(o) \/ LookUp(o) \/ Cancel(o) PROVE BookInv'
  BY <1>3, ReadListBook, LookUpBook, CancelBook
<1>4. CASE HouseStep
  BY <1>4, CountBook, PostBook, AnsweredBook, RefundBook, BookBook, SaveBook, DeleteBook DEF HouseStep
<1>5. CASE Crash
  <2>1. /\ crashes < MaxCrashes /\ crashes' = crashes + 1 /\ doing' = Idle
        /\ UNCHANGED <<now, row, pos, counted, count, cancels, looked, venue, deleted>>
    BY <1>5 DEF Crash, Rests, book, market
  <2>2. Typed' /\ CountIs'
    BY <2>1, RealBookAssumption DEF BookInv, Typed, CountIs, Doings
  <2>3. InHand' /\ \A o \in Orders : Stands(o)'
    BY <2>1, StandsOn DEF InHand, Idle
  <2> QED
    BY <2>1, <2>2, <2>3 DEF BookInv
<1>6. ASSUME NEW o \in Orders, Arrive(o) \/ Fill(o) \/ End(o) PROVE BookInv'
  BY <1>6, ArriveBook, FillBook
<1>7. CASE Tick
  BY <1>7, TickBook
<1>8. CASE UNCHANGED vars
  <2>1. UNCHANGED <<now, row, pos, counted, count, cancels, doing, looked, crashes, venue, deleted>>
    BY <1>8 DEF vars, book, house, market
  <2>2. Typed' /\ CountIs' /\ InHand' /\ deleted' \subseteq cancels'
    BY <2>1 DEF BookInv, Typed, CountIs, InHand, Fresh, RowsOf, StatusOf
  <2>3. \A o \in Orders : Stands(o)'
    BY <2>1, StandsOn
  <2> QED
    BY <2>2, <2>3 DEF BookInv
<1> QED
  BY <1>1, <1>2, <1>3, <1>4, <1>5, <1>6, <1>7, <1>8 DEF Next

\* What the House and the venue make of an order agrees, step by step.
THEOREM BookHolds == Spec => []BookInv
<1>1. Init => BookInv
  BY BookInit
<1>2. BookInv /\ [Next]_vars => BookInv'
  BY BookStep
<1> QED
  BY <1>1, <1>2, PTL DEF Spec

\* Every variable has its type, and the day's count is the legs of the orders and of the
\* cancels counted, through every refund and crash (_count_dispatch, _refund_dispatch).
THEOREM TypeCorrect == Spec => []TypeOK
<1>1. BookInv => TypeOK
  <2> SUFFICES ASSUME BookInv PROVE TypeOK
    OBVIOUS
  <2>1. Typed /\ CountIs
    BY DEF BookInv
  <2>2. MapThenSumSet(LegCount, counted) = Total(Legs, counted)
        /\ MapThenSumSet(LAMBDA x : LegCount(x[1]), cancels) = Total(CancelLegs, cancels)
    BY <2>1, LegsAddUp, CancelsAddUp DEF Typed
  <2> QED
    BY <2>1, <2>2 DEF Typed, CountIs, TypeOK, Rows, Minutes
<1> QED
  BY <1>1, BookHolds, PTL

\* The day's count is never behind the venue, whenever the House crashes and whatever the
\* gateway refuses (real.py: the count is committed before the POST and the DELETE).
THEOREM CountIsKept == Spec => []CountCovers
<1>1. BookInv => CountCovers
  BY DEF BookInv, Stands, CountCovers
<1> QED
  BY <1>1, BookHolds, PTL
-----------------------------------------------------------------------------
\* What only rows and positions say stays where they stay.
LEMMA RowsKeep ==
    ASSUME PatientInv, UNCHANGED <<row, pos>>
    PROVE  Streams' /\ Covered' /\ PosIs' /\ Sides'
<1>1. Filled' = Filled
  BY DEF Filled
<1>2. Streams' /\ Covered'
  BY DEF PatientInv, Streams, Covered, Working
<1>3. PosIs'
  BY <1>1 DEF PatientInv, PosIs
<1>4. Sides'
  BY DEF PatientInv, Sides, Has, Working
<1> QED
  BY <1>2, <1>3, <1>4

\* A step that commits nothing, and moves no order at the venue but a working one.
LEMMA MovesOn ==
    ASSUME BookInv, PatientInv, UNCHANGED <<now, row, pos>>, looked \subseteq looked',
           \A q \in Orders : ~Working(q) => venue'[q] = venue[q],
           doing' # Idle => Working(doing'.order),
           doing'.step \in {"book", "save"} => Tries(doing.order, doing.attempts)',
           doing'.step = "save" /\ doing'.status \notin Live => Gone(doing.order, doing.status)'
    PROVE  PatientInv'
<1>1. Streams' /\ Covered' /\ PosIs' /\ Sides'
  BY RowsKeep
<1>2. ASSUME NEW q \in Orders PROVE Rested(q)'
  <2>1. Rested(q)
    BY DEF PatientInv, Settled
  <2>2. Working(q)' <=> Working(q)
    BY DEF Working
  <2>3. Tries(q, row[q].attempts) => Tries(q, row[q].attempts)'
    BY DEF Tries
  <2>4. ~Working(q) /\ Gone(q, row[q].status) => Gone(q, row[q].status)'
    BY DEF Gone
  <2> QED
    BY <2>1, <2>2, <2>3, <2>4 DEF Rested
<1>3. doing' # Idle => Working(doing.order)'
  BY DEF Working
<1>4. Settled'
  BY <1>2, <1>3 DEF Settled
<1> QED
  BY <1>1, <1>4 DEF PatientInv

\* The House at its next step, with no row of the venue in hand.
LEMMA StepsOn ==
    ASSUME BookInv, PatientInv, UNCHANGED <<now, row, pos, venue>>, looked \subseteq looked',
           \/ doing' = Idle
           \/ Working(doing'.order) /\ doing'.step \notin {"book", "save"}
    PROVE  PatientInv'
<1>1. doing' # Idle => Working(doing'.order)
  OBVIOUS
<1>2. doing'.step \notin {"book", "save"}
  BY DEF Idle
<1> QED
  BY <1>1, <1>2, MovesOn

\* What was read of a working order (absorb) is what the venue says of it.
LEMMA AbsorbPatient ==
    ASSUME BookInv, PatientInv, NEW o \in Orders, NEW units, NEW was, NEW attempts,
           Working(o), Tries(o, attempts)', Absorbs(o, units, was, attempts),
           UNCHANGED <<now, row, pos, venue>>, looked \subseteq looked'
    PROVE  PatientInv'
<1>1. doing'.step = "book" /\ doing'.order = o /\ doing'.attempts = attempts'
  BY DEF Absorbs
<1> QED
  BY <1>1, MovesOn

\* A status that ends an order is saved only where nothing more will come of it.
LEMMA SavesPatient ==
    ASSUME BookInv, PatientInv, NEW o \in Orders, NEW status, NEW attempts,
           Working(o), Tries(o, attempts)', status \notin Live => Gone(o, status)',
           Saves(o, status, row[o].filled, attempts),
           UNCHANGED <<now, row, pos, venue>>, looked \subseteq looked'
    PROVE  PatientInv'
<1>1. doing'.step = "save" /\ doing'.order = o /\ doing'.attempts = attempts' /\ doing'.status = status'
  BY DEF Saves
<1> QED
  BY <1>1, MovesOn

\* Counting and posting keep the order working.
LEMMA PostPatient ==
    ASSUME BookInv, PatientInv, CountDispatch \/ Post
    PROVE  PatientInv'
<1>0. PICK o : o = doing.order
  OBVIOUS
<1>1. /\ doing.step \in {"count", "post"} /\ UNCHANGED <<now, row, pos, looked>>
      /\ doing'.step \notin {"book", "save"} /\ doing'.order = o
      /\ venue' = venue \/ venue' = [venue EXCEPT ![o].at = "onway"]
  <2>1. ASSUME CountDispatch PROVE doing.step = "count" /\ doing' = [doing EXCEPT !.step = "post"]
                                   /\ UNCHANGED <<now, row, pos, looked, venue>>
    BY <2>1 DEF CountDispatch, At, Goes, market
  <2>2. ASSUME Post PROVE /\ doing.step = "post" /\ UNCHANGED <<now, row, pos, looked>>
                          /\ \/ venue' = [venue EXCEPT ![o].at = "onway"]
                                /\ doing' = [doing EXCEPT !.step = "wait"]
                             \/ venue' = venue /\ doing' = [step |-> "refund", order |-> o]
    BY <1>0, <2>2 DEF Post, At, Goes, book
  <2>3. doing.step \in {"count", "post"} => doing = [step |-> doing.step, order |-> o]
    BY <1>0, DoingIs DEF BookInv
  <2> QED
    BY <2>1, <2>2, <2>3
<1>2. Working(o) /\ doing # Idle
  BY <1>0, <1>1 DEF PatientInv, Settled, Idle
<1>3. \A q \in Orders : ~Working(q) => venue'[q] = venue[q]
  BY <1>1, <1>2 DEF BookInv, Typed
<1> QED
  BY <1>1, <1>2, <1>3, MovesOn

\* An answer ends an order only where the venue never has it.
LEMMA AnsweredPatient ==
    ASSUME BookInv, PatientInv, Answered
    PROVE  PatientInv'
<1>0. PICK o : o = doing.order
  OBVIOUS
<1>1. /\ doing.step = "wait" /\ UNCHANGED <<now, row, pos, looked, venue>>
      /\ \/ \E units \in RowsOf(o) : Absorbs(o, units, "working", 1)
         \/ Saves(o, "unknown", 0, 1)
         \/ venue[o].at = "rejected" /\ Saves(o, "rejected", 0, 1)
         \/ doing' = [step |-> "refund", order |-> o]
  BY <1>0 DEF Answered, At, book, market
<1>2. o \in Orders /\ Working(o)
  BY <1>0, <1>1, DoingIs DEF BookInv, PatientInv, Settled, Idle
<1>3. /\ now \in Nat /\ row[o].placed \in Nat /\ row[o].placed <= now
      /\ row[o].filled = 0 /\ row[o].filled <= venue[o].filled
      /\ venue[o].at \notin {"live", "over"} => venue[o].filled = 0
  BY <1>0, <1>1, <1>2, RealBookAssumption DEF BookInv, Typed, Rows, InHand, Fresh, Stands
<1>4. Tries(o, 1)'
  BY <1>1, <1>3 DEF Tries
<1>5. CASE \E units \in RowsOf(o) : Absorbs(o, units, "working", 1)
  BY <1>1, <1>2, <1>4, <1>5, AbsorbPatient
<1>6. CASE Saves(o, "unknown", 0, 1)
  BY <1>1, <1>2, <1>3, <1>4, <1>6, SavesPatient DEF Live
<1>7. CASE venue[o].at = "rejected" /\ Saves(o, "rejected", 0, 1)
  <2>1. Gone(o, "rejected")'
    BY <1>1, <1>3, <1>7 DEF Gone
  <2> QED
    BY <1>1, <1>2, <1>3, <1>4, <1>7, <2>1, SavesPatient
<1>8. CASE doing' = [step |-> "refund", order |-> o]
  BY <1>1, <1>2, <1>8, StepsOn
<1> QED
  BY <1>1, <1>5, <1>6, <1>7, <1>8

\* A refused order never reached the venue.
LEMMA RefundPatient ==
    ASSUME BookInv, PatientInv, Refund
    PROVE  PatientInv'
<1>0. PICK o : o = doing.order
  OBVIOUS
<1>1. /\ doing.step = "refund" /\ UNCHANGED <<now, row, pos, looked, venue>>
      /\ Saves(o, "refused", 0, 1)
  BY <1>0 DEF Refund, At, market
<1>2. o \in Orders /\ Working(o)
  BY <1>0, <1>1, DoingIs DEF BookInv, PatientInv, Settled, Idle
<1>3. /\ now \in Nat /\ row[o].placed \in Nat /\ row[o].placed <= now
      /\ row[o].filled = 0 /\ row[o].filled <= venue[o].filled
      /\ venue[o].at \in {"nowhere", "never"} /\ venue[o].filled = 0
  BY <1>0, <1>1, <1>2, RealBookAssumption DEF BookInv, Typed, Rows, InHand, Fresh, Stands
<1>4. Tries(o, 1)'
  BY <1>1, <1>3 DEF Tries
<1>5. Gone(o, "refused")'
  BY <1>1, <1>3 DEF Gone
<1> QED
  BY <1>1, <1>2, <1>3, <1>4, <1>5, SavesPatient

\* A list never shows an order given up on: what is no longer working is over.
LEMMA ReadListPatient ==
    ASSUME BookInv, PatientInv, NEW o \in Orders, ReadList(o)
    PROVE  PatientInv'
<1>1. /\ venue[o].at \in {"live", "over"} /\ UNCHANGED <<now, row, pos, looked, venue>>
      /\ Working(o) \/ row[o].status \in {"lost", "refused"}
  BY DEF ReadList, book, market
<1>2. PICK n : n = row[o].attempts
  OBVIOUS
<1>3. \E units, was : Absorbs(o, units, was, n)
  BY <1>2 DEF ReadList
<1>4. Rested(o)
  BY DEF PatientInv, Settled
<1>5. Working(o)
  BY <1>1, <1>4 DEF Rested, Gone
<1>6. Tries(o, n)'
  BY <1>1, <1>2, <1>4, <1>5 DEF Rested, Tries, Working
<1> QED
  BY <1>1, <1>3, <1>5, <1>6, AbsorbPatient

\* An order is given up only when nothing of it can be on its way any more.
LEMMA LookUpPatient ==
    ASSUME Patience, BookInv, PatientInv, NEW o \in Orders, LookUp(o)
    PROVE  PatientInv'
<1>1. /\ o \notin looked /\ looked' = looked \cup {o} /\ now > row[o].placed
      /\ row[o].status \in {"pending", "unknown"} /\ UNCHANGED <<now, row, pos, venue>>
      /\ \/ /\ venue[o].at \in {"nowhere", "onway", "never", "rejected"}
            /\ Saves(o, IF GivenUp(o) THEN "lost" ELSE row[o].status, row[o].filled, row[o].attempts + 1)
         \/ \E units \in RowsOf(o) : Absorbs(o, units, row[o].status, row[o].attempts)
  BY DEF LookUp, book, market
<1>2. PICK n : n = row[o].attempts
  OBVIOUS
<1>3. Rested(o) /\ Stands(o) /\ Working(o)
  BY <1>1 DEF PatientInv, Settled, BookInv, Working
<1>4. /\ now \in Nat /\ row[o].placed \in Nat /\ n \in Nat /\ n <= now - row[o].placed
      /\ row[o].filled \in Nat
  BY <1>1, <1>2, <1>3, RealBookAssumption DEF BookInv, Typed, Rows, Rested, Tries
<1>5. CASE \E units \in RowsOf(o) : Absorbs(o, units, row[o].status, row[o].attempts)
  <2>1. Tries(o, n)'
    BY <1>1, <1>4 DEF Tries
  <2>2. \E units, was : Absorbs(o, units, was, n)
    BY <1>2, <1>5
  <2> QED
    BY <1>1, <1>3, <2>1, <2>2, AbsorbPatient
<1>6. CASE /\ venue[o].at \in {"nowhere", "onway", "never", "rejected"}
           /\ Saves(o, IF GivenUp(o) THEN "lost" ELSE row[o].status, row[o].filled, row[o].attempts + 1)
  <2>1. PICK m : m = n + 1
    OBVIOUS
  <2>2. Tries(o, m)'
    BY <1>1, <1>4, <2>1 DEF Tries
  <2>3. PICK status : status = IF GivenUp(o) THEN "lost" ELSE row[o].status
    OBVIOUS
  <2>4. ASSUME status \notin Live PROVE Gone(o, status)'
    <3>1. GivenUp(o) /\ status = "lost"
      BY <1>1, <2>3, <2>4 DEF Live
    <3>2. venue[o].at # "onway"
      <4> SUFFICES ASSUME venue[o].at = "onway" PROVE FALSE
        OBVIOUS
      <4>1. now - row[o].placed <= Transit
        BY <1>3, <1>4, RealBookAssumption DEF Stands
      <4>2. n + 1 < MaxAttempts /\ ~ (now - row[o].placed > LostAfter)
        BY <1>4, <4>1, RealBookAssumption DEF Patience
      <4> QED
        BY <1>2, <1>4, <3>1, <4>2, RealBookAssumption DEF GivenUp
    <3>3. venue[o].filled = 0 /\ row[o].filled = 0
      BY <1>3, <1>4, <1>6 DEF Stands
    <3> QED
      BY <1>1, <1>6, <3>1, <3>2, <3>3 DEF Gone
  <2>5. Saves(o, status, row[o].filled, m)
    BY <1>2, <1>6, <2>1, <2>3
  <2> QED
    BY <1>1, <1>3, <2>2, <2>4, <2>5, SavesPatient
<1> QED
  BY <1>1, <1>5, <1>6

\* A cancel ends nothing by itself: the order is read again.
LEMMA CancelPatient ==
    ASSUME BookInv, PatientInv, NEW o \in Orders, Cancel(o)
    PROVE  PatientInv'
<1>1. /\ Working(o) /\ doing' = [step |-> "delete", order |-> o]
      /\ UNCHANGED <<now, row, pos, looked, venue>>
  BY DEF Cancel, Working, market
<1> QED
  BY <1>1, StepsOn

\* The venue moves only orders that are working.
LEMMA VenuePatient ==
    ASSUME BookInv, PatientInv, NEW o \in Orders, venue[o].at \in {"onway", "live"},
           \A q \in Orders \ {o} : venue'[q] = venue[q], UNCHANGED <<now, row, pos, looked>>,
           doing' # Idle => doing' = doing, doing'.step \notin {"book", "save"}
    PROVE  PatientInv'
<1>1. Rested(o)
  BY DEF PatientInv, Settled
<1>2. Working(o)
  BY <1>1 DEF Rested, Gone
<1>3. doing' # Idle => Working(doing'.order)
  BY DEF PatientInv, Settled
<1> QED
  BY <1>2, <1>3, MovesOn

\* The venue moves only orders that work.
LEMMA MarketPatient ==
    ASSUME BookInv, PatientInv, NEW o \in Orders, Arrive(o) \/ Fill(o) \/ End(o)
    PROVE  PatientInv'
<1>1. /\ venue[o].at \in {"onway", "live"} /\ VenueMay
      /\ \E v : venue' = [venue EXCEPT ![o] = v]
      /\ UNCHANGED <<now, row, pos, looked, doing>>
  <2>1. CASE Arrive(o)
    BY <2>1 DEF Arrive, VenueGoes, book, house
  <2>2. CASE Fill(o)
    BY <2>2 DEF Fill, book, house
  <2>3. CASE End(o)
    BY <2>3 DEF End, VenueGoes, book, house
  <2> QED
    BY <2>1, <2>2, <2>3
<1>2. \A q \in Orders \ {o} : venue'[q] = venue[q]
  BY <1>1 DEF BookInv, Typed
<1>3. doing'.step \notin {"book", "save"}
  BY <1>1 DEF VenueMay
<1> QED
  BY <1>1, <1>2, <1>3, VenuePatient

\* A cancel ends an order at the venue; the House still works it.
LEMMA DeletePatient ==
    ASSUME BookInv, PatientInv, Delete
    PROVE  PatientInv'
<1>0. PICK o : o = doing.order
  OBVIOUS
<1>1. /\ doing.step = "delete" /\ doing' = Idle /\ UNCHANGED <<now, row, pos, looked>>
      /\ \/ venue[o].at = "live" /\ venue' = [venue EXCEPT ![o].at = "over"]
         \/ venue' = venue
  BY <1>0 DEF Delete, At, Rests, book
<1>2. CASE venue' = venue
  BY <1>1, <1>2, StepsOn
<1>3. CASE venue[o].at = "live" /\ venue' = [venue EXCEPT ![o].at = "over"]
  <2>1. o \in Orders
    BY <1>0, <1>1, DoingIs DEF BookInv
  <2>2. \A q \in Orders \ {o} : venue'[q] = venue[q]
    BY <1>3, <2>1 DEF BookInv, Typed
  <2>3. venue[o].at \in {"onway", "live"}
    BY <1>3
  <2>4. /\ doing' = Idle /\ doing'.step \notin {"book", "save"}
        /\ UNCHANGED <<now, row, pos, looked>>
    BY <1>1 DEF Idle
  <2> QED
    BY <2>1, <2>2, <2>3, <2>4, VenuePatient
<1> QED
  BY <1>1, <1>2, <1>3

\* The clock gives each working order one look-up more, and a request less to arrive.
LEMMA TickPatient ==
    ASSUME BookInv, PatientInv, Tick
    PROVE  PatientInv'
<1>1. /\ now' = now + 1 /\ looked' = {} /\ doing.step \in {"idle", "wait"}
      /\ UNCHANGED <<row, pos, doing, venue>>
  BY DEF Tick, book, market
<1>2. Streams' /\ Covered' /\ PosIs' /\ Sides'
  BY <1>1, RowsKeep
<1>3. ASSUME NEW q \in Orders PROVE Rested(q)'
  <2>1. Rested(q) /\ now \in Nat /\ row[q].placed \in Nat /\ row[q].attempts \in Nat
    BY RealBookAssumption DEF PatientInv, Settled, BookInv, Typed, Rows
  <2>2. Tries(q, row[q].attempts) => Tries(q, row[q].attempts)'
    BY <1>1, <2>1 DEF Tries
  <2>3. ~Working(q) /\ Gone(q, row[q].status) => Gone(q, row[q].status)'
    BY <1>1 DEF Gone
  <2> QED
    BY <1>1, <2>1, <2>2, <2>3 DEF Rested, Working
<1>4. Settled'
  BY <1>1, <1>3 DEF PatientInv, Settled, Working
<1> QED
  BY <1>2, <1>4 DEF PatientInv

\* A saved status is the one that was read.
LEMMA SavePatient ==
    ASSUME BookInv, PatientInv, Save
    PROVE  PatientInv'
<1>0. PICK o : o = doing.order
  OBVIOUS
<1>1. /\ doing.step = "save" /\ doing' = Idle
      /\ row' = [row EXCEPT ![o].status = doing.status, ![o].filled = doing.filled,
                            ![o].attempts = doing.attempts]
      /\ UNCHANGED <<now, pos, looked, venue>>
  BY <1>0 DEF Save, At, Rests, market
<1>2. /\ o \in Orders /\ row \in [Orders -> Rows] /\ InHand
      /\ doing.filled \in Nat /\ doing.status \in Statuses /\ doing.attempts \in Nat
  BY <1>0, <1>1, DoingIs DEF BookInv, Typed
<1>3. doing.filled = row[o].filled
  BY <1>0, <1>1, <1>2 DEF InHand
<1>4. /\ row'[o].status = doing.status /\ row'[o].filled = row[o].filled
      /\ row'[o].attempts = doing.attempts
      /\ row'[o].qty = row[o].qty /\ row'[o].placed = row[o].placed
      /\ \A q \in Orders \ {o} : row'[q] = row[q]
  <2>1. Saved(o, doing.status, doing.filled, doing.attempts)
    BY <1>1 DEF Saved
  <2> QED
    BY <1>2, <1>3, <2>1, RowSaved
<1>5. /\ Working(o) /\ Tries(o, doing.attempts)
      /\ doing.status \notin Live => Gone(o, doing.status)
  BY <1>0, <1>1 DEF PatientInv, Settled, Idle
<1>6. ASSUME NEW q \in Orders
      PROVE  /\ Working(q)' => Working(q)
             /\ row'[q].filled = row[q].filled /\ row'[q].qty = row[q].qty
  BY <1>4, <1>5 DEF Working
<1>7. ASSUME NEW q \in Orders PROVE Rested(q)'
  <2>1. CASE q # o
    <3>1. row'[q] = row[q] /\ Rested(q)
      BY <1>4, <2>1 DEF PatientInv, Settled
    <3> QED
      BY <1>1, <3>1 DEF Rested, Tries, Gone, Working
  <2>2. CASE q = o
    <3>1. Tries(o, row[o].attempts)'
      BY <1>1, <1>4, <1>5 DEF Tries
    <3>2. ~Working(o)' => Gone(o, row[o].status)'
      BY <1>1, <1>4, <1>5 DEF Gone, Working, Live
    <3> QED
      BY <2>2, <3>1, <3>2 DEF Rested
  <2> QED
    BY <2>1, <2>2
<1>8. Settled'
  BY <1>1, <1>7 DEF Settled, Idle
<1>9. Streams'
  BY <1>6 DEF PatientInv, Streams
<1>10. Covered'
  <2>1. ASSUME NEW c \in Closes, Working(c)' PROVE (row[c].qty <= row[c].filled + pos[Target[c]])'
    <3>1. c \in Orders
      BY DEF Orders
    <3> QED
      BY <1>1, <1>6, <2>1, <3>1 DEF PatientInv, Covered
  <2> QED
    BY <2>1 DEF Covered
<1>11. PosIs'
  <2>1. Filled' = Filled
    BY <1>6 DEF Filled
  <2>2. \A p \in Opens : row'[p].filled = row[p].filled
    BY <1>6 DEF Orders
  <2> QED
    BY <1>1, <2>1, <2>2 DEF PatientInv, PosIs
<1>12. Sides'
  <2>1. \A p \in Opens : Has(p)' => Has(p)
    BY <1>1, <1>6 DEF Has, Orders
  <2> QED
    BY <2>1 DEF PatientInv, Sides
<1> QED
  BY <1>8, <1>9, <1>10, <1>11, <1>12 DEF PatientInv

\* The closes of a position are finitely many.
LEMMA ClosesAre ==
    ASSUME NEW p \in Opens
    PROVE  IsFiniteSet(ClosesOf(p)) /\ ClosesOf(p) \subseteq Closes /\ ClosesOf(p) \subseteq Orders
<1>1. ClosesOf(p) \subseteq Closes /\ ClosesOf(p) \subseteq Orders
  BY DEF ClosesOf, Orders
<1> QED
  BY <1>1, RealBookAssumption, FS_Subset

\* An order that is not a part of a position's closes leaves their fills.
LEMMA FillsKeep ==
    ASSUME NEW p \in Opens, NEW o \in Orders \ ClosesOf(p),
           row \in [Orders -> Rows], \A q \in Orders \ {o} : row'[q].filled = row[q].filled
    PROVE  Total(Filled, ClosesOf(p))' = Total(Filled, ClosesOf(p))
<1> DEFINE S == ClosesOf(p)
           old == Filled
           new == Filled'
<1>1. IsFiniteSet(S) /\ S \subseteq Orders /\ S' = S
  BY ClosesAre DEF ClosesOf
<1>2. \A q \in S : new[q] = old[q]
  BY <1>1 DEF Filled
<1> HIDE DEF S, old, new
<1>3. Total(new, S) = Total(old, S)
  BY <1>1, <1>2, TotalSame
<1> QED
  BY <1>1, <1>3 DEF S, old, new

\* A fill of one of its closes adds to them.
LEMMA FillsAdd ==
    ASSUME NEW p \in Opens, NEW o \in ClosesOf(p),
           row \in [Orders -> Rows], row' \in [Orders -> Rows],
           \A q \in Orders \ {o} : row'[q].filled = row[q].filled
    PROVE  Total(Filled, ClosesOf(p))' = Total(Filled, ClosesOf(p)) + row'[o].filled - row[o].filled
<1> DEFINE S == ClosesOf(p)
           old == Filled
           new == Filled'
<1>1. IsFiniteSet(S) /\ S \subseteq Orders /\ S' = S /\ o \in S
  BY ClosesAre DEF ClosesOf
<1>2. \A q \in S : new[q] = row'[q].filled /\ old[q] = row[q].filled
  BY <1>1 DEF Filled
<1>3. \A q \in S : new[q] \in Int /\ old[q] \in Int
  BY <1>1, <1>2 DEF Rows
<1>4. \A q \in S \ {o} : new[q] = old[q]
  BY <1>1, <1>2
<1> HIDE DEF S, old, new
<1>5. Total(new, S) = Total(old, S) + new[o] - old[o]
  BY <1>1, <1>3, <1>4, TotalChanges
<1>6. Total(new, S) = Total(old, S) + row'[o].filled - row[o].filled
  BY <1>1, <1>2, <1>5
<1> QED
  BY <1>1, <1>6 DEF S, old, new

\* What the closes of a position have filled is a number.
LEMMA FillsType ==
    ASSUME NEW p \in Opens, row \in [Orders -> Rows]
    PROVE  Total(Filled, ClosesOf(p)) \in Nat
<1>1. \A q \in ClosesOf(p) : Filled[q] \in Nat
  BY ClosesAre DEF Filled, Rows
<1>2. \A q \in ClosesOf(p) : Filled[q] \in Int /\ Filled[q] >= 0
  BY <1>1
<1>3. Total(Filled, ClosesOf(p)) \in Int /\ Total(Filled, ClosesOf(p)) >= 0
  BY <1>2, ClosesAre, TotalType
<1> QED
  BY <1>3

\* Booked units move from the order to its position, once.
LEMMA BookPatient ==
    ASSUME BookInv, PatientInv, Book
    PROVE  PatientInv'
<1>0. PICK o : o = doing.order
  OBVIOUS
<1>1. PICK f : f = Larger(doing.units, row[o].filled)
  OBVIOUS
<1>2. /\ o \in Orders /\ doing.step = "book" /\ Booked(o, f - row[o].filled)
      /\ f \in Nat /\ f - row[o].filled \in Nat /\ f <= venue[o].filled
      /\ doing' = [step |-> "save", order |-> o, status |-> doing.status, filled |-> f,
                   attempts |-> doing.attempts]
      /\ doing.units \in RowsOf(o) /\ doing.status = StatusOf(o, doing.units)
      /\ row' \in [Orders -> Rows] /\ row'[o].filled = f
      /\ row'[o].qty = row[o].qty /\ row'[o].placed = row[o].placed
      /\ \A q \in Orders \ {o} : row'[q] = row[q]
      /\ UNCHANGED <<now, looked, venue>>
  BY <1>0, <1>1, BookMakes
<1>3. /\ \/ row'[o].status = row[o].status /\ row'[o].attempts = row[o].attempts
         \/ row'[o].status = doing.was /\ row'[o].attempts = doing.attempts
      /\ doing.was \in Live /\ doing.attempts \in Nat
  BY <1>0, <1>1, BookMakes
<1>4. /\ row \in [Orders -> Rows] /\ pos \in [Opens -> Nat] /\ Stands(o) /\ venue[o].filled \in Nat
      /\ row[o].filled \in Nat /\ row[o].qty \in Nat
  BY <1>2 DEF BookInv, Typed, Rows
<1>5. Working(o) /\ Tries(o, doing.attempts) /\ Rested(o)
  BY <1>0, <1>2 DEF PatientInv, Settled, Idle
<1>6. row[o].status \in Live /\ row'[o].status \in Live
  BY <1>3, <1>5 DEF Working, Live
<1>7. \A q \in Orders : Working(q)' <=> Working(q)
  BY <1>2, <1>6 DEF Working, Live
<1> DEFINE d == f - row[o].filled
<1>8. ASSUME o \in Opens PROVE Covered' /\ PosIs' /\ Sides'
  <2>1. pos' = [pos EXCEPT ![o] = pos[o] + d]
    BY <1>2, <1>8 DEF Booked, PositionOf
  <2>2. o \notin Closes
    BY <1>8, RealBookAssumption
  <2>3. pos'[o] = pos[o] + d /\ \A p \in Opens \ {o} : pos'[p] = pos[p]
    BY <1>4, <1>8, <2>1
  <2>4. \A p \in Opens : pos[p] \in Nat /\ pos[p] <= pos'[p] /\ pos'[p] \in Nat
    BY <1>2, <1>4, <2>3
  <2>5. Covered'
    <3>1. ASSUME NEW c \in Closes, Working(c)' PROVE (row[c].qty <= row[c].filled + pos[Target[c]])'
      <4>1. c \in Orders /\ c # o /\ row'[c] = row[c] /\ Target[c] \in Opens
        BY <1>2, <2>2, RealBookAssumption DEF Orders
      <4>2. row[c].qty <= row[c].filled + pos[Target[c]] /\ row[c].qty \in Nat /\ row[c].filled \in Nat
        BY <1>4, <1>7, <3>1, <4>1 DEF PatientInv, Covered, Rows
      <4>3. row[c].qty <= row[c].filled + pos'[Target[c]]
        BY <2>4, <4>1, <4>2
      <4> QED
        BY <4>1, <4>3
    <3> QED
      BY <3>1 DEF Covered
  <2>6. PosIs'
    <3>1. ASSUME NEW p \in Opens PROVE (pos[p] + Total(Filled, ClosesOf(p)) = row[p].filled)'
      <4>1. o \in Orders \ ClosesOf(p) /\ \A q \in Orders \ {o} : row'[q].filled = row[q].filled
        BY <1>2, <2>2 DEF ClosesOf
      <4>2. Total(Filled, ClosesOf(p))' = Total(Filled, ClosesOf(p)) /\ Total(Filled, ClosesOf(p)) \in Nat
        BY <1>4, <4>1, FillsKeep, FillsType
      <4>3. pos[p] + Total(Filled, ClosesOf(p)) = row[p].filled /\ p \in Orders
        BY DEF PatientInv, PosIs, Orders
      <4>4. CASE p = o
        BY <1>2, <1>4, <2>3, <4>2, <4>3, <4>4
      <4>5. CASE p # o
        BY <1>2, <1>4, <2>3, <4>2, <4>3, <4>5
      <4> QED
        BY <4>4, <4>5
    <3> QED
      BY <3>1 DEF PosIs
  <2>7. Sides'
    <3>1. \A p \in Opens : Has(p)' => Has(p)
      BY <1>5, <1>7, <2>3 DEF Has, Orders
    <3> QED
      BY <3>1 DEF PatientInv, Sides
  <2> QED
    BY <2>5, <2>6, <2>7
<1>9. ASSUME o \notin Opens PROVE Covered' /\ PosIs' /\ Sides'
  <2>1. o \in Closes /\ Target[o] \in Opens
    BY <1>2, <1>9, RealBookAssumption DEF Orders
  <2>2. d \in Nat /\ d <= pos[Target[o]] /\ pos[Target[o]] \in Nat
    <3>1. row[o].qty <= row[o].filled + pos[Target[o]] /\ f <= row[o].qty /\ pos[Target[o]] \in Nat
      BY <1>2, <1>4, <1>5, <2>1 DEF PatientInv, Covered, Stands
    <3> QED
      BY <1>2, <1>4, <3>1
  <2>3. pos' = [pos EXCEPT ![Target[o]] = pos[Target[o]] - d]
    <3>1. Lesser(d, pos[Target[o]]) = d
      BY <2>2 DEF Lesser
    <3> QED
      BY <1>2, <1>9, <3>1 DEF Booked, PositionOf
  <2>4. pos'[Target[o]] = pos[Target[o]] - d /\ \A p \in Opens \ {Target[o]} : pos'[p] = pos[p]
    BY <1>4, <2>1, <2>3
  <2>5. Covered'
    <3>1. ASSUME NEW c \in Closes, Working(c)' PROVE (row[c].qty <= row[c].filled + pos[Target[c]])'
      <4>1. c \in Orders /\ Target[c] \in Opens /\ Working(c)
        BY <1>7, <3>1, RealBookAssumption DEF Orders
      <4>2. row[c].qty <= row[c].filled + pos[Target[c]]
        BY <4>1 DEF PatientInv, Covered
      <4>3. CASE c = o
        BY <1>2, <1>4, <2>2, <2>4, <4>2, <4>3
      <4>4. CASE c # o
        <5>1. Target[c] # Target[o]
          <6>1. LegsOf(c) \cap LegsOf(o) = {}
            BY <1>2, <1>5, <4>1, <4>4 DEF PatientInv, Streams
          <6>2. LegsOf(o) # {} /\ PositionOf(c) = Target[c] /\ PositionOf(o) = Target[o]
            BY <1>2, <2>1, OrdersHaveLegs, RealBookAssumption DEF PositionOf
          <6> QED
            BY <6>1, <6>2 DEF LegsOf
        <5> QED
          BY <1>2, <2>4, <4>1, <4>2, <4>4, <5>1
      <4> QED
        BY <4>3, <4>4
    <3> QED
      BY <3>1 DEF Covered
  <2>6. PosIs'
    <3>1. ASSUME NEW p \in Opens PROVE (pos[p] + Total(Filled, ClosesOf(p)) = row[p].filled)'
      <4>1. \A q \in Orders \ {o} : row'[q].filled = row[q].filled
        BY <1>2
      <4>2. pos[p] + Total(Filled, ClosesOf(p)) = row[p].filled /\ p \in Orders /\ p # o
            /\ Total(Filled, ClosesOf(p)) \in Nat /\ pos[p] \in Nat
        BY <1>4, <1>9, FillsType DEF PatientInv, PosIs, Orders
      <4>3. CASE p = Target[o]
        <5>1. o \in ClosesOf(p)
          BY <2>1, <4>3 DEF ClosesOf
        <5>2. Total(Filled, ClosesOf(p))' = Total(Filled, ClosesOf(p)) + row'[o].filled - row[o].filled
          BY <1>2, <1>4, <4>1, <5>1, FillsAdd
        <5> QED
          BY <1>2, <1>4, <2>4, <4>2, <4>3, <5>2
      <4>4. CASE p # Target[o]
        <5>1. o \in Orders \ ClosesOf(p)
          BY <1>2, <4>4 DEF ClosesOf
        <5>2. Total(Filled, ClosesOf(p))' = Total(Filled, ClosesOf(p))
          BY <1>4, <4>1, <5>1, FillsKeep
        <5> QED
          BY <1>2, <2>4, <4>2, <4>4, <5>2
      <4> QED
        BY <4>3, <4>4
    <3> QED
      BY <3>1 DEF PosIs
  <2>7. Sides'
    <3>1. \A p \in Opens : pos'[p] > 0 => pos[p] > 0
      BY <1>4, <2>2, <2>4
    <3>2. \A p \in Opens : Has(p)' => Has(p)
      BY <1>7, <3>1 DEF Has, Orders
    <3> QED
      BY <3>2 DEF PatientInv, Sides
  <2> QED
    BY <2>5, <2>6, <2>7
<1>10. Streams'
  BY <1>7 DEF PatientInv, Streams
<1>11. ASSUME NEW q \in Orders PROVE Rested(q)'
  <2>1. CASE q # o
    <3>1. row'[q] = row[q] /\ Rested(q)
      BY <1>2, <2>1 DEF PatientInv, Settled
    <3> QED
      BY <1>2, <3>1 DEF Rested, Tries, Gone, Working
  <2>2. CASE q = o
    <3>1. Tries(o, row[o].attempts) \/ row[o].status = "none"
      BY <1>5 DEF Rested
    <3>2. Tries(o, row[o].attempts)'
      BY <1>2, <1>3, <1>5, <1>6, <3>1 DEF Tries, Live
    <3>3. Working(o)'
      BY <1>2, <1>5, <1>7
    <3> QED
      BY <2>2, <3>2, <3>3 DEF Rested
  <2> QED
    BY <2>1, <2>2
<1>12. doing.status \notin Live => Gone(o, doing.status)'
  <2> SUFFICES ASSUME doing.status \notin Live PROVE Gone(o, doing.status)'
    OBVIOUS
  <2>1. venue[o].at \in {"live", "over"}
    BY <1>0, <1>2 DEF BookInv, InHand
  <2>2. venue[o].at # "live" /\ doing.status \in {"ended", "filled"}
    BY <1>2 DEF StatusOf, Live
  <2>3. doing.units \in Nat /\ doing.units <= f /\ row[o].filled <= f
    BY <1>1, <1>2, <1>4, UnitsAdd DEF Larger, RowsOf
  <2>4. venue[o].filled <= f
    <3>1. CASE venue[o].filled < row[o].qty
      <4>1. doing.units = venue[o].filled
        BY <1>2, <2>1, <2>2, <3>1 DEF RowsOf
      <4> QED
        BY <2>3, <4>1
    <3>2. CASE ~ (venue[o].filled < row[o].qty)
      <4>1. ~ (doing.units < row[o].qty /\ row[o].filled < row[o].qty)
        BY <1>2, <2>1, <2>2, <3>2 DEF StatusOf, Live
      <4>2. row[o].qty <= f
        BY <1>2, <1>4, <2>3, <4>1
      <4> QED
        BY <1>2, <1>4, <4>2 DEF Stands
    <3> QED
      BY <3>1, <3>2
  <2>5. row'[o].filled = venue'[o].filled
    BY <1>2, <1>4, <2>4
  <2> QED
    BY <1>2, <2>1, <2>2, <2>5 DEF Gone
<1>13. Settled'
  <2>1. Tries(doing.order, doing.attempts)'
    BY <1>2, <1>5 DEF Tries
  <2>2. Working(doing.order)'
    BY <1>2, <1>5, <1>7 DEF Working
  <2>3. doing'.status \notin Live => Gone(doing.order, doing.status)'
    BY <1>2, <1>12 DEF Gone
  <2> QED
    BY <1>11, <2>1, <2>2, <2>3 DEF Settled
<1> QED
  BY <1>8, <1>9, <1>10, <1>13 DEF PatientInv

\* What is held of a contract is on the side of any structure held with a leg on it.
LEMMA NetIsTotal ==
    ASSUME NEW k, NEW S, S = {q \in Opens : k \in LegsOf(q)},
           NEW w, w = [q \in S |-> pos[q] * Structure[q][k]]
    PROVE  IsFiniteSet(S) /\ Net(k) = Total(w, S)
<1> DEFINE P(g) == g = [s \in SUBSET S |-> IF s = {} THEN 0
                          ELSE pos[AnyOf(s)] * Structure[AnyOf(s)][k] + g[s \ {AnyOf(s)}]]
           h == CHOOSE g : P(g)
<1>1. Net(k) = h[S]
  BY DEF Net, MapThenSumSet, MapThenFoldSet, AnyOf
<1>2. \A s \in SUBSET S : s # {} => pos[AnyOf(s)] * Structure[AnyOf(s)][k] = w[AnyOf(s)]
  BY AnyIn
<1>3. \A g : P(g) <=> Adds(g, w, S)
  BY <1>2 DEF Adds
<1>4. IsFiniteSet(S)
  <2>1. S \subseteq Orders
    BY DEF Orders
  <2> QED
    BY <2>1, RealBookAssumption, FS_Subset
<1>5. \E g : P(g)
  BY <1>3, <1>4, AddsExists
<1>6. P(h)
  <2> HIDE DEF P
  <2> QED
    BY <1>5
<1>7. Adds(h, w, S)
  <2> HIDE DEF h, P
  <2> QED
    BY <1>3, <1>6
<1> HIDE DEF h
<1> QED
  BY <1>1, <1>4, <1>7, TotalAdds

\* The account holds a contract on the side of every structure that is held.
LEMMA NetHasTheSide ==
    ASSUME BookInv, PatientInv, NEW p \in Opens, NEW k \in LegsOf(p), pos[p] > 0
    PROVE  /\ Structure[p][k] \in {1, -1} /\ Net(k) \in Int
           /\ Structure[p][k] = 1 => Net(k) > 0
           /\ Structure[p][k] = -1 => Net(k) < 0
<1>1. PICK S : S = {q \in Opens : k \in LegsOf(q)}
  OBVIOUS
<1>2. PICK w : w = [q \in S |-> pos[q] * Structure[q][k]]
  OBVIOUS
<1>3. IsFiniteSet(S) /\ Net(k) = Total(w, S)
  BY <1>1, <1>2, NetIsTotal
<1>4. \A q \in S : /\ pos[q] \in Nat /\ Structure[q][k] \in {1, -1}
                   /\ pos[q] > 0 => Structure[q][k] = Structure[p][k]
  <2>1. ASSUME NEW q \in S PROVE /\ pos[q] \in Nat /\ Structure[q][k] \in {1, -1}
                                 /\ pos[q] > 0 => Structure[q][k] = Structure[p][k]
    <3>1. q \in Opens /\ k \in LegsOf(q) /\ PositionOf(q) = q
      BY <1>1 DEF PositionOf
    <3>2. pos[q] \in Nat /\ Structure[q][k] \in {1, -1}
      BY <3>1, RealBookAssumption DEF BookInv, Typed, LegsOf
    <3>3. pos[q] > 0 => Structure[q][k] = Structure[p][k]
      BY <3>1 DEF PatientInv, Sides, Has
    <3> QED
      BY <3>2, <3>3
  <2> QED
    BY <2>1
<1>5. p \in S
  BY <1>1
<1>6. \A q \in S : /\ w[q] \in Int
                   /\ Structure[p][k] = 1 => w[q] >= 0
                   /\ Structure[p][k] = -1 => w[q] <= 0
  <2>1. ASSUME NEW q \in S PROVE /\ w[q] \in Int
                                 /\ Structure[p][k] = 1 => w[q] >= 0
                                 /\ Structure[p][k] = -1 => w[q] <= 0
    <3>1. w[q] = pos[q] * Structure[q][k] /\ pos[q] \in Nat /\ Structure[q][k] \in {1, -1}
          /\ (pos[q] > 0 => Structure[q][k] = Structure[p][k])
      BY <1>2, <1>4
    <3>2. CASE Structure[q][k] = 1
      <4>1. w[q] = pos[q]
        BY <3>1, <3>2
      <4> QED
        BY <3>1, <3>2, <4>1
    <3>3. CASE Structure[q][k] = -1
      <4>1. w[q] = -pos[q]
        BY <3>1, <3>3
      <4> QED
        BY <3>1, <3>3, <4>1
    <3> QED
      BY <3>1, <3>2, <3>3
  <2> QED
    BY <2>1
<1> DEFINE R == S \ {p}
<1>7. Total(w, S) = w[p] + Total(w, R)
  <2>1. \A q \in S : w[q] \in Int
    BY <1>6
  <2> QED
    BY <1>3, <1>5, <2>1, TotalWithout
<1>8. IsFiniteSet(R) /\ R \subseteq S
  BY <1>3, FS_Subset
<1> HIDE DEF R
<1>9. /\ Total(w, R) \in Int
      /\ Structure[p][k] = 1 => Total(w, R) >= 0
      /\ Structure[p][k] = -1 => Total(w, R) <= 0
  <2> DEFINE z == [q \in S |-> 0]
  <2>1. \A q \in R : w[q] \in Int /\ z[q] = 0
    BY <1>6, <1>8
  <2> HIDE DEF z
  <2>2. Total(z, R) = 0
    BY <1>8, <2>1, TotalOfNothing
  <2>3. Total(w, R) \in Int /\ ((\A q \in R : w[q] >= 0) => Total(w, R) >= 0)
    BY <1>8, <2>1, TotalType
  <2>4. ASSUME Structure[p][k] = -1 PROVE Total(w, R) <= 0
    <3>1. \A q \in R : w[q] \in Int /\ z[q] \in Int /\ w[q] <= z[q]
      BY <1>6, <1>8, <2>1, <2>4
    <3> QED
      BY <1>8, <2>2, <3>1, TotalBelow
  <2> QED
    BY <1>6, <1>8, <2>3, <2>4
<1>10. w[p] = pos[p] * Structure[p][k] /\ pos[p] \in Nat /\ Structure[p][k] \in {1, -1}
  BY <1>2, <1>4, <1>5
<1>11. CASE Structure[p][k] = 1
  <2>1. w[p] = pos[p]
    BY <1>10, <1>11
  <2> QED
    BY <1>3, <1>7, <1>9, <1>10, <1>11, <2>1
<1>12. CASE Structure[p][k] = -1
  <2>1. w[p] = -pos[p]
    BY <1>10, <1>12
  <2> QED
    BY <1>3, <1>7, <1>9, <1>10, <1>12, <2>1
<1> QED
  BY <1>10, <1>11, <1>12

\* A placed order meets no other on its contracts and asks for no more than is held.
LEMMA PlacePatient ==
    ASSUME BookInv, PatientInv, NEW o \in Orders, NEW qty \in Nat \ {0}, row[o] = Unsent,
           ~Busy(o), o \in Closes => qty <= pos[Target[o]], o \in Opens => ~Opposite(o), Place(o, qty)
    PROVE  PatientInv'
<1> DEFINE new == [status |-> "pending", qty |-> qty, filled |-> 0, placed |-> now, attempts |-> 0]
<1>1. /\ row' = [row EXCEPT ![o] = new] /\ doing' = [step |-> "count", order |-> o]
      /\ UNCHANGED <<now, pos, looked, venue>>
  BY DEF Place, market
<1>2. row \in [Orders -> Rows] /\ now \in Nat /\ pos \in [Opens -> Nat]
  BY RealBookAssumption DEF BookInv, Typed
<1>3. row'[o] = new /\ \A q \in Orders \ {o} : row'[q] = row[q]
  BY <1>1, <1>2
<1>4. row[o].filled = 0 /\ row'[o].status = "pending" /\ row'[o].filled = 0 /\ row'[o].qty = qty
      /\ row'[o].placed = now /\ row'[o].attempts = 0
  BY <1>3 DEF Unsent
<1>5. Working(o)' /\ \A q \in Orders \ {o} : Working(q)' <=> Working(q)
  BY <1>3, <1>4 DEF Working
<1>6. \A q \in Orders : Working(q) => LegsOf(q) \cap LegsOf(o) = {}
  BY DEF Busy
<1>7. Streams'
  <2>1. ASSUME NEW q \in Orders, NEW r \in Orders, q # r, Working(q)', Working(r)'
        PROVE  LegsOf(q) \cap LegsOf(r) = {}
    <3>1. CASE q = o
      BY <1>5, <1>6, <2>1, <3>1
    <3>2. CASE r = o
      BY <1>5, <1>6, <2>1, <3>2
    <3>3. CASE q # o /\ r # o
      BY <1>5, <2>1, <3>3 DEF PatientInv, Streams
    <3> QED
      BY <3>1, <3>2, <3>3
  <2> QED
    BY <2>1 DEF Streams
<1>8. Covered'
  <2>1. ASSUME NEW c \in Closes, Working(c)' PROVE (row[c].qty <= row[c].filled + pos[Target[c]])'
    <3>1. c \in Orders /\ Target[c] \in Opens
      BY RealBookAssumption DEF Orders
    <3>2. CASE c = o
      BY <1>1, <1>2, <1>4, <3>1, <3>2
    <3>3. CASE c # o
      BY <1>1, <1>3, <1>5, <2>1, <3>1, <3>3 DEF PatientInv, Covered
    <3> QED
      BY <3>2, <3>3
  <2> QED
    BY <2>1 DEF Covered
<1>9. PosIs'
  <2>1. \A q \in Orders : row'[q].filled = row[q].filled
    BY <1>3, <1>4
  <2>2. Filled' = Filled
    BY <2>1 DEF Filled
  <2>3. \A p \in Opens : row'[p].filled = row[p].filled
    BY <2>1 DEF Orders
  <2> QED
    BY <1>1, <2>2, <2>3 DEF PatientInv, PosIs
<1>10. ASSUME o \in Opens, NEW q \in Opens \ {o}, Has(q)', NEW k \in LegsOf(o) \cap LegsOf(q)
       PROVE  Structure[o][k] = Structure[q][k]
  <2>1. q \in Orders /\ Has(q)
    BY <1>1, <1>5, <1>10 DEF Has, Orders
  <2>2. pos[q] > 0
    BY <1>6, <1>10, <2>1 DEF Has
  <2>3. /\ Structure[q][k] \in {1, -1} /\ Net(k) \in Int
        /\ Structure[q][k] = 1 => Net(k) > 0
        /\ Structure[q][k] = -1 => Net(k) < 0
    BY <1>10, <2>2, NetHasTheSide
  <2>4. Structure[o][k] \in {1, -1}
    BY <1>10, RealBookAssumption DEF LegsOf, PositionOf
  <2>5. ~ (Net(k) * Structure[o][k] < 0)
    BY <1>10 DEF Opposite
  <2>6. CASE Structure[o][k] = 1
    BY <2>3, <2>5, <2>6
  <2>7. CASE Structure[o][k] = -1
    BY <2>3, <2>5, <2>7
  <2> QED
    BY <2>4, <2>6, <2>7
<1>11. Sides'
  <2>1. ASSUME NEW p \in Opens, NEW q \in Opens, Has(p)', Has(q)', NEW k \in LegsOf(p) \cap LegsOf(q)
        PROVE  Structure[p][k] = Structure[q][k]
    <3>1. CASE p = q
      BY <3>1
    <3>2. CASE p = o /\ q # o
      BY <1>10, <2>1, <3>2
    <3>3. CASE q = o /\ p # o
      BY <1>10, <2>1, <3>3
    <3>4. CASE p # o /\ q # o
      <4>1. Has(p) /\ Has(q)
        BY <1>1, <1>5, <2>1, <3>4 DEF Has, Orders
      <4> QED
        BY <2>1, <4>1 DEF PatientInv, Sides
    <3> QED
      BY <3>1, <3>2, <3>3, <3>4
  <2> QED
    BY <2>1 DEF Sides
<1>12. ASSUME NEW q \in Orders PROVE Rested(q)'
  <2>1. CASE q # o
    <3>1. row'[q] = row[q] /\ Rested(q)
      BY <1>3, <2>1 DEF PatientInv, Settled
    <3> QED
      BY <1>1, <3>1 DEF Rested, Tries, Gone, Working
  <2>2. CASE q = o
    <3>1. Tries(o, row[o].attempts)'
      BY <1>1, <1>2, <1>4 DEF Tries
    <3> QED
      BY <1>5, <2>2, <3>1 DEF Rested
  <2> QED
    BY <2>1, <2>2
<1>13. Settled'
  <2>1. doing'.order = o /\ doing'.step = "count"
    BY <1>1
  <2>2. Working(doing.order)'
    BY <1>5, <2>1 DEF Working
  <2> QED
    BY <1>12, <2>1, <2>2 DEF Settled
<1> QED
  BY <1>7, <1>8, <1>9, <1>11, <1>13 DEF PatientInv

\* At first nothing works and nothing is held.
LEMMA PatientInit ==
    ASSUME Init
    PROVE  PatientInv
<1>1. \A o \in Orders : row[o] = Unsent /\ venue[o].at = "nowhere" /\ venue[o].filled = 0
  BY DEF Init
<1>2. \A o \in Orders : ~Working(o) /\ Rested(o)
  BY <1>1 DEF Working, Rested, Gone, Unsent
<1>3. Settled
  BY <1>2 DEF Init, Settled, Idle
<1>4. Streams /\ Covered /\ Sides
  BY <1>2 DEF Init, Streams, Covered, Sides, Has, Orders
<1>5. PosIs
  <2>1. ASSUME NEW p \in Opens PROVE pos[p] + Total(Filled, ClosesOf(p)) = row[p].filled
    <3>1. IsFiniteSet(ClosesOf(p)) /\ \A c \in ClosesOf(p) : Filled[c] = 0
      BY <1>1, ClosesAre DEF Filled, Unsent
    <3>2. Total(Filled, ClosesOf(p)) = 0
      BY <3>1, TotalOfNothing
    <3> QED
      BY <1>1, <3>2 DEF Init, Orders, Unsent
  <2> QED
    BY <2>1 DEF PosIs
<1> QED
  BY <1>3, <1>4, <1>5 DEF PatientInv

\* Every step keeps it, as long as Patience holds.
LEMMA PatientStep ==
    ASSUME Patience, BookInv, PatientInv, [Next]_vars
    PROVE  PatientInv'
<1>1. ASSUME NEW o \in Opens, Open(o) PROVE PatientInv'
  <2>1. o \in Orders /\ o \notin Closes /\ Size[o] \in Nat \ {0}
    BY RealBookAssumption DEF Orders
  <2>2. row[o] = Unsent /\ ~Busy(o) /\ ~Opposite(o) /\ Place(o, Size[o])
    BY <1>1 DEF Open
  <2> QED
    BY <2>1, <2>2, PlacePatient
<1>2. ASSUME NEW c \in Closes, NEW forced \in BOOLEAN, NEW qty \in 1..Size[Target[c]], Close(c, qty, forced)
      PROVE  PatientInv'
  <2>1. c \in Orders /\ c \notin Opens /\ qty \in Nat \ {0} /\ Target[c] \in Opens
    BY RealBookAssumption DEF Orders
  <2>2. row[c] = Unsent /\ ~Busy(c) /\ qty <= pos[Target[c]] /\ Place(c, qty)
    BY <1>2, <2>1 DEF Close, BookInv, Typed
  <2> QED
    BY <2>1, <2>2, PlacePatient
<1>3. ASSUME NEW o \in Orders, ReadList(o) \/ LookUp(o) \/ Cancel(o) PROVE PatientInv'
  BY <1>3, ReadListPatient, LookUpPatient, CancelPatient
<1>4. CASE HouseStep
  BY <1>4, PostPatient, AnsweredPatient, RefundPatient, BookPatient, SavePatient, DeletePatient DEF HouseStep
<1>5. CASE Crash
  <2>1. doing' = Idle /\ UNCHANGED <<now, row, pos, looked, venue>>
    BY <1>5 DEF Crash, Rests, book, market
  <2> QED
    BY <2>1, StepsOn
<1>6. ASSUME NEW o \in Orders, Arrive(o) \/ Fill(o) \/ End(o) PROVE PatientInv'
  BY <1>6, MarketPatient
<1>7. CASE Tick
  BY <1>7, TickPatient
<1>8. CASE UNCHANGED vars
  <2>1. UNCHANGED <<now, row, pos, doing, looked, venue>>
    BY <1>8 DEF vars, book, house, market
  <2>2. Tries(doing.order, doing.attempts) => Tries(doing.order, doing.attempts)'
    BY <2>1 DEF Tries
  <2>3. Gone(doing.order, doing.status) => Gone(doing.order, doing.status)'
    BY <2>1 DEF Gone
  <2> QED
    BY <2>1, <2>2, <2>3, MovesOn DEF PatientInv, Settled
<1> QED
  BY <1>1, <1>2, <1>3, <1>4, <1>5, <1>6, <1>7, <1>8 DEF Next
-----------------------------------------------------------------------------
\* What the rows of a position's closes show.
LEMMA BookedAddUp ==
    ASSUME NEW p \in Opens, NEW w, \A c \in ClosesOf(p) : w[c] = row[c].filled
    PROVE  MapThenSumSet(LAMBDA c : row[c].filled, ClosesOf(p)) = Total(w, ClosesOf(p))
<1>1. PICK S : S = ClosesOf(p)
  OBVIOUS
<1> DEFINE P(g) == g = [s \in SUBSET S |-> IF s = {} THEN 0
                          ELSE (row[AnyOf(s)].filled) + g[s \ {AnyOf(s)}]]
           h == CHOOSE g : P(g)
<1>2. MapThenSumSet(LAMBDA c : row[c].filled, S) = h[S]
  BY DEF MapThenSumSet, MapThenFoldSet, AnyOf
<1>3. \A s \in SUBSET S : s # {} => (row[AnyOf(s)].filled) = w[AnyOf(s)]
  <2>1. \A s \in SUBSET S : s # {} => AnyOf(s) \in S
    BY AnyIn
  <2> QED
    BY <1>1, <2>1
<1>4. \A g : P(g) <=> Adds(g, w, S)
  BY <1>3 DEF Adds
<1>5. IsFiniteSet(S)
  BY <1>1, ClosesAre
<1>6. \E g : P(g)
  BY <1>4, <1>5, AddsExists
<1>7. P(h)
  <2> HIDE DEF P
  <2> QED
    BY <1>6
<1>8. Adds(h, w, S)
  <2> HIDE DEF h, P
  <2> QED
    BY <1>4, <1>7
<1> HIDE DEF h
<1>9. h[S] = Total(w, S)
  BY <1>5, <1>8, TotalAdds
<1> QED
  BY <1>1, <1>2, <1>9

\* What the venue has filled of them.
LEMMA ClosedAddUp ==
    ASSUME NEW p \in Opens, NEW w, \A c \in ClosesOf(p) : w[c] = venue[c].filled
    PROVE  MapThenSumSet(LAMBDA c : venue[c].filled, ClosesOf(p)) = Total(w, ClosesOf(p))
<1>1. PICK S : S = ClosesOf(p)
  OBVIOUS
<1> DEFINE P(g) == g = [s \in SUBSET S |-> IF s = {} THEN 0
                          ELSE (venue[AnyOf(s)].filled) + g[s \ {AnyOf(s)}]]
           h == CHOOSE g : P(g)
<1>2. MapThenSumSet(LAMBDA c : venue[c].filled, S) = h[S]
  BY DEF MapThenSumSet, MapThenFoldSet, AnyOf
<1>3. \A s \in SUBSET S : s # {} => (venue[AnyOf(s)].filled) = w[AnyOf(s)]
  <2>1. \A s \in SUBSET S : s # {} => AnyOf(s) \in S
    BY AnyIn
  <2> QED
    BY <1>1, <2>1
<1>4. \A g : P(g) <=> Adds(g, w, S)
  BY <1>3 DEF Adds
<1>5. IsFiniteSet(S)
  BY <1>1, ClosesAre
<1>6. \E g : P(g)
  BY <1>4, <1>5, AddsExists
<1>7. P(h)
  <2> HIDE DEF P
  <2> QED
    BY <1>6
<1>8. Adds(h, w, S)
  <2> HIDE DEF h, P
  <2> QED
    BY <1>4, <1>7
<1> HIDE DEF h
<1>9. h[S] = Total(w, S)
  BY <1>5, <1>8, TotalAdds
<1> QED
  BY <1>1, <1>2, <1>9

\* What they have closed and may still close.
LEMMA MayCloseAddUp ==
    ASSUME NEW p \in Opens, NEW w, \A c \in ClosesOf(p) : w[c] = IF AtVenue(c) THEN row[c].qty ELSE venue[c].filled
    PROVE  MapThenSumSet(LAMBDA c : IF AtVenue(c) THEN row[c].qty ELSE venue[c].filled, ClosesOf(p)) = Total(w, ClosesOf(p))
<1>1. PICK S : S = ClosesOf(p)
  OBVIOUS
<1> DEFINE P(g) == g = [s \in SUBSET S |-> IF s = {} THEN 0
                          ELSE (IF AtVenue(AnyOf(s)) THEN row[AnyOf(s)].qty ELSE venue[AnyOf(s)].filled) + g[s \ {AnyOf(s)}]]
           h == CHOOSE g : P(g)
<1>2. MapThenSumSet(LAMBDA c : IF AtVenue(c) THEN row[c].qty ELSE venue[c].filled, S) = h[S]
  BY DEF MapThenSumSet, MapThenFoldSet, AnyOf
<1>3. \A s \in SUBSET S : s # {} => (IF AtVenue(AnyOf(s)) THEN row[AnyOf(s)].qty ELSE venue[AnyOf(s)].filled) = w[AnyOf(s)]
  <2>1. \A s \in SUBSET S : s # {} => AnyOf(s) \in S
    BY AnyIn
  <2> QED
    BY <1>1, <2>1
<1>4. \A g : P(g) <=> Adds(g, w, S)
  BY <1>3 DEF Adds
<1>5. IsFiniteSet(S)
  BY <1>1, ClosesAre
<1>6. \E g : P(g)
  BY <1>4, <1>5, AddsExists
<1>7. P(h)
  <2> HIDE DEF P
  <2> QED
    BY <1>6
<1>8. Adds(h, w, S)
  <2> HIDE DEF h, P
  <2> QED
    BY <1>4, <1>7
<1> HIDE DEF h
<1>9. h[S] = Total(w, S)
  BY <1>5, <1>8, TotalAdds
<1> QED
  BY <1>1, <1>2, <1>9

\* Where every order is, what is booked of it and what is held, while patience lasts.
THEOREM PatientHolds == ASSUME Patience PROVE Spec => [](BookInv /\ PatientInv)
<1>1. Init => BookInv /\ PatientInv
  BY BookInit, PatientInit
<1>2. BookInv /\ PatientInv /\ [Next]_vars => (BookInv /\ PatientInv)'
  BY BookStep, PatientStep
<1> QED
  BY <1>1, <1>2, PTL DEF Spec

\* Every fill is booked once, and into its position, whatever crash came between two commits
\* and however often the venue showed it (_absorb, _book, the floor of a close at nothing).
THEOREM FillsBookedOnce == ASSUME Patience PROVE Spec => []BookedOnce
<1>1. BookInv /\ PatientInv => BookedOnce
  <2> SUFFICES ASSUME BookInv, PatientInv PROVE BookedOnce
    OBVIOUS
  <2>1. \A o \in Orders : row[o].filled <= venue[o].filled
    BY DEF BookInv, Stands
  <2>2. ASSUME NEW p \in Opens
        PROVE  pos[p] + MapThenSumSet(LAMBDA c : row[c].filled, {c \in Closes : Target[c] = p}) = row[p].filled
    <3>1. \A c \in ClosesOf(p) : Filled[c] = row[c].filled
      BY ClosesAre DEF Filled
    <3>2. MapThenSumSet(LAMBDA c : row[c].filled, ClosesOf(p)) = Total(Filled, ClosesOf(p))
      BY <3>1, BookedAddUp
    <3> QED
      BY <3>2 DEF PatientInv, PosIs, ClosesOf
  <2> QED
    BY <2>1, <2>2 DEF BookedOnce
<1> QED
  BY <1>1, PatientHolds, PTL

\* Two orders of the account are never at the venue on one contract, an order that was given
\* up among them (path_refusal's one order stream, look_up's patience).
THEOREM StreamsStayOne == ASSUME Patience PROVE Spec => []OneStream
<1>1. BookInv /\ PatientInv => OneStream
  <2> SUFFICES ASSUME BookInv, PatientInv PROVE OneStream
    OBVIOUS
  <2>1. \A o \in Orders : AtVenue(o) => Working(o)
    BY DEF AtVenue, PatientInv, Settled, Rested, Gone
  <2> QED
    BY <2>1 DEF OneStream, PatientInv, Streams
<1> QED
  BY <1>1, PatientHolds, PTL

\* What the closes of a position have closed and may still close is never more than its
\* open filled: of its closes one at most is working, and that one asks for what is left.
THEOREM ClosesStayWithin == ASSUME Patience PROVE Spec => []NoOverClose
<1>1. BookInv /\ PatientInv => NoOverClose
  <2> SUFFICES ASSUME BookInv, PatientInv, NEW p \in Opens
               PROVE  MapThenSumSet(LAMBDA c : IF AtVenue(c) THEN row[c].qty ELSE venue[c].filled,
                                    {c \in Closes : Target[c] = p}) <= venue[p].filled
    BY DEF NoOverClose
  <2>1. PICK S : S = ClosesOf(p)
    OBVIOUS
  <2>2. IsFiniteSet(S) /\ S \subseteq Closes /\ S \subseteq Orders
    BY <2>1, ClosesAre
  <2>3. PICK v : v = [c \in S |-> IF AtVenue(c) THEN row[c].qty ELSE venue[c].filled]
    OBVIOUS
  <2>4. MapThenSumSet(LAMBDA c : IF AtVenue(c) THEN row[c].qty ELSE venue[c].filled, ClosesOf(p)) = Total(v, S)
    BY <2>1, <2>3, MayCloseAddUp
  <2>5. PICK f : f = Filled
    OBVIOUS
  <2>6. pos[p] + Total(f, S) = row[p].filled /\ row[p].filled <= venue[p].filled
        /\ pos[p] \in Nat /\ row[p].filled \in Nat /\ venue[p].filled \in Nat
    BY <2>1, <2>5 DEF PatientInv, PosIs, BookInv, Stands, Typed, Rows, Orders
  <2>7. ASSUME NEW c \in S
        PROVE  /\ v[c] \in Int /\ f[c] \in Int /\ f[c] = row[c].filled
               /\ ~Working(c) => v[c] = f[c]
               /\ Working(c) => v[c] <= f[c] + pos[p]
    <3>1. /\ c \in Orders /\ c \in Closes /\ Target[c] = p /\ Stands(c) /\ Rested(c)
          /\ row[c].filled \in Nat /\ row[c].qty \in Nat /\ venue[c].filled \in Nat
      BY <2>1, <2>2 DEF ClosesOf, BookInv, Typed, Rows, PatientInv, Settled
    <3>2. f[c] = row[c].filled /\ v[c] = (IF AtVenue(c) THEN row[c].qty ELSE venue[c].filled)
      BY <2>3, <2>5, <3>1 DEF Filled
    <3>3. ~Working(c) => v[c] = f[c]
      BY <3>1, <3>2 DEF Rested, Gone, AtVenue
    <3>4. v[c] <= row[c].qty
      BY <3>1, <3>2 DEF Stands
    <3>5. Working(c) => row[c].qty <= row[c].filled + pos[p]
      BY <3>1 DEF PatientInv, Covered
    <3> QED
      BY <2>6, <3>1, <3>2, <3>3, <3>4, <3>5
  <2>8. Total(v, S) <= Total(f, S) + pos[p] /\ Total(v, S) \in Int /\ Total(f, S) \in Int
    <3>0. \A c \in S : v[c] \in Int /\ f[c] \in Int
      BY <2>7
    <3>1. Total(v, S) \in Int /\ Total(f, S) \in Int
      BY <2>2, <3>0, TotalType
    <3>2. CASE \A c \in S : ~Working(c)
      <4>1. \A c \in S : v[c] = f[c]
        BY <2>7, <3>2
      <4>2. Total(v, S) = Total(f, S)
        BY <2>2, <4>1, TotalSame
      <4> QED
        BY <2>6, <3>1, <4>2
    <3>3. CASE \E c \in S : Working(c)
      <4>1. PICK c \in S : Working(c)
        BY <3>3
      <4>2. ASSUME NEW q \in S \ {c} PROVE ~Working(q)
        <5>1. q \in Orders /\ c \in Orders /\ LegsOf(q) = LegsOf(c) /\ LegsOf(c) # {}
          BY <2>1, <2>2, OrdersHaveLegs, RealBookAssumption DEF LegsOf, PositionOf, ClosesOf
        <5> QED
          BY <4>1, <5>1 DEF PatientInv, Streams
      <4>3. \A q \in S \ {c} : v[q] = f[q]
        BY <2>7, <4>2
      <4>4. Total(v, S) = Total(f, S) + v[c] - f[c]
        BY <2>2, <3>0, <4>3, TotalChanges
      <4>5. v[c] <= f[c] + pos[p] /\ v[c] \in Int /\ f[c] \in Int
        BY <2>7, <4>1
      <4> QED
        BY <2>6, <3>1, <4>4, <4>5
    <3> QED
      BY <3>2, <3>3
  <2>9. Total(v, S) <= venue[p].filled
    BY <2>6, <2>8
  <2> QED
    BY <2>4, <2>9 DEF ClosesOf
<1> QED
  BY <1>1, PatientHolds, PTL

\* One family's open never closes another's leg (path_refusal: opposite, and one stream).
THEOREM SidesStayOne == ASSUME Patience PROVE Spec => []OneSide
<1>1. BookInv /\ PatientInv => OneSide
  <2> SUFFICES ASSUME BookInv, PatientInv PROVE OneSide
    OBVIOUS
  <2>1. ASSUME NEW p \in Opens, Held(p) > 0 \/ AtVenue(p) PROVE Has(p)
    <3>1. PICK S : S = ClosesOf(p)
      OBVIOUS
    <3>2. IsFiniteSet(S) /\ S \subseteq Orders /\ p \in Orders
      BY <3>1, ClosesAre DEF Orders
    <3>3. PICK v : v = [c \in S |-> venue[c].filled]
      OBVIOUS
    <3>4. Held(p) = venue[p].filled - Total(v, S)
      BY <3>1, <3>3, ClosedAddUp DEF Held, ClosesOf
    <3>5. PICK f : f = Filled
      OBVIOUS
    <3>6. pos[p] + Total(f, S) = row[p].filled /\ pos[p] \in Nat /\ row[p].filled \in Nat /\ Rested(p)
      BY <3>1, <3>2, <3>5 DEF PatientInv, PosIs, Settled, BookInv, Typed, Rows
    <3>7. \A c \in S : f[c] \in Int /\ v[c] \in Int /\ f[c] <= v[c]
      BY <3>2, <3>3, <3>5 DEF Filled, BookInv, Typed, Rows, Stands
    <3>8. Total(f, S) <= Total(v, S) /\ Total(f, S) \in Int /\ Total(v, S) \in Int
      BY <3>2, <3>7, TotalBelow, TotalType
    <3>9. CASE Working(p)
      BY <3>9 DEF Has
    <3>10. CASE ~Working(p)
      <4>1. venue[p].filled = row[p].filled /\ ~AtVenue(p)
        BY <3>6, <3>10 DEF Rested, Gone, AtVenue
      <4>2. pos[p] > 0
        BY <2>1, <3>4, <3>6, <3>8, <4>1
      <4> QED
        BY <4>2 DEF Has
    <3> QED
      BY <3>9, <3>10
  <2>2. \A p, q \in Opens : Has(p) /\ Has(q) =>
          \A k \in LegsOf(p) \cap LegsOf(q) : Structure[p][k] = Structure[q][k]
    BY DEF PatientInv, Sides
  <2> QED
    BY <2>1, <2>2 DEF OneSide
<1> QED
  BY <1>1, PatientHolds, PTL
=============================================================================
