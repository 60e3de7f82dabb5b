------------------------------ MODULE RealBook ------------------------------
(***************************************************************************)
(* The order path of the real options book (league/live/real.py: RealBook; *)
(* league/live/venue.py: Account.submit and cancel) against the venue.     *)
(*                                                                         *)
(* The House is one thread.  An order's row is committed before its POST,  *)
(* its legs are counted before its POST, and nothing is sent twice: an     *)
(* answer that is lost, or a row found pending after a crash, is looked up *)
(* by its client id, given up as lost when the venue does not show it, and *)
(* taken back when the venue shows it after all.  What a reading of the    *)
(* venue says is booked in commits of their own, with a crash possible     *)
(* between any two.  Each action below is one commit, one request or one   *)
(* answer.                                                                 *)
(*                                                                         *)
(* A structure's legs fill together: `units` are the whole structures a    *)
(* row shows.  A row whose legs cannot be read yet changes nothing and is  *)
(* left out, as is one that says nothing new.  Prices, fees, buying power, *)
(* reconciliation and its freeze, broken structures and expiry, and orders *)
(* of an earlier day are left out.                                         *)
(***************************************************************************)
EXTENDS Integers, FiniteSets, FiniteSetsExt

CONSTANTS
    Opens,         \* opening orders; each has a position of its own
    Closes,        \* closing orders
    Structure,     \* the legs of each opening order: contract -> side, 1 or -1
    Size,          \* the units of each opening order
    Target,        \* the position each closing order is of
    MaxOrdersDay,  \* order_path.max_orders_day
    ForcedRoom,    \* forced_reserve: the room only the House's own exits may use
    MaxAttempts,   \* look_up: attempts after which an order is lost
    LostAfter,     \* look_up: or this long after it was placed
    Transit,       \* a POST reaches the venue, or never does, within this time
    Horizon,       \* bound: the clock stops here
    MaxCrashes,    \* bound: crashes
    MaxCancels     \* bound: cancels of the day

Orders == Opens \cup Closes

ASSUME RealBookAssumption ==
    /\ Opens \cap Closes = {} /\ IsFiniteSet(Orders)
    /\ \A o \in Opens : /\ IsFiniteSet(DOMAIN Structure[o]) /\ DOMAIN Structure[o] # {}
                        /\ \A k \in DOMAIN Structure[o] : Structure[o][k] \in {1, -1}
    /\ Size \in [Opens -> Nat \ {0}]
    /\ Target \in [Closes -> Opens]
    /\ {MaxOrdersDay, ForcedRoom, MaxAttempts, LostAfter, Transit, Horizon, MaxCrashes, MaxCancels} \subseteq Nat

VARIABLES
    now,      \* the clock, in minutes
    row,      \* the orders' rows: [status, qty, filled, placed, attempts]
    pos,      \* the positions' rows: units held of each structure
    counted,  \* dispatch_counts: the orders whose legs are counted
    count,    \* counts_by_day: the legs counted today
    cancels,  \* the cancels counted: an order, and the minute of it (cancel_sent)
    doing,    \* what the House is at, in memory
    looked,   \* the orders looked up this minute
    crashes,  \* how often it has crashed
    venue,    \* each order at the venue: [at, filled]
    deleted   \* history: the cancels whose DELETE went out

book   == <<row, pos, counted, count, cancels>>
house  == <<doing, looked, crashes>>
market == <<venue, deleted>>
vars   == <<now, book, house, market>>

PositionOf(o) == IF o \in Opens THEN o ELSE Target[o]
LegsOf(o) == DOMAIN Structure[PositionOf(o)]
LegCount(o) == Cardinality(LegsOf(o))
Lesser(x, y) == IF x < y THEN x ELSE y
Larger(x, y) == IF x < y THEN y ELSE x

Idle == [step |-> "idle"]
Unsent == [status |-> "none", qty |-> 0, filled |-> 0, placed |-> 0, attempts |-> 0]

\* ROrder.working: self.orders holds these, and load finds them again.
Working(o) == row[o].status \in {"pending", "working", "unknown"}
-----------------------------------------------------------------------------
Init ==
    /\ now = 0
    /\ row = [o \in Orders |-> Unsent]
    /\ pos = [o \in Opens |-> 0]
    /\ counted = {} /\ count = 0 /\ cancels = {}
    /\ doing = Idle /\ looked = {} /\ crashes = 0
    /\ venue = [o \in Orders |-> [at |-> "nowhere", filled |-> 0]]
    /\ deleted = {}

At(step) == doing.step = step
Goes(step) == doing' = [doing EXCEPT !.step = step]
Rests == doing' = Idle

\* Bug: an order whose outcome is unknown keeps nothing busy.
BusySure(o) == \E q \in Orders : row[q].status \in {"pending", "working"} /\ LegsOf(q) \cap LegsOf(o) # {}

\* path_refusal: one order stream per contract.
Busy(o) == \E q \in Orders : Working(q) /\ LegsOf(q) \cap LegsOf(o) # {}

\* What the account holds of a contract: held_net (working opens are Busy here).
Net(k) == MapThenSumSet(LAMBDA p : pos[p] * Structure[p][k], {p \in Opens : k \in LegsOf(p)})

\* Bug: the sign is the wrong way round.
OppositeSame(o) == \E k \in LegsOf(o) : Net(k) * Structure[o][k] > 0

\* path_refusal: an open takes the other side of a contract held.
Opposite(o) == \E k \in LegsOf(o) : Net(k) * Structure[o][k] < 0

\* exit_reserve: every open structure's legs, twice.
ExitReserve == MapThenSumSet(LAMBDA p : 2 * LegCount(p), {p \in Opens : pos[p] > 0})

\* new_order: the row is committed, and the order sent at once.
Place(o, qty) ==
    /\ row' = [row EXCEPT ![o] = [status |-> "pending", qty |-> qty, filled |-> 0,
                                  placed |-> now, attempts |-> 0]]
    /\ doing' = [step |-> "count", order |-> o]
    /\ UNCHANGED <<now, pos, counted, count, cancels, looked, crashes, market>>

Open(o) ==
    /\ At("idle")
    /\ row[o] = Unsent
    /\ ~Busy(o)
    /\ ~Opposite(o)
    /\ count + LegCount(o) + ExitReserve <= MaxOrdersDay
    /\ Place(o, Size[o])

\* A program's close leaves the House its room; the House's own does not ask.
Close(c, qty, forced) ==
    /\ At("idle")
    /\ row[c] = Unsent
    /\ qty \in 1..pos[Target[c]]
    /\ ~Busy(c)
    /\ forced \/ count + LegCount(c) + ForcedRoom <= MaxOrdersDay
    /\ Place(c, qty)
-----------------------------------------------------------------------------
\* Bug: the legs are counted when the answer is there, not before the POST.
CountDispatchLater ==
    /\ At("count")
    /\ Goes("post")
    /\ UNCHANGED <<now, book, looked, crashes, market>>

\* _count_dispatch: once for each order.
Counted(o) ==
    /\ counted' = counted \cup {o}
    /\ count' = IF o \in counted THEN count ELSE count + LegCount(o)

CountDispatch ==
    /\ At("count")
    /\ Counted(doing.order)
    /\ Goes("post")
    /\ UNCHANGED <<now, row, pos, cancels, looked, crashes, market>>

\* submit: the POST leaves; an open may find the minute's requests spent and never go.
Post ==
    /\ At("post")
    /\ \/ /\ venue' = [venue EXCEPT ![doing.order].at = "onway"]
          /\ Goes("wait")
       \/ /\ doing.order \in Opens
          /\ doing' = [step |-> "refund", order |-> doing.order]
          /\ UNCHANGED venue
    /\ UNCHANGED <<now, book, looked, crashes, deleted>>

\* The House has a row of `o` in hand.  `was` is the status it has in memory meanwhile.
\* An order that ended short of its quantity has all its legs; one that is filled may not.
RowsOf(o) ==
    LET n == venue[o].filled IN
    IF venue[o].at = "over" /\ n < row[o].qty THEN {n} ELSE 0..n

\* _absorb's status, "ended" for cancelled, expired and rejected alike: a filled order whose
\* legs have not all said so keeps working.
StatusOf(o, units) ==
    CASE venue[o].at = "live"                             -> "working"
      [] venue[o].at = "over" /\ venue[o].filled < row[o].qty -> "ended"
      [] OTHER -> IF units < row[o].qty /\ row[o].filled < row[o].qty THEN "working" ELSE "filled"

Absorbs(o, units, was, attempts) ==
    doing' = [step |-> "book", order |-> o, units |-> units,
              was |-> was, status |-> StatusOf(o, units), attempts |-> attempts]

Saves(o, status, filled, attempts) ==
    doing' = [step |-> "save", order |-> o, status |-> status, filled |-> filled, attempts |-> attempts]

\* send, once submit returns; what it raises leaves the row as a crash would.
Answered ==
    /\ At("wait")
    /\ LET o == doing.order IN
         \/ /\ venue[o].at \in {"live", "over"}
            /\ \E units \in RowsOf(o) : Absorbs(o, units, "working", 1)
         \/ Saves(o, "unknown", 0, 1)
         \/ venue[o].at = "rejected" /\ Saves(o, "rejected", 0, 1)
         \/ venue[o].at = "never" /\ doing' = [step |-> "refund", order |-> o]
    /\ UNCHANGED <<now, book, looked, crashes, market>>

\* Bug: the reservation's row outlives the refund.
RefundKept ==
    /\ At("refund")
    /\ count' = count - LegCount(doing.order)
    /\ Saves(doing.order, "refused", 0, 1)
    /\ UNCHANGED <<now, row, pos, counted, cancels, looked, crashes, market>>

\* _refund_dispatch: the gateway refused it, or it was not sent at all.
Refund ==
    /\ At("refund")
    /\ LET o == doing.order IN
         /\ counted' = counted \ {o}
         /\ count' = IF o \in counted THEN count - LegCount(o) ELSE count
         /\ Saves(o, "refused", 0, 1)
    /\ UNCHANGED <<now, row, pos, cancels, looked, crashes, market>>
-----------------------------------------------------------------------------
\* ingest: a row of the session's list.  An order given up on is taken back.
ReadList(o) ==
    /\ At("idle")
    /\ venue[o].at \in {"live", "over"}
    /\ Working(o) \/ row[o].status \in {"lost", "refused"}
    /\ \E units \in RowsOf(o) :
         /\ units > row[o].filled \/ StatusOf(o, units) # row[o].status
         /\ Absorbs(o, units, IF Working(o) THEN row[o].status ELSE "working", row[o].attempts)
    /\ UNCHANGED <<now, book, looked, crashes, market>>

\* Bug: an order the venue does not show once is lost.
GivenUpAtOnce(o) == TRUE

\* look_up's patience with an order the venue does not show.
GivenUp(o) == row[o].attempts + 1 >= MaxAttempts \/ now - row[o].placed > LostAfter

\* look_up, of an order whose outcome is unknown; a read that fails changes nothing.
LookUp(o) ==
    /\ At("idle")
    /\ o \notin looked
    /\ row[o].status \in {"pending", "unknown"} /\ now > row[o].placed
    /\ looked' = looked \cup {o}
    /\ \/ /\ venue[o].at \in {"nowhere", "onway", "never", "rejected"}
          /\ Saves(o, IF GivenUp(o) THEN "lost" ELSE row[o].status, row[o].filled, row[o].attempts + 1)
       \/ /\ venue[o].at \in {"live", "over"}
          /\ \E units \in RowsOf(o) : Absorbs(o, units, row[o].status, row[o].attempts)
    /\ UNCHANGED <<now, book, crashes, market>>

\* _book: the units into the position, a close's never below nothing.
Booked(o, units) ==
    pos' = [pos EXCEPT ![PositionOf(o)] =
              IF o \in Opens THEN @ + units ELSE @ - Lesser(units, @)]

\* Bug: the position is committed first, and the order's progress with its status.
BookApart ==
    /\ At("book")
    /\ Counted(doing.order)
    /\ LET o == doing.order
           filled == Larger(doing.units, row[o].filled) IN
         /\ Booked(o, filled - row[o].filled)
         /\ Saves(o, doing.status, filled, doing.attempts)
    /\ UNCHANGED <<now, row, cancels, looked, crashes, market>>

\* _absorb: the order is counted, should it not be, and the fill, the position and the
\* order's progress commit together.
Book ==
    /\ At("book")
    /\ Counted(doing.order)
    /\ LET o == doing.order
           filled == Larger(doing.units, row[o].filled) IN
         /\ Booked(o, filled - row[o].filled)
         /\ row' = IF filled = row[o].filled THEN row
                   ELSE [row EXCEPT ![o].filled = filled, ![o].status = doing.was,
                                    ![o].attempts = doing.attempts]
         /\ Saves(o, doing.status, filled, doing.attempts)
    /\ UNCHANGED <<now, cancels, looked, crashes, market>>

\* _save_order.
Save ==
    /\ At("save")
    /\ row' = [row EXCEPT ![doing.order].status = doing.status,
                          ![doing.order].filled = doing.filled,
                          ![doing.order].attempts = doing.attempts]
    /\ Rests
    /\ UNCHANGED <<now, pos, counted, count, cancels, looked, crashes, market>>

\* The row has the venue's id of its order: it was read since, or filled.
HasId(o) == row[o].status = "working" \/ row[o].filled > 0

\* cancel: counted, committed, and then the DELETE, which the venue heeds while it can.  An
\* order may be cancelled again, in a later minute: the first may not have gone through.
Cancel(o) ==
    /\ At("idle")
    /\ Working(o) /\ HasId(o)
    /\ <<o, now>> \notin cancels
    /\ Cardinality(cancels) < MaxCancels
    /\ cancels' = cancels \cup {<<o, now>>}
    /\ count' = count + LegCount(o)
    /\ doing' = [step |-> "delete", order |-> o]
    /\ UNCHANGED <<now, row, pos, counted, looked, crashes, market>>

Delete ==
    /\ At("delete")
    /\ deleted' = deleted \cup {<<doing.order, now>>}
    /\ \/ venue[doing.order].at = "live" /\ venue' = [venue EXCEPT ![doing.order].at = "over"]
       \/ UNCHANGED venue
    /\ Rests
    /\ UNCHANGED <<now, book, looked, crashes>>

\* The process ends, and is back with what is committed.  At rest it has nothing to lose.
Crash ==
    /\ doing # Idle
    /\ crashes < MaxCrashes
    /\ crashes' = crashes + 1
    /\ Rests
    /\ UNCHANGED <<now, book, looked, market>>
-----------------------------------------------------------------------------
\* The House's other steps read nothing of the venue, so a move of the venue among them
\* may as well come before the first of them.
VenueMay == doing.step \in {"idle", "wait"}

VenueGoes(o, at) ==
    /\ VenueMay
    /\ venue' = [venue EXCEPT ![o].at = at]
    /\ UNCHANGED <<now, book, house, deleted>>

\* A POST is refused by the gateway or lost on its way, rejected without a row of it at the
\* venue, taken, or kept as a row that is over at once: its status there is "rejected", which
\* a reading takes as it takes any other end (StatusOf).
Arrive(o) ==
    venue[o].at = "onway" /\ \E at \in {"never", "rejected", "live", "over"} : VenueGoes(o, at)

Fill(o) ==
    /\ VenueMay
    /\ venue[o].at = "live"
    /\ venue' = [venue EXCEPT ![o] =
                   [at |-> IF @.filled + 1 = row[o].qty THEN "over" ELSE "live", filled |-> @.filled + 1]]
    /\ UNCHANGED <<now, book, house, deleted>>

\* Cancelled, expired or rejected at the venue.
End(o) == venue[o].at = "live" /\ VenueGoes(o, "over")

\* The House's own steps take no time but the wait for an answer.
Tick ==
    /\ now < Horizon
    /\ doing.step \in {"idle", "wait"}
    /\ \A o \in Orders :
         venue[o].at = "onway" \/ (doing.step = "wait" /\ doing.order = o)
           => now < row[o].placed + Transit
    /\ now' = now + 1
    /\ looked' = {}
    /\ UNCHANGED <<book, doing, crashes, market>>

HouseStep == CountDispatch \/ Post \/ Answered \/ Refund \/ Book \/ Save \/ Delete

Next ==
    \/ \E o \in Opens : Open(o)
    \/ \E c \in Closes, forced \in BOOLEAN : \E qty \in 1..Size[Target[c]] : Close(c, qty, forced)
    \/ \E o \in Orders : ReadList(o) \/ LookUp(o) \/ Cancel(o)
    \/ HouseStep
    \/ Crash
    \/ \E o \in Orders : Arrive(o) \/ Fill(o) \/ End(o)
    \/ Tick

Spec == Init /\ [][Next]_vars
-----------------------------------------------------------------------------
Statuses == {"none", "pending", "working", "unknown", "filled", "ended", "rejected", "refused", "lost"}
Places   == {"nowhere", "onway", "never", "rejected", "live", "over"}

\* Every variable has its type; the day's count is what is counted, orders and cancels.
TypeOK ==
    /\ now \in 0..Horizon /\ crashes \in 0..MaxCrashes
    /\ row \in [Orders -> [status : Statuses, qty : Nat, filled : Nat, placed : 0..Horizon, attempts : Nat]]
    /\ pos \in [Opens -> Nat]
    /\ counted \subseteq Orders /\ looked \subseteq Orders
    /\ cancels \subseteq Orders \X (0..Horizon) /\ deleted \subseteq Orders \X (0..Horizon)
    /\ count = MapThenSumSet(LegCount, counted) + MapThenSumSet(LAMBDA x : LegCount(x[1]), cancels)
    /\ venue \in [Orders -> [at : Places, filled : Nat]]

\* Every fill is booked once: a position is what its open has booked less what its closes
\* have, and nothing is booked the venue did not fill, whatever crash came between two
\* commits and however often a fill was read.
BookedOnce ==
    /\ \A o \in Orders : row[o].filled <= venue[o].filled
    /\ \A p \in Opens :
         pos[p] + MapThenSumSet(LAMBDA c : row[c].filled, {c \in Closes : Target[c] = p}) = row[p].filled

\* The day's count is never behind the venue: an order it has, and a cancel that went out,
\* are counted, through crashes, refunds and orders taken back.
CountCovers ==
    /\ \A o \in Orders : venue[o].at \in {"onway", "rejected", "live", "over"} => o \in counted
    /\ deleted \subseteq cancels

AtVenue(o) == venue[o].at \in {"onway", "live"}

\* Never two orders of the account on one contract at the venue, given up or not.
OneStream ==
    \A o, q \in Orders : o # q /\ AtVenue(o) /\ AtVenue(q) => LegsOf(o) \cap LegsOf(q) = {}

\* What the closes of a position have closed and may still close is what its open filled.
NoOverClose ==
    \A p \in Opens :
      MapThenSumSet(LAMBDA c : IF AtVenue(c) THEN row[c].qty ELSE venue[c].filled,
                    {c \in Closes : Target[c] = p}) <= venue[p].filled

\* One family's open never closes another's leg: two structures the account holds, or may
\* come to hold, are on the same side of a contract they share.
Held(p) == venue[p].filled - MapThenSumSet(LAMBDA c : venue[c].filled, {c \in Closes : Target[c] = p})
OneSide ==
    \A p, q \in Opens :
      (Held(p) > 0 \/ AtVenue(p)) /\ (Held(q) > 0 \/ AtVenue(q)) =>
        \A k \in LegsOf(p) \cap LegsOf(q) : Structure[p][k] = Structure[q][k]
=============================================================================
