----------------------------- MODULE ClaudeMeter -----------------------------
(***************************************************************************)
(* The gateway's side of a Claude call: the funded meter of the gate       *)
(* (gateway/lib/gate.mjs: claudeMeter to claudeRequest) and the Worker's   *)
(* handler that holds, calls and settles (gateway/lib/router.mjs:          *)
(* claudeCall and claudeStream; the cron's sweep in gateway/worker.mjs).   *)
(*                                                                         *)
(* The owner funds a total that never starts again.  A call's worst case   *)
(* is held before Anthropic hears of it; its settlement replaces the hold  *)
(* with the cost, or keeps the whole hold when the cost is unknown.  The   *)
(* Worker may die between the two: a hold older than StaleHold is swept to *)
(* nothing, and a settlement later than that still books its cost.  What   *)
(* became of the newest RecentRequests is kept for the House to read.      *)
(*                                                                         *)
(* A call stands for its hold's id and for the House's request id, which   *)
(* are both used once.  The tables by agent, role, stop and place, and the *)
(* counters health alone reports, are left out.                            *)
(***************************************************************************)
EXTENDS Integers, FiniteSets, FiniteSetsExt, Functions

CONSTANTS
    Calls,           \* calls, one request each
    Worst,           \* the worst case the gateway holds for each
    Costs,           \* what a call may turn out to cost
    Funded,          \* the total the owner funded
    StaleHold,       \* STALE_HOLD_MS
    RecentRequests,  \* RECENT_REQUESTS
    Deadline,        \* a handler that lives settles within this time of its hold
    Horizon          \* bound: the clock stops here

ASSUME ClaudeMeterAssumption ==
    /\ IsFiniteSet(Calls)
    /\ Worst \in [Calls -> Nat \ {0}]
    /\ Costs \subseteq Nat
    /\ {Funded, StaleHold, RecentRequests, Deadline, Horizon} \subseteq Nat

VARIABLES
    now,      \* the clock
    meter,    \* the meter's row
    stage,    \* where each call's handler is: new, refused, calling, done or dead
    since,    \* when each handler held its worst case
    billed,   \* history: what settlements booked for each call
    swept     \* history: the calls whose hold a sweep has ended

meterVars == <<meter, stage, since, billed, swept>>

Floor(x) == IF x > 0 THEN x ELSE 0
HeldSum(m) == MapThenSumSet(LAMBDA c : m.holds[c].micro, DOMAIN m.holds)
With(f, c, x) == [d \in DOMAIN f \cup {c} |-> IF d = c THEN x ELSE f[d]]
Minus(f, S) == Restrict(f, DOMAIN f \ S)
-----------------------------------------------------------------------------
\* The newest requests on record; of two as old either may be the one that goes.
Newest(recent) ==
    LET kept == IF Cardinality(DOMAIN recent) < RecentRequests
                THEN Cardinality(DOMAIN recent) ELSE RecentRequests
    IN {Restrict(recent, S) : S \in
          {T \in kSubset(kept, DOMAIN recent) :
             \A c \in T, d \in DOMAIN recent \ T : recent[c].at >= recent[d].at}}

\* The rows _claudeWrite may store for m.
Written(m) ==
    {[m EXCEPT !.spent = Floor(@), !.inflight = Floor(@), !.recent = r] : r \in Newest(m.recent)}

Stale(m, at) == {c \in DOMAIN m.holds : at - m.holds[c].at > StaleHold}

\* Bug: the sweep takes a hold out of `inflight` alone.
ReleasedHalf(m, at) ==
    LET S     == Stale(m, at)
        freed == MapThenSumSet(LAMBDA c : m.holds[c].micro, S)
    IN [m EXCEPT !.inflight = @ - freed, !.holds = Minus(@, S),
                 !.recent = [c \in DOMAIN @ \cup S |->
                     IF c \in S THEN [state |-> "released", cost |-> 0, at |-> at] ELSE @[c]]]

Released(m, at) ==
    LET S     == Stale(m, at)
        freed == MapThenSumSet(LAMBDA c : m.holds[c].micro, S)
    IN [m EXCEPT !.spent = @ - freed, !.inflight = @ - freed, !.holds = Minus(@, S),
                 !.recent = [c \in DOMAIN @ \cup S |->
                     IF c \in S THEN [state |-> "released", cost |-> 0, at |-> at] ELSE @[c]]]

\* claudeSweep: what it leaves of m.
Swept(m, at) == IF Stale(m, at) = {} THEN {m} ELSE Written(Released(m, at))

\* A call's worst case held.
Held(m, c, at) ==
    [m EXCEPT !.holds    = With(@, c, [micro |-> Worst[c], at |-> at]),
              !.recent   = With(@, c, [state |-> "held", cost |-> 0, at |-> at]),
              !.spent    = @ + Worst[c],
              !.inflight = @ + Worst[c]]

\* Bug: a cost above its hold is booked and not counted as an overrun.
ReplacedUncounted(m, c, cost, known, at) ==
    IF c \notin DOMAIN m.holds
    THEN [m EXCEPT !.spent = @ + cost]
    ELSE [m EXCEPT !.spent    = @ - m.holds[c].micro + cost,
                   !.inflight = @ - m.holds[c].micro,
                   !.holds    = Minus(@, {c}),
                   !.recent   = With(@, c, [state |-> IF known THEN "settled" ELSE "unknown",
                                            cost |-> cost, at |-> at])]

\* claudeSettle: `cost` in the place of what is still held for c, if anything is.
Replaced(m, c, cost, known, at) ==
    IF c \notin DOMAIN m.holds
    THEN [m EXCEPT !.spent = @ + cost]
    ELSE [m EXCEPT !.spent    = @ - m.holds[c].micro + cost,
                   !.inflight = @ - m.holds[c].micro,
                   !.overrun  = @ + Floor(cost - m.holds[c].micro),
                   !.holds    = Minus(@, {c}),
                   !.recent   = With(@, c, [state |-> IF known THEN "settled" ELSE "unknown",
                                            cost |-> cost, at |-> at])]

\* claudeRequest: what the House is told of c.
RecordOf(c) ==
    IF c \in DOMAIN meter.recent THEN meter.recent[c] ELSE [state |-> "absent", cost |-> 0, at |-> 0]
-----------------------------------------------------------------------------
MeterInit ==
    /\ meter = [spent |-> 0, inflight |-> 0, overrun |-> 0, holds |-> <<>>, recent |-> <<>>]
    /\ stage = [c \in Calls |-> "new"]
    /\ since = [c \in Calls |-> 0]
    /\ billed = [c \in Calls |-> 0]
    /\ swept = {}

\* claudeCall refuses before it reaches the meter, or the kill switch stops it there.
TurnAway(c) ==
    /\ stage[c] = "new"
    /\ stage' = [stage EXCEPT ![c] = "refused"]
    /\ UNCHANGED <<meter, since, billed, swept>>

\* claudeReserve, which sweeps first: its worst case held, or no room for it.
Reserve(c) ==
    /\ stage[c] = "new"
    /\ swept' = swept \cup Stale(meter, now)
    /\ \E m \in Swept(meter, now) :
         \/ /\ m.spent + Worst[c] > Funded
            /\ meter' = m
            /\ stage' = [stage EXCEPT ![c] = "refused"]
            /\ UNCHANGED since
         \/ /\ m.spent + Worst[c] <= Funded
            /\ meter' \in Written(Held(m, c, now))
            /\ stage' = [stage EXCEPT ![c] = "calling"]
            /\ since' = [since EXCEPT ![c] = now]
    /\ UNCHANGED billed

\* The call is over and settled: at its cost, at nothing when no answer came or
\* Anthropic refused it (0 is one of Costs), or at its whole hold when unknown.
Settle(c, known, cost) ==
    /\ stage[c] = "calling"
    /\ cost = Worst[c] \/ known
    /\ meter' \in Written(Replaced(meter, c, cost, known, now))
    /\ billed' = [billed EXCEPT ![c] = @ + cost]
    /\ stage' = [stage EXCEPT ![c] = "done"]
    /\ UNCHANGED <<since, swept>>

\* The Worker is gone, or its settlement failed: the hold stays.
Die(c) ==
    /\ stage[c] = "calling"
    /\ stage' = [stage EXCEPT ![c] = "dead"]
    /\ UNCHANGED <<meter, since, billed, swept>>

\* The cron's sweep.
Sweep ==
    /\ Stale(meter, now) # {}
    /\ meter' \in Swept(meter, now)
    /\ swept' = swept \cup Stale(meter, now)
    /\ UNCHANGED <<stage, since, billed>>

Running == {c \in Calls : stage[c] = "calling"}

Tick ==
    /\ now < Horizon
    /\ \A c \in Running : now < since[c] + Deadline
    /\ now' = now + 1
    /\ UNCHANGED meterVars

Init == now = 0 /\ MeterInit

Next ==
    \/ /\ \E c \in Calls :
            \/ TurnAway(c)
            \/ Reserve(c)
            \/ \E known \in BOOLEAN, cost \in Costs \cup {Worst[c]} : Settle(c, known, cost)
            \/ Die(c)
       /\ UNCHANGED now
    \/ Sweep /\ UNCHANGED now
    \/ Tick

Spec == Init /\ [][Next]_<<now, meterVars>>
-----------------------------------------------------------------------------
Hold   == [micro : Nat, at : Nat]
Record == [state : {"held", "settled", "unknown", "released"}, cost : Nat, at : Nat]

\* Every variable has its type, no more than RecentRequests are on record, and
\* none of them says "held" of a call whose hold is gone.
TypeOK ==
    /\ now \in 0..Horizon
    /\ {meter.spent, meter.inflight, meter.overrun} \subseteq Nat
    /\ swept \subseteq Calls
    /\ DOMAIN meter.holds \subseteq Calls
    /\ \A c \in DOMAIN meter.holds : meter.holds[c] \in Hold
    /\ DOMAIN meter.recent \subseteq Calls
    /\ \A c \in DOMAIN meter.recent : meter.recent[c] \in Record
    /\ Cardinality(DOMAIN meter.recent) <= RecentRequests
    /\ \A c \in DOMAIN meter.recent :
         meter.recent[c].state = "held" => c \in DOMAIN meter.holds
    /\ stage \in [Calls -> {"new", "refused", "calling", "done", "dead"}]
    /\ since \in [Calls -> 0..Horizon]
    /\ billed \in [Calls -> Nat]

\* `spent` is to the cent what is held and what settlements booked, and `inflight` what
\* is held, through every order of sweeps and late settlements (the floor at nothing in
\* _claudeWrite never hides a difference).
MeterAddsUp ==
    /\ meter.inflight = HeldSum(meter)
    /\ meter.spent = HeldSum(meter) + MapThenSumSet(LAMBDA c : billed[c], Calls)

\* What calls cost that settled after a sweep had ended their hold.
Late == MapThenSumSet(LAMBDA c : billed[c], swept)

\* The owner's total: it is passed only by what the meter itself reports as overruns and
\* by the costs of calls whose hold was swept before they settled.
WithinFunded == meter.spent <= Funded + meter.overrun + Late
=============================================================================
