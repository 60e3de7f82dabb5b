----------------------------- MODULE ClaudeCalls -----------------------------
(***************************************************************************)
(* The House's books of its Claude calls (league/swarm/models.py:          *)
(* _ClaudeHold, _claude_admit, _ask_claude and settle_claude_holds) over   *)
(* the gateway's meter.                                                    *)
(*                                                                         *)
(* A call's hold is booked and filed in one transaction before the gateway *)
(* hears of it.  Its answer, or the true-up that reads the gateway's       *)
(* record of it, takes the filing out and books the cost in one            *)
(* transaction, whichever comes first.  The request, the answer, the       *)
(* Worker and the House can each be lost in between.                       *)
(*                                                                         *)
(* settle_claude_holds reads and books its calls one after another; here a *)
(* pass may have read several before it books any, which only adds orders. *)
(* A gateway that cannot be read leaves every filing as it is.             *)
(***************************************************************************)
EXTENDS ClaudeMeter

CONSTANTS
    Hold0,        \* what the House holds for each call
    UsdCap,       \* claude.usd_cap, the House's own line for Claude
    MinAge,       \* settle_claude_holds: min_age
    AbsentAfter,  \* settle_claude_holds: absent_after
    Delivery,     \* a request reaches the gateway this long after its filing, or never
    AdmitBy       \* bound: no call is admitted later

ASSUME ClaudeCallsAssumption ==
    /\ Hold0 \in [Calls -> Nat \ {0}]
    /\ \A c \in Calls : Worst[c] <= Hold0[c]
    /\ {UsdCap, MinAge, AbsentAfter, Delivery, AdmitBy} \subseteq Nat

VARIABLES
    house,     \* where the House's caller of each call is: idle, asking or left
    filed,     \* kv claude_unsettled
    filedAt,   \* when each was filed
    spend,     \* what the House's books hold of each call
    sent,      \* requests on their way to the gateway
    answer,    \* the answer on its way to each caller
    view       \* what the true-up read of each call and has not booked yet

houseVars == <<house, filed, filedAt, spend, view>>
vars      == <<now, meterVars, houseVars, sent, answer>>

None   == [kind |-> "none", cost |-> 0]
Answer == [kind : {"none", "cost", "unverified"}, cost : Nat]
View   == [read : BOOLEAN, cost : Nat]
Unread == [read |-> FALSE, cost |-> 0]

Spent == MapThenSumSet(LAMBDA c : spend[c], Calls)
\* Bug: the room left by the cap forgets what other calls have on hold.
CapRoomSettled == Floor(UsdCap - MapThenSumSet(LAMBDA c : spend[c], Calls \ filed))

CapRoom == Floor(UsdCap - Floor(Spent))
-----------------------------------------------------------------------------
CallsInit ==
    /\ Init
    /\ house = [c \in Calls |-> "idle"]
    /\ filed = {}
    /\ filedAt = [c \in Calls |-> 0]
    /\ spend = [c \in Calls |-> 0]
    /\ sent = {}
    /\ answer = [c \in Calls |-> None]
    /\ view = [c \in Calls |-> Unread]

\* _claude_admit's transaction, and the request sent once it has committed.
Admit(c) ==
    /\ house[c] = "idle"
    /\ now <= AdmitBy
    /\ CapRoom >= Hold0[c]
    /\ house' = [house EXCEPT ![c] = "asking"]
    /\ filed' = filed \cup {c}
    /\ filedAt' = [filedAt EXCEPT ![c] = now]
    /\ spend' = [spend EXCEPT ![c] = @ + Hold0[c]]
    /\ sent' = sent \cup {c}
    /\ UNCHANGED <<now, meterVars, view, answer>>

\* Bug: the cost is booked without looking whether the call is still filed.
ResolveTwice(c, amount) ==
    /\ filed' = filed \ {c}
    /\ spend' = [spend EXCEPT ![c] = @ + amount - Hold0[c]]

\* Books `amount` in the place of c's hold, only while it is still filed.
Resolve(c, amount) ==
    IF c \in filed
    THEN /\ filed' = filed \ {c}
         /\ spend' = [spend EXCEPT ![c] = @ + amount - Hold0[c]]
    ELSE UNCHANGED <<filed, spend>>

\* The caller hears.  A cost is booked, a refusal among them at nothing; an answer whose
\* cost does not verify leaves the call filed.
Hear(c) ==
    /\ house[c] = "asking"
    /\ answer[c].kind # "none"
    /\ house' = [house EXCEPT ![c] = "left"]
    /\ answer' = [answer EXCEPT ![c] = None]
    /\ IF answer[c].kind = "cost" THEN Resolve(c, answer[c].cost) ELSE UNCHANGED <<filed, spend>>
    /\ UNCHANGED <<now, meterVars, filedAt, view, sent>>

\* The caller's read times out, or its connection breaks: the bill is unknown.
GiveUp(c) ==
    /\ house[c] = "asking"
    /\ house' = [house EXCEPT ![c] = "left"]
    /\ UNCHANGED <<now, meterVars, filed, filedAt, spend, view, sent, answer>>

\* The House stops and starts again: every caller and the true-up's pass are gone.
Restart ==
    /\ \E c \in Calls : house[c] = "asking" \/ view[c] # Unread
    /\ house' = [c \in Calls |-> IF house[c] = "asking" THEN "left" ELSE house[c]]
    /\ view' = [c \in Calls |-> Unread]
    /\ UNCHANGED <<now, meterVars, filed, filedAt, spend, sent, answer>>

\* Bug: a true-up takes a call it finds no record of as one that never arrived, at any age.
TrueUpCostsAtOnce(record, age) ==
    CASE record.state \in {"settled", "unknown"}   -> {record.cost}
      [] record.state \in {"released", "absent"}   -> {0}
      [] OTHER                                     -> {}

\* Bug: a call still held after AbsentAfter is taken as gone with its Worker.
TrueUpCostsHeld(record, age) ==
    CASE record.state \in {"settled", "unknown"}   -> {record.cost}
      [] record.state = "released"                 -> {0}
      [] OTHER                                     -> IF age >= AbsentAfter THEN {0} ELSE {}

\* Bug: it waits for a bill the sweep has long released.
TrueUpCostsSettled(record, age) ==
    CASE record.state \in {"settled", "unknown"} -> {record.cost}
      [] record.state = "absent"                 -> IF age >= AbsentAfter THEN {0} ELSE {}
      [] OTHER                                   -> {}

\* What settle_claude_holds makes of a record at this age: the costs it would book.
TrueUpCosts(record, age) ==
    CASE record.state \in {"settled", "unknown"} -> {record.cost}
      [] record.state = "released"               -> {0}
      [] record.state = "absent"                 -> IF age >= AbsentAfter THEN {0} ELSE {}
      [] OTHER                                   -> {}

ReadRecord(c) ==
    LET age == now - filedAt[c] IN
    /\ c \in filed
    /\ view[c] = Unread
    /\ age >= MinAge
    /\ \E cost \in TrueUpCosts(RecordOf(c), age) :
         view' = [view EXCEPT ![c] = [read |-> TRUE, cost |-> cost]]
    /\ UNCHANGED <<now, meterVars, house, filed, filedAt, spend, sent, answer>>

BookRecord(c) ==
    /\ view[c] # Unread
    /\ Resolve(c, view[c].cost)
    /\ view' = [view EXCEPT ![c] = Unread]
    /\ UNCHANGED <<now, meterVars, house, filedAt, sent, answer>>
-----------------------------------------------------------------------------
Lost(c) == answer' = answer
Told(c, kind, cost) == answer' = [answer EXCEPT ![c] = [kind |-> kind, cost |-> cost]]

LoseRequest(c) ==
    /\ c \in sent
    /\ sent' = sent \ {c}
    /\ UNCHANGED <<now, meterVars, houseVars, answer>>

\* A request reaches its handler; a refusal is answered.
Arrive(c) ==
    /\ c \in sent
    /\ sent' = sent \ {c}
    /\ TurnAway(c) \/ Reserve(c)
    /\ IF stage'[c] = "refused" THEN Told(c, "cost", 0) \/ Lost(c) ELSE Lost(c)
    /\ UNCHANGED <<now, houseVars>>

\* The handler settles; its answer may be lost, or carry a cost that does not verify.
Finish(c) ==
    \E known \in BOOLEAN, cost \in Costs \cup {Worst[c]} :
      /\ Settle(c, known, cost)
      /\ Told(c, "cost", cost) \/ Told(c, "unverified", cost) \/ Lost(c)
      /\ UNCHANGED <<now, houseVars, sent>>

Crash(c) == Die(c) /\ UNCHANGED <<now, houseVars, sent, answer>>

CronSweep == Sweep /\ UNCHANGED <<now, houseVars, sent, answer>>

Pass ==
    /\ \A c \in sent : now < filedAt[c] + Delivery
    /\ Tick
    /\ UNCHANGED <<houseVars, sent, answer>>
-----------------------------------------------------------------------------
\* Everything but admissions and a House that starts again.
CallsStep ==
    \/ \E c \in Calls :
         \/ Hear(c) \/ GiveUp(c) \/ ReadRecord(c) \/ BookRecord(c)
         \/ LoseRequest(c) \/ Arrive(c) \/ Finish(c) \/ Crash(c)
    \/ CronSweep
    \/ Pass

CallsNext == (\E c \in Calls : Admit(c)) \/ Restart \/ CallsStep

CallsSpec ==
    /\ CallsInit
    /\ [][CallsNext]_vars

\* The cron keeps sweeping and the true-up keeps passing over what is filed; the clock
\* goes on, and what is under way at the gateway ends one way or another.  A House that
\* restarts does not do so between every read of a record and its booking.
Fairness ==
    /\ WF_vars(Pass)
    /\ WF_vars(CronSweep)
    /\ \A c \in Calls :
         /\ WF_vars(ReadRecord(c))
         /\ SF_vars(BookRecord(c))
         /\ WF_vars(LoseRequest(c) \/ Arrive(c))
         /\ WF_vars(Finish(c) \/ Crash(c))

FairSpec == CallsSpec /\ Fairness
-----------------------------------------------------------------------------
\* Every variable of the House and of the meter has its type.
HouseTypeOK ==
    /\ TypeOK
    /\ house \in [Calls -> {"idle", "asking", "left"}]
    /\ filed \subseteq Calls /\ sent \subseteq Calls
    /\ filedAt \in [Calls -> 0..Horizon]
    /\ spend \in [Calls -> Nat]
    /\ answer \in [Calls -> Answer]
    /\ view \in [Calls -> View]

\* A call that is off the House's list is over, and the House's books have it at what the
\* gateway booked: whoever books it first, whatever was lost, and once.  The two may part
\* only for a call whose hold was swept before it settled, booked at nothing.
BooksAgree ==
    \A c \in Calls \ filed :
      \/ /\ spend[c] = billed[c]
         /\ c \notin DOMAIN meter.holds
         /\ stage[c] # "calling"
      \/ c \in swept /\ spend[c] = 0

\* All that the gateway holds or has booked of the House's calls is in the House's books,
\* at every moment: under way, lost, given up, booked by the answer or by the true-up.  Only
\* what the meter reports as overruns, and late costs of swept calls, may be missing there.
HouseCovers == meter.spent <= Spent + meter.overrun + Late

\* The House's own line for Claude is passed by overruns alone.
WithinUsdCap ==
    Spent <= UsdCap + MapThenSumSet(LAMBDA c : Floor(billed[c] - Worst[c]), Calls)

\* A call that was filed does not stay filed: its hold is trued up in the end.
FilingsEnd == \A c \in Calls : c \in filed ~> c \notin filed
=============================================================================
