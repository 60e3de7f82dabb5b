----------------------------- MODULE ClaudeAdmit -----------------------------
(***************************************************************************)
(* How the House finds room for a Claude call in the funded total          *)
(* (league/swarm/models.py: claude_funded_room, _claude_since_read and     *)
(* _claude_admit; league/claude.py: ClaudeMeter.remaining), over           *)
(* ClaudeCalls.                                                            *)
(*                                                                         *)
(* The threads of the swarm share one reading of the gateway's meter, as   *)
(* old as Ttl.  A caller takes its room from the reading, then opens the   *)
(* write transaction, where it takes off what the House itself booked      *)
(* since the meter was last read, less a margin for requests under way.    *)
(*                                                                         *)
(* The lines of the research budget, the role and the family are read      *)
(* again inside the transaction, as CapRoom is, and are left out.          *)
(***************************************************************************)
EXTENDS ClaudeCalls

CONSTANTS
    ReserveUsd,   \* claude.reserve_usd, the room kept back
    Ttl,          \* how old the shared reading may be
    Margin        \* METER_MARGIN_SECONDS

VARIABLES
    reading,   \* the shared reading: [at, left, known]; `at` is read without its lock
    asking,    \* whether a thread is asking the gateway, which holds the lock
    room       \* the room each caller has taken from a reading, and whether it has

admitVars == <<reading, asking, room>>

NoRoom  == [taken |-> FALSE, usd |-> 0]
Unasked == [at |-> -Ttl, left |-> 0, known |-> FALSE]

\* What the House has booked since the reading, a margin before it included.
SinceRead ==
    MapThenSumSet(LAMBDA c : spend[c],
                  {c \in Calls : house[c] # "idle" /\ filedAt[c] >= reading.at - Margin})

Least(x, y) == IF x < y THEN x ELSE y
-----------------------------------------------------------------------------
AdmitInit ==
    /\ CallsInit
    /\ reading = Unasked
    /\ asking = FALSE
    /\ room = [c \in Calls |-> NoRoom]

\* remaining, past Ttl: the time of the reading moves at once, and its value only when
\* the gateway has answered.
BeginAsking ==
    /\ ~asking
    /\ now - reading.at >= Ttl
    /\ \E c \in Calls : house[c] = "idle"
    /\ asking' = TRUE
    /\ reading' = [reading EXCEPT !.at = now]
    /\ UNCHANGED <<vars, room>>

EndAsking ==
    /\ asking
    /\ asking' = FALSE
    /\ \/ reading' = [reading EXCEPT !.left = Floor(Funded - meter.spent), !.known = TRUE]
       \/ reading' = [reading EXCEPT !.known = FALSE]
    /\ UNCHANGED <<vars, room>>

\* claude_funded_room, within Ttl.
TakeRoom(c) ==
    /\ house[c] = "idle"
    /\ ~room[c].taken
    /\ ~asking
    /\ now - reading.at < Ttl
    /\ reading.known
    /\ room' = [room EXCEPT ![c] =
                  [taken |-> TRUE, usd |-> Floor(Least(reading.left - ReserveUsd, CapRoom))]]
    /\ UNCHANGED <<vars, reading, asking>>

\* The room left to c when its transaction reads everything again.
RoomNow(c) == Least(room[c].usd - SinceRead, CapRoom)

AdmitInRoom(c) ==
    /\ room[c].taken
    /\ RoomNow(c) >= Hold0[c]
    /\ Admit(c)
    /\ room' = [room EXCEPT ![c] = NoRoom]
    /\ UNCHANGED <<reading, asking>>

\* No room in the end; the caller may come again.
LeaveWithout(c) ==
    /\ room[c].taken
    /\ RoomNow(c) < Hold0[c]
    /\ room' = [room EXCEPT ![c] = NoRoom]
    /\ UNCHANGED <<vars, reading, asking>>

\* A House that starts again has no reading.
Again ==
    /\ Restart
    /\ reading' = Unasked
    /\ asking' = FALSE
    /\ room' = [c \in Calls |-> NoRoom]

AdmitNext ==
    \/ BeginAsking
    \/ EndAsking
    \/ \E c \in Calls : TakeRoom(c) \/ AdmitInRoom(c) \/ LeaveWithout(c)
    \/ Again
    \/ CallsStep /\ UNCHANGED admitVars

AdmitSpec == AdmitInit /\ [][AdmitNext]_<<vars, admitVars>>
-----------------------------------------------------------------------------
\* What the calls under way may still hold at the gateway.
UnderWay == MapThenSumSet(LAMBDA c : Hold0[c], {c \in filed : stage[c] = "new" /\ c \in sent})

\* The room kept back of the funded total is never eroded: with everything the House has
\* admitted, the gateway's total stays ReserveUsd short of what is funded, but for overruns.
ReserveKept == meter.spent + UnderWay <= Funded - ReserveUsd + meter.overrun
=============================================================================
