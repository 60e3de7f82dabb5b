---------------------------- MODULE OptionCloses ----------------------------
(***************************************************************************)
(* Closes of one option leg the real account holds, as one isolate of the  *)
(* Worker handles them (gateway/lib/router.mjs: realPositions, realOrder's *)
(* option closes, the order route of handle; gateway/lib/caps.mjs:         *)
(* closeLegsHeldError and closedLegRows).                                  *)
(*                                                                         *)
(* The isolate keeps its last reading of the positions for CacheFor.  A    *)
(* close must find its quantity in the reading; the gate is asked; only a  *)
(* close it admits is taken out of the reading that is cached by then.     *)
(* Handlers run together, and each wait lets another run.                  *)
(*                                                                         *)
(* The gate meets an option close with the day's places and the kill       *)
(* switch (OrderGate); here it may refuse any.  The venue has an order by  *)
(* the time its handler ends, or never.                                    *)
(***************************************************************************)
EXTENDS Integers, FiniteSets, FiniteSetsExt

CONSTANTS
    Closes,     \* close orders of the leg
    Size,       \* the contracts of each
    Held0,      \* the contracts the account holds at the start
    CacheFor,   \* POSITIONS_CACHE_MS
    Together,   \* how many handlers run at once
    Horizon     \* bound: the clock stops here

VARIABLES
    now,     \* the clock
    cache,   \* positionsCache: [left, expires]; expires 0 is an isolate without one
    phase,   \* where each handler is
    read,    \* the answer each handler's own read of the venue holds
    venue    \* each order at the venue: none, open, filled or gone

vars == <<now, cache, phase, read, venue>>

Started == {c \in Closes : phase[c] \in {"fetching", "answered", "asking", "sent"}}
SumOf(S) == MapThenSumSet(LAMBDA c : Size[c], S)
InState(s) == {c \in Closes : venue[c] = s}

\* What the venue's positions leave to close: qty_available.
Available == Held0 - SumOf(InState("filled")) - SumOf(InState("open"))
-----------------------------------------------------------------------------
Init ==
    /\ now = 1
    /\ cache = [left |-> 0, expires |-> 0]
    /\ phase = [c \in Closes |-> "new"]
    /\ read = [c \in Closes |-> 0]
    /\ venue = [c \in Closes |-> "none"]

\* closeLegsHeldError on `left`: a close of more than is there goes no further.
Judged(c, left) == IF left >= Size[c] THEN "asking" ELSE "refused"

\* A close begins: from the cached reading, or by reading the venue.
Begin(c) ==
    /\ phase[c] = "new"
    /\ Cardinality(Started) < Together
    /\ phase' = [phase EXCEPT ![c] =
                   IF cache.expires > now THEN Judged(c, cache.left) ELSE "fetching"]
    /\ UNCHANGED <<now, cache, read, venue>>

\* The venue answers the read, or it fails and the close is refused.
Answer(c) ==
    /\ phase[c] = "fetching"
    /\ \/ phase' = [phase EXCEPT ![c] = "answered"] /\ read' = [read EXCEPT ![c] = Available]
       \/ phase' = [phase EXCEPT ![c] = "refused"] /\ UNCHANGED read
    /\ UNCHANGED <<now, cache, venue>>

\* The handler has the answer: it is the cached reading from now on.
Store(c) ==
    /\ phase[c] = "answered"
    /\ cache' = [left |-> read[c], expires |-> now + CacheFor]
    /\ phase' = [phase EXCEPT ![c] = Judged(c, read[c])]
    /\ UNCHANGED <<now, read, venue>>

\* closedLegRows: an admitted close taken out of whatever reading is cached.
TakenOut(c) == IF cache.expires = 0 THEN cache ELSE [cache EXCEPT !.left = @ - Size[c]]

\* The gate has answered.
Reserved(c) ==
    /\ phase[c] = "asking"
    /\ \/ /\ phase' = [phase EXCEPT ![c] = "sent"]
          /\ cache' = TakenOut(c)
       \/ /\ phase' = [phase EXCEPT ![c] = "refused"]
          /\ UNCHANGED cache
    /\ UNCHANGED <<now, read, venue>>

\* The forward: the venue has the order, or it never left; nothing puts the legs back.
Forward(c) ==
    /\ phase[c] = "sent"
    /\ phase' = [phase EXCEPT ![c] = "done"]
    /\ venue' \in {[venue EXCEPT ![c] = s] : s \in {"open", "gone"}}
    /\ UNCHANGED <<now, cache, read>>

\* The venue fills an order or takes it off.
VenueEnds(c) ==
    /\ venue[c] = "open"
    /\ venue' \in {[venue EXCEPT ![c] = s] : s \in {"filled", "gone"}}
    /\ UNCHANGED <<now, cache, phase, read>>

Tick ==
    /\ now < Horizon
    /\ now' = now + 1
    /\ UNCHANGED <<cache, phase, read, venue>>

Next ==
    \/ \E c \in Closes :
         Begin(c) \/ Answer(c) \/ Store(c) \/ Reserved(c) \/ Forward(c) \/ VenueEnds(c)
    \/ Tick

Spec == Init /\ [][Next]_vars
-----------------------------------------------------------------------------
\* The same legs are not closed twice: what is filled, open and on its way is held.
ClosedOnce ==
    SumOf(InState("filled")) + SumOf(InState("open"))
      + SumOf({c \in Closes : phase[c] = "sent"}) <= Held0
=============================================================================
