------------------------------- MODULE WayBack -------------------------------
(***************************************************************************)
(* What `current` and `previous` promise (league/watchdog.py: Releases):   *)
(* a rollback goes to a release that the current one replaced, or nowhere; *)
(* never one that goes back too far.                                       *)
(*                                                                         *)
(* The way back may be lost, when a promotion stops half way or after it   *)
(* was used, and be put back.  It never names another release.             *)
(***************************************************************************)
CONSTANTS Ids, None

VARIABLES
    cur,       \* the current release
    back,      \* the release a rollback would go to, or None
    replaced   \* the releases each one has replaced

backVars == <<cur, back, replaced>>

Init ==
    /\ cur \in Ids
    /\ replaced \in [Ids -> SUBSET Ids]
    /\ back \in replaced[cur]

Promote(r) ==
    /\ r # cur
    /\ cur' = r
    /\ back' = cur
    /\ replaced' = [replaced EXCEPT ![r] = @ \cup {cur}]

Back ==
    /\ back # None
    /\ cur' = back
    /\ back' = None
    /\ UNCHANGED replaced

Lose ==
    /\ back' = None
    /\ UNCHANGED <<cur, replaced>>

Restore ==
    /\ back' \in replaced[cur]
    /\ UNCHANGED <<cur, replaced>>

Next == (\E r \in Ids : Promote(r)) \/ Back \/ Lose \/ Restore

Spec == Init /\ [][Next]_backVars
=============================================================================
