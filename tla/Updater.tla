------------------------------- MODULE Updater -------------------------------
(***************************************************************************)
(* The House's updater (league/updater.py) over Releases.  It compares     *)
(* main's head with the current release, passes over what the log says was *)
(* tried, holds a head for the release train, and launches a deploy when   *)
(* none is in flight.  What it remembers of a launch is gone when the      *)
(* House restarts, as the deploy itself makes it do.                       *)
(*                                                                         *)
(* Left out: GitHub's attestation and the workflows, which judge a commit  *)
(* and retire nothing; the holds of the session and of a recent start.     *)
(* Any of them may keep a head back for as long as it likes.               *)
(***************************************************************************)
EXTENDS Releases

CONSTANT Hours   \* the release train: release_train_hours

ASSUME UpdaterAssumption == Hours \in Nat

Mains == Heads \cup {First}   \* the releases named "main-..."

Judged == {r \in Heads : log[r].starts > 0 \/ log[r].vetted}

\* Bug: a deploy that has no verdict does not count.
AgainAnyStart(r) == log[r].verdicts = <<"rolled_back">>

\* Rolled back once: tried again.
Again(r) == log[r].verdicts = <<"rolled_back">> /\ log[r].starts <= 1

\* Promoted, never rolled back from, and main has come back to it.
Reverted(r) ==
    /\ current \in Mains \ {r}
    /\ ~log[r].backed
    /\ log[r].verdicts # <<>>
    /\ ToSet(log[r].verdicts) = {"promoted"}

Tried == {r \in Judged : ~Again(r) /\ ~Reverted(r)}

\* Bug: a deploy counts for the train when it was not rolled back.
TrainHoldsStanding ==
    \E t \in {train.promoted} \ {None} :
       now < t + Hours /\ \A r \in Heads : log[r].verdicts # <<"rolled_back">>

\* schedule: the train, from what last restarted the House or may have.
TrainHolds == \E t \in {train.promoted, train.open} \ {None} : now < t + Hours

MayShip == ~TrainHolds /\ ~InFlight(None)
-----------------------------------------------------------------------------
\* The updater looks at main, whose head is r by now.  It fetches the whole tree first: what it
\* launched before has come to the lock meanwhile.
Looks(r) ==
    /\ running \notin Drills
    /\ memory.launching = None /\ ~At("updater", "launched")
    /\ r \notin {current} \cup Tried

\* The running release's walls or checks refuse the head.  Its row is no verdict, and says
\* nothing new when it is written again.
RefusesHead(r) ==
    /\ Looks(r)
    /\ ~log[r].vetted
    /\ log' = [log EXCEPT ![r].vetted = TRUE]
    /\ Fate(r, "vetted")
    /\ UNCHANGED <<links, disk, marker, dog, records, house, now, train, unlogged, bounds>>

\* The head passed everything: it waits for the nightly daemon to stop.
PassesHead(r) ==
    /\ Looks(r)
    /\ MayShip
    /\ memory' = [memory EXCEPT !.launching = r]
    /\ UNCHANGED <<links, disk, marker, dog, records, running, now, rows, bounds>>

\* _continue_launch asks everything again.
Launches ==
    /\ memory.launching # None
    /\ MayShip
    /\ At("updater", "off")
    /\ memory' = [memory EXCEPT !.launching = None]
    /\ dog' = [dog EXCEPT !["updater"].at = "launched", !["updater"].rel = memory.launching]
    /\ pid' = "updater"
    /\ Beside("updater")
    /\ UNCHANGED <<links, disk, marker, lockPid, running, now, rows, owned>>

DropsLaunch ==
    /\ memory.launching # None
    /\ memory' = [memory EXCEPT !.launching = None]
    /\ UNCHANGED <<links, disk, marker, dog, records, running, now, rows, bounds>>

Next ==
    \/ ReleasesNext
    \/ \E r \in Heads : RefusesHead(r) \/ PassesHead(r)
    \/ Launches \/ DropsLaunch

Spec == Init /\ [][Next]_vars

\* A process goes on until it ends, and the House that runs a copy looks at every tick.
Fairness ==
    /\ \A p \in Procs : WF_vars(Step(p))
    /\ WF_vars(HouseRecovers)

FairSpec == Spec /\ Fairness
-----------------------------------------------------------------------------
Steps == {"off", "looked", "waiting", "launched", "repointed", "uncaught", "cleanup"} \cup Locked

TypeOK ==
    /\ current \in Ids /\ previous \in Ids \cup {None}
    /\ running \in Ids
    /\ DOMAIN disk \subseteq Ids /\ \A r \in DOMAIN disk : disk[r] \in Nat
    /\ marker \in [Drills -> [copyOf : Ids \cup {None}, previous : Ids \cup {None}]]
    /\ dog \in [Procs -> [at : Steps, rel : Ids \cup {None}, since : 0..Horizon]]
    /\ {pid, lockPid} \subseteq Procs \cup {None}
    /\ memory \in [launching : Heads \cup {None}, asked : BOOLEAN]
    /\ log \in [Heads -> [starts : Nat, verdicts : Seq({"refused", "failed", "promoted", "rolled_back"}),
                          backed : BOOLEAN, vetted : BOOLEAN]]
    /\ train \in [promoted : (0..Horizon) \cup {None}, open : (0..Horizon) \cup {None}]
    /\ Cardinality({p \in Procs : dog[p].at \in Locked}) <= 1

\* What the links name is on disk, over every prune and every cleanup of a drill.
LinksStand == OnDisk(current) /\ (previous # None => OnDisk(previous))

\* The links keep the promise of WayBack: each step of promote and rollback, a death
\* between two of them, the drill's cleanup and its recovery.
W == INSTANCE WayBack WITH
       cur <- current,
       back <- IF previous = current THEN None ELSE previous,
       replaced <- replaced

KeepsWayBack == W!Spec

\* The updater does not deploy again what a canary or, at its first look, the walls refused,
\* what was rolled back twice or by the operator, or left without a verdict and never promoted,
\* though the House restarts and its memory of a launch goes.  Not claimed of a rollback that
\* died before its row was in the log, nor of a refusal by the walls after a rollback.
Deploys(r) == SelectSeq(fates[r], LAMBDA fate : fate # "vetted")

TriesAgain(r) ==
    \/ fates[r] = <<>>
    \/ Deploys(r) = <<"backed">>
    \/ /\ "promoted" \in ToSet(fates[r])
       /\ r \in unlogged \/ ToSet(Deploys(r)) \subseteq {"promoted", "died"}

NoReturn == [][Launches => TriesAgain(memory.launching)]_vars

\* Two deploys of the updater restart the House at least a train apart, whatever came of
\* the first.
TrainKept ==
    [][/\ At("updater", "promoted")
       /\ dog'["updater"].at = "watching"
       /\ train.promoted # None
       => now >= train.promoted + Hours]_vars

\* A drill that ends without a fault leaves the way back as it was.
DrillCostsNothing ==
    [][/\ At("drill", "cleanup") /\ dog'["drill"].at = "off"
       /\ faults' = 0
       /\ current = marker[dog["drill"].rel].copyOf
       => previous' = marker[dog["drill"].rel].previous]_vars

\* The House does not go on running a copy of a drill, however the drill ended, while the
\* release it was copied from is on disk.
DrillEnds ==
    \A d \in Drills : running = d ~> running # d \/ ~OnDisk(marker[d].copyOf)
=============================================================================
