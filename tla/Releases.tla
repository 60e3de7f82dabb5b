------------------------------ MODULE Releases ------------------------------
(***************************************************************************)
(* The House's releases on its box (league/watchdog.py): the links         *)
(* `current` and `previous`, and the processes of league.watchdog that     *)
(* move them: a deploy (the updater's or the owner's), the operator's      *)
(* rollback, the rollback drill and the recovery of one.                   *)
(*                                                                         *)
(* Every process holds the deploy lock over its steps, may die between any *)
(* two of them, and leaves what it did.  The House runs the release it was *)
(* started from, which is `current` only once it has been restarted.       *)
(*                                                                         *)
(* There is at most one process of each kind.  Of the log of deploys the   *)
(* rows of the updater's releases are kept, as Updater reads them.  Left   *)
(* out: the nightly daemon, the session's calendar, a deploy that is not   *)
(* watched because no House runs, and what a canary or a reading looks at: *)
(* either may be good or bad.                                              *)
(***************************************************************************)
EXTENDS Integers, FiniteSets, Sequences, SequencesExt

CONSTANTS
    None,
    First,       \* the release the House runs at the start
    Before,      \* the one it replaced
    Heads,       \* releases the updater makes of main: "main-..."
    Owned,       \* releases the owner deploys, First again maybe
    Drills,      \* drill copies
    Keep,        \* how many of the newest prune keeps
    MaxOwned,    \* bound: how often the owner deploys or rolls back
    MaxFaults,   \* bound: deaths, restarts and promotions that fail, launches beside another process
    Horizon      \* bound: the clock stops here

Ids   == {First, Before} \cup Heads \cup Owned \cup Drills
Procs == {"updater", "owner", "operator", "drill", "recover"}

ASSUME ReleasesAssumption ==
    /\ None \notin Ids
    /\ First # Before
    /\ First \notin Heads \cup Drills /\ Before \notin Heads \cup Owned \cup Drills
    /\ Heads \cap Owned = {} /\ Drills \cap (Heads \cup Owned) = {}
    /\ {Keep, MaxOwned, MaxFaults, Horizon} \subseteq Nat

VARIABLES
    current, previous,   \* the links
    disk,       \* of each release on disk, how many were staged after it
    marker,     \* DRILL_BREAK of each copy: [copyOf, previous]
    dog,        \* each process: where it is, its release, and when it took the lock
    pid,        \* the process deploy.pid names
    lockPid,    \* the process .deploy.lock names
    running,    \* the release the House was started from
    memory,     \* the House's own: [launching, asked]
    now,
    log,        \* the rows of each of the updater's releases: [starts, verdicts, backed, vetted]
    train,      \* the updater's latest deploy that was promoted, and that has no verdict: times
    replaced,   \* history: the releases each one has replaced
    fates,      \* history: what became of each deploy of the updater's releases
    unlogged,   \* history: releases whose rollback stopped before it was in the log
    faults, owned

links   == <<current, previous, replaced>>
rows    == <<log, train, fates, unlogged>>
house   == <<running, memory>>
records == <<pid, lockPid>>
bounds  == <<faults, owned>>
vars    == <<links, disk, marker, dog, records, house, now, rows, bounds>>

Fresh == [launching |-> None, asked |-> FALSE]
Off   == [at |-> "off", rel |-> None, since |-> 0]

\* The steps a process takes under the lock.
Locked == {"started", "passed", "half", "promoted", "watching", "backing", "rolled", "cleared"}

At(p, step)    == dog[p].at = step
Goes(p, step)  == dog' = [dog EXCEPT ![p].at = step]
LockFree       == \A p \in Procs : dog[p].at \notin Locked

\* A call of the owner that has only looked so far is no process on the box.
Alive == {p \in Procs : dog[p].at \notin {"off", "looked"}}

\* deploy_in_flight, as process q asks it.
InFlight(q) == \E p \in Alive \ {q} : p \in {pid, lockPid}

\* A pid of a process that has ended is no deploy.
Ends(p) ==
    /\ dog' = [dog EXCEPT ![p] = Off]
    /\ pid' = IF pid = p THEN None ELSE pid
    /\ lockPid' = IF lockPid = p THEN None ELSE lockPid

\* A deploy is over: of the drill's the cleanup is left.
Over(p) ==
    IF p \in {"drill", "recover"}
    THEN Goes(p, "cleanup") /\ UNCHANGED records
    ELSE Ends(p)
-----------------------------------------------------------------------------
Init ==
    /\ current = First /\ previous = Before
    /\ disk = [r \in {First, Before} |-> IF r = First THEN 0 ELSE 1]
    /\ marker = [d \in Drills |-> [copyOf |-> None, previous |-> None]]
    /\ dog = [p \in Procs |-> Off]
    /\ pid = None /\ lockPid = None
    /\ running = First /\ memory = Fresh
    /\ now = 0
    /\ log = [r \in Heads |-> [starts |-> 0, verdicts |-> <<>>, backed |-> FALSE, vetted |-> FALSE]]
    /\ train = [promoted |-> None, open |-> None]
    /\ replaced = [r \in Ids |-> IF r = First THEN {Before} ELSE {}]
    /\ fates = [r \in Heads |-> <<>>]
    /\ unlogged = {}
    /\ faults = 0 /\ owned = 0

OnDisk(r) == r \in DOMAIN disk

\* Rows of the updater's releases; nothing is kept of the others'.
LogStart(r) == log' = IF r \in Heads THEN [log EXCEPT ![r].starts = @ + 1] ELSE log
LogVerdict(r, v) == log' = IF r \in Heads THEN [log EXCEPT ![r].verdicts = Append(@, v)] ELSE log
Fate(r, fate) == fates' = IF r \in Heads THEN [fates EXCEPT ![r] = Append(@, fate)] ELSE fates
-----------------------------------------------------------------------------
\* floor_box.py looks whether a deploy runs; what it does on the box comes later.
OwnerLooks(p, r) ==
    /\ p \in {"owner", "operator"}
    /\ At(p, "off")
    /\ owned < MaxOwned
    /\ ~InFlight(None)
    /\ dog' = [dog EXCEPT ![p].at = "looked", ![p].rel = r]
    /\ owned' = owned + 1
    /\ UNCHANGED <<links, disk, marker, records, house, now, rows, faults>>

\* Process p begins: a fault when it does so beside another one, which the owner may do,
\* or beside one that begins in the same seconds and is in no record yet.
Beside(p) ==
    IF InFlight(p) \/ \E q \in Procs \ {p} : At(q, "launched")
    THEN faults < MaxFaults /\ faults' = faults + 1
    ELSE UNCHANGED faults

OwnerLaunches(p) ==
    /\ At(p, "looked")
    /\ Goes(p, "launched")
    /\ pid' = IF p = "owner" THEN p ELSE pid
    /\ Beside(p)
    /\ UNCHANGED <<links, disk, marker, lockPid, house, now, rows, owned>>

\* deploy finds the lock held: `busy`, which says nothing of the release.
Busy(p) ==
    /\ dog[p].at \in {"launched", "repointed", "uncaught", "cleanup"}
    /\ ~LockFree
    /\ IF p = "drill" /\ ~At(p, "cleanup")
       THEN Goes(p, "cleanup") /\ UNCHANGED records
       ELSE Ends(p)
    /\ UNCHANGED <<links, disk, marker, house, now, rows, bounds>>

\* Bug: the lock is written, and not taken.
StartDeployAnyway(p) ==
    /\ p \in {"updater", "owner", "drill"}
    /\ At(p, "launched")
    /\ dog' = [dog EXCEPT ![p].at = "started", ![p].since = now]
    /\ lockPid' = p
    /\ LogStart(dog[p].rel)
    /\ UNCHANGED <<links, disk, marker, pid, house, now, train, fates, unlogged, bounds>>

\* _deploy's first row.
StartDeploy(p) ==
    /\ p \in {"updater", "owner", "drill"}
    /\ At(p, "launched")
    /\ LockFree
    /\ dog' = [dog EXCEPT ![p].at = "started", ![p].since = now]
    /\ lockPid' = p
    /\ LogStart(dog[p].rel)
    /\ UNCHANGED <<links, disk, marker, pid, house, now, train, fates, unlogged, bounds>>

Refused(p) ==
    /\ LogVerdict(dog[p].rel, "refused")
    /\ Fate(dog[p].rel, "refused")
    /\ Over(p)
    /\ UNCHANGED <<links, marker, house, now, train, unlogged, bounds>>

\* A canary and a watch last minutes: what is without the lock for seconds has found it held
\* by their end.
AfterMinutes == \A p \in Procs : dog[p].at \notin {"launched", "repointed", "uncaught", "cleanup"}

\* The release is current already, or cannot be staged.
RefusedUnstaged(p) ==
    /\ At(p, "started")
    /\ UNCHANGED disk
    /\ Refused(p)

Staged(r) ==
    IF OnDisk(r) THEN disk
    ELSE [s \in DOMAIN disk \cup {r} |-> IF s = r THEN 0 ELSE disk[s] + 1]

\* Staged, and its canary did not pass.
RefusedByCanary(p) ==
    /\ At(p, "started") /\ AfterMinutes
    /\ dog[p].rel # current
    /\ disk' = Staged(dog[p].rel)
    /\ Refused(p)

CanaryPasses(p) ==
    /\ At(p, "started") /\ AfterMinutes
    /\ dog[p].rel # current
    /\ disk' = Staged(dog[p].rel)
    /\ Goes(p, "passed")
    /\ UNCHANGED <<links, marker, records, house, now, rows, bounds>>

\* promote: `previous` moves first ...
PointPrevious(p) ==
    /\ At(p, "passed")
    /\ previous' = current
    /\ Goes(p, "half")
    /\ UNCHANGED <<current, replaced, disk, marker, records, house, now, rows, bounds>>

\* ... then `current`.
PointCurrent(p) ==
    /\ At(p, "half")
    /\ current' = dog[p].rel
    /\ replaced' = [replaced EXCEPT ![dog[p].rel] = @ \cup {current}]
    /\ Goes(p, "promoted")
    /\ UNCHANGED <<previous, disk, marker, records, house, now, rows, bounds>>

\* promote fails at either link (OSError): `previous` may have moved already.
PromoteFails(p) ==
    /\ At(p, "passed") \/ At(p, "half")
    /\ faults < MaxFaults /\ faults' = faults + 1
    /\ LogVerdict(dog[p].rel, "refused")
    /\ Fate(dog[p].rel, "refused")
    /\ Over(p)
    /\ UNCHANGED <<links, disk, marker, house, now, train, unlogged, owned>>

\* The House starts again from `current`.
Restarted == running' = current /\ memory' = Fresh

\* A restart that does not come about is a fault.
RestartHappens == Restarted /\ UNCHANGED faults
RestartFails == UNCHANGED house /\ faults < MaxFaults /\ faults' = faults + 1

\* The promotion's row, and the House restarted, or not.
RestartIntoIt(p) ==
    /\ At(p, "promoted")
    /\ train' = IF p = "updater"
                THEN [train EXCEPT !.promoted = now] ELSE train
    /\ \/ RestartHappens /\ Goes(p, "watching")
       \/ RestartFails /\ Goes(p, "backing")
    /\ UNCHANGED <<links, disk, marker, records, now, log, fates, unlogged, owned>>
-----------------------------------------------------------------------------
\* A reading after the grace is bad.
WatchGoesBad(p) ==
    /\ At(p, "watching") /\ AfterMinutes
    /\ Goes(p, "backing")
    /\ UNCHANGED <<links, disk, marker, records, house, now, rows, bounds>>

Newest ==
    {r \in DOMAIN disk : Cardinality({s \in DOMAIN disk : disk[s] < disk[r]}) < Keep}

\* Bug: what the links name is old like any other.
PrunedAll == Restrict(disk, Newest)

\* What prune leaves: the newest, and what the links name.
Pruned == Restrict(disk, DOMAIN disk \cap (Newest \cup {current, previous}))

\* A drill waits no longer than a watch lasts (NIGHTLY_WAIT_SECONDS, watch_seconds: ten minutes
\* each) and none begins beside a deploy: a deploy launched while it waits is still in its canary
\* or its watch when the wait is over.
AfterTheWait == ~At("drill", "waiting")

\* The watch is over: the verdict, and what is old goes, but not for a copy of a drill.
WatchIsOver(p) ==
    /\ At(p, "watching") /\ AfterMinutes /\ AfterTheWait
    /\ LogVerdict(dog[p].rel, "promoted")
    /\ Fate(dog[p].rel, "promoted")
    /\ disk' = IF p = "drill" THEN disk ELSE Pruned
    /\ IF p = "drill" THEN Goes(p, "uncaught") /\ UNCHANGED records ELSE Ends(p)
    /\ UNCHANGED <<links, marker, house, now, train, unlogged, bounds>>
-----------------------------------------------------------------------------
\* rollback, with nowhere to go.
NothingBack(p) ==
    /\ At(p, "backing")
    /\ previous = None
    /\ IF p = "updater" THEN LogVerdict(dog[p].rel, "failed") ELSE UNCHANGED log
    /\ IF p = "updater" THEN Fate(dog[p].rel, "failed") ELSE UNCHANGED fates
    /\ Over(p)
    /\ UNCHANGED <<links, disk, marker, house, now, train, unlogged, bounds>>

\* rollback: `current` first ...
RollCurrent(p) ==
    /\ At(p, "backing")
    /\ previous # None
    /\ current' = previous
    /\ Fate(dog[p].rel, "backed")
    /\ Goes(p, "rolled")
    /\ UNCHANGED <<previous, replaced, disk, marker, records, house, now, log, train, unlogged, bounds>>

\* Bug: `previous` names what was rolled back.
KeepPrevious(p) ==
    /\ At(p, "rolled")
    /\ previous' = dog[p].rel
    /\ Goes(p, "cleared")
    /\ UNCHANGED <<current, replaced, disk, marker, records, house, now, rows, bounds>>

\* ... then `previous` is cleared.
ClearPrevious(p) ==
    /\ At(p, "rolled")
    /\ previous' = None
    /\ Goes(p, "cleared")
    /\ UNCHANGED <<current, replaced, disk, marker, records, house, now, rows, bounds>>

\* The rollback's row, the House restarted, or not, and the verdict.
RestartBack(p) ==
    /\ At(p, "cleared")
    /\ log' = IF dog[p].rel \notin Heads THEN log
              ELSE [log EXCEPT ![dog[p].rel].backed = TRUE,
                               ![dog[p].rel].verdicts =
                                   IF p = "updater" THEN Append(@, "rolled_back") ELSE @]
    /\ RestartHappens \/ RestartFails
    /\ Over(p)
    /\ UNCHANGED <<links, disk, marker, now, train, fates, unlogged, owned>>

\* Watchdog.rollback, the operator's and the recovery's, takes the lock.
StartRollback(p) ==
    /\ \/ p = "operator" /\ At(p, "launched")
       \/ p = "recover" /\ At(p, "repointed")
    /\ LockFree
    /\ dog' = [dog EXCEPT ![p].at = "backing", ![p].rel = IF p = "operator" THEN current ELSE @]
    /\ lockPid' = p
    /\ UNCHANGED <<links, disk, marker, pid, house, now, rows, bounds>>
-----------------------------------------------------------------------------
\* drill_rollback: a copy of what is current, and what `previous` names now.
DrillBegins(d) ==
    /\ At("drill", "off")
    /\ marker[d].copyOf = None
    /\ current \notin Drills
    /\ ~InFlight(None)
    /\ marker' = [marker EXCEPT ![d] = [copyOf |-> current, previous |-> previous]]
    /\ dog' = [dog EXCEPT !["drill"].at = "waiting", !["drill"].rel = d]
    /\ pid' = "drill"
    /\ Beside("drill")
    /\ UNCHANGED <<links, disk, lockPid, house, now, rows, owned>>

\* The nightly daemon did not stop, the session is near, or another deploy is in flight.
DrillGivesUp ==
    /\ At("drill", "waiting")
    /\ Ends("drill")
    /\ UNCHANGED <<links, disk, marker, house, now, rows, bounds>>

\* The daemon has stopped, and nothing else is in flight still.
DrillGoes ==
    /\ At("drill", "waiting")
    /\ ~InFlight("drill")
    /\ Beside("drill")
    /\ Goes("drill", "launched")
    /\ UNCHANGED <<links, disk, marker, records, house, now, rows, owned>>

\* Its break was not caught: the drill rolls the copy back itself.
DrillRollsBack ==
    /\ At("drill", "uncaught")
    /\ IF current # dog["drill"].rel
       THEN Goes("drill", "cleanup") /\ UNCHANGED lockPid
       ELSE LockFree /\ Goes("drill", "backing") /\ lockPid' = "drill"
    /\ UNCHANGED <<links, disk, marker, pid, house, now, rows, bounds>>

\* Bug: nothing is put back.
WayBackOfNone(d) == previous

\* What `previous` is put back to.
WayBackOf(d) ==
    IF /\ marker[d].previous # None
       /\ previous = None
       /\ current \notin {d, marker[d].previous}
       /\ OnDisk(marker[d].previous)
    THEN marker[d].previous
    ELSE previous

\* _drill_cleanup.
Cleanup(p) ==
    LET d == dog[p].rel IN
    /\ At(p, "cleanup")
    /\ LockFree
    /\ previous' = WayBackOf(d)
    /\ disk' = IF d \in {current, previous'} THEN disk ELSE Restrict(disk, DOMAIN disk \ {d})
    /\ Ends(p)
    /\ UNCHANGED <<current, replaced, marker, house, now, rows, bounds>>

\* Bug: the House looks at `current`, not at what it runs.
HouseRecoversCurrent ==
    /\ running \in Drills /\ current = running
    /\ ~memory.asked
    /\ ~InFlight(None)
    /\ At("recover", "off")
    /\ memory' = [memory EXCEPT !.asked = TRUE]
    /\ dog' = [dog EXCEPT !["recover"].at = "launched"]
    /\ pid' = "recover"
    /\ Beside("recover")
    /\ UNCHANGED <<links, disk, marker, lockPid, running, now, rows, owned>>

\* The House that runs a copy launches the recovery, once, when nothing is in flight.
HouseRecovers ==
    /\ running \in Drills
    /\ ~memory.asked
    /\ ~InFlight(None)
    /\ At("recover", "off")
    /\ memory' = [memory EXCEPT !.asked = TRUE]
    /\ dog' = [dog EXCEPT !["recover"].at = "launched"]
    /\ pid' = "recover"
    /\ Beside("recover")
    /\ UNCHANGED <<links, disk, marker, lockPid, running, now, rows, owned>>

\* drill_recover: the copy is current no more, and the House is restarted.
RecoverRestarts ==
    /\ At("recover", "launched")
    /\ LockFree
    /\ current \notin Drills
    /\ RestartHappens \/ RestartFails
    /\ Ends("recover")
    /\ UNCHANGED <<links, disk, marker, now, rows, owned>>

\* It is: `previous` names the release it was copied from again.
RecoverRepoints ==
    /\ At("recover", "launched")
    /\ LockFree
    /\ current \in Drills
    /\ LET old == marker[current].copyOf IN previous' = IF OnDisk(old) THEN old ELSE previous
    /\ dog' = [dog EXCEPT !["recover"].at = "repointed", !["recover"].rel = current]
    /\ lockPid' = "recover"
    /\ UNCHANGED <<current, replaced, disk, marker, pid, house, now, rows, bounds>>
-----------------------------------------------------------------------------
\* A process that dies leaves the links, and a deploy without a verdict.
Leaves(S) ==
    /\ train' = IF "updater" \in S /\ dog["updater"].at \in {"started", "passed", "half", "promoted"}
                THEN [train EXCEPT !.open = dog["updater"].since] ELSE train
    /\ IF "updater" \in S /\ dog["updater"].at \in Locked
       THEN Fate(dog["updater"].rel, "died") ELSE UNCHANGED fates
    /\ unlogged' = unlogged \cup {dog[p].rel : p \in {q \in S : dog[q].at \in {"rolled", "cleared"}}}

Dies(p) ==
    /\ p \in Alive
    /\ faults < MaxFaults /\ faults' = faults + 1
    /\ Leaves({p})
    /\ Ends(p)
    /\ UNCHANGED <<links, disk, marker, house, now, log, owned>>

\* The box restarts: every process is gone, and the House starts from `current`.
BoxRestarts ==
    /\ faults < MaxFaults /\ faults' = faults + 1
    /\ Leaves(Alive)
    /\ dog' = [p \in Procs |-> IF p \in Alive THEN Off ELSE dog[p]]
    /\ pid' = None /\ lockPid' = None
    /\ Restarted
    /\ UNCHANGED <<links, disk, marker, now, log, owned>>

\* The House ends, and its supervisor starts it from `current`.
HouseRestarts ==
    /\ faults < MaxFaults /\ faults' = faults + 1
    /\ Restarted
    /\ UNCHANGED <<links, disk, marker, dog, records, now, rows, owned>>

Tick ==
    /\ now < Horizon
    /\ now' = now + 1
    /\ UNCHANGED <<links, disk, marker, dog, records, house, rows, bounds>>

\* What process p does next.
Step(p) ==
    \/ Busy(p)
    \/ StartDeploy(p) \/ RefusedUnstaged(p) \/ RefusedByCanary(p) \/ CanaryPasses(p)
    \/ PointPrevious(p) \/ PointCurrent(p) \/ PromoteFails(p) \/ RestartIntoIt(p)
    \/ WatchGoesBad(p) \/ WatchIsOver(p)
    \/ StartRollback(p)
    \/ NothingBack(p) \/ RollCurrent(p) \/ ClearPrevious(p) \/ RestartBack(p)
    \/ p = "drill" /\ (DrillGivesUp \/ DrillGoes \/ DrillRollsBack)
    \/ p = "recover" /\ (RecoverRestarts \/ RecoverRepoints)
    \/ Cleanup(p)

ReleasesNext ==
    \/ \E p \in Procs : Step(p)
    \/ \E p \in {"owner", "operator"} : OwnerLaunches(p)
    \/ \E r \in Owned : OwnerLooks("owner", r)
    \/ OwnerLooks("operator", None)
    \/ \E d \in Drills : DrillBegins(d)
    \/ HouseRecovers
    \/ \E p \in Procs : Dies(p)
    \/ BoxRestarts \/ HouseRestarts
    \/ Tick
=============================================================================
