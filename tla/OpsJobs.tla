------------------------------- MODULE OpsJobs -------------------------------
(***************************************************************************)
(* The House's jobs (league/ops/runner.py: Ops; league/ops/store.py:       *)
(* OpsStore, retry_state; league/ops/registry.py).                         *)
(*                                                                         *)
(* The House's tick keeps one child process at a time.  With no child it   *)
(* walks every occurrence that is due and not settled; then, one by one in *)
(* their order, it writes down the skipped and the missed, and starts the  *)
(* first of the others.  A child's result comes by a file, and outlives    *)
(* the House, which may stop between any two of its writes; what it finds  *)
(* running when it starts again it kills and marks as interrupted.         *)
(*                                                                         *)
(* An occurrence is a job and the moment it is due.  Left out: the switch  *)
(* of all jobs and of one, the look-back of eight days, and what a release *)
(* that adds a job counts from (first_seen).                               *)
(***************************************************************************)
EXTENDS Integers, FiniteSets

CONSTANTS
    Jobs,         \* the registry
    Rank,         \* each job's place in it
    At,           \* when the clock makes each job due
    AtStart,      \* the jobs due when the House starts
    After,        \* the jobs due when another finished ok: [job -> jobs it follows]
    Retry,        \* the jobs that may be repeated
    InPause,      \* the jobs that run while the House is paused
    Grace,        \* how long after it is due each may start
    Wall,         \* the wall time of a child
    RetryAfter,   \* RETRY_AFTER
    MaxAttempts,  \* MAX_ATTEMPTS
    Horizon,      \* bound: the clock stops here
    MaxStops,     \* bound: how often the House stops
    MaxPauses     \* bound: how often its pause is switched

ASSUME OpsJobsAssumption ==
    /\ Rank \in [Jobs -> Nat]
    /\ \A j, l \in Jobs : Rank[j] = Rank[l] => j = l
    /\ At \in [Jobs -> SUBSET Nat]
    /\ After \in [Jobs -> SUBSET Jobs]
    /\ AtStart \subseteq Jobs /\ Retry \subseteq Jobs /\ InPause \subseteq Jobs
    /\ Grace \in [Jobs -> Nat]
    /\ {Wall, RetryAfter, MaxAttempts, Horizon, MaxStops, MaxPauses} \subseteq Nat
    /\ MaxAttempts > 0

VARIABLES
    now,      \* the clock
    up,       \* whether the House runs
    began,    \* when it last started: started_at
    paused,   \* the House's maintenance pause
    rows,     \* the receipts, one for each occurrence
    settled,  \* _settled: what this House takes as needing nothing more
    child,    \* the child this House started: its occurrence, and when
    todo,     \* what the walk found to do and the tick has not done yet, and when it walked
    pc,       \* where the tick is: idle, writing, starting or spawned
    procs,    \* the children that run
    files,    \* the result file of each row
    done,     \* history: the attempts whose child finished ok
    lost,     \* history: the attempts started by a House that stopped before it wrote their pid
    stops, pauses

vars == <<now, up, began, paused, rows, settled, child, todo, pc, procs, files,
          done, lost, stops, pauses>>

Keys == Jobs \X (0..Horizon)
JobOf(k) == k[1]
DueAt(k) == k[2]

Outcomes == {"ok", "failed", "skipped"}
NoRow    == [status |-> "none", attempts |-> 0, finished |-> 0, pid |-> FALSE, cut |-> FALSE]
NoChild  == [of |-> {}, since |-> 0]
Nothing  == [at |-> 0, skip |-> {}, miss |-> {}, run |-> {}]

Attempt(p) == <<p.of, p.attempt>>
TheChild == CHOOSE k \in child.of : TRUE
-----------------------------------------------------------------------------
Late(k) == now > DueAt(k) + Grace[JobOf(k)]

\* Bug: a row that is over is asked for again inside its grace.
RetryStateAny(k) ==
    LET row == rows[k] IN
    IF JobOf(k) \notin Retry THEN "settled"
    ELSE IF row.status = "failed" /\ row.cut /\ row.attempts < MaxAttempts THEN "retry"
    ELSE IF row.cut \/ row.attempts >= MaxAttempts \/ Late(k) THEN "settled"
    ELSE IF now < row.finished + RetryAfter THEN "wait" ELSE "retry"

\* Bug: a job that must not be repeated is started again after an interruption.
RetryStateRepeats(k) ==
    LET row == rows[k] IN
    IF row.status = "failed" /\ row.cut /\ row.attempts < MaxAttempts THEN "retry"
    ELSE IF JobOf(k) \notin Retry THEN "settled"
    ELSE IF \/ row.status # "failed"
            \/ row.cut
            \/ row.attempts >= MaxAttempts
            \/ Late(k)
    THEN "settled"
    ELSE IF now < row.finished + RetryAfter THEN "wait" ELSE "retry"

\* retry_state: what a row asks of the runner.
RetryState(k) ==
    LET row == rows[k] IN
    IF JobOf(k) \notin Retry THEN "settled"
    ELSE IF row.status = "failed" /\ row.cut /\ row.attempts < MaxAttempts THEN "retry"
    ELSE IF \/ row.status # "failed"
            \/ row.cut
            \/ row.attempts >= MaxAttempts
            \/ Late(k)
    THEN "settled"
    ELSE IF now < row.finished + RetryAfter THEN "wait" ELSE "retry"

\* _instants: whether `k` is an occurrence of its job up to now.
IsDue(k) ==
    /\ DueAt(k) <= now
    /\ \/ DueAt(k) \in At[JobOf(k)]
       \/ JobOf(k) \in AtStart /\ DueAt(k) = began
       \/ \E p \in After[JobOf(k)], t \in 0..Horizon :
            rows[<<p, t>>].status = "ok" /\ rows[<<p, t>>].finished = DueAt(k)

Walked == {k \in Keys \ settled : IsDue(k)}

\* What due() finds settled as it walks, and remembers.
FoundSettled(walked) == {k \in walked : rows[k].status # "none" /\ RetryState(k) = "settled"}

Open(walked) == {k \in walked : rows[k].status = "none" \/ RetryState(k) = "retry"}

Held(k) == paused /\ JobOf(k) \notin InPause

Skips(open)  == {k \in open : Held(k)}
Misses(open) == {k \in open : ~Held(k) /\ Late(k)}
Runs(open)   == {k \in open : ~Held(k) /\ ~Late(k)}

Before(k, l) ==
    \/ DueAt(k) < DueAt(l)
    \/ DueAt(k) = DueAt(l) /\ Rank[JobOf(k)] < Rank[JobOf(l)]

FirstOf(S) == {k \in S : \A l \in S \ {k} : Before(k, l)}

\* What is left to do, with its walk's moment while there is any.
Rest(at, skip, miss, run) ==
    IF skip \cup miss \cup run = {} THEN Nothing
    ELSE [at |-> at, skip |-> skip, miss |-> miss, run |-> run]

ToDo(t) == t.skip \cup t.miss \cup t.run

\* Where a tick goes on after a write.
GoOn(t) == IF ToDo(t) = {} THEN "idle" ELSE "writing"

Finished(row, status, at) ==
    [row EXCEPT !.status = status, !.finished = at, !.cut = FALSE]

Started(row) ==
    [row EXCEPT !.status = "running", !.attempts = @ + 1, !.pid = FALSE, !.cut = FALSE]
-----------------------------------------------------------------------------
Init ==
    /\ now = 0 /\ up = TRUE /\ began = 0 /\ paused = FALSE
    /\ rows = [k \in Keys |-> NoRow]
    /\ settled = {}
    /\ child = NoChild
    /\ todo = Nothing
    /\ pc = "idle"
    /\ procs = {}
    /\ files = [k \in Keys |-> "none"]
    /\ done = {} /\ lost = {}
    /\ stops = 0 /\ pauses = 0

\* due: the occurrences are sorted by what is to be done with each.
Walk ==
    /\ up /\ pc = "idle" /\ child.of = {}
    /\ \E walked \in {Walked} : \E found \in {FoundSettled(walked)}, open \in {Open(walked)} :
         /\ open \cup found # {}
         /\ settled' = settled \cup found
         /\ todo' = Rest(now, Skips(open), Misses(open), Runs(open))
    /\ pc' = GoOn(todo')
    /\ UNCHANGED <<now, up, began, paused, rows, child, procs, files, done, lost, stops, pauses>>

\* _dispatch writes down one that is skipped or missed.
WriteDown ==
    /\ up /\ pc = "writing"
    /\ \E k \in FirstOf(ToDo(todo)) \ todo.run :
         /\ rows' = [rows EXCEPT ![k] =
              Finished(@, IF k \in todo.skip THEN "skipped" ELSE "missed", todo.at)]
         /\ settled' = settled \cup {k}
         /\ todo' = Rest(todo.at, todo.skip \ {k}, todo.miss \ {k}, todo.run)
    /\ pc' = GoOn(todo')
    /\ UNCHANGED <<now, up, began, paused, child, procs, files, done, lost, stops, pauses>>

\* Bug: every occurrence that may run is started.
StartEach ==
    /\ up /\ pc = "writing"
    /\ \E k \in FirstOf(ToDo(todo)) \cap todo.run :
         /\ rows' = [rows EXCEPT ![k] = Started(@)]
         /\ child' = [of |-> child.of \cup {k}, since |-> todo.at]
         /\ todo' = Rest(todo.at, todo.skip, todo.miss, todo.run \ {k})
    /\ pc' = "starting"
    /\ UNCHANGED <<now, up, began, paused, settled, procs, files, done, lost, stops, pauses>>

\* _dispatch starts the first that may run, with store.start; the others wait for a later
\* walk.
StartFirst ==
    /\ up /\ pc = "writing"
    /\ \E k \in FirstOf(ToDo(todo)) \cap todo.run :
         /\ rows' = [rows EXCEPT ![k] = Started(@)]
         /\ child' = [of |-> {k}, since |-> todo.at]
    /\ todo' = Rest(todo.at, todo.skip, todo.miss, {})
    /\ pc' = "starting"
    /\ UNCHANGED <<now, up, began, paused, settled, procs, files, done, lost, stops, pauses>>

\* Bug: the result file of an earlier attempt is left where it is.
SpawnOverFile ==
    /\ up /\ pc = "starting"
    /\ procs' = procs \cup {[of |-> TheChild, attempt |-> rows[TheChild].attempts,
                             wrote |-> FALSE]}
    /\ pc' = "spawned"
    /\ UNCHANGED <<now, up, began, paused, rows, settled, child, todo, files, done, lost, stops, pauses>>

\* The old result file is removed and the child started.
Spawn ==
    /\ up /\ pc = "starting"
    /\ files' = [files EXCEPT ![TheChild] = "none"]
    /\ procs' = procs \cup {[of |-> TheChild, attempt |-> rows[TheChild].attempts,
                             wrote |-> FALSE]}
    /\ pc' = "spawned"
    /\ UNCHANGED <<now, up, began, paused, rows, settled, child, todo, done, lost, stops, pauses>>

\* The child could not start.
SpawnFails ==
    /\ up /\ pc = "starting"
    /\ files' = [files EXCEPT ![TheChild] = "none"]
    /\ rows' = [rows EXCEPT ![TheChild] = Finished(@, "failed", child.since)]
    /\ child' = NoChild
    /\ pc' = GoOn(todo)
    /\ UNCHANGED <<now, up, began, paused, settled, todo, procs, done, lost, stops, pauses>>

SetPid ==
    /\ up /\ pc = "spawned"
    /\ rows' = [rows EXCEPT ![TheChild].pid = TRUE]
    /\ pc' = GoOn(todo)
    /\ UNCHANGED <<now, up, began, paused, settled, child, todo, procs, files, done, lost, stops, pauses>>

Running == {p \in procs : p.of \in child.of /\ p.attempt = rows[p.of].attempts}

\* Bug: a child past its wall time is killed and its row left as it is.
PollKillsOnly ==
    /\ up /\ pc = "idle" /\ child.of # {}
    /\ Running # {}
    /\ now - child.since > Wall
    /\ procs' = procs \ Running
    /\ child' = NoChild
    /\ UNCHANGED <<now, up, began, paused, rows, settled, todo, pc, files, done, lost, stops, pauses>>

\* _poll of a child past its wall time: killed, and failed whatever it has written.
PollKills ==
    /\ up /\ pc = "idle" /\ child.of # {}
    /\ Running # {}
    /\ now - child.since > Wall
    /\ procs' = procs \ Running
    /\ rows' = [rows EXCEPT ![TheChild] = Finished(@, "failed", now)]
    /\ child' = NoChild
    /\ UNCHANGED <<now, up, began, paused, settled, todo, pc, files, done, lost, stops, pauses>>

\* _poll of a child that has ended: its result is read, its file removed and its row
\* settled, as failed when there was none.  (A House that stops on the way leaves the row
\* as one that stops before: the result is lost.)
PollSettles ==
    /\ up /\ pc = "idle" /\ child.of # {}
    /\ Running = {}
    /\ LET status == IF files[TheChild] = "none" THEN "failed" ELSE files[TheChild] IN
         /\ rows' = [rows EXCEPT ![TheChild] = Finished(@, status, now)]
         /\ settled' = IF status = "failed" THEN settled ELSE settled \cup child.of
    /\ files' = [files EXCEPT ![TheChild] = "none"]
    /\ child' = NoChild
    /\ UNCHANGED <<now, up, began, paused, todo, pc, procs, done, lost, stops, pauses>>

\* health(), which the House's tick ends with, walks the occurrences too.
Health ==
    /\ up /\ pc = "idle"
    /\ FoundSettled(Walked) # {}
    /\ settled' = settled \cup FoundSettled(Walked)
    /\ UNCHANGED <<now, up, began, paused, rows, child, todo, pc, procs, files, done, lost, stops, pauses>>

\* The House stops: its memory is gone, its child is not.
Stop ==
    /\ up
    /\ stops < MaxStops
    /\ stops' = stops + 1
    /\ up' = FALSE
    /\ settled' = {} /\ child' = NoChild /\ todo' = Nothing /\ pc' = "idle"
    /\ lost' = IF pc = "spawned" THEN lost \cup {Attempt(p) : p \in Running} ELSE lost
    /\ UNCHANGED <<now, began, paused, rows, procs, files, done, pauses>>

Found == {k \in Keys : rows[k].status = "running"}

\* Bug: the child that was left behind runs on.
StartLeaves ==
    /\ ~up
    /\ up' = TRUE /\ began' = now
    /\ rows' = [k \in Keys |->
         IF k \in Found THEN [Finished(rows[k], "failed", now) EXCEPT !.cut = TRUE] ELSE rows[k]]
    /\ UNCHANGED <<now, paused, settled, child, todo, pc, procs, files, done, lost, stops, pauses>>

\* The House starts: _recover kills what its rows know to run, and marks those rows.
Start ==
    /\ ~up
    /\ up' = TRUE /\ began' = now
    /\ procs' = {p \in procs : ~(p.of \in Found /\ rows[p.of].pid /\ p.attempt = rows[p.of].attempts)}
    /\ rows' = [k \in Keys |->
         IF k \in Found THEN [Finished(rows[k], "failed", now) EXCEPT !.cut = TRUE] ELSE rows[k]]
    /\ UNCHANGED <<now, paused, settled, child, todo, pc, files, done, lost, stops, pauses>>
-----------------------------------------------------------------------------
\* A child writes its result.
ChildWrites(p) ==
    /\ ~p.wrote
    /\ \E result \in Outcomes :
         /\ files' = [files EXCEPT ![p.of] = result]
         /\ done' = IF result = "ok" THEN done \cup {Attempt(p)} ELSE done
    /\ procs' = (procs \ {p}) \cup {[p EXCEPT !.wrote = TRUE]}
    /\ UNCHANGED <<now, up, began, paused, rows, settled, child, todo, pc, lost, stops, pauses>>

\* It ends, with a result or without.
ChildEnds(p) ==
    /\ procs' = procs \ {p}
    /\ UNCHANGED <<now, up, began, paused, rows, settled, child, todo, pc, files, done, lost, stops, pauses>>

Pause ==
    /\ pauses < MaxPauses
    /\ pauses' = pauses + 1
    /\ paused' = ~paused
    /\ UNCHANGED <<now, up, began, rows, settled, child, todo, pc, procs, files, done, lost, stops>>

Tick ==
    /\ now < Horizon
    /\ now' = now + 1
    /\ UNCHANGED <<up, began, paused, rows, settled, child, todo, pc, procs, files, done, lost, stops, pauses>>

\* Ops.tick.
HouseTick ==
    \/ Walk \/ WriteDown \/ StartFirst
    \/ Spawn \/ SpawnFails \/ SetPid
    \/ PollKills \/ PollSettles

Next ==
    \/ HouseTick \/ Health
    \/ Stop \/ Start
    \/ \E p \in procs : ChildWrites(p) \/ ChildEnds(p)
    \/ Pause
    \/ Tick

Spec == Init /\ [][Next]_vars

\* The House ticks, its supervisor starts it again, and the clock goes on.  A child may
\* hang: nothing is assumed of it.
Fairness ==
    /\ WF_vars(HouseTick)
    /\ WF_vars(Start)
    /\ WF_vars(Tick)

FairSpec == Spec /\ Fairness
-----------------------------------------------------------------------------
Statuses == {"none", "running", "ok", "failed", "skipped", "missed"}
Row == [status : Statuses, attempts : Nat, finished : 0..Horizon, pid : BOOLEAN, cut : BOOLEAN]
Proc == [of : Keys, attempt : Nat, wrote : BOOLEAN]

TypeOK ==
    /\ {now, began} \subseteq 0..Horizon
    /\ up \in BOOLEAN /\ paused \in BOOLEAN
    /\ rows \in [Keys -> Row]
    /\ settled \subseteq Keys
    /\ child.of \subseteq Keys /\ Cardinality(child.of) <= 1
    /\ todo \in [at : 0..Horizon, skip : SUBSET Keys, miss : SUBSET Keys, run : SUBSET Keys]
    /\ pc \in {"idle", "writing", "starting", "spawned"}
    /\ pc = "writing" => ToDo(todo) # {}
    /\ pc \in {"starting", "spawned"} => child.of # {}
    /\ procs \subseteq Proc
    /\ files \in [Keys -> Outcomes \cup {"none"}]
    /\ done \subseteq Keys \X Nat /\ lost \subseteq Keys \X Nat

\* One child at a time, over every stop of the House: two run together only when one of
\* them was started by a House that stopped before it had written down its pid.
OneChild == Cardinality({p \in procs : Attempt(p) \notin lost}) <= 1

\* A job that may act twice is started once, whatever interrupted it; any other job no more
\* than MaxAttempts times.
StartedWithin ==
    \A k \in Keys : rows[k].attempts <= IF JobOf(k) \in Retry THEN MaxAttempts ELSE 1

\* A receipt that says ok is its last attempt's own: no result of an earlier attempt is
\* taken for it, but that of a child whose pid was never written down.
OkIsTrue ==
    \A k \in Keys : rows[k].status = "ok" =>
        \/ <<k, rows[k].attempts>> \in done
        \/ \E a \in 0..rows[k].attempts : <<k, a>> \in done \cap lost

\* What a receipt says of an occurrence that is over stands.
FinalStays ==
    [][\A k \in Keys : rows[k].status \in {"ok", "skipped", "missed"} => rows'[k] = rows[k]]_vars

\* Every occurrence of the clock has a receipt in the end that says what became of it, and
\* stays so: behind a child that hangs, over a pause and over stops of the House.
EveryDueSettles ==
    <>[](\A k \in Keys : DueAt(k) \in At[JobOf(k)] => rows[k].status \notin {"none", "running"})

\* runner.py: a run that failed is started again while it can still start inside its grace:
\* the House does not stop looking at it before.
LookedAtAgain == \A k \in settled : rows[k].status = "failed" => RetryState(k) = "settled"
=============================================================================
