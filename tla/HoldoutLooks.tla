---------------------------- MODULE HoldoutLooks ----------------------------
(***************************************************************************)
(* The swarm's gate and its looks at sealed days (league/swarm/gate.py:    *)
(* run, look, owe, finish), the store it shares with the tournament        *)
(* (league/swarm/store.py, tournament.py: _verdict) and the pool its jobs  *)
(* run in (league/swarm/pool.py: wait, _fail, _requeue).                   *)
(*                                                                         *)
(* The gate is one thread that goes over the families: it may read a       *)
(* program, paid and slow, and then marks the family's look as in flight   *)
(* in one transaction and waits for the job.  A look it stops waiting for  *)
(* lands or fails later, on the pool's thread; the tournament validates    *)
(* meanwhile; the Gym's data moves on; the process ends and every job with *)
(* it.  A look that did not happen is owed again.                          *)
(*                                                                         *)
(* A version stands for its program: two families that validate the same   *)
(* member of Programs hold duplicates; the band "candidate" stands for it  *)
(* and those above it.  The operator's hold, the lanes and an image that   *)
(* lacks a root only keep the gate from a family, which it may always do   *)
(* here.  So does the leakage alarm, which stops whole rounds, the giving  *)
(* up of a look with them: the fairness below is of times without one.     *)
(* Ages stand for the clock: 1 is past the gate's wait, 2 past the limit   *)
(* after which a look is given up, as one whose process has ended is.      *)
(***************************************************************************)
EXTENDS Integers, Sequences, FiniteSets

CONSTANTS
    Families,     \* the families of agents
    Lineage,      \* the lineage of each
    Programs,     \* programs
    Writes,       \* those that each family may come to validate
    None,         \* no program, or no family
    Ration,       \* the looks a lineage has
    MaxTries,     \* a look that cannot be made is refused at this try
    MaxLooks,     \* bound: looks marked
    MaxVerdicts,  \* bound: verdicts of the tournament
    MaxRolls,     \* bound: times the Gym's data moves on
    MaxStops      \* bound: times the process ends

ASSUME HoldoutLooksAssumption ==
    /\ DOMAIN Lineage = Families
    /\ Writes \in [Families -> SUBSET Programs]
    /\ None \notin Families \cup Programs
    /\ {Ration, MaxTries, MaxLooks} \subseteq Nat \ {0}
    /\ {MaxVerdicts, MaxRolls, MaxStops} \subseteq Nat

VARIABLES
    fam,      \* each family's row and state in the store
    looks,    \* the looks table: the attempt that landed, and whether its line passed
    tries,    \* kv look_tries of each program
    bar,      \* the failed paid review of each program: on record, owed to the record, or none
    job,      \* the looks' jobs, in the order they were marked
    gate,     \* what the gate's thread reads, or the job it waits for
    data,     \* the Gym's image and bundle in use
    left      \* what the bounds leave: verdicts and stops

vars == <<fam, looks, tries, bar, job, gate, data, left>>

Attempts == DOMAIN job
Live(a)   == job[a].state \in {"queued", "running"}
Marked(a) == \E f \in Families : fam[f].marker = a

Landed       == {job[row.look].program : row \in looks}
Looked(p)    == p \in Landed
InFlight(S)  == {job[fam[f].marker].program : f \in {g \in S : fam[g].marker # 0}}
Kin(f)       == {g \in Families : Lineage[g] = Lineage[f]}
OwnLooks(S)  == {job[row.look].program : row \in {r \in looks : job[r.look].family \in S}}

\* Bug: a look in flight is not counted.
ReservedLanded(f) == Cardinality(OwnLooks(Kin(f)))

\* lineage_looks, with what is in flight.
Reserved(f) == Cardinality(OwnLooks(Kin(f)) \cup InFlight(Kin(f)))

Idle == [family |-> None, program |-> None, on |-> 0, stage |-> "none", job |-> 0]
-----------------------------------------------------------------------------
Init ==
    /\ fam = [f \in Families |-> [band |-> "gym", validated |-> None, entered |-> FALSE, on |-> 0,
                                  ready |-> FALSE, gated |-> None, marker |-> 0]]
    /\ looks = {}
    /\ tries = [p \in Programs |-> 0]
    /\ bar = [p \in Programs |-> "none"]
    /\ job = <<>>
    /\ gate = Idle
    /\ data = 0
    /\ left = [verdicts |-> MaxVerdicts, stops |-> MaxStops]
-----------------------------------------------------------------------------
\* Tournament.judge and _verdict: a family's version judged on the data in use, in time or
\* late, by when it may have left the Gym.
Validate(f, p, entered) ==
    /\ left.verdicts > 0
    /\ fam[f].band # "retired"
    /\ fam[f].validated # p \/ fam[f].on # data
    /\ fam' = [fam EXCEPT ![f].validated = p, ![f].entered = entered, ![f].on = data,
                          ![f].ready = entered /\ ~ (Looked(p) \/ fam[f].gated = p)]
    /\ left' = [left EXCEPT !.verdicts = @ - 1]
    /\ UNCHANGED <<looks, tries, bar, job, gate, data>>

\* Before its Gym run, a version last judged on other data is no longer gate-ready.
SendValidation(f) ==
    /\ fam[f].ready /\ fam[f].on # data
    /\ fam' = [fam EXCEPT ![f].ready = FALSE]
    /\ UNCHANGED <<looks, tries, bar, job, gate, data, left>>

\* store.retire_gym, whatever is in flight.
Retire(f) ==
    /\ fam[f].band = "gym"
    /\ fam' = [fam EXCEPT ![f].band = "retired", ![f].ready = FALSE]
    /\ UNCHANGED <<looks, tries, bar, job, gate, data, left>>

\* judge_forward: a candidate whose forward record is negative is back in the Gym.
Demote(f) ==
    /\ fam[f].band = "candidate"
    /\ fam' = [fam EXCEPT ![f].band = "gym"]
    /\ UNCHANGED <<looks, tries, bar, job, gate, data, left>>

\* The nightly image or bundle takes the place of the one in use.
Roll ==
    /\ data < MaxRolls
    /\ data' = data + 1
    /\ UNCHANGED <<fam, looks, tries, bar, job, gate, left>>

\* evaluator.adopt, at a start under other rules: what a living family had validated is
\* owed again, and a candidate of other rules is back in the Gym.
Unselected(row) ==
    IF row.band = "retired" THEN {row}
    ELSE {[row EXCEPT !.band = b, !.validated = None, !.entered = FALSE, !.ready = FALSE, !.gated = None]
            : b \in {row.band, "gym"}}

\* The process ends and starts again.  No job survives it; a bar still owed does, unless it
\* could not be kept beside the store either.
Restart ==
    /\ left.stops > 0
    /\ left' = [left EXCEPT !.stops = @ - 1]
    /\ job' = [a \in Attempts |-> [job[a] EXCEPT !.state = "over", !.age = IF Marked(a) THEN 2 ELSE 0]]
    /\ gate' = Idle
    /\ \/ fam' = fam
       \/ fam' \in {rows \in [Families -> UNION {Unselected(fam[f]) : f \in Families}] :
                      \A f \in Families : rows[f] \in Unselected(fam[f])}
    /\ \/ bar' = bar
       \/ bar' = [p \in Programs |-> IF bar[p] = "owed" THEN "none" ELSE bar[p]]
    /\ UNCHANGED <<looks, tries, data>>
-----------------------------------------------------------------------------
\* Bug: the reservation is given back and the look is not owed.
OwedRowCleared(row, p, missing) == [row EXCEPT !.marker = 0]

\* _owe for a look that did not happen, on its family's row and its tries.
OwedRow(row, p, missing) ==
    LET cleared == [row EXCEPT !.marker = 0] IN
    IF Looked(p) \/ row.band = "retired" \/ row.validated # p THEN cleared
    ELSE IF missing \/ tries[p] + 1 < MaxTries THEN [cleared EXCEPT !.gated = None, !.ready = TRUE]
    ELSE [cleared EXCEPT !.gated = p, !.ready = FALSE]

CountsTry(row, p, missing) == ~ (Looked(p) \/ row.band = "retired" \/ row.validated # p \/ missing)

\* owe: only the attempt whose marker still stands is owed.
Owe(a, missing) ==
    LET f == job[a].family
        p == job[a].program
    IN IF fam[f].marker = a
       THEN /\ fam' = [fam EXCEPT ![f] = OwedRow(fam[f], p, missing)]
            /\ tries' = [tries EXCEPT ![p] = @ + (IF CountsTry(fam[f], p, missing) THEN 1 ELSE 0)]
       ELSE UNCHANGED <<fam, tries>>

\* Bug: a job that still runs holds its marker for ever.
GivenUpEnded(f) == LET a == fam[f].marker IN a # 0 /\ job[a].age = 2 /\ ~ Live(a)

\* A marker of another process, or older than the limit.
GivenUp(f) == LET a == fam[f].marker IN a # 0 /\ job[a].age = 2

\* The round finds it and its look is owed.
GiveUp(f) ==
    /\ gate = Idle
    /\ GivenUp(f)
    /\ Owe(fam[f].marker, FALSE)
    /\ UNCHANGED <<looks, bar, job, gate, data, left>>

\* A family's turn comes, as the round takes it up.
Due(f) ==
    /\ gate = Idle
    /\ fam[f].band = "gym" /\ fam[f].ready
    /\ fam[f].marker = 0
    /\ fam[f].on = data
    /\ fam[f].gated # fam[f].validated

Closed(f) == [fam EXCEPT ![f].gated = fam[f].validated, ![f].ready = FALSE]

\* Refused, or closed, before anything is paid: a repeat of a look that landed, a program
\* a paid review failed, a lineage without looks, or a free check's own reasons.
CloseFree(f) ==
    /\ Due(f)
    /\ fam' = Closed(f)
    /\ UNCHANGED <<looks, tries, bar, job, gate, data, left>>

\* No look that landed, or is out in another family, is of its program (duplicate_look).
NoDuplicate(f, p) == ~ Looked(p) /\ p \notin InFlight(Families \ {f})

\* The review and the audit begin, or the ones on record are read again.  A failed one that
\* is only owed to the record does not close its program (paid_verdict).
BeginReview(f) ==
    /\ Due(f)
    /\ NoDuplicate(f, fam[f].validated)
    /\ bar[fam[f].validated] # "kept"
    /\ Reserved(f) < Ration
    /\ gate' = [family |-> f, program |-> fam[f].validated, on |-> fam[f].on, stage |-> "reading",
                job |-> 0]
    /\ UNCHANGED <<fam, looks, tries, bar, job, data, left>>

\* _review_current: nothing has moved on since the turn began.
Current(f) ==
    /\ fam[f].band = "gym" /\ fam[f].ready
    /\ fam[f].validated = gate.program
    /\ fam[f].on = gate.on

\* Cut off, unclear, no longer wanted, or refused by look's transaction: asked again in
\* another round, if at all.
DropReview(f) ==
    /\ gate.family = f
    /\ gate' = Idle
    /\ UNCHANGED <<fam, looks, tries, bar, job, data, left>>

\* A review that fails is the program's bar first, whatever has become of its version; where
\* an error keeps it from the store (kept is FALSE), the bar is owed, and only the refusal of
\* a version that is still current is on record.
FailReview(f, kept) ==
    /\ gate.family = f /\ gate.stage = "reading"
    /\ bar' = [bar EXCEPT ![gate.program] = IF kept \/ Current(f) THEN "kept" ELSE "owed"]
    /\ fam' = IF Current(f) THEN Closed(f) ELSE fam
    /\ gate' = Idle
    /\ UNCHANGED <<looks, tries, job, data, left>>

\* A bar that was owed, recorded when a round starts or ends.
RecordOwed(p) ==
    /\ gate = Idle
    /\ bar[p] = "owed"
    /\ bar' = [bar EXCEPT ![p] = "kept"]
    /\ UNCHANGED <<fam, looks, tries, job, gate, data, left>>

\* Both readers pass it and nothing has moved on.
PassReview(f) ==
    /\ gate.family = f /\ gate.stage = "reading"
    /\ Current(f)
    /\ gate' = [gate EXCEPT !.stage = "passed"]
    /\ UNCHANGED <<fam, looks, tries, bar, job, data, left>>

\* look, before its transaction: it reads which data is in use.
BeginLook(f) ==
    /\ gate.family = f /\ gate.stage = "passed"
    /\ gate' = [gate EXCEPT !.stage = "marking", !.on = data]
    /\ UNCHANGED <<fam, looks, tries, bar, job, data, left>>

\* look's transaction: the version still validated, on the data just read, is marked as
\* looked at, though it may have left the gate or the Gym since the review passed.
Mark(f) ==
    /\ gate.family = f /\ gate.stage = "marking"
    /\ Len(job) < MaxLooks
    /\ fam[f].band # "retired"
    /\ NoDuplicate(f, gate.program)
    /\ Reserved(f) < Ration
    /\ fam[f].validated = gate.program /\ fam[f].on = gate.on
    /\ fam[f].marker = 0
    /\ fam' = [fam EXCEPT ![f].ready = FALSE, ![f].marker = Len(job) + 1]
    /\ job' = Append(job, [family |-> f, program |-> gate.program, on |-> gate.on,
                           state |-> "queued", age |-> 0])
    /\ gate' = [Idle EXCEPT !.job = Len(job) + 1]
    /\ UNCHANGED <<looks, tries, bar, data, left>>
-----------------------------------------------------------------------------
\* The job ends; nobody reads its age any more.
Over(a) == [job EXCEPT ![a].state = "over", ![a].age = 0]

\* Bug: the gate is not told.
UnwaitedKept(a) == gate

Unwaited(a) == IF gate.job = a THEN Idle ELSE gate

\* Time passes over a job the gate waits for, or over a marker that stands.
Age(a) ==
    /\ Live(a) \/ Marked(a)
    /\ job[a].age < (IF gate.job = a THEN 1 ELSE 2)
    /\ job' = [job EXCEPT ![a].age = @ + 1]
    /\ UNCHANGED <<fam, looks, tries, bar, gate, data, left>>

Dispatch(a) ==
    /\ job[a].state = "queued"
    /\ fam[job[a].family].band # "retired"
    /\ job' = [job EXCEPT ![a].state = "running"]
    /\ UNCHANGED <<fam, looks, tries, bar, gate, data, left>>

\* The box fails under it: it is queued again (_requeue; once in the code, any number of
\* times here).
Requeue(a) ==
    /\ job[a].state = "running"
    /\ job' = [job EXCEPT ![a].state = "queued"]
    /\ UNCHANGED <<fam, looks, tries, bar, gate, data, left>>

\* _fail: a second failure, no result, missing data, or a family retired in the queue.
Fail(a, missing) ==
    /\ \/ job[a].state = "running"
       \/ job[a].state = "queued" /\ fam[job[a].family].band = "retired"
    /\ job' = Over(a)
    /\ gate' = Unwaited(a)
    /\ Owe(a, missing)
    /\ UNCHANGED <<looks, bar, data, left>>

\* finish, of a result that is no look (an engine error, no data): owed, unless another
\* attempt's look of the program has landed, when the marker stands until the limit.
Unusable(a) ==
    /\ job[a].state = "running"
    /\ job' = Over(a)
    /\ gate' = Unwaited(a)
    /\ IF Looked(job[a].program) THEN UNCHANGED <<fam, tries>> ELSE Owe(a, FALSE)
    /\ UNCHANGED <<looks, bar, data, left>>

\* It fails in the moment the wait ends, and nobody hears of it.
FailUnheard(a) ==
    /\ job[a].state = "running" /\ gate.job = a /\ job[a].age = 1
    /\ job' = [job EXCEPT ![a].state = "over"]
    /\ gate' = Idle
    /\ UNCHANGED <<fam, looks, tries, bar, data, left>>

\* Bug: the look is owed though its job goes on.
StopWaitingOwed(a) ==
    /\ gate.job = a /\ job[a].age = 1
    /\ gate' = Idle
    /\ job' = IF job[a].state = "queued" THEN Over(a) ELSE job
    /\ Owe(a, FALSE)
    /\ UNCHANGED <<looks, bar, data, left>>

\* The gate's wait ends: a job still queued is abandoned and owed, one that runs goes on.
StopWaiting(a) ==
    /\ gate.job = a /\ job[a].age = 1
    /\ gate' = Idle
    /\ IF job[a].state = "queued"
       THEN job' = Over(a) /\ Owe(a, FALSE)
       ELSE UNCHANGED <<job, fam, tries>>
    /\ UNCHANGED <<looks, bar, data, left>>

\* What _finish makes of the family's row.
FinishedRow(row, a, passed) ==
    LET p == job[a].program IN
    [row EXCEPT !.marker = IF @ # 0 /\ job[@].program = p THEN 0 ELSE @,
                !.gated  = IF row.validated = p THEN p ELSE @,
                !.band   = IF passed /\ @ = "gym" /\ job[a].on = data THEN "candidate" ELSE @]

\* finish: the first result of a program is its look, whoever still waits for it.
Land(a, passed) ==
    LET f == job[a].family
        p == job[a].program
    IN /\ job[a].state = "running"
       /\ job' = Over(a)
       /\ gate' = Unwaited(a)
       /\ IF Looked(p)
          THEN UNCHANGED <<fam, looks>>
          ELSE /\ fam' = [fam EXCEPT ![f] = FinishedRow(@, a, passed)]
               /\ looks' = looks \cup {[look |-> a, kept |-> p \in InFlight({f})]}
       /\ UNCHANGED <<tries, bar, data, left>>
-----------------------------------------------------------------------------
Next ==
    \/ \E f \in Families :
         \/ \E p \in Writes[f], entered \in BOOLEAN : Validate(f, p, entered)
         \/ SendValidation(f) \/ Retire(f) \/ Demote(f)
         \/ GiveUp(f) \/ CloseFree(f) \/ BeginReview(f)
         \/ DropReview(f) \/ PassReview(f) \/ BeginLook(f) \/ Mark(f)
         \/ \E kept \in BOOLEAN : FailReview(f, kept)
    \/ \E p \in Programs : RecordOwed(p)
    \/ \E a \in Attempts :
         \/ Age(a) \/ Dispatch(a) \/ Requeue(a) \/ StopWaiting(a)
         \/ \E missing \in BOOLEAN : Fail(a, missing)
         \/ Unusable(a) \/ FailUnheard(a)
         \/ \E passed \in BOOLEAN : Land(a, passed)
    \/ Roll
    \/ Restart

Spec == Init /\ [][Next]_vars

\* Time passes, the gate's waits and readings end, and its rounds come to every family
\* again.  Nothing is assumed of the pool: a job may hang for ever.
Fairness ==
    /\ WF_vars(\E a \in Attempts : Age(a))
    /\ WF_vars(\E a \in Attempts : StopWaiting(a))
    /\ WF_vars(\E f \in Families :
                 \/ DropReview(f) \/ PassReview(f) \/ BeginLook(f) \/ Mark(f)
                 \/ \E kept \in BOOLEAN : FailReview(f, kept))
    /\ \A f \in Families : SF_vars(GiveUp(f))

FairSpec == Spec /\ Fairness
-----------------------------------------------------------------------------
Row == [band : {"gym", "candidate", "retired"}, validated : Programs \cup {None}, entered : BOOLEAN,
        on : 0..MaxRolls, ready : BOOLEAN, gated : Programs \cup {None}, marker : 0..MaxLooks]
Job == [family : Families, program : Programs, on : 0..MaxRolls,
        state : {"queued", "running", "over"}, age : 0..2]

\* Every variable has its type; a marker is an attempt of its own family's; the gate reads
\* or waits, never both, and waits for a job that has not ended.
TypeOK ==
    /\ fam \in [Families -> Row]
    /\ job \in Seq(Job) /\ Len(job) <= MaxLooks
    /\ looks \subseteq [look : Attempts, kept : BOOLEAN]
    /\ tries \in [Programs -> Nat] /\ bar \in [Programs -> {"none", "owed", "kept"}]
    /\ data \in 0..MaxRolls
    /\ \A f \in Families : fam[f].marker # 0 => job[fam[f].marker].family = f
    /\ gate.family # None => gate.job = 0
    /\ gate.job # 0 => Live(gate.job)

\* The rations: one look of a program in the table, whichever attempts landed; and the
\* looks of a lineage that landed under a marker, with those in flight, within its ration.
\* A look the gate had given up may land beside them.
Rationed ==
    /\ Cardinality(looks) = Cardinality(Landed)
    /\ \A f \in Families :
         LET kept == {job[r.look].program : r \in {x \in looks : x.kept /\ job[x.look].family \in Kin(f)}}
         IN Cardinality(kept \cup InFlight(Kin(f))) <= Ration

\* A version that entered the gate on the data in use waits there, is out for its look,
\* had it, or was refused, in the Gym, out of it and back: no crash, no failed box and no
\* lost answer forgets its look.
NothingForgotten ==
    \A f \in Families :
      fam[f].band # "retired" /\ fam[f].entered /\ fam[f].on = data =>
        \/ fam[f].ready
        \/ fam[f].validated \in InFlight({f})
        \/ fam[f].gated = fam[f].validated
        \/ Looked(fam[f].validated)

\* A look begins only where it can count: its program has not been looked at, no failed
\* review of it is on record, however its version was superseded or adopted since, and no
\* attempt at it that the limit has not given up may still land, in any family.
NoLookWasted ==
    [][\A a \in DOMAIN job' \ DOMAIN job :
         LET p == job'[a].program IN
         /\ ~ Looked(p) /\ bar[p] # "kept"
         /\ \A b \in Attempts : Live(b) /\ job[b].program = p => job[b].age = 2]_vars

\* No look stays in flight: it lands, fails or is given up, and its lineage has the
\* reservation back.
LooksSettle == \A f \in Families : fam[f].marker # 0 ~> fam[f].marker = 0
=============================================================================
