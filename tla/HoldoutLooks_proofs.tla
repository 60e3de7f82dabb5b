------------------------- MODULE HoldoutLooks_proofs -------------------------
(***************************************************************************)
(* Proofs about HoldoutLooks, for every set of families and programs, every *)
(* lineage and ration and every bound.                                     *)
(***************************************************************************)
EXTENDS HoldoutLooks, FiniteSetTheorems, TLAPS

Gate == [family : Families \cup {None}, program : Programs \cup {None}, on : 0..MaxRolls,
         stage : {"none", "reading", "passed", "marking"}, job : 0..MaxLooks]

\* The type invariant with what it needs to be inductive: every marker and the job the gate
\* waits for are attempts, and what the gate reads, or may come to read, is a program.
Typed ==
    /\ fam \in [Families -> Row]
    /\ job \in Seq(Job) /\ Len(job) <= MaxLooks
    /\ looks \subseteq [look : Attempts, kept : BOOLEAN]
    /\ tries \in [Programs -> Nat] /\ bar \in [Programs -> {"none", "owed", "kept"}]
    /\ data \in 0..MaxRolls
    /\ gate \in Gate
    /\ \A f \in Families : fam[f].marker # 0 =>
         fam[f].marker \in Attempts /\ job[fam[f].marker].family = f
    /\ \A f \in Families : fam[f].ready => fam[f].validated \in Programs
    /\ gate.family # None => gate.job = 0 /\ gate.program \in Programs
    /\ gate.job # 0 => gate.job \in Attempts /\ Live(gate.job)

\* No family was judged on data that is still to come.
JudgedBefore == \A f \in Families : fam[f].on <= data

\* One look of a program in the table.
OneLookEach ==
    \A r, s \in looks : job[r.look].program = job[s.look].program => r = s

\* What the gate reads, no failed review on record is of.
ReadsUnfailed == gate.family # None => bar[gate.program] # "kept"

\* A job that may still land keeps its marker, unless its program has been looked at or the
\* gate has given it up.
LiveIsHeld ==
    \A a \in Attempts : Live(a) =>
        \/ fam[job[a].family].marker = a
        \/ Looked(job[a].program)
        \/ job[a].age = 2

\* What a lineage has used of its ration: Rationed's second part says it is within it.
Kept(f) == {job[r.look].program : r \in {x \in looks : x.kept /\ job[x.look].family \in Kin(f)}}
Used(f) == Kept(f) \cup InFlight(Kin(f))

WithinRation == \A f \in Families : Cardinality(Used(f)) <= Ration

Inv ==
    /\ Typed
    /\ JudgedBefore /\ NothingForgotten
    /\ OneLookEach /\ WithinRation
    /\ ReadsUnfailed /\ LiveIsHeld
-----------------------------------------------------------------------------
\* The jobs are a sequence whatever is changed of them, so long as each stays a job.
LEMMA JobsStaySequence ==
    ASSUME job \in Seq(Job), NEW t, t \in [Attempts -> Job]
    PROVE  t \in Seq(Job) /\ Len(t) = Len(job) /\ DOMAIN t = Attempts
<1> Attempts = 1..Len(job) /\ Len(job) \in Nat
  BY DEF Attempts
<1> QED
  OBVIOUS

\* The attempts are the first numbers, each with its job.
LEMMA AttemptsAre ==
    ASSUME Typed
    PROVE  /\ Attempts = 1..Len(job) /\ Len(job) \in Nat /\ Attempts \subseteq 1..MaxLooks
           /\ \A a \in Attempts : job[a] \in Job
BY HoldoutLooksAssumption DEF Typed, Attempts

\* The jobs a step leaves: the same attempts at the same programs.
SameJobs ==
    /\ job' \in Seq(Job) /\ Len(job') = Len(job) /\ Attempts' = Attempts
    /\ \A a \in Attempts : /\ job'[a].program = job[a].program
                           /\ job'[a].family = job[a].family

\* What one attempt becomes: the others stand.
Becomes(a, state, age) ==
    /\ job'[a].state = state /\ job'[a].age = age
    /\ \A b \in Attempts \ {a} : job'[b] = job[b]

\* A step that changes one job, at the same program, leaves the same attempts.
LEMMA OneChanges ==
    ASSUME Typed, NEW a \in Attempts, NEW t \in Job,
           job' \in [Attempts -> Job], job'[a] = t, \A b \in Attempts \ {a} : job'[b] = job[b],
           t.program = job[a].program, t.family = job[a].family
    PROVE  SameJobs /\ Becomes(a, t.state, t.age)
<1> job' \in Seq(Job) /\ Len(job') = Len(job) /\ DOMAIN job' = Attempts
  BY JobsStaySequence DEF Typed
<1> QED
  BY DEF SameJobs, Becomes, Attempts

\* The step that ends, ages, starts or requeues an attempt changes that one only.
LEMMA AttemptSteps ==
    ASSUME Typed, NEW a \in Attempts
    PROVE  /\ job' = Over(a) => SameJobs /\ Becomes(a, "over", 0)
           /\ Age(a) => /\ SameJobs /\ Becomes(a, job[a].state, job[a].age + 1)
                        /\ job[a].age + 1 \in 1..2
           /\ Dispatch(a) => SameJobs /\ Becomes(a, "running", job[a].age)
           /\ Requeue(a) => SameJobs /\ Becomes(a, "queued", job[a].age)
           /\ FailUnheard(a) => SameJobs /\ Becomes(a, "over", job[a].age)
<1>1. job[a] \in Job /\ job \in [Attempts -> Job]
  BY AttemptsAre DEF Typed, Attempts
<1>2. \A state \in {"queued", "running", "over"} :
        job' = [job EXCEPT ![a].state = state] => SameJobs /\ Becomes(a, state, job[a].age)
  <2> SUFFICES ASSUME NEW state \in {"queued", "running", "over"},
                      job' = [job EXCEPT ![a].state = state]
               PROVE  SameJobs /\ Becomes(a, state, job[a].age)
    OBVIOUS
  <2> DEFINE t == [job[a] EXCEPT !.state = state]
  <2>1. /\ t \in Job /\ t.program = job[a].program /\ t.family = job[a].family
        /\ t.state = state /\ t.age = job[a].age
    BY <1>1 DEF Job
  <2>2. job' \in [Attempts -> Job] /\ job'[a] = t /\ \A b \in Attempts \ {a} : job'[b] = job[b]
    BY <1>1, <2>1
  <2> HIDE DEF t
  <2> QED
    BY <2>1, <2>2, OneChanges
<1>3. ASSUME job' = Over(a) PROVE SameJobs /\ Becomes(a, "over", 0)
  <2> DEFINE t == [family |-> job[a].family, program |-> job[a].program, on |-> job[a].on,
                   state |-> "over", age |-> 0]
  <2>1. /\ t \in Job /\ t.program = job[a].program /\ t.family = job[a].family
        /\ t.state = "over" /\ t.age = 0
    BY <1>1 DEF Job
  <2>2. \A b \in Attempts \ {a} : job'[b] = job[b]
    BY <1>1, <1>3 DEF Over
  <2>3. job'[a] = t
    <3>1. job'[a] = [[job[a] EXCEPT !.state = "over"] EXCEPT !.age = 0]
      BY <1>1, <1>3 DEF Over
    <3> QED
      BY <1>1, <3>1 DEF Job
  <2>4. job' \in [Attempts -> Job]
    BY <1>1, <1>3, <2>1, <2>2, <2>3 DEF Over
  <2> HIDE DEF t
  <2> QED
    BY <2>1, <2>2, <2>3, <2>4, OneChanges
<1>4. ASSUME Age(a)
      PROVE  SameJobs /\ Becomes(a, job[a].state, job[a].age + 1) /\ job[a].age + 1 \in 1..2
  <2> DEFINE t == [job[a] EXCEPT !.age = @ + 1]
  <2>1. job[a].age + 1 \in 1..2
    BY <1>1, <1>4 DEF Job, Age
  <2>2. /\ t \in Job /\ t.program = job[a].program /\ t.family = job[a].family
        /\ t.state = job[a].state /\ t.age = job[a].age + 1
    BY <1>1, <2>1 DEF Job
  <2>3. job' \in [Attempts -> Job] /\ job'[a] = t /\ \A b \in Attempts \ {a} : job'[b] = job[b]
    BY <1>1, <1>4, <2>2 DEF Age
  <2> HIDE DEF t
  <2> QED
    BY <2>1, <2>2, <2>3, OneChanges
<1> QED
  BY <1>2, <1>3, <1>4 DEF Dispatch, Requeue, FailUnheard

\* What _owe makes of the families: one row, whose marker is given back.
LEMMA OweWrites ==
    ASSUME Typed, NEW a \in Attempts, NEW missing \in BOOLEAN, Owe(a, missing)
    PROVE  /\ fam' \in [Families -> Row] /\ tries' \in [Programs -> Nat]
           /\ \A g \in Families : fam'[g] # fam[g] =>
                /\ fam[g].marker = a /\ fam'[g].marker = 0
                /\ fam'[g].band = fam[g].band /\ fam'[g].validated = fam[g].validated
                /\ fam'[g].entered = fam[g].entered /\ fam'[g].on = fam[g].on
                /\ \/ /\ Looked(job[a].program) \/ fam[g].band = "retired"
                         \/ fam[g].validated # job[a].program
                      /\ fam'[g].ready = fam[g].ready /\ fam'[g].gated = fam[g].gated
                   \/ /\ fam[g].validated = job[a].program
                      /\ fam'[g].ready \/ fam'[g].gated = fam[g].validated
<1> DEFINE f == job[a].family
           p == job[a].program
<1>1. f \in Families /\ p \in Programs
  BY AttemptsAre DEF Job
<1>2. CASE fam[f].marker # a
  BY <1>2 DEF Owe, Typed
<1>3. CASE fam[f].marker = a
  <2>1. /\ fam' = [fam EXCEPT ![f] = OwedRow(fam[f], p, missing)]
        /\ tries' = [tries EXCEPT ![p] = @ + (IF CountsTry(fam[f], p, missing) THEN 1 ELSE 0)]
    BY <1>3 DEF Owe
  <2>2. tries' \in [Programs -> Nat]
    BY <1>1, <2>1 DEF Typed
  <2>3. fam[f] \in Row /\ 0 \in 0..MaxLooks
    BY <1>1, HoldoutLooksAssumption DEF Typed
  <2>4. OwedRow(fam[f], p, missing) \in Row
    BY <1>1, <2>3 DEF OwedRow, Row
  <2>5. OwedRow(fam[f], p, missing).marker = 0
    BY <2>3 DEF OwedRow, Row
  <2>6. LET row == OwedRow(fam[f], p, missing) IN
        /\ row.band = fam[f].band /\ row.validated = fam[f].validated
        /\ row.entered = fam[f].entered /\ row.on = fam[f].on
        /\ \/ /\ Looked(p) \/ fam[f].band = "retired" \/ fam[f].validated # p
              /\ row.ready = fam[f].ready /\ row.gated = fam[f].gated
           \/ fam[f].validated = p /\ (row.ready \/ row.gated = fam[f].validated)
    BY <2>3 DEF OwedRow, Row
  <2>7. fam' \in [Families -> Row]
    BY <1>1, <2>1, <2>4 DEF Typed
  <2>8. fam'[f] = OwedRow(fam[f], p, missing) /\ \A g \in Families \ {f} : fam'[g] = fam[g]
    BY <1>1, <2>1 DEF Typed
  <2> QED
    BY <1>3, <2>2, <2>5, <2>6, <2>7, <2>8
<1> QED
  BY <1>2, <1>3

\* What finish makes of the looks and of the family whose job it was, for the first result
\* of its program.
FirstResult(a) ==
    LET f == job[a].family
        p == job[a].program
    IN /\ ~ Looked(p)
       /\ looks' = looks \cup {[look |-> a, kept |-> p \in InFlight({f})]}
       /\ \A g \in Families \ {f} : fam'[g] = fam[g]
       /\ fam'[f].validated = fam[f].validated /\ fam'[f].entered = fam[f].entered
       /\ fam'[f].on = fam[f].on /\ fam'[f].ready = fam[f].ready
       /\ fam'[f].band = "retired" <=> fam[f].band = "retired"
       /\ fam'[f].gated = IF fam[f].validated = p THEN p ELSE fam[f].gated
       /\ fam'[f].marker = IF fam[f].marker # 0 /\ job[fam[f].marker].program = p
                           THEN 0 ELSE fam[f].marker

\* A result that lands is recorded once: the later one of a program changes nothing.
LEMMA LandWrites ==
    ASSUME Typed, NEW a \in Attempts, NEW passed \in BOOLEAN, Land(a, passed)
    PROVE  /\ job[a].family \in Families /\ job[a].program \in Programs
           /\ fam' \in [Families -> Row]
           /\ \/ Looked(job[a].program) /\ UNCHANGED <<fam, looks>>
              \/ FirstResult(a)
<1> DEFINE f == job[a].family
           p == job[a].program
           row == FinishedRow(fam[f], a, passed)
<1>1. f \in Families /\ p \in Programs
  BY AttemptsAre DEF Job
<1>2. CASE Looked(p)
  BY <1>1, <1>2 DEF Land, Typed
<1>3. CASE ~ Looked(p)
  <2>1. /\ looks' = looks \cup {[look |-> a, kept |-> p \in InFlight({f})]}
        /\ fam' = [fam EXCEPT ![f] = row]
    BY <1>3 DEF Land
  <2>2. fam[f] \in Row /\ 0 \in 0..MaxLooks
    BY <1>1, HoldoutLooksAssumption DEF Typed
  <2>3. /\ row.validated = fam[f].validated /\ row.entered = fam[f].entered
        /\ row.on = fam[f].on /\ row.ready = fam[f].ready
        /\ row.band = "retired" <=> fam[f].band = "retired"
        /\ row.gated = IF fam[f].validated = p THEN p ELSE fam[f].gated
        /\ row.marker = IF fam[f].marker # 0 /\ job[fam[f].marker].program = p
                        THEN 0 ELSE fam[f].marker
    BY <2>2 DEF FinishedRow, Row
  <2>4. row \in Row
    BY <1>1, <2>2 DEF FinishedRow, Row
  <2> HIDE DEF row
  <2>5. /\ fam' \in [Families -> Row]
        /\ fam'[f] = row /\ \A g \in Families \ {f} : fam'[g] = fam[g]
    BY <1>1, <2>1, <2>4 DEF Typed
  <2> QED
    BY <1>1, <1>3, <2>1, <2>3, <2>5 DEF FirstResult
<1> QED
  BY <1>2, <1>3

\* Retiring a family and closing its turn without a look change no more than its band, its
\* readiness and what it was gated for.
LEMMA RowWrites ==
    ASSUME Typed, NEW f \in Families,
           \/ fam' = [fam EXCEPT ![f].ready = FALSE]
           \/ fam' = [fam EXCEPT ![f].band = "retired", ![f].ready = FALSE]
           \/ fam' = Closed(f)
    PROVE  /\ fam' \in [Families -> Row]
           /\ \A g \in Families \ {f} : fam'[g] = fam[g]
           /\ fam'[f].validated = fam[f].validated /\ fam'[f].entered = fam[f].entered
           /\ fam'[f].on = fam[f].on /\ fam'[f].marker = fam[f].marker
           /\ ~ fam'[f].ready
           /\ fam' = Closed(f) => fam'[f].gated = fam[f].validated
           /\ fam'[f].band \in {fam[f].band, "retired"}
           /\ fam'[f].gated \in {fam[f].gated, fam[f].validated}
<1>1. fam[f] \in Row
  BY DEF Typed
<1>2. CASE fam' = [fam EXCEPT ![f].ready = FALSE]
  <2> DEFINE row == [fam[f] EXCEPT !.ready = FALSE]
  <2>1. /\ row \in Row /\ row.band = fam[f].band /\ ~ row.ready
        /\ row.validated = fam[f].validated /\ row.entered = fam[f].entered
        /\ row.on = fam[f].on /\ row.marker = fam[f].marker /\ row.gated = fam[f].gated
    BY <1>1 DEF Row
  <2>2. fam' = [fam EXCEPT ![f] = row]
    BY <1>2 DEF Typed
  <2> HIDE DEF row
  <2>3. /\ fam' \in [Families -> Row] /\ fam'[f] = row
        /\ \A g \in Families \ {f} : fam'[g] = fam[g]
    BY <2>1, <2>2 DEF Typed
  <2>4. fam' = Closed(f) => fam'[f].gated = fam[f].validated
    <3>1. ASSUME fam' = Closed(f)
          PROVE  fam'[f] = [[fam[f] EXCEPT !.gated = fam[f].validated] EXCEPT !.ready = FALSE]
      BY <3>1 DEF Closed, Typed
    <3> QED
      BY <1>1, <3>1 DEF Row
  <2> QED
    BY <2>1, <2>3, <2>4
<1>3. CASE fam' = [fam EXCEPT ![f].band = "retired", ![f].ready = FALSE]
  <2> DEFINE row == [fam[f] EXCEPT !.band = "retired", !.ready = FALSE]
  <2>1. /\ row \in Row /\ row.band = "retired" /\ ~ row.ready
        /\ row.validated = fam[f].validated /\ row.entered = fam[f].entered
        /\ row.on = fam[f].on /\ row.marker = fam[f].marker /\ row.gated = fam[f].gated
    BY <1>1 DEF Row
  <2>2. fam' = [fam EXCEPT ![f] = row]
    BY <1>3 DEF Typed
  <2> HIDE DEF row
  <2>3. /\ fam' \in [Families -> Row] /\ fam'[f] = row
        /\ \A g \in Families \ {f} : fam'[g] = fam[g]
    BY <2>1, <2>2 DEF Typed
  <2>4. fam' = Closed(f) => fam'[f].gated = fam[f].validated
    <3>1. ASSUME fam' = Closed(f)
          PROVE  fam'[f] = [[fam[f] EXCEPT !.gated = fam[f].validated] EXCEPT !.ready = FALSE]
      BY <3>1 DEF Closed, Typed
    <3> QED
      BY <1>1, <3>1 DEF Row
  <2> QED
    BY <2>1, <2>3, <2>4
<1>4. CASE fam' = Closed(f)
  BY <1>1, <1>4 DEF Typed, Row, Closed
<1> QED
  BY <1>2, <1>3, <1>4

\* Demoting a family changes its band only.
LEMMA DemoteWrites ==
    ASSUME Typed, NEW f \in Families, Demote(f)
    PROVE  /\ fam' \in [Families -> Row]
           /\ \A g \in Families \ {f} : fam'[g] = fam[g]
           /\ fam[f].band = "candidate" /\ fam'[f].band = "gym"
           /\ fam'[f].validated = fam[f].validated /\ fam'[f].entered = fam[f].entered
           /\ fam'[f].on = fam[f].on /\ fam'[f].marker = fam[f].marker
           /\ fam'[f].ready = fam[f].ready /\ fam'[f].gated = fam[f].gated
<1>1. fam[f] \in Row /\ fam' = [fam EXCEPT ![f].band = "gym"]
  BY DEF Typed, Demote
<1>2. fam'[f] = [fam[f] EXCEPT !.band = "gym"] /\ \A g \in Families \ {f} : fam'[g] = fam[g]
  BY <1>1 DEF Typed
<1>3. [fam[f] EXCEPT !.band = "gym"] \in Row
  BY <1>1 DEF Row
<1> QED
  BY <1>1, <1>2, <1>3 DEF Typed, Row, Demote

\* A step of the gate's turn on a family before its mark, once the review has begun.
Turn(f) ==
    \/ DropReview(f) \/ PassReview(f) \/ BeginLook(f)
    \/ \E kept \in BOOLEAN : FailReview(f, kept)

\* What a turn's step leaves: it goes on with the same program, or it ends, its version closed
\* at most.
LEMMA TurnWrites ==
    ASSUME Typed, NEW f \in Families, Turn(f)
    PROVE  /\ UNCHANGED <<looks, tries, job, data>>
           /\ fam' = fam \/ fam' = Closed(f)
           /\ bar' \in [Programs -> {"none", "owed", "kept"}]
           /\ \/ gate' = Idle
              \/ /\ bar' = bar /\ gate.family # None
                 /\ gate' \in Gate /\ gate'.program = gate.program
                 /\ gate'.program \in Programs /\ gate'.job = 0
<1>1. gate.family = f /\ gate.family # None /\ gate.job = 0 /\ gate.program \in Programs
  BY HoldoutLooksAssumption
  DEF Typed, Turn, DropReview, PassReview, BeginLook, FailReview
<1>2. CASE DropReview(f)
  BY <1>2 DEF DropReview, Typed
<1>3. CASE PassReview(f)
  <2>1. gate' = [gate EXCEPT !.stage = "passed"] /\ gate \in Gate
    BY <1>3 DEF PassReview, Typed
  <2>2. gate' \in Gate /\ gate'.program = gate.program /\ gate'.job = 0
    BY <1>1, <2>1 DEF Gate
  <2> QED
    BY <1>1, <1>3, <2>2 DEF PassReview, Typed
<1>4. CASE BeginLook(f)
  <2>1. /\ gate' = [gate EXCEPT !.stage = "marking", !.on = data]
        /\ gate \in Gate /\ data \in 0..MaxRolls
    BY <1>4 DEF BeginLook, Typed
  <2>2. gate' \in Gate /\ gate'.program = gate.program /\ gate'.job = 0
    BY <1>1, <2>1 DEF Gate
  <2> QED
    BY <1>1, <1>4, <2>2 DEF BeginLook, Typed
<1>5. ASSUME NEW kept \in BOOLEAN, FailReview(f, kept)
      PROVE  /\ UNCHANGED <<looks, tries, job, data>> /\ gate' = Idle
             /\ fam' = fam \/ fam' = Closed(f)
             /\ bar' \in [Programs -> {"none", "owed", "kept"}]
  BY <1>1, <1>5 DEF FailReview, Typed
<1> QED
  BY <1>2, <1>3, <1>4, <1>5 DEF Turn

\* What marking a look adds.
LEMMA MarkWrites ==
    ASSUME Typed, NEW f \in Families, Mark(f)
    PROVE  LET n == Len(job) + 1 IN
           /\ n \in 1..MaxLooks /\ n \notin Attempts
           /\ job' \in Seq(Job) /\ Len(job') = n /\ Attempts' = Attempts \cup {n}
           /\ \A a \in Attempts : job'[a] = job[a]
           /\ job'[n].family = f /\ job'[n].program = gate.program
           /\ job'[n].state = "queued" /\ job'[n].age = 0
           /\ gate.program \in Programs /\ gate.program = fam[f].validated
           /\ fam' \in [Families -> Row] /\ fam[f].marker = 0
           /\ \A g \in Families \ {f} : fam'[g] = fam[g]
           /\ fam'[f].band = fam[f].band /\ fam'[f].validated = fam[f].validated
           /\ fam'[f].entered = fam[f].entered /\ fam'[f].on = fam[f].on
           /\ ~ fam'[f].ready /\ fam'[f].gated = fam[f].gated /\ fam'[f].marker = n
           /\ gate' = [Idle EXCEPT !.job = n]
<1> DEFINE n == Len(job) + 1
           new == [family |-> f, program |-> gate.program, on |-> gate.on,
                   state |-> "queued", age |-> 0]
<1>1. n \in 1..MaxLooks /\ n \notin Attempts /\ Attempts = 1..Len(job)
  BY AttemptsAre, HoldoutLooksAssumption DEF Mark
<1>2. gate.program \in Programs /\ gate.program = fam[f].validated
  BY HoldoutLooksAssumption DEF Mark, Typed
<1>3. new \in Job
  BY <1>2 DEF Typed, Job, Gate
<1>4. job' = Append(job, new)
  BY DEF Mark
<1> HIDE DEF new
<1>5. /\ job' \in Seq(Job) /\ Len(job') = n /\ job'[n] = new
      /\ \A a \in Attempts : job'[a] = job[a]
  BY <1>1, <1>3, <1>4 DEF Typed
<1>6. Attempts' = Attempts \cup {n}
  BY <1>1, <1>5, AttemptsAre DEF Attempts
<1>7. fam' = [fam EXCEPT ![f].ready = FALSE, ![f].marker = n] /\ fam[f].marker = 0
  BY DEF Mark
<1>8. fam[f] \in Row /\ n \in 0..MaxLooks
  BY <1>1 DEF Typed
<1>9. fam'[f] = [[fam[f] EXCEPT !.ready = FALSE] EXCEPT !.marker = n]
      /\ \A g \in Families \ {f} : fam'[g] = fam[g]
  BY <1>7 DEF Typed
<1>10. [[fam[f] EXCEPT !.ready = FALSE] EXCEPT !.marker = n] \in Row
  BY <1>8 DEF Row
<1>11. fam' \in [Families -> Row]
  BY <1>7, <1>9, <1>10 DEF Typed
<1>12. /\ fam'[f].band = fam[f].band /\ fam'[f].validated = fam[f].validated
       /\ fam'[f].entered = fam[f].entered /\ fam'[f].on = fam[f].on
       /\ ~ fam'[f].ready /\ fam'[f].gated = fam[f].gated /\ fam'[f].marker = n
  BY <1>8, <1>9 DEF Row
<1>13. gate' = [Idle EXCEPT !.job = n]
  BY DEF Mark
<1> QED
  BY <1>1, <1>2, <1>5, <1>6, <1>7, <1>9, <1>11, <1>12, <1>13 DEF new

\* What a restart leaves: every job is over, every marker stands, and a family is as it was
\* or has nothing validated.
LEMMA RestartWrites ==
    ASSUME Typed, Restart
    PROVE  /\ SameJobs /\ \A a \in Attempts : job'[a].state = "over"
           /\ fam' \in [Families -> Row]
           /\ \A f \in Families :
                \/ fam'[f] = fam[f]
                \/ /\ fam'[f].on = fam[f].on /\ fam'[f].marker = fam[f].marker
                   /\ ~ fam'[f].entered /\ ~ fam'[f].ready
<1>1. job' = [a \in Attempts |->
                [job[a] EXCEPT !.state = "over", !.age = IF Marked(a) THEN 2 ELSE 0]]
  BY DEF Restart
<1>2. \A a \in Attempts : /\ job'[a] \in Job /\ job'[a].state = "over"
                          /\ job'[a].program = job[a].program /\ job'[a].family = job[a].family
  <2> TAKE a \in Attempts
  <2>1. job[a] \in Job
    BY AttemptsAre
  <2> DEFINE age == IF Marked(a) THEN 2 ELSE 0
  <2>2. age \in 0..2
    OBVIOUS
  <2>3. job'[a] = [job[a] EXCEPT !.state = "over", !.age = age]
    BY <1>1, Zenon
  <2> HIDE DEF age
  <2> QED
    BY <2>1, <2>2, <2>3 DEF Job
<1>3. job' \in [Attempts -> Job]
  BY <1>1, <1>2
<1>4. SameJobs
  BY <1>2, <1>3, JobsStaySequence DEF SameJobs, Typed, Attempts
<1>5. \A f \in Families :
        \A row \in Unselected(fam[f]) :
          /\ row \in Row
          /\ \/ row = fam[f]
             \/ row.on = fam[f].on /\ row.marker = fam[f].marker /\ ~ row.entered /\ ~ row.ready
  <2> TAKE f \in Families
  <2> TAKE row \in Unselected(fam[f])
  <2>1. fam[f] \in Row
    BY DEF Typed
  <2>2. CASE fam[f].band = "retired"
    BY <2>1, <2>2 DEF Unselected
  <2>3. CASE fam[f].band # "retired"
    <3>1. PICK b \in {fam[f].band, "gym"} :
            row = [fam[f] EXCEPT !.band = b, !.validated = None, !.entered = FALSE,
                                 !.ready = FALSE, !.gated = None]
      BY <2>3 DEF Unselected
    <3> QED
      BY <2>1, <3>1 DEF Row
  <2> QED
    BY <2>2, <2>3
<1>6. CASE fam' = fam
  BY <1>2, <1>4, <1>6 DEF Typed
<1>7. CASE fam' # fam
  <2>1. DOMAIN fam' = Families /\ \A f \in Families : fam'[f] \in Unselected(fam[f])
    BY <1>7 DEF Restart
  <2>2. fam' \in [Families -> Row]
    BY <1>5, <1>7, <2>1 DEF Restart
  <2> QED
    BY <1>2, <1>4, <1>5, <2>1, <2>2
<1> QED
  BY <1>6, <1>7
-----------------------------------------------------------------------------
\* The first states are of their types.
LEMMA TypeInit == ASSUME Init PROVE Typed
<1> USE HoldoutLooksAssumption
<1>1. job \in Seq(Job) /\ Len(job) = 0 /\ 0 \in 0..MaxLooks /\ 0 \in 0..MaxRolls
  BY DEF Init
<1>2. fam \in [Families -> Row] /\ \A f \in Families : fam[f].marker = 0 /\ ~ fam[f].ready
  BY <1>1 DEF Init, Row
<1>3. gate \in Gate /\ gate.family = None /\ gate.job = 0
  BY <1>1 DEF Init, Idle, Gate
<1>4. looks = {} /\ tries \in [Programs -> Nat] /\ data = 0
        /\ bar \in [Programs -> {"none", "owed", "kept"}]
  BY DEF Init
<1> QED
  BY <1>1, <1>2, <1>3, <1>4 DEF Typed

\* What keeps Typed when the same attempts stand and no marker is new.
LEMMA TypedStays ==
    ASSUME Typed, SameJobs,
           fam' \in [Families -> Row],
           \A f \in Families : fam'[f].marker \in {0, fam[f].marker},
           \A f \in Families : fam'[f].ready => fam'[f].validated \in Programs,
           looks' \subseteq [look : Attempts, kept : BOOLEAN],
           tries' \in [Programs -> Nat], data' \in 0..MaxRolls,
           bar' \in [Programs -> {"none", "owed", "kept"}],
           \/ gate' = Idle
           \/ gate' \in Gate /\ gate'.program \in Programs /\ gate'.job = 0
           \/ (gate' = gate /\ (gate.job # 0 => Live(gate.job)'))
    PROVE  Typed'
<1>1. Idle \in Gate /\ Idle.family = None /\ Idle.job = 0
  BY HoldoutLooksAssumption DEF Idle, Gate
<1>2. \A f \in Families : fam'[f].marker # 0 =>
        fam'[f].marker \in Attempts' /\ job'[fam'[f].marker].family = f
  BY DEF Typed, SameJobs
<1>3. gate' \in Gate /\ (gate'.family # None => gate'.job = 0 /\ gate'.program \in Programs)
  BY <1>1 DEF Typed
<1>4. gate'.job # 0 => gate'.job \in Attempts' /\ Live(gate.job)'
  BY <1>1 DEF Typed, SameJobs, Live
<1>5. job' \in Seq(Job) /\ Len(job') <= MaxLooks /\ Attempts' = Attempts
  BY DEF Typed, SameJobs
<1> QED
  BY <1>2, <1>3, <1>4, <1>5 DEF Typed

\* The gate waits on for a job that has not ended, whatever becomes of another.
LEMMA WaitsOn ==
    ASSUME Typed, NEW a \in Attempts, NEW state, NEW age, Becomes(a, state, age),
           gate' = Unwaited(a)
    PROVE  gate' = Idle \/ (gate' = gate /\ (gate.job # 0 => Live(gate.job)'))
<1>1. CASE gate.job = a
  BY <1>1 DEF Unwaited
<1>2. CASE gate.job # a
  BY <1>2 DEF Unwaited, Typed, Becomes, Live
<1> QED
  BY <1>1, <1>2

\* Where no job changes, the attempts are the same.
LEMMA SameJobsAlone == ASSUME Typed, job' = job PROVE SameJobs
BY DEF SameJobs, Typed, Attempts

\* Every step keeps the types.
LEMMA TypeStep == ASSUME Typed, [Next]_vars PROVE Typed'
<1> USE DEF Typed
<1>a. ASSUME NEW a \in Attempts, NEW missing \in BOOLEAN, Owe(a, missing)
      PROVE  /\ fam' \in [Families -> Row] /\ tries' \in [Programs -> Nat]
             /\ \A f \in Families : /\ fam'[f].marker \in {0, fam[f].marker}
                                    /\ fam'[f].ready => fam'[f].validated \in Programs
  <2>1. /\ fam' \in [Families -> Row] /\ tries' \in [Programs -> Nat]
        /\ \A f \in Families : fam'[f] # fam[f] =>
             fam[f].marker = a /\ fam'[f].marker = 0 /\ fam'[f].validated = fam[f].validated
    BY <1>a, OweWrites
  <2>2. ASSUME NEW f \in Families, fam'[f] # fam[f], fam'[f].ready
        PROVE  fam'[f].validated \in Programs
    <3>1. job[a].program \in Programs
      BY AttemptsAre DEF Job
    <3>2. fam[f].validated = job[a].program \/ fam'[f].ready = fam[f].ready
      BY <1>a, <2>2, OweWrites
    <3> QED
      BY <2>1, <2>2, <3>1, <3>2
  <2> QED
    BY <2>1, <2>2
<1>1. ASSUME NEW f \in Families, NEW p \in Writes[f], NEW entered \in BOOLEAN,
             Validate(f, p, entered)
      PROVE  Typed'
  <2>1. p \in Programs
    BY HoldoutLooksAssumption
  <2>2. fam[f] \in Row
    OBVIOUS
  <2> DEFINE ready == entered /\ ~ (Looked(p) \/ fam[f].gated = p)
             row == [fam[f] EXCEPT !.validated = p, !.entered = entered, !.on = data,
                                   !.ready = ready]
  <2>3. ready \in BOOLEAN
    OBVIOUS
  <2>4. fam' = [fam EXCEPT ![f] = row]
    BY <1>1 DEF Validate
  <2> HIDE DEF ready
  <2>5. row \in Row /\ row.marker = fam[f].marker /\ row.validated = p
    BY <2>1, <2>2, <2>3 DEF Row
  <2> HIDE DEF row
  <2>6. /\ fam' \in [Families -> Row]
        /\ \A g \in Families : /\ fam'[g].marker = fam[g].marker
                               /\ fam'[g].ready => fam'[g].validated \in Programs
    BY <2>1, <2>4, <2>5
  <2>7. SameJobs /\ UNCHANGED <<looks, tries, bar, job, gate, data>>
    BY <1>1, SameJobsAlone DEF Validate
  <2> QED
    BY <2>6, <2>7, TypedStays DEF Live
<1>2. ASSUME NEW f \in Families, SendValidation(f) \/ Retire(f) \/ CloseFree(f)
      PROVE  Typed'
  <2>1. /\ fam' \in [Families -> Row]
        /\ \A g \in Families : /\ fam'[g].marker = fam[g].marker
                               /\ fam'[g].ready => fam'[g].validated \in Programs
    BY <1>2, RowWrites DEF SendValidation, Retire, CloseFree
  <2>2. SameJobs /\ UNCHANGED <<looks, tries, bar, job, gate, data>>
    BY <1>2, SameJobsAlone DEF SendValidation, Retire, CloseFree
  <2> QED
    BY <2>1, <2>2, TypedStays DEF Live
<1>3. ASSUME NEW f \in Families, GiveUp(f) PROVE Typed'
  <2>1. fam[f].marker \in Attempts
    BY <1>3 DEF GiveUp, GivenUp
  <2>2. SameJobs /\ UNCHANGED <<looks, bar, job, gate, data>>
    BY <1>3, SameJobsAlone DEF GiveUp
  <2> QED
    BY <1>3, <1>a, <2>1, <2>2, TypedStays DEF GiveUp, Live
<1>4. ASSUME NEW f \in Families, BeginReview(f) PROVE Typed'
  <2>1. fam[f] \in Row /\ fam[f].ready /\ fam[f].validated \in Programs
    BY <1>4 DEF BeginReview, Due
  <2>2. gate' = [family |-> f, program |-> fam[f].validated, on |-> fam[f].on,
                 stage |-> "reading", job |-> 0]
    BY <1>4 DEF BeginReview
  <2>3. gate' \in Gate /\ gate'.job = 0 /\ gate'.program \in Programs
    BY <2>1, <2>2, HoldoutLooksAssumption DEF Gate, Row
  <2>4. SameJobs /\ UNCHANGED <<fam, looks, tries, bar, data>>
    BY <1>4, SameJobsAlone DEF BeginReview
  <2>5. \A g \in Families : /\ fam'[g].marker \in {0, fam[g].marker}
                            /\ fam'[g].ready => fam'[g].validated \in Programs
    BY <2>4
  <2>6. /\ fam' \in [Families -> Row] /\ looks' \subseteq [look : Attempts, kept : BOOLEAN]
        /\ bar' \in [Programs -> {"none", "owed", "kept"}] /\ tries' \in [Programs -> Nat]
    BY <2>4
  <2> QED
    BY <2>3, <2>4, <2>5, <2>6, TypedStays
<1>5. ASSUME NEW f \in Families, Turn(f) PROVE Typed'
  <2>1. /\ fam' \in [Families -> Row]
        /\ \A g \in Families : /\ fam'[g].marker = fam[g].marker
                               /\ fam'[g].ready => fam'[g].validated \in Programs
    <3>1. CASE fam' = fam
      BY <3>1
    <3>2. CASE fam' = Closed(f)
      BY <3>2, RowWrites
    <3> QED
      BY <1>5, <3>1, <3>2, TurnWrites
  <2>2. SameJobs /\ UNCHANGED <<looks, tries, data>>
    BY <1>5, TurnWrites, SameJobsAlone
  <2>3. bar' \in [Programs -> {"none", "owed", "kept"}]
    BY <1>5, TurnWrites
  <2>4. \/ gate' = Idle
        \/ gate' \in Gate /\ gate'.program \in Programs /\ gate'.job = 0
    BY <1>5, TurnWrites
  <2> QED
    BY <2>1, <2>2, <2>3, <2>4, TypedStays
<1>d. ASSUME NEW f \in Families, Demote(f) PROVE Typed'
  <2>1. /\ fam' \in [Families -> Row]
        /\ \A g \in Families : /\ fam'[g].marker = fam[g].marker
                               /\ fam'[g].ready => fam'[g].validated \in Programs
    BY <1>d, DemoteWrites
  <2>2. SameJobs /\ UNCHANGED <<looks, tries, bar, job, gate, data>>
    BY <1>d, SameJobsAlone DEF Demote
  <2> QED
    BY <2>1, <2>2, TypedStays DEF Live
<1>b. ASSUME NEW p \in Programs, RecordOwed(p) PROVE Typed'
  <2>1. SameJobs /\ UNCHANGED <<fam, looks, tries, job, gate, data>>
    BY <1>b, SameJobsAlone DEF RecordOwed
  <2>2. bar' \in [Programs -> {"none", "owed", "kept"}]
    BY <1>b DEF RecordOwed
  <2> QED
    BY <2>1, <2>2, TypedStays DEF Live
<1>u. ASSUME NEW a \in Attempts, Unusable(a) PROVE Typed'
  <2>1. SameJobs /\ Becomes(a, "over", 0) /\ UNCHANGED <<looks, bar, data>>
    BY <1>u, AttemptSteps DEF Unusable
  <2>2. gate' = Idle \/ (gate' = gate /\ (gate.job # 0 => Live(gate.job)'))
    BY <1>u, <2>1, WaitsOn DEF Unusable
  <2>3. CASE Looked(job[a].program)
    BY <1>u, <2>1, <2>2, <2>3, TypedStays DEF Unusable
  <2>4. CASE ~ Looked(job[a].program)
    BY <1>u, <1>a, <2>1, <2>2, <2>4, TypedStays DEF Unusable
  <2> QED
    BY <2>3, <2>4
<1>6. ASSUME NEW f \in Families, Mark(f) PROVE Typed'
  <2> DEFINE n == Len(job) + 1
  <2>1. /\ n \in 1..MaxLooks /\ n \notin Attempts
        /\ job' \in Seq(Job) /\ Len(job') = n /\ Attempts' = Attempts \cup {n}
        /\ \A a \in Attempts : job'[a] = job[a]
        /\ job'[n].family = f /\ job'[n].state = "queued"
        /\ fam' \in [Families -> Row]
        /\ \A g \in Families \ {f} : fam'[g] = fam[g]
        /\ ~ fam'[f].ready /\ fam'[f].marker = n
        /\ gate' = [Idle EXCEPT !.job = n]
    BY <1>6, MarkWrites
  <2> HIDE DEF n
  <2>2. gate' \in Gate /\ gate'.family = None /\ gate'.job = n
    <3>1. gate' = [family |-> None, program |-> None, on |-> 0, stage |-> "none", job |-> n]
      BY <2>1 DEF Idle
    <3>2. n \in 0..MaxLooks /\ 0 \in 0..MaxRolls
      BY <2>1, HoldoutLooksAssumption
    <3> QED
      BY <3>1, <3>2 DEF Gate
  <2>3. UNCHANGED <<looks, tries, bar, data>>
    BY <1>6 DEF Mark
  <2>4. looks' \subseteq [look : Attempts', kept : BOOLEAN]
    BY <2>1, <2>3
  <2>5. \A g \in Families : fam'[g].marker # 0 =>
          fam'[g].marker \in Attempts' /\ job'[fam'[g].marker].family = g
    <3> SUFFICES ASSUME NEW g \in Families, fam'[g].marker # 0
                 PROVE  fam'[g].marker \in Attempts' /\ job'[fam'[g].marker].family = g
      OBVIOUS
    <3>1. CASE g = f
      BY <2>1, <3>1
    <3>2. CASE g # f
      <4>1. fam'[g] = fam[g]
        BY <2>1, <3>2
      <4>2. fam[g].marker \in Attempts /\ job[fam[g].marker].family = g
        BY <4>1
      <4> QED
        BY <2>1, <4>1, <4>2
    <3> QED
      BY <3>1, <3>2
  <2>6. \A g \in Families : fam'[g].ready => fam'[g].validated \in Programs
    BY <2>1
  <2>7. gate'.job \in Attempts' /\ Live(gate.job)'
    BY <2>1, <2>2 DEF Live
  <2>8. Len(job') <= MaxLooks
    BY <2>1
  <2> QED
    BY <2>1, <2>2, <2>3, <2>4, <2>5, <2>6, <2>7, <2>8
<1>7. ASSUME NEW a \in Attempts, Age(a) \/ Dispatch(a) \/ Requeue(a) PROVE Typed'
  <2>1. SameJobs /\ UNCHANGED <<fam, looks, tries, bar, gate, data>>
    BY <1>7, AttemptSteps DEF Age, Dispatch, Requeue
  <2>2. gate.job # 0 => Live(gate.job)'
    BY <1>7, <2>1, AttemptSteps DEF Becomes, Live
  <2> QED
    BY <2>1, <2>2, TypedStays
<1>8. ASSUME NEW a \in Attempts, NEW missing \in BOOLEAN, Fail(a, missing) PROVE Typed'
  <2>1. SameJobs /\ Becomes(a, "over", 0) /\ UNCHANGED <<looks, bar, data>>
    BY <1>8, AttemptSteps DEF Fail
  <2>2. gate' = Idle \/ (gate' = gate /\ (gate.job # 0 => Live(gate.job)'))
    BY <1>8, <2>1, WaitsOn DEF Fail
  <2> QED
    BY <1>8, <1>a, <2>1, <2>2, TypedStays DEF Fail
<1>9. ASSUME NEW a \in Attempts, FailUnheard(a) PROVE Typed'
  BY <1>9, AttemptSteps, TypedStays DEF FailUnheard
<1>10. ASSUME NEW a \in Attempts, StopWaiting(a) PROVE Typed'
  <2>1. gate' = Idle /\ UNCHANGED <<looks, bar, data>>
    BY <1>10 DEF StopWaiting
  <2>2. CASE job[a].state = "queued"
    BY <1>10, <1>a, <2>1, <2>2, AttemptSteps, TypedStays DEF StopWaiting
  <2>3. CASE job[a].state # "queued"
    BY <1>10, <2>1, <2>3, SameJobsAlone, TypedStays DEF StopWaiting
  <2> QED
    BY <2>2, <2>3
<1>11. ASSUME NEW a \in Attempts, NEW passed \in BOOLEAN, Land(a, passed) PROVE Typed'
  <2>1. SameJobs /\ Becomes(a, "over", 0) /\ UNCHANGED <<tries, bar, data>>
    BY <1>11, AttemptSteps DEF Land
  <2>2. gate' = Idle \/ (gate' = gate /\ (gate.job # 0 => Live(gate.job)'))
    BY <1>11, <2>1, WaitsOn DEF Land
  <2>3. fam' \in [Families -> Row]
    BY <1>11, LandWrites
  <2>4. /\ \A f \in Families : /\ fam'[f].marker \in {0, fam[f].marker}
                               /\ fam'[f].ready => fam'[f].validated \in Programs
        /\ looks' \subseteq [look : Attempts, kept : BOOLEAN]
    <3>1. CASE UNCHANGED <<fam, looks>>
      BY <3>1
    <3>2. CASE FirstResult(a)
      <4> DEFINE f == job[a].family
      <4>1. looks' \subseteq [look : Attempts, kept : BOOLEAN]
        <5> DEFINE kept == job[a].program \in InFlight({f})
        <5>1. kept \in BOOLEAN /\ looks' = looks \cup {[look |-> a, kept |-> kept]}
          BY <3>2 DEF FirstResult
        <5> HIDE DEF kept
        <5> QED
          BY <5>1
      <4>2. /\ fam'[f].marker \in {0, fam[f].marker}
            /\ fam'[f].ready = fam[f].ready /\ fam'[f].validated = fam[f].validated
            /\ \A g \in Families \ {f} : fam'[g] = fam[g]
        BY <3>2 DEF FirstResult
      <4> HIDE DEF f
      <4> QED
        BY <4>1, <4>2
    <3> QED
      BY <1>11, <3>1, <3>2, LandWrites
  <2> QED
    BY <2>1, <2>2, <2>3, <2>4, TypedStays
<1>12. ASSUME Roll PROVE Typed'
  <2>1. data' \in 0..MaxRolls
    BY <1>12, HoldoutLooksAssumption DEF Roll
  <2> QED
    BY <1>12, <2>1, SameJobsAlone, TypedStays DEF Roll, Live
<1>13. ASSUME Restart PROVE Typed'
  <2>1. /\ UNCHANGED <<looks, tries, data>> /\ gate' = Idle
        /\ bar' \in [Programs -> {"none", "owed", "kept"}]
    BY <1>13 DEF Restart
  <2>2. \A f \in Families : /\ fam'[f].marker \in {0, fam[f].marker}
                            /\ fam'[f].ready => fam'[f].validated \in Programs
    BY <1>13, RestartWrites
  <2> QED
    BY <1>13, <2>1, <2>2, RestartWrites, TypedStays
<1>14. ASSUME UNCHANGED vars PROVE Typed'
  BY <1>14 DEF vars, Attempts, Live
<1> QED
  BY <1>1, <1>2, <1>3, <1>4, <1>5, <1>6, <1>7, <1>8, <1>9, <1>10, <1>11, <1>12, <1>13, <1>14,
     <1>d, <1>b, <1>u
  DEF Next, Turn
-----------------------------------------------------------------------------
\* A step that marks nothing and lands nothing: no job comes back to life or gets younger,
\* and a marker is only given back by a job that is over or given up.
Quiet ==
    /\ SameJobs /\ looks' = looks
    /\ \A a \in Attempts : Live(a)' => Live(a) /\ (job[a].age = 2 => job'[a].age = 2)
    /\ \A g \in Families : fam'[g].marker # fam[g].marker =>
         /\ fam'[g].marker = 0
         /\ Live(fam[g].marker) => job'[fam[g].marker].state = "over" \/ job'[fam[g].marker].age = 2

\* A step marks a look, lands a result, or does neither (Quiet).
LEMMA StepForms ==
    ASSUME Typed, [Next]_vars
    PROVE  \/ Quiet
           \/ \E f \in Families : Mark(f)
           \/ \E a \in Attempts, passed \in BOOLEAN : Land(a, passed)
<1>j. job' = job => SameJobs /\ \A a \in Attempts : Live(a)' => Live(a)
  BY SameJobsAlone DEF Live
<1>1. ASSUME NEW f \in Families, NEW p \in Writes[f], NEW entered \in BOOLEAN,
             Validate(f, p, entered)
      PROVE  Quiet
  <2>1. \A g \in Families : fam'[g].marker = fam[g].marker
    BY <1>1 DEF Validate, Typed, Row
  <2> QED
    BY <1>1, <1>j, <2>1 DEF Validate, Quiet
<1>2. ASSUME NEW f \in Families, SendValidation(f) \/ Retire(f) \/ CloseFree(f)
      PROVE  Quiet
  <2>1. \A g \in Families : fam'[g].marker = fam[g].marker
    BY <1>2, RowWrites DEF SendValidation, Retire, CloseFree
  <2> QED
    BY <1>2, <1>j, <2>1 DEF SendValidation, Retire, CloseFree, Quiet
<1>3. ASSUME NEW f \in Families, GiveUp(f) PROVE Quiet
  <2>1. fam[f].marker \in Attempts /\ job[fam[f].marker].age = 2 /\ Owe(fam[f].marker, FALSE)
    BY <1>3 DEF GiveUp, GivenUp, Typed
  <2>2. \A g \in Families : fam'[g].marker # fam[g].marker =>
          fam'[g].marker = 0 /\ fam[g].marker = fam[f].marker
    BY <2>1, OweWrites
  <2> QED
    BY <1>3, <1>j, <2>1, <2>2 DEF GiveUp, Quiet
<1>4. ASSUME NEW f \in Families, BeginReview(f) \/ Turn(f) PROVE Quiet
  <2>1. job' = job /\ looks' = looks /\ (fam' = fam \/ fam' = Closed(f))
    BY <1>4, TurnWrites DEF BeginReview
  <2>2. \A g \in Families : fam'[g].marker = fam[g].marker
    BY <2>1, RowWrites
  <2> QED
    BY <1>j, <2>1, <2>2 DEF Quiet
<1>d. ASSUME NEW f \in Families, Demote(f) PROVE Quiet
  <2>1. \A g \in Families : fam'[g].marker = fam[g].marker
    BY <1>d, DemoteWrites
  <2> QED
    BY <1>d, <1>j, <2>1 DEF Demote, Quiet
<1>5. ASSUME NEW a \in Attempts, Age(a) \/ Dispatch(a) \/ Requeue(a) \/ FailUnheard(a)
      PROVE  Quiet
  <2>1. SameJobs /\ UNCHANGED <<fam, looks>>
    BY <1>5, AttemptSteps DEF Age, Dispatch, Requeue, FailUnheard
  <2>2. \A b \in Attempts : Live(b)' => Live(b) /\ (job[b].age = 2 => job'[b].age = 2)
    <3>1. CASE Age(a)
      BY <3>1, AttemptSteps DEF Age, Becomes, Live
    <3>2. CASE Dispatch(a)
      BY <3>2, AttemptSteps DEF Dispatch, Becomes, Live
    <3>3. CASE Requeue(a)
      BY <3>3, AttemptSteps DEF Requeue, Becomes, Live
    <3>4. CASE FailUnheard(a)
      BY <3>4, AttemptSteps DEF Becomes, Live
    <3> QED
      BY <1>5, <3>1, <3>2, <3>3, <3>4
  <2> QED
    BY <2>1, <2>2 DEF Quiet
<1>6. ASSUME NEW a \in Attempts, NEW missing \in BOOLEAN, job' = Over(a), Owe(a, missing),
             looks' = looks
      PROVE  Quiet
  <2>1. SameJobs /\ Becomes(a, "over", 0)
    BY <1>6, AttemptSteps
  <2>2. \A g \in Families : fam'[g].marker # fam[g].marker =>
          fam'[g].marker = 0 /\ fam[g].marker = a
    BY <1>6, OweWrites
  <2> QED
    BY <1>6, <2>1, <2>2 DEF Quiet, Becomes, Live
<1>7. ASSUME NEW a \in Attempts, NEW missing \in BOOLEAN, Fail(a, missing) PROVE Quiet
  BY <1>6, <1>7 DEF Fail
<1>u. ASSUME NEW a \in Attempts, Unusable(a) PROVE Quiet
  <2>1. CASE Looked(job[a].program)
    <3>1. SameJobs /\ Becomes(a, "over", 0)
      BY <1>u, AttemptSteps DEF Unusable
    <3> QED
      BY <1>u, <2>1, <3>1 DEF Unusable, Quiet, Becomes, Live
  <2>2. CASE ~ Looked(job[a].program)
    BY <1>6, <1>u, <2>2 DEF Unusable
  <2> QED
    BY <2>1, <2>2
<1>8. ASSUME NEW a \in Attempts, StopWaiting(a) PROVE Quiet
  <2>1. CASE job[a].state = "queued"
    BY <1>6, <1>8, <2>1 DEF StopWaiting
  <2>2. CASE job[a].state # "queued"
    BY <1>8, <1>j, <2>2 DEF StopWaiting, Quiet
  <2> QED
    BY <2>1, <2>2
<1>9. ASSUME Roll \/ (\E p \in Programs : RecordOwed(p)) \/ UNCHANGED vars PROVE Quiet
  BY <1>9, <1>j DEF Roll, RecordOwed, vars, Quiet
<1>10. ASSUME Restart PROVE Quiet
  <2>1. \A g \in Families : fam'[g].marker = fam[g].marker
    BY <1>10, RestartWrites
  <2> QED
    BY <1>10, <2>1, RestartWrites DEF Restart, Quiet, Live
<1> QED
  BY <1>1, <1>2, <1>3, <1>4, <1>5, <1>7, <1>8, <1>9, <1>10, <1>d, <1>u DEF Next, Turn
-----------------------------------------------------------------------------
\* The programs the attempts are at are finitely many, and all that counts against a ration
\* is among them.
Tried == {job[a].program : a \in Attempts}

\* Finitely many looks were ever tried.
LEMMA TriedIsFinite == ASSUME Typed PROVE IsFiniteSet(Tried)
<1> DEFINE f == [a \in Attempts |-> job[a].program]
<1>1. IsFiniteSet(Attempts)
  BY AttemptsAre, FS_Interval
<1>2. f \in Surjection(Attempts, Tried)
  BY DEF Surjection, Tried
<1> HIDE DEF f
<1> QED
  BY <1>1, <1>2, FS_Surjection

\* What the ration counts are looks that were tried.
LEMMA CountedAreTried ==
    ASSUME Typed
    PROVE  /\ Landed \subseteq Tried
           /\ \A S \in SUBSET Families : InFlight(S) \subseteq Tried
           /\ \A f \in Families : Used(f) \subseteq OwnLooks(Kin(f)) \cup InFlight(Kin(f))
           /\ \A S : OwnLooks(S) \subseteq Tried
<1>1. \A r \in looks : r.look \in Attempts
  BY DEF Typed
<1>2. Landed \subseteq Tried /\ \A S : OwnLooks(S) \subseteq Tried
  BY <1>1 DEF Landed, OwnLooks, Tried
<1>3. \A S \in SUBSET Families : InFlight(S) \subseteq Tried
  BY DEF Typed, InFlight, Tried
<1>4. \A f \in Families : Used(f) \subseteq OwnLooks(Kin(f)) \cup InFlight(Kin(f))
  BY DEF Used, Kept, OwnLooks
<1> QED
  BY <1>2, <1>3, <1>4

\* The looks a lineage has used are finitely many, no more than it has reserved.
LEMMA UsedIsFinite ==
    ASSUME Typed, NEW f \in Families
    PROVE  /\ IsFiniteSet(OwnLooks(Kin(f)) \cup InFlight(Kin(f)))
           /\ IsFiniteSet(Used(f)) /\ Cardinality(Used(f)) \in Nat
           /\ Cardinality(Used(f)) <= Reserved(f) /\ Reserved(f) \in Nat
<1>1. Kin(f) \in SUBSET Families
  BY DEF Kin
<1> DEFINE all == OwnLooks(Kin(f)) \cup InFlight(Kin(f))
<1>2. all \subseteq Tried /\ Used(f) \subseteq all
  BY <1>1, CountedAreTried
<1> HIDE DEF all
<1>3. IsFiniteSet(all)
  BY <1>2, TriedIsFinite, FS_Subset
<1>4. IsFiniteSet(Used(f)) /\ Cardinality(Used(f)) <= Cardinality(all)
  BY <1>2, <1>3, FS_Subset
<1>5. Cardinality(all) \in Nat /\ Cardinality(Used(f)) \in Nat
  BY <1>3, <1>4, FS_CardinalityType
<1> QED
  BY <1>3, <1>4, <1>5 DEF all, Reserved

\* A step that only gives markers back leaves no lineage with more of its ration used.
LEMMA UsedShrinks ==
    ASSUME Typed, SameJobs, looks' = looks,
           \A g \in Families : fam'[g].marker \in {0, fam[g].marker},
           NEW f \in Families
    PROVE  Used(f)' \subseteq Used(f)
<1>1. \A r \in looks : r.look \in Attempts
  BY DEF Typed
<1>2. Kept(f)' = Kept(f)
  BY <1>1 DEF Kept, Kin, SameJobs
<1>3. InFlight(Kin(f))' \subseteq InFlight(Kin(f))
  BY DEF InFlight, Kin, SameJobs, Typed
<1> QED
  BY <1>2, <1>3 DEF Used

\* The attempts a step finds stand after it, at the same programs.
LEMMA ProgramsStand ==
    ASSUME Typed, [Next]_vars
    PROVE  \A a \in Attempts : /\ a \in Attempts'
                               /\ job'[a].program = job[a].program
                               /\ job'[a].family = job[a].family
<1>1. CASE Quiet
  BY <1>1 DEF Quiet, SameJobs
<1>2. ASSUME NEW f \in Families, Mark(f)
      PROVE  \A a \in Attempts : a \in Attempts' /\ job'[a] = job[a]
  BY <1>2, MarkWrites
<1>3. ASSUME NEW a \in Attempts, NEW passed \in BOOLEAN, Land(a, passed) PROVE SameJobs
  BY <1>3, AttemptSteps DEF Land
<1> QED
  BY <1>1, <1>2, <1>3, StepForms DEF SameJobs

\* A program that has been looked at stays so.
LEMMA LookedStays ==
    ASSUME Typed, [Next]_vars, NEW p, Looked(p)
    PROVE  Looked(p)'
<1>1. \A r \in looks : r.look \in Attempts /\ job'[r.look].program = job[r.look].program
  BY ProgramsStand DEF Typed
<1>2. looks \subseteq looks'
  <2>1. ASSUME NEW f \in Families, Mark(f) PROVE looks' = looks
    BY <2>1 DEF Mark
  <2>2. ASSUME NEW a \in Attempts, NEW passed \in BOOLEAN, Land(a, passed)
        PROVE  looks \subseteq looks'
    BY <2>2, LandWrites DEF FirstResult
  <2> QED
    BY <2>1, <2>2, StepForms DEF Quiet
<1>3. PICK r \in looks : job[r.look].program = p
  BY DEF Looked, Landed
<1> QED
  BY <1>1, <1>2, <1>3 DEF Looked, Landed

\* Every step keeps one look of each program in the table.
LEMMA OneLookEachStep == ASSUME Typed, OneLookEach, [Next]_vars PROVE OneLookEach'
<1>1. \A r \in looks : r.look \in Attempts /\ job'[r.look].program = job[r.look].program
  BY ProgramsStand DEF Typed
<1>2. CASE looks' = looks
  BY <1>1, <1>2 DEF OneLookEach
<1>3. ASSUME NEW a \in Attempts, FirstResult(a) PROVE OneLookEach'
  <2> DEFINE new == [look |-> a, kept |-> job[a].program \in InFlight({job[a].family})]
  <2>1. looks' = looks \cup {new} /\ new.look = a
    BY <1>3 DEF FirstResult
  <2>2. job'[a].program = job[a].program
    BY ProgramsStand
  <2>3. \A r \in looks : job[r.look].program # job[a].program
    BY <1>3 DEF FirstResult, Looked, Landed
  <2> HIDE DEF new
  <2> QED
    BY <1>1, <2>1, <2>2, <2>3 DEF OneLookEach
<1>4. ASSUME NEW a \in Attempts, NEW passed \in BOOLEAN, Land(a, passed) PROVE OneLookEach'
  BY <1>2, <1>3, <1>4, LandWrites
<1>5. ASSUME NEW f \in Families, Mark(f) PROVE looks' = looks
  BY <1>5 DEF Mark
<1> QED
  BY <1>2, <1>4, <1>5, StepForms DEF Quiet

\* Every step keeps a lineage within its ration: a mark is set only where one is left.
LEMMA WithinRationStep ==
    ASSUME Typed, Typed', WithinRation, [Next]_vars
    PROVE  WithinRation'
<1> SUFFICES ASSUME NEW f \in Families
             PROVE  Cardinality(Used(f))' <= Ration
  BY DEF WithinRation
<1>1. IsFiniteSet(Used(f)) /\ Cardinality(Used(f)) \in Nat /\ Cardinality(Used(f)) <= Ration
  BY UsedIsFinite DEF WithinRation
<1>2. ASSUME Used(f)' \subseteq Used(f) PROVE Cardinality(Used(f))' <= Ration
  <2>1. IsFiniteSet(Used(f)') /\ Cardinality(Used(f)') <= Cardinality(Used(f))
    BY <1>1, <1>2, FS_Subset
  <2>2. Cardinality(Used(f)') \in Nat
    BY <2>1, FS_CardinalityType
  <2> QED
    BY <1>1, <2>1, <2>2, HoldoutLooksAssumption
<1>3. CASE Quiet
  <2> \A g \in Families : fam'[g].marker \in {0, fam[g].marker}
    BY <1>3 DEF Quiet
  <2> QED
    BY <1>2, <1>3, UsedShrinks DEF Quiet
<1>4. ASSUME NEW a \in Attempts, NEW passed \in BOOLEAN, Land(a, passed)
      PROVE  Cardinality(Used(f))' <= Ration
  <2>1. SameJobs
    BY <1>4, AttemptSteps DEF Land
  <2>2. CASE UNCHANGED <<fam, looks>>
    BY <1>2, <2>1, <2>2, UsedShrinks
  <2>3. CASE FirstResult(a)
    <3> DEFINE h == job[a].family
               p == job[a].program
               new == [look |-> a, kept |-> p \in InFlight({h})]
    <3>1. \A g \in Families : fam'[g].marker \in {0, fam[g].marker}
      BY <2>3 DEF FirstResult
    <3>2. InFlight(Kin(f))' \subseteq InFlight(Kin(f))
      <4>1. ASSUME NEW g \in Families, fam'[g].marker # 0
            PROVE  /\ fam'[g].marker = fam[g].marker
                   /\ job'[fam'[g].marker].program = job[fam[g].marker].program
        BY <2>1, <3>1, <4>1 DEF SameJobs, Typed
      <4> QED
        BY <4>1 DEF InFlight, Kin
    <3>3. looks' = looks \cup {new} /\ new.look = a
      BY <2>3 DEF FirstResult
    <3>4. \A r \in looks : r.look \in Attempts
      BY DEF Typed
    <3>5. h \in Families /\ (new.kept => p \in InFlight({h}))
      BY <1>4, LandWrites
    <3>6. h \in Kin(f) /\ new.kept => p \in InFlight(Kin(f))
      BY <3>5 DEF InFlight
    <3> HIDE DEF new
    <3>7. Kept(f)' \subseteq Kept(f) \cup InFlight(Kin(f))
      <4> SUFFICES ASSUME NEW x \in Kept(f)'
                   PROVE  x \in Kept(f) \cup InFlight(Kin(f))
        OBVIOUS
      <4>1. PICK r \in looks' : r.kept /\ job'[r.look].family \in Kin(f) /\ x = job'[r.look].program
        BY DEF Kept, Kin
      <4>2. CASE r \in looks
        BY <2>1, <3>4, <4>1, <4>2 DEF Kept, SameJobs
      <4>3. CASE r = new
        BY <2>1, <3>3, <3>6, <4>1, <4>3 DEF SameJobs
      <4> QED
        BY <3>3, <4>2, <4>3
    <3> QED
      BY <1>2, <3>2, <3>7 DEF Used
  <2> QED
    BY <1>4, <2>2, <2>3, LandWrites
<1>5. ASSUME NEW g \in Families, Mark(g) PROVE Cardinality(Used(f))' <= Ration
  <2> DEFINE n == Len(job) + 1
             p == gate.program
  <2>1. /\ Attempts' = Attempts \cup {n} /\ \A a \in Attempts : job'[a] = job[a]
        /\ job'[n].program = p /\ looks' = looks /\ fam'[g].marker = n /\ n \notin Attempts
        /\ \A h \in Families \ {g} : fam'[h] = fam[h]
        /\ Reserved(g) < Ration
    BY <1>5, MarkWrites DEF Mark
  <2>2. \A r \in looks : r.look \in Attempts
    BY DEF Typed
  <2>3. Kept(f)' = Kept(f)
    BY <2>1, <2>2 DEF Kept, Kin
  <2>4. InFlight(Kin(f))' \subseteq InFlight(Kin(f)) \cup (IF g \in Kin(f) THEN {p} ELSE {})
    <3> SUFFICES ASSUME NEW x \in InFlight(Kin(f))'
                 PROVE  x \in InFlight(Kin(f)) \/ (g \in Kin(f) /\ x = p)
      OBVIOUS
    <3>1. PICK h \in Kin(f) : fam'[h].marker # 0 /\ x = job'[fam'[h].marker].program
      BY DEF InFlight, Kin
    <3>2. CASE h = g
      BY <2>1, <3>1, <3>2
    <3>3. CASE h # g
      <4>1. fam'[h] = fam[h] /\ fam[h].marker \in Attempts
        BY <2>1, <3>1, <3>3 DEF Kin, Typed
      <4> QED
        BY <2>1, <3>1, <4>1 DEF InFlight
    <3> QED
      BY <3>2, <3>3
  <2>5. CASE g \notin Kin(f)
    <3>1. g \notin Kin(f)'
      BY <2>5 DEF Kin
    <3> QED
      BY <1>2, <2>3, <2>4, <3>1 DEF Used
  <2>6. CASE g \in Kin(f)
    <3>1. Kin(f) = Kin(g)
      BY <2>6 DEF Kin
    <3>2. InFlight(Kin(f))' \subseteq InFlight(Kin(f)) \cup {p}
      BY <2>4, <2>6
    <3>3. Used(f)' \subseteq Used(f) \cup {p}
      BY <2>3, <3>2 DEF Used
    <3>4. Cardinality(Used(f)) + 1 <= Ration
      <4>1. Cardinality(Used(f)) <= Reserved(f) /\ Reserved(f) \in Nat
        BY UsedIsFinite
      <4>2. Reserved(f) < Ration
        BY <2>1, <3>1 DEF Reserved
      <4> QED
        BY <1>1, <4>1, <4>2, HoldoutLooksAssumption
    <3>5. /\ IsFiniteSet(Used(f) \cup {p})
          /\ Cardinality(Used(f) \cup {p}) <= Cardinality(Used(f)) + 1
      <4>1. /\ IsFiniteSet(Used(f) \cup {p})
            /\ Cardinality(Used(f) \cup {p}) =
                 IF p \in Used(f) THEN Cardinality(Used(f)) ELSE Cardinality(Used(f)) + 1
        BY <1>1, FS_AddElement
      <4> QED
        BY <1>1, <4>1
    <3>6. IsFiniteSet(Used(f)') /\ Cardinality(Used(f)') <= Cardinality(Used(f) \cup {p})
      BY <3>3, <3>5, FS_Subset
    <3>7. Cardinality(Used(f)') \in Nat /\ Cardinality(Used(f) \cup {p}) \in Nat
      BY <3>5, <3>6, FS_CardinalityType
    <3> QED
      BY <1>1, <3>4, <3>5, <3>6, <3>7, HoldoutLooksAssumption
  <2> QED
    BY <2>5, <2>6
<1> QED
  BY <1>3, <1>4, <1>5, StepForms
-----------------------------------------------------------------------------
\* Where a version that entered the gate may be: NothingForgotten is that every one is.
Remembered(f) ==
    \/ fam[f].ready
    \/ fam[f].validated \in InFlight({f})
    \/ fam[f].gated = fam[f].validated
    \/ Looked(fam[f].validated)

Waits(f) == fam[f].band # "retired" /\ fam[f].entered /\ fam[f].on = data

\* NothingForgotten, said of one family at a time.
LEMMA ForgottenIs ==
    NothingForgotten <=> \A f \in Families : Waits(f) => Remembered(f)
BY DEF NothingForgotten, Waits, Remembered

\* A family whose row a step leaves alone is remembered as it was.
LEMMA RowStands ==
    ASSUME Typed, [Next]_vars, NEW f \in Families, Remembered(f), fam'[f] = fam[f]
    PROVE  Remembered(f)'
<1>1. CASE fam[f].validated \in InFlight({f})
  <2>1. fam[f].marker # 0 /\ fam[f].validated = job[fam[f].marker].program
    BY <1>1 DEF InFlight
  <2>2. fam[f].marker \in Attempts
    BY <2>1 DEF Typed
  <2>3. job'[fam'[f].marker].program = fam'[f].validated
    BY <2>1, <2>2, ProgramsStand
  <2> QED
    BY <2>1, <2>3 DEF Remembered, InFlight
<1>2. CASE Looked(fam[f].validated)
  BY <1>2, LookedStays DEF Remembered
<1> QED
  BY <1>1, <1>2 DEF Remembered

\* An attempt that did not land leaves its family's look owed.
LEMMA OweRemembers ==
    ASSUME Typed, [Next]_vars, NEW a \in Attempts, NEW missing \in BOOLEAN, Owe(a, missing),
           NothingForgotten, data' = data
    PROVE  NothingForgotten'
<1> SUFFICES ASSUME NEW g \in Families, Waits(g)' PROVE Remembered(g)'
  BY ForgottenIs DEF NothingForgotten, Waits, Remembered
<1>1. CASE fam'[g] = fam[g]
  <2>1. Waits(g)
    BY <1>1 DEF Waits
  <2> QED
    BY <1>1, <2>1, RowStands, ForgottenIs
<1>2. CASE fam'[g] # fam[g]
  <2> DEFINE p == job[a].program
  <2>1. /\ fam[g].marker = a
        /\ fam'[g].band = fam[g].band /\ fam'[g].validated = fam[g].validated
        /\ fam'[g].entered = fam[g].entered /\ fam'[g].on = fam[g].on
        /\ \/ /\ Looked(p) \/ fam[g].band = "retired" \/ fam[g].validated # p
              /\ fam'[g].ready = fam[g].ready /\ fam'[g].gated = fam[g].gated
           \/ /\ fam[g].validated = p
              /\ fam'[g].ready \/ fam'[g].gated = fam[g].validated
    BY <1>2, OweWrites
  <2>2. Waits(g) /\ fam[g].band # "retired"
    BY <2>1 DEF Waits
  <2>3. Remembered(g)
    BY <2>2, ForgottenIs
  <2>4. CASE fam[g].validated \in InFlight({g})
    <3>1. fam[g].validated = p
      BY <2>1, <2>4 DEF InFlight
    <3>2. CASE Looked(fam[g].validated)
      BY <2>1, <3>2, LookedStays DEF Remembered
    <3> QED
      BY <2>1, <2>2, <3>1, <3>2 DEF Remembered
  <2>5. CASE Looked(fam[g].validated)
    BY <2>1, <2>5, LookedStays DEF Remembered
  <2>6. CASE fam[g].ready \/ fam[g].gated = fam[g].validated
    BY <2>1, <2>6 DEF Remembered
  <2> QED
    BY <2>3, <2>4, <2>5, <2>6 DEF Remembered
<1> QED
  BY <1>1, <1>2

\* Every step keeps whatever waits at the gate remembered there.
LEMMA ForgottenStep ==
    ASSUME Typed, JudgedBefore, NothingForgotten, [Next]_vars
    PROVE  NothingForgotten'
<1> SUFFICES ASSUME NEW g \in Families, Waits(g)' PROVE Remembered(g)'
  BY DEF NothingForgotten, Waits, Remembered
<1> USE ForgottenIs
<1>0. NothingForgotten' => Remembered(g)'
  BY DEF NothingForgotten, Waits, Remembered
<1>1. ASSUME fam'[g] = fam[g], data' = data PROVE Remembered(g)'
  <2>1. Waits(g)
    BY <1>1 DEF Waits
  <2> QED
    BY <1>1, <2>1, RowStands
<1>2. ASSUME NEW f \in Families, NEW p \in Writes[f], NEW entered \in BOOLEAN,
             Validate(f, p, entered)
      PROVE  Remembered(g)'
  <2>1. CASE g # f
    BY <1>1, <1>2, <2>1 DEF Validate, Typed
  <2>2. CASE g = f
    <3> DEFINE ready == entered /\ ~ (Looked(p) \/ fam[f].gated = p)
    <3>1. fam[f] \in Row
      BY DEF Typed
    <3>2. fam'[f] = [[[[fam[f] EXCEPT !.validated = p] EXCEPT !.entered = entered]
                       EXCEPT !.on = data] EXCEPT !.ready = ready]
      BY <1>2 DEF Validate, Typed
    <3> HIDE DEF ready
    <3>3. /\ fam'[f].validated = p /\ fam'[f].gated = fam[f].gated
          /\ (fam'[f].entered => entered) /\ (ready => fam'[f].ready)
      BY <3>1, <3>2 DEF Row
    <3>4. entered
      BY <2>2, <3>3 DEF Waits
    <3>5. Looked(p) => Looked(p)'
      BY LookedStays
    <3>6. ready \/ Looked(p) \/ fam[f].gated = p
      BY <3>4 DEF ready
    <3> QED
      BY <2>2, <3>3, <3>5, <3>6 DEF Remembered
  <2> QED
    BY <2>1, <2>2
<1>3. ASSUME NEW f \in Families, SendValidation(f) PROVE Remembered(g)'
  <2>1. /\ \A h \in Families \ {f} : fam'[h] = fam[h]
        /\ fam'[f].on = fam[f].on /\ fam[f].on # data /\ data' = data
    BY <1>3, RowWrites DEF SendValidation
  <2> QED
    BY <1>1, <2>1 DEF Waits
<1>4. ASSUME NEW f \in Families, Retire(f) PROVE Remembered(g)'
  <2>1. \A h \in Families \ {f} : fam'[h] = fam[h]
    BY <1>4, RowWrites DEF Retire
  <2>2. fam'[f].band = "retired"
    BY <1>4 DEF Retire, Typed, Row
  <2> QED
    BY <1>1, <1>4, <2>1, <2>2 DEF Waits, Retire
<1>5. ASSUME NEW f \in Families, GiveUp(f) PROVE Remembered(g)'
  <2>1. fam[f].marker \in Attempts /\ Owe(fam[f].marker, FALSE) /\ data' = data
    BY <1>5 DEF GiveUp, GivenUp, Typed
  <2> QED
    BY <1>0, <2>1, OweRemembers
<1>d. ASSUME NEW f \in Families, Demote(f) PROVE Remembered(g)'
  <2>1. CASE g # f
    BY <1>1, <1>d, <2>1, DemoteWrites DEF Demote
  <2>2. CASE g = f
    <3>1. /\ fam[g].band = "candidate" /\ data' = data /\ job' = job /\ looks' = looks
          /\ fam'[g].validated = fam[g].validated /\ fam'[g].entered = fam[g].entered
          /\ fam'[g].on = fam[g].on /\ fam'[g].marker = fam[g].marker
          /\ fam'[g].ready = fam[g].ready /\ fam'[g].gated = fam[g].gated
      BY <1>d, <2>2, DemoteWrites DEF Demote
    <3>2. Remembered(g)
      BY <3>1 DEF Waits
    <3> QED
      BY <3>1, <3>2 DEF Remembered, InFlight, Looked, Landed
  <2> QED
    BY <2>1, <2>2
<1>6. ASSUME NEW f \in Families, CloseFree(f) \/ BeginReview(f) \/ Turn(f)
      PROVE  Remembered(g)'
  <2>1. data' = data /\ (fam' = fam \/ fam' = Closed(f))
    <3>1. CASE CloseFree(f) \/ BeginReview(f)
      BY <3>1 DEF CloseFree, BeginReview
    <3>2. CASE Turn(f)
      BY <3>2, TurnWrites
    <3> QED
      BY <1>6, <3>1, <3>2
  <2>2. CASE fam' = Closed(f)
    <3>1. \A h \in Families \ {f} : fam'[h] = fam[h]
      BY <2>2, RowWrites
    <3>2. fam'[f].gated = fam'[f].validated
      BY <2>2, RowWrites
    <3> QED
      BY <1>1, <2>1, <3>1, <3>2 DEF Remembered
  <2> QED
    BY <1>1, <2>1, <2>2
<1>7. ASSUME NEW f \in Families, Mark(f) PROVE Remembered(g)'
  <2>1. CASE g # f
    BY <1>1, <1>7, <2>1, MarkWrites DEF Mark
  <2>2. CASE g = f
    <3> DEFINE n == Len(job) + 1
    <3>1. fam'[f].marker = n /\ n # 0 /\ job'[n].program = fam'[f].validated
      BY <1>7, MarkWrites
    <3> HIDE DEF n
    <3> QED
      BY <2>2, <3>1 DEF Remembered, InFlight
  <2> QED
    BY <2>1, <2>2
<1>8. ASSUME NEW a \in Attempts, Age(a) \/ Dispatch(a) \/ Requeue(a) \/ FailUnheard(a)
      PROVE  Remembered(g)'
  BY <1>1, <1>8 DEF Age, Dispatch, Requeue, FailUnheard
<1>9. ASSUME NEW a \in Attempts, NEW missing \in BOOLEAN, Fail(a, missing)
      PROVE  Remembered(g)'
  BY <1>0, <1>9, OweRemembers DEF Fail
<1>u. ASSUME NEW a \in Attempts, Unusable(a) PROVE Remembered(g)'
  <2>1. CASE Looked(job[a].program)
    BY <1>1, <1>u, <2>1 DEF Unusable
  <2>2. CASE ~ Looked(job[a].program)
    BY <1>0, <1>u, <2>2, OweRemembers DEF Unusable
  <2> QED
    BY <2>1, <2>2
<1>10. ASSUME NEW a \in Attempts, StopWaiting(a) PROVE Remembered(g)'
  <2>1. CASE job[a].state = "queued"
    BY <1>0, <1>10, <2>1, OweRemembers DEF StopWaiting
  <2>2. CASE job[a].state # "queued"
    BY <1>1, <1>10, <2>2 DEF StopWaiting
  <2> QED
    BY <2>1, <2>2
<1>11. ASSUME NEW a \in Attempts, NEW passed \in BOOLEAN, Land(a, passed)
       PROVE  Remembered(g)'
  <2>1. data' = data /\ SameJobs
    BY <1>11, AttemptSteps DEF Land
  <2>2. CASE fam' = fam
    BY <1>1, <2>1, <2>2
  <2>3. CASE FirstResult(a)
    <3> DEFINE f == job[a].family
               p == job[a].program
    <3>1. CASE g # f
      <4>1. fam'[g] = fam[g]
        BY <2>3, <3>1 DEF FirstResult
      <4> QED
        BY <1>1, <2>1, <4>1
    <3>2. CASE g = f
      <4>1. /\ fam'[g].validated = fam[g].validated /\ fam'[g].entered = fam[g].entered
            /\ fam'[g].on = fam[g].on /\ fam'[g].ready = fam[g].ready
            /\ fam'[g].band = "retired" <=> fam[g].band = "retired"
            /\ fam'[g].gated = IF fam[g].validated = p THEN p ELSE fam[g].gated
            /\ fam'[g].marker = IF fam[g].marker # 0 /\ job[fam[g].marker].program = p
                                THEN 0 ELSE fam[g].marker
        BY <2>3, <3>2 DEF FirstResult
      <4> HIDE DEF f, p
      <4>2. CASE fam[g].validated = p
        BY <4>1, <4>2 DEF Remembered
      <4>3. CASE fam[g].validated # p
        <5>1. Remembered(g)
          BY <2>1, <4>1 DEF Waits
        <5>2. CASE fam[g].validated \in InFlight({g})
          <6>1. fam[g].marker # 0 /\ fam[g].validated = job[fam[g].marker].program
            BY <5>2 DEF InFlight
          <6>2. fam'[g].marker = fam[g].marker /\ fam[g].marker \in Attempts
            BY <4>1, <4>3, <6>1 DEF Typed
          <6>3. job'[fam'[g].marker].program = fam'[g].validated
            BY <2>1, <4>1, <6>1, <6>2 DEF SameJobs
          <6> QED
            BY <6>1, <6>2, <6>3 DEF Remembered, InFlight
        <5>3. CASE Looked(fam[g].validated)
          BY <4>1, <5>3, LookedStays DEF Remembered
        <5> QED
          BY <4>1, <4>3, <5>1, <5>2, <5>3 DEF Remembered
      <4> QED
        BY <4>2, <4>3
    <3> QED
      BY <3>1, <3>2
  <2> QED
    BY <1>11, <2>2, <2>3, LandWrites
<1>12. ASSUME Roll PROVE Remembered(g)'
  <2>1. data' = data + 1 /\ fam' = fam
    BY <1>12 DEF Roll
  <2>2. fam[g].on <= data /\ fam[g].on \in Int /\ data \in Int
    BY DEF JudgedBefore, Typed, Row
  <2> QED
    BY <2>1, <2>2 DEF Waits
<1>13. ASSUME Restart PROVE Remembered(g)'
  <2>1. data' = data
    BY <1>13 DEF Restart
  <2>2. fam'[g] = fam[g] \/ ~ fam'[g].entered
    BY <1>13, RestartWrites
  <2> QED
    BY <1>1, <2>1, <2>2 DEF Waits
<1>14. ASSUME (\E p \in Programs : RecordOwed(p)) \/ UNCHANGED vars PROVE Remembered(g)'
  BY <1>1, <1>14 DEF RecordOwed, vars
<1> QED
  BY <1>2, <1>3, <1>4, <1>5, <1>6, <1>7, <1>8, <1>9, <1>10, <1>11, <1>12, <1>13, <1>14, <1>d, <1>u
  DEF Next, Turn
-----------------------------------------------------------------------------
\* Every step keeps what was validated, validated on data there was.
LEMMA JudgedStep == ASSUME Typed, JudgedBefore, [Next]_vars PROVE JudgedBefore'
<1>0. data \in Nat /\ \A g \in Families : fam[g].on \in Nat
  BY HoldoutLooksAssumption DEF Typed, Row
<1>1. SUFFICES /\ data' \in {data, data + 1}
               /\ \A g \in Families : fam'[g].on \in {fam[g].on, data}
  BY <1>0, <1>1 DEF JudgedBefore
<1>2. CASE UNCHANGED <<fam, data>>
  BY <1>2
<1>3. ASSUME NEW f \in Families, NEW p \in Writes[f], NEW entered \in BOOLEAN,
             Validate(f, p, entered)
      PROVE  data' = data /\ \A g \in Families : fam'[g].on \in {fam[g].on, data}
  BY <1>3 DEF Validate, Typed, Row
<1>4. ASSUME NEW f \in Families,
             SendValidation(f) \/ Retire(f) \/ CloseFree(f) \/ Turn(f)
      PROVE  data' = data /\ \A g \in Families : fam'[g].on = fam[g].on
  <2>1. CASE fam' = fam
    BY <1>4, <2>1, TurnWrites DEF SendValidation, Retire, CloseFree
  <2>2. CASE fam' # fam
    BY <1>4, <2>2, RowWrites, TurnWrites DEF SendValidation, Retire, CloseFree
  <2> QED
    BY <2>1, <2>2
<1>5. ASSUME NEW a \in Attempts, NEW missing \in BOOLEAN, Owe(a, missing)
      PROVE  \A g \in Families : fam'[g].on = fam[g].on
  BY <1>5, OweWrites
<1>6. ASSUME NEW f \in Families, GiveUp(f)
      PROVE  data' = data /\ \A g \in Families : fam'[g].on = fam[g].on
  <2>1. fam[f].marker \in Attempts /\ Owe(fam[f].marker, FALSE) /\ data' = data
    BY <1>6 DEF GiveUp, GivenUp, Typed
  <2> QED
    BY <1>5, <2>1
<1>7. ASSUME NEW f \in Families, Mark(f)
      PROVE  data' = data /\ \A g \in Families : fam'[g].on = fam[g].on
  BY <1>7, MarkWrites DEF Mark
<1>8. ASSUME NEW a \in Attempts, NEW missing \in BOOLEAN, Fail(a, missing)
      PROVE  data' = data /\ \A g \in Families : fam'[g].on = fam[g].on
  BY <1>5, <1>8 DEF Fail
<1>9. ASSUME NEW a \in Attempts, StopWaiting(a)
      PROVE  data' = data /\ \A g \in Families : fam'[g].on = fam[g].on
  <2>1. CASE job[a].state = "queued"
    BY <1>5, <1>9, <2>1 DEF StopWaiting
  <2>2. CASE job[a].state # "queued"
    BY <1>9, <2>2 DEF StopWaiting
  <2> QED
    BY <2>1, <2>2
<1>10. ASSUME NEW a \in Attempts, NEW passed \in BOOLEAN, Land(a, passed)
       PROVE  data' = data /\ \A g \in Families : fam'[g].on = fam[g].on
  BY <1>10, LandWrites DEF Land, FirstResult
<1>11. ASSUME Restart
       PROVE  data' = data /\ \A g \in Families : fam'[g].on = fam[g].on
  BY <1>11, RestartWrites DEF Restart
<1>12. ASSUME Roll PROVE fam' = fam /\ data' = data + 1
  BY <1>12 DEF Roll
<1>13. ASSUME NEW f \in Families, Demote(f)
       PROVE  data' = data /\ \A g \in Families : fam'[g].on = fam[g].on
  BY <1>13, DemoteWrites DEF Demote
<1>14. ASSUME NEW a \in Attempts, Unusable(a)
       PROVE  data' = data /\ \A g \in Families : fam'[g].on = fam[g].on
  BY <1>5, <1>14 DEF Unusable
<1> QED
  BY <1>2, <1>3, <1>4, <1>6, <1>7, <1>8, <1>9, <1>10, <1>11, <1>12, <1>13, <1>14
  DEF Next, Turn, vars, BeginReview, RecordOwed, Age, Dispatch, Requeue, FailUnheard

\* Every step keeps the gate reading only programs no failed review on record is of.
LEMMA ReadsStep == ASSUME Typed, ReadsUnfailed, [Next]_vars PROVE ReadsUnfailed'
<1>1. CASE gate' = gate /\ bar' = bar
  BY <1>1 DEF ReadsUnfailed
<1>2. CASE gate'.family = None
  BY <1>2 DEF ReadsUnfailed
<1>3. ASSUME NEW f \in Families, BeginReview(f) PROVE ReadsUnfailed'
  BY <1>3 DEF BeginReview, ReadsUnfailed
<1>4. ASSUME NEW f \in Families, Turn(f) PROVE ReadsUnfailed'
  <2>1. CASE gate' = Idle
    BY <1>2, <2>1 DEF Idle
  <2>2. CASE gate' # Idle
    BY <1>4, <2>2, TurnWrites DEF ReadsUnfailed
  <2> QED
    BY <2>1, <2>2
<1>5. ASSUME NEW f \in Families, Mark(f) PROVE ReadsUnfailed'
  BY <1>2, <1>5 DEF Mark, Idle
<1>6. ASSUME NEW a \in Attempts, gate' = Unwaited(a), bar' = bar PROVE ReadsUnfailed'
  <2>1. gate' = gate \/ gate' = Idle
    BY <1>6 DEF Unwaited
  <2> QED
    BY <1>1, <1>2, <1>6, <2>1 DEF Idle
<1>7. ASSUME NEW a \in Attempts, StopWaiting(a) \/ FailUnheard(a) PROVE ReadsUnfailed'
  <2>1. gate' = Idle
    BY <1>7 DEF StopWaiting, FailUnheard
  <2> QED
    BY <1>2, <2>1 DEF Idle
<1>8. ASSUME Restart PROVE ReadsUnfailed'
  BY <1>2, <1>8 DEF Restart, Idle
<1>9. ASSUME NEW f \in Families,
             \/ \E p \in Writes[f], entered \in BOOLEAN : Validate(f, p, entered)
             \/ SendValidation(f) \/ Retire(f) \/ Demote(f) \/ GiveUp(f) \/ CloseFree(f)
      PROVE  ReadsUnfailed'
  BY <1>1, <1>9 DEF Validate, SendValidation, Retire, Demote, GiveUp, CloseFree
<1>10. ASSUME NEW a \in Attempts,
              \/ Age(a) \/ Dispatch(a) \/ Requeue(a)
              \/ Unusable(a) \/ \E missing \in BOOLEAN : Fail(a, missing)
              \/ \E passed \in BOOLEAN : Land(a, passed)
       PROVE  ReadsUnfailed'
  BY <1>1, <1>6, <1>10 DEF Age, Dispatch, Requeue, Unusable, Fail, Land
<1>11. ASSUME Roll \/ UNCHANGED vars PROVE ReadsUnfailed'
  BY <1>1, <1>11 DEF Roll, vars
<1>12. ASSUME NEW p \in Programs, RecordOwed(p) PROVE ReadsUnfailed'
  BY <1>2, <1>12 DEF RecordOwed, Idle
<1> QED
  BY <1>3, <1>4, <1>5, <1>7, <1>8, <1>9, <1>10, <1>11, <1>12 DEF Next, Turn

\* Every step keeps a job that may still land under its family's marker.
LEMMA LiveIsHeldStep ==
    ASSUME Typed, Typed', LiveIsHeld, [Next]_vars
    PROVE  LiveIsHeld'
<1> DEFINE Held(a) == \/ fam[job[a].family].marker = a
                      \/ Looked(job[a].program)
                      \/ job[a].age = 2
<1>1. SUFFICES ASSUME NEW a \in Attempts', Live(a)' PROVE Held(a)'
  BY DEF LiveIsHeld
<1>2. \A b \in Attempts : Live(b) => Held(b)
  BY DEF LiveIsHeld
<1>3. \A b \in Attempts : Looked(job[b].program) => Looked(job[b].program)'
  <2> TAKE b \in Attempts
  <2>1. HAVE Looked(job[b].program)
  <2>2. job[b].program \in Landed'
    BY <2>1, LookedStays DEF Looked
  <2>3. job'[b].program = job[b].program
    BY ProgramsStand
  <2> QED
    BY <2>2, <2>3 DEF Looked
<1>4. CASE Quiet
  <2>1. /\ a \in Attempts /\ job'[a].family = job[a].family /\ job[a].family \in Families
        /\ Live(a) /\ (job[a].age = 2 => job'[a].age = 2) /\ job'[a].state # "over"
    BY <1>1, <1>4, AttemptsAre DEF Quiet, SameJobs, Live, Job
  <2>2. CASE fam[job[a].family].marker = a
    BY <1>4, <2>1, <2>2 DEF Quiet
  <2> QED
    BY <1>2, <1>3, <2>1, <2>2
<1>5. ASSUME NEW f \in Families, Mark(f) PROVE Held(a)'
  <2> DEFINE n == Len(job) + 1
  <2>1. /\ Attempts' = Attempts \cup {n} /\ job'[n].family = f /\ fam'[f].marker = n
        /\ \A b \in Attempts : job'[b] = job[b]
        /\ fam[f].marker = 0 /\ \A g \in Families \ {f} : fam'[g] = fam[g]
    BY <1>5, MarkWrites
  <2> HIDE DEF n
  <2>2. CASE a = n
    BY <2>1, <2>2
  <2>3. CASE a \in Attempts
    <3>1. Live(a) /\ job'[a] = job[a] /\ a # 0 /\ job[a].family \in Families
      BY <1>1, <2>1, <2>3, AttemptsAre DEF Live, Job
    <3> QED
      BY <1>2, <1>3, <2>1, <2>3, <3>1
  <2> QED
    BY <2>1, <2>2, <2>3
<1>6. ASSUME NEW b \in Attempts, NEW passed \in BOOLEAN, Land(b, passed) PROVE Held(a)'
  <2>1. SameJobs /\ Becomes(b, "over", 0)
    BY <1>6, AttemptSteps DEF Land
  <2>2. a \in Attempts /\ a # b /\ job'[a] = job[a] /\ Live(a) /\ job[a].family \in Families
    BY <1>1, <2>1, AttemptsAre DEF SameJobs, Becomes, Live, Job
  <2>3. CASE fam[job[a].family].marker = a /\ fam' # fam
    <3>1. FirstResult(b)
      BY <1>6, <2>3, LandWrites
    <3>2. CASE fam'[job[a].family].marker = a
      BY <2>2, <3>2
    <3>3. CASE fam'[job[a].family].marker # a
      <4>1. job[a].program = job[b].program
        BY <2>2, <2>3, <3>1, <3>3 DEF FirstResult
      <4> DEFINE new == [look |-> b, kept |-> job[b].program \in InFlight({job[b].family})]
      <4>2. new \in looks' /\ new.look = b
        BY <3>1 DEF FirstResult
      <4> HIDE DEF new
      <4>3. job'[b].program = job'[a].program
        BY <2>1, <2>2, <4>1 DEF SameJobs
      <4> QED
        BY <4>2, <4>3 DEF Looked, Landed
    <3> QED
      BY <3>2, <3>3
  <2> QED
    BY <1>2, <1>3, <2>2, <2>3
<1> QED
  BY <1>4, <1>5, <1>6, StepForms
-----------------------------------------------------------------------------
\* The first state has no look.
LEMMA InvInit == ASSUME Init PROVE Inv
<1>1. Typed
  BY TypeInit
<1>2. looks = {} /\ job = <<>> /\ Attempts = {} /\ gate.family = None
  BY DEF Init, Attempts, Idle
<1>3. \A f \in Families : fam[f].on = 0 /\ ~ fam[f].entered /\ fam[f].marker = 0
  BY DEF Init
<1>4. JudgedBefore
  BY <1>3, HoldoutLooksAssumption DEF JudgedBefore, Init
<1>5. NothingForgotten
  BY <1>3 DEF NothingForgotten
<1>6. WithinRation
  <2> SUFFICES ASSUME NEW f \in Families PROVE Cardinality(Used(f)) <= Ration
    BY DEF WithinRation
  <2>1. Used(f) = {}
    BY <1>2, <1>3 DEF Used, Kept, InFlight, Kin
  <2> QED
    BY <2>1, FS_EmptySet, HoldoutLooksAssumption
<1> QED
  BY <1>1, <1>2, <1>4, <1>5, <1>6 DEF Inv, OneLookEach, ReadsUnfailed, LiveIsHeld

\* Every step keeps the invariant.
LEMMA InvStep == ASSUME Inv, [Next]_vars PROVE Inv'
<1>1. Typed'
  BY TypeStep DEF Inv
<1> QED
  BY <1>1, JudgedStep, ForgottenStep, OneLookEachStep, WithinRationStep, ReadsStep,
     LiveIsHeldStep
  DEF Inv

\* The invariant holds in every state.
LEMMA InvAlways == Spec => []Inv
BY InvInit, InvStep, PTL DEF Spec

\* Every variable keeps its type; a marker is an attempt of its own family's, and the gate
\* waits only for a job that has not ended.
THEOREM TypeCorrect == Spec => []TypeOK
<1>1. Inv => TypeOK
  BY DEF Inv, Typed, TypeOK
<1> QED
  BY <1>1, InvAlways, PTL

\* The rations, however a look ends, whatever the process loses and whoever shares the
\* program: a program is looked at once, and a lineage's looks, landed under a marker or in
\* flight, are within its ration.
THEOREM RationKept == Spec => []Rationed
<1>1. ASSUME Inv PROVE Rationed
  <2>1. Typed /\ OneLookEach /\ WithinRation
    BY <1>1 DEF Inv
  <2>2. Cardinality(looks) = Cardinality(Landed)
    <3> DEFINE f == [r \in looks |-> job[r.look].program]
    <3>1. IsFiniteSet(Landed)
      BY <2>1, CountedAreTried, TriedIsFinite, FS_Subset
    <3>2. f \in [looks -> Landed] /\ \A r \in looks : f[r] = job[r.look].program
      BY DEF Landed
    <3>3. \A p \in Landed : \E r \in looks : f[r] = p
      BY DEF Landed
    <3>4. \A r, s \in looks : f[r] = f[s] => r = s
      BY <2>1 DEF OneLookEach
    <3> HIDE DEF f
    <3>5. f \in Injection(looks, Landed) /\ f \in Surjection(looks, Landed)
      BY <3>2, <3>3, <3>4 DEF Injection, IsInjective, Surjection
    <3> QED
      BY <3>1, <3>5, FS_Injection
  <2>3. \A f \in Families : Cardinality(Kept(f) \cup InFlight(Kin(f))) <= Ration
    BY <2>1 DEF WithinRation, Used
  <2> QED
    BY <2>2, <2>3 DEF Rationed, Kept
<1> QED
  BY <1>1, InvAlways, PTL

\* A version that entered the gate on the data in use waits there, is out for its look, had
\* it, or was refused.
THEOREM NoneForgotten == Spec => []NothingForgotten
<1>1. Inv => NothingForgotten
  BY DEF Inv
<1> QED
  BY <1>1, InvAlways, PTL

\* A look begins only at a program no look has landed at, that no failed review on record is
\* of, and that no attempt within its limit is still out at.
THEOREM LooksCount == Spec => NoLookWasted
<1> DEFINE Counts ==
      \A a \in DOMAIN job' \ DOMAIN job :
         LET p == job'[a].program IN
         /\ ~ Looked(p) /\ bar[p] # "kept"
         /\ \A b \in Attempts : Live(b) /\ job[b].program = p => job[b].age = 2
<1>1. ASSUME Inv, [Next]_vars PROVE [Counts]_vars
  <2>1. Typed /\ ReadsUnfailed /\ LiveIsHeld
    BY <1>1 DEF Inv
  <2> SUFFICES ASSUME NEW a \in Attempts' \ Attempts
               PROVE  /\ ~ Looked(job'[a].program) /\ bar[job'[a].program] # "kept"
                      /\ \A b \in Attempts :
                           Live(b) /\ job[b].program = job'[a].program => job[b].age = 2
    BY DEF Attempts
  <2>2. ~ SameJobs
    BY DEF SameJobs
  <2>3. PICK f \in Families : Mark(f)
    <3>1. \A b \in Attempts, passed \in BOOLEAN : ~ Land(b, passed)
      BY <2>1, <2>2, AttemptSteps DEF Land
    <3> QED
      BY <1>1, <2>1, <2>2, <3>1, StepForms DEF Quiet
  <2> DEFINE p == gate.program
  <2>4. job'[a].program = p /\ fam[f].marker = 0
    BY <2>1, <2>3, MarkWrites
  <2>5. ~ Looked(p) /\ p \notin InFlight(Families \ {f}) /\ gate.family = f
    BY <2>3 DEF Mark, NoDuplicate
  <2>6. bar[p] # "kept"
    BY <2>1, <2>5, HoldoutLooksAssumption DEF ReadsUnfailed
  <2> HIDE DEF p
  <2>7. ASSUME NEW b \in Attempts, Live(b), job[b].program = p PROVE job[b].age = 2
    <3>1. b # 0 /\ job[b].family \in Families
      BY <2>1, AttemptsAre DEF Job
    <3>2. fam[job[b].family].marker # b
      BY <2>4, <2>5, <2>7, <3>1 DEF InFlight
    <3> QED
      BY <2>1, <2>5, <2>7, <3>2 DEF LiveIsHeld
  <2> QED
    BY <2>4, <2>5, <2>6, <2>7
<1>2. Spec => [][Counts]_vars
  BY <1>1, InvAlways, PTL DEF Spec
<1> QED
  BY <1>2 DEF NoLookWasted
=============================================================================
