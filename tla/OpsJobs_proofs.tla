---------------------------- MODULE OpsJobs_proofs ----------------------------
(***************************************************************************)
(* Proofs about OpsJobs, for every registry and every value of the grace,  *)
(* the wall time, the backoff and the bounds.                              *)
(***************************************************************************)
EXTENDS OpsJobs, FiniteSetTheorems, TLAPS

\* A set without two different members has at most one.
LEMMA AtMostOne ==
    ASSUME NEW S, \A x, y \in S : x = y
    PROVE  Cardinality(S) <= 1
<1>1. CASE S = {}
  <2> Cardinality({}) = 0
    BY FS_EmptySet
  <2> QED
    BY <1>1
<1>2. CASE S # {}
  <2>1. PICK x \in S : S = {x}
    BY <1>2
  <2>2. Cardinality({x}) = 1
    BY FS_Singleton
  <2> QED
    BY <2>1, <2>2
<1> QED
  BY <1>1, <1>2

-----------------------------------------------------------------------------
\* The type invariant with what it needs to be inductive: the child is none or one
\* occurrence, with the moment it was started.
Typed ==
    /\ now \in 0..Horizon /\ began \in 0..Horizon
    /\ up \in BOOLEAN /\ paused \in BOOLEAN
    /\ rows \in [Keys -> Row]
    /\ settled \subseteq Keys
    /\ child \in [of : SUBSET Keys, since : 0..Horizon]
    /\ child.of = {} \/ \E k \in Keys : child.of = {k}
    /\ todo \in [at : 0..Horizon, skip : SUBSET Keys, miss : SUBSET Keys, run : SUBSET Keys]
    /\ pc \in {"idle", "writing", "starting", "spawned"}
    /\ pc = "writing" => ToDo(todo) # {}
    /\ pc \in {"starting", "spawned"} => child.of # {}
    /\ procs \subseteq Proc
    /\ files \in [Keys -> Outcomes \cup {"none"}]
    /\ done \subseteq Keys \X Nat /\ lost \subseteq Keys \X Nat

\* What a House that runs has in memory is what its store says runs.
MemoryIsStore ==
    /\ up => \A k \in Keys : rows[k].status = "running" <=> k \in child.of
    /\ ~ up => child.of = {} /\ pc = "idle"

\* One row says running, over the stops of the House; outside the two writes of a start
\* its pid is known.
OneRowRuns ==
    /\ \A k, l \in Keys : rows[k].status = "running" /\ rows[l].status = "running" => k = l
    /\ up /\ pc \in {"idle", "writing"} => \A k \in child.of : rows[k].pid

\* What store.start may be asked for: an occurrence without a row, or one to be tried again.
MayStart(k) ==
    \/ rows[k].status = "none"
    \/ /\ rows[k].status = "failed" /\ JobOf(k) \in Retry
       /\ rows[k].attempts < MaxAttempts

\* What the tick has still to do is over for none of its occurrences, and only a House
\* without a child has one to start.
ToDoIsOpen ==
    /\ \A k \in ToDo(todo) : MayStart(k)
    /\ todo.run \cap (todo.skip \cup todo.miss) = {}
    /\ todo.run # {} => child.of = {} /\ pc = "writing"
    /\ ~ up \/ pc = "idle" => ToDo(todo) = {}

NoneUntried == \A k \in Keys : rows[k].status = "none" => rows[k].attempts = 0

\* A child is an attempt its row has counted, and until the next is spawned, an earlier one.
ProcsCounted ==
    /\ \A p \in procs : p.attempt <= rows[p.of].attempts
    /\ pc = "starting" => \A p \in procs : p.of \in child.of => p.attempt < rows[p.of].attempts
    /\ \A p, q \in procs : Attempt(p) = Attempt(q) => p = q

\* A child whose pid is not lost is the House's own, or one that its next start kills.
ProcsKnown ==
    \A p \in procs : Attempt(p) \notin lost =>
        /\ p.attempt = rows[p.of].attempts
        /\ up => p.of \in child.of
        /\ ~ up => rows[p.of].status = "running" /\ rows[p.of].pid

\* What makes a result the truth of its row.
Told(k) ==
    \/ <<k, rows[k].attempts>> \in done
    \/ \E a \in 0..rows[k].attempts : <<k, a>> \in done \cap lost

\* A result the House will read is true of the row it will settle.
FileIsTrue == pc # "starting" => \A k \in child.of : files[k] = "ok" => Told(k)

Inv ==
    /\ Typed
    /\ MemoryIsStore /\ OneRowRuns /\ ToDoIsOpen
    /\ NoneUntried /\ StartedWithin
    /\ ProcsCounted /\ ProcsKnown
    /\ FileIsTrue /\ OkIsTrue
-----------------------------------------------------------------------------
\* A House with a child has one.
LEMMA ChildIsOne ==
    ASSUME Typed, child.of # {}
    PROVE  TheChild \in Keys /\ child.of = {TheChild}
BY DEF Typed, TheChild

\* A row stays a row when it is finished or started.
LEMMA RowsStayRows ==
    ASSUME Typed, NEW k \in Keys, NEW status \in Statuses, NEW at \in 0..Horizon
    PROVE  /\ rows[k] \in Row
           /\ Finished(rows[k], status, at) \in Row
           /\ [Finished(rows[k], status, at) EXCEPT !.cut = TRUE] \in Row
           /\ Started(rows[k]) \in Row
<1>1. rows[k] \in Row
  BY DEF Typed
<1>3. rows[k].attempts + 1 \in Nat
  BY <1>1 DEF Row
<1>4. Finished(rows[k], status, at) \in Row
  BY <1>1 DEF Row, Finished
<1>5. [Finished(rows[k], status, at) EXCEPT !.cut = TRUE] \in Row
  BY <1>4 DEF Row
<1>6. Started(rows[k]) \in Row
  BY <1>1, <1>3 DEF Row, Started, Statuses
<1> QED
  BY <1>1, <1>4, <1>5, <1>6

\* What settling and starting do to the fields the invariants speak of.
LEMMA RowFields ==
    ASSUME NEW row \in Row, NEW status \in Statuses, NEW at \in 0..Horizon
    PROVE  /\ Finished(row, status, at).status = status
           /\ Finished(row, status, at).attempts = row.attempts
           /\ Started(row).status = "running"
           /\ Started(row).attempts = row.attempts + 1
BY DEF Row, Finished, Started

\* What retry_state asks to start again failed, may be repeated, and has attempts left.
LEMMA RetryIsFailed ==
    ASSUME Typed, NEW k \in Keys, RetryState(k) = "retry"
    PROVE  /\ rows[k].status = "failed"
           /\ JobOf(k) \in Retry
           /\ rows[k].attempts < MaxAttempts
<1> MaxAttempts \in Nat /\ rows[k].attempts \in Nat
  BY OpsJobsAssumption DEF Typed, Row
<1> QED
  BY DEF RetryState

ToDoType == [at : 0..Horizon, skip : SUBSET Keys, miss : SUBSET Keys, run : SUBSET Keys]

\* Of its types, with exactly these to do.
IsToDo(t, skip, miss, run) ==
    /\ t \in ToDoType
    /\ t.skip = skip /\ t.miss = miss /\ t.run = run
    /\ ToDo(t) = skip \cup miss \cup run

\* What is left to do has the types of what there was.
LEMMA RestTyped ==
    ASSUME NEW at \in 0..Horizon,
           NEW skip \in SUBSET Keys, NEW miss \in SUBSET Keys, NEW run \in SUBSET Keys
    PROVE  IsToDo(Rest(at, skip, miss, run), skip, miss, run)
<1> 0 \in 0..Horizon
  BY OpsJobsAssumption
<1>1. CASE skip \cup miss \cup run = {}
  BY <1>1 DEF Rest, Nothing, ToDo, ToDoType, IsToDo
<1>2. CASE skip \cup miss \cup run # {}
  BY <1>2 DEF Rest, ToDo, ToDoType, IsToDo
<1> QED
  BY <1>1, <1>2

\* A walk finds what may be written down or started, each occurrence for one of them.
LEMMA WalkFinds ==
    ASSUME Typed, Walk
    PROVE  /\ todo' \in [at : 0..Horizon, skip : SUBSET Keys, miss : SUBSET Keys,
                          run : SUBSET Keys]
           /\ settled' \subseteq Keys
           /\ \A k \in ToDo(todo') : MayStart(k)
           /\ todo'.run \cap (todo'.skip \cup todo'.miss) = {}
<1>1. PICK walked \in {Walked} : \E found \in {FoundSettled(walked)}, open \in {Open(walked)} :
        /\ settled' = settled \cup found
        /\ todo' = Rest(now, Skips(open), Misses(open), Runs(open))
  BY DEF Walk
<1>2. PICK found \in {FoundSettled(walked)}, open \in {Open(walked)} :
        /\ settled' = settled \cup found
        /\ todo' = Rest(now, Skips(open), Misses(open), Runs(open))
  BY <1>1
<1>3. /\ found \subseteq Keys /\ open \subseteq Keys
      /\ \A k \in open : rows[k].status = "none" \/ RetryState(k) = "retry"
  BY DEF FoundSettled, Open, Walked
<1>4. \A k \in open : MayStart(k)
  BY <1>3, RetryIsFailed DEF MayStart
<1>5. /\ Skips(open) \subseteq open /\ Misses(open) \subseteq open /\ Runs(open) \subseteq open
      /\ Runs(open) \cap (Skips(open) \cup Misses(open)) = {}
  BY DEF Skips, Misses, Runs
<1>6. now \in 0..Horizon /\ settled \subseteq Keys
  BY DEF Typed
<1> DEFINE S == Skips(open)
           M == Misses(open)
           R == Runs(open)
<1>7. S \in SUBSET Keys /\ M \in SUBSET Keys /\ R \in SUBSET Keys
  BY <1>3, <1>5
<1>8. todo' = Rest(now, S, M, R) /\ S \subseteq open /\ M \subseteq open /\ R \subseteq open
      /\ R \cap (S \cup M) = {}
  BY <1>2, <1>5
<1> HIDE DEF S, M, R
<1>9. /\ todo' \in [at : 0..Horizon, skip : SUBSET Keys, miss : SUBSET Keys, run : SUBSET Keys]
      /\ todo'.skip = S /\ todo'.miss = M /\ todo'.run = R
      /\ ToDo(todo') = S \cup M \cup R
  <2>1. PICK t : t = todo'
    OBVIOUS
  <2>2. t = Rest(now, S, M, R)
    BY <2>1, <1>6, <1>7, <1>8
  <2>3. IsToDo(t, S, M, R)
    BY <2>2, <1>6, <1>7, <1>8, RestTyped
  <2> QED
    BY <2>1, <2>3 DEF IsToDo, ToDoType
<1> QED
  BY <1>2, <1>3, <1>4, <1>6, <1>8, <1>9

\* One of them written down is a row that is over, and leaves what is to do.
LEMMA WriteDownWrites ==
    ASSUME Typed, ToDoIsOpen, WriteDown
    PROVE  \E k \in ToDo(todo), status \in {"skipped", "missed"} :
             /\ rows' = [rows EXCEPT ![k] = Finished(@, status, todo.at)]
             /\ settled' = settled \cup {k}
             /\ todo' \in [at : 0..Horizon, skip : SUBSET Keys, miss : SUBSET Keys,
                            run : SUBSET Keys]
             /\ ToDo(todo') = ToDo(todo) \ {k}
             /\ todo'.run = todo.run
             /\ todo'.run \cap (todo'.skip \cup todo'.miss) = {}
<1>1. PICK k \in FirstOf(ToDo(todo)) \ todo.run :
        /\ rows' = [rows EXCEPT ![k] =
             Finished(@, IF k \in todo.skip THEN "skipped" ELSE "missed", todo.at)]
        /\ settled' = settled \cup {k}
        /\ todo' = Rest(todo.at, todo.skip \ {k}, todo.miss \ {k}, todo.run)
  BY DEF WriteDown
<1>2. k \in ToDo(todo) /\ k \notin todo.run
  BY <1>1 DEF FirstOf
<1> DEFINE S == todo.skip \ {k}
           M == todo.miss \ {k}
           R == todo.run
<1>2a. /\ todo.at \in 0..Horizon
       /\ S \in SUBSET Keys /\ M \in SUBSET Keys /\ R \in SUBSET Keys
       /\ todo' = Rest(todo.at, S, M, R)
  BY <1>1 DEF Typed
<1>2b. /\ todo' \in [at : 0..Horizon, skip : SUBSET Keys, miss : SUBSET Keys, run : SUBSET Keys]
       /\ todo'.skip = S /\ todo'.miss = M /\ todo'.run = R
       /\ ToDo(todo') = S \cup M \cup R
  <2> HIDE DEF S, M, R
  <2>1. PICK t : t = todo'
    OBVIOUS
  <2>2. t = Rest(todo.at, S, M, R)
    BY <2>1, <1>2a
  <2>3. IsToDo(t, S, M, R)
    BY <2>2, <1>2a, RestTyped
  <2> QED
    BY <2>1, <2>3 DEF IsToDo, ToDoType
<1>3. /\ todo' \in [at : 0..Horizon, skip : SUBSET Keys, miss : SUBSET Keys, run : SUBSET Keys]
      /\ todo'.skip = todo.skip \ {k} /\ todo'.miss = todo.miss \ {k}
      /\ todo'.run = todo.run
      /\ ToDo(todo') = (todo.skip \ {k}) \cup (todo.miss \ {k}) \cup todo.run
  BY <1>2b
<1>4. ToDo(todo') = ToDo(todo) \ {k}
  BY <1>2, <1>3 DEF ToDo
<1>5. todo'.run \cap (todo'.skip \cup todo'.miss) = {}
  BY <1>3 DEF ToDoIsOpen
<1> DEFINE status == IF k \in todo.skip THEN "skipped" ELSE "missed"
<1>6. status \in {"skipped", "missed"} /\ rows' = [rows EXCEPT ![k] = Finished(@, status, todo.at)]
  BY <1>1
<1> HIDE DEF status
<1> QED
  BY <1>1, <1>2, <1>3, <1>4, <1>5, <1>6

\* A start is of one that may start, and leaves nothing else to start.
LEMMA StartFirstStarts ==
    ASSUME Typed, ToDoIsOpen, StartFirst
    PROVE  \E k \in todo.run :
             /\ rows' = [rows EXCEPT ![k] = Started(@)]
             /\ child' = [of |-> {k}, since |-> todo.at]
             /\ todo' \in [at : 0..Horizon, skip : SUBSET Keys, miss : SUBSET Keys,
                            run : SUBSET Keys]
             /\ ToDo(todo') \subseteq ToDo(todo) \ {k}
             /\ todo'.run = {}
<1>1. PICK k \in FirstOf(ToDo(todo)) \cap todo.run :
        /\ rows' = [rows EXCEPT ![k] = Started(@)]
        /\ child' = [of |-> {k}, since |-> todo.at]
  BY DEF StartFirst
<1>2. todo' = Rest(todo.at, todo.skip, todo.miss, {})
  BY DEF StartFirst
<1> DEFINE S == todo.skip
           M == todo.miss
           R == {}
<1>2a. /\ todo.at \in 0..Horizon /\ S \in SUBSET Keys /\ M \in SUBSET Keys
       /\ R \in SUBSET Keys /\ todo' = Rest(todo.at, S, M, R)
  BY <1>2 DEF Typed
<1>3. /\ todo' \in [at : 0..Horizon, skip : SUBSET Keys, miss : SUBSET Keys, run : SUBSET Keys]
      /\ todo'.run = R /\ ToDo(todo') = S \cup M \cup R
  <2> HIDE DEF S, M, R
  <2>1. PICK t : t = todo'
    OBVIOUS
  <2>2. t = Rest(todo.at, S, M, R)
    BY <2>1, <1>2a
  <2>3. IsToDo(t, S, M, R)
    BY <2>2, <1>2a, RestTyped
  <2> QED
    BY <2>1, <2>3 DEF IsToDo, ToDoType
<1>4. ToDo(todo') \subseteq ToDo(todo) \ {k}
  BY <1>3 DEF ToDo, ToDoIsOpen
<1> QED
  BY <1>1, <1>3, <1>4

\* The first states are of their types.
LEMMA TypeInit == ASSUME Init PROVE Typed
<1>1. 0 \in 0..Horizon
  BY OpsJobsAssumption
<1>2. rows \in [Keys -> Row]
  BY <1>1 DEF Init, NoRow, Row, Statuses
<1>3. /\ child \in [of : SUBSET Keys, since : 0..Horizon] /\ child.of = {}
      /\ todo \in [at : 0..Horizon, skip : SUBSET Keys, miss : SUBSET Keys, run : SUBSET Keys]
  BY <1>1 DEF Init, NoChild, Nothing
<1> QED
  BY <1>1, <1>2, <1>3 DEF Init, Typed, Outcomes

\* Every step keeps the types.
LEMMA TypeStep == ASSUME Typed, ToDoIsOpen, [Next]_vars PROVE Typed'
<1> USE DEF Typed
<1>c. NoChild \in [of : SUBSET Keys, since : 0..Horizon] /\ NoChild.of = {}
  BY OpsJobsAssumption DEF NoChild
<1>n. Nothing \in [at : 0..Horizon, skip : SUBSET Keys, miss : SUBSET Keys, run : SUBSET Keys]
  BY OpsJobsAssumption DEF Nothing
<1>g. \A t : GoOn(t) \in {"idle", "writing"} /\ (GoOn(t) = "writing" => ToDo(t) # {})
  BY DEF GoOn
<1>f. \A k \in Keys : [files EXCEPT ![k] = "none"] \in [Keys -> Outcomes \cup {"none"}]
  OBVIOUS
<1>r. \A k \in Keys, status \in Statuses, at \in 0..Horizon :
        [rows EXCEPT ![k] = Finished(@, status, at)] \in [Keys -> Row]
  BY RowsStayRows
<1>1. ASSUME Walk PROVE Typed'
  <2>1. pc' = GoOn(todo') /\ UNCHANGED <<now, up, began, paused, rows, child, procs, files, done, lost>>
    BY <1>1 DEF Walk
  <2> QED
    BY <1>1, <1>g, <2>1, WalkFinds
<1>1a. ASSUME WriteDown, ToDoIsOpen PROVE Typed'
  <2>1. PICK k \in ToDo(todo), status \in {"skipped", "missed"} :
          /\ rows' = [rows EXCEPT ![k] = Finished(@, status, todo.at)]
          /\ settled' = settled \cup {k}
          /\ todo' \in [at : 0..Horizon, skip : SUBSET Keys, miss : SUBSET Keys,
                         run : SUBSET Keys]
    BY <1>1a, WriteDownWrites
  <2>2. k \in Keys /\ status \in Statuses /\ todo.at \in 0..Horizon
    BY DEF ToDo, Statuses
  <2>3. rows' \in [Keys -> Row] /\ settled' \subseteq Keys
    BY <1>r, <2>1, <2>2
  <2>4. pc' = GoOn(todo') /\ UNCHANGED <<now, up, began, paused, child, procs, files, done, lost>>
    BY <1>1a DEF WriteDown
  <2> QED
    BY <1>g, <2>1, <2>3, <2>4
<1>1b. ASSUME StartFirst, ToDoIsOpen PROVE Typed'
  <2>1. PICK k \in todo.run :
          /\ rows' = [rows EXCEPT ![k] = Started(@)]
          /\ child' = [of |-> {k}, since |-> todo.at]
          /\ todo' \in [at : 0..Horizon, skip : SUBSET Keys, miss : SUBSET Keys,
                         run : SUBSET Keys]
    BY <1>1b, StartFirstStarts
  <2>2. k \in Keys /\ Started(rows[k]) \in Row /\ todo.at \in 0..Horizon
    BY RowsStayRows DEF Statuses
  <2>3. rows' \in [Keys -> Row] /\ child' \in [of : SUBSET Keys, since : 0..Horizon]
    BY <2>1, <2>2
  <2> QED
    BY <1>1b, <2>1, <2>2, <2>3 DEF StartFirst
<1>2. ASSUME Spawn PROVE Typed'
  <2>1. child.of # {} /\ TheChild \in Keys
    BY <1>2, ChildIsOne DEF Spawn
  <2>2. [of |-> TheChild, attempt |-> rows[TheChild].attempts, wrote |-> FALSE] \in Proc
    BY <2>1 DEF Row, Proc
  <2> QED
    BY <1>2, <1>f, <2>1, <2>2 DEF Spawn
<1>3. ASSUME SpawnFails PROVE Typed'
  <2>1. TheChild \in Keys
    BY <1>3, ChildIsOne DEF SpawnFails
  <2> QED
    BY <1>3, <1>c, <1>f, <1>g, <1>r, <2>1 DEF SpawnFails, Statuses
<1>4. ASSUME SetPid PROVE Typed'
  <2>1. TheChild \in Keys
    BY <1>4, ChildIsOne DEF SetPid
  <2>2. [rows EXCEPT ![TheChild].pid = TRUE] \in [Keys -> Row]
    <3>1. rows[TheChild] \in Row
      BY <2>1
    <3>2. [rows[TheChild] EXCEPT !.pid = TRUE] \in Row
      BY <3>1 DEF Row
    <3> QED
      BY <2>1, <3>2
  <2> QED
    BY <1>4, <1>g, <2>2 DEF SetPid
<1>5. ASSUME PollKills PROVE Typed'
  <2>1. TheChild \in Keys
    BY <1>5, ChildIsOne DEF PollKills
  <2> QED
    BY <1>5, <1>c, <1>r, <2>1 DEF PollKills, Statuses
<1>6. ASSUME PollSettles PROVE Typed'
  <2>1. TheChild \in Keys
    BY <1>6, ChildIsOne DEF PollSettles
  <2> DEFINE status == IF files[TheChild] = "none" THEN "failed" ELSE files[TheChild]
  <2>s. status \in Statuses /\ rows' = [rows EXCEPT ![TheChild] = Finished(@, status, now)]
    BY <1>6, <2>1 DEF PollSettles, Statuses, Outcomes
  <2> HIDE DEF status
  <2>2. rows' \in [Keys -> Row]
    BY <1>r, <2>1, <2>s
  <2> QED
    BY <1>6, <1>c, <1>f, <2>1, <2>2 DEF PollSettles
<1>7. ASSUME Health PROVE Typed'
  BY <1>7 DEF Health, FoundSettled, Walked
<1>8. ASSUME Stop PROVE Typed'
  <2>1. \A p \in procs : Attempt(p) \in Keys \X Nat
    BY DEF Proc, Attempt
  <2>2. lost' \subseteq Keys \X Nat
    BY <1>8, <2>1 DEF Stop, Running
  <2> QED
    BY <1>8, <1>c, <1>n, <2>2 DEF Stop
<1>9. ASSUME Start PROVE Typed'
  <2>1. rows' \in [Keys -> Row]
    BY <1>9, RowsStayRows DEF Start, Statuses
  <2> QED
    BY <1>9, <2>1 DEF Start
<1>10. ASSUME NEW p \in procs, ChildWrites(p) PROVE Typed'
  <2> p \in Proc
    OBVIOUS
  <2>1. p.of \in Keys /\ Attempt(p) \in Keys \X Nat /\ [p EXCEPT !.wrote = TRUE] \in Proc
    <3> HIDE DEF Typed
    <3>1. p.of \in Keys /\ p.attempt \in Nat /\ [p EXCEPT !.wrote = TRUE] \in Proc
      BY DEF Proc
    <3> QED
      BY <3>1 DEF Attempt
  <2>2. files' \in [Keys -> Outcomes \cup {"none"}] /\ done' \subseteq Keys \X Nat
    BY <1>10, <2>1 DEF ChildWrites
  <2>3. procs' \subseteq Proc
    BY <1>10, <2>1 DEF ChildWrites
  <2> QED
    BY <1>10, <2>2, <2>3 DEF ChildWrites
<1>11. ASSUME NEW p \in procs, ChildEnds(p) PROVE Typed'
  BY <1>11 DEF ChildEnds
<1>12. ASSUME Pause PROVE Typed'
  BY <1>12 DEF Pause
<1>13. ASSUME Tick PROVE Typed'
  BY <1>13, OpsJobsAssumption DEF Tick
<1>14. ASSUME UNCHANGED vars PROVE Typed'
  BY <1>14 DEF vars
<1> QED
  BY <1>1, <1>1a, <1>1b, <1>2, <1>3, <1>4, <1>5, <1>6, <1>7, <1>8, <1>9, <1>10, <1>11, <1>12,
     <1>13, <1>14
  DEF Next, HouseTick
-----------------------------------------------------------------------------
\* The attempts of a row are a number.
LEMMA Counts == ASSUME Typed PROVE \A k \in Keys : rows[k].attempts \in Nat
BY DEF Typed, Row

\* A child that is settled leaves the House without a child and the store without a
\* running row: the way a start that failed, a kill and a result end alike.
LEMMA SettledKeeps ==
    ASSUME Inv, Typed', up, up' = up, pc' = GoOn(todo), todo' = todo,
           NEW c \in Keys, child.of = {c}, child' = NoChild,
           NEW status \in Outcomes, NEW at \in 0..Horizon,
           rows' = [rows EXCEPT ![c] = Finished(@, status, at)],
           status = "ok" => Told(c),
           procs' \subseteq procs, \A p \in procs' : Attempt(p) \in lost,
           UNCHANGED <<done, lost>>
    PROVE  Inv'
<1> USE DEF Inv
<1>1. /\ \A k \in Keys : rows'[k].attempts = rows[k].attempts
      /\ \A k \in Keys \ {c} : rows'[k] = rows[k]
      /\ rows'[c].status = status
      /\ child'.of = {}
  BY DEF Typed, Row, Finished, NoChild, Outcomes
<1>2. \A k \in Keys : rows'[k].status # "running"
  BY <1>1 DEF MemoryIsStore, Outcomes
<1>3. MemoryIsStore' /\ OneRowRuns'
  BY <1>1, <1>2 DEF MemoryIsStore, OneRowRuns
<1>4. NoneUntried' /\ StartedWithin'
  BY <1>1 DEF NoneUntried, StartedWithin, Outcomes
<1>4a. ToDoIsOpen'
  <2>1. todo.run = {}
    BY DEF ToDoIsOpen
  <2>2. c \notin ToDo(todo)
    BY DEF ToDoIsOpen, MayStart, MemoryIsStore
  <2>3. \A k \in ToDo(todo) : MayStart(k)'
    BY <1>1, <2>2 DEF ToDoIsOpen, MayStart, ToDo, Typed
  <2> QED
    BY <1>1, <2>1, <2>3 DEF ToDoIsOpen, GoOn
<1>5. ProcsCounted'
  BY <1>1 DEF ProcsCounted, Typed, Proc, Attempt
<1>6. ProcsKnown'
  BY DEF ProcsKnown, Attempt
<1>7. FileIsTrue'
  BY <1>1 DEF FileIsTrue
<1>8. OkIsTrue'
  <2>1. \A k \in Keys : Told(k) => Told(k)'
    BY <1>1 DEF Told
  <2>2. \A k \in Keys : rows'[k].status = "ok" => Told(k)
    BY <1>1 DEF OkIsTrue, Told
  <2> QED
    BY <2>1, <2>2 DEF OkIsTrue, Told
<1> QED
  BY <1>3, <1>4, <1>4a, <1>5, <1>6, <1>7, <1>8

\* Without a child, or before its process is there, no process runs but the lost.
LEMMA NoneKnown ==
    ASSUME Inv, up, pc = "starting" \/ child.of = {} \/ Running = {}
    PROVE  \A p \in procs : Attempt(p) \in lost
<1>1. \A p \in procs : p.of \in Keys /\ p.attempt \in Nat
  BY DEF Inv, Typed, Proc
<1> QED
  BY <1>1, Counts DEF Inv, ProcsKnown, ProcsCounted, Running

\* The walk over the occurrences (due) only fills what is to do.
LEMMA WalkKeeps == ASSUME Inv, Typed', Walk PROVE Inv'
<1> USE DEF Inv
<1>1. /\ up /\ up' = up /\ child.of = {} /\ pc' = GoOn(todo')
      /\ UNCHANGED <<rows, child, procs, files, done, lost>>
  BY DEF Walk
<1>2. /\ \A k \in ToDo(todo') : MayStart(k)
      /\ todo'.run \cap (todo'.skip \cup todo'.miss) = {}
  BY WalkFinds
<1>3. ToDoIsOpen'
  <2>1. \A k \in ToDo(todo') : MayStart(k)'
    BY <1>1, <1>2 DEF MayStart
  <2>2. todo'.run # {} => ToDo(todo') # {}
    BY DEF ToDo
  <2> QED
    BY <1>1, <1>2, <2>1, <2>2 DEF ToDoIsOpen, GoOn
<1>4. MemoryIsStore' /\ OneRowRuns' /\ NoneUntried' /\ StartedWithin' /\ OkIsTrue'
  BY <1>1 DEF MemoryIsStore, OneRowRuns, NoneUntried, StartedWithin, OkIsTrue, GoOn
<1>5. ProcsCounted' /\ ProcsKnown' /\ FileIsTrue'
  BY <1>1 DEF ProcsCounted, ProcsKnown, FileIsTrue, Attempt, GoOn
<1> QED
  BY <1>3, <1>4, <1>5

\* What is written down as skipped or missed is over, and was not running.
LEMMA WriteDownKeeps == ASSUME Inv, Typed', WriteDown PROVE Inv'
<1> USE DEF Inv
<1>1. PICK c \in ToDo(todo), status \in {"skipped", "missed"} :
        /\ rows' = [rows EXCEPT ![c] = Finished(@, status, todo.at)]
        /\ ToDo(todo') = ToDo(todo) \ {c}
        /\ todo'.run = todo.run
        /\ todo'.run \cap (todo'.skip \cup todo'.miss) = {}
  BY WriteDownWrites
<1>2. /\ up /\ up' = up /\ pc = "writing" /\ pc' = GoOn(todo')
      /\ UNCHANGED <<child, procs, files, done, lost>>
  BY DEF WriteDown
<1>3. c \in Keys /\ MayStart(c)
  BY DEF Typed, ToDo, ToDoIsOpen
<1>4. /\ \A k \in Keys \ {c} : rows'[k] = rows[k]
      /\ rows'[c].status = status /\ rows'[c].attempts = rows[c].attempts
  BY <1>1, <1>3 DEF Typed, Row, Finished
<1>5. \A k \in Keys : rows'[k].attempts = rows[k].attempts
  BY <1>4
<1>6. rows[c].status # "running" /\ c \notin child.of
  BY <1>2, <1>3 DEF MayStart, MemoryIsStore
<1>7. MemoryIsStore' /\ OneRowRuns'
  BY <1>2, <1>3, <1>4, <1>6 DEF MemoryIsStore, OneRowRuns, Typed
<1>8. ToDoIsOpen'
  <2>1. \A k \in ToDo(todo') : MayStart(k)'
    BY <1>1, <1>4 DEF ToDoIsOpen, MayStart, ToDo, Typed
  <2>2. todo'.run # {} => ToDo(todo') # {}
    BY DEF ToDo
  <2> QED
    BY <1>1, <1>2, <2>1, <2>2 DEF ToDoIsOpen, GoOn
<1>9. NoneUntried' /\ StartedWithin'
  BY <1>4, <1>5 DEF NoneUntried, StartedWithin
<1>10. ProcsCounted'
  BY <1>2, <1>5 DEF ProcsCounted, Typed, Proc, Attempt, GoOn
<1>11. ProcsKnown'
  BY <1>2, <1>5 DEF ProcsKnown, Typed, Proc, Attempt
<1>12. \A k \in Keys : Told(k) => Told(k)'
  BY <1>2, <1>5 DEF Told
<1>13. FileIsTrue' /\ OkIsTrue'
  BY <1>2, <1>4, <1>12 DEF FileIsTrue, OkIsTrue, Told, Typed
<1> QED
  BY <1>7, <1>8, <1>9, <1>10, <1>11, <1>13

\* A start is of an occurrence that may start, and makes its row the one that runs.
LEMMA StartFirstKeeps == ASSUME Inv, Typed', StartFirst PROVE Inv'
<1> USE DEF Inv
<1>1. PICK c \in todo.run :
        /\ rows' = [rows EXCEPT ![c] = Started(@)]
        /\ child' = [of |-> {c}, since |-> todo.at]
        /\ ToDo(todo') \subseteq ToDo(todo) \ {c}
        /\ todo'.run = {}
  BY StartFirstStarts
<1>2. /\ up /\ up' = up /\ pc' = "starting" /\ child.of = {} /\ child'.of = {c}
      /\ UNCHANGED <<procs, files, done, lost>>
  BY <1>1 DEF StartFirst, ToDoIsOpen
<1>3. c \in Keys /\ MayStart(c)
  BY DEF Typed, ToDo, ToDoIsOpen
<1>4. /\ \A k \in Keys \ {c} : rows'[k] = rows[k]
      /\ rows'[c].status = "running" /\ rows'[c].attempts = rows[c].attempts + 1
  BY <1>1, <1>3 DEF Typed, Row, Started
<1>5. /\ \A k \in Keys : rows[k].status # "running"
      /\ \A p \in procs : Attempt(p) \in lost
  BY <1>2, NoneKnown DEF MemoryIsStore
<1>6. MemoryIsStore' /\ OneRowRuns'
  BY <1>2, <1>3, <1>4, <1>5 DEF MemoryIsStore, OneRowRuns
<1>7. ToDoIsOpen'
  <2>1. \A k \in ToDo(todo') : MayStart(k)'
    BY <1>1, <1>4 DEF ToDoIsOpen, MayStart, ToDo, Typed
  <2> QED
    BY <1>1, <1>2, <2>1 DEF ToDoIsOpen
<1>8. NoneUntried'
  BY <1>3, <1>4 DEF NoneUntried
<1>9. StartedWithin'
  <2>1. /\ rows[c].attempts + 1 <= MaxAttempts
        /\ JobOf(c) \notin Retry => rows[c].attempts + 1 <= 1
    BY <1>3, Counts, OpsJobsAssumption DEF NoneUntried, MayStart
  <2> QED
    BY <1>3, <1>4, <2>1 DEF StartedWithin
<1>10. ProcsCounted'
  <2>1. \A p \in procs : p.of \in Keys /\ p.attempt \in Nat
    BY DEF Typed, Proc
  <2> QED
    BY <1>2, <1>3, <1>4, <2>1, Counts DEF ProcsCounted, Attempt
<1>11. ProcsKnown'
  BY <1>2, <1>5 DEF ProcsKnown, Attempt
<1>12. FileIsTrue'
  BY <1>2 DEF FileIsTrue
<1>13. OkIsTrue'
  BY <1>2, <1>4 DEF OkIsTrue
<1> QED
  BY <1>6, <1>7, <1>8, <1>9, <1>10, <1>11, <1>12, <1>13

\* A fork keeps it: its row was written as running first.
LEMMA SpawnKeeps == ASSUME Inv, Typed', Spawn PROVE Inv'
<1> USE DEF Inv
<1> DEFINE new == [of |-> TheChild, attempt |-> rows[TheChild].attempts, wrote |-> FALSE]
<1>1. /\ up /\ pc = "starting" /\ pc' = "spawned"
      /\ files' = [files EXCEPT ![TheChild] = "none"]
      /\ procs' = procs \cup {new}
      /\ UNCHANGED <<up, rows, child, todo, done, lost>>
  BY DEF Spawn
<1>2. TheChild \in Keys /\ child.of = {TheChild}
  BY <1>1, ChildIsOne DEF Typed
<1>3. \A p \in procs : Attempt(p) \in lost
  BY <1>1, NoneKnown
<1>4. MemoryIsStore' /\ OneRowRuns' /\ ToDoIsOpen' /\ NoneUntried' /\ StartedWithin'
  BY <1>1, <1>2
  DEF MemoryIsStore, OneRowRuns, ToDoIsOpen, MayStart, NoneUntried, StartedWithin
<1>5. ProcsCounted'
  <2>1. \A p \in procs : p.of \in Keys /\ p.attempt \in Nat
    BY DEF Typed, Proc
  <2>2. \A p \in procs : Attempt(p) # Attempt(new)
    BY <1>1, <1>2, <2>1, Counts DEF ProcsCounted, Attempt
  <2>3. \A p \in procs' : p.attempt <= rows'[p.of].attempts
    BY <1>1, <1>2, Counts DEF ProcsCounted
  <2>4. \A p, q \in procs' : Attempt(p) = Attempt(q) => p = q
    <3> HIDE DEF new
    <3> QED
      BY <1>1, <2>2 DEF ProcsCounted
  <2> QED
    BY <1>1, <2>3, <2>4 DEF ProcsCounted, Attempt
<1>6. ProcsKnown'
  BY <1>1, <1>2, <1>3 DEF ProcsKnown, Attempt
<1>7. FileIsTrue'
  BY <1>1, <1>2 DEF FileIsTrue, Typed
<1>8. OkIsTrue'
  BY <1>1 DEF OkIsTrue
<1> QED
  BY <1>4, <1>5, <1>6, <1>7, <1>8

\* The pid that follows the fork keeps it.
LEMMA SetPidKeeps == ASSUME Inv, Typed', SetPid PROVE Inv'
<1> USE DEF Inv
<1>1. /\ up /\ pc = "spawned" /\ pc' = GoOn(todo)
      /\ rows' = [rows EXCEPT ![TheChild].pid = TRUE]
      /\ UNCHANGED <<up, child, todo, procs, files, done, lost>>
  BY DEF SetPid
<1>2. TheChild \in Keys /\ child.of = {TheChild}
  BY <1>1, ChildIsOne DEF Typed
<1>3. \A k \in Keys : /\ rows'[k].status = rows[k].status
                      /\ rows'[k].attempts = rows[k].attempts
  BY <1>1, <1>2 DEF Typed, Row
<1>4. rows'[TheChild].pid
  BY <1>1, <1>2 DEF Typed, Row
<1>5. \A k \in Keys : Told(k) => Told(k)'
  <2> UNCHANGED <<done, lost>>
    BY <1>1
  <2> QED
    BY <1>3 DEF Told
<1>6. MemoryIsStore' /\ NoneUntried' /\ StartedWithin'
  BY <1>1, <1>3 DEF MemoryIsStore, NoneUntried, StartedWithin
<1>7. OkIsTrue'
  BY <1>3, <1>5 DEF OkIsTrue, Told
<1>8. OneRowRuns' /\ ToDoIsOpen'
  <2>1. OneRowRuns'
    BY <1>1, <1>2, <1>3, <1>4 DEF OneRowRuns
  <2>2. todo.run = {}
    BY <1>1 DEF ToDoIsOpen
  <2>3. \A k \in ToDo(todo) : MayStart(k)'
    BY <1>1, <1>3 DEF ToDoIsOpen, MayStart, ToDo, Typed
  <2> QED
    BY <1>1, <2>1, <2>2, <2>3 DEF ToDoIsOpen, GoOn
<1>9. ProcsCounted' /\ ProcsKnown'
  <2>1. \A p \in procs : p.of \in Keys
    BY DEF Typed, Proc
  <2> QED
    BY <1>1, <1>3, <2>1 DEF ProcsCounted, ProcsKnown, Attempt, GoOn
<1>10. FileIsTrue'
  BY <1>1, <1>2, <1>5 DEF FileIsTrue
<1> QED
  BY <1>6, <1>7, <1>8, <1>9, <1>10

\* The three ways a child ends in the House keep it.
LEMMA SettlesKeep ==
    ASSUME Inv, Typed', SpawnFails \/ PollKills \/ PollSettles
    PROVE  Inv'
<1>1. child.of # {}
  BY DEF Inv, Typed, SpawnFails, PollKills, PollSettles
<1>2. TheChild \in Keys /\ child.of = {TheChild}
  BY <1>1, ChildIsOne DEF Inv
<1>3. CASE SpawnFails
  <2>1. \A p \in procs : Attempt(p) \in lost
    BY <1>3, NoneKnown DEF SpawnFails
  <2>2. child.since \in 0..Horizon /\ "failed" \in Outcomes
    BY DEF Inv, Typed, Outcomes
  <2>3. /\ up /\ up' = up /\ pc' = GoOn(todo) /\ todo' = todo /\ child' = NoChild
        /\ rows' = [rows EXCEPT ![TheChild] = Finished(@, "failed", child.since)]
        /\ UNCHANGED <<procs, done, lost>>
    BY <1>3 DEF SpawnFails
  <2> QED
    BY <1>2, <2>1, <2>2, <2>3, SettledKeeps
<1>4. ASSUME pc = "idle" PROVE GoOn(todo) = "idle"
  BY <1>4 DEF Inv, ToDoIsOpen, GoOn
<1>5. now \in 0..Horizon
  BY DEF Inv, Typed
<1>6. CASE PollKills
  <2>1. \A p \in procs \ Running : Attempt(p) \in lost
    BY <1>6 DEF Inv, ProcsKnown, Running, PollKills
  <2>2. /\ up /\ up' = up /\ pc' = GoOn(todo) /\ todo' = todo /\ child' = NoChild
        /\ rows' = [rows EXCEPT ![TheChild] = Finished(@, "failed", now)]
        /\ procs' = procs \ Running
        /\ UNCHANGED <<done, lost>>
    BY <1>4, <1>6 DEF PollKills
  <2>3. "failed" \in Outcomes /\ procs' \subseteq procs
    BY <2>2 DEF Outcomes
  <2> QED
    BY <1>2, <1>5, <2>1, <2>2, <2>3, SettledKeeps
<1>7. CASE PollSettles
  <2> DEFINE status == IF files[TheChild] = "none" THEN "failed" ELSE files[TheChild]
  <2>1. \A p \in procs : Attempt(p) \in lost
    BY <1>7, NoneKnown DEF PollSettles
  <2>2. status \in Outcomes /\ (status = "ok" => Told(TheChild))
    BY <1>2, <1>7 DEF Inv, Typed, FileIsTrue, PollSettles, Outcomes
  <2>3. /\ up /\ up' = up /\ pc' = GoOn(todo) /\ todo' = todo /\ child' = NoChild
        /\ rows' = [rows EXCEPT ![TheChild] = Finished(@, status, now)]
        /\ UNCHANGED <<procs, done, lost>>
    BY <1>4, <1>7 DEF PollSettles
  <2> HIDE DEF status
  <2> QED
    BY <1>2, <1>5, <2>1, <2>2, <2>3, SettledKeeps
<1> QED
  BY <1>3, <1>6, <1>7

\* A House that stops leaves its rows and processes as they are.
LEMMA StopKeeps == ASSUME Inv, Typed', Stop PROVE Inv'
<1> USE DEF Inv
<1>1. /\ up /\ ~ up' /\ child' = NoChild /\ child'.of = {} /\ pc' = "idle"
      /\ todo' = Nothing /\ ToDo(todo') = {}
      /\ lost' = IF pc = "spawned" THEN lost \cup {Attempt(p) : p \in Running} ELSE lost
      /\ UNCHANGED <<rows, procs, files, done>>
  BY DEF Stop, NoChild, Nothing, ToDo
<1>2. MemoryIsStore' /\ NoneUntried' /\ StartedWithin' /\ FileIsTrue' /\ ToDoIsOpen'
  BY <1>1 DEF MemoryIsStore, NoneUntried, StartedWithin, FileIsTrue, ToDoIsOpen, ToDo
<1>3. OneRowRuns'
  BY <1>1 DEF OneRowRuns
<1>4. ProcsCounted'
  BY <1>1 DEF ProcsCounted, Attempt
<1>5. ProcsKnown'
  <2> SUFFICES ASSUME NEW p \in procs, Attempt(p) \notin lost'
               PROVE  /\ p.attempt = rows[p.of].attempts
                      /\ rows[p.of].status = "running" /\ rows[p.of].pid
    BY <1>1 DEF ProcsKnown, Attempt
  <2>1. Attempt(p) \notin lost
    BY <1>1
  <2>2. p.of \in Keys /\ p.of \in child.of /\ p.attempt = rows[p.of].attempts
    BY <1>1, <2>1 DEF ProcsKnown, Typed, Proc
  <2>3. pc # "spawned"
    BY <1>1, <2>2 DEF Running
  <2>4. pc # "starting"
    BY <2>2, Counts DEF ProcsCounted
  <2> QED
    BY <1>1, <2>2, <2>3, <2>4 DEF MemoryIsStore, OneRowRuns, Typed
<1>6. OkIsTrue'
  BY <1>1 DEF OkIsTrue
<1> QED
  BY <1>2, <1>3, <1>4, <1>5, <1>6

\* A House that starts settles every row it finds running (recover).
LEMMA StartKeeps == ASSUME Inv, Typed', Start PROVE Inv'
<1> USE DEF Inv
<1>1. /\ ~ up /\ up' /\ child.of = {} /\ pc = "idle"
      /\ procs' = {p \in procs : ~ (/\ p.of \in Found /\ rows[p.of].pid
                                    /\ p.attempt = rows[p.of].attempts)}
      /\ rows' = [k \in Keys |->
           IF k \in Found THEN [Finished(rows[k], "failed", now) EXCEPT !.cut = TRUE] ELSE rows[k]]
      /\ UNCHANGED <<child, todo, pc, files, done, lost>>
  BY DEF Start, MemoryIsStore
<1>2. \A k \in Keys : /\ rows'[k].attempts = rows[k].attempts
                      /\ rows'[k].status # "running"
                      /\ rows'[k] = rows[k] \/ rows'[k].status = "failed"
  <2> TAKE k \in Keys
  <2>1. rows[k] \in Row /\ Finished(rows[k], "failed", now) \in Row /\ now \in 0..Horizon
    BY RowsStayRows DEF Typed, Statuses
  <2>2. LET cut == [Finished(rows[k], "failed", now) EXCEPT !.cut = TRUE]
        IN cut.status = "failed" /\ cut.attempts = rows[k].attempts
    BY <2>1, RowFields DEF Row, Statuses
  <2> QED
    BY <1>1, <2>2 DEF Found
<1>3. MemoryIsStore' /\ OneRowRuns' /\ NoneUntried' /\ StartedWithin' /\ FileIsTrue'
  BY <1>1, <1>2 DEF MemoryIsStore, OneRowRuns, NoneUntried, StartedWithin, FileIsTrue
<1>3a. ToDoIsOpen'
  BY <1>1 DEF ToDoIsOpen, ToDo
<1>4. \A p \in procs : p.of \in Keys
  BY DEF Typed, Proc
<1>5. ProcsCounted'
  BY <1>1, <1>2, <1>4 DEF ProcsCounted, Attempt
<1>6. ProcsKnown'
  <2> \A p \in procs' : Attempt(p) \in lost
    BY <1>1, <1>4 DEF ProcsKnown, Found
  <2> QED
    BY <1>1 DEF ProcsKnown, Attempt
<1>7. OkIsTrue'
  <2>1. \A k \in Keys : Told(k) => Told(k)'
    <3> TAKE k \in Keys
    <3>1. rows'[k].attempts = rows[k].attempts
      BY <1>2
    <3>2. UNCHANGED <<done, lost>>
      BY <1>1
    <3> QED
      BY <3>1, <3>2 DEF Told
  <2> QED
    BY <1>2, <2>1 DEF OkIsTrue, Told
<1> QED
  BY <1>3, <1>3a, <1>5, <1>6, <1>7

\* A child writes its own result file, also after its House is gone.
LEMMA ChildWritesKeeps ==
    ASSUME Inv, Typed', NEW p \in procs, ChildWrites(p)
    PROVE  Inv'
<1> USE DEF Inv
<1> DEFINE new == [p EXCEPT !.wrote = TRUE]
<1>1. PICK result \in Outcomes :
        /\ files' = [files EXCEPT ![p.of] = result]
        /\ done' = IF result = "ok" THEN done \cup {Attempt(p)} ELSE done
  BY DEF ChildWrites
<1>2. procs' = (procs \ {p}) \cup {new} /\ UNCHANGED <<up, rows, child, todo, pc, lost>>
  BY DEF ChildWrites
<1>3. /\ p.of \in Keys /\ p.attempt \in Nat
      /\ new.of = p.of /\ new.attempt = p.attempt
  BY DEF Typed, Proc
<1>4. MemoryIsStore' /\ OneRowRuns' /\ ToDoIsOpen' /\ NoneUntried' /\ StartedWithin'
  BY <1>2 DEF MemoryIsStore, OneRowRuns, ToDoIsOpen, MayStart, NoneUntried, StartedWithin
<1> HIDE DEF new
<1>5. ProcsCounted'
  BY <1>2, <1>3 DEF ProcsCounted, Attempt
<1>6. ProcsKnown'
  BY <1>2, <1>3 DEF ProcsKnown, Attempt
<1>7. \A k \in Keys : Told(k) => Told(k)'
  BY <1>1, <1>2 DEF Told
<1>8. FileIsTrue'
  <2>1. result = "ok" => Told(p.of)'
    <3>1. p.attempt \in 0..rows[p.of].attempts
      BY <1>3, Counts DEF ProcsCounted
    <3>2. Attempt(p) \notin lost => p.attempt = rows[p.of].attempts
      BY DEF ProcsKnown
    <3>3. result = "ok" => <<p.of, p.attempt>> \in done'
      BY <1>1 DEF Attempt
    <3>4. CASE Attempt(p) \notin lost
      BY <1>2, <3>2, <3>3, <3>4 DEF Told
    <3>5. CASE Attempt(p) \in lost
      <4>1. <<p.of, p.attempt>> \in lost' /\ p.attempt \in 0..rows'[p.of].attempts
        BY <1>2, <3>1, <3>5 DEF Attempt
      <4> QED
        BY <3>3, <4>1 DEF Told
    <3> QED
      BY <3>4, <3>5
  <2>2. \A k \in Keys : files'[k] = "ok" => files[k] = "ok" \/ (k = p.of /\ result = "ok")
    BY <1>1, <1>3 DEF Typed
  <2> QED
    BY <1>2, <1>7, <2>1, <2>2 DEF FileIsTrue, Typed
<1>9. OkIsTrue'
  BY <1>1, <1>2 DEF OkIsTrue
<1> QED
  BY <1>4, <1>5, <1>6, <1>8, <1>9

\* What only looks, or moves the clock or the pause, and a child that ends.
LEMMA OthersKeep ==
    ASSUME Inv, Typed',
           Health \/ Pause \/ Tick \/ UNCHANGED vars \/ \E p \in procs : ChildEnds(p)
    PROVE  Inv'
<1> USE DEF Inv
<1>1. /\ UNCHANGED <<up, rows, child, todo, pc, files, done, lost>>
      /\ procs' \subseteq procs
  BY DEF Health, Pause, Tick, vars, ChildEnds
<1>2. /\ MemoryIsStore' /\ OneRowRuns' /\ ToDoIsOpen'
      /\ NoneUntried' /\ StartedWithin' /\ OkIsTrue'
  BY <1>1
  DEF MemoryIsStore, OneRowRuns, ToDoIsOpen, MayStart, NoneUntried, StartedWithin, OkIsTrue
<1>3. ProcsCounted' /\ ProcsKnown'
  BY <1>1 DEF ProcsCounted, ProcsKnown, Attempt
<1>4. FileIsTrue'
  BY <1>1 DEF FileIsTrue, Told
<1> QED
  BY <1>2, <1>3, <1>4

\* The first state has no rows and no children.
LEMMA InvInit == ASSUME Init PROVE Inv
<1>1. Typed
  BY TypeInit
<1>2. /\ up /\ child.of = {} /\ procs = {}
      /\ ToDo(todo) = {} /\ todo.run = {}
      /\ \A k \in Keys : rows[k].status = "none" /\ rows[k].attempts = 0
  BY DEF Init, NoRow, NoChild, Nothing, ToDo
<1> QED
  BY <1>1, <1>2, OpsJobsAssumption
  DEF Inv, MemoryIsStore, OneRowRuns, ToDoIsOpen, NoneUntried, StartedWithin, ProcsCounted,
      ProcsKnown, FileIsTrue, OkIsTrue

\* Every step keeps the invariant.
LEMMA InvStep == ASSUME Inv, [Next]_vars PROVE Inv'
<1>1. Typed'
  BY TypeStep DEF Inv
<1> QED
  BY <1>1, WalkKeeps, WriteDownKeeps, StartFirstKeeps, SpawnKeeps, SetPidKeeps, SettlesKeep, StopKeeps,
     StartKeeps, ChildWritesKeeps, OthersKeep DEF Next, HouseTick

\* The invariant holds in every state.
LEMMA InvAlways == Spec => []Inv
<1>1. Init => Inv
  BY InvInit
<1>2. Inv /\ [Next]_vars => Inv'
  BY InvStep
<1> QED
  BY <1>1, <1>2, PTL DEF Spec
-----------------------------------------------------------------------------
\* Every variable has its type, between two writes of a start there is a child to start, and
\* there is never more than one.
THEOREM TypeCorrect == Spec => []TypeOK
<1>1. Inv => TypeOK
  <2> SUFFICES ASSUME Inv PROVE TypeOK
    OBVIOUS
  <2>1. Cardinality(child.of) <= 1
    <3> \A k, l \in child.of : k = l
      BY DEF Inv, Typed
    <3> QED
      BY AtMostOne
  <2>2. {now, began} \subseteq 0..Horizon /\ child.of \subseteq Keys
    BY DEF Inv, Typed
  <2> QED
    BY <2>1, <2>2 DEF Inv, Typed, TypeOK
<1> QED
  BY <1>1, InvAlways, PTL

\* Ops keeps one child at a time over every stop of the House: only the children of a House
\* that stopped before it wrote their pid (store.set_pid) may run beside it.
THEOREM OneChildAtATime == Spec => []OneChild
<1>1. Inv => OneChild
  <2> SUFFICES ASSUME Inv PROVE OneChild
    OBVIOUS
  <2> DEFINE known == {p \in procs : Attempt(p) \notin lost}
  <2>1. \A p, q \in known : p = q
    <3> TAKE p, q \in known
    <3>1. p.of = q.of
      <4>1. p.of \in Keys /\ q.of \in Keys
        BY DEF Inv, Typed, Proc
      <4>2. CASE up
        BY <4>2 DEF Inv, Typed, ProcsKnown
      <4>3. CASE ~ up
        BY <4>1, <4>3 DEF Inv, OneRowRuns, ProcsKnown
      <4> QED
        BY <4>2, <4>3
    <3>2. Attempt(p) = Attempt(q)
      BY <3>1 DEF Inv, ProcsKnown, Attempt
    <3> QED
      BY <3>2 DEF Inv, ProcsCounted
  <2>2. Cardinality(known) <= 1
    BY <2>1, AtMostOne
  <2> QED
    BY <2>2 DEF OneChild
<1> QED
  BY <1>1, InvAlways, PTL

\* store.start counts every attempt before its child is spawned: a job that may act twice is
\* started once, any other no more than MAX_ATTEMPTS times, over every stop.
THEOREM AttemptsWithin == Spec => []StartedWithin
<1>1. Inv => StartedWithin
  BY DEF Inv
<1> QED
  BY <1>1, InvAlways, PTL

\* A receipt that says ok is of its own attempt, or of one whose pid was never written: the
\* result file is removed before the next attempt can write it.
THEOREM ReceiptIsTrue == Spec => []OkIsTrue
<1>1. Inv => OkIsTrue
  BY DEF Inv
<1> QED
  BY <1>1, InvAlways, PTL

\* What a receipt says of an occurrence that is over stands: no step of the House, of a
\* later House or of a child writes such a row again.
THEOREM ReceiptStands == Spec => FinalStays
<1> DEFINE Over(k) == rows[k].status \in {"ok", "skipped", "missed"}
           Step == \A k \in Keys : Over(k) => rows'[k] = rows[k]
<1>1. Inv /\ [Next]_vars => [Step]_vars
  <2> SUFFICES ASSUME Inv, Next, NEW k \in Keys, Over(k)
               PROVE  rows'[k] = rows[k]
    OBVIOUS
  <2> USE DEF Inv
  <2>1. CASE Walk \/ WriteDown \/ StartFirst
    <3>1. \A l \in ToDo(todo) : k # l
      BY DEF ToDoIsOpen, MayStart
    <3>2. CASE Walk
      BY <3>2 DEF Walk
    <3>3. CASE WriteDown
      <4> PICK l \in ToDo(todo), status \in {"skipped", "missed"} :
            rows' = [rows EXCEPT ![l] = Finished(@, status, todo.at)]
        BY <3>3, WriteDownWrites
      <4> QED
        BY <3>1 DEF Typed
    <3>4. CASE StartFirst
      <4> PICK l \in todo.run : rows' = [rows EXCEPT ![l] = Started(@)]
        BY <3>4, StartFirstStarts
      <4> QED
        BY <3>1 DEF Typed, ToDo
    <3> QED
      BY <2>1, <3>2, <3>3, <3>4
  <2>2. CASE Spawn
    BY <2>2 DEF Spawn
  <2>3. CASE SpawnFails \/ SetPid \/ PollKills \/ PollSettles
    <3>1. up /\ child.of # {}
      BY <2>3 DEF Typed, SpawnFails, SetPid, PollKills, PollSettles
    <3>2. TheChild \in Keys /\ k # TheChild
      BY <3>1, ChildIsOne DEF MemoryIsStore
    <3> QED
      BY <2>3, <3>2 DEF Typed, SpawnFails, SetPid, PollKills, PollSettles
  <2>4. CASE Start
    BY <2>4 DEF Typed, Start, Found
  <2>5. CASE Health \/ Stop \/ Pause \/ Tick \/ \E p \in procs : ChildWrites(p) \/ ChildEnds(p)
    BY <2>5 DEF Health, Stop, Pause, Tick, ChildWrites, ChildEnds
  <2> QED
    BY <2>1, <2>2, <2>3, <2>4, <2>5 DEF Next, HouseTick
<1> QED
  BY <1>1, InvAlways, PTL DEF Spec, FinalStays
===============================================================================
