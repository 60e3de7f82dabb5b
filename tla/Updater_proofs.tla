---------------------------- MODULE Updater_proofs ----------------------------
(***************************************************************************)
(* Proofs about the updater and the watchdog's processes, for any releases *)
(* and any number of faults: what the links name is on disk, two deploys   *)
(* of the updater are a train apart, and, where no drill runs, the links   *)
(* keep the promise of WayBack.                                            *)
(***************************************************************************)
EXTENDS Updater, FiniteSetTheorems, TLAPS

Deploying == {"started", "passed", "half", "promoted", "watching"}
Backing   == {"backing", "rolled", "cleared"}

Place == [at : Steps, rel : Ids \cup {None}, since : 0..Horizon]

(* Where each kind of process can be, and what its release is then. *)
Fits(p, d) ==
    \/ d.at = "off"
    \/ p = "updater" /\ d.rel \in Heads /\ d.at \in {"launched"} \cup Deploying \cup Backing
    \/ p = "owner" /\ d.rel \in Owned /\ d.at \in {"looked", "launched"} \cup Deploying \cup Backing
    \/ p = "operator" /\ \/ d.at \in {"looked", "launched"}
                         \/ d.rel \in Ids /\ d.at \in Backing
    \/ p = "drill" /\ d.rel \in Drills
                   /\ d.at \in {"waiting", "launched", "uncaught", "cleanup"} \cup Deploying \cup Backing
    \/ p = "recover" /\ \/ d.at = "launched"
                        \/ d.rel \in Drills /\ d.at \in {"repointed", "cleanup"} \cup Backing

DogsOK ==
    /\ dog \in [Procs -> Place]
    /\ \A p \in Procs : Fits(p, dog[p])
    /\ \A p, q \in Procs : dog[p].at \in Locked /\ dog[q].at \in Locked => p = q

DiskOK == DOMAIN disk \subseteq Ids /\ \A r \in DOMAIN disk : disk[r] \in Nat

(* A release about to be promoted is on disk, and not the current one; half *)
(* way, both links name the current one.                                    *)
Held(p) ==
    /\ dog[p].at \in {"passed", "half"} => OnDisk(dog[p].rel) /\ dog[p].rel # current
    /\ dog[p].at = "half" => previous = current

LinksOK ==
    /\ DiskOK
    /\ LinksStand
    /\ \A p \in Procs : Held(p)

(* From its launch to its promotion, a deploy of the updater is a train     *)
(* after the last one.                                                      *)
TrainOK ==
    dog["updater"].at \in {"launched", "started", "passed", "half", "promoted"} =>
       train.promoted = None \/ now >= train.promoted + Hours

RestOK ==
    /\ running \in Ids
    /\ marker \in [Drills -> [copyOf : Ids \cup {None}, previous : Ids \cup {None}]]
    /\ {pid, lockPid} \subseteq Procs \cup {None}
    /\ memory \in [launching : Heads \cup {None}, asked : BOOLEAN]
    /\ log \in [Heads -> [starts : Nat, verdicts : Seq({"refused", "failed", "promoted", "rolled_back"}),
                          backed : BOOLEAN, vetted : BOOLEAN]]
    /\ train \in [promoted : (0..Horizon) \cup {None}, open : (0..Horizon) \cup {None}]
    /\ now \in 0..Horizon

UpdaterInv == DogsOK /\ LinksOK /\ RestOK /\ TrainOK
-----------------------------------------------------------------------------
\* What the links name is a release.
LEMMA LinksAreIds ==
    ASSUME LinksOK
    PROVE  current \in Ids /\ previous \in Ids \cup {None}
BY DEF LinksOK, DiskOK, LinksStand, OnDisk

\* One process moves; it is under the lock after only if it was, or none is.
Moved(p, d) ==
    /\ dog' = [dog EXCEPT ![p] = d]
    /\ d \in Place /\ Fits(p, d)
    /\ d.at \in Locked => LockFree \/ dog[p].at \in Locked

\* A move of one process keeps who is where.
LEMMA MovedOK ==
    ASSUME DogsOK, NEW p \in Procs, NEW d, Moved(p, d)
    PROVE  DogsOK'
<1>1. /\ dog' = [dog EXCEPT ![p] = d] /\ d \in Place /\ Fits(p, d)
      /\ d.at \in Locked => LockFree \/ dog[p].at \in Locked
      /\ dog \in [Procs -> Place] /\ \A q \in Procs : Fits(q, dog[q])
  BY DEF Moved, DogsOK
<1>2. dog' \in [Procs -> Place] /\ dog'[p] = d /\ \A q \in Procs \ {p} : dog'[q] = dog[q]
  BY <1>1
<1>3. \A q \in Procs : Fits(q, dog[q])'
  BY <1>1, <1>2 DEF Fits
<1>4. ASSUME NEW q \in Procs, NEW s \in Procs, dog'[q].at \in Locked, dog'[s].at \in Locked
      PROVE  q = s
  BY <1>1, <1>2, <1>4 DEF DogsOK, LockFree
<1> QED
  BY <1>2, <1>3, <1>4 DEF DogsOK

\* What each process's place is, and what it is with the next step.
LEMMA PlaceTypes ==
    ASSUME DogsOK, NEW p \in Procs
    PROVE  /\ dog[p] \in Place /\ Fits(p, dog[p]) /\ Off \in Place /\ Fits(p, Off)
           /\ \A step \in Steps : /\ [dog[p] EXCEPT !.at = step] \in Place
                                  /\ [dog[p] EXCEPT !.at = step].at = step
                                  /\ [dog[p] EXCEPT !.at = step].rel = dog[p].rel
BY ReleasesAssumption DEF DogsOK, Place, Off, Fits, Steps

\* A process goes on to a step it may take with its release.
LEMMA GoesOK ==
    ASSUME DogsOK, NEW p \in Procs, NEW step \in Steps, Goes(p, step),
           \A d : d.rel = dog[p].rel /\ d.at = step => Fits(p, d),
           step \in Locked => LockFree \/ dog[p].at \in Locked
    PROVE  DogsOK' /\ dog' = [dog EXCEPT ![p].at = step]
<1>1. PICK d : d = [dog[p] EXCEPT !.at = step]
  OBVIOUS
<1>2. d \in Place /\ d.rel = dog[p].rel /\ d.at = step
  BY <1>1, PlaceTypes
<1>3. dog' = [dog EXCEPT ![p] = d] /\ dog' = [dog EXCEPT ![p].at = step]
  BY <1>1 DEF Goes
<1>4. Moved(p, d)
  BY <1>2, <1>3 DEF Moved
<1> QED
  BY <1>3, <1>4, MovedOK

\* A process ends.
LEMMA EndsOK ==
    ASSUME DogsOK, NEW p \in Procs, Ends(p)
    PROVE  DogsOK' /\ dog' = [dog EXCEPT ![p] = Off]
<1>1. dog' = [dog EXCEPT ![p] = Off] /\ Off \in Place /\ Fits(p, Off) /\ Off.at \notin Locked
  BY PlaceTypes DEF Ends, Off, Locked
<1>2. Moved(p, Off)
  BY <1>1 DEF Moved
<1> QED
  BY <1>1, <1>2, MovedOK

\* A deploy is over: its process ends, or the drill's cleanup is left.
LEMMA OverOK ==
    ASSUME DogsOK, NEW p \in Procs, Over(p), dog[p].at \in Locked
    PROVE  DogsOK' /\ (dog' = [dog EXCEPT ![p] = Off] \/ dog' = [dog EXCEPT ![p].at = "cleanup"])
<1>1. CASE p \in {"drill", "recover"}
  <2>1. Goes(p, "cleanup") /\ "cleanup" \in Steps /\ "cleanup" \notin Locked
    BY <1>1 DEF Over, Steps, Locked
  <2>2. dog[p].rel \in Drills
    BY <1>1, PlaceTypes DEF Fits, Locked
  <2>3. \A d : d.rel = dog[p].rel /\ d.at = "cleanup" => Fits(p, d)
    BY <1>1, <2>2 DEF Fits
  <2> QED
    BY <2>1, <2>3, GoesOK
<1>2. CASE p \notin {"drill", "recover"}
  <2>1. Ends(p)
    BY <1>2 DEF Over
  <2> QED
    BY <2>1, EndsOK
<1> QED
  BY <1>1, <1>2

\* `current` names a release.
LEMMA LinkTypes == LinksOK => current \in Ids
BY LinksAreIds

\* What the processes do, one of them at a time.
LEMMA StepsKeepDogs ==
    ASSUME DogsOK, LinksOK, RestOK, NEW p \in Procs, Step(p)
    PROVE  DogsOK'
<1>0. dog[p] \in Place /\ Fits(p, dog[p]) /\ current \in Ids
  BY PlaceTypes, LinkTypes
<1>1. CASE Busy(p)
  <2>1. CASE p = "drill" /\ ~At(p, "cleanup")
    <3>1. Goes(p, "cleanup") /\ dog[p].at \in {"launched", "uncaught"}
      BY <1>1, <2>1, <1>0 DEF Busy, At, Fits, Deploying, Backing
    <3>2. \A d : d.rel = dog[p].rel /\ d.at = "cleanup" => Fits(p, d)
      BY <1>0, <2>1, <3>1 DEF Fits
    <3> QED
      BY <3>1, <3>2, GoesOK DEF Steps, Locked
  <2>2. CASE ~ (p = "drill" /\ ~At(p, "cleanup"))
    BY <1>1, <2>2, EndsOK DEF Busy
  <2> QED
    BY <2>1, <2>2
<1>2. CASE StartDeploy(p)
  <2>1. PICK d : d = [dog[p] EXCEPT !.at = "started", !.since = now]
    OBVIOUS
  <2>2. /\ p \in {"updater", "owner", "drill"} /\ dog[p].at = "launched" /\ LockFree
        /\ dog' = [dog EXCEPT ![p] = d]
    BY <1>2, <2>1 DEF StartDeploy, At
  <2>3. d \in Place /\ d.at = "started" /\ d.rel = dog[p].rel
    BY <1>0, <2>1 DEF Place, RestOK, Steps, Locked
  <2>4. Fits(p, d)
    BY <1>0, <2>2, <2>3 DEF Fits, Deploying
  <2> QED
    BY <2>2, <2>3, <2>4, MovedOK DEF Moved
<1>3. CASE RefusedUnstaged(p) \/ PromoteFails(p) \/ RefusedByCanary(p)
  BY <1>3, OverOK DEF RefusedUnstaged, PromoteFails, RefusedByCanary, Refused, At, Locked
<1>4. CASE CanaryPasses(p)
  <2>1. dog[p].at = "started" /\ Goes(p, "passed")
    BY <1>4 DEF CanaryPasses, At
  <2>2. \A d : d.rel = dog[p].rel /\ d.at = "passed" => Fits(p, d)
    BY <1>0, <2>1 DEF Fits, Deploying, Backing
  <2> QED
    BY <2>1, <2>2, GoesOK DEF Steps, Locked
<1>5. CASE PointPrevious(p)
  <2>1. dog[p].at = "passed" /\ Goes(p, "half")
    BY <1>5 DEF PointPrevious, At
  <2>2. \A d : d.rel = dog[p].rel /\ d.at = "half" => Fits(p, d)
    BY <1>0, <2>1 DEF Fits, Deploying, Backing
  <2> QED
    BY <2>1, <2>2, GoesOK DEF Steps, Locked
<1>6. CASE PointCurrent(p)
  <2>1. dog[p].at = "half" /\ Goes(p, "promoted")
    BY <1>6 DEF PointCurrent, At
  <2>2. \A d : d.rel = dog[p].rel /\ d.at = "promoted" => Fits(p, d)
    BY <1>0, <2>1 DEF Fits, Deploying, Backing
  <2> QED
    BY <2>1, <2>2, GoesOK DEF Steps, Locked
<1>7. CASE RestartIntoIt(p) \/ WatchGoesBad(p)
  <2>1. /\ dog[p].at \in {"promoted", "watching"}
        /\ Goes(p, "watching") \/ Goes(p, "backing")
    BY <1>7 DEF RestartIntoIt, WatchGoesBad, At
  <2>2. \A d : d.rel = dog[p].rel /\ d.at \in {"watching", "backing"} => Fits(p, d)
    BY <1>0, <2>1 DEF Fits, Deploying, Backing
  <2>3. {"watching", "backing"} \subseteq Steps /\ dog[p].at \in Locked
    BY <2>1 DEF Steps, Locked
  <2> QED
    BY <2>1, <2>2, <2>3, GoesOK
<1>8. CASE WatchIsOver(p)
  <2>1. dog[p].at = "watching" /\ (IF p = "drill" THEN Goes(p, "uncaught") ELSE Ends(p))
    BY <1>8 DEF WatchIsOver, At
  <2>2. ASSUME p = "drill" PROVE \A d : d.rel = dog[p].rel /\ d.at = "uncaught" => Fits(p, d)
    BY <1>0, <2>1, <2>2 DEF Fits
  <2>3. "uncaught" \in Steps /\ "uncaught" \notin Locked
    BY DEF Steps, Locked
  <2> QED
    BY <2>1, <2>2, <2>3, GoesOK, EndsOK
<1>9. CASE StartRollback(p)
  <2>1. PICK d : d = [dog[p] EXCEPT !.at = "backing",
                                    !.rel = IF p = "operator" THEN current ELSE dog[p].rel]
    OBVIOUS
  <2>2. /\ dog' = [dog EXCEPT ![p] = d] /\ LockFree
        /\ p = "operator" \/ (p = "recover" /\ dog[p].at = "repointed")
    BY <1>9, <2>1 DEF StartRollback, At
  <2>3. /\ d \in Place /\ d.at = "backing"
        /\ d.rel = IF p = "operator" THEN current ELSE dog[p].rel
    BY <1>0, <2>1 DEF Place, Steps, Locked
  <2>4. Fits(p, d)
    BY <1>0, <2>2, <2>3 DEF Fits, Backing, Deploying
  <2> QED
    BY <2>2, <2>3, <2>4, MovedOK DEF Moved
<1>10. CASE NothingBack(p) \/ RestartBack(p)
  BY <1>10, OverOK DEF NothingBack, RestartBack, At, Locked
<1>11. CASE RollCurrent(p)
  <2>1. dog[p].at = "backing" /\ Goes(p, "rolled")
    BY <1>11 DEF RollCurrent, At
  <2>2. \A d : d.rel = dog[p].rel /\ d.at = "rolled" => Fits(p, d)
    BY <1>0, <2>1 DEF Fits, Deploying, Backing
  <2> QED
    BY <2>1, <2>2, GoesOK DEF Steps, Locked
<1>12. CASE ClearPrevious(p)
  <2>1. dog[p].at = "rolled" /\ Goes(p, "cleared")
    BY <1>12 DEF ClearPrevious, At
  <2>2. \A d : d.rel = dog[p].rel /\ d.at = "cleared" => Fits(p, d)
    BY <1>0, <2>1 DEF Fits, Deploying, Backing
  <2> QED
    BY <2>1, <2>2, GoesOK DEF Steps, Locked
<1>13. CASE p = "drill" /\ (DrillGivesUp \/ DrillGoes \/ DrillRollsBack)
  <2>1. CASE DrillGivesUp
    BY <1>13, <2>1, EndsOK DEF DrillGivesUp
  <2>2. CASE DrillGoes
    <3>1. dog[p].at = "waiting" /\ Goes(p, "launched")
      BY <1>13, <2>2 DEF DrillGoes, At
    <3>2. \A d : d.rel = dog[p].rel /\ d.at = "launched" => Fits(p, d)
      BY <1>0, <1>13, <3>1 DEF Fits
    <3> QED
      BY <3>1, <3>2, GoesOK DEF Steps, Locked
  <2>3. CASE DrillRollsBack
    <3>1. /\ dog[p].at = "uncaught"
          /\ Goes(p, "cleanup") \/ (Goes(p, "backing") /\ LockFree)
      BY <1>13, <2>3 DEF DrillRollsBack, At
    <3>2. \A d : d.rel = dog[p].rel /\ d.at \in {"cleanup", "backing"} => Fits(p, d)
      BY <1>0, <1>13, <3>1 DEF Fits, Backing
    <3>3. {"cleanup", "backing"} \subseteq Steps /\ "cleanup" \notin Locked
      BY DEF Steps, Locked
    <3> QED
      BY <3>1, <3>2, <3>3, GoesOK
  <2> QED
    BY <1>13, <2>1, <2>2, <2>3
<1>14. CASE p = "recover" /\ (RecoverRestarts \/ RecoverRepoints)
  <2>1. CASE RecoverRestarts
    BY <1>14, <2>1, EndsOK DEF RecoverRestarts
  <2>2. CASE RecoverRepoints
    <3>1. PICK d : d = [dog[p] EXCEPT !.at = "repointed", !.rel = current]
      OBVIOUS
    <3>2. dog' = [dog EXCEPT ![p] = d] /\ current \in Drills
      BY <1>14, <2>2, <3>1 DEF RecoverRepoints
    <3>3. d \in Place /\ d.at = "repointed" /\ d.rel = current
      BY <1>0, <3>1 DEF Place, Steps
    <3>4. Fits(p, d) /\ d.at \notin Locked
      BY <1>14, <3>2, <3>3 DEF Fits, Locked
    <3> QED
      BY <3>2, <3>3, <3>4, MovedOK DEF Moved
  <2> QED
    BY <1>14, <2>1, <2>2
<1>15. CASE Cleanup(p)
  BY <1>15, EndsOK DEF Cleanup
<1> QED
  BY <1>1, <1>2, <1>3, <1>4, <1>5, <1>6, <1>7, <1>8, <1>9, <1>10, <1>11, <1>12, <1>13, <1>14,
     <1>15 DEF Step

\* Launches, faults and time.
LEMMA OthersKeepDogs ==
    ASSUME DogsOK, LinksOK, RestOK, [Next]_vars, \A p \in Procs : ~ Step(p)
    PROVE  DogsOK'
<1>1. ASSUME NEW p \in {"owner", "operator"}, OwnerLaunches(p) PROVE DogsOK'
  <2>1. p \in Procs /\ dog[p].at = "looked" /\ Goes(p, "launched") /\ Fits(p, dog[p])
    BY <1>1, PlaceTypes DEF OwnerLaunches, At, Procs
  <2>2. \A d : d.rel = dog[p].rel /\ d.at = "launched" => Fits(p, d)
    BY <1>1, <2>1 DEF Fits, Deploying, Backing
  <2> QED
    BY <2>1, <2>2, GoesOK DEF Steps, Locked
<1>2. ASSUME NEW p \in {"owner", "operator"}, NEW r \in Owned \cup {None},
             p = "owner" => r \in Owned, OwnerLooks(p, r)
      PROVE  DogsOK'
  <2>1. PICK d : d = [dog[p] EXCEPT !.at = "looked", !.rel = r]
    OBVIOUS
  <2>2. p \in Procs /\ dog' = [dog EXCEPT ![p] = d] /\ dog[p] \in Place
    BY <1>2, <2>1, PlaceTypes DEF OwnerLooks, Procs
  <2>3. d \in Place /\ d.at = "looked" /\ d.rel = r
    BY <2>1, <2>2 DEF Place, Steps, Ids
  <2>4. Fits(p, d) /\ d.at \notin Locked
    BY <1>2, <2>3 DEF Fits, Locked
  <2> QED
    BY <2>2, <2>3, <2>4, MovedOK DEF Moved
<1>3. ASSUME NEW r \in Drills, DrillBegins(r) PROVE DogsOK'
  <2>1. PICK d : d = [dog["drill"] EXCEPT !.at = "waiting", !.rel = r]
    OBVIOUS
  <2>2. "drill" \in Procs /\ dog' = [dog EXCEPT !["drill"] = d] /\ dog["drill"] \in Place
    BY <1>3, <2>1, PlaceTypes DEF DrillBegins, Procs
  <2>3. d \in Place /\ d.at = "waiting" /\ d.rel = r
    BY <2>1, <2>2 DEF Place, Steps, Ids
  <2>4. Fits("drill", d) /\ d.at \notin Locked
    BY <2>3 DEF Fits, Locked
  <2> QED
    BY <2>2, <2>3, <2>4, MovedOK DEF Moved
<1>4. CASE HouseRecovers
  <2>1. PICK d : d = [dog["recover"] EXCEPT !.at = "launched"]
    OBVIOUS
  <2>2. "recover" \in Procs /\ dog' = [dog EXCEPT !["recover"] = d] /\ dog["recover"] \in Place
    BY <1>4, <2>1, PlaceTypes DEF HouseRecovers, Procs
  <2>3. d \in Place /\ d.at = "launched"
    BY <2>1, <2>2 DEF Place, Steps
  <2>4. Fits("recover", d) /\ d.at \notin Locked
    BY <2>3 DEF Fits, Locked
  <2> QED
    BY <2>2, <2>3, <2>4, MovedOK DEF Moved
<1>5. ASSUME NEW p \in Procs, Dies(p) PROVE DogsOK'
  BY <1>5, EndsOK DEF Dies
<1>6. CASE BoxRestarts
  <2>1. \A p \in Procs : dog'[p] \in {dog[p], Off}
    BY <1>6 DEF BoxRestarts
  <2>2. dog' \in [Procs -> Place]
    <3>1. DOMAIN dog' = Procs /\ dog' = [p \in Procs |-> dog'[p]]
      BY <1>6 DEF BoxRestarts
    <3> QED
      BY <2>1, <3>1, PlaceTypes
  <2>3. \A p \in Procs : Fits(p, dog[p])'
    BY <2>1, PlaceTypes DEF Fits, Off
  <2>4. \A p \in Procs : dog'[p].at \in Locked => dog[p].at \in Locked
    BY <2>1 DEF Off, Locked
  <2> QED
    BY <2>2, <2>3, <2>4 DEF DogsOK
<1>7. CASE Launches
  <2>1. PICK d : d = [dog["updater"] EXCEPT !.at = "launched", !.rel = memory.launching]
    OBVIOUS
  <2>2. /\ "updater" \in Procs /\ dog' = [dog EXCEPT !["updater"] = d] /\ dog["updater"] \in Place
        /\ memory.launching \in Heads
    <3>1. "updater" \in Procs /\ dog["updater"] \in Place
      BY PlaceTypes DEF Procs
    <3>2. memory.launching \in Heads
      BY <1>7 DEF Launches, RestOK
    <3>3. dog' = [dog EXCEPT !["updater"] = d]
      BY <1>7, <2>1 DEF Launches
    <3> QED
      BY <3>1, <3>2, <3>3
  <2>3. d \in Place /\ d.at = "launched" /\ d.rel = memory.launching
    BY <2>1, <2>2 DEF Place, Steps, Ids
  <2>4. Fits("updater", d) /\ d.at \notin Locked
    BY <2>2, <2>3 DEF Fits, Locked
  <2> QED
    BY <2>2, <2>3, <2>4, MovedOK DEF Moved
<1>8. CASE HouseRestarts \/ Tick \/ DropsLaunch \/ UNCHANGED vars
           \/ \E r \in Heads : RefusesHead(r) \/ PassesHead(r)
  <2>1. dog' = dog
    BY <1>8 DEF HouseRestarts, Tick, DropsLaunch, RefusesHead, PassesHead, vars
  <2> QED
    BY <2>1 DEF DogsOK, Fits
<1> QED
  BY <1>1, <1>2, <1>3, <1>4, <1>5, <1>6, <1>7, <1>8 DEF Next, ReleasesNext
-----------------------------------------------------------------------------
\* No link moves and nothing goes from the disk, and no process comes to a promotion.
LEMMA LinksRest ==
    ASSUME DogsOK, LinksOK, UNCHANGED <<current, previous, disk>>,
           \A p \in Procs : dog'[p].at \in {"passed", "half"} => dog'[p] = dog[p]
    PROVE  LinksOK'
<1>1. current' = current /\ previous' = previous /\ disk' = disk
  OBVIOUS
<1>2. DiskOK' /\ LinksStand'
  BY <1>1 DEF LinksOK, DiskOK, LinksStand, OnDisk
<1>3. \A p \in Procs : Held(p)'
  BY <1>1 DEF LinksOK, Held, OnDisk
<1> QED
  BY <1>2, <1>3 DEF LinksOK

\* Nobody is about to promote when another process is under the lock.
LEMMA Alone ==
    ASSUME DogsOK, NEW p \in Procs, dog[p].at \in Locked, NEW q \in Procs, q # p
    PROVE  dog[q].at \notin Locked
BY DEF DogsOK

\* Staging keeps what is on disk, and adds the release.
LEMMA StagedOK ==
    ASSUME LinksOK, NEW r \in Ids, disk' = Staged(r)
    PROVE  DiskOK' /\ OnDisk(r)' /\ \A s : OnDisk(s) => OnDisk(s)'
<1>1. CASE OnDisk(r)
  BY <1>1 DEF LinksOK, DiskOK, Staged, OnDisk
<1>2. CASE ~ OnDisk(r)
  <2> DEFINE S == DOMAIN disk \cup {r}
             f == [s \in S |-> IF s = r THEN 0 ELSE disk[s] + 1]
  <2>1. disk' = f
    BY <1>2 DEF Staged
  <2>2. DOMAIN disk' = S
    BY <2>1
  <2>3. \A s \in S : disk'[s] \in Nat
    BY <2>1 DEF LinksOK, DiskOK
  <2> QED
    BY <2>2, <2>3 DEF LinksOK, DiskOK, OnDisk
<1> QED
  BY <1>1, <1>2

\* Less is left on disk, but what the links name.
LEMMA LessOK ==
    ASSUME LinksOK, NEW S \in SUBSET DOMAIN disk, disk' = Restrict(disk, S)
    PROVE  DiskOK' /\ \A s : OnDisk(s)' <=> s \in S
BY DEF LinksOK, DiskOK, Restrict, OnDisk

\* A step under the lock that does not come to a promotion leaves none under way.
LEMMA NoneHeld ==
    ASSUME DogsOK, NEW p \in Procs, dog[p].at \in Locked,
           NEW step \in Steps \ {"passed", "half"},
           \/ dog' = [dog EXCEPT ![p].at = step] 
           \/ dog' = [dog EXCEPT ![p] = Off]
    PROVE  \A q \in Procs : dog'[q].at \notin {"passed", "half"}
<1> SUFFICES ASSUME NEW q \in Procs PROVE dog'[q].at \notin {"passed", "half"}
  OBVIOUS
<1>1. CASE q = p
  BY <1>1, PlaceTypes DEF Off, DogsOK, Place
<1>2. CASE q # p
  <2>1. dog'[q] = dog[q]
    BY <1>2 DEF DogsOK
  <2>2. dog[q].at \notin Locked
    BY <1>2, Alone
  <2> QED
    BY <2>1, <2>2 DEF Locked
<1> QED
  BY <1>1, <1>2

\* A release is staged, and its canary passed or not.
LEMMA CanaryKeeps ==
    ASSUME DogsOK, LinksOK, NEW p \in Procs, RefusedByCanary(p) \/ CanaryPasses(p)
    PROVE  LinksOK'
<1>1. dog[p].at = "started" /\ dog[p].rel # current /\ disk' = Staged(dog[p].rel)
      /\ current' = current /\ previous' = previous
  BY DEF RefusedByCanary, CanaryPasses, Refused, At, links
<1>2. dog[p].rel \in Ids /\ dog[p].at \in Locked
  BY <1>1, PlaceTypes DEF Fits, Deploying, Backing, Ids, Locked
<1>3. DiskOK' /\ dog[p].rel \in DOMAIN disk' /\ \A s : OnDisk(s) => OnDisk(s)'
  <2>1. PICK r \in Ids : r = dog[p].rel
    BY <1>2
  <2>2. disk' = Staged(r)
    BY <1>1, <2>1
  <2>3. DiskOK' /\ OnDisk(r)' /\ \A s : OnDisk(s) => OnDisk(s)'
    BY <2>2, StagedOK
  <2> QED
    BY <2>1, <2>3 DEF OnDisk
<1>4. LinksStand'
  BY <1>1, <1>3 DEF LinksOK, LinksStand
<1>5. \A q \in Procs : Held(q)'
  <2>1. CASE RefusedByCanary(p)
    <3>1. dog' = [dog EXCEPT ![p] = Off] \/ dog' = [dog EXCEPT ![p].at = "cleanup"]
      BY <1>2, <2>1, OverOK DEF RefusedByCanary, Refused
    <3>2. \A q \in Procs : dog'[q].at \notin {"passed", "half"}
      BY <1>2, <3>1, NoneHeld DEF Steps
    <3> QED
      BY <3>2 DEF Held
  <2>2. CASE CanaryPasses(p)
    <3>1. dog' = [dog EXCEPT ![p].at = "passed"]
      BY <2>2 DEF CanaryPasses, Goes
    <3>2. dog'[p].at = "passed" /\ dog'[p].rel = dog[p].rel
      BY <3>1, PlaceTypes DEF DogsOK, Place
    <3>3. Held(p)'
      BY <1>1, <1>3, <3>2 DEF Held, OnDisk
    <3>4. ASSUME NEW q \in Procs, q # p PROVE Held(q)'
      <4>1. dog'[q] = dog[q] /\ dog[q].at \notin Locked
        BY <1>2, <3>1, <3>4, Alone DEF DogsOK
      <4> QED
        BY <4>1 DEF Held, Locked
    <3> QED
      BY <3>3, <3>4
  <2> QED
    BY <2>1, <2>2
<1> QED
  BY <1>3, <1>4, <1>5 DEF LinksOK

\* promote, and rollback, a link at a time.
LEMMA PointsKeep ==
    ASSUME DogsOK, LinksOK, NEW p \in Procs,
           PointPrevious(p) \/ PointCurrent(p) \/ RollCurrent(p) \/ ClearPrevious(p)
    PROVE  LinksOK'
<1>1. /\ disk' = disk /\ dog[p].at \in {"passed", "half", "backing", "rolled"}
      /\ dog[p].at \in Locked /\ DogsOK
  BY DEF PointPrevious, PointCurrent, RollCurrent, ClearPrevious, At, Locked
<1>2. LinksStand /\ Held(p) /\ DiskOK
  BY DEF LinksOK
<1>3. DiskOK'
  BY <1>1, <1>2 DEF DiskOK
<1>4. CASE PointPrevious(p)
  <2>1. /\ dog[p].at = "passed" /\ previous' = current /\ current' = current
        /\ dog' = [dog EXCEPT ![p].at = "half"]
    BY <1>4 DEF PointPrevious, At, Goes
  <2>2. LinksStand'
    BY <1>1, <1>2, <2>1 DEF LinksStand, OnDisk
  <2>3. dog'[p].at = "half" /\ dog'[p].rel = dog[p].rel
    BY <2>1, PlaceTypes DEF DogsOK, Place
  <2>4. Held(p)'
    BY <1>1, <1>2, <2>1, <2>3 DEF Held, OnDisk
  <2>5. ASSUME NEW q \in Procs, q # p PROVE Held(q)'
    <3>1. dog'[q] = dog[q] /\ dog[q].at \notin Locked
      BY <1>1, <2>1, <2>5, Alone DEF DogsOK
    <3> QED
      BY <3>1 DEF Held, Locked
  <2> QED
    BY <1>3, <2>2, <2>4, <2>5 DEF LinksOK
<1>5. CASE PointCurrent(p)
  <2>1. /\ dog[p].at = "half" /\ previous' = previous /\ current' = dog[p].rel
        /\ dog' = [dog EXCEPT ![p].at = "promoted"]
    BY <1>5 DEF PointCurrent, At, Goes
  <2>2. LinksStand'
    BY <1>1, <1>2, <2>1 DEF LinksStand, OnDisk, Held
  <2>3. \A q \in Procs : dog'[q].at \notin {"passed", "half"}
    BY <1>1, <2>1, NoneHeld DEF Steps, Locked
  <2> QED
    BY <1>3, <2>2, <2>3 DEF LinksOK, Held
<1>6. CASE RollCurrent(p)
  <2>1. /\ previous # None /\ previous' = previous /\ current' = previous
        /\ dog' = [dog EXCEPT ![p].at = "rolled"]
    BY <1>6 DEF RollCurrent, At, Goes
  <2>2. LinksStand'
    BY <1>1, <1>2, <2>1 DEF LinksStand, OnDisk
  <2>3. \A q \in Procs : dog'[q].at \notin {"passed", "half"}
    BY <1>1, <2>1, NoneHeld DEF Steps, Locked
  <2> QED
    BY <1>3, <2>2, <2>3 DEF LinksOK, Held
<1>7. CASE ClearPrevious(p)
  <2>1. /\ previous' = None /\ current' = current
        /\ dog' = [dog EXCEPT ![p].at = "cleared"]
    BY <1>7 DEF ClearPrevious, At, Goes
  <2>2. LinksStand'
    BY <1>1, <1>2, <2>1 DEF LinksStand, OnDisk
  <2>3. \A q \in Procs : dog'[q].at \notin {"passed", "half"}
    BY <1>1, <2>1, NoneHeld DEF Steps, Locked
  <2> QED
    BY <1>3, <2>2, <2>3 DEF LinksOK, Held
<1> QED
  BY <1>4, <1>5, <1>6, <1>7

\* prune.
LEMMA PruneKeeps ==
    ASSUME DogsOK, LinksOK, NEW p \in Procs, WatchIsOver(p)
    PROVE  LinksOK'
<1>1. /\ dog[p].at = "watching" /\ current' = current /\ previous' = previous
      /\ disk' = disk \/ disk' = Pruned
      /\ dog' = [dog EXCEPT ![p].at = "uncaught"] \/ dog' = [dog EXCEPT ![p] = Off]
  BY DEF WatchIsOver, At, links, Goes, Ends
<1>2. \A q \in Procs : dog'[q].at \notin {"passed", "half"}
  BY <1>1, NoneHeld DEF Steps, Locked
<1>3. DiskOK' /\ LinksStand'
  <2>1. CASE disk' = disk
    BY <1>1, <2>1 DEF LinksOK, DiskOK, LinksStand, OnDisk
  <2>2. CASE disk' = Pruned
    <3>1. PICK S : S = DOMAIN disk \cap (Newest \cup {current, previous})
      OBVIOUS
    <3>2. DiskOK' /\ \A s : OnDisk(s)' <=> s \in S
      BY <2>2, <3>1, LessOK DEF Pruned
    <3> QED
      BY <1>1, <3>1, <3>2 DEF LinksOK, LinksStand, OnDisk
  <2> QED
    BY <1>1, <2>1, <2>2
<1> QED
  BY <1>2, <1>3 DEF LinksOK, Held

\* The drill's cleanup, and its recovery.
LEMMA DrillsKeep ==
    ASSUME DogsOK, LinksOK, NEW p \in Procs, Cleanup(p) \/ (p = "recover" /\ RecoverRepoints)
    PROVE  LinksOK'
<1>0. LockFree /\ current' = current
  BY DEF Cleanup, RecoverRepoints
<1>1. \A q \in Procs : dog'[q].at \notin {"passed", "half"}
  <2> SUFFICES ASSUME NEW q \in Procs PROVE dog'[q].at \notin {"passed", "half"}
    OBVIOUS
  <2>1. dog[q].at \notin Locked /\ dog \in [Procs -> Place] /\ dog[q] \in Place
    BY <1>0 DEF LockFree, DogsOK
  <2>2. CASE Cleanup(p)
    <3>1. dog' = [dog EXCEPT ![p] = Off]
      BY <2>2 DEF Cleanup, Ends
    <3> QED
      BY <2>1, <3>1 DEF Off, Locked
  <2>3. CASE p = "recover" /\ RecoverRepoints
    <3>1. PICK d : d = [dog[p] EXCEPT !.at = "repointed", !.rel = current]
      OBVIOUS
    <3>2. dog' = [dog EXCEPT ![p] = d] /\ d.at = "repointed"
      <4>1. dog' = [dog EXCEPT ![p] = d]
        BY <2>3, <3>1 DEF RecoverRepoints
      <4>2. dog[p] \in Place
        BY PlaceTypes
      <4> QED
        BY <3>1, <4>1, <4>2 DEF Place
    <3> QED
      BY <2>1, <3>2 DEF Locked
  <2> QED
    BY <2>2, <2>3
<1>2. CASE Cleanup(p)
  <2>1. PICK r : r = dog[p].rel
    OBVIOUS
  <2>2. /\ previous' = WayBackOf(r)
        /\ disk' = IF r \in {current, previous'} THEN disk ELSE Restrict(disk, DOMAIN disk \ {r})
    BY <1>2, <2>1 DEF Cleanup
  <2>3. previous' # None => OnDisk(previous')
    BY <2>2 DEF WayBackOf, LinksOK, LinksStand
  <2>4. CASE disk' = disk
    BY <1>0, <1>1, <2>3, <2>4 DEF LinksOK, DiskOK, LinksStand, OnDisk, Held
  <2>5. CASE r \notin {current, previous'} /\ disk' = Restrict(disk, DOMAIN disk \ {r})
    <3>1. PICK S : S = DOMAIN disk \ {r}
      OBVIOUS
    <3>2. DiskOK' /\ \A s : OnDisk(s)' <=> s \in S
      BY <2>5, <3>1, LessOK
    <3>3. LinksStand'
      BY <1>0, <2>3, <2>5, <3>1, <3>2 DEF LinksOK, LinksStand, OnDisk
    <3> QED
      BY <1>1, <3>2, <3>3 DEF LinksOK, Held
  <2> QED
    BY <2>2, <2>4, <2>5
<1>3. CASE p = "recover" /\ RecoverRepoints
  <2>1. /\ disk' = disk
        /\ previous' = previous \/ OnDisk(previous')
    BY <1>3 DEF RecoverRepoints
  <2> QED
    BY <1>0, <1>1, <2>1 DEF LinksOK, DiskOK, LinksStand, OnDisk, Held
<1> QED
  BY <1>2, <1>3

\* A step moves one process, whoever waits.
LEMMA OnlyOneMoves ==
    ASSUME DogsOK, NEW p \in Procs, Step(p), NEW q \in Procs \ {p}
    PROVE  dog'[q] = dog[q]
<1>0. DOMAIN dog = Procs
  BY DEF DogsOK
<1>1. CASE \/ Busy(p) \/ StartDeploy(p) \/ RefusedUnstaged(p) \/ RefusedByCanary(p)
           \/ CanaryPasses(p) \/ PromoteFails(p)
  BY <1>0, <1>1 DEF Busy, StartDeploy, RefusedUnstaged, PromoteFails, RefusedByCanary,
     CanaryPasses, Refused, Over,
     Ends, Goes
<1>2. CASE PointPrevious(p) \/ PointCurrent(p) \/ RestartIntoIt(p) \/ WatchGoesBad(p) \/ WatchIsOver(p)
  BY <1>0, <1>2 DEF PointPrevious, PointCurrent, RestartIntoIt, WatchGoesBad, WatchIsOver, Ends, Goes
<1>3. CASE StartRollback(p) \/ NothingBack(p) \/ RollCurrent(p) \/ ClearPrevious(p) \/ RestartBack(p)
  BY <1>0, <1>3 DEF StartRollback, NothingBack, RollCurrent, ClearPrevious, RestartBack, Over, Ends, Goes
<1>4. CASE Cleanup(p) \/ (p = "drill" /\ (DrillGivesUp \/ DrillGoes \/ DrillRollsBack))
           \/ (p = "recover" /\ (RecoverRestarts \/ RecoverRepoints))
  BY <1>0, <1>4 DEF Cleanup, DrillGivesUp, DrillGoes, DrillRollsBack, RecoverRestarts, RecoverRepoints,
     Ends, Goes
<1> QED
  BY <1>1, <1>2, <1>3, <1>4 DEF Step

\* A process comes to "passed" by its canary, and to "half" by pointing `previous`.
LEMMA StepsKeepLinks ==
    ASSUME DogsOK, LinksOK, NEW p \in Procs, Step(p)
    PROVE  LinksOK'
<1>0. dog[p] \in Place /\ DOMAIN dog = Procs
  BY PlaceTypes DEF DogsOK
<1> DEFINE Quiet == /\ UNCHANGED <<current, previous, disk>>
                    /\ dog'[p].at \notin {"passed", "half"}
<1>1. ASSUME Quiet PROVE LinksOK'
  BY <1>1, OnlyOneMoves, LinksRest
<1>2. CASE RefusedByCanary(p) \/ CanaryPasses(p)
  BY <1>2, CanaryKeeps
<1>3. CASE PointPrevious(p) \/ PointCurrent(p) \/ RollCurrent(p) \/ ClearPrevious(p)
  BY <1>3, PointsKeep
<1>4. CASE WatchIsOver(p)
  BY <1>4, PruneKeeps
<1>5. CASE Cleanup(p) \/ (p = "recover" /\ RecoverRepoints)
  BY <1>5, DrillsKeep
<1>6. CASE \/ Busy(p) \/ StartDeploy(p) \/ RefusedUnstaged(p) \/ PromoteFails(p)
           \/ RestartIntoIt(p) \/ WatchGoesBad(p)
  <2>1. UNCHANGED <<current, previous, disk>>
    BY <1>6 DEF Busy, StartDeploy, RefusedUnstaged, PromoteFails, Refused, RestartIntoIt,
       WatchGoesBad, links
  <2>2. dog'[p].at \in {"cleanup", "off", "started", "watching", "backing"}
    BY <1>0, <1>6 DEF Busy, StartDeploy, RefusedUnstaged, PromoteFails, Refused, RestartIntoIt,
       WatchGoesBad,
       Over, Ends, Goes, Place, Off
  <2> QED
    BY <1>1, <2>1, <2>2
<1>7. CASE StartRollback(p) \/ NothingBack(p) \/ RestartBack(p)
  <2>1. UNCHANGED <<current, previous, disk>>
    BY <1>7 DEF StartRollback, NothingBack, RestartBack, links
  <2>2. dog'[p].at \in {"backing", "cleanup", "off"}
    BY <1>0, <1>7 DEF StartRollback, NothingBack, RestartBack, Over, Ends, Goes, Place, Off
  <2> QED
    BY <1>1, <2>1, <2>2
<1>8. CASE \/ p = "drill" /\ (DrillGivesUp \/ DrillGoes \/ DrillRollsBack)
           \/ p = "recover" /\ RecoverRestarts
  <2>1. UNCHANGED <<current, previous, disk>>
    BY <1>8 DEF DrillGivesUp, DrillGoes, DrillRollsBack, RecoverRestarts, links
  <2>2. dog'[p].at \in {"off", "launched", "cleanup", "backing"}
    BY <1>0, <1>8 DEF DrillGivesUp, DrillGoes, DrillRollsBack, RecoverRestarts, Ends, Goes, Place, Off
  <2> QED
    BY <1>1, <2>1, <2>2
<1> QED
  BY <1>2, <1>3, <1>4, <1>5, <1>6, <1>7, <1>8 DEF Step

\* Launches, faults and time: the links stay, and a process that comes to be waits for the lock.
LEMMA OthersRest ==
    ASSUME DogsOK, [Next]_vars, \A p \in Procs : ~ Step(p)
    PROVE  /\ UNCHANGED links /\ disk' = disk
           /\ \A q \in Procs :
                 \/ dog'[q] \in {dog[q], Off}
                 \/ dog'[q].at \in {"looked", "launched", "waiting"} /\ (q = "updater" => Launches)
<1> DEFINE Rests == /\ UNCHANGED links /\ disk' = disk
                    /\ \A q \in Procs :
                         \/ dog'[q] \in {dog[q], Off}
                         \/ /\ dog'[q].at \in {"looked", "launched", "waiting"}
                            /\ q = "updater" => Launches
<1>0. DOMAIN dog = Procs /\ \A q \in Procs : dog[q] \in Place
  BY PlaceTypes DEF DogsOK
<1>1. ASSUME UNCHANGED links, disk' = disk, NEW p \in Procs, NEW d,
             dog' = [dog EXCEPT ![p] = d],
             d.at \in {"looked", "launched", "waiting"}, p = "updater" => Launches
      PROVE  Rests
  <2>1. dog'[p] = d /\ \A q \in Procs \ {p} : dog'[q] = dog[q]
    BY <1>0, <1>1
  <2> QED
    BY <1>1, <2>1
<1>2. ASSUME NEW p \in {"owner", "operator"}, OwnerLaunches(p) PROVE Rests
  <2>1. PICK d : d = [dog[p] EXCEPT !.at = "launched"]
    OBVIOUS
  <2>2. d.at = "launched" /\ p \in Procs \ {"updater"}
    BY <1>0, <2>1 DEF Place, Procs
  <2>3. UNCHANGED links /\ disk' = disk /\ dog' = [dog EXCEPT ![p] = d]
    BY <1>2, <2>1 DEF OwnerLaunches, Goes
  <2> QED
    BY <1>1, <2>2, <2>3
<1>3. ASSUME NEW p \in {"owner", "operator"}, NEW r, OwnerLooks(p, r) PROVE Rests
  <2>1. PICK d : d = [dog[p] EXCEPT !.at = "looked", !.rel = r]
    OBVIOUS
  <2>2. d.at = "looked" /\ p \in Procs \ {"updater"}
    BY <1>0, <2>1 DEF Place, Procs
  <2>3. UNCHANGED links /\ disk' = disk /\ dog' = [dog EXCEPT ![p] = d]
    BY <1>3, <2>1 DEF OwnerLooks
  <2> QED
    BY <1>1, <2>2, <2>3
<1>4. ASSUME NEW r \in Drills, DrillBegins(r) PROVE Rests
  <2>1. PICK d : d = [dog["drill"] EXCEPT !.at = "waiting", !.rel = r]
    OBVIOUS
  <2>2. d.at = "waiting" /\ "drill" \in Procs \ {"updater"}
    BY <1>0, <2>1 DEF Place, Procs
  <2>3. UNCHANGED links /\ disk' = disk /\ dog' = [dog EXCEPT !["drill"] = d]
    BY <1>4, <2>1 DEF DrillBegins
  <2> QED
    BY <1>1, <2>2, <2>3
<1>5. CASE HouseRecovers
  <2>1. PICK d : d = [dog["recover"] EXCEPT !.at = "launched"]
    OBVIOUS
  <2>2. d.at = "launched" /\ "recover" \in Procs \ {"updater"}
    BY <1>0, <2>1 DEF Place, Procs
  <2>3. UNCHANGED links /\ disk' = disk /\ dog' = [dog EXCEPT !["recover"] = d]
    BY <1>5, <2>1 DEF HouseRecovers
  <2> QED
    BY <1>1, <2>2, <2>3
<1>6. CASE Launches
  <2>1. PICK d : d = [dog["updater"] EXCEPT !.at = "launched", !.rel = memory.launching]
    OBVIOUS
  <2>2. d.at = "launched" /\ "updater" \in Procs
    BY <1>0, <2>1 DEF Place, Procs
  <2>3. UNCHANGED links /\ disk' = disk /\ dog' = [dog EXCEPT !["updater"] = d]
    BY <1>6, <2>1 DEF Launches
  <2> QED
    BY <1>1, <1>6, <2>2, <2>3
<1>7. CASE BoxRestarts
  BY <1>7 DEF BoxRestarts
<1>8. ASSUME NEW p \in Procs, Dies(p) PROVE Rests
  <2>1. UNCHANGED links /\ disk' = disk /\ dog' = [dog EXCEPT ![p] = Off]
    BY <1>8 DEF Dies, Ends
  <2> QED
    BY <1>0, <2>1
<1>9. CASE HouseRestarts \/ Tick \/ DropsLaunch \/ UNCHANGED vars
           \/ \E r \in Heads : RefusesHead(r) \/ PassesHead(r)
  BY <1>9 DEF HouseRestarts, Tick, DropsLaunch, RefusesHead, PassesHead, vars, links
<1> QED
  BY <1>2, <1>3, <1>4, <1>5, <1>6, <1>7, <1>8, <1>9 DEF Next, ReleasesNext

\* What the links name, and what is about to be promoted, is on disk after any step.
LEMMA LinksKept ==
    ASSUME DogsOK, LinksOK, [Next]_vars
    PROVE  LinksOK'
<1>1. CASE \E p \in Procs : Step(p)
  BY <1>1, StepsKeepLinks
<1>2. CASE \A p \in Procs : ~ Step(p)
  <2>1. UNCHANGED <<current, previous, disk>>
    BY <1>2, OthersRest DEF links
  <2>2. \A p \in Procs : dog'[p].at \in {"passed", "half"} => dog'[p] = dog[p]
    BY <1>2, OthersRest DEF Off
  <2> QED
    BY <2>1, <2>2, LinksRest
<1> QED
  BY <1>1, <1>2
-----------------------------------------------------------------------------
\* What a step may write beside the links, the disk and the rows.
LEMMA Writes ==
    ASSUME [Next]_vars
    PROVE  /\ running' \in {running, current}
           /\ \/ memory' = memory \/ memory' = Fresh
              \/ memory' = [memory EXCEPT !.asked = TRUE]
              \/ \E r \in Heads \cup {None} : memory' = [memory EXCEPT !.launching = r]
           /\ \/ marker' = marker
              \/ \E d \in Drills :
                    marker' = [marker EXCEPT ![d] = [copyOf |-> current, previous |-> previous]]
           /\ pid' \in {pid, None} \cup Procs /\ lockPid' \in {lockPid, None} \cup Procs
           /\ \/ train' = train \/ train' = [train EXCEPT !.promoted = now]
              \/ train' = [train EXCEPT !.open = dog["updater"].since]
           /\ now' = now \/ (now < Horizon /\ now' = now + 1)
<1>1. ASSUME NEW p \in Procs,
             \/ Busy(p) \/ StartDeploy(p) \/ RefusedUnstaged(p) \/ RefusedByCanary(p)
             \/ CanaryPasses(p) \/ PromoteFails(p)
             \/ PointPrevious(p) \/ PointCurrent(p) \/ RestartIntoIt(p) \/ WatchGoesBad(p)
             \/ WatchIsOver(p)
      PROVE  /\ running' \in {running, current} /\ (memory' = memory \/ memory' = Fresh)
             /\ marker' = marker /\ now' = now
             /\ pid' \in {pid, None} /\ lockPid' \in {lockPid, None, p}
             /\ train' = train \/ train' = [train EXCEPT !.promoted = now]
  BY <1>1 DEF Busy, StartDeploy, RefusedUnstaged, PromoteFails, RefusedByCanary, Refused,
     CanaryPasses, PointPrevious,
     PointCurrent, RestartIntoIt, WatchGoesBad, WatchIsOver, RestartHappens, RestartFails, Restarted,
     Over, Ends, records, house, rows
<1>2. ASSUME NEW p \in Procs,
             \/ StartRollback(p) \/ NothingBack(p) \/ RollCurrent(p) \/ ClearPrevious(p)
             \/ RestartBack(p) \/ Cleanup(p)
      PROVE  /\ running' \in {running, current} /\ (memory' = memory \/ memory' = Fresh)
             /\ marker' = marker /\ now' = now /\ train' = train
             /\ pid' \in {pid, None} /\ lockPid' \in {lockPid, None, p}
  BY <1>2 DEF StartRollback, NothingBack, RollCurrent, ClearPrevious, RestartBack, Cleanup,
     RestartHappens, RestartFails, Restarted, Over, Ends, records, house, rows
<1>3. CASE DrillGivesUp \/ DrillGoes \/ DrillRollsBack \/ RecoverRestarts \/ RecoverRepoints
  BY <1>3 DEF DrillGivesUp, DrillGoes, DrillRollsBack, RecoverRestarts, RecoverRepoints,
     RestartHappens, RestartFails, Restarted, Ends, records, house, rows, Procs
<1>4. ASSUME NEW p \in {"owner", "operator"},
             OwnerLaunches(p) \/ \E r \in Owned \cup {None} : OwnerLooks(p, r)
      PROVE  /\ UNCHANGED <<house, marker, train, now, lockPid>>
             /\ pid' \in {pid, p}
  BY <1>4 DEF OwnerLaunches, OwnerLooks, records, rows
<1>5. CASE HouseRecovers \/ Launches \/ DropsLaunch
           \/ (\E d \in Drills : DrillBegins(d)) \/ (\E r \in Heads : RefusesHead(r) \/ PassesHead(r))
  BY <1>5 DEF HouseRecovers, Launches, DropsLaunch, DrillBegins, RefusesHead, PassesHead, records,
     house, rows, Procs
<1>6. CASE BoxRestarts \/ HouseRestarts \/ Tick \/ UNCHANGED vars \/ \E p \in Procs : Dies(p)
  BY <1>6 DEF BoxRestarts, HouseRestarts, Tick, Dies, Leaves, Ends, Restarted, records, house, rows, vars
<1>7. CASE \E p \in Procs : Step(p)
  BY <1>1, <1>2, <1>3, <1>7 DEF Step
<1>8. CASE \/ \E p \in {"owner", "operator"} : OwnerLaunches(p)
           \/ \E r \in Owned : OwnerLooks("owner", r)
           \/ OwnerLooks("operator", None)
  BY <1>4, <1>8 DEF house, Procs
<1> QED
  BY <1>5, <1>6, <1>7, <1>8 DEF Next, ReleasesNext

Early == {"launched", "started", "passed", "half", "promoted"}

\* The updater's deploy begins with a launch, which waits for the train, and its promotion
\* is over with its restart.
LEMMA TrainIsKept ==
    ASSUME DogsOK, RestOK, TrainOK, [Next]_vars
    PROVE  TrainOK'
<1>0. dog["updater"] \in Place /\ DOMAIN dog = Procs /\ "updater" \in Procs
  BY PlaceTypes DEF DogsOK, Procs
<1>1. now' \in Nat /\ now \in Nat /\ now' >= now
  <2>1. now \in Nat /\ (now' = now \/ now' = now + 1)
    <3>1. now \in Nat
      BY ReleasesAssumption DEF RestOK
    <3>2. now' = now \/ now' = now + 1
      BY Writes
    <3> QED
      BY <3>1, <3>2
  <2> QED
    BY <2>1
<1>2. CASE Launches
  <2>1. ~ TrainHolds /\ train' = train /\ now' = now
    BY <1>2 DEF Launches, MayShip, rows
  <2>2. train.promoted = None \/ ~ (now < train.promoted + Hours)
    BY <2>1 DEF TrainHolds
  <2>3. train.promoted = None \/ train.promoted \in Nat
    BY ReleasesAssumption DEF RestOK
  <2> QED
    BY <2>1, <2>2, <2>3, <1>1, UpdaterAssumption DEF TrainOK
<1>3. ASSUME train'.promoted = train.promoted,
             dog'["updater"].at \in Early => dog["updater"].at \in Early
      PROVE  TrainOK'
  <2>1. train.promoted = None \/ train.promoted \in Nat
    BY ReleasesAssumption DEF RestOK
  <2> QED
    BY <1>1, <1>3, <2>1, UpdaterAssumption DEF TrainOK, Early
<1>4. ASSUME NEW p \in Procs, Step(p) PROVE TrainOK'
  <2>1. CASE RestartIntoIt(p)
    <3>1. CASE p = "updater"
      <4>1. dog'["updater"].at \in {"watching", "backing"}
        BY <1>0, <2>1, <3>1 DEF RestartIntoIt, Goes, Place
      <4> QED
        BY <4>1 DEF TrainOK
    <3>2. CASE p # "updater"
      <4>1. train' = train
        BY <2>1, <3>2 DEF RestartIntoIt
      <4> QED
        BY <1>0, <1>3, <1>4, <3>2, <4>1, OnlyOneMoves
    <3> QED
      BY <3>1, <3>2
  <2>2. CASE ~ RestartIntoIt(p)
    <3>1. train' = train
      BY <1>4, <2>2 DEF Step, Busy, StartDeploy, RefusedUnstaged, PromoteFails, RefusedByCanary,
         Refused,
         CanaryPasses, PointPrevious, PointCurrent, WatchGoesBad, WatchIsOver,
         StartRollback, NothingBack, RollCurrent, ClearPrevious, RestartBack, DrillGivesUp, DrillGoes,
         DrillRollsBack, RecoverRestarts, RecoverRepoints, Cleanup, rows
    <3>2. ASSUME p = "updater", dog'[p].at \in Early PROVE dog[p].at \in Early
      <4>1. StartDeploy(p) \/ CanaryPasses(p) \/ PointPrevious(p) \/ PointCurrent(p)
        BY <1>0, <1>4, <2>2, <3>2 DEF Step, Busy, RefusedUnstaged, PromoteFails, RefusedByCanary,
           Refused,
           WatchGoesBad, WatchIsOver, StartRollback, NothingBack, RollCurrent, ClearPrevious,
           RestartBack, Cleanup, Over, Ends, Goes, Off, Place, Early
      <4> QED
        BY <4>1 DEF StartDeploy, CanaryPasses, PointPrevious, PointCurrent, At, Early
    <3> QED
      BY <1>0, <1>3, <1>4, <3>1, <3>2, OnlyOneMoves
  <2> QED
    BY <2>1, <2>2
<1>5. CASE ~ Launches /\ \A p \in Procs : ~ Step(p)
  <2>1. train' = train \/ \E t : train' = [train EXCEPT !.open = t]
    BY <1>5 DEF Next, ReleasesNext, OwnerLaunches, OwnerLooks, DrillBegins, HouseRecovers, Dies, Leaves,
       BoxRestarts, HouseRestarts, Tick, RefusesHead, PassesHead, DropsLaunch, rows, vars
  <2>3. train'.promoted = train.promoted
    BY <2>1 DEF RestOK
  <2>2. dog'["updater"].at \in Early => dog["updater"].at \in Early
    BY <1>0, <1>5, OthersRest DEF Off, Early
  <2> QED
    BY <1>3, <2>2, <2>3
<1> QED
  BY <1>2, <1>4, <1>5
-----------------------------------------------------------------------------
Verdicts == {"refused", "failed", "promoted", "rolled_back"}
LogType  == [Heads -> [starts : Nat, verdicts : Seq(Verdicts), backed : BOOLEAN, vetted : BOOLEAN]]

\* A verdict is appended to a release's rows.
LEMMA VerdictsGrow ==
    ASSUME NEW x, NEW y \in Heads, x \in LogType, NEW v \in Verdicts
    PROVE  [x EXCEPT ![y].verdicts = Append(@, v)] \in LogType
<1>1. x[y].verdicts \in Seq(Verdicts)
  BY DEF LogType
<1>2. Append(x[y].verdicts, v) \in Seq(Verdicts)
  BY <1>1
<1> QED
  BY <1>2 DEF LogType

\* The rows of the updater's releases, whatever is written.
LEMMA RowsOK ==
    ASSUME DogsOK, RestOK, [Next]_vars
    PROVE  log' \in LogType
<1>0. log \in LogType
  BY DEF RestOK, LogType, Verdicts
<1>1. ASSUME NEW r, LogStart(r) PROVE log' \in LogType
  <2>1. CASE r \notin Heads
    BY <1>0, <1>1, <2>1 DEF LogStart
  <2>2. CASE r \in Heads
    <3>1. PICK e : e = [log[r] EXCEPT !.starts = @ + 1]
      OBVIOUS
    <3>2. log' = [log EXCEPT ![r] = e]
      BY <1>1, <2>2, <3>1 DEF LogStart
    <3>3. e \in [starts : Nat, verdicts : Seq(Verdicts), backed : BOOLEAN, vetted : BOOLEAN]
      BY <1>0, <2>2, <3>1 DEF LogType
    <3> QED
      BY <1>0, <3>2, <3>3 DEF LogType
  <2> QED
    BY <2>1, <2>2
<1>2. ASSUME NEW r, NEW v \in Verdicts, LogVerdict(r, v) PROVE log' \in LogType
  BY <1>0, <1>2, VerdictsGrow DEF LogVerdict
<1>3. ASSUME NEW p \in Procs, RestartBack(p) PROVE log' \in LogType
  <2>1. PICK r : r = dog[p].rel
    OBVIOUS
  <2>2. CASE r \notin Heads
    BY <1>0, <1>3, <2>1, <2>2 DEF RestartBack
  <2>3. CASE r \in Heads
    <3>1. PICK e : e = [log[r] EXCEPT !.backed = TRUE,
                          !.verdicts = IF p = "updater" THEN Append(@, "rolled_back") ELSE @]
      OBVIOUS
    <3>2. log' = [log EXCEPT ![r] = e]
      BY <1>3, <2>1, <2>3, <3>1 DEF RestartBack
    <3>3. log[r].verdicts \in Seq(Verdicts) /\ "rolled_back" \in Verdicts
      BY <1>0, <2>3 DEF LogType, Verdicts
    <3>4. Append(log[r].verdicts, "rolled_back") \in Seq(Verdicts)
      BY <3>3
    <3>5. e \in [starts : Nat, verdicts : Seq(Verdicts), backed : BOOLEAN, vetted : BOOLEAN]
      BY <1>0, <2>3, <3>1, <3>3, <3>4 DEF LogType
    <3> QED
      BY <1>0, <3>2, <3>5 DEF LogType
  <2> QED
    BY <2>2, <2>3
<1>4. ASSUME NEW r \in Heads, RefusesHead(r) PROVE log' \in LogType
  BY <1>0, <1>4 DEF RefusesHead, LogType
<1>5. \/ log' = log
      \/ \E r : LogStart(r) \/ (\E v \in Verdicts : LogVerdict(r, v))
      \/ \E p \in Procs : RestartBack(p)
      \/ \E r \in Heads : RefusesHead(r)
  BY DEF Verdicts, rows, Next, ReleasesNext, Step, Busy, StartDeploy, RefusedUnstaged,
     PromoteFails, RefusedByCanary, Refused,
     CanaryPasses, PointPrevious, PointCurrent, RestartIntoIt, WatchGoesBad, WatchIsOver,
     StartRollback, NothingBack, RollCurrent, ClearPrevious, RestartBack, DrillGivesUp, DrillGoes,
     DrillRollsBack, RecoverRestarts, RecoverRepoints, Cleanup, OwnerLaunches, OwnerLooks,
     DrillBegins, HouseRecovers, Dies, BoxRestarts, HouseRestarts, Tick, RefusesHead, PassesHead,
     Launches, DropsLaunch, vars
<1> QED
  BY <1>0, <1>1, <1>2, <1>3, <1>4, <1>5

\* The House's own, the pids, what a drill marked, the train and the clock.
LEMMA RestIsKept ==
    ASSUME DogsOK, LinksOK, RestOK, [Next]_vars
    PROVE  RestOK'
<1>0. current \in Ids /\ previous \in Ids \cup {None} /\ \A p \in Procs : dog[p] \in Place
  BY LinksAreIds, PlaceTypes
<1>1. running' \in Ids /\ memory' \in [launching : Heads \cup {None}, asked : BOOLEAN]
  <2>1. running' \in Ids
    BY <1>0, Writes DEF RestOK
  <2> DEFINE M == [launching : Heads \cup {None}, asked : BOOLEAN]
  <2>2. memory \in M /\ Fresh \in M
    BY DEF RestOK, Fresh
  <2>3. [memory EXCEPT !.asked = TRUE] \in M
    BY <2>2
  <2>4. \A r \in Heads \cup {None} : [memory EXCEPT !.launching = r] \in M
    BY <2>2
  <2> HIDE DEF M
  <2>5. memory' \in M
    BY Writes, <2>2, <2>3, <2>4
  <2> QED
    BY <2>1, <2>5 DEF M
<1>2. marker' \in [Drills -> [copyOf : Ids \cup {None}, previous : Ids \cup {None}]]
  <2> DEFINE M == [copyOf : Ids \cup {None}, previous : Ids \cup {None}]
  <2>1. PICK m : m = [copyOf |-> current, previous |-> previous]
    OBVIOUS
  <2>2. m \in M
    BY <1>0, <2>1
  <2>3. marker \in [Drills -> M]
    BY DEF RestOK
  <2>4. marker' = marker \/ \E d \in Drills : marker' = [marker EXCEPT ![d] = m]
    BY Writes, <2>1
  <2> HIDE DEF M
  <2>5. marker' \in [Drills -> M]
    BY <2>2, <2>3, <2>4
  <2> QED
    BY <2>5 DEF M
<1>3. train' \in [promoted : (0..Horizon) \cup {None}, open : (0..Horizon) \cup {None}]
  <2>1. dog["updater"].since \in 0..Horizon /\ now \in 0..Horizon
    BY <1>0 DEF Place, Procs, RestOK
  <2> QED
    BY Writes, <2>1 DEF RestOK
<1>4. now' \in 0..Horizon
  BY Writes, ReleasesAssumption DEF RestOK
<1>5. {pid', lockPid'} \subseteq Procs \cup {None}
  BY Writes DEF RestOK
<1>6. log' \in LogType
  BY RowsOK
<1> QED
  BY <1>1, <1>2, <1>5, <1>3, <1>4, <1>6 DEF RestOK, LogType, Verdicts

\* One process under the lock after any step.
LEMMA DogsAreKept ==
    ASSUME DogsOK, LinksOK, RestOK, [Next]_vars
    PROVE  DogsOK'
BY StepsKeepDogs, OthersKeepDogs

\* The first release runs, with the one it replaced beside it.
LEMMA InitHolds == Init => UpdaterInv
<1> SUFFICES ASSUME Init PROVE UpdaterInv
  OBVIOUS
<1>1. \A p \in Procs : dog[p] = Off
  BY DEF Init
<1>2. Off \in Place
  BY ReleasesAssumption DEF Off, Place, Steps
<1>3. DogsOK
  BY <1>1, <1>2 DEF Init, DogsOK, Fits, Off, Locked
<1>4. LinksOK
  BY <1>1 DEF Init, LinksOK, DiskOK, LinksStand, OnDisk, Held, Off, Ids
<1>5. RestOK
  <2>1. log \in LogType
    BY DEF Init, LogType
  <2>2. now \in 0..Horizon /\ running \in Ids
    BY ReleasesAssumption DEF Init, Ids
  <2> QED
    BY <2>1, <2>2 DEF Init, RestOK, Fresh, LogType, Verdicts
<1>6. TrainOK
  BY DEF Init, TrainOK
<1> QED
  BY <1>3, <1>4, <1>5, <1>6 DEF UpdaterInv

\* The strengthening is inductive: one process at a time is under the lock, what it is about to
\* promote is on disk, and the updater's deploy is a train after the last.
THEOREM InvHolds == Spec => []UpdaterInv
<1>1. ASSUME UpdaterInv, [Next]_vars PROVE UpdaterInv'
  BY <1>1, DogsAreKept, LinksKept, RestIsKept, TrainIsKept DEF UpdaterInv
<1> QED
  BY <1>1, InitHolds, PTL DEF Spec
-----------------------------------------------------------------------------
\* Types, and one process under the deploy lock.
THEOREM TypeCorrect == Spec => []TypeOK
<1>1. ASSUME UpdaterInv PROVE TypeOK
  <2>1. DogsOK /\ LinksOK /\ RestOK
    BY <1>1 DEF UpdaterInv
  <2>2. Cardinality({p \in Procs : dog[p].at \in Locked}) <= 1
    <3> DEFINE S == {p \in Procs : dog[p].at \in Locked}
    <3>1. CASE S = {}
      <4>1. Cardinality(S) = 0
        BY <3>1, FS_EmptySet, Zenon
      <4> QED
        BY <4>1
    <3>2. ASSUME NEW p \in S PROVE Cardinality(S) <= 1
      <4>1. S = {p}
        BY <2>1, <3>2 DEF DogsOK
      <4>2. Cardinality({p}) = 1
        BY FS_Singleton
      <4> QED
        BY <4>1, <4>2
    <3> QED
      BY <3>1, <3>2
  <2> QED
    BY <2>1, <2>2, LinksAreIds DEF TypeOK, DogsOK, LinksOK, DiskOK, RestOK, Place
<1> QED
  BY <1>1, InvHolds, PTL

\* No prune, no cleanup of a drill and no death leaves a link that names what is not on disk.
THEOREM LinksAlwaysStand == Spec => []LinksStand
<1>1. UpdaterInv => LinksStand
  BY DEF UpdaterInv, LinksOK
<1> QED
  BY <1>1, InvHolds, PTL

\* Two deploys of the updater restart the House a train apart, whatever dies or restarts between.
THEOREM TrainAlwaysKept == Spec => TrainKept
<1>1. ASSUME UpdaterInv,
             At("updater", "promoted") /\ dog'["updater"].at = "watching" /\ train.promoted # None
      PROVE  now >= train.promoted + Hours
  BY <1>1 DEF UpdaterInv, TrainOK, At
<1> QED
  BY <1>1, InvHolds, PTL DEF Spec, TrainKept
-----------------------------------------------------------------------------
\* Neither the drill's cleanup nor the recovery's repair of the links.
NoDrillStep(p) == ~ Cleanup(p) /\ ~ (p = "recover" /\ RecoverRepoints)

\* The links move in four steps of a deploy and a rollback, and in a drill's repairs.
LEMMA LinksElsewhere ==
    ASSUME NEW p \in Procs, Step(p), NoDrillStep(p),
           ~ (PointPrevious(p) \/ PointCurrent(p) \/ RollCurrent(p) \/ ClearPrevious(p))
    PROVE  UNCHANGED links
BY DEF NoDrillStep, Step, Busy, StartDeploy, RefusedUnstaged, PromoteFails, RefusedByCanary,
     Refused,
     CanaryPasses, RestartIntoIt, WatchGoesBad, WatchIsOver, StartRollback, NothingBack, RestartBack,
     DrillGivesUp, DrillGoes, DrillRollsBack, RecoverRestarts

\* Every step but the drill's two repairs is one of WayBack or leaves the links.
LEMMA StepsMap ==
    ASSUME UpdaterInv, [Next]_vars, \A p \in Procs : NoDrillStep(p)
    PROVE  [W!Next]_(W!backVars)
<1> DEFINE way == IF previous = current THEN None ELSE previous
<1>0. DogsOK /\ LinksOK /\ current \in Ids /\ None \notin Ids
  BY LinksAreIds, ReleasesAssumption DEF UpdaterInv
<1>1. CASE UNCHANGED links
  BY <1>1 DEF links, W!backVars
<1>2. ASSUME NEW p \in Procs, PointPrevious(p) PROVE W!Lose
  BY <1>2 DEF PointPrevious, W!Lose
<1>3. ASSUME NEW p \in Procs, PointCurrent(p) PROVE \E r \in Ids : W!Promote(r)
  <2>1. PICK r : r = dog[p].rel
    OBVIOUS
  <2>2. /\ dog[p].at = "half" /\ current' = r /\ previous' = previous
        /\ replaced' = [replaced EXCEPT ![r] = @ \cup {current}]
    BY <1>3, <2>1 DEF PointCurrent, At
  <2>3. previous = current /\ r # current
    BY <1>0, <2>1, <2>2 DEF LinksOK, Held
  <2>4. r \in Ids
    <3>1. Fits(p, dog[p])
      BY <1>0, PlaceTypes
    <3> QED
      BY <2>1, <2>2, <3>1 DEF Fits, Deploying, Backing, Ids
  <2> QED
    BY <2>2, <2>3, <2>4 DEF W!Promote
<1>4. ASSUME NEW p \in Procs, RollCurrent(p) PROVE W!Back \/ UNCHANGED W!backVars
  BY <1>4 DEF RollCurrent, W!Back, W!backVars
<1>5. ASSUME NEW p \in Procs, ClearPrevious(p) PROVE W!Lose
  BY <1>0, <1>5 DEF ClearPrevious, W!Lose
<1>6. CASE \E p \in Procs : Step(p)
  BY <1>1, <1>2, <1>3, <1>4, <1>5, <1>6, LinksElsewhere DEF W!Next
<1>7. CASE \A p \in Procs : ~ Step(p)
  BY <1>0, <1>1, <1>7, OthersRest
<1> QED
  BY <1>6, <1>7

\* A deploy and a rollback keep the promise of the links whatever drills run and processes die:
\* only the two repairs of a drill could break it.
THEOREM DeploysKeepWayBack ==
    Spec => [][(\A p \in Procs : NoDrillStep(p)) => W!Next \/ UNCHANGED W!backVars]_vars
<1>1. ASSUME UpdaterInv, [Next]_vars
      PROVE  (\A p \in Procs : NoDrillStep(p)) => W!Next \/ UNCHANGED W!backVars
  BY <1>1, StepsMap
<1> QED
  BY <1>1, InvHolds, PTL DEF Spec

\* Where no drill is run, the updater, the owner and the operator implement WayBack, however
\* many of their processes die between two steps.
THEOREM WithoutDrills ==
    ASSUME Drills = {}
    PROVE  Spec => KeepsWayBack
<1>1. Init => W!Init
  BY ReleasesAssumption DEF Init, W!Init, Ids
<1>2. ASSUME UpdaterInv, [Next]_vars PROVE [W!Next]_(W!backVars)
  <2>1. \A p \in Procs : ~ Cleanup(p)
    <3> SUFFICES ASSUME NEW p \in Procs, Cleanup(p) PROVE FALSE
      OBVIOUS
    <3>1. Fits(p, dog[p]) /\ dog[p].at = "cleanup"
      BY <1>2, PlaceTypes DEF UpdaterInv, Cleanup, At
    <3> QED
      BY <3>1 DEF Fits, Deploying, Backing
  <2>2. ~ RecoverRepoints
    BY DEF RecoverRepoints
  <2> QED
    BY <1>2, <2>1, <2>2, StepsMap DEF NoDrillStep
<1> QED
  BY <1>1, <1>2, InvHolds, PTL DEF Spec, KeepsWayBack, W!Spec
==============================================================================
