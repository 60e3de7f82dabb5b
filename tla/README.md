# TLA+ models of the House and its gateway

The repository runs a trading House: a Python process (`src/league`) that lets agent programs trade US options and
stocks with real money, and a Cloudflare Worker, the gateway (`src/gateway`), which holds the keys and through which
every order, model call, mail and merge goes. The gateway enforces the owner's caps whatever the House does; the House
keeps its own books and must agree with the gateway and with the venue after any crash, lost answer or late message.

This directory models the parts where that agreement is hard: orders and caps in the gateway, the in-flight ledger of
stock orders, the funded meter of model calls on both sides, the cached reading that judges option closes, the House's
own order path, its releases and what deploys them, its jobs, and the looks its research takes at sealed data. All other
parts are listed below with the reason they are not modelled (yet).

## 1. Inventory

| Part | State it keeps | Operations | What makes it correct |
|---|---|---|---|
| Gate (Durable Object, `gateway/lib/gate.mjs`) | the New York day's row, kill switch and its log, stored equity reading, stock ledger, Claude meter, frontier meter, notices | `reserve`, `refund`, `setKill`, `stockSettle`, `claudeReserve`, `claudeSettle`, sweep, `recordNotice` | the row is what stands; caps hold for every order of calls; the kill switch means what its log says |
| Router (Worker isolates, `router.mjs`) | per-isolate caches of positions | one handler per request: read, judge, reserve, sign, forward, settle | nothing stale is judged on; nothing is refunded that may have been placed |
| Account and caps (`account.mjs`, `caps.mjs`) | none | equity reads, exposure, closes against holdings | sized by a real, recent equity; no short sale |
| Other gateway parts | frontier month, Sail line, notices | monthly meter, mails, pull requests and merges | one mail per notice, a hold settled in its own month |
| Real options book (`league/live/real.py`, `venue.py`, `state.py`) | orders, positions, dispatch counts, the day's count in SQLite; working orders in memory | place, send, cancel, ingest, look up, book, reconcile | nothing sent or booked twice, nothing uncounted, one order per contract |
| Claude books (`league/swarm/models.py`, `league/claude.py`) | holds, filings and spend in SQLite; a meter reading in memory | admit, ask, settle, true-up | both sides book the same cost once |
| Equity book (`league/equity/live.py`, `bugstop.py`, `bands.py`) | orders, lots, latch | the same order path for shares, the bug stop | as the options book; a latch is released only for its own session |
| Event lane (`league/events`) | documents, decisions, receipts | bounded scheduler, passes, births | a decision is made once, in time |
| Releases (`league/watchdog.py`, `updater.py`, gateway `watchdog.mjs`) | links, deploy rows, attested heads | promote, canary, back out, restart | what runs has earned it, after any crash |
| Ledger (`league/ledger.py`) | hash chain in SQLite | append, verify | one chain, idempotent ids |
| Jobs (`league/ops`) | one row per occurrence | start, retry, miss, interrupt | at most one run that may not be repeated |
| Swarm (`league/swarm`) | families, versions, looks, pool | research, gate, tournament | a look at sealed days is taken once |
| Gym, panel (`league/gym`, `league/xs`) | none that lasts | numerical replay | arithmetic, not interleaving |
| `league/house.py`, `book.py`, allocator; `ltcm/` | older books and the tick | composes the steps above | |

**How they interact.** The House calls the gateway over HTTP; any call, answer or process may be lost. Isolates of the
Worker share nothing but the Gate object, whose methods are atomic; a handler interleaves with every other handler at
each `await`. The venue fills, cancels and rejects on its own, and its positions may lag its order statuses. Within the
House one thread runs the order path; the swarm's model calls are threads that share SQLite and one meter reading.

**Where it is hard.** Interleaved handlers, readings that are old when used or arrive out of order, a day that changes
under a reservation, answers that never come, a crash between any two commits, settlements later than their sweep.
`PROJECT.json` lists each such place at its line under `hazards`.

## 2. Plan

Done first: the inventory; the gate's day and caps with the first proofs; the stock ledger; the Claude meter and the
House's books; option closes; the real book's order path.

Done second: jobs (`OpsJobs`); releases and the updater over them (`Releases`, `Updater`), implementing an abstract
promise of the links (`WayBack`); the swarm gate's looks (`HoldoutLooks`). The meter's properties moved into
`claude_calls`, which now has handlers that outlive the sweep.

Done third: proofs. Every invariant that a passing run checks, every action property but two, and the refinement where no
drill runs, are theorems (section 6), and sums over sets have a module of their own (`Totals`) which those proofs share.

Left to prove: `NoReturn` (from the heads' rows and the fates that `Updater` keeps beside them), `DrillCostsNothing`
and `KeepsWayBack` with one fault, which need the number of faults in the invariant. Liveness stays with TLC.

Left to model, in this order: the bug stop's latch and the equity book's order path; notices (checked, mailed and
recorded with awaits between); an abstract specification of the meter that `ClaudeMeter` implements; the event lane's
scheduler; reconciliation in `RealBook`.

## 3. Modules

| Module | Models | Extends |
|---|---|---|
| `GateDay` | the day row as pure operators: `Counters`, `RealAdmits`, `KalshiAdmits`, `Taken`, `GivenBack` and the caps by equity | |
| `OrderGate` | an option or Kalshi order from its arrival to its outcome; readings of the equity; kill switch; calendar | `GateDay` |
| `StockLedger` | the in-flight ledger as pure operators: prune, hold, learn, settle, take | |
| `StockOrders` | a stock order's handler, the venue and its lag | `StockLedger` |
| `StockCloses`, `StockBuys` | how a sale, and a buy, is judged and what its refund gives back | `StockOrders` |
| `ClaudeMeter` | the gateway's holds, settlements, sweep and records | |
| `ClaudeCalls` | the House's filing, answer, true-up and restarts | `ClaudeMeter` |
| `ClaudeAdmit` | the shared meter reading and the room taken from it | `ClaudeCalls` |
| `OptionCloses` | the cached positions and the closes judged by them | |
| `RealBook` | the House's order path, one action per commit, request or answer | |
| `OpsJobs` | the House's jobs: occurrences, the walk over them, the child, its result, retries, the pause, restarts | |
| `WayBack` | what `current` and `previous` promise | |
| `Releases` | the links, the copies on disk and the processes that move them: deploy, rollback, drill, recovery | instantiates `WayBack` |
| `Updater` | the House's look at main, what it takes as tried, the release train | `Releases` |
| `HoldoutLooks` | the swarm gate's reviews and looks, the pool's jobs, the tournament's verdicts, adoption, retirement | |
| `Totals` | lemmas about sums over finite sets | |
| `OrderGate_proofs`, `ClaudeCalls_proofs`, `RealBook_proofs`, `OpsJobs_proofs`, `Updater_proofs`, `HoldoutLooks_proofs` | theorems about the module each is named after | that module; the first three `Totals` |
| `Stock_proofs` | theorems about closes and buys, which share most of their invariant | `StockCloses`, `StockBuys`, `Totals` |
| `MC*` | constants for TLC | |

State and actions follow the code's names where TLA+ allows; the `map` of `PROJECT.json` gives the lines of each
definition. Definitions whose comment starts with "Bug:", or speaks of a defect the runs must find, are mutated forms of
the definition after them, which the runs must refute; no specification uses them.

Conventions. A request's `phase` is where its handler waits, so that one action is what runs between two awaits. Time
is a small number; a timeout is a guard over it. Money is a small natural, never rounded: the code's integer
micro-dollars are exact too.

### The gate's day (`GateDay`, `OrderGate`)

`row` is the counters' row, `killed` the switch and `adminLog` its entries in the admin log (the code keeps the newest
only; a run throws the switch too seldom for any to go), `reading` the stored equity, `account` the equity the venue had
at each tick, `phase`, `order`, `fetchAt` and `basis` what a handler holds. `Reserve` is the whole of `reserve`: the
change of day, the kill switch, the caps, the row. `Refund` happens only after a failed signature, as in
`router.mjs:430`, and gives back only on the day that was taken. `EndFetch` stores a reading with the time it was
*begun*; recording it may throw, and the handler then goes on, to be judged by what is stored. `Kill` and `Unkill` may
find that the log cannot be written: the first goes on, the second does not. Stock orders' part of the row is in
`StockBuys`.

### Stock orders (`StockLedger` to `StockBuys`)

A handler reads open orders, then positions, a buy then the account, then the statuses of orders the gate holds;
each read sees the venue as it is then, and any read may fail. `LearnedEntry` is the heart: an older reading never brings
back what a newer one ended. The ledger is a set of entries that carry the number they were admitted at (`nth`), since
only that order matters to `Left` and `Without`. An order may arrive, rest, fill and be shown (`Show`) as late as it likes.
What the gate counts on is stated as a condition on steps, in the specifications: `PastIsShown` for both kinds,
`JudgedInTime` for closes (section 4). The kind of an order, "close" or "buy", is a parameter of the handler's actions;
`StockCloses` has `Spec`, `StockBuys` has `BuySpec` with the day's row `bought`, and the day each handler's reservation was
taken on, `days`: a refund of another day's gives nothing back. Not modelled: the eligible list, the weight of options in
the book's cap, an account whose equity moves, and closes admitted by a release that kept no `free` (section 8).

### Claude (`ClaudeMeter`, `ClaudeCalls`, `ClaudeAdmit`)

A hold is the worst case of a call; settlement replaces it; the sweep ends one whose Worker died; a late settlement
books its cost all the same. The House files its own hold first and takes it out with the answer or with the true-up, in
one transaction. `Late` is what swept calls cost when they settle after all, which no filing covers. `Crash` is a
handler that ends; what it leaves behind is a hold the sweep finds. Not modelled: price tables, the lines by role and
family (read again in the transaction, as the cap is), and the response's content.

### Option closes (`OptionCloses`)

One leg and one isolate; `Together` bounds how many handlers run at once. The venue settles an order at its handler's
end, which favours the code: the violation found needs no lag.

### The real book (`RealBook`)

`row`, `pos`, `counted`, `count` and `cancels` are committed; `doing` and `looked` are memory and end with a `Crash`.
`venue` is the truth; a POST is on its way until it arrives, is refused by the gateway, or is rejected. `Post` may
instead find the minute's requests spent, which refuses an open without sending it. A cancel may be sent again in a
later minute, and is counted each time. An order the venue rejected is found as a row that is over, or not at all.
Reading a row may show fewer units than are filled, since legs may trail a parent. The venue moves only where the House
rests or waits for an answer: its other steps do not read the venue, so each behaviour has an equivalent one of this
kind.

Left out: prices and fees, reconciliation and its freeze, broken structures and expiries, orders of an earlier day,
and an ended order whose legs trail (`real.py:1022` makes it final with what was read).

### Jobs (`OpsJobs`)

`rows` are the receipts, one for each occurrence; `settled` and `child` are the House's memory; `procs` and `files` are
what outlives it. One tick is `Poll*` (a child that ended, or passed its wall) and then `Walk`, which sorts what is due
into `todo`; `WriteDown` commits the skipped and the missed one at a time with the walk's moment, as `_dispatch` does, and
`StartFirst` the row of the first that may run. The start itself is two more steps, since the House may stop after the
fork and before the pid is written; it may stop between any two of all these. `Health` is the same walk without a start.
`Start` is the House starting again: it kills what it finds running and settles its row. A child may hang, may end with
"skipped" as its own result, and its file may be written after the House is gone.

### Releases (`WayBack`, `Releases`, `Updater`)

`dog[p].at` is where a process of `league.watchdog` is between two effects: the canary, each of the two links, the
restart, the watch, each step of a rollback, the drill's break and cleanup. All of them hold the deploy lock over those
steps and may die at each; a box restart kills all. `running` is what the House was started from, and trails `current`.
`log` has the rows `tried` and `schedule` read, `train` the two times the release train is held from. `Updater` adds
what the House decides: `Tried`, `Again` and `Reverted` over the log, a memory of one launch that is gone with the House.

A deploy may be refused with nothing staged (`RefusedUnstaged`), and a promotion may fail at either link
(`PromoteFails`), with `previous` moved already at the second. Two guards stand for time that the steps do not show:
`AfterMinutes` (a canary or a watch outlasts the seconds in which another process finds the lock held) and `AfterTheWait`,
because a drill waits at most 600 s and begins beside no deploy, while a watch alone lasts 600 s: without it a drill would
find the way back moved under the `previous` that its marker has kept. A deploy with no House to watch is left out.

`WayBack` says in four actions what the links are for: `back` is a release that the current one replaced, or nothing.
`Releases` implements it with `back` read as nothing where both links name one release, which is how a promotion leaves
them between its two steps and how `rollback` reads them. `RestartBack` takes a rollback's row, restart and verdict as one
step; the death before it is an action.

### Looks at sealed days (`HoldoutLooks`)

`fam` has a family's band, the program last validated and the data it was validated on, whether it waits at the gate
(`gate_ready`), the program the gate is done with (`gated_sha`) and the marker of its look in flight (`look_inflight`),
which names an attempt in `job`. The gate is one thread: `gate` is what it does with one family. `BeginReview`,
`PassReview`, `BeginLook` and `Mark` are apart because a review takes minutes and everything may change meanwhile; each
tests what the code tests there, so the transaction of `Mark` reads neither `gate_ready` nor whether the band is still
the Gym, and marks a look of the program that was reviewed. A failed review bars its program (`bar`): on record, or owed
to the record when the store refused it, where `paid_verdict` does not read it until `RecordOwed`. A job is queued,
taken, queued again when its box fails, and ends once: its result is recorded by `Land` whether or not the gate still
waits; its failure, or a result that is no look (`Unusable`), owes the look again, but only while its own marker stands. `FailUnheard` is the failure in the instant between the wait's timeout and the
lock (`pool.py:340-349`), which nobody hears: its marker stands until the limit. `Demote` is the gate putting a
candidate back into the Gym. `Restart` ends every job, with or without an adoption of other rules, and may lose a bar
that was only owed.

Two versions of one program are one member of `Programs`, so the duplicates that only equal
Validation figures reveal are left out, as are the lanes (with the equity programs and their own gate), the operator's
hold, the incubator and the wording of reviews.

## 4. Runs

| Run | Shows | Bounds |
|---|---|---|
| `order_gate` | the day row is exactly what stands, over a change of day and late refunds; exits keep the places that only exits and non-opens take; a reservation that the admin log shows under an engage was never made; no open is sized by an equity the account did not have in the last `MaxAge`; opens of both venues stay in the day's caps | 4 requests in the mixes of `MCOrderGate`, 2 equities, 2 days of one tick, 3 places of which one is the exits', 2 throws of the switch |
| `stock_closes` | nothing is sold short, however long orders rest | 3 sales of 1 of 2 shares |
| `stock_buys` | neither the cap of a name nor of the book is passed; the row is the sum, over a change of day | 3 buys, 2 names, one without a client id, days of 2 ticks |
| `stock_power` (violation) | a buy filled between two reads is in neither | 2 buys |
| `claude_calls` | `spent` and `inflight` add up through sweeps and late settlements and pass the funded total only by what is reported; the House and the gateway book the same, once; what the gateway holds and booked in all is in the House's books, but for overruns and swept calls' late costs; its own line holds but for overruns; a filing ends | 2 calls, 1 sweep period, handlers that outlive it |
| `claude_fresh` (violation) | a caller with room from one reading meets the time of the next in its transaction: what was booked between them is in neither | 2 callers, a reading lasts 2 ticks, restarts |
| `option_together` (violation) | two overlapping handlers judge the same reading | 3 closes, 2 at once |
| `real_book` | fills booked once; the count never trails; one order per contract; no over-close; no two sides | 4 orders, 1 crash, 2 cancels, also of one order, 3 minutes |
| `ops_jobs` | one child at a time; a job that may act twice is started once; `ok` is the last attempt's own; a final receipt stands; everything due gets a receipt | 2 jobs, 3 occurrences, 1 stop, 1 pause, 2 attempts |
| `ops_retry` (violation) | a failed run is taken as settled because health() looked while it ran | as above |
| `releases` | the links name what is on disk and refine `WayBack`; nothing refused is deployed again; two deploys are a train apart; a drill costs nothing and its copy does not stay | 1 head, the owner's release, 1 drill, 1 fault, 2 launches by the owner, 3 releases kept |
| `holdout_looks` | no look is forgotten, none begins in vain, the ration and one row per program hold, every reservation ends, with reviews, transactions and results apart | 2 families of 1 lineage with 1 look, 2 programs, 2 looks, 2 verdicts, 1 change of data, 1 end of the process |

**Why the bounds are enough.** The errors looked for need two actors and one witness: three requests for the open and
closing places and the exit that meets them full; two sales plus the sale that pushes them past the holding; a hold, its
sweep and its late settlement; an open, two closes and a rival on its leg. Each mutant is found within a few steps at
these sizes. A look needs the version that superseded it, the family that wrote the same program, and the process that
ended under it. Clocks go far enough to pass every timeout once: a day, `MaxAge`, `Hold`, `StaleHold`, `AbsentAfter`,
`LostAfter`, a grace, a backoff, a train, the gate's wait and its limit. In `real_book` one position is of one unit, so
the run closes no position in two parts (the theorems do); the rival open has two units, so partial fills are covered.

**What the constants stand for.** `MaxAge` 120 s, `Pending` and `Hold` 60 s each, a forward ends within 30 s;
`StaleHold` 30 min, a call at most 570 s (a stream 660 s), `MinAge` 60 s, `AbsentAfter` 1800 s, `Ttl` 60 s, `Margin` 10
s, `CacheFor` 5 s. In the book, pending rows are looked up after 30 s, an order is lost after 4 attempts or 600 s, and
`MaxOrdersDay` is 250. A job's grace is hours against a backoff of 15; the train is hours against a canary of minutes;
the gate's limit for a look is longer than its wait. The runs keep their order, not their ratio. These
conditions matter; each is named in a specification, a configuration or a theorem:

- `PastIsShown`, a condition on the steps of `Spec` and `BuySpec`: when a handler has read the orders and the positions,
  they show each order whose hold ended before the reading began, as open or as filled. That is what the hold is for
  (`STOCK_LEDGER_HOLD_MS`, whose comment speaks of an account and positions that lag). It bounds the venue's lag and
  nothing else: orders may be under way within their hold, rest and fill for as long as they like.
- `JudgedInTime`, for closes only: a close is judged by `e.at + Hold + MaxAge` of each held close `e` that counts
  against its reading, 180 s after `e` was admitted. `e` may count against a reading begun up to `Pending + Hold`, 120 s,
  after it was admitted, so in the worst case 60 s are left for the reads. A close that was answered early leaves the
  ledger up to `Pending` before an older one that never was; judged later, `Left` starts from what the older one found free
  and takes off the larger of what the closes ask, where the younger is missing, and of the fall of what is free, where a
  third close in flight is missing. Without the condition a short sale of 1, 1, 1 and 2 of 4 shares is reachable
  (section 7). Buys need no such condition.
- `NoneStale`, a constraint of the two stock runs: a handler whose reading is too old is taken no further, since the gate
  can only refuse it. What such a refusal does to the ledger, nothing, is the first disjunct of `Refuse`.
- `FilingsOnRecord`: the gateway has a record of each call it let through whose filing is open. The code keeps 256. The
  run has as many records as calls; `BooksStayAgreed` and `BooksCover` assume it in their statement, with
  `Delivery < AbsentAfter` (a request takes minutes at most, `AbsentAfter` is 30).
- `BookedOnce`, `OneStream`, `NoOverClose` and `OneSide` hold while an order's patience (`MaxAttempts`, `LostAfter`)
  outlasts `Transit`: `RealBook_proofs`' `Patience`. The code's four minutes against a request timeout of seconds give
  that.

**Deadlock.** Every configuration sets `CHECK_DEADLOCK FALSE`: the clock stops at `Horizon` and each request is made
once, so every behaviour ends by the bounds.

**Symmetry** is used over requests, sales and closes that differ only by name, and never where liveness is checked.

## 5. Fairness

`claude_calls` (`FilingsEnd`) assumes that the true-up pass runs again and again (the settling step at
`league/swarm/models.py:324` calls it), that the gateway's cron sweeps, that a request under way ends (the Worker
answers, crashes, or never got it), and strong fairness of booking what was read: the House may restart between a
reading and its booking, but not each time. Nothing assumes that an answer arrives or that a House or Worker survives.

`ops_jobs` (`EveryDueSettles`) assumes the House's tick (its loop), its supervisor's start after a stop, and the clock. A
child may hang for ever: the wall time ends it.

`releases` (`DrillEnds`) assumes that each process takes its next step unless it dies, and that a House which runs a
drill's copy launches the recovery (its tick does). Faults are bounded, so a recovery that dies is not followed by a
second one of the same House: the code launches it once per process (`memory.asked`), and with one fault that is enough.

`holdout_looks` (`LooksSettle`) assumes the clock, that the gate's waits and readings end (both have timeouts), and that
its rounds come to every family again: strongly, since a round may be busy with another family whenever the look is old
enough. It assumes no leakage alarm, which stops the rounds, and nothing at all of the pool: a job may hang for ever.

## 6. Proofs

Every theorem holds for all values of the constants that the modules' own `ASSUME`s allow: any finite number of requests,
calls, orders and structure legs, any sizes, caps and timeouts; jobs of different ranks; releases, families and programs
without restriction. TLC evaluates those assumptions on each run. What a theorem needs beyond them is in its statement.

`Totals` gives what sums over finite sets are: empty, with one member more or less, of the same or smaller terms, split in
two. A fold of the community modules is a `CHOOSE` of a function on all subsets; that there is one, and what it returns, is
shown from a smallest subset for which it fails, since strict inclusion is well-founded on the subsets of a finite set. All
sums below are brought to `Total(w, S)` with `w` a function.

| Theorems | Show | The inductive invariant and why it is needed |
|---|---|---|
| `OrderGate_proofs`: `TypeCorrect`, `Sized` | `TypeOK`, `SizedByRecentEquity` | an old reading could be of any equity, so `ReadingIsPast`: a stored reading is an equity the account had at its stamp or later; the past only grows |
| `ExitsHaveRoom` | the action property `ExitsKeepRoom` | `PlacesInv`: the row's counts are the cardinalities of what stands on its day, and no reservation is of a day after the row's |
| `RowIsTheSum`, `OpensAreWithin` | `DayIsTheSum`, `OpensWithinDay` | `MoneyInv`: each column is the sum over what stands, and today's opens are within the caps also where the row is still of the day before |
| `LogIsClear` | `LogClearsReservations` | while the switch is off, the log's last entry is no engage: a release is logged or does not happen, and an engage turns the switch on whatever the log does |
| `Stock_proofs`: `ClosesHold`, `NeverShort` | `NoShortSale`, for the closes of one stock | `ClosesInv`, below |
| `BuysHold`, `BuysStayInCaps`, `BuysAddUp` | `WithinCaps`, `DayIsTheSum` | `BuysInv`, below |
| `ClaudeCalls_proofs`: `TypeCorrect`, `SumsAddUp`, `FundedHolds` | `HouseTypeOK`, `MeterAddsUp`, `WithinFunded` | `MeterInv`: a held call is at its worst case and unsettled, a record tells the truth, `spent` is what is held and what was billed |
| `LineHolds` | `WithinUsdCap` | `HouseInv`: what is filed is held in full; what is not is nothing, or what the gateway billed; a request on its way has met no handler |
| `BooksStayAgreed`, `BooksCover` | `BooksAgree`, `HouseCovers`, under `FilingsOnRecord` and `Delivery < AbsentAfter` | `AgreeInv`: every filed call that reached the gateway is on record, and each booked or read cost is the gateway's once it can no longer change; the totals follow call by call |
| `RealBook_proofs`: `TypeCorrect`, `CountIsKept` | `TypeOK`, `CountCovers` | `BookInv`: what the House is doing agrees with the row and the venue of its order; what is at the venue is counted |
| `FillsBookedOnce`, `StreamsStayOne`, `ClosesStayWithin`, `SidesStayOne` | `BookedOnce`, `OneStream`, `NoOverClose`, `OneSide`, under its `Patience` | `PatientInv`: an order that is no longer working is over at the venue, and its row has all its fills; a position is its open's fills less its closes' |
| `OpsJobs_proofs`: `TypeCorrect`, `OneChildAtATime`, `AttemptsWithin`, `ReceiptIsTrue`, `ReceiptStands` | `TypeOK`, `OneChild`, `StartedWithin`, `OkIsTrue`, the action property `FinalStays` | `Inv`: memory is what the store says runs, one row runs, each process is an attempt its row has counted, a result file is of the attempt that will be settled; and the walk always finds exactly one first occurrence (`FirstIsOne`) |
| `Updater_proofs`: `TypeCorrect`, `LinksAlwaysStand` | `TypeOK`, `LinksStand` | `UpdaterInv`: one process under the lock, each where its kind can be; a release about to be promoted is on disk (`Held`) |
| `TrainAlwaysKept` | the action property `TrainKept` | `TrainOK`: from its launch on, the updater's deploy is a train after the last |
| `DeploysKeepWayBack`, `WithoutDrills` | each step of a deploy or a rollback is a step of `WayBack` or stutters; without drills, `KeepsWayBack` | the refinement, step by step, under any number of deaths; a drill's cleanup and a recovery's repair are excluded by name |
| `HoldoutLooks_proofs`: `TypeCorrect`, `RationKept`, `NoneForgotten`, `LooksCount` | `TypeOK`, `Rationed`, `NothingForgotten`, the action property `NoLookWasted` | `Inv`: a lineage's looks and markers are within its ration, one row a program, no failed review on record is of what the gate reads, a job that may land keeps its marker or is given up |

**Stock.** `Sound` is what closes and buys share: the venue's part of each order, readings no younger than now, and a
ledger with one entry at most of each order, in the order of admission, each counting at least what its order may still
fill (`Commit`). An order without an entry that counts (`Behind` a reading) is one `PastIsShown` speaks of. Every step
but three keeps what a kind adds, for one reason (`Plain`: nothing more is committed; `Heir`: the ledger is the old one,
pruned, learned or settled). The three are an admission, a refund and the reading of the positions, and they are proved
for each kind.

- Closes. What is committed is never more than the shares. For an admission, `Left` takes what the first held entry found
  free and takes off it the larger of two sums: so `Room` says that what an entry found free, with all that was committed
  before it, fits; and `SeenIsFree` says the same of a reading and of the orders it shows whole. `Room` is needed, and
  kept, only while no entry admitted since can have left the ledger; `JudgedInTime` says that no close is judged later.
- Buys. What is committed is within the caps (`InCaps`), and a reading the gate may still take has, of each name, at
  least what the orders that it shows whole have committed (`SeenIsAll`). `ExposureCovers` shows that what is seen, open
  and in flight is at least what is committed: an order is behind the reading and seen or open in it, or its entry is
  held and counted net of the open order shown for it. The day's row is the sum over its day's buys that stand, because
  an entry still in hand counts the whole size of its order.

**Only model-checked.** Liveness (`FilingsEnd`, `EveryDueSettles`, `LooksSettle`, `DrillEnds`) needs fairness and
`ENABLED`, which the prover does not have. `NoReturn` speaks of what became of each release over all launches
(`fates`, a history that `SelectSeq` filters), and the prover knows nothing of what a recursive operator returns.
`DrillCostsNothing` and `KeepsWayBack` with drills hold with one fault, and the second is false with two (section 7), so a
proof has to count faults through every step of a drill. The properties of the four runs that expect a violation are false.

## 7. What disagrees with its documentation

1. `stock_power`: buying power can be spent twice across two reads (`gate.mjs:486`).
2. `claude_fresh`: `_claude_admit` can admit into the reserve by two readings of the meter (`models.py:653`);
   the gateway still refuses past the funded total.
3. `option_together`: a close is taken out of the cached reading only after the gate answered (`router.mjs:419`).
4. `ops_retry`: health() walks the occurrences while a child runs and takes its row as settled; when that run fails, this
   House never starts it again (`runner.py:158`), though `runner.py:13-15` says it is started again after its backoff.

Read, not run:

- `PastIsShown` is the venue's to keep: no code looks whether the positions show a fill 60 s after its answer, and a
  submit whose forward is slow to reach the venue and never answered counts for 120 s.
- `JudgedInTime` is nobody's: the reads of a close are up to twelve in a row (`router.mjs:127` allows ten statuses) of up
  to 8 s each, 96 s in all, where the worst case leaves 60 s. The comment at `gate.mjs:548` states no such condition.
  Found by the proof of `NeverShort`, then by TLC.
- `exit_reserve` (`real.py:786`), which keeps no room for the open being admitted or
  for opens still working, though the docstring at `real.py:20` says opens stop early enough for every structure to close.
- The gateway's records are the newest 256 (`gate.mjs:1006`): one pushed off while its filing is open reads as absent and the
  House books it at nothing. `BooksAgree` and `HouseCovers` fail with fewer records than calls.
- A version can stay gate-ready though the gate is done with it. `_finish` sets `gated_sha` and leaves `gate_ready`
  (`gate.py:1590`): where the tournament validates the version again on new data while its look is out, or a look that was
  given up, and owed, lands after all, the version is ready with its own `gated_sha`, which `Gate.run` skips
  (`gate.py:933`). The docstring of `gate_spent` (`tournament.py:801-803`) says this must not be, since it keeps the family
  from the idle rule; it looks only at the moment of a validation.
- The transaction that marks a look tests neither `gate_ready` nor more of the band than its retirement
  (`gate.py:1425-1441`), so a version the tournament turned down between the review and the mark may still be looked at.
- A failed review that the store refused is owed (`gate.py:1098-1101`), and until it is on record `paid_verdict` does not
  read it: another family may have the same program reviewed, and passed, meanwhile; where no file took it either, an end
  of the process loses it. `NoLookWasted` speaks of the reviews on record.
- An unusable result of an attempt whose program another attempt's look has landed leaves its marker (`gate.py:1562`), which
  stands until the limit.
- A look the gate had given up may land after its successor was begun by a newer version, so a lineage may record more
  looks than its ration (`gate.py:5`); and past the limit a slow look may be started twice (`gate.py:1410` says never).
  `Rationed` and `NoLookWasted` speak of the looks within the limit.
- A head the walls refuse after a rollback or a revert leaves a `_refused` row, which is no verdict: it is judged again at
  every look, where the docstring at `updater.py:705` says a refusal retires it for good.
- A release whose later deploy died without a verdict, or whose rollback died before its row, is tried again
  (`TriesAgain` has both cases).
- Between a promotion's link and its restart, a death leaves `running` behind `current`, and a look says the box already
  runs main (`updater.py:786`). With two faults: a cleanup may put back a way that a dead drill took too far, a recovery
  that died is not launched again by the same House, and `prune` may take the release a copy was made from.
- A child whose pid was never written (`runner.py:304`) is found by nobody; its job may run beside it.

## 8. Not modelled

Numerical code (`gym`, `xs`, screens, bands' arithmetic), model prompts and answers, reports and their wording, mail
composition, backups, the older desk, closes of a ledger written before `free` was kept (`gate.mjs:574` refuses over
them, for the minutes such an entry lives), and stateless gateway parts (path protection, GitHub reads, the library):
they have little order to get wrong, or what they compute is not for a model checker. Everything marked "planned" in
`PROJECT.json` has state and crashes worth a module and is in section 2.
