# AtlasRide: a verification project

TLA+ models of the ride-matching service in `src/`, checked with TLC on small
instances and proved with TLAPS for all of them. The core is the *assignment
protocol*: how a rider gets one driver although many requests, workers, a Redis
server and a ride store act at once. Around it are the things that disturb it
(heartbeats, eviction, recovery, crashes) and the data structures it stands on
(spatial index, quadtree, ride repositories).

## 1. The system

One Go process (`cmd/api/main.go`) and one Redis server.

| Component | State | Operations | Hard part |
|---|---|---|---|
| Driver repository (`internal/repository`, `internal/domain/driver_fsm.go`) | map of drivers: status, Intent, MatchingSince, location, times | `Upsert`, `Get`, `Delete`, `TransitionStatus`, `SetIntent`, `TryLockIntent`, `ClearIntent`, `RespondToIntent`, `FindStuckMatching`, `Expired` | atomic one by one, combined by callers that hold no lock |
| Offer groups (`internal/offer`) | one Redis hash per rider: status, winner, TTL | `Create` (three commands), `Accept` (a script), `GetWinner`, `Remove` | expiry at any time; a command fails after it ran |
| Dispatcher (`internal/events`) | bounded channel, worker goroutines, context | `EnqueueDriverOffer`, `Start`, worker loop, retry, `Stop` | workers both drain and feed the channel; shutdown |
| Ride service and store (`internal/ride`) | map of rides by rider | `CreateIfAbsent`, `GetActiveByRider`, `UpdateStatus`, `UpdateRideStatus` | idempotence; check and store in two steps |
| Matching service (`internal/matching`) | none of its own; the locals of its calls | `Match`, `HandleDriverResponse` | every step of one call interleaves with all others |
| Recovery service (`internal/matching/service.go:219-245`) | none | `Recover` | acts on a list that grows old |
| Ingestion, eviction (`internal/service`) | none | `UpdateLocation`, `RunOnce` | read, merge, write in separate critical sections over two stores |
| H3 index (`internal/spatial`) | cell -> drivers, driver -> cell | `Insert`, `Update`, `Remove`, `Nearby`, `NearbyProgressive`, `NearbyAdaptive` | two maps that must agree; copies that grow old |
| Postgres ride repository (`internal/ride/postgre.go`) | a table | as the memory store | insert, then select; statements fail |
| Quadtree (`qtree`, root `main.go`) | a tree of points | `Insert`, `Subdivide`, `Query` | points on the borders |
| Legacy prototypes (`internal/temp`), JS demo | | | not reachable from `cmd/api` |

How they interact: a caller's goroutine runs `Match` (the tests do; `cmd/api`
builds the service but registers no HTTP handler yet), which asks the index for
candidates, reserves drivers in the repository, creates the offer group in
Redis and puts one offer per reserved driver on the dispatcher's channel. A
dispatcher worker takes an offer and sends it; the sender the program wires in
calls `HandleDriverResponse` on the same worker, which runs the Redis script,
creates the ride, and moves the driver to BUSY or back to IDLE. An error goes
back to the worker, which sleeps and puts the offer on the channel again.
Heartbeats write drivers into the repository and the index; eviction deletes
the silent ones from both.

What makes each component correct, in a sentence: the repository moves drivers
along the state machine and leaves no reservation behind; a group has one
winner for as long as it lives, and it does not live for ever; the dispatcher
bounds its retries, never blocks on itself and stops; a rider's active ride is
never replaced, and its status moves along legal edges; the protocol books no
driver twice, gives every busy driver a ride, and leaves no driver reserved; a
heartbeat changes no status and no position goes back; the index's two maps
agree and its searches are exact.

## 2. The modules

| Module | Models |
|---|---|
| `DriverStore` | the driver repository's entries: state machine, Intent, MatchingSince; one operator per method that writes, for the modules below to call |
| `OfferGroups` | the Redis hashes: each command and the accept script as one operation, expiry |
| `RideStore` | `CreateIfAbsent` over the map of rides |
| `Dispatcher` | channel, workers, retry, shutdown; alone, against an arbitrary sender |
| `Matching` | `Match` and `HandleDriverResponse`, composed with the four modules above |
| `Booking` | what the protocol promises: hold, release, book |
| `Recovery` | `Recover` beside the protocol |
| `Churn` | eviction and heartbeats beside both |
| `Restart` | the protocol in a process that crashes and starts again |
| `Fleet` | `UpdateLocation` and `RunOnce` over repository and index, with times and packets, and every other writer of the repository in any order |
| `Directory` | what an index promises: driver -> last snapshot |
| `SpatialIndex` | the two maps of the H3 index, `Nearby` |
| `Search` | `NearbyAdaptive`, `NearbyProgressive` |
| `QTree` | the quadtree: `Insert` node by node, `Query` |
| `RideLedger` | what a ride repository with its service promises |
| `MemoryRides`, `PostgresRides` | `UpdateRideStatus` over either repository |
| `Rides` | both, one of them in use |
| `MC*` | the modules TLC runs |
| `*_proofs` | theorems, see section 5: `Matching`, `Assignment` (the protocol without faults and its refinement), `Disturbances` (`Restart` and `Churn`), `Dispatcher`, `Fleet`, `SpatialIndex` (with `Search` and `QTree`), `Rides` |

**State.** `Matching` instantiates the stores under the names `Store`, `Redis`,
`RideLog`, `Queue`, with their variables `drivers`, `groups`, `rides` and
`queue`/`worker`/`stopped` as its own. `match[m]` is the stack frame of a `Match`
call: the statement it is at (`pc`), its rider, the candidates it has not
visited, the driver at hand and those `lockedDrivers` it has neither offered nor
rolled back. `handler[w]` is the frame of the `HandleDriverResponse` call that
worker `w` runs, whose driver and rider are those of the worker's offer. In the
same way `recovery` is the frame of `Recover`, `beat[h]` of an `UpdateLocation`,
`sweep` of `RunOnce`, `search` of an index search, `update[u]` of an
`UpdateRideStatus`.

**Steps.** Every method of a store runs under one mutex, and Redis runs one
command at a time, so each call of the service into a component is one action
and nothing coarser: `Revalidate` (`Get`), `Reserve` (`TransitionStatus`),
`AttachIntent` (`SetIntent`), `CreateGroup` (`HSETNX`), `ArmExpiry` (`EXPIRE`),
`SendOffer` (`EnqueueDriverOffer`), `Accept` (the script), `Finalize`
(`CreateIfAbsent`), `Commit` (`TransitionStatus` to BUSY), `ClearIntent` and
`Release` (the clean-up every other outcome ends in), with an action for each
error branch (`UndoReserve`, `CreateFails`, `RollbackIntent`, `RollbackStatus`,
`AcceptFails`, `FinalizeFails`) and for the worker's `TakeOffer`, `RetryOffer`,
`ExitWorker`. `UpdateLocation` is `Arrive` (the clock), `Load`, `Upsert`,
`Mirror` (the index); `RunOnce` is `Expired`, then `Delete` and `Remove` per
driver; `Recover` is `FindStuckMatching`, then `Rollback` and `DropIntent`. A
search holds the index's read lock throughout, so nothing interleaves with it.
The recursive `Insert` of the quadtree takes a step per node it is called on:
`OutsideBoundary` (false; the `||` goes on with the next child), `Keep`, or
`PassOn` (divide if needed, go to the first child). A node is named by its path
from the root, which is also the call stack, so that no definition is recursive.

**Faults** are switched by constants. With `RedisCanFail` (`StoreCanFail`,
`DbCanFail`) a command may return an error *whether or not it took effect*: a
connection that breaks before or after. `Strict` says that two readings of the
clock differ, `Reorders` that packets overtake each other, `Evicts` that the
eviction runs. `Crash` of `Restart` loses everything but Redis.

**Abstractions.**
- The ranking by distance is any order, the index proposes any set of at most
  `Fanout` drivers, and IDs are model values.
- The sender in the source always accepts ("100% accept for testing");
  `Responses` adds the rejection that `HandleDriverResponse` handles.
- `created_at` of a group is never read; its `HSET` is folded into the
  `EXPIRE` after it. That an error of the script arrives as the text
  `OFFER_GROUP_NOT_FOUND` is taken from how the store compares it.
- `UpdatedAt` exists in `Fleet`, the only module where something reads it.
  `lastSeenAt` is abstracted to membership in `silent`: the TTL may pass at any
  time. `Upsert`'s check against the future cannot fire, since `UpdateLocation`
  passes it the time of arrival.
- `Upsert` of `DriverStore` replaces the whole entry by the caller's, whatever
  that says. Its only caller in the repository is `UpdateLocation`, which passes
  a copy from `Get` or a fresh idle entry; `Fleet` has it with its comparison of
  times. `FirstUpsert` of `Matching` is the whole effect of a heartbeat there: a
  driver enters the pool, and nobody is evicted.
- `Protocol` of `Fleet` are the calls that stamp `UpdatedAt`, by anybody:
  `TransitionStatus` to any status, `SetIntent`, `TryLockIntent`, `ClearIntent`;
  `Respond` is `RespondToIntent`, which does not stamp. Nothing in the program
  calls `TryLockIntent` or `RespondToIntent`; the repository offers them.
- `Churn` keeps of a heartbeat what `Fleet` proves of it: with one heartbeat
  per driver at a time, `StatusKept` lets it change an entry only after the
  driver was evicted. Without a `torn` driver the entry is written back as it
  is, so in `Churn` `Upsert` leaves a present driver alone.
- `torn` of `Fleet` is a history variable: it records evictions and
  `RespondToIntent`s between a heartbeat's `Get` and its `Upsert`, which no
  timestamp tells it of, and no action reads it but those that maintain it.
- Cells of `SpatialIndex` have a distance with `GridDisk(c, k)` the cells
  within `k`; the hexagonal geometry is the H3 library's.

## 3. The runs

| Run | Bounds | What it shows | States |
|---|---|---|---|
| `dispatcher` | 2 workers, channel of 2, 3 retries | `RetryBounded`, `FullQueueDrains`, `WorkersReturn` | 6,595 |
| `assignment` | 2 drivers, 2 riders, 2 matchers, 2 workers, no faults | all safety properties of the protocol, `ReservationHeld` among them, and that it implements `Booking` | 150,785 |
| `release` | 2 drivers, 2 riders, 1 matcher, 2 workers, drivers accept | `ReservationReleased`, `MatchReturns`, `RideFollowsOffer` | 39,896 |
| `faults` | 2 drivers, 1 rider, 1 matcher, 2 workers, channel of 1, 2 attempts, drivers accept | what survives errors of Redis and the ride store; `NobodyStranded` | 1,892,889 |
| `restart` | 2 drivers, 2 riders, 1 matcher, 1 worker | old groups in Redis lead to no double booking after a crash | 17,490 |
| `churn` | 1 driver, 2 riders, 1 matcher, 1 worker | what survives eviction, heartbeats and recovery at once | 900,704 |
| `fleet` | 1 driver, 2 riders, 2 heartbeats, 3 fixes, 6 readings of the clock, eviction; `Strict`, no reordering | any order of repository calls with heartbeats in the middle of them: `StatusKept`, `ReservationDropped`, `SinceOnlyMatching`, `LocationMonotonic` | 660,719 |
| `spatial` | 3 drivers, 4 cells in a row; quadtree with 4 insertions, capacity 1 | the index implements `Directory`, searches and quadtree queries are exact | 81,495 |
| `rides` | 2 drivers, 2 riders, 2 creators, 1 updater, 3 rides, failing statements | both repositories implement `RideLedger` (`PostgresImplements`, `MemoryImplements`); `CreatedOnce` | 85,209 |

Three runs end in a counterexample, each a disagreement between the code and what
the repository says of it:

| Run | Property | What happens |
|---|---|---|
| `double_booking` | `NoDoubleBooking` | the reply of Accept is lost, the driver is released and booked for another rider, the retry wins again and finalizes a second ride |
| `ghost` | `IndexMirrors` | a heartbeat has written the repository; eviction deletes the driver from both stores; the heartbeat's second step puts it back in the index, where nothing removes it again |
| `updates_lost` | `UpdatesAreStored` | `UpdateRideStatus` finds a ride by its rider and validates the new status, then stores it under the ride's ID, which is no key of the map: "ride not found" |

**Why the bounds are enough.** Every hazard of the protocol is between two
parties: two requests for one driver, two drivers for one rider, a delivery and
its retry, an old group and a new one. Two of each give every such pair, and two
matchers and two workers let all of them be in the middle of a call together. A
run of `assignment` reuses matchers, so a rider is matched any number of times.
A channel of two with two drivers is never full without faults (`OffersAlwaysFit`);
`faults` has a channel of one. A driver's completion of a ride (BUSY to IDLE)
has no code in the program, so a busy driver stays busy and the runs are finite
without a constraint. `faults` has one rider and stops at shutdown (`Running`),
because the other runs cover both; it needs two workers and two attempts so that
a retry can overlap another delivery. `release` lets drivers accept only: a
reject takes the clean-up path that a lost race takes there too.
`restart` and `churn` need a single goroutine of each kind, since the crash,
the eviction and the recovery are the second party; `churn` has one driver,
whose properties there are about one driver, and two riders, so that a
reservation can be for the wrong one. `fleet` has one driver because drivers
share nothing but the clock, two riders so that an answer can be for the wrong
one, two heartbeats because three add no new pair, and
enough fixes and readings for a heartbeat, a protocol step, an eviction and
another heartbeat. In `spatial` the thresholds 50/15/5 of `adaptiveMaxRings`
become 3/2/1, so that three drivers reach every branch; four cells in a row have
a cell inside, at and beyond every radius asked for. A behaviour of `spatial`
uses the index or the quadtree, a behaviour of `rides` one of the two
repositories: they share a run because a program is wired with one of them.

Symmetry is used in safety runs only.

**Deadlock** is checked where the program should not stop: in `dispatcher`,
`assignment`, `release`, `faults`, `restart`. It is off in `churn`
(a panic of `FindStuckMatching` ends the process), in `fleet`, `rides` and
`spatial` (fixes, clock readings, rides and insertions are bounded).

**Fairness.** A `Match` call that has begun and a worker that can act both get
their turn (`WF`): they are goroutines of a running process whose calls do not
block. Nobody has to send a request, no group has to expire, and nothing has to
stop. In `Dispatcher` a worker waiting in its select with both cases ready
chooses `ctx.Done()` at some point, since Go picks among ready cases at random
(`SF` of `Exit`), and the sender returns. The other modules state no liveness:
no code in the program starts their loops.

## 4. What the models say about the code

Beside the three counterexamples, reading the code for the models and switching
their constants showed:

- `updates_lost` is no accident of an order: no update of a ride's status is
  ever stored by the memory repository (`UpdatesAreLost`, section 5).
  `MemoryImplements` therefore says something of `CreateIfAbsent` only.
- Rides that are updated through Postgres follow `ValidateRideTransition` as
  long as two updates of one ride do not overlap; the store does not compare
  the status that was validated.
- What a heartbeat can still undo: an eviction under it brings the old entry
  back, and an answer by `RespondToIntent` under it is overwritten, since that
  method leaves `UpdatedAt` as it was. `TryLockIntent` of an idle driver, a
  heartbeat's `Get`, the eviction and the `Upsert` leave an idle driver with an
  Intent; `StatusKept` and `ReservationDropped` make exactly these exceptions.
- A full channel leaves a driver in MATCHING with no offer, since `Match` logs
  `ErrQueueFull` and goes on. Nothing else does that (`NobodyStranded`), and
  with room for one offer per driver it cannot happen (`ReservationHeld`).
- A `Create` that fails, or a process that ends, after `HSETNX` leaves a group
  without a time to live; `GroupExpires` holds otherwise.
- With `Strict` FALSE (a clock that repeats a reading) a heartbeat can write an
  old status back; with `Reorders` TRUE a position can go back, because a packet
  is stamped on arrival.
- `FindStuckMatching` dereferences a nil Intent as soon as a driver without one
  is not overdue, and takes a fresh Intent of `SetIntent` for expired. `Recover`
  may free a driver that became busy after it was listed.
- Eviction deletes busy drivers; such a driver comes back idle and may be booked
  again, which is why `NoDoubleBooking` is no property of `churn`.
- `Insert` of a driver already in another cell leaves it in both; `UpdateLocation`
  uses `Update`, which does not.
- Parts that do not fit together as written: `H3Index.Nearby` has another
  signature than the index interface of `internal/service`, the Postgres
  repository's `UpdateStatus` takes no context and so is no `ride.Repository`,
  `InMemoryDriverRepository` has no `Alll` and no `ListByCell`, so it is no
  `repository.DriverRepository` (the matching service declares an interface of
  its own), and `cmd/api` starts neither ingestion nor eviction nor recovery and
  registers no handler that calls `Match`. Those modules model the code as it
  would run once started.

## 5. What is proved

Every theorem is for all values of the constants allowed by the named
assumptions, which ask that model values are distinct, that capacities, fanout
and retries are positive, that distances and bounds are natural numbers, that
switches are Booleans and that the quadtree's sides can be halved; further
assumptions are given below. Every safety property and every refinement that a
passing run checks is the conclusion of a theorem.

`Matching_proofs`, faults included unless stated:

- `TypeCorrect`: the types of all components and of the locals of every call. An
  `"arm"`, `"offer"` or `"clear"` statement has drivers left, and a handler runs
  exactly while its worker sends: the facts the other proofs start from.
- `FirstAcceptIsFinal`: while a group lives its winner does not change. Every
  step writes `groups` by one of four operations (`GroupSteps`).
- `RideIsKept`: an active ride is never replaced; only `CreateIfAbsent` writes
  rides (`RideSteps`).
- `IntentIsDropped`: a driver outside MATCHING carries no Intent (`DriverSteps`).
- `BusyHasRide`: a busy driver has a ride. Not inductive: strengthened by
  "a handler about to commit has created its ride".
- `GroupsExpire` (Redis does not fail): a group has a time to live or its
  creator is about to set it. A group appears only under a `Match` call that
  goes on to `EXPIRE` (`GroupAppears`) and leaves it only by running it
  (`ArmingEnds`).
- `OnlyFullChannelsStrand`: a driver in MATCHING that no `Match` call, offer or
  delivery has in hand (`Stranded`) was left so by a full channel. Step by step
  whoever has the driver keeps it (`MatcherKeeps`), hands it on (`SendHandsOn`,
  `WorkerKeeps`), or takes it out of MATCHING: no error path forgets one.

`Assignment_proofs`, under `FaultFree` (with faults `double_booking` is a
counterexample): `DriversAreBookedOnce`, `RidesKeepTheirDriver`,
`ClaimsAreExclusive`, `ClaimsAreReserved`, `NothingIsUndone`, and
`OffersAlwaysFit` for a finite set of drivers. `NoDoubleBooking` is not
inductive: nothing in it stops two workers from finalizing the same driver. The
invariant `IInv` follows the *claim* on a driver. It is held by one `Match`
call, one offer in the channel or one delivery (`SoleClaim`); the claimed driver
is in MATCHING with the Intent of the claim's rider, or with none between
`Reserve` and `AttachIntent` and between `ClearIntent` and `Release`
(`ClaimsReserved`); the driver of an active ride is BUSY or under a handler that
is about to commit it (`RideKeepsDriver`); and nothing is undone (`NoRollback`),
so that a claim is never given up by its holder while another goroutine still
acts on it. Then `Reserve` takes only a driver that has no claim and no ride,
`SendOffer` and `TakeOffer` hand the claim on, and `Finalize` gives a ride to a
driver that has none. There is one lemma per step that moves a claim, and
`QuietSteps` for those that move none. `OffersAlwaysFit` counts: the channel's
offers go to different drivers, none of them one the `Match` call still has, so
they map injectively into the other drivers. With it `ReservationsAreHeld`
follows from the steps of `OnlyFullChannelsStrand`: no driver is ever stranded.

The same module proves `ProtocolImplementsBooking` (`FaultFree`). Every step of the
protocol holds, releases or books one driver, or leaves what `Booking` sees
unchanged; `AttachIntent` holds, `ClearIntent` releases, `Finalize` books.

`Disturbances_proofs`, the protocol when something acts beside it:

- Restarts. `RestartTypeCorrect`, `RestartFirstAcceptIsFinal` and
  `RestartBusyHasRide` with faults; `RestartBooksOnce` (with `RideKeepsDriver`),
  `RestartClaimsAreReserved` (with `SoleClaim`) and `RestartStrandsNobody` (with
  `ReservationHeld`) under `FaultFree`. `IInv` says nothing of groups, so a
  crash, which keeps only those, re-establishes it.
- Eviction, heartbeats and recovery at once, faults included:
  `ChurnTypeCorrect`, `ChurnBusyHasRide`, `ChurnIntentIsDropped`,
  `ChurnDecisionsAreFinal` (`FirstAcceptWins` and `RideKept`). The invariant of
  `Matching_proofs` is not inductive here, because a heartbeat may write back an
  entry it read long ago. `ChurnInv` adds `ReadingHolds`: what a heartbeat has
  read satisfies what the properties say of the stored entry. It stays so: an
  Intent in the copy cannot go stale by itself, and a busy copy was read when
  the driver had a ride, which no step takes away.
- The steps of the protocol enter as the lemmas of `Matching_proofs`
  (`CommitStep`, `BusyStep`, `StaleIntentStep`), which ask for nothing but the
  types and the invariant before the step.

`Dispatcher_proofs`: `DispatcherTypeCorrect`, `RetriesAreBounded`. The channel
and every worker hold only offers with an attempt left, because an offer that
is not given up has one left after it is counted (`RetriedFacts`).

`Fleet_proofs`: `FleetTypeCorrect`; `HeartbeatsKeepStatus` (`Strict`), from
`CopyCurrent`: the copy a heartbeat has read is the driver's entry, or the entry
has a later stamp, or the driver is `torn` (evicted or answered under it), and what it read of an unknown driver
is a fresh one; `LocationsMoveForward` (`Strict`, no
reordering), from `FlyingIsNewer`, `BeatsInOrder`, `AcceptedIsNewer`: fixes under
way are newer than those that arrived, heartbeats that arrived later carry later
fixes, and a heartbeat that `Upsert` accepts is newer than what is stored.
`SinceFollowsStatus` (any clock) has the comment "nil unless matching" of
`internal/domain/driver.go:17` for the methods in any order and heartbeats
between them. The invariant `MarkInv` says it of the entries and of the copies that
heartbeats carry, since `Upsert` stores a copy as it is; the methods keep it
(`TransitionStatus` leaves `MatchingSince` as it is on the way to OFFLINE, but no
edge leads from MATCHING there). `ReservationIsDropped` (`Strict`) follows from
the methods and from `CopyCurrent`: an accepted copy changes no status.
`IndexMirrorsRepository` is the other side of the run `ghost`: without eviction,
and for the behaviours in which no driver has two heartbeats under way
(`OneAtATime`), `IndexMirrors` holds on any clock and with packets in any order,
because what a heartbeat is about to put in the index is what the repository
has (`CarriesStored`). Of the two hypotheses `ghost` shows the first to be
needed; two heartbeats of one driver may also reach the index in the other order
than the repository. `FleetAssumption` asks that "no entry in the index" is not
an entry.

`SpatialIndex_proofs`: `TwoMapsAgree`, `NearbyIsExact`, and `IndexIsDirectory`, that
the two maps implement one. For the searches, `SearchTypeCorrect`,
`NearerRingFirst`, and `AnswersAreExact` for a finite set of drivers, for any
geometry of cells, thresholds and targets. Neither answer property says anything
of a search under way; `SearchInv` does: what was found is wanted, within the
ring reached, and nobody twice (`FoundWanted`, `FoundOnce`), and whoever is
wanted in a smaller ring was found (`InnerSeen`). When the search returns with
fewer drivers than asked for, the positions of the answer map one to one onto
the drivers within reach, hence the two numbers agree.

The same module proves `QueriesAreExact` of the quadtree, for any points, ranges,
capacity and number of insertions. `TreeAssumption` asks that the boundary's
sides can be halved once per insertion without remainder, as the demo's can
until a float64 runs out of digits. `TreeInv` says that a stored point lies in
its node's boundary and in all above it (`StoredInside`), so a query that meets
the point meets them all (`CommonPoint`); that it is stored once; and where an
`Insert` under way is: the nodes above contain its point, the earlier siblings do
not (`OnItsWay`). Since the quadrants of a node cover it (`QuadrantsCover`), one
of the siblings left takes the point (`SiblingLeft`): the `false` of a fourth
child, which would lose it, never comes. That the sides stay even needs a bound
on the depth, `Depth`: a node is divided for a later point than those it holds,
so no node is deeper than there were insertions before it.

`Rides_proofs`, for both repositories (`BothTypesCorrect`):

- Memory: `UpdatesAreLost`, which says of every update what the counterexample
  of `updates_lost` shows of one, and `MemoryImplementsLedger`. A status about to be
  stored is filed under a ride ID, which is no key of the map
  (`RidesAssumption`: no ride ID is a rider's ID).
- Postgres: `RideIsCreatedOnce` for any number of callers, and
  `PostgresImplementsLedger` for at most one update at a time, with any number of
  callers that create. Two overlapping updates can leave the ledger: each
  validates the same status, and the second writes over what the first wrote.
  `PostgresInv` says that an active row is its rider's last (`ActiveIsLast`) and
  that an update under way was validated against the status the row still has
  (`ChecksHold`).

## 6. Model-checked only

- Liveness under fairness (`ReservationReleased`, `MatchReturns`,
  `RideFollowsOffer`, `FullQueueDrains`, `WorkersReturn`), which the prover does
  not handle.
- The three counterexamples. The model under them is the one the theorems are
  about: `double_booking` needs `RedisCanFail`, which `FaultFree` excludes.

## 7. Not modelled

- HTTP, logging, JSON and the browser demo: I/O without state of the service.
- The H3 cell geometry and `DistanceMeters`: a library's, and floating-point.
- `GetWinner` and `Remove` of the offer groups: nothing in the program calls them.
- The prototypes in `internal/temp`, superseded and mostly commented out.
- The demo server's handlers, which share the quadtree without a lock: the
  outcomes of that race on Go slices are unbounded. `QTree` runs one `Insert` at a
  time and asks its queries between the steps of it.
- The database schema is not in the repository; `PostgresRides` takes the unique
  constraint by the name `postgre.go` gives it.

What a next step could add: overlapping updates in `PostgresRides` once the code
compares the validated status, and a completion step (BUSY to IDLE) when the
program has one.
