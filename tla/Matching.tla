-------------------------------- MODULE Matching -------------------------------
(***************************************************************************)
(* The assignment protocol: internal/matching/service.go running over the  *)
(* driver repository, the offer groups in Redis, the ride store and the    *)
(* offer dispatcher.                                                       *)
(*                                                                         *)
(* Match runs on the goroutine of the request (a matcher); a driver's      *)
(* answer is handled by HandleDriverResponse on the dispatcher worker that *)
(* delivers the offer (internal/events/inmemory_offersender.go).  Each     *)
(* call into a component is one step; everything may happen in between.    *)
(***************************************************************************)
EXTENDS Naturals, Sequences, FiniteSets

CONSTANTS
  Drivers,        \* driver IDs
  Riders,         \* rider IDs
  NoDriver,       \* no driver
  NoRider,        \* the nil Intent
  Matchers,       \* goroutines that run Match
  Workers,        \* dispatcher workers
  NoOffer,        \* a worker that holds no offer
  Fanout,         \* fanout of Match
  QueueCap,       \* capacity of the dispatcher's channel
  MaxRetries,     \* maxRetries of the dispatcher
  Responses,      \* what a driver may answer
  RedisCanFail,   \* whether a Redis command may return an error
  StoreCanFail    \* whether the ride store may return an error

VARIABLES
  drivers,        \* the driver repository
  groups,         \* the offer groups in Redis
  rides,          \* the ride store
  queue,          \* the dispatcher's channel
  worker,         \* the dispatcher's workers
  stopped,        \* whether the dispatcher is stopped
  match,          \* matcher -> the locals of its Match call
  handler         \* worker -> the locals of its HandleDriverResponse call

Store   == INSTANCE DriverStore
Redis   == INSTANCE OfferGroups
RideLog == INSTANCE RideStore
Queue   == INSTANCE Dispatcher

vars == <<drivers, groups, rides, queue, worker, stopped, match, handler>>

ASSUME MatchingAssumption ==
  /\ NoRider \notin Riders
  /\ NoDriver \notin Drivers
  /\ Fanout \in Nat \ {0}
  /\ QueueCap \in Nat \ {0}
  /\ MaxRetries \in Nat \ {0}
  /\ NoOffer \notin Queue!Offer
  /\ Responses \subseteq {"accept", "reject"}
  /\ RedisCanFail \in BOOLEAN
  /\ StoreCanFail \in BOOLEAN

-----------------------------------------------------------------------------
(* A call of Match: the statement it is at, its rider, the ranked          *)
(* candidates still to visit, the driver at hand, and lockedDrivers minus  *)
(* those already offered or rolled back.  The ranking is abstracted to     *)
(* "any order", the spatial index to "any drivers, up to the fanout".      *)
MatchPC == {"ready", "pick", "reserve", "intent", "undo",
            "arm", "offer", "clear", "free"}

AtDriver == {"reserve", "intent", "undo", "free"}

MatchCall == [pc: MatchPC,
              rider: Riders \cup {NoRider},
              cands: SUBSET Drivers,
              driver: Drivers \cup {NoDriver},
              locked: SUBSET Drivers]

Ready == [pc |-> "ready", rider |-> NoRider, cands |-> {},
          driver |-> NoDriver, locked |-> {}]

(* A call of HandleDriverResponse, and whether it will return an error.    *)
(* Its driver and rider are those of the worker's offer.                   *)
HandlerPC == {"none", "respond", "finalize", "commit", "clear", "release"}

HandlerCall == [pc: HandlerPC, err: BOOLEAN]

NoCall == [pc |-> "none", err |-> FALSE]

MatchTypeOK ==
  /\ match \in [Matchers -> MatchCall]
  /\ \A m \in Matchers :
       /\ match[m].pc = "ready" => match[m].locked = {}
       /\ match[m].pc # "ready" => match[m].rider \in Riders
       /\ match[m].driver # NoDriver <=> match[m].pc \in AtDriver
       /\ match[m].pc \in {"arm", "offer", "clear"} => match[m].locked # {}

HandlerTypeOK ==
  /\ handler \in [Workers -> HandlerCall]
  /\ \A w \in Workers : handler[w].pc # "none" <=> worker[w].at = "sending"

TypeOK ==
  /\ Store!TypeOK
  /\ Redis!TypeOK
  /\ RideLog!TypeOK
  /\ Queue!TypeOK
  /\ MatchTypeOK
  /\ HandlerTypeOK

Init ==
  /\ Store!Init
  /\ Redis!Init
  /\ RideLog!Init
  /\ Queue!Init
  /\ match = [m \in Matchers |-> Ready]
  /\ handler = [w \in Workers |-> NoCall]

-----------------------------------------------------------------------------
(* Match, service.go:69-214.                                               *)

At(m, pc) == match[m].pc = pc

Becomes(m, call) == match' = [match EXCEPT ![m] = call]

(* What one statement does to the locals of the call.                      *)
StepTo(call, pc) == [call EXCEPT !.pc = pc]

Begun(r, C) == [Ready EXCEPT !.pc = "pick", !.rider = r, !.cands = C]

Visit(call, d) == [call EXCEPT !.pc = "reserve", !.driver = d, !.cands = @ \ {d}]
Skip(call, d)  == [call EXCEPT !.cands = @ \ {d}]
Continue(call) == [call EXCEPT !.pc = "pick", !.driver = NoDriver]
Lock(call)     == [call EXCEPT !.pc = "pick", !.driver = NoDriver,
                               !.locked = @ \cup {call.driver}]

Undo(call, d)  == [call EXCEPT !.pc = "free", !.driver = d, !.locked = @ \ {d}]

AfterUndo_Once(call) == Ready

(* The last locked driver ends the call.                                   *)
AfterUndo(call) ==
  IF call.locked = {} THEN Ready
                      ELSE [call EXCEPT !.pc = "clear", !.driver = NoDriver]

AfterOffer_Forever(call, d) == [call EXCEPT !.locked = @ \ {d}]

AfterOffer(call, d) ==
  IF call.locked = {d} THEN Ready ELSE [call EXCEPT !.locked = @ \ {d}]

StartMatch(m) ==
  /\ At(m, "ready")
  /\ \E r \in Riders, C \in SUBSET Drivers :
       /\ Cardinality(C) <= Fanout
       /\ Becomes(m, Begun(r, C))
  /\ UNCHANGED <<drivers, groups, rides, queue, worker, stopped, handler>>

(* Get: only a driver that is idle in the repository is worth reserving.   *)
Revalidate(m) ==
  /\ At(m, "pick")
  /\ \E d \in match[m].cands :
       Becomes(m, IF drivers[d].status = "idle" THEN Visit(match[m], d)
                                                ELSE Skip(match[m], d))
  /\ UNCHANGED <<drivers, groups, rides, queue, worker, stopped, handler>>

(* TransitionStatus(MATCHING) is the exclusive lock; losing it moves on.   *)
Reserve_Trusting(m) ==
  /\ At(m, "reserve")
  /\ Store!TransitionStatus(match[m].driver, "matching")
  /\ Becomes(m, StepTo(match[m], "intent"))
  /\ UNCHANGED <<groups, rides, queue, worker, stopped, handler>>

Reserve(m) ==
  /\ At(m, "reserve")
  /\ Store!TransitionStatus(match[m].driver, "matching")
  /\ Becomes(m, IF Store!TransitionOK(match[m].driver, "matching")
                THEN StepTo(match[m], "intent") ELSE Continue(match[m]))
  /\ UNCHANGED <<groups, rides, queue, worker, stopped, handler>>

AttachIntent(m) ==
  /\ At(m, "intent")
  /\ Store!SetIntent(match[m].driver, match[m].rider)
  /\ Becomes(m, IF Store!SetIntentOK(match[m].driver)
                THEN Lock(match[m]) ELSE StepTo(match[m], "undo"))
  /\ UNCHANGED <<groups, rides, queue, worker, stopped, handler>>

UndoReserve(m) ==
  /\ At(m, "undo")
  /\ Store!TransitionStatus(match[m].driver, "idle")
  /\ Becomes(m, Continue(match[m]))
  /\ UNCHANGED <<groups, rides, queue, worker, stopped, handler>>

LoopDone(m) == At(m, "pick") /\ match[m].cands = {}

(* ErrNoDriversAvailable.                                                  *)
NoDriversAvailable_Retries(m) ==
  /\ LoopDone(m)
  /\ match[m].locked = {}
  /\ Becomes(m, Begun(match[m].rider, Drivers))
  /\ UNCHANGED <<drivers, groups, rides, queue, worker, stopped, handler>>

NoDriversAvailable(m) ==
  /\ LoopDone(m)
  /\ match[m].locked = {}
  /\ Becomes(m, Ready)
  /\ UNCHANGED <<drivers, groups, rides, queue, worker, stopped, handler>>

(* Create: HSETNX, then EXPIRE if this call created the key.               *)
CreateGroup_NoArm(m) ==
  /\ LoopDone(m)
  /\ match[m].locked # {}
  /\ Redis!SetPending(match[m].rider)
  /\ Becomes(m, StepTo(match[m], "offer"))
  /\ UNCHANGED <<drivers, rides, queue, worker, stopped, handler>>

CreateGroup(m) ==
  /\ LoopDone(m)
  /\ match[m].locked # {}
  /\ Redis!SetPending(match[m].rider)
  /\ Becomes(m, StepTo(match[m], IF Redis!Exists(match[m].rider) THEN "offer"
                                                                 ELSE "arm"))
  /\ UNCHANGED <<drivers, rides, queue, worker, stopped, handler>>

ArmExpiry(m) ==
  /\ At(m, "arm")
  /\ Redis!Arm(match[m].rider)
  /\ Becomes(m, StepTo(match[m], "offer"))
  /\ UNCHANGED <<drivers, rides, queue, worker, stopped, handler>>

(* A command of Create returns an error, having run in Redis or not.       *)
CreateFails(m) ==
  /\ RedisCanFail
  /\ \/ /\ LoopDone(m)
        /\ match[m].locked # {}
        /\ Redis!SetPending(match[m].rider) \/ UNCHANGED groups
     \/ /\ At(m, "arm")
        /\ Redis!Arm(match[m].rider) \/ UNCHANGED groups
  /\ Becomes(m, StepTo(match[m], "clear"))
  /\ UNCHANGED <<drivers, rides, queue, worker, stopped, handler>>

(* The rollback: ClearIntent, then TransitionStatus(IDLE), driver by       *)
(* driver.                                                                 *)
RollbackIntent(m) ==
  /\ At(m, "clear")
  /\ \E d \in match[m].locked :
       /\ Store!ClearIntent(d)
       /\ Becomes(m, Undo(match[m], d))
  /\ UNCHANGED <<groups, rides, queue, worker, stopped, handler>>

RollbackStatus(m) ==
  /\ At(m, "free")
  /\ Store!TransitionStatus(match[m].driver, "idle")
  /\ Becomes(m, AfterUndo(match[m]))
  /\ UNCHANGED <<groups, rides, queue, worker, stopped, handler>>

(* EnqueueDriverOffer: ErrQueueFull is logged and the driver kept.         *)
SendOffer(m) ==
  /\ At(m, "offer")
  /\ \E d \in match[m].locked :
       /\ Queue!EnqueueDriverOffer(d, match[m].rider)
       /\ Becomes(m, AfterOffer(match[m], d))
  /\ UNCHANGED <<drivers, groups, rides, handler>>

MatcherStep(m) ==
  \/ Revalidate(m) \/ Reserve(m) \/ AttachIntent(m) \/ UndoReserve(m)
  \/ NoDriversAvailable(m)
  \/ CreateGroup(m) \/ ArmExpiry(m) \/ CreateFails(m)
  \/ RollbackIntent(m) \/ RollbackStatus(m)
  \/ SendOffer(m)

-----------------------------------------------------------------------------
(* HandleDriverResponse, service.go:251-365.                               *)

Handles(w, pc) == handler[w].pc = pc

D(w) == worker[w].offer.driver
R(w) == worker[w].offer.rider

Proceed(w, pc, err) == handler' = [handler EXCEPT ![w] = [pc |-> pc, err |-> err]]

Returns(w, ok) ==
  /\ Queue!Return(w, ok)
  /\ handler' = [handler EXCEPT ![w] = NoCall]

TakeOffer(w) ==
  /\ Queue!Take(w)
  /\ Proceed(w, "respond", FALSE)
  /\ UNCHANGED <<drivers, groups, rides, match>>

Reject(w) ==
  /\ Handles(w, "respond")
  /\ "reject" \in Responses
  /\ Proceed(w, "clear", FALSE)
  /\ UNCHANGED <<drivers, groups, rides, queue, worker, stopped, match>>

(* Accept in Redis: a lost race and an expired group are not errors.       *)
Accept_CommitsAtOnce(w) ==
  /\ Handles(w, "respond")
  /\ "accept" \in Responses
  /\ Redis!Accept(R(w), D(w))
  /\ Proceed(w, IF Redis!Verdict(R(w), D(w)) = "won" THEN "commit" ELSE "clear",
             FALSE)
  /\ UNCHANGED <<drivers, rides, queue, worker, stopped, match>>

Accept(w) ==
  /\ Handles(w, "respond")
  /\ "accept" \in Responses
  /\ Redis!Accept(R(w), D(w))
  /\ Proceed(w, IF Redis!Verdict(R(w), D(w)) = "won" THEN "finalize" ELSE "clear",
             FALSE)
  /\ UNCHANGED <<drivers, rides, queue, worker, stopped, match>>

AcceptFails(w) ==
  /\ RedisCanFail
  /\ Handles(w, "respond")
  /\ "accept" \in Responses
  /\ Redis!Accept(R(w), D(w)) \/ UNCHANGED groups
  /\ Proceed(w, "clear", TRUE)
  /\ UNCHANGED <<drivers, rides, queue, worker, stopped, match>>

(* FinalizeAssignment: only the call that created the ride goes on.        *)
Finalize_Unchecked(w) ==
  /\ Handles(w, "finalize")
  /\ RideLog!CreateIfAbsent(R(w), D(w))
  /\ Proceed(w, "commit", FALSE)
  /\ UNCHANGED <<drivers, groups, queue, worker, stopped, match>>

Finalize(w) ==
  /\ Handles(w, "finalize")
  /\ RideLog!CreateIfAbsent(R(w), D(w))
  /\ Proceed(w, IF RideLog!Creates(R(w)) THEN "commit" ELSE "clear", FALSE)
  /\ UNCHANGED <<drivers, groups, queue, worker, stopped, match>>

FinalizeFails(w) ==
  /\ StoreCanFail
  /\ Handles(w, "finalize")
  /\ RideLog!CreateIfAbsent(R(w), D(w)) \/ UNCHANGED rides
  /\ Proceed(w, "clear", TRUE)
  /\ UNCHANGED <<drivers, groups, queue, worker, stopped, match>>

(* TransitionStatus(BUSY): its error is returned with nothing undone.      *)
Commit(w) ==
  /\ Handles(w, "commit")
  /\ Store!TransitionStatus(D(w), "busy")
  /\ Returns(w, Store!TransitionOK(D(w), "busy"))
  /\ UNCHANGED <<groups, rides, match>>

(* Every other way out: ClearIntent, then TransitionStatus(IDLE).          *)
ClearIntent(w) ==
  /\ Handles(w, "clear")
  /\ Store!ClearIntent(D(w))
  /\ Proceed(w, "release", handler[w].err)
  /\ UNCHANGED <<groups, rides, queue, worker, stopped, match>>

Release_Forgets(w) ==
  /\ Handles(w, "release")
  /\ Returns(w, ~handler[w].err)
  /\ UNCHANGED <<drivers, groups, rides, match>>

Release(w) ==
  /\ Handles(w, "release")
  /\ Store!TransitionStatus(D(w), "idle")
  /\ Returns(w, ~handler[w].err)
  /\ UNCHANGED <<groups, rides, match>>

RetryOffer(w) ==
  /\ Queue!Retry(w)
  /\ UNCHANGED <<drivers, groups, rides, match, handler>>

ExitWorker(w) ==
  /\ Queue!Exit(w)
  /\ UNCHANGED <<drivers, groups, rides, match, handler>>

WorkerStep(w) ==
  \/ TakeOffer(w) \/ Reject(w) \/ Accept(w) \/ AcceptFails(w)
  \/ Finalize(w) \/ FinalizeFails(w) \/ Commit(w)
  \/ ClearIntent(w) \/ Release(w) \/ RetryOffer(w) \/ ExitWorker(w)

-----------------------------------------------------------------------------
(* The surroundings: a driver goes online, a group's five seconds are      *)
(* over, the process begins to shut down.                                  *)

FirstUpsert(d) == drivers[d] = Store!Absent /\ Store!Upsert(d, Store!Fresh)

Register(d) ==
  /\ FirstUpsert(d)
  /\ UNCHANGED <<groups, rides, queue, worker, stopped, match, handler>>

ExpireGroup(r) ==
  /\ Redis!Expire(r)
  /\ UNCHANGED <<drivers, rides, queue, worker, stopped, match, handler>>

StopDispatcher ==
  /\ Queue!Stop
  /\ UNCHANGED <<drivers, groups, rides, match, handler>>

Next ==
  \/ \E m \in Matchers : StartMatch(m) \/ MatcherStep(m)
  \/ \E w \in Workers : WorkerStep(w)
  \/ \E d \in Drivers : Register(d)
  \/ \E r \in Riders : ExpireGroup(r)
  \/ StopDispatcher

Spec == Init /\ [][Next]_vars

(* A request that has begun and a worker that can act both get their turn: *)
(* they are goroutines of a running process.  No rider, driver or timer    *)
(* has to act.                                                             *)
Fairness ==
  /\ \A m \in Matchers : WF_vars(MatcherStep(m))
  /\ \A w \in Workers : WF_vars(WorkerStep(w))

FairSpec == Spec /\ Fairness

-----------------------------------------------------------------------------
(* The safety properties.                                                  *)

FaultFree == ~RedisCanFail /\ ~StoreCanFail

HasRide(d) == \E r \in Riders : RideLog!Active(r) /\ rides[r].driver = d

(* Who may still act on a driver: a Match call that has reserved it, an    *)
(* offer in the channel, a worker that delivers one.                       *)
MatcherClaims(m, d) ==
  \/ d \in match[m].locked
  \/ match[m].pc \in {"intent", "undo", "free"} /\ match[m].driver = d

WorkerClaims(w, d) == worker[w].offer # NoOffer /\ D(w) = d

Offered(d) == \E i \in 1 .. Len(queue) : queue[i].driver = d

OneHolder(d) ==
  /\ \A m, n \in Matchers : MatcherClaims(m, d) /\ MatcherClaims(n, d) => m = n
  /\ \A v, w \in Workers : WorkerClaims(v, d) /\ WorkerClaims(w, d) => v = w
  /\ \A i, j \in 1 .. Len(queue) :
       queue[i].driver = d /\ queue[j].driver = d => i = j
  /\ \A m \in Matchers : MatcherClaims(m, d) => ~Offered(d)
  /\ \A w \in Workers : WorkerClaims(w, d) => ~Offered(d)
  /\ \A m \in Matchers, w \in Workers : ~(MatcherClaims(m, d) /\ WorkerClaims(w, d))

(* No driver has two active rides: docs/architecture.md:18 "No             *)
(* double-booking (atomic assignment)".                                    *)
NoDoubleBooking ==
  \A r1, r2 \in Riders :
    /\ RideLog!Active(r1)
    /\ RideLog!Active(r2)
    /\ rides[r1].driver = rides[r2].driver
    => r1 = r2

(* "A ride MUST exist before a driver transitions to BUSY"                 *)
(* (internal/domain/ride.go:22), whatever fails.                           *)
RideBeforeBusy == \A d \in Drivers : drivers[d].status = "busy" => HasRide(d)

(* Conversely the driver of an active ride is busy, or the worker that     *)
(* created the ride is about to make it so: no ride is left with a driver  *)
(* who can be matched again.                                               *)
RideKeepsDriver ==
  \A r \in Riders :
    RideLog!Active(r) =>
      \/ drivers[rides[r].driver].status = "busy"
      \/ \E w \in Workers :
           Handles(w, "commit") /\ D(w) = rides[r].driver /\ R(w) = r

(* A reservation has one owner at a time: it is handed from the Match call *)
(* to the channel to a worker and never copied, so two goroutines never    *)
(* act on one driver ("Intent locks solve WHO owns the driver",            *)
(* docs/system.md:111).                                                    *)
SoleClaim ==
  /\ \A d \in Drivers : OneHolder(d)
  /\ \A m \in Matchers : At(m, "intent") => match[m].driver \notin match[m].locked

(* While somebody claims a driver, the repository has it in MATCHING, with *)
(* the intent of the rider the claim is for, and no ride has it: an offer  *)
(* is never delivered to a driver reserved for another rider.              *)
Reserved(d, r) ==
  /\ drivers[d].status = "matching"
  /\ drivers[d].intent = r
  /\ ~HasRide(d)

MatcherReserved(m) ==
  /\ \A d \in match[m].locked : Reserved(d, match[m].rider)
  /\ At(m, "intent") => Reserved(match[m].driver, NoRider)

OfferReserved(i) == Reserved(queue[i].driver, queue[i].rider)

WorkerReserved(w) ==
  /\ handler[w].pc \in {"respond", "finalize", "clear"} => Reserved(D(w), R(w))
  /\ Handles(w, "release") => Reserved(D(w), NoRider)
  /\ Handles(w, "commit") =>
       drivers[D(w)].status = "matching" /\ rides[R(w)] = RideLog!Assigned(D(w))

ClaimsReserved ==
  /\ \A m \in Matchers : MatcherReserved(m)
  /\ \A i \in 1 .. Len(queue) : OfferReserved(i)
  /\ \A w \in Workers : WorkerReserved(w)

(* Whatever fails, a driver that is not in MATCHING carries no Intent: no  *)
(* rider's claim survives the reservation it came with, and the next Match *)
(* call starts from a clean driver.                                        *)
NoStaleIntent ==
  \A d \in Drivers : drivers[d].status # "matching" => drivers[d].intent = NoRider

(* Without faults no Match call rolls anything back and no offer is        *)
(* retried: the error paths are reachable only through an error of Redis   *)
(* or of the ride store, never through a race between goroutines.          *)
NoRollback ==
  /\ \A m \in Matchers : match[m].pc \notin {"undo", "clear", "free"}
  /\ \A w \in Workers : worker[w].at # "sleeping" /\ ~handler[w].err

(* With room for one offer per driver the channel never refuses an offer   *)
(* of Match, however many riders and matchers there are.                   *)
OffersFit ==
  QueueCap >= Cardinality(Drivers) => \A m \in Matchers : At(m, "offer") => Queue!HasRoom

(* Who will still act on a driver's reservation: a Match call, the         *)
(* channel, or a delivery under way.                                       *)
InHand(d) ==
  \/ \E m \in Matchers : MatcherClaims(m, d)
  \/ Offered(d)
  \/ \E w \in Workers : ~Handles(w, "none") /\ D(w) = d

Stranded(d) == drivers[d].status = "matching" /\ ~InHand(d)

(* Without faults, and with room in the channel for one offer per driver,  *)
(* a driver in MATCHING has somebody who will make it BUSY or IDLE again,  *)
(* the two ways on that docs/system.md:34-36 knows.                        *)
ReservationHeld ==
  QueueCap >= Cardinality(Drivers) => \A d \in Drivers : ~Stranded(d)

(* Whatever fails and whatever is retried, only a full channel strands a   *)
(* reserved driver: no rollback ("You must rollback intent if OfferGroup   *)
(* creation fails", service.go:186) and no clean-up forgets one.           *)
NobodyStranded ==
  [][\A d \in Drivers : Stranded(d)' => Stranded(d) \/ ~Queue!HasRoom]_vars

(* First accept wins: while its group lives, a rider's winner never        *)
(* changes, and a decided group never becomes undecided.                   *)
FirstAcceptWins ==
  [][\A r \in Riders :
       groups[r].status = "accepted" /\ groups'[r].status # "missing"
         => groups'[r].status = "accepted" /\ groups'[r].winner = groups[r].winner]_vars

(* A rider's ride keeps its driver, even when the rider's group has        *)
(* expired, the rider is matched again and another driver wins the new     *)
(* group.                                                                  *)
RideKept ==
  [][\A r \in Riders : RideLog!Active(r) => rides'[r] = rides[r]]_vars

(* The protocol implements the abstract booking: a driver is held from     *)
(* SetIntent until ClearIntent, and booked by the ride store.              *)
Abstract == INSTANCE Booking WITH
  held   <- [d \in Drivers |-> IF drivers[d].status = "matching" /\ ~HasRide(d)
                               THEN drivers[d].intent ELSE NoRider],
  booked <- [r \in Riders |-> IF RideLog!Active(r) THEN rides[r].driver ELSE NoDriver]

Implements == Abstract!Spec

(* The Redis key of a rider whose Create is over has a time to live: "TTL  *)
(* guarantees auto-unlock" (docs/redis.md:17).                             *)
GroupExpires ==
  \A r \in Riders :
    Redis!Exists(r) =>
      groups[r].ttl \/ \E m \in Matchers : At(m, "arm") /\ match[m].rider = r

-----------------------------------------------------------------------------
(* The liveness properties.                                                *)

(* A driver does not stay in MATCHING: it becomes busy, or idle again      *)
(* (docs/system.md:34-36), unless the dispatcher is stopped.               *)
ReservationReleased ==
  \A d \in Drivers :
    drivers[d].status = "matching" ~> (drivers[d].status # "matching" \/ stopped)

(* Match returns: it waits neither for a driver nor for the queue.         *)
MatchReturns == \A m \in Matchers : match[m].pc # "ready" ~> match[m].pc = "ready"

(* When every driver accepts, a rider whose offers are going out gets a    *)
(* ride, unless its group expires first or the dispatcher is stopped.      *)
RideFollowsOffer ==
  \A r \in Riders :
    (\E m \in Matchers : At(m, "offer") /\ match[m].rider = r)
      ~> (RideLog!Active(r) \/ ~Redis!Exists(r) \/ stopped)
=============================================================================
