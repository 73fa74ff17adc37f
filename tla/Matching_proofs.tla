----------------------------- MODULE Matching_proofs ---------------------------
(***************************************************************************)
(* What holds of the assignment protocol for any number of drivers,        *)
(* riders, matchers and workers, any fanout, queue capacity and retry      *)
(* limit.                                                                  *)
(***************************************************************************)
EXTENDS Matching, TLAPS

-----------------------------------------------------------------------------
(* What the components' operations do to their types.                      *)

LEMMA StoreTypes ==
  ASSUME Store!TypeOK, NEW d \in Drivers,
         \/ \E to \in {"matching", "busy", "idle"} : Store!TransitionStatus(d, to)
         \/ \E r \in Riders : Store!SetIntent(d, r)
         \/ Store!ClearIntent(d)
         \/ FirstUpsert(d)
  PROVE  Store!TypeOK'
<1> USE DEF Store!TypeOK, Store!Entry, Store!DriverStatus
<1>1. ASSUME NEW to \in {"matching", "busy", "idle"}, Store!TransitionStatus(d, to)
      PROVE  Store!TypeOK'
  <2>1. Store!AfterTransition(drivers[d], to) \in Store!Entry
    BY DEF Store!AfterTransition
  <2>2. Store!TransitionOK(d, to) => drivers[d].status # "absent"
    BY DEF Store!TransitionOK, Store!CanTransition, Store!Edges
  <2>3. Store!AfterTransition(drivers[d], to).status # "absent"
    BY DEF Store!AfterTransition
  <2>4. QED
    BY <1>1, <2>1, <2>3 DEF Store!TransitionStatus
<1>2. CASE \E r \in Riders : Store!SetIntent(d, r)
  BY <1>2 DEF Store!SetIntent, Store!SetIntentOK
<1>3. CASE Store!ClearIntent(d)
  BY <1>3 DEF Store!ClearIntent
<1>4. CASE FirstUpsert(d)
  BY <1>4 DEF FirstUpsert, Store!Upsert, Store!Fresh, Store!Absent
<1>5. QED
  BY <1>1, <1>2, <1>3, <1>4

LEMMA GroupTypes ==
  ASSUME Redis!TypeOK, NEW r \in Riders,
         \/ Redis!SetPending(r) \/ Redis!Arm(r) \/ Redis!Expire(r)
         \/ \E d \in Drivers : Redis!Accept(r, d)
  PROVE  Redis!TypeOK'
<1> USE DEF Redis!TypeOK, Redis!Group
<1>1. Redis!Pending \in Redis!Group /\ Redis!Missing \in Redis!Group
  BY DEF Redis!Pending, Redis!Missing
<1>2. CASE Redis!SetPending(r)
  BY <1>1, <1>2 DEF Redis!SetPending
<1>3. CASE Redis!Arm(r)
  BY <1>3 DEF Redis!Arm
<1>4. ASSUME NEW d \in Drivers, Redis!Accept(r, d)
      PROVE  Redis!TypeOK'
  <2>1. [groups[r] EXCEPT !.status = "accepted", !.winner = d] \in Redis!Group
    OBVIOUS
  <2>2. \/ groups' = groups
        \/ groups' = [groups EXCEPT ![r] =
                         [groups[r] EXCEPT !.status = "accepted", !.winner = d]]
    BY <1>4 DEF Redis!Accept
  <2>3. QED
    BY <2>1, <2>2
<1>5. CASE Redis!Expire(r)
  BY <1>1, <1>5 DEF Redis!Expire
<1>6. QED
  BY <1>2, <1>3, <1>4, <1>5

LEMMA RideTypes ==
  ASSUME RideLog!TypeOK, NEW d \in Drivers, NEW r \in Riders,
         RideLog!CreateIfAbsent(r, d)
  PROVE  RideLog!TypeOK'
BY MatchingAssumption
   DEF RideLog!TypeOK, RideLog!Ride, RideLog!RideStatus, RideLog!ActiveStatus,
       RideLog!CreateIfAbsent, RideLog!Assigned

LEMMA OfferTypes ==
  ASSUME NEW o \in Queue!Offer
  PROVE  /\ o # NoOffer
         /\ o.driver \in Drivers /\ o.rider \in Riders /\ o.attempts \in 0 .. MaxRetries
BY MatchingAssumption DEF Queue!Offer

(* What enters and what leaves the channel.                                *)
LEMMA PutTypes ==
  ASSUME queue \in Seq(Queue!Offer), Len(queue) <= QueueCap,
         NEW o \in Queue!Offer, Queue!Put(o)
  PROVE  queue' \in Seq(Queue!Offer) /\ Len(queue') <= QueueCap
BY MatchingAssumption DEF Queue!Put, Queue!HasRoom

LEMMA QueueTypes ==
  ASSUME Queue!TypeOK, Queue!Next
  PROVE  Queue!TypeOK'
<1> USE MatchingAssumption DEF Queue!TypeOK, Queue!WorkerState
<1>1. ASSUME NEW d \in Drivers, NEW r \in Riders, Queue!EnqueueDriverOffer(d, r)
      PROVE  Queue!TypeOK'
  <2>1. Queue!FirstOffer(d, r) \in Queue!Offer
    BY DEF Queue!FirstOffer, Queue!Offer
  <2>2. QED
    BY <1>1, <2>1, PutTypes DEF Queue!EnqueueDriverOffer
<1>2. ASSUME NEW w \in Workers, Queue!Take(w)
      PROVE  Queue!TypeOK'
  <2>1. Head(queue) \in Queue!Offer /\ Tail(queue) \in Seq(Queue!Offer)
        /\ Len(Tail(queue)) <= QueueCap
    BY <1>2 DEF Queue!Take
  <2>2. QED
    BY <1>2, <2>1 DEF Queue!Take
<1>3. ASSUME NEW w \in Workers, Queue!Exit(w)
      PROVE  Queue!TypeOK'
  BY <1>3 DEF Queue!Exit, Queue!Gone
<1>4. ASSUME NEW w \in Workers, Queue!Retry(w)
      PROVE  Queue!TypeOK'
  <2>1. worker[w].offer \in Queue!Offer
    BY <1>4 DEF Queue!Retry
  <2>2. QED
    BY <1>4, <2>1, PutTypes DEF Queue!Retry, Queue!Waiting
<1>5. CASE Queue!Stop
  BY <1>5 DEF Queue!Stop
<1>6. ASSUME NEW w \in Workers, NEW ok \in BOOLEAN, Queue!Return(w, ok)
      PROVE  Queue!TypeOK'
  <2>1. worker[w].offer \in Queue!Offer
    BY <1>6 DEF Queue!Return
  <2>2. ~Queue!GivesUp(worker[w].offer) => Queue!Retried(worker[w].offer) \in Queue!Offer
    BY <2>1 DEF Queue!GivesUp, Queue!Retried, Queue!Offer
  <2>3. Queue!AfterSend(worker[w].offer, ok) \in
          [at : {"waiting"}, offer : {NoOffer}] \cup
          [at : {"sleeping"}, offer : Queue!Offer]
    BY <2>2 DEF Queue!AfterSend, Queue!Waiting
  <2>4. QED
    BY <1>6, <2>3 DEF Queue!Return
<1>7. QED
  BY <1>1, <1>2, <1>3, <1>4, <1>5, <1>6 DEF Queue!Next, Queue!WorkerStep

-----------------------------------------------------------------------------
(* Type correctness.                                                       *)

LEMMA InitType == Init => TypeOK
<1> SUFFICES ASSUME Init PROVE TypeOK
  OBVIOUS
<1>1. Store!TypeOK
  BY DEF Init, Store!Init, Store!TypeOK, Store!Entry, Store!Absent
<1>2. Redis!TypeOK
  BY DEF Init, Redis!Init, Redis!TypeOK, Redis!Group, Redis!Missing
<1>3. RideLog!TypeOK
  BY DEF Init, RideLog!Init, RideLog!TypeOK, RideLog!Ride, RideLog!NoRide
<1>4. Queue!TypeOK
  <2>1. queue \in Seq(Queue!Offer) /\ Len(queue) <= QueueCap
    BY MatchingAssumption DEF Init, Queue!Init
  <2>2. QED
    BY <2>1 DEF Init, Queue!Init, Queue!TypeOK, Queue!WorkerState, Queue!Waiting
<1>5. MatchTypeOK
  BY DEF Init, MatchTypeOK, MatchCall, MatchPC, AtDriver, Ready
<1>6. HandlerTypeOK
  BY DEF Init, HandlerTypeOK, HandlerCall, HandlerPC, NoCall, Queue!Init, Queue!Waiting
<1>7. QED
  BY <1>1, <1>2, <1>3, <1>4, <1>5, <1>6 DEF TypeOK

(* A component that a step leaves alone keeps its type.                    *)
LEMMA Frame ==
  /\ Store!TypeOK /\ UNCHANGED drivers => Store!TypeOK'
  /\ Redis!TypeOK /\ UNCHANGED groups => Redis!TypeOK'
  /\ RideLog!TypeOK /\ UNCHANGED rides => RideLog!TypeOK'
  /\ Queue!TypeOK /\ UNCHANGED <<queue, worker, stopped>> => Queue!TypeOK'
  /\ MatchTypeOK /\ UNCHANGED match => MatchTypeOK'
  /\ HandlerTypeOK /\ UNCHANGED <<handler, worker>> => HandlerTypeOK'
BY DEF Store!TypeOK, Redis!TypeOK, RideLog!TypeOK, Queue!TypeOK, MatchTypeOK,
       HandlerTypeOK

(* What each statement of Match does to the locals of the call.            *)
LEMMA StepToFacts ==
  ASSUME NEW c \in MatchCall, NEW pc \in MatchPC
  PROVE  /\ StepTo(c, pc) \in MatchCall
         /\ StepTo(c, pc).pc = pc
         /\ StepTo(c, pc).rider = c.rider
         /\ StepTo(c, pc).driver = c.driver
         /\ StepTo(c, pc).locked = c.locked
BY DEF MatchCall, MatchPC, StepTo

LEMMA VisitFacts ==
  ASSUME NEW c \in MatchCall, NEW d \in Drivers
  PROVE  /\ Visit(c, d) \in MatchCall
         /\ Visit(c, d).pc = "reserve"
         /\ Visit(c, d).driver = d
         /\ Visit(c, d).rider = c.rider
         /\ Visit(c, d).locked = c.locked
BY DEF MatchCall, MatchPC, Visit

LEMMA SkipFacts ==
  ASSUME NEW c \in MatchCall, NEW d \in Drivers
  PROVE  /\ Skip(c, d) \in MatchCall
         /\ Skip(c, d).pc = c.pc
         /\ Skip(c, d).rider = c.rider
         /\ Skip(c, d).driver = c.driver
         /\ Skip(c, d).locked = c.locked
BY DEF MatchCall, MatchPC, Skip

LEMMA ContinueFacts ==
  ASSUME NEW c \in MatchCall
  PROVE  /\ Continue(c) \in MatchCall
         /\ Continue(c).pc = "pick"
         /\ Continue(c).driver = NoDriver
         /\ Continue(c).rider = c.rider
         /\ Continue(c).locked = c.locked
BY DEF MatchCall, MatchPC, Continue

LEMMA LockFacts ==
  ASSUME NEW c \in MatchCall, c.driver \in Drivers
  PROVE  /\ Lock(c) \in MatchCall
         /\ Lock(c).pc = "pick"
         /\ Lock(c).driver = NoDriver
         /\ Lock(c).rider = c.rider
         /\ Lock(c).locked = c.locked \cup {c.driver}
BY DEF MatchCall, MatchPC, Lock

LEMMA UndoFacts ==
  ASSUME NEW c \in MatchCall, NEW d \in Drivers
  PROVE  /\ Undo(c, d) \in MatchCall
         /\ Undo(c, d).pc = "free"
         /\ Undo(c, d).driver = d
         /\ Undo(c, d).rider = c.rider
         /\ Undo(c, d).locked = c.locked \ {d}
BY DEF MatchCall, MatchPC, Undo

LEMMA AfterUndoFacts ==
  ASSUME NEW c \in MatchCall, c.locked # {}
  PROVE  /\ AfterUndo(c) \in MatchCall
         /\ AfterUndo(c).pc = "clear"
         /\ AfterUndo(c).driver = NoDriver
         /\ AfterUndo(c).rider = c.rider
         /\ AfterUndo(c).locked = c.locked
BY DEF MatchCall, MatchPC, AfterUndo

LEMMA AfterOfferFacts ==
  ASSUME NEW c \in MatchCall, NEW d \in Drivers, c.locked # {d}
  PROVE  /\ AfterOffer(c, d) \in MatchCall
         /\ AfterOffer(c, d).pc = c.pc
         /\ AfterOffer(c, d).rider = c.rider
         /\ AfterOffer(c, d).driver = c.driver
         /\ AfterOffer(c, d).locked = c.locked \ {d}
BY DEF MatchCall, MatchPC, AfterOffer

LEMMA ReadyFacts ==
  /\ Ready \in MatchCall
  /\ Ready.pc = "ready" /\ Ready.driver = NoDriver /\ Ready.locked = {}
  /\ \A r \in Riders, C \in SUBSET Drivers :
       /\ Begun(r, C) \in MatchCall
       /\ Begun(r, C).pc = "pick" /\ Begun(r, C).rider = r
       /\ Begun(r, C).driver = NoDriver /\ Begun(r, C).locked = {}
BY DEF Ready, Begun, MatchCall, MatchPC

(* Replacing the record of one Match call by a well-formed one.            *)
LEMMA MatchTypes ==
  ASSUME MatchTypeOK, NEW m \in Matchers, NEW c \in MatchCall, Becomes(m, c),
         c.pc = "ready" => c.locked = {},
         c.pc # "ready" => c.rider \in Riders,
         c.driver # NoDriver <=> c.pc \in AtDriver,
         c.pc \in {"arm", "offer", "clear"} => c.locked # {}
  PROVE  MatchTypeOK'
BY DEF MatchTypeOK, Becomes

(* A Match call at a driver has a rider and a driver.                      *)
LEMMA MatchFacts ==
  ASSUME MatchTypeOK, NEW m \in Matchers
  PROVE  /\ match[m] \in MatchCall
         /\ match[m].pc \in MatchPC
         /\ match[m].cands \subseteq Drivers /\ match[m].locked \subseteq Drivers
         /\ match[m].pc = "ready" => match[m].locked = {}
         /\ match[m].pc # "ready" => match[m].rider \in Riders
         /\ match[m].driver # NoDriver <=> match[m].pc \in AtDriver
         /\ match[m].pc \in AtDriver => match[m].driver \in Drivers
         /\ match[m].pc \in {"arm", "offer", "clear"} => match[m].locked # {}
BY DEF MatchTypeOK, MatchCall, AtDriver

(* A step of a Match call on well-formed locals leaves well-formed locals. *)
LEMMA MatcherLocals ==
  ASSUME MatchTypeOK, NEW m \in Matchers, StartMatch(m) \/ MatcherStep(m)
  PROVE  MatchTypeOK'
<1>1. /\ match[m] \in MatchCall
      /\ match[m].cands \subseteq Drivers /\ match[m].locked \subseteq Drivers
      /\ match[m].pc # "ready" => match[m].rider \in Riders
      /\ match[m].driver # NoDriver <=> match[m].pc \in AtDriver
      /\ match[m].pc \in AtDriver => match[m].driver \in Drivers
  BY MatchFacts
<1> USE <1>1, MatchTypes DEF At, AtDriver, MatchPC
<1>2. CASE StartMatch(m)
  BY <1>2, ReadyFacts DEF StartMatch
<1>3. CASE Revalidate(m)
  BY <1>3, VisitFacts, SkipFacts, MatchingAssumption DEF Revalidate
<1>4. CASE Reserve(m)
  BY <1>4, StepToFacts, ContinueFacts DEF Reserve
<1>5. CASE AttachIntent(m)
  BY <1>5, LockFacts, StepToFacts DEF AttachIntent
<1>6. CASE UndoReserve(m)
  BY <1>6, ContinueFacts DEF UndoReserve
<1>7. CASE NoDriversAvailable(m)
  BY <1>7, ReadyFacts DEF NoDriversAvailable
<1>8. CASE CreateGroup(m)
  <2>1. /\ \E pc \in {"offer", "arm"} : Becomes(m, StepTo(match[m], pc))
        /\ match[m].rider \in Riders /\ match[m].driver = NoDriver /\ match[m].locked # {}
    BY <1>8 DEF CreateGroup, LoopDone
  <2>2. QED
    BY <2>1, StepToFacts
<1>9. CASE ArmExpiry(m)
  <2>1. /\ Becomes(m, StepTo(match[m], "offer"))
        /\ match[m].rider \in Riders /\ match[m].driver = NoDriver /\ match[m].locked # {}
    BY <1>9, MatchFacts DEF ArmExpiry
  <2>2. QED
    BY <2>1, StepToFacts
<1>10. CASE CreateFails(m)
  <2>1. /\ Becomes(m, StepTo(match[m], "clear"))
        /\ match[m].rider \in Riders /\ match[m].driver = NoDriver /\ match[m].locked # {}
    BY <1>10, MatchFacts DEF CreateFails, LoopDone
  <2>2. QED
    BY <2>1, StepToFacts
<1>11. CASE RollbackIntent(m)
  <2>1. PICK d \in match[m].locked : Becomes(m, Undo(match[m], d))
    BY <1>11 DEF RollbackIntent
  <2>2. d \in Drivers /\ d # NoDriver /\ match[m].rider \in Riders
    BY <1>11, MatchingAssumption DEF RollbackIntent
  <2>3. QED
    BY <2>1, <2>2, UndoFacts
<1>12. CASE RollbackStatus(m)
  BY <1>12, AfterUndoFacts, ReadyFacts DEF RollbackStatus, AfterUndo
<1>13. CASE SendOffer(m)
  <2>1. PICK d \in match[m].locked : Becomes(m, AfterOffer(match[m], d))
    BY <1>13 DEF SendOffer
  <2>2. d \in Drivers /\ match[m].rider \in Riders
        /\ match[m].driver = NoDriver /\ match[m].pc = "offer"
    BY <1>13 DEF SendOffer
  <2>3. CASE match[m].locked = {d}
    BY <2>1, <2>3, ReadyFacts DEF AfterOffer
  <2>4. CASE match[m].locked # {d}
    <3>1. match[m].locked \ {d} # {}
      BY <2>4
    <3>2. QED
      BY <2>1, <2>2, <2>4, <3>1, AfterOfferFacts
  <2>5. QED
    BY <2>3, <2>4
<1>14. QED
  BY <1>2, <1>3, <1>4, <1>5, <1>6, <1>7, <1>8, <1>9, <1>10, <1>11, <1>12, <1>13 DEF MatcherStep

LEMMA MatcherType ==
  ASSUME TypeOK, NEW m \in Matchers, StartMatch(m) \/ MatcherStep(m)
  PROVE  TypeOK'
<1> USE Frame DEF TypeOK
<1>1. MatchTypeOK'
  BY MatcherLocals
<1>2. /\ match[m].locked \subseteq Drivers
      /\ match[m].pc # "ready" => match[m].rider \in Riders
      /\ match[m].pc \in AtDriver => match[m].driver \in Drivers
  BY MatchFacts
<1> USE <1>1, <1>2 DEF At, AtDriver
<1>3. CASE \/ StartMatch(m) \/ Revalidate(m) \/ NoDriversAvailable(m)
  BY <1>3 DEF StartMatch, Revalidate, NoDriversAvailable
<1>4. CASE \/ Reserve(m) \/ UndoReserve(m) \/ RollbackStatus(m)
  BY <1>4, StoreTypes DEF Reserve, UndoReserve, RollbackStatus
<1>5. CASE AttachIntent(m)
  BY <1>5, StoreTypes DEF AttachIntent
<1>6. CASE RollbackIntent(m)
  BY <1>6, StoreTypes DEF RollbackIntent
<1>7. CASE CreateGroup(m) \/ ArmExpiry(m)
  BY <1>7, GroupTypes DEF CreateGroup, ArmExpiry, LoopDone
<1>8. CASE CreateFails(m)
  BY <1>8, GroupTypes DEF CreateFails, LoopDone
<1>9. CASE SendOffer(m)
  <2>1. Queue!Next
    BY <1>9 DEF SendOffer, Queue!Next
  <2>2. worker' = worker
    BY <1>9 DEF SendOffer, Queue!EnqueueDriverOffer
  <2>3. QED
    BY <1>9, <2>1, <2>2, QueueTypes DEF SendOffer
<1>10. QED
  BY <1>3, <1>4, <1>5, <1>6, <1>7, <1>8, <1>9 DEF MatcherStep

(* A worker in a call of HandleDriverResponse holds an offer.              *)
LEMMA HandlerFacts ==
  ASSUME TypeOK, NEW w \in Workers
  PROVE  /\ handler[w] \in HandlerCall /\ handler[w].pc \in HandlerPC
         /\ handler[w].pc # "none" <=> worker[w].at = "sending"
         /\ handler[w].pc # "none" =>
              /\ worker[w].offer \in Queue!Offer
              /\ D(w) \in Drivers /\ R(w) \in Riders
<1>1. handler[w] \in HandlerCall /\ handler[w].pc \in HandlerPC
      /\ (handler[w].pc # "none" <=> worker[w].at = "sending")
  BY DEF TypeOK, HandlerTypeOK, HandlerCall
<1>2. worker[w].at = "sending" => worker[w].offer \in Queue!Offer
  BY DEF TypeOK, Queue!TypeOK, Queue!WorkerState
<1>3. QED
  BY <1>1, <1>2, OfferTypes DEF D, R

LEMMA HandlerTypes ==
  ASSUME HandlerTypeOK, NEW w \in Workers, NEW pc \in HandlerPC, NEW err \in BOOLEAN,
         Proceed(w, pc, err),
         \A v \in Workers : v # w => worker'[v].at = worker[v].at,
         pc # "none" <=> worker'[w].at = "sending"
  PROVE  HandlerTypeOK'
BY DEF HandlerTypeOK, Proceed, HandlerCall

LEMMA WorkerType ==
  ASSUME TypeOK, NEW w \in Workers, WorkerStep(w)
  PROVE  TypeOK'
<1> USE Frame DEF TypeOK
<1>1. /\ handler[w] \in HandlerCall /\ handler[w].err \in BOOLEAN
      /\ handler[w].pc # "none" <=> worker[w].at = "sending"
      /\ handler[w].pc # "none" => D(w) \in Drivers /\ R(w) \in Riders
  BY HandlerFacts DEF HandlerCall
<1>2. CASE TakeOffer(w)
  <2>1. Queue!TypeOK'
    BY <1>2, QueueTypes DEF TakeOffer, Queue!Next, Queue!WorkerStep
  <2>2. HandlerTypeOK'
    <3>1. worker'[w].at = "sending" /\ \A v \in Workers : v # w => worker'[v].at = worker[v].at
      BY <1>2 DEF TakeOffer, Queue!Take, Queue!TypeOK
    <3>2. QED
      BY <1>2, <3>1, HandlerTypes DEF TakeOffer, HandlerPC
  <2>3. QED
    BY <1>2, <2>1, <2>2 DEF TakeOffer
<1>3. CASE \/ Reject(w) \/ Accept(w) \/ AcceptFails(w) \/ Finalize(w)
           \/ FinalizeFails(w) \/ ClearIntent(w)
  <2>1. /\ UNCHANGED <<queue, worker, stopped, match>>
        /\ handler[w].pc # "none"
        /\ \E pc \in {"clear", "finalize", "commit", "release"}, err \in BOOLEAN :
             Proceed(w, pc, err)
    BY <1>1, <1>3 DEF Reject, Accept, AcceptFails, Finalize, FinalizeFails, ClearIntent,
                      Handles
  <2>2. HandlerTypeOK'
    BY <1>1, <2>1, HandlerTypes DEF HandlerPC
  <2>3. Store!TypeOK'
    BY <1>1, <1>3, <2>1, StoreTypes
    DEF Reject, Accept, AcceptFails, Finalize, FinalizeFails, ClearIntent
  <2>4. Redis!TypeOK'
    BY <1>1, <1>3, <2>1, GroupTypes
    DEF Reject, Accept, AcceptFails, Finalize, FinalizeFails, ClearIntent
  <2>5. RideLog!TypeOK'
    BY <1>1, <1>3, <2>1, RideTypes
    DEF Reject, Accept, AcceptFails, Finalize, FinalizeFails, ClearIntent
  <2>6. QED
    BY <2>1, <2>2, <2>3, <2>4, <2>5
<1>4. CASE Commit(w) \/ Release(w)
  <2>1. /\ UNCHANGED <<groups, rides, match>>
        /\ D(w) \in Drivers
        /\ \E to \in {"busy", "idle"} : Store!TransitionStatus(D(w), to)
    BY <1>1, <1>4 DEF Commit, Release, Handles
  <2>2. PICK ok \in BOOLEAN : Returns(w, ok)
    <3>1. Store!TransitionOK(D(w), "busy") \in BOOLEAN
      BY DEF Store!TransitionOK, Store!CanTransition
    <3>2. Commit(w) => Returns(w, Store!TransitionOK(D(w), "busy"))
      BY DEF Commit
    <3>3. Release(w) => Returns(w, ~handler[w].err)
      BY DEF Release
    <3>4. QED
      BY <1>4, <3>1, <3>2, <3>3, Zenon
  <2>3. Queue!TypeOK'
    BY <2>2, QueueTypes DEF Returns, Queue!Next, Queue!WorkerStep
  <2>4. HandlerTypeOK'
    <3>1. Proceed(w, "none", FALSE)
      BY <2>2 DEF Returns, NoCall, Proceed
    <3>2. worker'[w].at # "sending" /\ \A v \in Workers : v # w => worker'[v].at = worker[v].at
      BY <2>2 DEF Returns, Queue!Return, Queue!TypeOK, Queue!AfterSend, Queue!Waiting
    <3>3. QED
      BY <3>1, <3>2, HandlerTypes DEF HandlerPC
  <2>5. QED
    BY <2>1, <2>3, <2>4, StoreTypes
<1>5. CASE RetryOffer(w) \/ ExitWorker(w)
  <2>1. Queue!Next
    BY <1>5 DEF RetryOffer, ExitWorker, Queue!Next, Queue!WorkerStep
  <2>2. HandlerTypeOK'
    <3>1. /\ worker[w].at # "sending" /\ worker'[w].at # "sending"
          /\ \A v \in Workers : v # w => worker'[v].at = worker[v].at
      BY <1>5 DEF RetryOffer, ExitWorker, Queue!Retry, Queue!Exit, Queue!TypeOK,
                  Queue!Waiting, Queue!Gone
    <3>2. QED
      BY <1>5, <3>1 DEF HandlerTypeOK, RetryOffer, ExitWorker
  <2>3. QED
    BY <1>5, <2>1, <2>2, QueueTypes DEF RetryOffer, ExitWorker
<1>6. QED
  BY <1>2, <1>3, <1>4, <1>5 DEF WorkerStep

LEMMA StepType == TypeOK /\ [Next]_vars => TypeOK'
<1> SUFFICES ASSUME TypeOK, [Next]_vars PROVE TypeOK'
  OBVIOUS
<1> USE Frame DEF TypeOK
<1>1. CASE \E m \in Matchers : StartMatch(m) \/ MatcherStep(m)
  BY <1>1, MatcherType
<1>2. CASE \E w \in Workers : WorkerStep(w)
  BY <1>2, WorkerType
<1>3. CASE \E d \in Drivers : Register(d)
  BY <1>3, StoreTypes DEF Register
<1>4. CASE \E r \in Riders : ExpireGroup(r)
  BY <1>4, GroupTypes DEF ExpireGroup
<1>5. CASE StopDispatcher
  <2>1. Queue!TypeOK' /\ worker' = worker
    BY <1>5, QueueTypes DEF StopDispatcher, Queue!Next, Queue!Stop
  <2>2. QED
    BY <1>5, <2>1 DEF StopDispatcher
<1>6. CASE UNCHANGED vars
  BY <1>6 DEF vars
<1>7. QED
  BY <1>1, <1>2, <1>3, <1>4, <1>5, <1>6 DEF Next

(* Every component stays in its state space, and a worker is in a call of  *)
(* HandleDriverResponse exactly while it delivers an offer.                *)
THEOREM TypeCorrect == Spec => []TypeOK
<1>1. Init => TypeOK
  BY InitType
<1>2. TypeOK /\ [Next]_vars => TypeOK'
  BY StepType
<1>3. QED
  BY <1>1, <1>2, PTL DEF Spec

-----------------------------------------------------------------------------
(* What a step can do to each component.                                   *)

LEMMA GroupSteps ==
  ASSUME Next
  PROVE  \/ UNCHANGED groups
         \/ \E r : Redis!SetPending(r) \/ Redis!Arm(r) \/ Redis!Expire(r)
         \/ \E r, d : Redis!Accept(r, d)
BY DEF Next, StartMatch, MatcherStep, Revalidate, Reserve, AttachIntent, UndoReserve,
       NoDriversAvailable, CreateGroup, ArmExpiry, CreateFails, RollbackIntent,
       RollbackStatus, SendOffer, WorkerStep, TakeOffer, Reject, Accept, AcceptFails,
       Finalize, FinalizeFails, Commit, ClearIntent, Release, RetryOffer, ExitWorker,
       Register, ExpireGroup, StopDispatcher

LEMMA RideSteps ==
  ASSUME Next
  PROVE  UNCHANGED rides \/ \E r, d : RideLog!CreateIfAbsent(r, d)
BY DEF Next, StartMatch, MatcherStep, Revalidate, Reserve, AttachIntent, UndoReserve,
       NoDriversAvailable, CreateGroup, ArmExpiry, CreateFails, RollbackIntent,
       RollbackStatus, SendOffer, WorkerStep, TakeOffer, Reject, Accept, AcceptFails,
       Finalize, FinalizeFails, Commit, ClearIntent, Release, RetryOffer, ExitWorker,
       Register, ExpireGroup, StopDispatcher

LEMMA DriverSteps ==
  ASSUME Next
  PROVE  \/ UNCHANGED drivers
         \/ \E d, r : Store!SetIntent(d, r) \/ Store!ClearIntent(d) \/ FirstUpsert(d)
         \/ \E d : Store!TransitionStatus(d, "matching") \/ Store!TransitionStatus(d, "idle")
         \/ \E w \in Workers : Commit(w)
BY DEF Next, StartMatch, MatcherStep, Revalidate, Reserve, AttachIntent, UndoReserve,
       NoDriversAvailable, CreateGroup, ArmExpiry, CreateFails, RollbackIntent,
       RollbackStatus, SendOffer, WorkerStep, TakeOffer, Reject, Accept, AcceptFails,
       Finalize, FinalizeFails, ClearIntent, Release, RetryOffer, ExitWorker,
       Register, ExpireGroup, StopDispatcher

-----------------------------------------------------------------------------
LEMMA WinnerStays ==
  ASSUME TypeOK, Next, NEW r \in Riders,
         groups[r].status = "accepted", groups'[r].status # "missing"
  PROVE  groups'[r].status = "accepted" /\ groups'[r].winner = groups[r].winner
<1> USE DEF TypeOK, Redis!TypeOK, Redis!Group, Redis!Exists
<1>1. CASE UNCHANGED groups
  BY <1>1
<1>2. ASSUME NEW q, Redis!SetPending(q) \/ Redis!Arm(q) \/ Redis!Expire(q)
      PROVE  groups'[r].status = "accepted" /\ groups'[r].winner = groups[r].winner
  BY <1>2 DEF Redis!SetPending, Redis!Arm, Redis!Expire, Redis!Missing, Redis!Pending
<1>3. ASSUME NEW q, NEW d, Redis!Accept(q, d)
      PROVE  groups'[r].status = "accepted" /\ groups'[r].winner = groups[r].winner
  BY <1>3 DEF Redis!Accept, Redis!Verdict
<1>4. QED
  BY <1>1, <1>2, <1>3, GroupSteps

(* First accept wins: the script of Accept lets nobody but the winner back *)
(* in, and no other command touches the status or the winner of a decided  *)
(* group that lives on.                                                    *)
THEOREM FirstAcceptIsFinal == Spec => FirstAcceptWins
<1>1. TypeOK /\ [Next]_vars =>
        [\A r \in Riders :
           groups[r].status = "accepted" /\ groups'[r].status # "missing"
             => groups'[r].status = "accepted" /\ groups'[r].winner = groups[r].winner]_vars
  BY WinnerStays DEF vars
<1>2. QED
  BY <1>1, TypeCorrect, PTL DEF Spec, FirstAcceptWins

LEMMA RideStays ==
  ASSUME TypeOK, [Next]_vars, NEW r \in Riders, RideLog!Active(r)
  PROVE  rides'[r] = rides[r]
BY RideSteps DEF vars, TypeOK, RideLog!TypeOK, RideLog!CreateIfAbsent, RideLog!Creates

(* A rider's ride keeps its driver whatever happens to the rider's group,  *)
(* however many times the rider is matched again, and whatever fails.      *)
THEOREM RideIsKept == Spec => RideKept
<1>1. TypeOK /\ [Next]_vars =>
        [\A r \in Riders : RideLog!Active(r) => rides'[r] = rides[r]]_vars
  BY RideStays
<1>2. QED
  BY <1>1, TypeCorrect, PTL DEF Spec, RideKept

-----------------------------------------------------------------------------
(* No stale intent.                                                        *)

LEMMA StaleIntentStep ==
  ASSUME TypeOK, NoStaleIntent, [Next]_vars
  PROVE  NoStaleIntent'
<1> USE DEF TypeOK, Store!TypeOK, Store!Entry, NoStaleIntent
<1>1. CASE UNCHANGED drivers
  BY <1>1
<1>2. ASSUME NEW d, NEW r, Store!SetIntent(d, r) \/ Store!ClearIntent(d) \/ FirstUpsert(d)
      PROVE  NoStaleIntent'
  BY <1>2 DEF Store!SetIntent, Store!SetIntentOK, Store!ClearIntent, FirstUpsert, Store!Upsert,
              Store!Fresh
<1>3. ASSUME NEW d, NEW to \in {"matching", "idle", "busy"}, Store!TransitionStatus(d, to)
      PROVE  NoStaleIntent'
  BY <1>3 DEF Store!TransitionStatus, Store!AfterTransition
<1>4. QED
  BY <1>1, <1>2, <1>3, DriverSteps DEF vars, Commit

(* Whatever fails, a driver that leaves MATCHING leaves its Intent behind. *)
THEOREM IntentIsDropped == Spec => []NoStaleIntent
<1>1. Init => NoStaleIntent
  BY DEF Init, NoStaleIntent, Store!Init, Store!Absent
<1>2. QED
  BY <1>1, StaleIntentStep, TypeCorrect, PTL DEF Spec

-----------------------------------------------------------------------------
(* "A ride MUST exist before a driver transitions to BUSY".  Inductive     *)
(* with CommitHasRide: a worker goes to Commit only from a Finalize that   *)
(* created the ride, and nothing takes a ride away.                        *)

CommitHasRide ==
  \A w \in Workers :
    Handles(w, "commit") => RideLog!Active(R(w)) /\ rides[R(w)].driver = D(w)

LEMMA HasRideStays ==
  ASSUME TypeOK, [Next]_vars, NEW d, HasRide(d)
  PROVE  HasRide(d)'
BY RideStays DEF HasRide, RideLog!Active

LEMMA BecomesBusy ==
  ASSUME TypeOK, Next, NEW d \in Drivers, drivers'[d].status = "busy",
         drivers[d].status # "busy"
  PROVE  \E w \in Workers : Handles(w, "commit") /\ D(w) = d
<1> USE DEF TypeOK, Store!TypeOK, Store!Entry
<1>1. ASSUME NEW e, NEW r, Store!SetIntent(e, r) \/ Store!ClearIntent(e) \/ FirstUpsert(e)
      PROVE  FALSE
  BY <1>1 DEF Store!SetIntent, Store!ClearIntent, FirstUpsert, Store!Upsert, Store!Fresh
<1>2. ASSUME NEW e, Store!TransitionStatus(e, "matching") \/ Store!TransitionStatus(e, "idle")
      PROVE  FALSE
  BY <1>2 DEF Store!TransitionStatus, Store!AfterTransition
<1>3. ASSUME NEW w \in Workers, Commit(w)
      PROVE  Handles(w, "commit") /\ D(w) = d
  BY <1>3 DEF Commit, Store!TransitionStatus
<1>4. QED
  BY <1>1, <1>2, <1>3, DriverSteps

(* Only its own steps change what a worker holds and where it is.          *)
LEMMA OtherWorkers ==
  ASSUME TypeOK, NEW w \in Workers,
         \/ \E v \in Workers : v # w /\ WorkerStep(v)
         \/ \E m \in Matchers : StartMatch(m) \/ MatcherStep(m)
         \/ \E d \in Drivers : Register(d)
         \/ \E r \in Riders : ExpireGroup(r)
         \/ StopDispatcher
         \/ UNCHANGED vars
  PROVE  worker'[w] = worker[w] /\ handler'[w] = handler[w]
<1> USE DEF TypeOK, Queue!TypeOK, HandlerTypeOK
<1>1. ASSUME NEW v \in Workers, v # w, WorkerStep(v)
      PROVE  worker'[w] = worker[w] /\ handler'[w] = handler[w]
  BY <1>1 DEF WorkerStep, TakeOffer, Reject, Accept, AcceptFails, Finalize, FinalizeFails,
              Commit, ClearIntent, Release, RetryOffer, ExitWorker, Returns, Proceed,
              Queue!Take, Queue!Return, Queue!Retry, Queue!Exit
<1>2. ASSUME NEW m \in Matchers, StartMatch(m) \/ MatcherStep(m)
      PROVE  worker' = worker /\ handler' = handler
  BY <1>2 DEF StartMatch, MatcherStep, Revalidate, Reserve, AttachIntent, UndoReserve,
              NoDriversAvailable, CreateGroup, ArmExpiry, CreateFails, RollbackIntent,
              RollbackStatus, SendOffer, Queue!EnqueueDriverOffer
<1>3. CASE \/ \E d \in Drivers : Register(d)
           \/ \E r \in Riders : ExpireGroup(r)
           \/ StopDispatcher
           \/ UNCHANGED vars
  BY <1>3 DEF Register, ExpireGroup, StopDispatcher, Queue!Stop, vars
<1>4. QED
  BY <1>1, <1>2, <1>3

LEMMA CommitStep ==
  ASSUME TypeOK, CommitHasRide, [Next]_vars
  PROVE  CommitHasRide'
<1> SUFFICES ASSUME NEW w \in Workers, Handles(w, "commit")'
             PROVE  (RideLog!Active(R(w)) /\ rides[R(w)].driver = D(w))'
  BY DEF CommitHasRide
<1>1. CASE worker'[w] = worker[w] /\ handler'[w] = handler[w]
  <2>1. /\ RideLog!Active(R(w)) /\ rides[R(w)].driver = D(w)
        /\ R(w) \in Riders /\ R(w)' = R(w) /\ D(w)' = D(w)
    BY <1>1, HandlerFacts DEF CommitHasRide, Handles, R, D
  <2>2. rides'[R(w)] = rides[R(w)]
    BY <2>1, RideStays
  <2>3. QED
    BY <2>1, <2>2 DEF RideLog!Active
<1>2. CASE WorkerStep(w)
  <2>1. Finalize(w) /\ RideLog!Creates(R(w))
    BY <1>2 DEF WorkerStep, TakeOffer, Reject, Accept, AcceptFails, Finalize, FinalizeFails,
                Commit, ClearIntent, Release, RetryOffer, ExitWorker, Returns, Proceed, NoCall,
                Handles, TypeOK, HandlerTypeOK, Queue!TypeOK, Queue!Retry, Queue!Exit
  <2>2. R(w) \in Riders /\ R(w)' = R(w) /\ D(w)' = D(w)
    BY <2>1, HandlerFacts DEF Finalize, Handles, R, D
  <2>3. rides'[R(w)] = RideLog!Assigned(D(w))
    BY <2>1, <2>2 DEF Finalize, RideLog!CreateIfAbsent, TypeOK, RideLog!TypeOK
  <2>4. QED
    BY <2>2, <2>3 DEF RideLog!Active, RideLog!Assigned, RideLog!ActiveStatus
<1>3. QED
  BY <1>1, <1>2, OtherWorkers DEF Next

LEMMA BusyStep ==
  ASSUME TypeOK, CommitHasRide, RideBeforeBusy, [Next]_vars
  PROVE  RideBeforeBusy'
<1> SUFFICES ASSUME NEW d \in Drivers, drivers'[d].status = "busy"
             PROVE  HasRide(d)'
  BY DEF RideBeforeBusy
<1>1. CASE drivers[d].status = "busy"
  BY <1>1, HasRideStays DEF RideBeforeBusy
<1>2. CASE drivers[d].status # "busy"
  <2>1. PICK w \in Workers : Handles(w, "commit") /\ D(w) = d
    BY <1>2, BecomesBusy DEF vars
  <2>2. R(w) \in Riders
    BY <2>1, HandlerFacts DEF Handles
  <2>3. HasRide(d)
    BY <2>1, <2>2 DEF CommitHasRide, HasRide
  <2>4. QED
    BY <2>3, HasRideStays
<1>3. QED
  BY <1>1, <1>2

(* A driver is busy only if an active ride is recorded for it, even when   *)
(* Redis or the ride store fails and offers are delivered again.           *)
THEOREM BusyHasRide == Spec => []RideBeforeBusy
<1>1. Init => CommitHasRide /\ RideBeforeBusy
  BY DEF Init, CommitHasRide, RideBeforeBusy, Handles, NoCall, Store!Init, Store!Absent
<1>2. TypeOK /\ CommitHasRide /\ RideBeforeBusy /\ [Next]_vars
        => CommitHasRide' /\ RideBeforeBusy'
  BY CommitStep, BusyStep
<1>3. QED
  BY <1>1, <1>2, TypeCorrect, PTL DEF Spec

-----------------------------------------------------------------------------
(* A group that appears was created by a Match call; the others keep their *)
(* time to live for as long as they exist.                                 *)
LEMMA GroupAppears ==
  ASSUME TypeOK, Next, ~RedisCanFail, NEW r \in Riders, Redis!Exists(r)'
  PROVE  \/ Redis!Exists(r) /\ (groups[r].ttl => groups'[r].ttl)
         \/ \E m \in Matchers : CreateGroup(m) /\ match[m].rider = r /\ ~Redis!Exists(r)
<1> USE DEF TypeOK, Redis!TypeOK, Redis!Group, Redis!Exists
<1>1. CASE UNCHANGED groups
  BY <1>1
<1>2. ASSUME NEW q, Redis!Arm(q) \/ Redis!Expire(q)
      PROVE  Redis!Exists(r) /\ (groups[r].ttl => groups'[r].ttl)
  BY <1>2 DEF Redis!Arm, Redis!Expire, Redis!Missing
<1>3. ASSUME NEW q, NEW d, Redis!Accept(q, d)
      PROVE  Redis!Exists(r) /\ (groups[r].ttl => groups'[r].ttl)
  BY <1>3 DEF Redis!Accept, Redis!Verdict
<1>4. ASSUME NEW m \in Matchers, CreateGroup(m)
      PROVE  \/ Redis!Exists(r) /\ (groups[r].ttl => groups'[r].ttl)
             \/ match[m].rider = r /\ ~Redis!Exists(r)
  BY <1>4 DEF CreateGroup, Redis!SetPending
<1>5. \/ UNCHANGED groups
      \/ \E q : Redis!Arm(q) \/ Redis!Expire(q)
      \/ \E q, d : Redis!Accept(q, d)
      \/ \E m \in Matchers : CreateGroup(m)
  BY DEF Next, StartMatch, MatcherStep, Revalidate, Reserve, AttachIntent, UndoReserve,
         NoDriversAvailable, ArmExpiry, CreateFails, RollbackIntent,
         RollbackStatus, SendOffer, WorkerStep, TakeOffer, Reject, Accept, AcceptFails,
         Finalize, FinalizeFails, Commit, ClearIntent, Release, RetryOffer, ExitWorker,
         Register, ExpireGroup, StopDispatcher
<1>6. QED
  BY <1>1, <1>2, <1>3, <1>4, <1>5

(* A Match call leaves the EXPIRE only by running it.                      *)
LEMMA ArmingEnds ==
  ASSUME TypeOK, Next, ~RedisCanFail, NEW m \in Matchers, At(m, "arm")
  PROVE  match'[m] = match[m] \/ ArmExpiry(m)
<1>1. match \in [Matchers -> MatchCall] /\ match[m].pc = "arm"
  BY DEF TypeOK, MatchTypeOK, At
<1>2. ASSUME NEW n \in Matchers, StartMatch(n) \/ MatcherStep(n)
      PROVE  match'[m] = match[m] \/ ArmExpiry(m)
  <2>1. CASE n = m
    BY <1>1, <1>2, <2>1 DEF StartMatch, MatcherStep, Revalidate, Reserve, AttachIntent,
       UndoReserve, NoDriversAvailable, CreateGroup, CreateFails, RollbackIntent,
       RollbackStatus, SendOffer, LoopDone, At
  <2>2. CASE n # m
    <3>1. \E c : Becomes(n, c)
      BY <1>2 DEF StartMatch, MatcherStep, Revalidate, Reserve, AttachIntent, ArmExpiry,
         UndoReserve, NoDriversAvailable, CreateGroup, CreateFails, RollbackIntent,
         RollbackStatus, SendOffer
    <3>2. QED
      BY <1>1, <2>2, <3>1 DEF Becomes
  <2>3. QED
    BY <2>1, <2>2
<1>3. CASE UNCHANGED match
  BY <1>3
<1>4. QED
  BY <1>2, <1>3 DEF Next, WorkerStep, TakeOffer, Reject, Accept, AcceptFails, Finalize,
     FinalizeFails, Commit, ClearIntent, Release, RetryOffer, ExitWorker, Register,
     ExpireGroup, StopDispatcher

LEMMA GroupExpiresStep ==
  ASSUME TypeOK, ~RedisCanFail, GroupExpires, [Next]_vars
  PROVE  GroupExpires'
<1>1. SUFFICES ASSUME NEW r \in Riders, Redis!Exists(r)'
               PROVE  \/ groups'[r].ttl
                      \/ \E m \in Matchers : match'[m].pc = "arm" /\ match'[m].rider = r
  BY DEF GroupExpires, At
<1>2. CASE UNCHANGED vars
  BY <1>1, <1>2 DEF vars, GroupExpires, At, Redis!Exists
<1>3. ASSUME Next, NEW m \in Matchers, CreateGroup(m), match[m].rider = r, ~Redis!Exists(r)
      PROVE  match'[m].pc = "arm" /\ match'[m].rider = r
  <2>1. match \in [Matchers -> MatchCall] /\ match'[m] = StepTo(match[m], "arm")
    BY <1>3 DEF TypeOK, MatchTypeOK, CreateGroup, Becomes
  <2>2. QED
    BY <1>3, <2>1, StepToFacts DEF MatchPC
<1>4. ASSUME Next, Redis!Exists(r), ~groups[r].ttl
      PROVE  \/ groups'[r].ttl
             \/ \E m \in Matchers : match'[m].pc = "arm" /\ match'[m].rider = r
  <2>1. PICK m \in Matchers : At(m, "arm") /\ match[m].rider = r
    BY <1>4 DEF GroupExpires
  <2>2. CASE match'[m] = match[m]
    BY <2>1, <2>2 DEF At
  <2>3. CASE ArmExpiry(m)
    BY <1>4, <2>1, <2>3 DEF ArmExpiry, Redis!Arm, TypeOK, Redis!TypeOK, Redis!Group
  <2>4. QED
    BY <1>4, <2>1, <2>2, <2>3, ArmingEnds
<1>5. QED
  BY <1>1, <1>2, <1>3, <1>4, GroupAppears

(* While Redis does not fail, the key of every offer group has a time to   *)
(* live, or the Match call that created it is about to set it: no group    *)
(* outlives its offers and blocks its rider.                               *)
THEOREM GroupsExpire ==
  ASSUME ~RedisCanFail
  PROVE  Spec => []GroupExpires
<1>1. Init => GroupExpires
  BY DEF Init, GroupExpires, Redis!Init, Redis!Missing, Redis!Exists
<1>2. TypeOK /\ GroupExpires /\ [Next]_vars => GroupExpires'
  BY GroupExpiresStep
<1>3. QED
  BY <1>1, <1>2, TypeCorrect, PTL DEF Spec

-----------------------------------------------------------------------------
(* A reservation is handed on and never let go of in MATCHING.             *)

(* What a call of the repository does to the status of a driver.           *)
LEMMA StatusSteps ==
  ASSUME Store!TypeOK, NEW d \in Drivers, NEW e \in Drivers
  PROVE  /\ Store!TransitionStatus(e, "idle") /\ drivers'[d].status = "matching"
              => d # e /\ drivers'[d] = drivers[d]
         /\ Store!TransitionStatus(e, "busy") /\ drivers'[d].status = "matching"
              => d # e /\ drivers'[d] = drivers[d]
         /\ Store!TransitionStatus(e, "matching") /\ drivers'[d] # drivers[d]
              => d = e /\ Store!TransitionOK(e, "matching")
         /\ \A r : Store!SetIntent(e, r) => drivers'[d].status = drivers[d].status
         /\ Store!ClearIntent(e) => drivers'[d].status = drivers[d].status
         /\ FirstUpsert(e) /\ drivers'[d].status = "matching" => drivers'[d] = drivers[d]
BY DEF Store!TypeOK, Store!Entry, Store!DriverStatus, Store!TransitionStatus,
       Store!TransitionOK, Store!CanTransition, Store!Edges, Store!AfterTransition,
       Store!SetIntent, Store!ClearIntent, FirstUpsert, Store!Upsert, Store!Fresh

(* A Match call keeps what it has reserved until it is free or offered.    *)
LEMMA MatcherKeeps ==
  ASSUME TypeOK, NEW m \in Matchers, StartMatch(m) \/ (MatcherStep(m) /\ ~SendOffer(m)),
         NEW d \in Drivers, drivers'[d].status = "matching",
         MatcherClaims(m, d) \/ drivers[d].status # "matching"
  PROVE  MatcherClaims(m, d)'
<1>1. /\ match[m] \in MatchCall
      /\ match[m].pc \in AtDriver => match[m].driver \in Drivers
      /\ match[m].driver # NoDriver <=> match[m].pc \in AtDriver
      /\ match[m].locked \subseteq Drivers
      /\ match[m].pc = "ready" => match[m].locked = {}
      /\ Store!TypeOK
  BY MatchFacts DEF TypeOK
<1>2. \A c \in MatchCall : Becomes(m, c) =>
        (MatcherClaims(m, d)' <=> d \in c.locked
                                  \/ (c.pc \in {"intent", "undo", "free"} /\ c.driver = d))
  BY DEF Becomes, MatcherClaims, TypeOK, MatchTypeOK
<1> USE <1>1 DEF At, AtDriver, MatchPC
<1>3. CASE StartMatch(m)
  BY <1>3 DEF StartMatch, MatcherClaims
<1>4. CASE Revalidate(m)
  <2>1. PICK e \in Drivers : Becomes(m, Visit(match[m], e)) \/ Becomes(m, Skip(match[m], e))
    BY <1>4, MatchFacts DEF Revalidate, TypeOK
  <2>2. MatcherClaims(m, d) /\ match[m].pc = "pick"
    BY <1>4 DEF Revalidate
  <2>3. d \in match[m].locked
    BY <2>2 DEF MatcherClaims
  <2>4. CASE Becomes(m, Visit(match[m], e))
    BY <1>2, <2>3, <2>4, VisitFacts
  <2>5. CASE Becomes(m, Skip(match[m], e))
    BY <1>2, <2>3, <2>5, SkipFacts
  <2>6. QED
    BY <2>1, <2>4, <2>5
<1>5. CASE Reserve(m)
  <2>1. match[m].pc = "reserve" /\ Store!TransitionStatus(match[m].driver, "matching")
    BY <1>5 DEF Reserve
  <2>2. CASE Store!TransitionOK(match[m].driver, "matching")
    <3>1. Becomes(m, StepTo(match[m], "intent"))
      BY <1>5, <2>2 DEF Reserve
    <3>2. d \in match[m].locked \/ d = match[m].driver
      BY <2>1, StatusSteps DEF MatcherClaims
    <3>3. QED
      BY <1>2, <3>1, <3>2, StepToFacts
  <2>3. CASE ~Store!TransitionOK(match[m].driver, "matching")
    <3>1. Becomes(m, Continue(match[m]))
      BY <1>5, <2>3 DEF Reserve
    <3>2. d \in match[m].locked
      BY <2>1, <2>3, StatusSteps DEF MatcherClaims
    <3>3. QED
      BY <1>2, <3>1, <3>2, ContinueFacts
  <2>4. QED
    BY <2>2, <2>3
<1>6. CASE AttachIntent(m)
  <2>1. /\ match[m].pc = "intent" /\ Store!SetIntent(match[m].driver, match[m].rider)
        /\ Becomes(m, Lock(match[m])) \/ Becomes(m, StepTo(match[m], "undo"))
    BY <1>6 DEF AttachIntent
  <2>2. d \in match[m].locked \/ d = match[m].driver
    BY <2>1, StatusSteps DEF MatcherClaims
  <2>3. QED
    BY <1>2, <2>1, <2>2, LockFacts, StepToFacts
<1>7. CASE UndoReserve(m)
  <2>1. /\ match[m].pc = "undo" /\ Store!TransitionStatus(match[m].driver, "idle")
        /\ Becomes(m, Continue(match[m]))
    BY <1>7 DEF UndoReserve
  <2>2. d # match[m].driver /\ d \in match[m].locked
    BY <2>1, StatusSteps DEF MatcherClaims
  <2>3. QED
    BY <1>2, <2>1, <2>2, ContinueFacts
<1>8. CASE NoDriversAvailable(m)
  BY <1>8 DEF NoDriversAvailable, LoopDone, MatcherClaims
<1>9. CASE CreateGroup(m) \/ ArmExpiry(m) \/ CreateFails(m)
  <2>1. /\ match[m].pc \in {"pick", "arm"} /\ UNCHANGED drivers
        /\ \E pc \in {"offer", "arm", "clear"} : Becomes(m, StepTo(match[m], pc))
    BY <1>9 DEF CreateGroup, ArmExpiry, CreateFails, LoopDone
  <2>2. d \in match[m].locked
    BY <2>1 DEF MatcherClaims
  <2>3. QED
    BY <1>2, <2>1, <2>2, StepToFacts
<1>10. CASE RollbackIntent(m)
  <2>1. PICK e \in match[m].locked :
          match[m].pc = "clear" /\ Store!ClearIntent(e) /\ Becomes(m, Undo(match[m], e))
    BY <1>10 DEF RollbackIntent
  <2>2. d \in match[m].locked
    BY <2>1, StatusSteps DEF MatcherClaims
  <2>3. QED
    BY <1>2, <2>1, <2>2, UndoFacts
<1>11. CASE RollbackStatus(m)
  <2>1. /\ match[m].pc = "free" /\ Store!TransitionStatus(match[m].driver, "idle")
        /\ Becomes(m, AfterUndo(match[m]))
    BY <1>11 DEF RollbackStatus
  <2>2. d # match[m].driver /\ d \in match[m].locked
    BY <2>1, StatusSteps DEF MatcherClaims
  <2>3. QED
    BY <1>2, <2>1, <2>2, AfterUndoFacts
<1>12. QED
  BY <1>3, <1>4, <1>5, <1>6, <1>7, <1>8, <1>9, <1>10, <1>11 DEF MatcherStep

LEMMA OthersKeep ==
  ASSUME TypeOK, NEW m \in Matchers, StartMatch(m) \/ MatcherStep(m), NEW d \in Drivers
  PROVE  /\ \A n \in Matchers \ {m} : MatcherClaims(n, d)' <=> MatcherClaims(n, d)
         /\ \A w \in Workers : (~Handles(w, "none") /\ D(w) = d)'
                                 <=> ~Handles(w, "none") /\ D(w) = d
         /\ ~SendOffer(m) => (Offered(d)' <=> Offered(d))
<1>1. /\ \E c : Becomes(m, c)
      /\ UNCHANGED <<worker, handler>>
      /\ ~SendOffer(m) => UNCHANGED queue
  BY DEF StartMatch, MatcherStep, Revalidate, Reserve, AttachIntent, UndoReserve,
         NoDriversAvailable, CreateGroup, ArmExpiry, CreateFails, RollbackIntent,
         RollbackStatus, SendOffer, Queue!EnqueueDriverOffer
<1>2. \A n \in Matchers \ {m} : match'[n] = match[n]
  BY <1>1 DEF Becomes, TypeOK, MatchTypeOK
<1>3. QED
  BY <1>1, <1>2 DEF MatcherClaims, Handles, D, Offered

(* An offer that finds room is in the channel; a full channel loses it.    *)
LEMMA SendHandsOn ==
  ASSUME TypeOK, NEW m \in Matchers, SendOffer(m), Queue!HasRoom, NEW d \in Drivers
  PROVE  /\ Offered(d) => Offered(d)'
         /\ MatcherClaims(m, d) => MatcherClaims(m, d)' \/ Offered(d)'
<1>1. PICK e \in match[m].locked :
        /\ match[m].pc = "offer"
        /\ Queue!EnqueueDriverOffer(e, match[m].rider)
        /\ Becomes(m, AfterOffer(match[m], e))
  BY DEF SendOffer, At
<1>2. /\ match[m] \in MatchCall /\ e \in Drivers
      /\ match[m].driver = NoDriver
  BY <1>1, MatchFacts DEF TypeOK, AtDriver
<1> DEFINE o == Queue!FirstOffer(e, match[m].rider)
<1>3. queue' = Append(queue, o) /\ o.driver = e /\ queue \in Seq(Queue!Offer)
  BY <1>1 DEF Queue!EnqueueDriverOffer, Queue!Put, Queue!FirstOffer, TypeOK, Queue!TypeOK
<1>4. /\ Len(queue) \in Nat /\ Len(queue') = Len(queue) + 1
      /\ queue'[Len(queue) + 1] = o
      /\ \A i \in 1 .. Len(queue) : queue'[i] = queue[i]
  BY <1>3
<1>5. Offered(d) => Offered(d)'
  BY <1>4 DEF Offered
<1>6. Offered(e)'
  BY <1>3, <1>4 DEF Offered
<1>7. ASSUME MatcherClaims(m, d), d # e
      PROVE  MatcherClaims(m, d)'
  <2>1. d \in match[m].locked /\ match[m].locked # {e}
    BY <1>1, <1>7 DEF MatcherClaims
  <2>2. match'[m] = AfterOffer(match[m], e)
    BY <1>1 DEF Becomes, TypeOK, MatchTypeOK
  <2>3. QED
    BY <1>2, <1>7, <2>1, <2>2, AfterOfferFacts DEF MatcherClaims
<1>8. QED
  BY <1>5, <1>6, <1>7

(* A worker takes over the driver of the offer at the head of the channel, *)
(* and lets go of it when it is no longer in MATCHING.                     *)
LEMMA WorkerKeeps ==
  ASSUME TypeOK, NEW w \in Workers, WorkerStep(w), NEW d \in Drivers,
         drivers'[d].status = "matching"
  PROVE  /\ drivers[d].status = "matching"
         /\ UNCHANGED match
         /\ \A v \in Workers : ~Handles(v, "none") /\ D(v) = d
                                 => (~Handles(v, "none") /\ D(v) = d)'
         /\ Offered(d) => Offered(d)' \/ \E v \in Workers : (~Handles(v, "none") /\ D(v) = d)'
<1>1. /\ handler \in [Workers -> HandlerCall] /\ worker \in [Workers -> Queue!WorkerState]
      /\ handler[w].pc # "none" <=> worker[w].at = "sending"
      /\ handler[w].pc # "none" => D(w) \in Drivers
      /\ Store!TypeOK /\ queue \in Seq(Queue!Offer)
  BY HandlerFacts DEF TypeOK, HandlerTypeOK, Queue!TypeOK
<1>2. CASE TakeOffer(w)
  <2>1. /\ worker[w].at = "waiting" /\ queue # <<>>
        /\ worker' = [worker EXCEPT ![w] = [at |-> "sending", offer |-> Head(queue)]]
        /\ queue' = Tail(queue)
        /\ handler' = [handler EXCEPT ![w] = [pc |-> "respond", err |-> FALSE]]
        /\ UNCHANGED <<drivers, match>>
    BY <1>2 DEF TakeOffer, Queue!Take, Proceed
  <2>2. /\ \A v \in Workers \ {w} : handler'[v] = handler[v] /\ worker'[v] = worker[v]
        /\ handler[w].pc = "none"
        /\ handler'[w].pc = "respond" /\ worker'[w].offer = queue[1]
    BY <1>1, <2>1
  <2>3. ASSUME Offered(d)
        PROVE  Offered(d)' \/ (~Handles(w, "none") /\ D(w) = d)'
    <3>1. PICK i \in 1 .. Len(queue) : queue[i].driver = d
      BY <2>3 DEF Offered
    <3>2. CASE i = 1
      BY <2>2, <3>1, <3>2 DEF Handles, D
    <3>3. CASE i # 1
      <4>1. i - 1 \in 1 .. Len(queue') /\ queue'[i - 1] = queue[i]
        BY <1>1, <2>1, <3>1, <3>3
      <4>2. QED
        BY <3>1, <4>1 DEF Offered
    <3>4. QED
      BY <3>2, <3>3
  <2>4. QED
    BY <2>1, <2>2, <2>3 DEF Handles, D
<1>3. CASE \/ Reject(w) \/ Accept(w) \/ AcceptFails(w) \/ Finalize(w)
           \/ FinalizeFails(w) \/ ClearIntent(w)
  <2>1. /\ UNCHANGED <<queue, worker, match>>
        /\ handler[w].pc # "none"
        /\ \E pc \in {"clear", "finalize", "commit", "release"} : \E err : Proceed(w, pc, err)
        /\ UNCHANGED drivers \/ Store!ClearIntent(D(w))
    BY <1>3 DEF Reject, Accept, AcceptFails, Finalize, FinalizeFails, ClearIntent, Handles
  <2>2. drivers'[d].status = drivers[d].status
    BY <1>1, <2>1, StatusSteps
  <2>3. \A v \in Workers : handler[v].pc # "none" => handler'[v].pc # "none"
    BY <1>1, <2>1 DEF Proceed
  <2>4. QED
    BY <2>1, <2>2, <2>3 DEF Handles, D, Offered
<1>4. CASE Commit(w) \/ Release(w)
  <2>1. /\ UNCHANGED match /\ handler[w].pc # "none"
        /\ \E to \in {"busy", "idle"} : Store!TransitionStatus(D(w), to)
        /\ \E ok : Returns(w, ok)
    BY <1>4 DEF Commit, Release, Handles
  <2>2. d # D(w) /\ drivers'[d] = drivers[d]
    BY <1>1, <2>1, StatusSteps
  <2>3. /\ UNCHANGED queue
        /\ \A v \in Workers \ {w} : handler'[v] = handler[v] /\ worker'[v] = worker[v]
    BY <1>1, <2>1 DEF Returns, Queue!Return
  <2>4. QED
    BY <2>1, <2>2, <2>3 DEF Handles, D, Offered
<1>5. CASE RetryOffer(w) \/ ExitWorker(w)
  <2>1. /\ UNCHANGED <<drivers, match, handler>> /\ worker[w].at # "sending"
        /\ \A v \in Workers \ {w} : worker'[v] = worker[v]
    BY <1>1, <1>5 DEF RetryOffer, ExitWorker, Queue!Retry, Queue!Exit
  <2>2. Offered(d) => Offered(d)'
    <3>1. CASE ExitWorker(w)
      BY <3>1 DEF ExitWorker, Queue!Exit, Offered
    <3>2. CASE RetryOffer(w) /\ ~Queue!HasRoom
      BY <3>2 DEF RetryOffer, Queue!Retry, Queue!Put, Offered
    <3>3. CASE RetryOffer(w) /\ Queue!HasRoom
      <4>1. queue' = Append(queue, worker[w].offer)
        BY <3>3 DEF RetryOffer, Queue!Retry, Queue!Put
      <4>2. /\ Len(queue) \in Nat /\ Len(queue') = Len(queue) + 1
            /\ \A i \in 1 .. Len(queue) : queue'[i] = queue[i]
        <5>1. worker[w].offer \in Queue!Offer
          BY <3>3 DEF RetryOffer, Queue!Retry, TypeOK, Queue!TypeOK, Queue!WorkerState
        <5>2. QED
          BY <1>1, <4>1, <5>1
      <4>3. QED
        BY <4>2 DEF Offered
    <3>4. QED
      BY <1>5, <3>1, <3>2, <3>3
  <2>3. handler[w].pc = "none"
    BY <1>1, <2>1
  <2>4. QED
    BY <2>1, <2>2, <2>3 DEF Handles, D
<1>6. QED
  BY <1>2, <1>3, <1>4, <1>5 DEF WorkerStep

(* Only the sending of an offer can leave a reservation behind.            *)
LEMMA StrandedStep ==
  ASSUME TypeOK, [Next]_vars, \A m \in Matchers : SendOffer(m) => Queue!HasRoom,
         NEW d \in Drivers, Stranded(d)'
  PROVE  Stranded(d)
<1>1. drivers'[d].status = "matching" /\ ~InHand(d)'
  BY DEF Stranded
<1>2. ASSUME NEW m \in Matchers, StartMatch(m) \/ MatcherStep(m)
      PROVE  Stranded(d)
  <2>1. CASE SendOffer(m)
    <3>1. drivers[d].status = "matching"
      BY <1>1, <2>1 DEF SendOffer
    <3>2. QED
      BY <1>1, <1>2, <2>1, <3>1, SendHandsOn, OthersKeep DEF Stranded, InHand
  <2>2. CASE ~SendOffer(m)
    <3>1. ~MatcherClaims(m, d) /\ drivers[d].status = "matching"
      BY <1>1, <1>2, <2>2, MatcherKeeps DEF InHand
    <3>2. QED
      BY <1>1, <1>2, <2>2, <3>1, OthersKeep DEF Stranded, InHand
  <2>3. QED
    BY <2>1, <2>2
<1>3. ASSUME NEW w \in Workers, WorkerStep(w)
      PROVE  Stranded(d)
  <2>1. \A m \in Matchers : MatcherClaims(m, d)' <=> MatcherClaims(m, d)
    BY <1>1, <1>3, WorkerKeeps DEF MatcherClaims
  <2>2. QED
    BY <1>1, <1>3, <2>1, WorkerKeeps DEF Stranded, InHand
<1>4. CASE \/ \E e \in Drivers : Register(e)
           \/ \E r \in Riders : ExpireGroup(r)
           \/ StopDispatcher
           \/ UNCHANGED vars
  <2>1. /\ UNCHANGED <<queue, worker, match, handler>>
        /\ UNCHANGED drivers \/ \E e \in Drivers : FirstUpsert(e)
    BY <1>4 DEF Register, ExpireGroup, StopDispatcher, Queue!Stop, vars
  <2>2. drivers'[d] = drivers[d]
    BY <1>1, <2>1, StatusSteps DEF TypeOK
  <2>3. QED
    BY <1>1, <2>1, <2>2 DEF Stranded, InHand, MatcherClaims, Offered, Handles, D
<1>5. QED
  BY <1>2, <1>3, <1>4 DEF Next

(* Whatever Redis and the ride store do, and however often an offer is     *)
(* retried, a driver that is reserved and that nobody will act on any more *)
(* was left so by a full channel.                                          *)
THEOREM OnlyFullChannelsStrand == Spec => NobodyStranded
<1>1. TypeOK /\ [Next]_vars =>
        [\A d \in Drivers : Stranded(d)' => Stranded(d) \/ ~Queue!HasRoom]_vars
  BY StrandedStep
<1>2. QED
  BY <1>1, TypeCorrect, PTL DEF Spec, NobodyStranded
=============================================================================
