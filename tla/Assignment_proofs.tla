---------------------------- MODULE Assignment_proofs --------------------------
(***************************************************************************)
(* No double booking, without faults, for all values of the constants, and *)
(* that the protocol implements the abstract booking.                      *)
(*                                                                         *)
(* The proof follows the claims on a driver: a claim has one holder, who   *)
(* hands it on; the claimed driver is in MATCHING for the rider of the     *)
(* claim and has no ride; and the driver of a ride is busy or about to be. *)
(***************************************************************************)
EXTENDS Matching_proofs, FiniteSetTheorems

IInv ==
  /\ NoStaleIntent /\ NoRollback
  /\ SoleClaim /\ ClaimsReserved
  /\ RideKeepsDriver /\ NoDoubleBooking

LEMMA InitIInv == Init => IInv
BY DEF Init, IInv, NoStaleIntent, Store!Init, Store!Absent, NoRollback, SoleClaim,
       OneHolder, ClaimsReserved, MatcherReserved, OfferReserved, WorkerReserved,
       RideKeepsDriver, NoDoubleBooking, MatcherClaims, WorkerClaims, Offered, At,
       Handles, Ready, NoCall, Queue!Init, Queue!Waiting, RideLog!Init,
       RideLog!NoRide, RideLog!Active, RideLog!ActiveStatus

-----------------------------------------------------------------------------
(* What a claim says of the driver.                                        *)

LEMMA OfferFacts ==
  ASSUME TypeOK
  PROVE  /\ queue \in Seq(Queue!Offer) /\ Len(queue) \in Nat
         /\ \A i \in 1 .. Len(queue) :
              /\ queue[i] \in Queue!Offer
              /\ queue[i].driver \in Drivers /\ queue[i].rider \in Riders
<1>1. queue \in Seq(Queue!Offer)
  BY DEF TypeOK, Queue!TypeOK
<1>2. QED
  BY <1>1, OfferTypes

(* Without faults a worker with an offer is in the middle of delivering it.*)
LEMMA HolderFacts ==
  ASSUME TypeOK, NoRollback, NEW w \in Workers
  PROVE  /\ worker[w].offer # NoOffer => handler[w].pc # "none"
         /\ handler[w].pc # "none" =>
              /\ worker[w].offer # NoOffer /\ WorkerClaims(w, D(w))
              /\ D(w) \in Drivers /\ R(w) \in Riders
<1>1. worker[w].offer # NoOffer => worker[w].at = "sending"
  BY DEF TypeOK, NoRollback, Queue!TypeOK, Queue!WorkerState
<1>2. ASSUME handler[w].pc # "none"
      PROVE  worker[w].offer # NoOffer
  BY <1>2, HandlerFacts, OfferTypes
<1>3. QED
  BY <1>1, <1>2, HandlerFacts DEF WorkerClaims

LEMMA ClaimedDrivers ==
  ASSUME TypeOK, IInv, NEW d
  PROVE  /\ \A m \in Matchers : MatcherClaims(m, d) =>
              d \in Drivers /\ drivers[d].status = "matching" /\ ~HasRide(d)
         /\ Offered(d) => d \in Drivers /\ drivers[d].status = "matching" /\ ~HasRide(d)
         /\ \A w \in Workers : WorkerClaims(w, d) =>
              /\ d \in Drivers /\ drivers[d].status = "matching"
              /\ handler[w].pc \in {"respond", "finalize", "clear", "release", "commit"}
              /\ handler[w].pc # "commit" => ~HasRide(d)
<1> USE DEF IInv
<1>1. ASSUME NEW m \in Matchers, MatcherClaims(m, d)
      PROVE  d \in Drivers /\ drivers[d].status = "matching" /\ ~HasRide(d)
  <2>1. match[m].pc \notin {"undo", "free"}
    BY DEF NoRollback
  <2>2. d \in match[m].locked \/ (match[m].pc = "intent" /\ match[m].driver = d)
    BY <1>1, <2>1 DEF MatcherClaims
  <2>3. d \in Drivers
    BY <2>2, MatchFacts DEF TypeOK, AtDriver
  <2>4. QED
    BY <2>2, <2>3 DEF ClaimsReserved, MatcherReserved, Reserved, At
<1>2. ASSUME Offered(d)
      PROVE  d \in Drivers /\ drivers[d].status = "matching" /\ ~HasRide(d)
  BY <1>2, OfferFacts DEF Offered, ClaimsReserved, OfferReserved, Reserved
<1>3. ASSUME NEW w \in Workers, WorkerClaims(w, d)
      PROVE  /\ d \in Drivers /\ drivers[d].status = "matching"
             /\ handler[w].pc \in {"respond", "finalize", "clear", "release", "commit"}
             /\ handler[w].pc # "commit" => ~HasRide(d)
  <2>1. handler[w].pc # "none" /\ D(w) = d /\ D(w) \in Drivers
    BY <1>3, HolderFacts DEF WorkerClaims
  <2>2. handler[w].pc \in {"respond", "finalize", "clear", "release", "commit"}
    BY <2>1, HandlerFacts DEF HandlerPC
  <2>3. WorkerReserved(w)
    BY DEF ClaimsReserved
  <2>4. QED
    BY <2>1, <2>2, <2>3 DEF WorkerReserved, Reserved, Handles
<1>4. QED
  BY <1>1, <1>2, <1>3

(* A driver that is not in MATCHING is free: nobody claims it, and it has  *)
(* a ride only if it is busy.                                              *)
LEMMA OutsideMatching ==
  ASSUME TypeOK, IInv, NEW d \in Drivers, drivers[d].status # "matching"
  PROVE  /\ \A m \in Matchers : ~MatcherClaims(m, d)
         /\ ~Offered(d)
         /\ \A w \in Workers : ~WorkerClaims(w, d)
         /\ drivers[d].status # "busy" => ~HasRide(d)
<1>1. ASSUME drivers[d].status # "busy", HasRide(d)
      PROVE  FALSE
  <2>1. PICK r \in Riders : RideLog!Active(r) /\ rides[r].driver = d
    BY <1>1 DEF HasRide
  <2>2. PICK w \in Workers : Handles(w, "commit") /\ D(w) = d
    BY <1>1, <2>1 DEF RideKeepsDriver, IInv
  <2>3. QED
    BY <2>2 DEF ClaimsReserved, WorkerReserved, IInv
<1>2. QED
  BY <1>1, ClaimedDrivers

LEMMA RideDrivers ==
  ASSUME TypeOK, NEW r \in Riders, RideLog!Active(r)
  PROVE  rides[r].driver \in Drivers
BY DEF TypeOK, RideLog!TypeOK, RideLog!Ride, RideLog!Active, RideLog!ActiveStatus

-----------------------------------------------------------------------------
(* What a step leaves alone keeps its part of the invariant.               *)

LEMMA KeepsReserved ==
  ASSUME UNCHANGED rides, NEW d, drivers'[d] = drivers[d]
  PROVE  \A r : Reserved(d, r) => Reserved(d, r)'
BY DEF Reserved, HasRide, RideLog!Active

LEMMA KeepsHolder ==
  ASSUME UNCHANGED queue, NEW d, OneHolder(d),
         \A m \in Matchers : MatcherClaims(m, d)' => MatcherClaims(m, d),
         \A w \in Workers : WorkerClaims(w, d)' => WorkerClaims(w, d)
  PROVE  OneHolder(d)'
BY DEF OneHolder, Offered

(* The rides are safe from a step that creates none, leaves the drivers    *)
(* that have one and lets the workers at Commit wait.                      *)
LEMMA KeepsRides ==
  ASSUME TypeOK, IInv, UNCHANGED rides,
         \A d \in Drivers : HasRide(d) => drivers'[d].status = drivers[d].status,
         \A w \in Workers : Handles(w, "commit") =>
           handler'[w] = handler[w] /\ worker'[w] = worker[w]
  PROVE  RideKeepsDriver' /\ NoDoubleBooking'
<1>1. NoDoubleBooking'
  BY DEF IInv, NoDoubleBooking, RideLog!Active
<1>2. ASSUME NEW r \in Riders, RideLog!Active(r)'
      PROVE  \/ drivers'[rides'[r].driver].status = "busy"
             \/ \E w \in Workers :
                  Handles(w, "commit")' /\ D(w)' = rides'[r].driver /\ R(w)' = r
  <2>1. RideLog!Active(r) /\ rides'[r] = rides[r] /\ rides[r].driver \in Drivers
    BY <1>2, RideDrivers DEF RideLog!Active
  <2>2. HasRide(rides[r].driver)
    BY <2>1 DEF HasRide
  <2>3. CASE drivers[rides[r].driver].status = "busy"
    BY <2>1, <2>2, <2>3
  <2>4. CASE \E w \in Workers :
               Handles(w, "commit") /\ D(w) = rides[r].driver /\ R(w) = r
    BY <2>1, <2>4 DEF Handles, D, R
  <2>5. QED
    BY <2>1, <2>3, <2>4 DEF IInv, RideKeepsDriver
<1>3. QED
  BY <1>1, <1>2 DEF RideKeepsDriver

-----------------------------------------------------------------------------
(* The steps of Match.                                                     *)

(* A step that leaves drivers, rides, queue and workers alone, and keeps   *)
(* what every Match call has reserved.                                     *)
LEMMA QuietMatch ==
  ASSUME TypeOK, IInv, UNCHANGED <<drivers, rides, queue, worker, handler>>,
         \A m \in Matchers :
           /\ match'[m].locked = match[m].locked
           /\ match[m].locked # {} => match'[m].rider = match[m].rider
           /\ match'[m].pc = "intent" <=> match[m].pc = "intent"
           /\ match[m].pc = "intent" => match'[m].driver = match[m].driver
           /\ match'[m].pc \notin {"undo", "clear", "free"}
  PROVE  IInv'
<1> USE DEF IInv
<1>1. NoStaleIntent' /\ NoRollback'
  BY DEF NoStaleIntent, NoRollback
<1>2. \A m \in Matchers : \A d : MatcherClaims(m, d)' <=> MatcherClaims(m, d)
  BY DEF MatcherClaims, NoRollback
<1>3. \A w \in Workers : \A d : WorkerClaims(w, d)' <=> WorkerClaims(w, d)
  BY DEF WorkerClaims, D
<1>4. \A d \in Drivers : OneHolder(d)'
  BY <1>2, <1>3, KeepsHolder DEF SoleClaim
<1>5. SoleClaim'
  BY <1>4 DEF SoleClaim, At
<1>6. \A d, r : Reserved(d, r) => Reserved(d, r)'
  BY KeepsReserved
<1>7. ASSUME NEW m \in Matchers
      PROVE  MatcherReserved(m)'
  BY <1>6 DEF ClaimsReserved, MatcherReserved, At
<1>8. ASSUME NEW i \in 1 .. Len(queue)
      PROVE  OfferReserved(i)'
  BY <1>6 DEF ClaimsReserved, OfferReserved
<1>9. ASSUME NEW w \in Workers
      PROVE  WorkerReserved(w)'
  BY <1>6 DEF ClaimsReserved, WorkerReserved, Handles, D, R
<1>10. RideKeepsDriver' /\ NoDoubleBooking'
  BY KeepsRides
<1>11. QED
  BY <1>1, <1>5, <1>7, <1>8, <1>9, <1>10 DEF ClaimsReserved

(* The record that a step of a Match call leaves behind.                   *)
LEMMA BecomesFacts ==
  ASSUME TypeOK, NEW m \in Matchers, NEW c, Becomes(m, c)
  PROVE  match'[m] = c /\ \A n \in Matchers : n # m => match'[n] = match[n]
BY DEF TypeOK, MatchTypeOK, Becomes

LEMMA QuietSteps ==
  ASSUME TypeOK, IInv, NEW m \in Matchers,
         \/ StartMatch(m) \/ Revalidate(m) \/ NoDriversAvailable(m)
         \/ CreateGroup(m) \/ ArmExpiry(m)
  PROVE  IInv'
<1>1. /\ MatchTypeOK /\ match[m] \in MatchCall /\ match[m].cands \subseteq Drivers
      /\ match[m].pc = "ready" => match[m].locked = {}
  BY MatchFacts DEF TypeOK
<1>2. PICK c : /\ Becomes(m, c)
               /\ c.locked = match[m].locked
               /\ c.locked # {} => c.rider = match[m].rider
               /\ c.pc \in {"ready", "pick", "reserve", "offer", "arm"}
               /\ match[m].pc # "intent"
  <2>1. CASE StartMatch(m)
    BY <1>1, <2>1, ReadyFacts DEF StartMatch, At
  <2>2. CASE Revalidate(m)
    BY <1>1, <2>2, VisitFacts, SkipFacts DEF Revalidate, At
  <2>3. CASE NoDriversAvailable(m)
    BY <2>3, ReadyFacts DEF NoDriversAvailable, LoopDone, At
  <2>4. CASE CreateGroup(m)
    BY <1>1, <2>4, StepToFacts DEF CreateGroup, LoopDone, At, MatchPC
  <2>5. CASE ArmExpiry(m)
    BY <1>1, <2>5, StepToFacts DEF ArmExpiry, At, MatchPC
  <2>6. QED
    BY <2>1, <2>2, <2>3, <2>4, <2>5
<1>3. UNCHANGED <<drivers, rides, queue, worker, handler>>
  BY DEF StartMatch, Revalidate, NoDriversAvailable, CreateGroup, ArmExpiry
<1>4. match'[m] = c /\ \A n \in Matchers : n # m => match'[n] = match[n]
  BY <1>2, BecomesFacts
<1>5. \A n \in Matchers : match[n].pc \notin {"undo", "clear", "free"}
  BY DEF IInv, NoRollback
<1>6. QED
  BY <1>2, <1>3, <1>4, <1>5, QuietMatch

(* A step of Match at driver d, which only this call may claim: the other  *)
(* claims are on other drivers, which it leaves alone.                     *)
LEMMA AtDriverStep ==
  ASSUME TypeOK, IInv, NEW m \in Matchers, NEW d \in Drivers,
         UNCHANGED <<rides, queue, worker, handler>>,
         ~HasRide(d), ~Offered(d), \A w \in Workers : ~WorkerClaims(w, d),
         \A n \in Matchers : MatcherClaims(n, d) => n = m,
         \A e \in Drivers : e # d => drivers'[e] = drivers[e],
         \A n \in Matchers : n # m => match'[n] = match[n],
         match'[m].pc \in {"intent", "pick"},
         match'[m].rider = match[m].rider,
         \A e \in Drivers : MatcherClaims(m, e)' <=> MatcherClaims(m, e) \/ e = d,
         drivers'[d].status = "matching",
         d \notin match[m].locked,
         \/ match'[m].pc = "pick" /\ match'[m].locked = match[m].locked \cup {d}
              /\ drivers'[d].intent = match[m].rider
         \/ match'[m].pc = "intent" /\ match'[m].locked = match[m].locked
              /\ match'[m].driver = d /\ drivers'[d].intent = NoRider
  PROVE  IInv'
<1> USE DEF IInv
<1>1. NoStaleIntent' /\ NoRollback'
  BY DEF NoStaleIntent, NoRollback
<1>2. \A n \in Matchers, e \in Drivers : n # m => (MatcherClaims(n, e)' <=> MatcherClaims(n, e))
  BY DEF MatcherClaims
<1>3. \A w \in Workers, e \in Drivers : WorkerClaims(w, e)' <=> WorkerClaims(w, e)
  BY DEF WorkerClaims, D
<1>4. ASSUME NEW e \in Drivers, e # d
      PROVE  OneHolder(e)'
  BY <1>2, <1>3, <1>4, KeepsHolder DEF SoleClaim
<1>5. OneHolder(d)'
  <2>1. \A n \in Matchers : MatcherClaims(n, d)' => n = m
    BY <1>2
  <2>2. ~Offered(d)' /\ \A w \in Workers : ~WorkerClaims(w, d)'
    BY <1>3 DEF Offered
  <2>3. QED
    BY <2>1, <2>2 DEF OneHolder, Offered
<1>6. SoleClaim'
  <2>1. ASSUME NEW n \in Matchers, At(n, "intent")'
        PROVE  match'[n].driver \notin match'[n].locked
    BY <2>1 DEF SoleClaim, At
  <2>2. QED
    BY <1>4, <1>5, <2>1 DEF SoleClaim
<1>7. ASSUME NEW e, e # d, e \in Drivers
      PROVE  \A r : Reserved(e, r) => Reserved(e, r)'
  BY <1>7, KeepsReserved
<1>8. Reserved(d, drivers[d].intent)'
  BY DEF Reserved, HasRide, RideLog!Active
<1>9. ASSUME NEW n \in Matchers
      PROVE  MatcherReserved(n)'
  <2>1. match[n].locked \subseteq Drivers /\ MatcherReserved(n)
    BY MatchFacts DEF TypeOK, ClaimsReserved
  <2>2. PICK r : r = match[n].rider /\ match'[n].rider = r
    OBVIOUS
  <2>3. ASSUME NEW e \in match'[n].locked, e # d
        PROVE  Reserved(e, r)'
    <3>1. e \in match[n].locked
      BY <2>3
    <3>2. QED
      BY <1>7, <2>1, <2>2, <2>3, <3>1 DEF MatcherReserved
  <2>4. ASSUME d \in match'[n].locked
        PROVE  Reserved(d, r)'
    <3>1. n = m
      BY <2>4 DEF MatcherClaims
    <3>2. drivers'[d].intent = r
      BY <2>2, <2>4, <3>1
    <3>3. QED
      BY <1>8, <3>2
  <2>5. ASSUME At(n, "intent")'
        PROVE  Reserved(match[n].driver, NoRider)'
    <3>1. CASE n = m
      <4>1. match'[n].driver = d /\ drivers'[d].intent = NoRider
        BY <2>5, <3>1 DEF At
      <4>2. QED
        BY <1>8, <4>1
    <3>2. CASE n # m
      <4>1. PICK e : e = match[n].driver /\ match'[n].driver = e
        BY <3>2
      <4>2. At(n, "intent")
        BY <2>5, <3>2 DEF At
      <4>3. e \in Drivers /\ e # d
        BY <3>2, <4>1, <4>2, ClaimedDrivers DEF MatcherClaims, At
      <4>4. Reserved(e, NoRider)'
        BY <1>7, <2>1, <4>1, <4>2, <4>3 DEF MatcherReserved
      <4>5. QED
        BY <4>1, <4>4
    <3>3. QED
      BY <3>1, <3>2
  <2>6. \A e \in match'[n].locked : Reserved(e, r)'
    BY <2>3, <2>4
  <2>7. QED
    BY <2>2, <2>5, <2>6 DEF MatcherReserved
<1>10. ASSUME NEW i \in 1 .. Len(queue)
       PROVE  OfferReserved(i)'
  <2>1. queue[i].driver \in Drivers /\ queue[i].driver # d
    BY OfferFacts DEF Offered
  <2>2. QED
    BY <1>7, <2>1 DEF ClaimsReserved, OfferReserved
<1>11. ASSUME NEW w \in Workers
       PROVE  WorkerReserved(w)'
  <2>1. handler[w].pc # "none" => D(w) \in Drivers /\ D(w) # d
    BY HolderFacts
  <2>2. WorkerReserved(w)
    BY DEF ClaimsReserved
  <2>3. CASE handler[w].pc = "none"
    BY <2>3 DEF WorkerReserved, Handles
  <2>4. CASE handler[w].pc # "none"
    <3>1. PICK e, r : e = D(w) /\ r = R(w) /\ D(w)' = e /\ R(w)' = r
      BY DEF D, R
    <3>2. /\ Reserved(e, r) => Reserved(e, r)'
          /\ Reserved(e, NoRider) => Reserved(e, NoRider)'
          /\ drivers'[e] = drivers[e]
      BY <1>7, <2>1, <2>4, <3>1
    <3>3. QED
      BY <2>2, <3>1, <3>2 DEF WorkerReserved, Handles
  <2>5. QED
    BY <2>3, <2>4
<1>12. ClaimsReserved'
  BY <1>9, <1>10, <1>11 DEF ClaimsReserved
<1>13. \A e \in Drivers : HasRide(e) => drivers'[e].status = drivers[e].status
  OBVIOUS
<1>14. RideKeepsDriver' /\ NoDoubleBooking'
  <2>1. \A e : HasRide(e) => e \in Drivers
    BY RideDrivers DEF HasRide
  <2>2. QED
    BY <1>13, KeepsRides
<1>15. QED
  BY <1>1, <1>6, <1>12, <1>14

LEMMA NothingUndone ==
  ASSUME IInv
  PROVE  /\ \A m \in Matchers : match[m].pc \notin {"undo", "clear", "free"}
         /\ \A w \in Workers : worker[w].at # "sleeping" /\ ~handler[w].err
BY DEF IInv, NoRollback

(* Reserve takes an idle driver, which nobody claims, or changes nothing.  *)
LEMMA ReserveStep ==
  ASSUME TypeOK, IInv, NEW m \in Matchers, Reserve(m)
  PROVE  IInv'
<1> DEFINE d == match[m].driver
<1>1. /\ match[m] \in MatchCall /\ d \in Drivers /\ match[m].pc = "reserve"
      /\ \A n \in Matchers : match[n].pc \notin {"undo", "clear", "free"}
  BY MatchFacts, NothingUndone DEF TypeOK, Reserve, At, AtDriver
<1>2. CASE ~Store!TransitionOK(d, "matching")
  <2>1. UNCHANGED <<drivers, rides, queue, worker, handler>> /\ Becomes(m, Continue(match[m]))
    BY <1>2 DEF Reserve, Store!TransitionStatus
  <2>2. /\ match'[m] = Continue(match[m])
        /\ \A n \in Matchers : n # m => match'[n] = match[n]
    BY <2>1, BecomesFacts
  <2>3. QED
    BY <1>1, <2>1, <2>2, ContinueFacts, QuietMatch
<1>3. CASE Store!TransitionOK(d, "matching")
  <2>1. /\ UNCHANGED <<rides, queue, worker, handler>>
        /\ Becomes(m, StepTo(match[m], "intent"))
        /\ drivers[d].status = "idle"
    BY <1>3 DEF Reserve, Store!TransitionOK, Store!CanTransition, Store!Edges
  <2>2. /\ match'[m].pc = "intent" /\ match'[m].driver = d
        /\ match'[m].locked = match[m].locked /\ match'[m].rider = match[m].rider
        /\ \A n \in Matchers : n # m => match'[n] = match[n]
    BY <1>1, <2>1, BecomesFacts, StepToFacts DEF MatchPC
  <2>3. /\ drivers'[d].status = "matching" /\ drivers'[d].intent = NoRider
        /\ \A e \in Drivers : e # d => drivers'[e] = drivers[e]
    BY <1>1, <1>3, <2>1 DEF Reserve, Store!TransitionStatus, Store!AfterTransition,
                            TypeOK, Store!TypeOK, IInv, NoStaleIntent
  <2>4. \A e \in Drivers : MatcherClaims(m, e)' <=> MatcherClaims(m, e) \/ e = d
    BY <1>1, <2>2 DEF MatcherClaims
  <2>5. /\ \A n \in Matchers : ~MatcherClaims(n, d)
        /\ ~Offered(d) /\ \A w \in Workers : ~WorkerClaims(w, d)
        /\ ~HasRide(d)
    BY <1>1, <2>1, OutsideMatching
  <2>6. d \notin match[m].locked
    BY <2>5 DEF MatcherClaims
  <2>7. QED
    BY <1>1, <2>1, <2>2, <2>3, <2>4, <2>5, <2>6, AtDriverStep
<1>4. QED
  BY <1>2, <1>3

(* SetIntent succeeds: the driver is still in MATCHING.                    *)
LEMMA AttachStep ==
  ASSUME TypeOK, IInv, NEW m \in Matchers, AttachIntent(m)
  PROVE  IInv'
<1> DEFINE d == match[m].driver
           r == match[m].rider
<1>1. /\ match[m] \in MatchCall /\ d \in Drivers /\ match[m].pc = "intent"
  BY MatchFacts DEF TypeOK, AttachIntent, At, AtDriver
<1>2. MatcherClaims(m, d) /\ drivers[d].status = "matching" /\ ~HasRide(d)
  BY <1>1, ClaimedDrivers DEF MatcherClaims
<1>3. /\ UNCHANGED <<rides, queue, worker, handler>>
      /\ Becomes(m, Lock(match[m]))
      /\ drivers' = [drivers EXCEPT ![d].intent = r]
  BY <1>2 DEF AttachIntent, Store!SetIntent, Store!SetIntentOK
<1>4. /\ match'[m].pc = "pick" /\ match'[m].rider = r
      /\ match'[m].locked = match[m].locked \cup {d}
      /\ \A n \in Matchers : n # m => match'[n] = match[n]
  BY <1>1, <1>3, BecomesFacts, LockFacts
<1>5. /\ drivers'[d].status = "matching" /\ drivers'[d].intent = r
      /\ \A e \in Drivers : e # d => drivers'[e] = drivers[e]
  BY <1>1, <1>2, <1>3 DEF TypeOK, Store!TypeOK, Store!Entry
<1>6. \A e \in Drivers : MatcherClaims(m, e)' <=> MatcherClaims(m, e) \/ e = d
  BY <1>1, <1>4 DEF MatcherClaims
<1>7. /\ \A n \in Matchers : MatcherClaims(n, d) => n = m
      /\ ~Offered(d) /\ \A w \in Workers : ~WorkerClaims(w, d)
      /\ d \notin match[m].locked
  BY <1>1, <1>2 DEF IInv, SoleClaim, OneHolder, At
<1>8. QED
  BY <1>1, <1>2, <1>3, <1>4, <1>5, <1>6, <1>7, AtDriverStep

(* An offer goes to the end of the channel, or nowhere.                    *)
LEMMA SendStep ==
  ASSUME TypeOK, IInv, NEW m \in Matchers, SendOffer(m)
  PROVE  IInv'
<1> USE DEF IInv
<1>1. PICK d \in match[m].locked :
        /\ Queue!EnqueueDriverOffer(d, match[m].rider)
        /\ Becomes(m, AfterOffer(match[m], d))
  BY DEF SendOffer
<1> DEFINE o == Queue!FirstOffer(d, match[m].rider)
           r == match[m].rider
<1>2. /\ match[m] \in MatchCall /\ d \in Drivers /\ match[m].pc = "offer" /\ r \in Riders
      /\ UNCHANGED <<drivers, rides, worker, handler>>
      /\ Queue!Put(o)
  BY <1>1, MatchFacts DEF TypeOK, SendOffer, At, Queue!EnqueueDriverOffer
<1>3. /\ match'[m].locked = match[m].locked \ {d}
      /\ match'[m].locked # {} => match'[m].rider = r
      /\ match'[m].pc \in {"ready", "offer"}
      /\ \A n \in Matchers : n # m => match'[n] = match[n]
  <2>1. match'[m] = AfterOffer(match[m], d) /\ \A n \in Matchers : n # m => match'[n] = match[n]
    BY <1>1, BecomesFacts
  <2>2. CASE match[m].locked = {d}
    BY <2>1, <2>2, ReadyFacts DEF AfterOffer
  <2>3. CASE match[m].locked # {d}
    BY <1>2, <2>1, <2>3, AfterOfferFacts
  <2>4. QED
    BY <2>2, <2>3
<1>4. /\ Len(queue) \in Nat /\ Len(queue') \in Nat
      /\ Len(queue) <= Len(queue')
      /\ \A i \in 1 .. Len(queue) : queue'[i] = queue[i]
      /\ \A i \in 1 .. Len(queue') : i \notin 1 .. Len(queue) =>
           i = Len(queue) + 1 /\ queue'[i].driver = d /\ queue'[i].rider = r
  <2>1. queue \in Seq(Queue!Offer) /\ Len(queue) \in Nat
    BY OfferFacts
  <2>2. o \in Queue!Offer /\ o.driver = d /\ o.rider = r
    BY <1>2, MatchingAssumption DEF Queue!FirstOffer, Queue!Offer
  <2>3. CASE queue' = queue
    BY <2>1, <2>3
  <2>4. CASE queue' = Append(queue, o)
    BY <2>1, <2>2, <2>4
  <2>5. QED
    BY <1>2, <2>3, <2>4 DEF Queue!Put
<1>5. MatcherClaims(m, d) /\ Reserved(d, r) /\ ~HasRide(d)
  BY DEF MatcherClaims, ClaimsReserved, MatcherReserved, Reserved
<1>6. /\ \A n \in Matchers : MatcherClaims(n, d) => n = m
      /\ ~Offered(d) /\ \A w \in Workers : ~WorkerClaims(w, d)
  BY <1>2, <1>5 DEF SoleClaim, OneHolder
<1>7. NoStaleIntent' /\ NoRollback'
  BY <1>2, <1>3 DEF NoStaleIntent, NoRollback
<1>8. \A n \in Matchers, e \in Drivers : MatcherClaims(n, e)' =>
        MatcherClaims(n, e) /\ (n = m => e # d)
  BY <1>3, <1>7 DEF MatcherClaims, NoRollback
<1>9. \A w \in Workers, e \in Drivers : WorkerClaims(w, e)' <=> WorkerClaims(w, e)
  BY <1>2 DEF WorkerClaims, D
<1>10. ASSUME NEW e \in Drivers, e # d
       PROVE  OneHolder(e)'
  <2>1. \A i \in 1 .. Len(queue') : queue'[i].driver = e =>
          i \in 1 .. Len(queue) /\ queue[i].driver = e
    BY <1>4, <1>10
  <2>2. OneHolder(e)
    BY DEF SoleClaim
  <2>3. \A i, j \in 1 .. Len(queue') : queue'[i].driver = e /\ queue'[j].driver = e => i = j
    BY <2>1, <2>2 DEF OneHolder
  <2>4. Offered(e)' => Offered(e)
    BY <2>1 DEF Offered
  <2>5. QED
    BY <1>8, <1>9, <2>2, <2>3, <2>4 DEF OneHolder
<1>11. OneHolder(d)'
  <2>1. \A n \in Matchers : ~MatcherClaims(n, d)'
    BY <1>2, <1>6, <1>8
  <2>2. \A w \in Workers : ~WorkerClaims(w, d)'
    BY <1>2, <1>6, <1>9
  <2>3. \A i, j \in 1 .. Len(queue') : queue'[i].driver = d /\ queue'[j].driver = d => i = j
    <3>1. \A i \in 1 .. Len(queue') : queue'[i].driver = d => i \notin 1 .. Len(queue)
      BY <1>4, <1>6 DEF Offered
    <3>2. QED
      BY <1>4, <3>1
  <2>4. QED
    BY <2>1, <2>2, <2>3 DEF OneHolder
<1>12. SoleClaim'
  <2>1. \A n \in Matchers : At(n, "intent")' => match'[n].driver \notin match'[n].locked
    BY <1>3 DEF SoleClaim, At
  <2>2. QED
    BY <1>10, <1>11, <2>1 DEF SoleClaim
<1>13. \A e, q : Reserved(e, q) => Reserved(e, q)'
  BY <1>2, KeepsReserved
<1>14. ASSUME NEW n \in Matchers
       PROVE  MatcherReserved(n)'
  BY <1>3, <1>13 DEF ClaimsReserved, MatcherReserved, At
<1>15. ASSUME NEW i \in 1 .. Len(queue')
       PROVE  OfferReserved(i)'
  <2>1. CASE i \in 1 .. Len(queue)
    BY <1>4, <1>13, <2>1 DEF ClaimsReserved, OfferReserved
  <2>2. CASE i \notin 1 .. Len(queue)
    <3>1. PICK q : q = r
      OBVIOUS
    <3>2. queue'[i].driver = d /\ queue'[i].rider = q /\ Reserved(d, q)'
      BY <1>4, <1>5, <1>13, <2>2, <3>1
    <3>3. QED
      BY <3>2 DEF OfferReserved
  <2>3. QED
    BY <2>1, <2>2
<1>16. ASSUME NEW w \in Workers
       PROVE  WorkerReserved(w)'
  BY <1>2, <1>13 DEF ClaimsReserved, WorkerReserved, Handles, D, R
<1>17. ClaimsReserved'
  BY <1>14, <1>15, <1>16 DEF ClaimsReserved
<1>18. RideKeepsDriver' /\ NoDoubleBooking'
  BY <1>2, KeepsRides
<1>19. QED
  BY <1>7, <1>12, <1>17, <1>18

-----------------------------------------------------------------------------
(* The steps of the workers.                                               *)

(* A worker takes the offer at the head of the channel, and its claim.     *)
LEMMA TakeStep ==
  ASSUME TypeOK, IInv, NEW w \in Workers, TakeOffer(w)
  PROVE  IInv'
<1> USE DEF IInv
<1>1. /\ worker[w].at = "waiting" /\ worker[w].offer = NoOffer /\ queue # << >>
      /\ worker' = [worker EXCEPT ![w] = [at |-> "sending", offer |-> Head(queue)]]
      /\ handler' = [handler EXCEPT ![w] = [pc |-> "respond", err |-> FALSE]]
      /\ UNCHANGED <<drivers, rides, match>>
  BY DEF TakeOffer, Queue!Take, Proceed, TypeOK, Queue!TypeOK
<1>2. PICK d \in Drivers, r \in Riders :
        queue[1].driver = d /\ queue[1].rider = r /\ Len(queue) \in Nat \ {0}
        /\ Head(queue) = queue[1] /\ queue[1] # NoOffer
  BY <1>1, OfferFacts, OfferTypes
<1>3. /\ Len(queue') = Len(queue) - 1
      /\ \A i \in 1 .. Len(queue') : queue'[i] = queue[i + 1] /\ i + 1 \in 1 .. Len(queue)
  BY <1>1, <1>2, OfferFacts DEF TakeOffer, Queue!Take
<1>4. /\ worker'[w].offer = queue[1] /\ worker'[w].at = "sending"
      /\ handler'[w].pc = "respond" /\ handler'[w].err = FALSE
      /\ D(w)' = d /\ R(w)' = r
      /\ \A v \in Workers : v # w => worker'[v] = worker[v] /\ handler'[v] = handler[v]
  BY <1>1, <1>2 DEF D, R, TypeOK, Queue!TypeOK, HandlerTypeOK
<1>5. Offered(d)
  BY <1>2 DEF Offered
<1>6. /\ \A m \in Matchers : ~MatcherClaims(m, d)
      /\ \A v \in Workers : ~WorkerClaims(v, d)
      /\ \A i \in 1 .. Len(queue) : queue[i].driver = d => i = 1
  BY <1>2, <1>5 DEF SoleClaim, OneHolder
<1>7. NoStaleIntent' /\ NoRollback'
  BY <1>1, <1>4 DEF NoStaleIntent, NoRollback
<1>8. \A m \in Matchers, e \in Drivers : MatcherClaims(m, e)' <=> MatcherClaims(m, e)
  BY <1>1 DEF MatcherClaims
<1>9. \A v \in Workers, e \in Drivers : WorkerClaims(v, e)' <=>
        IF v = w THEN e = d ELSE WorkerClaims(v, e)
  BY <1>2, <1>4 DEF WorkerClaims, D
<1>10. ASSUME NEW e \in Drivers
       PROVE  OneHolder(e)'
  <2>1. OneHolder(e)
    BY DEF SoleClaim
  <2>2. \A i, j \in 1 .. Len(queue') : queue'[i].driver = e /\ queue'[j].driver = e => i = j
    <3>1. ASSUME NEW i \in 1 .. Len(queue'), NEW j \in 1 .. Len(queue'),
                 queue'[i].driver = e, queue'[j].driver = e
          PROVE  i = j
      <4>1. i + 1 = j + 1
        BY <1>3, <2>1, <3>1 DEF OneHolder
      <4>2. QED
        BY <4>1
    <3>2. QED
      BY <3>1
  <2>3. Offered(e)' => Offered(e) /\ e # d
    <3>1. ASSUME NEW i \in 1 .. Len(queue'), queue'[i].driver = e
          PROVE  Offered(e) /\ e # d
      <4>1. i + 1 \in 1 .. Len(queue) /\ queue[i + 1].driver = e /\ i + 1 # 1
        BY <1>3, <3>1
      <4>2. QED
        BY <1>6, <4>1 DEF Offered
    <3>2. QED
      BY <3>1 DEF Offered
  <2>4. CASE e = d
    BY <1>6, <1>8, <1>9, <2>2, <2>3, <2>4 DEF OneHolder
  <2>5. CASE e # d
    <3>1. \A v \in Workers : WorkerClaims(v, e)' => WorkerClaims(v, e)
      BY <1>9, <2>5
    <3>2. QED
      BY <1>8, <2>1, <2>2, <2>3, <3>1 DEF OneHolder
  <2>6. QED
    BY <2>4, <2>5
<1>11. SoleClaim'
  <2>1. \A n \in Matchers : At(n, "intent")' => match'[n].driver \notin match'[n].locked
    BY <1>1 DEF SoleClaim, At
  <2>2. QED
    BY <1>10, <2>1 DEF SoleClaim
<1>12. \A e, q : Reserved(e, q) => Reserved(e, q)'
  BY <1>1, KeepsReserved
<1>13. ASSUME NEW n \in Matchers
       PROVE  MatcherReserved(n)'
  BY <1>1, <1>12 DEF ClaimsReserved, MatcherReserved, At
<1>14. ASSUME NEW i \in 1 .. Len(queue')
       PROVE  OfferReserved(i)'
  BY <1>3, <1>12 DEF ClaimsReserved, OfferReserved
<1>15. ASSUME NEW v \in Workers
       PROVE  WorkerReserved(v)'
  <2>1. CASE v = w
    <3>1. Reserved(d, r)'
      BY <1>2, <1>12 DEF ClaimsReserved, OfferReserved
    <3>2. QED
      BY <1>4, <2>1, <3>1 DEF WorkerReserved, Handles
  <2>2. CASE v # w
    BY <1>1, <1>4, <1>12, <2>2 DEF ClaimsReserved, WorkerReserved, Handles, D, R
  <2>3. QED
    BY <2>1, <2>2
<1>16. ClaimsReserved'
  BY <1>13, <1>14, <1>15 DEF ClaimsReserved
<1>17. RideKeepsDriver' /\ NoDoubleBooking'
  <2>1. handler[w].pc = "none"
    BY <1>1, HandlerFacts
  <2>2. \A v \in Workers : Handles(v, "commit") => handler'[v] = handler[v] /\ worker'[v] = worker[v]
    BY <1>4, <2>1 DEF Handles
  <2>3. QED
    BY <1>1, <2>2, KeepsRides
<1>18. QED
  BY <1>7, <1>11, <1>16, <1>17

(* A step that touches the workers of W and the drivers of T, on which no  *)
(* one outside W has a claim.  What the others have reserved stays.        *)
LEMMA OthersReserved ==
  ASSUME TypeOK, IInv, NEW W \in SUBSET Workers, NEW T \in SUBSET Drivers,
         UNCHANGED <<match, queue>>,
         \A v \in Workers \ W : worker'[v] = worker[v] /\ handler'[v] = handler[v],
         \A e \in Drivers \ T : drivers'[e] = drivers[e] /\ (HasRide(e)' <=> HasRide(e)),
         \A q \in Riders : RideLog!Active(q) => rides'[q] = rides[q],
         \A d \in T : /\ \A m \in Matchers : ~MatcherClaims(m, d)
                      /\ ~Offered(d)
                      /\ \A v \in Workers \ W : ~WorkerClaims(v, d)
  PROVE  /\ \A m \in Matchers : MatcherReserved(m)'
         /\ \A i \in 1 .. Len(queue') : OfferReserved(i)'
         /\ \A v \in Workers \ W : WorkerReserved(v)'
<1> USE DEF IInv
<1>1. \A e \in Drivers \ T : \A q : Reserved(e, q) => Reserved(e, q)'
  BY DEF Reserved
<1>2. ASSUME NEW m \in Matchers
      PROVE  MatcherReserved(m)'
  <2>1. \A e \in match[m].locked : e \in Drivers \ T
    BY MatchFacts DEF TypeOK, MatcherClaims
  <2>2. At(m, "intent") => match[m].driver \in Drivers \ T
    BY MatchFacts DEF TypeOK, MatcherClaims, At, AtDriver
  <2>3. PICK e, q : e = match[m].driver /\ q = match[m].rider
    OBVIOUS
  <2>4. At(m, "intent") => Reserved(e, NoRider)'
    BY <1>1, <2>2, <2>3 DEF ClaimsReserved, MatcherReserved
  <2>5. \A f \in match[m].locked : Reserved(f, q)'
    BY <1>1, <2>1, <2>3 DEF ClaimsReserved, MatcherReserved
  <2>6. QED
    BY <2>3, <2>4, <2>5 DEF MatcherReserved, At
<1>3. ASSUME NEW i \in 1 .. Len(queue')
      PROVE  OfferReserved(i)'
  <2>1. queue[i].driver \in Drivers \ T
    BY OfferFacts DEF Offered
  <2>2. QED
    BY <1>1, <2>1 DEF ClaimsReserved, OfferReserved
<1>4. ASSUME NEW v \in Workers \ W
      PROVE  WorkerReserved(v)'
  <2>1. CASE handler[v].pc = "none"
    BY <2>1 DEF WorkerReserved, Handles
  <2>2. CASE handler[v].pc # "none"
    <3>1. PICK e, q : e = D(v) /\ q = R(v) /\ D(v)' = e /\ R(v)' = q
      BY DEF D, R
    <3>2. e \in Drivers \ T /\ q \in Riders
      BY <2>2, <3>1, HolderFacts
    <3>3. /\ Reserved(e, q) => Reserved(e, q)'
          /\ Reserved(e, NoRider) => Reserved(e, NoRider)'
          /\ drivers'[e] = drivers[e]
      BY <1>1, <3>2
    <3>4. rides[q] = RideLog!Assigned(e) => rides'[q] = rides[q]
      BY <3>2 DEF RideLog!Active, RideLog!ActiveStatus, RideLog!Assigned
    <3>5. WorkerReserved(v)
      BY DEF ClaimsReserved
    <3>6. QED
      BY <3>1, <3>3, <3>4, <3>5 DEF WorkerReserved, Handles
  <2>3. QED
    BY <2>1, <2>2
<1>5. QED
  BY <1>2, <1>3, <1>4

(* Such a step keeps the invariant if the workers of W gain no claim and   *)
(* keep their own reservations, and if the rides are safe.                 *)
LEMMA WorkersKeep ==
  ASSUME TypeOK, IInv, NEW W \in SUBSET Workers, NEW T \in SUBSET Drivers,
         UNCHANGED <<match, queue>>,
         \A v \in Workers \ W : worker'[v] = worker[v] /\ handler'[v] = handler[v],
         \A e \in Drivers \ T : drivers'[e] = drivers[e] /\ (HasRide(e)' <=> HasRide(e)),
         \A q \in Riders : RideLog!Active(q) => rides'[q] = rides[q],
         \A d \in T : /\ \A m \in Matchers : ~MatcherClaims(m, d)
                      /\ ~Offered(d)
                      /\ \A v \in Workers \ W : ~WorkerClaims(v, d),
         \A w \in W : /\ worker'[w].at # "sleeping" /\ ~handler'[w].err
                      /\ WorkerReserved(w)'
                      /\ \A e \in Drivers : WorkerClaims(w, e)' => WorkerClaims(w, e),
         \A d \in T : drivers'[d].status # "matching" => drivers'[d].intent = NoRider,
         RideKeepsDriver', NoDoubleBooking'
  PROVE  IInv'
<1> USE DEF IInv
<1>1. NoStaleIntent' /\ NoRollback'
  BY DEF NoStaleIntent, NoRollback
<1>2. \A m \in Matchers, e \in Drivers : MatcherClaims(m, e)' => MatcherClaims(m, e)
  BY DEF MatcherClaims
<1>3. \A v \in Workers, e \in Drivers : WorkerClaims(v, e)' => WorkerClaims(v, e)
  BY DEF WorkerClaims, D
<1>4. \A e \in Drivers : OneHolder(e)'
  BY <1>2, <1>3, KeepsHolder DEF SoleClaim
<1>5. SoleClaim'
  BY <1>4 DEF SoleClaim, At
<1>6. ClaimsReserved'
  BY OthersReserved DEF ClaimsReserved
<1>7. QED
  BY <1>1, <1>5, <1>6

(* A worker in the middle of a delivery is the only one with a claim on    *)
(* its driver, which is still in MATCHING.                                 *)
LEMMA AtWork ==
  ASSUME TypeOK, IInv, NEW w \in Workers, handler[w].pc # "none"
  PROVE  /\ D(w) \in Drivers /\ R(w) \in Riders /\ WorkerClaims(w, D(w))
         /\ \A m \in Matchers : ~MatcherClaims(m, D(w))
         /\ ~Offered(D(w))
         /\ \A v \in Workers \ {w} : ~WorkerClaims(v, D(w))
         /\ drivers[D(w)].status = "matching"
         /\ handler[w].pc # "commit" => ~HasRide(D(w))
         /\ worker[w].at = "sending" /\ ~handler[w].err
         /\ WorkerReserved(w)
<1>1. /\ D(w) \in Drivers /\ R(w) \in Riders /\ WorkerClaims(w, D(w))
      /\ worker[w].at = "sending" /\ ~handler[w].err /\ WorkerReserved(w)
  BY HolderFacts, HandlerFacts DEF IInv, NoRollback, ClaimsReserved
<1>2. /\ \A m \in Matchers : ~MatcherClaims(m, D(w))
      /\ ~Offered(D(w))
      /\ \A v \in Workers \ {w} : ~WorkerClaims(v, D(w))
  BY <1>1 DEF IInv, SoleClaim, OneHolder
<1>3. /\ drivers[D(w)].status = "matching"
      /\ handler[w].pc # "commit" => ~HasRide(D(w))
  BY <1>1, ClaimedDrivers
<1>4. QED
  BY <1>1, <1>2, <1>3

LEMMA ProceedFacts ==
  ASSUME TypeOK, NEW w \in Workers, NEW pc, NEW err, Proceed(w, pc, err)
  PROVE  /\ handler'[w].pc = pc /\ handler'[w].err = err
         /\ \A v \in Workers \ {w} : handler'[v] = handler[v]
BY DEF Proceed, TypeOK, HandlerTypeOK

LEMMA ReturnsFacts ==
  ASSUME TypeOK, NEW w \in Workers, Returns(w, TRUE)
  PROVE  /\ handler'[w] = NoCall /\ worker'[w] = Queue!Waiting
         /\ \A v \in Workers \ {w} : handler'[v] = handler[v] /\ worker'[v] = worker[v]
         /\ UNCHANGED <<queue, stopped>>
BY DEF Returns, Queue!Return, Queue!AfterSend, TypeOK, HandlerTypeOK, Queue!TypeOK

(* The answer of the driver, and the clean-up that may follow it.          *)
LEMMA AnswerStep ==
  ASSUME TypeOK, IInv, NEW w \in Workers, Reject(w) \/ Accept(w) \/ ClearIntent(w)
  PROVE  IInv'
<1>1. /\ handler[w].pc # "none" /\ handler[w].pc # "commit"
      /\ UNCHANGED <<rides, queue, worker, match>>
      /\ \A e \in Drivers : e # D(w) => drivers'[e] = drivers[e]
      /\ drivers'[D(w)].status = "matching"
  <2>1. handler[w].pc # "none" /\ handler[w].pc # "commit"
    BY DEF Reject, Accept, ClearIntent, Handles
  <2>2. D(w) \in Drivers /\ drivers[D(w)].status = "matching"
    BY <2>1, AtWork
  <2>3. CASE ClearIntent(w)
    BY <2>1, <2>2, <2>3 DEF ClearIntent, Store!ClearIntent, TypeOK, Store!TypeOK, Store!Entry
  <2>4. CASE Reject(w) \/ Accept(w)
    BY <2>1, <2>2, <2>4 DEF Reject, Accept
  <2>5. QED
    BY <2>3, <2>4
<1>2. PICK d \in Drivers, r \in Riders :
        /\ d = D(w) /\ r = R(w) /\ D(w)' = d /\ R(w)' = r /\ ~HasRide(d)
        /\ \A m \in Matchers : ~MatcherClaims(m, d)
        /\ ~Offered(d)
        /\ \A v \in Workers \ {w} : ~WorkerClaims(v, d)
  BY <1>1, AtWork DEF D, R
<1>3. ~handler[w].err /\ worker[w].at = "sending" /\ WorkerReserved(w)
  BY <1>1, AtWork
<1>4. /\ ~handler'[w].err
      /\ \A v \in Workers \ {w} : handler'[v] = handler[v]
      /\ WorkerReserved(w)'
  <2>1. CASE Reject(w) \/ Accept(w)
    <3>1. PICK pc \in {"clear", "finalize"} : Proceed(w, pc, FALSE)
      BY <2>1 DEF Reject, Accept
    <3>2. UNCHANGED drivers /\ Reserved(d, r)
      BY <1>2, <1>3, <2>1 DEF Reject, Accept, WorkerReserved, Handles
    <3>3. Reserved(d, r)'
      BY <1>1, <3>2, KeepsReserved
    <3>4. /\ handler'[w].pc = pc /\ ~handler'[w].err
          /\ \A v \in Workers \ {w} : handler'[v] = handler[v]
      BY <3>1, ProceedFacts
    <3>5. QED
      BY <1>2, <3>3, <3>4 DEF WorkerReserved, Handles
  <2>2. CASE ClearIntent(w)
    <3>1. Proceed(w, "release", FALSE)
      BY <1>3, <2>2, HandlerFacts DEF ClearIntent, HandlerCall
    <3>2. drivers'[d].intent = NoRider
      BY <1>2, <1>3, <2>2, AtWork, <1>1
         DEF ClearIntent, Store!ClearIntent, TypeOK, Store!TypeOK, Store!Entry
    <3>3. Reserved(d, NoRider)'
      BY <1>1, <1>2, <3>2 DEF Reserved, HasRide, RideLog!Active
    <3>4. /\ handler'[w].pc = "release" /\ ~handler'[w].err
          /\ \A v \in Workers \ {w} : handler'[v] = handler[v]
      BY <3>1, ProceedFacts
    <3>5. QED
      BY <1>2, <3>3, <3>4 DEF WorkerReserved, Handles
  <2>3. QED
    BY <2>1, <2>2
<1>5. \A e : HasRide(e)' <=> HasRide(e)
  BY <1>1 DEF HasRide, RideLog!Active
<1>6. RideKeepsDriver' /\ NoDoubleBooking'
  <2>1. \A e : HasRide(e) => drivers'[e].status = drivers[e].status
    BY <1>1, <1>2, RideDrivers DEF HasRide
  <2>2. \A v \in Workers : Handles(v, "commit") =>
          handler'[v] = handler[v] /\ worker'[v] = worker[v]
    BY <1>1, <1>4 DEF Handles
  <2>3. QED
    BY <1>1, <2>1, <2>2, KeepsRides
<1>7. \A e \in Drivers : WorkerClaims(w, e)' => WorkerClaims(w, e)
  BY <1>1 DEF WorkerClaims, D
<1>8. {w} \in SUBSET Workers /\ {d} \in SUBSET Drivers
  OBVIOUS
<1>9. \A v \in Workers \ {w} : worker'[v] = worker[v] /\ handler'[v] = handler[v]
  BY <1>1, <1>4
<1>10. \A e \in Drivers \ {d} : drivers'[e] = drivers[e] /\ (HasRide(e)' <=> HasRide(e))
  BY <1>1, <1>2, <1>5
<1>11. \A x \in {w} : /\ worker'[x].at # "sleeping" /\ ~handler'[x].err
                      /\ WorkerReserved(x)'
                      /\ \A e \in Drivers : WorkerClaims(x, e)' => WorkerClaims(x, e)
  BY <1>1, <1>3, <1>4, <1>7
<1>12. \A x \in {d} : drivers'[x].status # "matching" => drivers'[x].intent = NoRider
  BY <1>1, <1>2
<1>13. QED
  BY <1>1, <1>2, <1>6, <1>8, <1>9, <1>10, <1>11, <1>12, WorkersKeep

(* CreateIfAbsent gives the rider a ride with this driver, who had none,   *)
(* or leaves the rides alone.                                              *)
LEMMA FinalizeStep ==
  ASSUME TypeOK, IInv, NEW w \in Workers, Finalize(w)
  PROVE  IInv'
<1>1. /\ handler[w].pc = "finalize"
      /\ UNCHANGED <<drivers, queue, worker, match>>
  BY DEF Finalize, Handles
<1>2. PICK d \in Drivers, r \in Riders :
        /\ d = D(w) /\ r = R(w) /\ D(w)' = d /\ R(w)' = r /\ ~HasRide(d)
        /\ drivers[d].status = "matching"
        /\ \A m \in Matchers : ~MatcherClaims(m, d)
        /\ ~Offered(d)
        /\ \A v \in Workers \ {w} : ~WorkerClaims(v, d)
  BY <1>1, AtWork DEF D, R
<1>3. ~handler[w].err /\ worker[w].at = "sending" /\ WorkerReserved(w)
  BY <1>1, AtWork
<1>4. PICK pc : /\ Proceed(w, pc, FALSE)
                /\ pc = IF RideLog!Creates(r) THEN "commit" ELSE "clear"
  BY <1>2 DEF Finalize
<1>5. /\ handler'[w].pc = pc /\ ~handler'[w].err
      /\ \A v \in Workers \ {w} : handler'[v] = handler[v]
  BY <1>4, ProceedFacts
<1>6. \A q \in Riders : IF q = r /\ RideLog!Creates(r)
                        THEN rides'[q] = RideLog!Assigned(d) ELSE rides'[q] = rides[q]
  BY <1>2 DEF Finalize, RideLog!CreateIfAbsent, TypeOK, RideLog!TypeOK
<1>7. \A q \in Riders : RideLog!Active(q) => rides'[q] = rides[q]
  BY <1>6 DEF RideLog!Creates
<1>8. \A q \in Riders : RideLog!Active(q)' =>
        RideLog!Active(q) \/ (q = r /\ rides'[q].driver = d /\ RideLog!Creates(r))
  BY <1>6 DEF RideLog!Active, RideLog!Assigned
<1>9. \A e \in Drivers \ {d} : HasRide(e)' <=> HasRide(e)
  BY <1>7, <1>8 DEF HasRide, RideLog!Active
<1>10. WorkerReserved(w)'
  <2>1. CASE RideLog!Creates(r)
    <3>1. handler'[w].pc = "commit" /\ drivers'[d].status = "matching"
          /\ rides'[r] = RideLog!Assigned(d)
      BY <1>1, <1>2, <1>4, <1>5, <1>6, <2>1
    <3>2. QED
      BY <1>2, <3>1 DEF WorkerReserved, Handles
  <2>2. CASE ~RideLog!Creates(r)
    <3>1. Reserved(d, r) /\ handler'[w].pc = "clear"
      BY <1>1, <1>2, <1>3, <1>4, <1>5, <2>2 DEF WorkerReserved
    <3>2. ~HasRide(d)'
      BY <1>2, <1>8, <2>2, <1>7 DEF HasRide, RideLog!Active
    <3>3. Reserved(d, r)'
      BY <1>1, <3>1, <3>2 DEF Reserved
    <3>4. QED
      BY <1>2, <3>1, <3>3 DEF WorkerReserved, Handles
  <2>3. QED
    BY <2>1, <2>2
<1>11. RideKeepsDriver'
  <2>1. ASSUME NEW q \in Riders, RideLog!Active(q)'
        PROVE  \/ drivers'[rides'[q].driver].status = "busy"
               \/ \E v \in Workers :
                    Handles(v, "commit")' /\ D(v)' = rides'[q].driver /\ R(v)' = q
    <3>1. CASE RideLog!Active(q)
      <4>1. rides'[q] = rides[q]
        BY <1>7, <3>1
      <4>2. CASE drivers[rides[q].driver].status = "busy"
        BY <1>1, <4>1, <4>2
      <4>3. CASE \E v \in Workers :
                   Handles(v, "commit") /\ D(v) = rides[q].driver /\ R(v) = q
        <5>1. PICK v \in Workers :
                Handles(v, "commit") /\ D(v) = rides[q].driver /\ R(v) = q
          BY <4>3
        <5>2. v # w
          BY <1>1, <5>1 DEF Handles
        <5>3. QED
          BY <1>1, <1>5, <4>1, <5>1, <5>2 DEF Handles, D, R
      <4>4. QED
        BY <3>1, <4>2, <4>3 DEF IInv, RideKeepsDriver
    <3>2. CASE q = r /\ rides'[q].driver = d /\ RideLog!Creates(r)
      BY <1>2, <1>4, <1>5, <3>2 DEF Handles
    <3>3. QED
      BY <1>8, <2>1, <3>1, <3>2
  <2>2. QED
    BY <2>1 DEF RideKeepsDriver
<1>12. NoDoubleBooking'
  <2>1. ASSUME NEW p \in Riders, NEW q \in Riders, RideLog!Active(p)', RideLog!Active(q)',
               rides'[p].driver = rides'[q].driver
        PROVE  p = q
    <3>1. CASE RideLog!Active(p) /\ RideLog!Active(q)
      BY <1>7, <2>1, <3>1 DEF IInv, NoDoubleBooking
    <3>2. CASE ~RideLog!Active(p) /\ RideLog!Active(q)
      <4>1. rides'[p].driver = d /\ rides'[q] = rides[q]
        BY <1>7, <1>8, <2>1, <3>2
      <4>2. QED
        BY <1>2, <2>1, <3>2, <4>1 DEF HasRide
    <3>3. CASE RideLog!Active(p) /\ ~RideLog!Active(q)
      <4>1. rides'[q].driver = d /\ rides'[p] = rides[p]
        BY <1>7, <1>8, <2>1, <3>3
      <4>2. QED
        BY <1>2, <2>1, <3>3, <4>1 DEF HasRide
    <3>4. CASE ~RideLog!Active(p) /\ ~RideLog!Active(q)
      BY <1>8, <2>1, <3>4
    <3>5. QED
      BY <3>1, <3>2, <3>3, <3>4
  <2>2. QED
    BY <2>1 DEF NoDoubleBooking
<1>13. \A x \in {w} : /\ worker'[x].at # "sleeping" /\ ~handler'[x].err
                      /\ WorkerReserved(x)'
                      /\ \A e \in Drivers : WorkerClaims(x, e)' => WorkerClaims(x, e)
  BY <1>1, <1>3, <1>5, <1>10 DEF WorkerClaims, D
<1>14. \A x \in {d} : drivers'[x].status # "matching" => drivers'[x].intent = NoRider
  BY <1>1, <1>2
<1>15. \A e \in Drivers \ {d} : drivers'[e] = drivers[e] /\ (HasRide(e)' <=> HasRide(e))
  BY <1>1, <1>9
<1>16. \A v \in Workers \ {w} : worker'[v] = worker[v] /\ handler'[v] = handler[v]
  BY <1>1, <1>5
<1>17. {w} \in SUBSET Workers /\ {d} \in SUBSET Drivers
  OBVIOUS
<1>18. QED
  BY <1>1, <1>2, <1>7, <1>11, <1>12, <1>13, <1>14, <1>15, <1>16, <1>17, WorkersKeep

(* The driver becomes BUSY or IDLE, and the worker waits for an offer.     *)
LEMMA LastStep ==
  ASSUME TypeOK, IInv, NEW w \in Workers, Commit(w) \/ Release(w)
  PROVE  IInv'
<1>1. handler[w].pc \in {"commit", "release"}
  BY DEF Commit, Release, Handles
<1>2. PICK d \in Drivers :
        /\ d = D(w) /\ drivers[d].status = "matching" /\ ~handler[w].err
        /\ \A m \in Matchers : ~MatcherClaims(m, d)
        /\ ~Offered(d)
        /\ \A v \in Workers \ {w} : ~WorkerClaims(v, d)
        /\ handler[w].pc # "commit" => ~HasRide(d)
  BY <1>1, AtWork
<1>3. /\ Returns(w, TRUE) /\ UNCHANGED <<rides, match>>
      /\ drivers'[d].status = (IF handler[w].pc = "commit" THEN "busy" ELSE "idle")
      /\ drivers'[d].intent = NoRider
      /\ \A e \in Drivers \ {d} : drivers'[e] = drivers[e]
  <2>1. PICK to \in {"busy", "idle"} :
          /\ Store!TransitionStatus(d, to)
          /\ to = IF handler[w].pc = "commit" THEN "busy" ELSE "idle"
          /\ Returns(w, TRUE) /\ UNCHANGED <<rides, match>>
    <3>1. Store!TransitionOK(d, "busy")
      BY <1>2 DEF Store!TransitionOK, Store!CanTransition, Store!Edges
    <3>2. CASE Commit(w)
      BY <1>2, <3>1, <3>2 DEF Commit, Handles
    <3>3. CASE Release(w)
      BY <1>2, <3>3 DEF Release, Handles
    <3>4. QED
      BY <3>2, <3>3
  <2>2. drivers' = [drivers EXCEPT ![d] = Store!AfterTransition(@, to)]
    BY <1>2, <2>1 DEF Store!TransitionStatus, Store!TransitionOK, Store!CanTransition,
                      Store!Edges
  <2>3. QED
    BY <2>1, <2>2 DEF Store!AfterTransition, TypeOK, Store!TypeOK
<1>4. /\ handler'[w].pc = "none" /\ ~handler'[w].err
      /\ worker'[w].at = "waiting" /\ worker'[w].offer = NoOffer
      /\ \A v \in Workers \ {w} : worker'[v] = worker[v] /\ handler'[v] = handler[v]
      /\ UNCHANGED queue
  <2>1. Returns(w, TRUE)
    BY <1>3
  <2>2. /\ handler'[w] = NoCall /\ worker'[w] = Queue!Waiting
        /\ \A v \in Workers \ {w} : handler'[v] = handler[v] /\ worker'[v] = worker[v]
        /\ UNCHANGED queue
    BY <2>1, ReturnsFacts
  <2>3. QED
    BY <2>2 DEF NoCall, Queue!Waiting
<1>5. /\ \A e : HasRide(e)' <=> HasRide(e)
      /\ \A q \in Riders : RideLog!Active(q) => rides'[q] = rides[q]
  BY <1>3 DEF HasRide, RideLog!Active
<1>6. NoDoubleBooking'
  BY <1>3 DEF IInv, NoDoubleBooking, RideLog!Active
<1>7. RideKeepsDriver'
  <2>1. ASSUME NEW q \in Riders, RideLog!Active(q)'
        PROVE  \/ drivers'[rides'[q].driver].status = "busy"
               \/ \E v \in Workers :
                    Handles(v, "commit")' /\ D(v)' = rides'[q].driver /\ R(v)' = q
    <3>1. PICK e \in Drivers : rides[q].driver = e /\ rides'[q] = rides[q]
                               /\ RideLog!Active(q) /\ HasRide(e)
      BY <1>3, <2>1, RideDrivers DEF RideLog!Active, HasRide
    <3>2. CASE e = d
      BY <1>1, <1>2, <1>3, <3>1, <3>2
    <3>3. CASE e # d /\ drivers[e].status = "busy"
      BY <1>3, <3>1, <3>3
    <3>4. CASE e # d /\ drivers[e].status # "busy"
      <4>1. PICK v \in Workers : Handles(v, "commit") /\ D(v) = e /\ R(v) = q
        BY <3>1, <3>4 DEF IInv, RideKeepsDriver
      <4>2. v # w
        BY <1>2, <3>4, <4>1
      <4>3. QED
        BY <1>4, <3>1, <4>1, <4>2 DEF Handles, D, R
    <3>5. QED
      BY <3>2, <3>3, <3>4
  <2>2. QED
    BY <2>1 DEF RideKeepsDriver
<1>8. \A x \in {w} : /\ worker'[x].at # "sleeping" /\ ~handler'[x].err
                     /\ WorkerReserved(x)'
                     /\ \A e \in Drivers : WorkerClaims(x, e)' => WorkerClaims(x, e)
  BY <1>4 DEF WorkerReserved, WorkerClaims, Handles
<1>9. \A x \in {d} : drivers'[x].status # "matching" => drivers'[x].intent = NoRider
  BY <1>3
<1>10. {w} \in SUBSET Workers /\ {d} \in SUBSET Drivers
  OBVIOUS
<1>11. \A e \in Drivers \ {d} : drivers'[e] = drivers[e] /\ (HasRide(e)' <=> HasRide(e))
  BY <1>3, <1>5
<1>12. UNCHANGED <<match, queue>>
  BY <1>3, <1>4
<1>13. QED
  BY <1>2, <1>4, <1>5, <1>6, <1>7, <1>8, <1>9, <1>10, <1>11, <1>12, WorkersKeep

(* Without faults nothing is ever put back for a retry.                    *)
LEMMA NoRetry ==
  ASSUME TypeOK, IInv, NEW w \in Workers
  PROVE  ~RetryOffer(w)
BY NothingUndone DEF RetryOffer, Queue!Retry

LEMMA ExitStep ==
  ASSUME TypeOK, IInv, NEW w \in Workers, ExitWorker(w)
  PROVE  IInv'
<1>1. /\ UNCHANGED <<drivers, rides, queue, match, handler>>
      /\ worker[w].at = "waiting" /\ worker' = [worker EXCEPT ![w] = Queue!Gone]
  BY DEF ExitWorker, Queue!Exit
<1>2. /\ worker'[w].at = "gone" /\ worker'[w].offer = NoOffer
      /\ \A v \in Workers \ {w} : worker'[v] = worker[v] /\ handler'[v] = handler[v]
  BY <1>1 DEF Queue!Gone, TypeOK, Queue!TypeOK
<1>3. handler[w].pc = "none" /\ ~handler[w].err
  BY <1>1, HandlerFacts, NothingUndone
<1>4. /\ \A e : HasRide(e)' <=> HasRide(e)
      /\ \A q \in Riders : RideLog!Active(q) => rides'[q] = rides[q]
  BY <1>1 DEF HasRide, RideLog!Active
<1>5. \A v \in Workers : Handles(v, "commit") => handler'[v] = handler[v] /\ worker'[v] = worker[v]
  BY <1>2, <1>3 DEF Handles
<1>6. RideKeepsDriver' /\ NoDoubleBooking'
  BY <1>1, <1>5, KeepsRides
<1>7. \A x \in {w} : /\ worker'[x].at # "sleeping" /\ ~handler'[x].err
                     /\ WorkerReserved(x)'
                     /\ \A e \in Drivers : WorkerClaims(x, e)' => WorkerClaims(x, e)
  BY <1>1, <1>2, <1>3 DEF WorkerReserved, WorkerClaims, Handles
<1>8. {w} \in SUBSET Workers /\ {} \in SUBSET Drivers
  OBVIOUS
<1>9. \A e \in Drivers \ {} : drivers'[e] = drivers[e] /\ (HasRide(e)' <=> HasRide(e))
  BY <1>1, <1>4
<1>10. QED
  BY <1>1, <1>2, <1>4, <1>6, <1>7, <1>8, <1>9, WorkersKeep

(* A driver that is not in the repository has no ride and no claim.        *)
LEMMA RegisterStep ==
  ASSUME TypeOK, IInv, NEW d \in Drivers, Register(d)
  PROVE  IInv'
<1>1. /\ UNCHANGED <<rides, queue, worker, match, handler>>
      /\ drivers[d].status = "absent"
      /\ drivers' = [drivers EXCEPT ![d] = Store!Fresh]
  BY DEF Register, FirstUpsert, Store!Upsert, Store!Absent
<1>2. /\ drivers'[d].intent = NoRider
      /\ \A e \in Drivers \ {d} : drivers'[e] = drivers[e]
  BY <1>1 DEF Store!Fresh, TypeOK, Store!TypeOK
<1>3. /\ \A m \in Matchers : ~MatcherClaims(m, d)
      /\ ~Offered(d) /\ \A v \in Workers : ~WorkerClaims(v, d)
      /\ ~HasRide(d)
  BY <1>1, OutsideMatching
<1>4. /\ \A e : HasRide(e)' <=> HasRide(e)
      /\ \A q \in Riders : RideLog!Active(q) => rides'[q] = rides[q]
  BY <1>1 DEF HasRide, RideLog!Active
<1>5. \A e : HasRide(e) => drivers'[e].status = drivers[e].status
  BY <1>2, <1>3, RideDrivers DEF HasRide
<1>6. RideKeepsDriver' /\ NoDoubleBooking'
  BY <1>1, <1>5, KeepsRides
<1>7. {} \in SUBSET Workers /\ {d} \in SUBSET Drivers
  OBVIOUS
<1>8. QED
  BY <1>1, <1>2, <1>3, <1>4, <1>6, <1>7, WorkersKeep

LEMMA IInvStep ==
  ASSUME FaultFree, TypeOK, IInv, [Next]_vars
  PROVE  IInv'
<1>1. ~RedisCanFail /\ ~StoreCanFail
  BY DEF FaultFree
<1>2. ASSUME NEW m \in Matchers, StartMatch(m) \/ MatcherStep(m)
      PROVE  IInv'
  <2>1. /\ ~CreateFails(m) /\ ~UndoReserve(m)
        /\ ~RollbackIntent(m) /\ ~RollbackStatus(m)
    BY <1>1, NothingUndone DEF CreateFails, UndoReserve, RollbackIntent, RollbackStatus, At
  <2>2. QED
    BY <1>2, <2>1, QuietSteps, ReserveStep, AttachStep, SendStep DEF MatcherStep
<1>3. ASSUME NEW w \in Workers, WorkerStep(w)
      PROVE  IInv'
  <2>1. ~AcceptFails(w) /\ ~FinalizeFails(w) /\ ~RetryOffer(w)
    BY <1>1, NoRetry DEF AcceptFails, FinalizeFails
  <2>2. QED
    BY <1>3, <2>1, TakeStep, AnswerStep, FinalizeStep, LastStep, ExitStep DEF WorkerStep
<1>4. CASE (\E r \in Riders : ExpireGroup(r)) \/ StopDispatcher \/ UNCHANGED vars
  <2>1. UNCHANGED <<drivers, rides, queue, worker, match, handler>>
    BY <1>4 DEF ExpireGroup, StopDispatcher, Queue!Stop, vars
  <2>2. QED
    BY <2>1, NothingUndone, QuietMatch
<1>5. QED
  BY <1>2, <1>3, <1>4, RegisterStep DEF Next

(* While neither Redis nor the ride store fails, a reserved driver is held *)
(* by one Match call, one queued offer or one delivery at a time.          *)
THEOREM ClaimsAreExclusive ==
  ASSUME FaultFree
  PROVE  Spec => []SoleClaim
<1>1. Init => IInv
  BY InitIInv
<1>2. TypeOK /\ IInv /\ [Next]_vars => IInv'
  BY IInvStep
<1>3. IInv => SoleClaim
  BY DEF IInv
<1>4. QED
  BY <1>1, <1>2, <1>3, TypeCorrect, PTL DEF Spec

(* While neither Redis nor the ride store fails, whoever claims a driver   *)
(* finds it in MATCHING, with the Intent of the rider of the claim.        *)
THEOREM ClaimsAreReserved ==
  ASSUME FaultFree
  PROVE  Spec => []ClaimsReserved
<1>1. Init => IInv
  BY InitIInv
<1>2. TypeOK /\ IInv /\ [Next]_vars => IInv'
  BY IInvStep
<1>3. IInv => ClaimsReserved
  BY DEF IInv
<1>4. QED
  BY <1>1, <1>2, <1>3, TypeCorrect, PTL DEF Spec

(* While neither Redis nor the ride store fails, no driver ever has two    *)
(* active rides.                                                           *)
THEOREM DriversAreBookedOnce ==
  ASSUME FaultFree
  PROVE  Spec => []NoDoubleBooking
<1>1. Init => IInv
  BY InitIInv
<1>2. TypeOK /\ IInv /\ [Next]_vars => IInv'
  BY IInvStep
<1>3. IInv => NoDoubleBooking
  BY DEF IInv
<1>4. QED
  BY <1>1, <1>2, <1>3, TypeCorrect, PTL DEF Spec

(* While neither Redis nor the ride store fails, the driver of a ride is   *)
(* busy, or the worker that created the ride is about to make it so.       *)
THEOREM RidesKeepTheirDriver ==
  ASSUME FaultFree
  PROVE  Spec => []RideKeepsDriver
<1>1. Init => IInv
  BY InitIInv
<1>2. TypeOK /\ IInv /\ [Next]_vars => IInv'
  BY IInvStep
<1>3. IInv => RideKeepsDriver
  BY DEF IInv
<1>4. QED
  BY <1>1, <1>2, <1>3, TypeCorrect, PTL DEF Spec

(* While neither Redis nor the ride store fails, no rollback and no retry  *)
(* ever runs.                                                              *)
THEOREM NothingIsUndone ==
  ASSUME FaultFree
  PROVE  Spec => []NoRollback
<1>1. Init => IInv
  BY InitIInv
<1>2. TypeOK /\ IInv /\ [Next]_vars => IInv'
  BY IInvStep
<1>3. IInv => NoRollback
  BY DEF IInv
<1>4. QED
  BY <1>1, <1>2, <1>3, TypeCorrect, PTL DEF Spec

-----------------------------------------------------------------------------
(* The offers in the channel are for different drivers, none of which the  *)
(* Match call has that is about to send another.                           *)
LEMMA RoomToOffer ==
  ASSUME TypeOK, SoleClaim, IsFiniteSet(Drivers), QueueCap >= Cardinality(Drivers),
         NEW m \in Matchers, At(m, "offer")
  PROVE  Queue!HasRoom
<1> DEFINE n == Len(queue)
           offered == [i \in 1 .. n |-> queue[i].driver]
<1>1. /\ n \in Nat /\ QueueCap \in Nat
      /\ \A i \in 1 .. n : queue[i].driver \in Drivers
  BY OfferFacts, MatchingAssumption
<1>2. PICK d \in Drivers : MatcherClaims(m, d)
  BY MatchFacts DEF At, TypeOK, MatcherClaims
<1>3. \A i \in 1 .. n : queue[i].driver # d
  BY <1>2 DEF SoleClaim, OneHolder, Offered
<1>4. \A i, j \in 1 .. n : queue[i].driver = queue[j].driver => i = j
  BY <1>1 DEF SoleClaim, OneHolder
<1>5. offered \in Injection(1 .. n, Drivers \ {d})
  BY <1>1, <1>3, <1>4 DEF Injection, IsInjective
<1>6. /\ IsFiniteSet(Drivers \ {d})
      /\ Cardinality(Drivers \ {d}) = Cardinality(Drivers) - 1
      /\ Cardinality(Drivers) \in Nat
  BY <1>2, FS_RemoveElement, FS_CardinalityType
<1>7. Cardinality(1 .. n) = n
  <2>1. n \in Int /\ 1 \in Int
    BY <1>1
  <2>2. Cardinality(1 .. n) = IF 1 > n THEN 0 ELSE n - 1 + 1
    BY <2>1, FS_Interval
  <2>3. QED
    BY <1>1, <2>2
<1>8. Cardinality(1 .. n) <= Cardinality(Drivers \ {d})
  BY <1>5, <1>6, FS_Injection
<1>9. n < QueueCap
  BY <1>1, <1>6, <1>7, <1>8
<1>10. QED
  BY <1>9 DEF Queue!HasRoom

(* A channel with room for one offer per driver never refuses an offer of  *)
(* Match: without faults no driver is left reserved with no offer.         *)
THEOREM OffersAlwaysFit ==
  ASSUME FaultFree, IsFiniteSet(Drivers)
  PROVE  Spec => []OffersFit
<1>1. TypeOK /\ SoleClaim => OffersFit
  BY RoomToOffer DEF OffersFit
<1>2. QED
  BY <1>1, TypeCorrect, ClaimsAreExclusive, PTL

(* So a reserved driver is at all times in the hands of a Match call, of   *)
(* the channel or of a worker: every exit of Match and of HandleDriver-    *)
(* Response passes it on, makes it BUSY or makes it IDLE.                  *)
THEOREM ReservationsAreHeld ==
  ASSUME FaultFree, IsFiniteSet(Drivers)
  PROVE  Spec => []ReservationHeld
<1>1. Init => ReservationHeld
  BY DEF Init, ReservationHeld, Stranded, Store!Init, Store!Absent
<1>2. TypeOK /\ SoleClaim /\ ReservationHeld /\ [Next]_vars => ReservationHeld'
  BY RoomToOffer, StrandedStep DEF ReservationHeld, SendOffer
<1>3. QED
  BY <1>1, <1>2, TypeCorrect, ClaimsAreExclusive, PTL DEF Spec

-----------------------------------------------------------------------------
(* The refinement: each step of the protocol holds, releases or books one  *)
(* driver, or changes nothing of what Booking sees.                        *)

(* What Booking sees of a driver and of a rider.                           *)
HeldFor(d) ==
  IF drivers[d].status = "matching" /\ ~HasRide(d) THEN drivers[d].intent ELSE NoRider

BookedBy(r) == IF RideLog!Active(r) THEN rides[r].driver ELSE NoDriver

LEMMA Stutters ==
  ASSUME \A d \in Drivers : HeldFor(d)' = HeldFor(d),
         \A r \in Riders : BookedBy(r)' = BookedBy(r)
  PROVE  UNCHANGED Abstract!vars
BY DEF Abstract!vars, HeldFor, BookedBy

LEMMA BookedDrivers ==
  ASSUME TypeOK, NEW d \in Drivers
  PROVE  Abstract!IsBooked(d) <=> HasRide(d)
BY MatchingAssumption DEF Abstract!IsBooked, HasRide, TypeOK, RideLog!TypeOK

LEMMA Holds ==
  ASSUME TypeOK, NEW d \in Drivers, NEW r \in Riders,
         HeldFor(d) = NoRider, ~HasRide(d), HeldFor(d)' = r,
         \A e \in Drivers \ {d} : HeldFor(e)' = HeldFor(e),
         \A q \in Riders : BookedBy(q)' = BookedBy(q)
  PROVE  Abstract!Hold(d, r)
BY BookedDrivers DEF Abstract!Hold, HeldFor, BookedBy

LEMMA Releases ==
  ASSUME NEW d \in Drivers, HeldFor(d) # NoRider, HeldFor(d)' = NoRider,
         \A e \in Drivers \ {d} : HeldFor(e)' = HeldFor(e),
         \A q \in Riders : BookedBy(q)' = BookedBy(q)
  PROVE  Abstract!Release(d)
BY DEF Abstract!Release, HeldFor, BookedBy

LEMMA Books ==
  ASSUME NEW d \in Drivers, NEW r \in Riders,
         HeldFor(d) = r, BookedBy(r) = NoDriver,
         HeldFor(d)' = NoRider, BookedBy(r)' = d,
         \A e \in Drivers \ {d} : HeldFor(e)' = HeldFor(e),
         \A q \in Riders \ {r} : BookedBy(q)' = BookedBy(q)
  PROVE  Abstract!Book(d, r)
BY DEF Abstract!Book, HeldFor, BookedBy

-----------------------------------------------------------------------------
LEMMA RidesFrame ==
  ASSUME UNCHANGED rides
  PROVE  /\ \A d \in Drivers : HasRide(d)' <=> HasRide(d)
         /\ \A r \in Riders : BookedBy(r)' = BookedBy(r)
BY DEF HasRide, BookedBy, RideLog!Active

(* A step that leaves the rides alone and changes one driver's entry.      *)
LEMMA OneDriver ==
  ASSUME UNCHANGED rides, NEW d \in Drivers,
         \A e \in Drivers \ {d} : drivers'[e] = drivers[e]
  PROVE  /\ \A e \in Drivers \ {d} : HeldFor(e)' = HeldFor(e)
         /\ HeldFor(d)' = IF drivers'[d].status = "matching" /\ ~HasRide(d)
                          THEN drivers'[d].intent ELSE NoRider
         /\ \A r \in Riders : BookedBy(r)' = BookedBy(r)
BY RidesFrame DEF HeldFor

LEMMA QuietIsStutter ==
  ASSUME UNCHANGED <<drivers, rides>>
  PROVE  UNCHANGED Abstract!vars
<1>1. \A d \in Drivers : HeldFor(d)' = HeldFor(d)
  BY RidesFrame DEF HeldFor
<1>2. QED
  BY <1>1, RidesFrame, Stutters

LEMMA ReserveIsStutter ==
  ASSUME TypeOK, IInv, NEW m \in Matchers, Reserve(m)
  PROVE  UNCHANGED Abstract!vars
<1> DEFINE d == match[m].driver
<1>1. d \in Drivers /\ UNCHANGED rides
  BY MatchFacts DEF TypeOK, Reserve, At, AtDriver
<1>2. CASE ~Store!TransitionOK(d, "matching")
  <2>1. UNCHANGED drivers
    BY <1>2 DEF Reserve, Store!TransitionStatus
  <2>2. QED
    BY <1>1, <2>1, QuietIsStutter
<1>3. CASE Store!TransitionOK(d, "matching")
  <2>1. drivers[d].status = "idle" /\ drivers[d].intent = NoRider
    BY <1>1, <1>3 DEF Store!TransitionOK, Store!CanTransition, Store!Edges, IInv,
                      NoStaleIntent
  <2>2. drivers'[d].intent = NoRider /\ \A e \in Drivers \ {d} : drivers'[e] = drivers[e]
    BY <1>1, <1>3, <2>1 DEF Reserve, Store!TransitionStatus, Store!AfterTransition,
                            TypeOK, Store!TypeOK
  <2>3. \A e \in Drivers : HeldFor(e)' = HeldFor(e)
    <3> HIDE DEF d
    <3>1. HeldFor(d) = NoRider
      BY <2>1 DEF HeldFor
    <3>2. QED
      BY <1>1, <2>2, <3>1, OneDriver
  <2>4. QED
    BY <1>1, <2>3, RidesFrame, Stutters
<1>4. QED
  BY <1>2, <1>3

(* SetIntent is where a driver is held.                                    *)
LEMMA AttachIsHold ==
  ASSUME TypeOK, IInv, NEW m \in Matchers, AttachIntent(m)
  PROVE  Abstract!Next
<1>1. /\ match[m].driver \in Drivers /\ match[m].rider \in Riders
      /\ Reserved(match[m].driver, NoRider) /\ UNCHANGED rides
  BY MatchFacts DEF TypeOK, AttachIntent, At, AtDriver, IInv, ClaimsReserved,
                    MatcherReserved
<1>2. PICK d \in Drivers : d = match[m].driver
  BY <1>1
<1>3. PICK r \in Riders : r = match[m].rider
  BY <1>1
<1>4. /\ drivers'[d].status = "matching" /\ drivers'[d].intent = r
      /\ \A e \in Drivers \ {d} : drivers'[e] = drivers[e]
  BY <1>1, <1>2, <1>3 DEF AttachIntent, Store!SetIntent, Store!SetIntentOK, Reserved,
                          TypeOK, Store!TypeOK, Store!Entry
<1>5. HeldFor(d) = NoRider /\ ~HasRide(d)
  BY <1>1, <1>2 DEF HeldFor, Reserved
<1>6. Abstract!Hold(d, r)
  BY <1>1, <1>4, <1>5, OneDriver, Holds
<1>7. QED
  BY <1>6 DEF Abstract!Next

(* ClearIntent is where a held driver is released; Release of its status   *)
(* comes later and is not seen.                                            *)
LEMMA ClearIsRelease ==
  ASSUME TypeOK, IInv, NEW w \in Workers, ClearIntent(w)
  PROVE  Abstract!Next
<1>1. /\ D(w) \in Drivers /\ R(w) \in Riders /\ Reserved(D(w), R(w)) /\ UNCHANGED rides
  BY AtWork DEF ClearIntent, Handles, WorkerReserved
<1>2. PICK d \in Drivers : d = D(w)
  BY <1>1
<1>3. /\ drivers'[d].intent = NoRider
      /\ \A e \in Drivers \ {d} : drivers'[e] = drivers[e]
  BY <1>1, <1>2 DEF ClearIntent, Store!ClearIntent, Reserved, TypeOK, Store!TypeOK,
                    Store!Entry
<1>4. HeldFor(d) # NoRider
  BY <1>1, <1>2, MatchingAssumption DEF HeldFor, Reserved
<1>5. Abstract!Release(d)
  BY <1>1, <1>3, <1>4, OneDriver, Releases
<1>6. QED
  BY <1>5 DEF Abstract!Next

LEMMA LastIsStutter ==
  ASSUME TypeOK, IInv, NEW w \in Workers, Release(w) \/ Commit(w)
  PROVE  UNCHANGED Abstract!vars
<1>1. /\ D(w) \in Drivers /\ UNCHANGED rides /\ drivers[D(w)].status = "matching"
      /\ R(w) \in Riders
  BY AtWork DEF Release, Commit, Handles
<1>2. PICK d \in Drivers : d = D(w)
  BY <1>1
<1>3. /\ drivers'[d].status \in {"idle", "busy"}
      /\ \A e \in Drivers \ {d} : drivers'[e] = drivers[e]
  BY <1>1, <1>2 DEF Release, Commit, Store!TransitionStatus, Store!TransitionOK,
                    Store!CanTransition, Store!Edges, Store!AfterTransition,
                    TypeOK, Store!TypeOK
<1>4. HeldFor(d) = NoRider
  <2>1. CASE Release(w)
    BY <1>1, <1>2, <2>1, AtWork DEF Release, Handles, WorkerReserved, Reserved, HeldFor
  <2>2. CASE Commit(w)
    <3>1. rides[R(w)] = RideLog!Assigned(d)
      BY <1>2, <2>2, AtWork DEF Commit, Handles, WorkerReserved
    <3>2. HasRide(d)
      BY <1>1, <3>1 DEF HasRide, RideLog!Active, RideLog!ActiveStatus, RideLog!Assigned
    <3>3. QED
      BY <3>2 DEF HeldFor
  <2>3. QED
    BY <2>1, <2>2
<1>5. QED
  BY <1>1, <1>3, <1>4, OneDriver, Stutters

(* CreateIfAbsent is where a held driver is booked.                        *)
LEMMA FinalizeIsBook ==
  ASSUME TypeOK, IInv, NEW w \in Workers, Finalize(w)
  PROVE  Abstract!Next \/ UNCHANGED Abstract!vars
<1>1. /\ D(w) \in Drivers /\ R(w) \in Riders /\ Reserved(D(w), R(w))
      /\ UNCHANGED drivers
  BY AtWork DEF Finalize, Handles, WorkerReserved
<1>2. CASE ~RideLog!Creates(R(w))
  <2>1. UNCHANGED rides
    BY <1>2 DEF Finalize, RideLog!CreateIfAbsent
  <2>2. QED
    BY <1>1, <2>1, QuietIsStutter
<1>3. CASE RideLog!Creates(R(w))
  <2>1. PICK d \in Drivers, r \in Riders : d = D(w) /\ r = R(w)
    BY <1>1
  <2>2. /\ rides'[r] = RideLog!Assigned(d) /\ ~RideLog!Active(r)
        /\ \A q \in Riders \ {r} : rides'[q] = rides[q]
    BY <1>3, <2>1 DEF Finalize, RideLog!CreateIfAbsent, RideLog!Creates, TypeOK,
                      RideLog!TypeOK
  <2>3. RideLog!Active(r)' /\ \A q \in Riders \ {r} : RideLog!Active(q)' <=> RideLog!Active(q)
    BY <2>2 DEF RideLog!Active, RideLog!ActiveStatus, RideLog!Assigned
  <2>4. rides'[r].driver = d
    BY <2>2 DEF RideLog!Assigned
  <2>5. /\ BookedBy(r) = NoDriver /\ BookedBy(r)' = d
        /\ \A q \in Riders \ {r} : BookedBy(q)' = BookedBy(q)
    BY <2>2, <2>3, <2>4 DEF BookedBy
  <2>6. HasRide(d)' /\ \A e \in Drivers \ {d} : HasRide(e)' <=> HasRide(e)
    BY <2>2, <2>3, <2>4 DEF HasRide
  <2>7. /\ HeldFor(d) = r /\ HeldFor(d)' = NoRider
        /\ \A e \in Drivers \ {d} : HeldFor(e)' = HeldFor(e)
    BY <1>1, <2>1, <2>6 DEF HeldFor, Reserved
  <2>8. Abstract!Book(d, r)
    BY <2>5, <2>7, Books
  <2>9. QED
    BY <2>8 DEF Abstract!Next
<1>4. QED
  BY <1>2, <1>3

(* A driver that goes online is not held.                                  *)
LEMMA RegisterIsStutter ==
  ASSUME TypeOK, NEW d \in Drivers, Register(d)
  PROVE  UNCHANGED Abstract!vars
<1>1. /\ drivers[d].status = "absent" /\ drivers'[d].status = "idle" /\ UNCHANGED rides
      /\ \A e \in Drivers \ {d} : drivers'[e] = drivers[e]
  BY DEF Register, FirstUpsert, Store!Upsert, Store!Absent, Store!Fresh, TypeOK, Store!TypeOK
<1>2. HeldFor(d) = NoRider
  BY <1>1 DEF HeldFor
<1>3. QED
  BY <1>1, <1>2, OneDriver, Stutters

LEMMA StepsRefine ==
  ASSUME FaultFree, TypeOK, IInv, [Next]_vars
  PROVE  [Abstract!Next]_Abstract!vars
<1>1. ~RedisCanFail /\ ~StoreCanFail
  BY DEF FaultFree
<1>2. ASSUME NEW m \in Matchers, StartMatch(m) \/ MatcherStep(m)
      PROVE  Abstract!Next \/ UNCHANGED Abstract!vars
  <2>1. /\ ~CreateFails(m) /\ ~UndoReserve(m)
        /\ ~RollbackIntent(m) /\ ~RollbackStatus(m)
    BY <1>1, NothingUndone DEF CreateFails, UndoReserve, RollbackIntent, RollbackStatus, At
  <2>2. CASE \/ StartMatch(m) \/ Revalidate(m) \/ NoDriversAvailable(m)
             \/ CreateGroup(m) \/ ArmExpiry(m) \/ SendOffer(m)
    BY <2>2, QuietIsStutter DEF StartMatch, Revalidate, NoDriversAvailable, CreateGroup,
                                ArmExpiry, SendOffer
  <2>3. QED
    BY <1>2, <2>1, <2>2, ReserveIsStutter, AttachIsHold DEF MatcherStep
<1>3. ASSUME NEW w \in Workers, WorkerStep(w)
      PROVE  Abstract!Next \/ UNCHANGED Abstract!vars
  <2>1. ~AcceptFails(w) /\ ~FinalizeFails(w)
    BY <1>1 DEF AcceptFails, FinalizeFails
  <2>2. CASE TakeOffer(w) \/ Reject(w) \/ Accept(w) \/ RetryOffer(w) \/ ExitWorker(w)
    BY <2>2, QuietIsStutter DEF TakeOffer, Reject, Accept, RetryOffer, ExitWorker
  <2>3. QED
    BY <1>3, <2>1, <2>2, ClearIsRelease, LastIsStutter, FinalizeIsBook DEF WorkerStep
<1>4. CASE (\E r \in Riders : ExpireGroup(r)) \/ StopDispatcher \/ UNCHANGED vars
  BY <1>4, QuietIsStutter DEF ExpireGroup, StopDispatcher, vars
<1>5. CASE \E d \in Drivers : Register(d)
  BY <1>5, RegisterIsStutter
<1>6. QED
  BY <1>2, <1>3, <1>4, <1>5 DEF Next

(* While neither Redis nor the ride store fails, every behaviour of the    *)
(* protocol is one of the abstract booking: a driver is held for one rider *)
(* at a time, and is booked only for the rider it is held for, when that   *)
(* rider has no ride.                                                      *)
THEOREM ProtocolImplementsBooking ==
  ASSUME FaultFree
  PROVE  Spec => Implements
<1>1. Init => Abstract!Init
  BY DEF Init, Store!Init, Store!Absent, RideLog!Init, RideLog!NoRide, RideLog!Active,
         RideLog!ActiveStatus, Abstract!Init
<1>2. TypeOK /\ IInv /\ [Next]_vars => IInv'
  BY IInvStep
<1>3. TypeOK /\ IInv /\ [Next]_vars => [Abstract!Next]_Abstract!vars
  BY StepsRefine
<1>4. QED
  BY <1>1, <1>2, <1>3, InitIInv, TypeCorrect, PTL DEF Spec, Implements, Abstract!Spec
=============================================================================
