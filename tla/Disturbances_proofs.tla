--------------------------- MODULE Disturbances_proofs -------------------------
(***************************************************************************)
(* What the assignment protocol keeps in the surroundings it runs in: when *)
(* the process may crash at any moment (Restart), and when TTL eviction,   *)
(* heartbeats and the recovery service change the drivers under it         *)
(* (Churn).                                                                *)
(*                                                                         *)
(* Through crashes it keeps all of it, as long as nothing else fails.  A   *)
(* crash leads back to the initial state, but for the groups; and the      *)
(* protocol's invariants hold of an initial state whatever the groups are. *)
(* Beside the background jobs the exclusiveness of a reservation is lost   *)
(* (run double_booking); what is left holds whatever fails.                *)
(***************************************************************************)
EXTENDS Churn, Restart, Assignment_proofs
LEMMA CrashType == TypeOK /\ Crash => TypeOK'
<1> SUFFICES ASSUME TypeOK, Crash
             PROVE  TypeOK'
  OBVIOUS
<1>1. Store!TypeOK'
  BY DEF Crash, Store!TypeOK, Store!Entry, Store!Absent, Store!DriverStatus
<1>2. Redis!TypeOK'
  BY DEF Crash, TypeOK, Redis!TypeOK
<1>3. RideLog!TypeOK'
  BY DEF Crash, RideLog!TypeOK, RideLog!Ride, RideLog!NoRide
<1>4. Queue!TypeOK'
  <2>1. <<>> \in Seq(Queue!Offer) /\ Len(<<>>) = 0 /\ 0 <= QueueCap
    BY MatchingAssumption
  <2>2. Queue!Waiting \in Queue!WorkerState
    BY DEF Queue!Waiting, Queue!WorkerState
  <2>3. QED
    BY <2>1, <2>2 DEF Crash, Queue!TypeOK, Queue!Waiting
<1>5. MatchTypeOK' /\ HandlerTypeOK'
  BY MatchingAssumption
  DEF Crash, MatchTypeOK, MatchCall, MatchPC, AtDriver, Ready, HandlerTypeOK,
      HandlerCall, HandlerPC, NoCall, Queue!Waiting
<1>6. QED
  BY <1>1, <1>2, <1>3, <1>4, <1>5 DEF TypeOK

LEMMA CrashIInv == Crash => IInv'
BY DEF Crash, IInv, NoStaleIntent, Store!Absent, NoRollback, SoleClaim,
       OneHolder, ClaimsReserved, MatcherReserved, OfferReserved, WorkerReserved,
       RideKeepsDriver, NoDoubleBooking, MatcherClaims, WorkerClaims, Offered, At,
       Handles, Ready, NoCall, Queue!Waiting,
       RideLog!NoRide, RideLog!Active, RideLog!ActiveStatus

(* The types of all components hold through crashes.                       *)
THEOREM RestartTypeCorrect == RestartSpec => []TypeOK
<1>1. TypeOK /\ [RestartNext]_vars => TypeOK'
  BY StepType, CrashType DEF RestartNext
<1>2. QED
  BY <1>1, InitType, PTL DEF RestartSpec

LEMMA RestartKeeps ==
  ASSUME FaultFree
  PROVE  RestartSpec => []IInv
<1>1. TypeOK /\ IInv /\ [RestartNext]_vars => IInv'
  BY IInvStep, CrashIInv DEF RestartNext
<1>2. QED
  BY <1>1, InitIInv, RestartTypeCorrect, PTL DEF RestartSpec

(* Offer groups that survive a crash lead to no double booking, and to no  *)
(* ride whose driver is free.                                              *)
THEOREM RestartBooksOnce ==
  ASSUME FaultFree
  PROVE  RestartSpec => [](NoDoubleBooking /\ RideKeepsDriver)
<1>1. IInv => NoDoubleBooking /\ RideKeepsDriver
  BY DEF IInv
<1>2. QED
  BY <1>1, RestartKeeps, PTL

(* Nor to a claim that is shared, or not reserved for its rider: no offer  *)
(* and no Match call of before the crash acts after it.                    *)
THEOREM RestartClaimsAreReserved ==
  ASSUME FaultFree
  PROVE  RestartSpec => [](SoleClaim /\ ClaimsReserved)
<1>1. IInv => SoleClaim /\ ClaimsReserved
  BY DEF IInv
<1>2. QED
  BY <1>1, RestartKeeps, PTL

(* Nor to a driver reserved by a call that the crash has ended.            *)
THEOREM RestartStrandsNobody ==
  ASSUME FaultFree, IsFiniteSet(Drivers)
  PROVE  RestartSpec => []ReservationHeld
<1>1. Init => ReservationHeld
  BY DEF Init, ReservationHeld, Stranded, Store!Init, Store!Absent
<1>2. TypeOK /\ SoleClaim /\ ReservationHeld /\ [Next]_vars => ReservationHeld'
  BY RoomToOffer, StrandedStep DEF ReservationHeld, SendOffer
<1>3. Crash => ReservationHeld'
  BY DEF Crash, ReservationHeld, Stranded, Store!Absent
<1>4. IInv => SoleClaim
  BY DEF IInv
<1>5. QED
  BY <1>1, <1>2, <1>3, <1>4, RestartTypeCorrect, RestartKeeps, PTL
  DEF RestartSpec, RestartNext

(* Whatever fails besides, a busy driver has a ride and an Intent ends     *)
(* with MATCHING: a crash takes the rides and the drivers away together.   *)
THEOREM RestartBusyHasRide == RestartSpec => [](RideBeforeBusy /\ NoStaleIntent)
<1> DEFINE Inv == CommitHasRide /\ RideBeforeBusy /\ NoStaleIntent
<1>1. Init => Inv
  BY DEF Init, CommitHasRide, RideBeforeBusy, NoStaleIntent, Handles, NoCall,
     Store!Init, Store!Absent
<1>2. Crash => Inv'
  BY DEF Crash, CommitHasRide, RideBeforeBusy, NoStaleIntent, Handles, NoCall,
     Store!Absent
<1>3. TypeOK /\ Inv /\ [RestartNext]_vars => Inv'
  BY <1>2, CommitStep, BusyStep, StaleIntentStep DEF RestartNext
<1>4. QED
  BY <1>1, <1>3, RestartTypeCorrect, PTL DEF RestartSpec

(* The winner of a group is final across restarts: a crash leaves Redis    *)
(* alone, and the offers sent after it cannot win a group that was won.    *)
THEOREM RestartFirstAcceptIsFinal == RestartSpec => FirstAcceptWins
<1>1. TypeOK /\ [RestartNext]_vars =>
        [\A r \in Riders :
           groups[r].status = "accepted" /\ groups'[r].status # "missing"
             => groups'[r].status = "accepted" /\ groups'[r].winner = groups[r].winner]_vars
  BY WinnerStays DEF vars, RestartNext, Crash
<1>2. QED
  BY <1>1, RestartTypeCorrect, PTL DEF RestartSpec, FirstAcceptWins

-----------------------------------------------------------------------------
(* The background jobs: what each of them does to one driver.              *)

(* A background job touches one driver, or none, and nothing else.  What   *)
(* the recovery service does is left to its operations on the repository.  *)
Background ==
  FindStuckMatching \/ Rollback \/ DropIntent \/ \E d \in Drivers : Upsert(d) \/ Evict(d)

LEMMA BackgroundSteps ==
  ASSUME RecoveryTypeOK, Background
  PROVE  /\ UNCHANGED <<groups, rides, queue, worker, stopped, match, handler>>
         /\ \/ UNCHANGED drivers
            \/ \E d \in Drivers : \/ Store!TransitionStatus(d, "idle")
                                  \/ Store!ClearIntent(d)
                                  \/ Store!Delete(d)
                                  \/ reading[d] # Store!Absent /\ Upsert(d)
BY DEF Background, FindStuckMatching, Rollback, DropIntent, Upsert, Evict, vars,
       RecoveryTypeOK

LEMMA ChurnSteps ==
  ASSUME [ChurnNext]_churnVars
  PROVE  \/ [Next]_vars /\ UNCHANGED reading
         \/ Background
         \/ \E d \in Drivers : Get(d)
BY DEF ChurnNext, churnVars, recoveryVars, RecoveryNext, Background

(* What a heartbeat has read says of its driver what the repository may    *)
(* say of it: an entry that is written back is as good as one that stayed. *)
EntryHolds(d, e) ==
  /\ e.status = "absent" => e = Store!Absent
  /\ e.status = "busy" => HasRide(d)
  /\ e.status # "matching" => e.intent = NoRider

ReadingHolds == \A d \in Drivers : EntryHolds(d, reading[d])

ChurnInv == ChurnTypeOK /\ CommitHasRide /\ RideBeforeBusy /\ NoStaleIntent /\ ReadingHolds

LEMMA ChurnInit_Inv == ChurnInit => ChurnInv
<1> SUFFICES ASSUME ChurnInit PROVE ChurnInv
  OBVIOUS
<1>1. ChurnTypeOK
  BY InitType DEF ChurnInit, RecoveryInit, Resting, ChurnTypeOK, RecoveryTypeOK,
     Store!Absent, Store!Entry
<1>2. CommitHasRide /\ RideBeforeBusy /\ NoStaleIntent
  BY DEF ChurnInit, RecoveryInit, Init, CommitHasRide, RideBeforeBusy, NoStaleIntent,
     Handles, NoCall, Store!Init, Store!Absent
<1>3. ReadingHolds
  BY DEF ChurnInit, ReadingHolds, EntryHolds, Store!Absent
<1>4. QED
  BY <1>1, <1>2, <1>3 DEF ChurnInv

(* In the repository every entry is such a one.                            *)
LEMMA StoredHolds ==
  ASSUME ChurnInv, NEW d \in Drivers
  PROVE  EntryHolds(d, drivers[d]) /\ drivers[d] \in Store!Entry
BY DEF ChurnInv, ChurnTypeOK, RecoveryTypeOK, TypeOK, Store!TypeOK, RideBeforeBusy,
       NoStaleIntent, EntryHolds

(* What a driver's entry becomes in a background step is such a one again. *)
LEMMA BackgroundEntry ==
  ASSUME ChurnInv, Background, NEW d \in Drivers
  PROVE  EntryHolds(d, drivers'[d]) /\ drivers'[d] \in Store!Entry
<1> DEFINE Good(e) == EntryHolds(d, e) /\ e \in Store!Entry
<1>1. Good(drivers[d])
  BY StoredHolds
<1>2. drivers \in [Drivers -> Store!Entry]
  BY DEF ChurnInv, ChurnTypeOK, RecoveryTypeOK, TypeOK, Store!TypeOK
<1>3. CASE UNCHANGED drivers
  BY <1>1, <1>3
<1>4. ASSUME NEW e \in Drivers, Store!TransitionStatus(e, "idle")
      PROVE  Good(drivers'[d])
  <2>1. Good(Store!AfterTransition(drivers[d], "idle"))
    BY DEF EntryHolds, Store!AfterTransition, Store!Entry, Store!DriverStatus
  <2>2. QED
    BY <1>1, <1>2, <1>4, <2>1 DEF Store!TransitionStatus
<1>5. ASSUME NEW e \in Drivers, Store!ClearIntent(e)
      PROVE  Good(drivers'[d])
  <2>1. drivers[d].status # "absent" => Good([drivers[d] EXCEPT !.intent = NoRider])
    BY <1>1 DEF EntryHolds, Store!Entry, Store!DriverStatus
  <2>2. QED
    BY <1>1, <1>2, <1>5, <2>1 DEF Store!ClearIntent
<1>6. ASSUME NEW e \in Drivers, Store!Delete(e)
      PROVE  Good(drivers'[d])
  <2>1. Good(Store!Absent)
    BY DEF EntryHolds, Store!Absent, Store!Entry
  <2>2. QED
    BY <1>1, <1>2, <1>6, <2>1 DEF Store!Delete
<1>7. ASSUME NEW e \in Drivers, Upsert(e)
      PROVE  Good(drivers'[d])
  <2>1. Good(reading[d])
    BY DEF ChurnInv, ReadingHolds, ChurnTypeOK
  <2>2. QED
    BY <1>1, <1>2, <1>7, <2>1 DEF Upsert, Store!Upsert
<1>8. RecoveryTypeOK
  BY DEF ChurnInv, ChurnTypeOK
<1>9. QED
  BY <1>3, <1>4, <1>5, <1>6, <1>7, <1>8, BackgroundSteps

LEMMA BackgroundInv ==
  ASSUME ChurnInv, Background
  PROVE  TypeOK' /\ CommitHasRide' /\ RideBeforeBusy' /\ NoStaleIntent'
<1>1. RecoveryTypeOK /\ TypeOK
  BY DEF ChurnInv, ChurnTypeOK, RecoveryTypeOK
<1>2. UNCHANGED <<groups, rides, queue, worker, stopped, match, handler>>
  BY <1>1, BackgroundSteps
<1>3. \A d \in Drivers : EntryHolds(d, drivers'[d]) /\ drivers'[d] \in Store!Entry
  BY BackgroundEntry
<1>4. \E f : drivers' = [d \in Drivers |-> f[d]]
  BY <1>1, BackgroundSteps
     DEF TypeOK, Store!TypeOK, Store!TransitionStatus, Store!ClearIntent, Store!Delete,
         Upsert, Store!Upsert
<1>5. Store!TypeOK'
  BY <1>3, <1>4 DEF Store!TypeOK, EntryHolds
<1>6. TypeOK'
  BY <1>1, <1>2, <1>5, Frame DEF TypeOK
<1>7. \A d \in Drivers : HasRide(d)' <=> HasRide(d)
  BY <1>2 DEF HasRide, RideLog!Active
<1>8. RideBeforeBusy' /\ NoStaleIntent'
  BY <1>3, <1>7 DEF RideBeforeBusy, NoStaleIntent, EntryHolds
<1>9. CommitHasRide'
  BY <1>2 DEF ChurnInv, CommitHasRide, Handles, R, D, RideLog!Active
<1>10. QED
  BY <1>6, <1>8, <1>9

(* The protocol's own steps keep the invariant as they do without jobs.    *)
LEMMA ProtocolInv ==
  ASSUME ChurnInv, [Next]_vars
  PROVE  TypeOK' /\ CommitHasRide' /\ RideBeforeBusy' /\ NoStaleIntent'
<1>1. TypeOK
  BY DEF ChurnInv, ChurnTypeOK, RecoveryTypeOK
<1>2. QED
  BY <1>1, StepType, CommitStep, BusyStep, StaleIntentStep DEF ChurnInv

(* What Recover's statements leave in its locals.                          *)
LEMMA RecoveryLocals ==
  ASSUME RecoveryTypeOK, [ChurnNext]_churnVars
  PROVE  recovery' \in [todo: SUBSET Drivers, driver: Drivers \cup {NoDriver},
                        panicked: BOOLEAN]
<1> DEFINE Locals == [todo: SUBSET Drivers, driver: Drivers \cup {NoDriver},
                      panicked: BOOLEAN]
<1> SUFFICES recovery' \in Locals
  OBVIOUS
<1>1. recovery \in Locals /\ Resting \in Locals
  BY DEF RecoveryTypeOK, Resting
<1>2. ASSUME NEW c \in Locals, NEW todo \in SUBSET Drivers,
             NEW d \in Drivers \cup {NoDriver}
      PROVE  /\ [c EXCEPT !.panicked = TRUE] \in Locals
             /\ [c EXCEPT !.todo = todo] \in Locals
             /\ [c EXCEPT !.driver = d] \in Locals
             /\ [c EXCEPT !.todo = todo, !.driver = d] \in Locals
  OBVIOUS
<1> HIDE DEF Locals
<1>3. CASE FindStuckMatching
  <2>1. PICK overdue \in SUBSET {d \in Drivers : MayBeOverdue(d)} :
          \/ recovery' = [Resting EXCEPT !.panicked = TRUE]
          \/ recovery' = [Resting EXCEPT !.todo = Stuck(overdue)]
    BY <1>3, Zenon DEF FindStuckMatching
  <2>2. Stuck(overdue) \in SUBSET Drivers
    BY DEF Stuck
  <2>3. QED
    BY <1>1, <1>2, <2>1, <2>2, Zenon
<1>4. CASE Rollback
  <2>1. PICK d \in recovery.todo : recovery' = [recovery EXCEPT !.driver = d]
    BY <1>4, Zenon DEF Rollback
  <2>2. recovery.todo \subseteq Drivers
    BY <1>1 DEF Locals
  <2>3. QED
    BY <1>1, <1>2, <2>1, <2>2
<1>5. CASE DropIntent
  <2>1. recovery.todo \ {recovery.driver} \in SUBSET Drivers
    BY <1>1 DEF Locals
  <2>2. recovery' = [recovery EXCEPT !.todo = recovery.todo \ {recovery.driver},
                                     !.driver = NoDriver]
    BY <1>5 DEF DropIntent
  <2>3. QED
    BY <1>1, <1>2, <2>1, <2>2
<1>6. UNCHANGED recovery \/ FindStuckMatching \/ Rollback \/ DropIntent
  BY DEF ChurnNext, churnVars, recoveryVars, RecoveryNext, Get, Upsert, Evict
<1>7. QED
  BY <1>1, <1>3, <1>4, <1>5, <1>6

LEMMA ChurnStep ==
  ASSUME ChurnInv, [ChurnNext]_churnVars
  PROVE  ChurnInv'
<1>1. TypeOK' /\ CommitHasRide' /\ RideBeforeBusy' /\ NoStaleIntent'
  <2>1. ASSUME NEW d \in Drivers, Get(d)
        PROVE  UNCHANGED vars
    BY <2>1 DEF Get, recoveryVars
  <2>2. QED
    BY <2>1, ProtocolInv, BackgroundInv, ChurnSteps
<1>2. RecoveryTypeOK'
  BY <1>1, RecoveryLocals DEF RecoveryTypeOK, ChurnInv, ChurnTypeOK
<1>3. ASSUME NEW d \in Drivers
      PROVE  \/ reading'[d] = reading[d]
             \/ reading'[d] \in {Store!Absent, Store!Fresh, drivers[d]}
  BY DEF ChurnInv, ChurnTypeOK, ChurnNext, churnVars, Get, Upsert, Evict
<1>4. ChurnTypeOK'
  <2>1. Store!Absent \in Store!Entry /\ Store!Fresh \in Store!Entry
    BY DEF Store!Absent, Store!Fresh, Store!Entry, Store!DriverStatus
  <2>2. \A d \in Drivers : reading'[d] \in Store!Entry
    BY <1>3, <2>1, StoredHolds DEF ChurnInv, ChurnTypeOK
  <2>3. \E f : reading' = [d \in Drivers |-> f[d]]
    BY DEF ChurnInv, ChurnTypeOK, ChurnNext, churnVars, Get, Upsert, Evict
  <2>4. QED
    BY <1>2, <2>2, <2>3 DEF ChurnTypeOK
<1>5. ReadingHolds'
  <2>1. TypeOK /\ (UNCHANGED rides \/ [Next]_vars)
    <3>1. RecoveryTypeOK
      BY DEF ChurnInv, ChurnTypeOK
    <3>2. QED
      BY <3>1, ChurnSteps, BackgroundSteps
      DEF RecoveryTypeOK, Get, recoveryVars, vars
  <2>2. ASSUME NEW d \in Drivers, HasRide(d)
        PROVE  HasRide(d)'
    BY <2>1, <2>2, HasRideStays DEF HasRide, RideLog!Active
  <2>3. ASSUME NEW d \in Drivers, NEW e, EntryHolds(d, e)
        PROVE  e.status = "busy" => HasRide(d)'
    BY <2>2, <2>3 DEF EntryHolds
  <2>4. ASSUME NEW d \in Drivers
        PROVE  EntryHolds(d, reading'[d])
    <3>1. EntryHolds(d, Store!Absent) /\ EntryHolds(d, Store!Fresh)
      BY DEF EntryHolds, Store!Absent, Store!Fresh
    <3>2. EntryHolds(d, reading[d])
      BY DEF ChurnInv, ReadingHolds
    <3>3. QED
      BY <1>3, <3>1, <3>2, StoredHolds
  <2>5. QED
    BY <2>3, <2>4 DEF ReadingHolds, EntryHolds
<1>6. QED
  BY <1>1, <1>4, <1>5 DEF ChurnInv

LEMMA ChurnKeeps == ChurnSpec => []ChurnInv
BY ChurnInit_Inv, ChurnStep, PTL DEF ChurnSpec

(* The types hold beside the background jobs.                              *)
THEOREM ChurnTypeCorrect == ChurnSpec => []ChurnTypeOK
<1>1. ChurnInv => ChurnTypeOK
  BY DEF ChurnInv
<1>2. QED
  BY <1>1, ChurnKeeps, PTL

(* Eviction, heartbeats and recovery make nobody busy who has no ride:     *)
(* recovery leads to IDLE only, a busy entry that is written back was read *)
(* when the driver had a ride, and nothing takes a ride away.              *)
THEOREM ChurnBusyHasRide == ChurnSpec => []RideBeforeBusy
<1>1. ChurnInv => RideBeforeBusy
  BY DEF ChurnInv
<1>2. QED
  BY <1>1, ChurnKeeps, PTL

(* Nor do they leave an Intent on a driver who is not in MATCHING, however *)
(* long ago a heartbeat read the entry it writes back.                     *)
THEOREM ChurnIntentIsDropped == ChurnSpec => []NoStaleIntent
<1>1. ChurnInv => NoStaleIntent
  BY DEF ChurnInv
<1>2. QED
  BY <1>1, ChurnKeeps, PTL

LEMMA ChurnLeavesGroupsAndRides ==
  ASSUME ChurnInv, [ChurnNext]_churnVars
  PROVE  TypeOK /\ ([Next]_vars \/ UNCHANGED <<groups, rides>>)
<1>1. RecoveryTypeOK /\ TypeOK
  BY DEF ChurnInv, ChurnTypeOK, RecoveryTypeOK
<1>2. QED
  BY <1>1, ChurnSteps, BackgroundSteps DEF Get, recoveryVars, vars

(* What is decided stays decided while drivers come and go: the winner of  *)
(* a rider's group, and the driver of a rider's ride.                      *)
THEOREM ChurnDecisionsAreFinal == ChurnSpec => FirstAcceptWins /\ RideKept
<1>1. ChurnInv /\ [ChurnNext]_churnVars =>
        [\A r \in Riders :
           groups[r].status = "accepted" /\ groups'[r].status # "missing"
             => groups'[r].status = "accepted" /\ groups'[r].winner = groups[r].winner]_vars
  BY ChurnLeavesGroupsAndRides, WinnerStays DEF vars
<1>2. ChurnInv /\ [ChurnNext]_churnVars =>
        [\A r \in Riders : RideLog!Active(r) => rides'[r] = rides[r]]_vars
  BY ChurnLeavesGroupsAndRides, RideStays
<1>3. ChurnSpec => FirstAcceptWins
  BY <1>1, ChurnKeeps, PTL DEF ChurnSpec, FirstAcceptWins
<1>4. ChurnSpec => RideKept
  BY <1>2, ChurnKeeps, PTL DEF ChurnSpec, RideKept
<1>5. QED
  BY <1>3, <1>4
=============================================================================
