-------------------------------- MODULE Recovery -------------------------------
(***************************************************************************)
(* RecoveryService.Recover (internal/matching/service.go) running beside   *)
(* the assignment protocol: FindStuckMatching lists drivers, and each is   *)
(* then set to IDLE and its Intent cleared, in two calls that look at      *)
(* neither the driver's rider nor what has happened since.                 *)
(*                                                                         *)
(* The time since MatchingSince is abstracted to a choice: any driver in   *)
(* MATCHING may have been there for longer than the timeout.               *)
(***************************************************************************)
EXTENDS Matching

VARIABLE recovery  \* the locals of Recover, and whether it has panicked

recoveryVars == <<vars, recovery>>

Resting == [todo |-> {}, driver |-> NoDriver, panicked |-> FALSE]

RecoveryTypeOK ==
  /\ TypeOK
  /\ recovery \in [todo: SUBSET Drivers, driver: Drivers \cup {NoDriver},
                   panicked: BOOLEAN]

RecoveryInit == Init /\ recovery = Resting

-----------------------------------------------------------------------------
(* FindStuckMatching.  An Intent of SetIntent has the zero expiry time: it *)
(* is never active and always over.  A driver that is not overdue is asked *)
(* for the expiry of its Intent, nil or not, and nil is dereferenced.      *)
MayBeOverdue(d) == drivers[d].status = "matching" /\ drivers[d].since

Stuck(overdue) ==
  overdue \cup {d \in Drivers : drivers[d].intent # NoRider}

NilIntent(overdue) ==
  \E d \in Drivers \ overdue :
    drivers[d].status # "absent" /\ drivers[d].intent = NoRider

FindStuckMatching ==
  /\ recovery = Resting
  /\ \E overdue \in SUBSET {d \in Drivers : MayBeOverdue(d)} :
       recovery' = IF NilIntent(overdue)
                   THEN [Resting EXCEPT !.panicked = TRUE]
                   ELSE [Resting EXCEPT !.todo = Stuck(overdue)]
  /\ UNCHANGED vars

(* TransitionStatus(IDLE), its error ignored, then ClearIntent.            *)
Rollback ==
  /\ recovery.driver = NoDriver
  /\ \E d \in recovery.todo :
       /\ Store!TransitionStatus(d, "idle")
       /\ recovery' = [recovery EXCEPT !.driver = d]
  /\ UNCHANGED <<groups, rides, queue, worker, stopped, match, handler>>

DropIntent ==
  /\ recovery.driver # NoDriver
  /\ Store!ClearIntent(recovery.driver)
  /\ recovery' = [recovery EXCEPT !.todo = @ \ {recovery.driver}, !.driver = NoDriver]
  /\ UNCHANGED <<groups, rides, queue, worker, stopped, match, handler>>

(* A panic ends the process: nothing happens after it.                     *)
RecoveryNext ==
  /\ ~recovery.panicked
  /\ \/ Next /\ UNCHANGED recovery
     \/ FindStuckMatching \/ Rollback \/ DropIntent

RecoverySpec == RecoveryInit /\ [][RecoveryNext]_recoveryVars
=============================================================================
