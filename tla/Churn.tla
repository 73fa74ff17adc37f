--------------------------------- MODULE Churn ---------------------------------
(***************************************************************************)
(* The assignment protocol beside everything that runs in the background:  *)
(* TTL eviction deletes drivers whatever their status, heartbeats write    *)
(* them back, and the recovery service frees those it takes for stuck.     *)
(*                                                                         *)
(* Of a heartbeat only what Fleet shows of it is kept.  A driver has one   *)
(* heartbeat at a time; so nobody else puts it back after an eviction, and *)
(* by StatusKept a heartbeat changes a driver's entry only when the driver *)
(* is gone, and then to the entry it had read.                             *)
(***************************************************************************)
EXTENDS Recovery

VARIABLE reading  \* driver -> what its heartbeat has read; Absent without one

churnVars == <<recoveryVars, reading>>

ChurnInit == RecoveryInit /\ reading = [d \in Drivers |-> Store!Absent]

ChurnTypeOK == RecoveryTypeOK /\ reading \in [Drivers -> Store!Entry]

Gone(d) == drivers[d] = Store!Absent

(* UpdateLocation: Get, and later Upsert.                                  *)
Get(d) ==
  /\ reading[d] = Store!Absent
  /\ reading' = [reading EXCEPT ![d] = IF Gone(d) THEN Store!Fresh ELSE drivers[d]]
  /\ UNCHANGED recoveryVars

Upsert(d) ==
  /\ reading[d] # Store!Absent
  /\ IF Gone(d) THEN Store!Upsert(d, reading[d]) ELSE UNCHANGED drivers
  /\ reading' = [reading EXCEPT ![d] = Store!Absent]
  /\ UNCHANGED <<groups, rides, queue, worker, stopped, match, handler, recovery>>

(* RunOnce on an expired driver; the index is no part of this module.      *)
Evict(d) ==
  /\ ~Gone(d)
  /\ Store!Delete(d)
  /\ UNCHANGED <<groups, rides, queue, worker, stopped, match, handler, recovery, reading>>

(* Drivers enter the pool by their heartbeats.                             *)
RegistersNobody == \A d \in Drivers : Gone(d) => Gone(d)'

ChurnNext ==
  \/ RecoveryNext /\ RegistersNobody /\ UNCHANGED reading
  \/ /\ ~recovery.panicked
     /\ \E d \in Drivers : Get(d) \/ Upsert(d) \/ Evict(d)

ChurnSpec == ChurnInit /\ [][ChurnNext]_churnVars
=============================================================================
