------------------------------- MODULE MemoryRides -----------------------------
(***************************************************************************)
(* UpdateRideStatus of internal/ride/service.go over the in-memory         *)
(* repository of internal/ride/repo_memory.go, the one the program is      *)
(* wired with.  Its map is keyed by rider ID; GetActiveByRider and         *)
(* UpdateStatus are two critical sections.                                 *)
(***************************************************************************)
EXTENDS Naturals

CONSTANTS
  Drivers, Riders, NoDriver,  \* as in RideStore
  Updaters,                   \* callers of UpdateRideStatus
  MaxRides                    \* rides that are ever created

VARIABLES
  rides,    \* r.rides: rider ID -> ride, with its ID
  created,  \* how many rides have been created
  update    \* updater -> the locals of its call

vars == <<rides, created, update>>

Ids  == 1 .. MaxRides     \* ride IDs: UUIDs, never a rider's ID
Keys == Riders \cup Ids   \* what a caller may pass as "rideID"

KeysDistinct == Riders \cap Ids = {}

ASSUME RidesAssumption == MaxRides \in Nat /\ KeysDistinct

Ledger == INSTANCE RideLedger WITH rides <-
  [r \in Riders |-> [driver |-> rides[r].driver, status |-> rides[r].status]]

NoRide == [id |-> 0, driver |-> NoDriver, status |-> "none"]
NoUpdate == [pc |-> "none"]

TypeOK ==
  /\ rides \in [Riders -> [id: 0 .. created, driver: Drivers \cup {NoDriver},
                           status: Ledger!RideStatus \cup {"none"}]]
  /\ \A r \in Riders : rides[r].status # "none" <=> rides[r].id # 0
  /\ created \in 0 .. MaxRides
  /\ update \in [Updaters -> {NoUpdate} \cup
       [pc: {"persist"}, key: Keys, to: Ledger!RideStatus]]

Init ==
  /\ rides = [r \in Riders |-> NoRide]
  /\ created = 0
  /\ update = [u \in Updaters |-> NoUpdate]

-----------------------------------------------------------------------------
Active_Ongoing(r) == rides[r].status = "ongoing"

Active(r) == rides[r].status \in Ledger!ActiveStatus

CreateIfAbsent_NoID(r, d) ==
  /\ ~Active(r)
  /\ created < MaxRides
  /\ created' = created + 1
  /\ rides' = [rides EXCEPT ![r] = [id |-> 0, driver |-> d, status |-> "assigned"]]
  /\ UNCHANGED update

CreateIfAbsent(r, d) ==
  /\ ~Active(r)
  /\ created < MaxRides
  /\ created' = created + 1
  /\ rides' = [rides EXCEPT ![r] = [id |-> created', driver |-> d, status |-> "assigned"]]
  /\ UNCHANGED update

(* GetActiveByRider takes the key for a rider's; the ride it finds is      *)
(* handed on by its own ID.                                                *)
CheckRide(u, key, to) ==
  /\ update[u] = NoUpdate
  /\ key \in Riders
  /\ Active(key)
  /\ Ledger!ValidateRideTransition(rides[key].status, to)
  /\ update' = [update EXCEPT ![u] = [pc |-> "persist", key |-> rides[key].id, to |-> to]]
  /\ UNCHANGED <<rides, created>>

(* UpdateStatus: "ride not found" unless the key is a rider's.             *)
Found(key) == key \in Riders /\ rides[key] # NoRide

PersistStatus(u) ==
  /\ update[u] # NoUpdate
  /\ rides' = IF Found(update[u].key) THEN [rides EXCEPT ![update[u].key].status = update[u].to]
                                      ELSE rides
  /\ update' = [update EXCEPT ![u] = NoUpdate]
  /\ UNCHANGED created

Next ==
  \/ \E r \in Riders, d \in Drivers : CreateIfAbsent(r, d)
  \/ \E u \in Updaters, key \in Keys, to \in Ledger!RideStatus : CheckRide(u, key, to)
  \/ \E u \in Updaters : PersistStatus(u)

Spec == Init /\ [][Next]_vars

-----------------------------------------------------------------------------
(* The repository implements the ledger, however creations and updates     *)
(* interleave.                                                             *)
MemoryImplements == Ledger!Spec

(* "3. Persist transition" (internal/ride/service.go:46): UpdateRideStatus *)
(* has loaded a ride and found the transition legal, so its last step      *)
(* stores the new status in that ride, if the ride is still there.         *)
UpdatesAreStored ==
  [][\A u \in Updaters, r \in Riders :
       PersistStatus(u) /\ rides[r].id = update[u].key => rides'[r].status = update[u].to]_vars
=============================================================================
