------------------------------- MODULE RideStore -------------------------------
(***************************************************************************)
(* The ride store behind FinalizeAssignment: internal/ride/service.go over *)
(* the map of internal/ride/repo_memory.go, keyed by rider.  Its methods   *)
(* run under one mutex.  Ride IDs and timestamps are left out.             *)
(***************************************************************************)
CONSTANTS
  Drivers,    \* driver IDs
  Riders,     \* rider IDs
  NoDriver    \* the driver of a rider that never had a ride

VARIABLE rides   \* r.rides: rider ID -> ride

ActiveStatus == {"assigned", "ongoing"}
RideStatus   == ActiveStatus \cup {"completed", "canceled"}

Ride == [driver: Drivers \cup {NoDriver}, status: RideStatus \cup {"none"}]

NoRide      == [driver |-> NoDriver, status |-> "none"]
Assigned(d) == [driver |-> d, status |-> "assigned"]

TypeOK ==
  /\ rides \in [Riders -> Ride]
  /\ \A r \in Riders : rides[r].driver = NoDriver <=> rides[r].status = "none"

Init == rides = [r \in Riders |-> NoRide]

Active(r) == rides[r].status \in ActiveStatus

(* CreateIfAbsent creates (the "created" result) unless the rider has an   *)
(* active ride; a ride that is over is overwritten.                        *)
Creates_Always(r) == r \in Riders

Creates(r) == ~Active(r)

CreateIfAbsent(r, d) ==
  rides' = IF Creates(r) THEN [rides EXCEPT ![r] = Assigned(d)] ELSE rides
=============================================================================
