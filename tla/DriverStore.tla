------------------------------ MODULE DriverStore ------------------------------
(***************************************************************************)
(* The in-memory driver repository: internal/repository/                   *)
(* inmemory_driver_repo.go over the driver state machine of                *)
(* internal/domain/driver_fsm.go.  Each exported method runs under the     *)
(* repository's mutex, so each is one atomic action on the map of drivers. *)
(*                                                                         *)
(* A driver's entry keeps the fields the assignment protocol reads and     *)
(* writes: its status, the rider its Intent names, and whether             *)
(* MatchingSince is set.  Locations and timestamps are left out; a driver  *)
(* that has no key in the map has the status "absent".  Who calls what and *)
(* when is for the modules that instantiate this one: Fleet has callers    *)
(* for all of its methods.                                                 *)
(***************************************************************************)
CONSTANTS
  Drivers,   \* driver IDs
  Riders,    \* rider IDs
  NoRider    \* the nil Intent, no member of Riders

VARIABLE drivers   \* r.drivers: driver ID -> entry

DriverStatus == {"idle", "matching", "busy", "offline"}

Entry == [status: DriverStatus \cup {"absent"},
          intent: Riders \cup {NoRider},
          since:  BOOLEAN]

Absent == [status |-> "absent", intent |-> NoRider, since |-> FALSE]
Fresh  == [status |-> "idle",   intent |-> NoRider, since |-> FALSE]

TypeOK ==
  /\ drivers \in [Drivers -> Entry]
  /\ \A d \in Drivers : drivers[d].status = "absent" => drivers[d] = Absent

Init == drivers = [d \in Drivers |-> Absent]

-----------------------------------------------------------------------------
(* The state machine.  An absent driver has no edge: "driver not found".   *)

Edges == { <<"offline", "idle">>,
           <<"idle", "matching">>, <<"idle", "offline">>,
           <<"matching", "busy">>, <<"matching", "idle">>,
           <<"busy", "idle">> }

CanTransition_Reentrant(from, to) == from = to \/ <<from, to>> \in Edges

CanTransition(from, to) == <<from, to>> \in Edges

(* The side effects of a transition: MATCHING stamps MatchingSince, BUSY   *)
(* and IDLE clear both MatchingSince and the Intent.                       *)
AfterTransition_KeepsIntent(e, to) ==
  [status |-> to, intent |-> e.intent, since |-> to = "matching"]

AfterTransition_KeepsSince(e, to) ==
  [status |-> to,
   intent |-> IF to \in {"busy", "idle"} THEN NoRider ELSE e.intent,
   since  |-> to = "matching" \/ e.since]

AfterTransition(e, to) ==
  [status |-> to,
   intent |-> IF to \in {"busy", "idle"} THEN NoRider ELSE e.intent,
   since  |-> to = "matching" \/ (to = "offline" /\ e.since)]

TransitionOK(d, to) == CanTransition(drivers[d].status, to)

TransitionStatus(d, to) ==
  drivers' = IF TransitionOK(d, to)
             THEN [drivers EXCEPT ![d] = AfterTransition(@, to)]
             ELSE drivers

-----------------------------------------------------------------------------
(* Reservations.                                                           *)

SetIntentOK_Unguarded(d) == d \in Drivers

SetIntentOK(d) == drivers[d].status = "matching"

SetIntent(d, r) ==
  drivers' = IF SetIntentOK(d) THEN [drivers EXCEPT ![d].intent = r]
                               ELSE drivers

(* TryLockIntent asks for no status.  It is refused while an earlier       *)
(* TryLockIntent is unexpired, which changes nothing; an Intent of         *)
(* SetIntent has no expiry time and never refuses it.                      *)
TryLockIntent(d, r) ==
  /\ drivers[d].status # "absent"
  /\ drivers' = [drivers EXCEPT ![d].intent = r]

(* ClearIntent asks neither for a status nor for a rider.                  *)
ClearIntent(d) ==
  drivers' = IF drivers[d].status = "absent" THEN drivers
             ELSE [drivers EXCEPT ![d].intent = NoRider]

(* RespondToIntent writes the status itself instead of going through       *)
(* CanTransition.  It ignores a busy driver and an intent for another      *)
(* rider; a missing intent counts as one for this rider.                   *)
RespondToIntent(d, r, response) ==
  /\ drivers[d].status \notin {"absent", "busy"}
  /\ drivers[d].intent \in {NoRider, r}
  /\ drivers' = [drivers EXCEPT ![d] =
       [status |-> IF response = "accept" THEN "busy" ELSE "idle",
        intent |-> NoRider,
        since  |-> FALSE]]

(* Upsert replaces the whole entry by the caller's, whatever that says: a  *)
(* new driver's, or a copy from an earlier Get.  That its UpdatedAt is not *)
(* before the stored one is for the module that knows the times to ask.    *)
Upsert(d, e) == drivers' = [drivers EXCEPT ![d] = e]

Delete(d) == drivers' = [drivers EXCEPT ![d] = Absent]
=============================================================================
