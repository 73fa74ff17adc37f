-------------------------------- MODULE Booking --------------------------------
(***************************************************************************)
(* What the assignment protocol promises, without its queue, its offer     *)
(* groups and its goroutines: a free driver is held for one rider, and a   *)
(* held driver is either released or booked for the rider it is held for   *)
(* (docs/architecture.md:18 "No double-booking (atomic assignment)",       *)
(* docs/domain.md:23 "A driver can never be matched twice").               *)
(***************************************************************************)
CONSTANTS Drivers, Riders, NoDriver, NoRider

VARIABLES
  held,     \* driver -> the rider it is held for
  booked    \* rider -> the driver of its active ride

vars == <<held, booked>>

Init ==
  /\ held = [d \in Drivers |-> NoRider]
  /\ booked = [r \in Riders |-> NoDriver]

IsBooked(d) == \E r \in Riders : booked[r] = d

Hold(d, r) ==
  /\ held[d] = NoRider
  /\ ~IsBooked(d)
  /\ held' = [held EXCEPT ![d] = r]
  /\ UNCHANGED booked

Release(d) ==
  /\ held[d] # NoRider
  /\ held' = [held EXCEPT ![d] = NoRider]
  /\ UNCHANGED booked

Book(d, r) ==
  /\ held[d] = r
  /\ booked[r] = NoDriver
  /\ held' = [held EXCEPT ![d] = NoRider]
  /\ booked' = [booked EXCEPT ![r] = d]

Next ==
  \E d \in Drivers :
    \/ Release(d)
    \/ \E r \in Riders : Hold(d, r) \/ Book(d, r)

Spec == Init /\ [][Next]_vars
=============================================================================
