------------------------------- MODULE RideLedger ------------------------------
(***************************************************************************)
(* What a ride repository with its service promises: one ride of a rider   *)
(* at a time, created by CreateIfAbsent, going only where                  *)
(* ValidateRideTransition (internal/domain/ride_transitions.go) lets it.   *)
(***************************************************************************)
EXTENDS RideStore

vars == <<rides>>

RideEdges == { <<"assigned", "ongoing">>,  <<"assigned", "canceled">>,
               <<"ongoing", "completed">>, <<"ongoing", "canceled">> }

ValidateRideTransition_OpenEnded(from, to) == from \in ActiveStatus /\ to # from

ValidateRideTransition(from, to) == <<from, to>> \in RideEdges

Advance(r, to) ==
  /\ <<rides[r].status, to>> \in RideEdges
  /\ rides' = [rides EXCEPT ![r].status = to]

Next ==
  \E r \in Riders :
    \/ \E d \in Drivers : CreateIfAbsent(r, d)
    \/ \E to \in RideStatus : Advance(r, to)

Spec == Init /\ [][Next]_vars
=============================================================================
