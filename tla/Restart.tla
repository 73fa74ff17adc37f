--------------------------------- MODULE Restart -------------------------------
(***************************************************************************)
(* The assignment protocol in a process that may crash at any moment and   *)
(* start again.  cmd/api/main.go builds its drivers, its rides and its     *)
(* dispatcher in memory, and only the offer groups are in Redis: a restart *)
(* finds the groups as the crash left them and nothing else.               *)
(***************************************************************************)
EXTENDS Matching

Crash_KeepsQueue ==
  /\ drivers' = [d \in Drivers |-> Store!Absent]
  /\ rides' = [r \in Riders |-> RideLog!NoRide]
  /\ worker' = [w \in Workers |-> Queue!Waiting]
  /\ match' = [m \in Matchers |-> Ready]
  /\ handler' = [w \in Workers |-> NoCall]
  /\ stopped' = FALSE
  /\ UNCHANGED <<groups, queue>>

Crash ==
  /\ drivers' = [d \in Drivers |-> Store!Absent]
  /\ rides' = [r \in Riders |-> RideLog!NoRide]
  /\ queue' = <<>>
  /\ worker' = [w \in Workers |-> Queue!Waiting]
  /\ match' = [m \in Matchers |-> Ready]
  /\ handler' = [w \in Workers |-> NoCall]
  /\ stopped' = FALSE
  /\ UNCHANGED groups

RestartNext == Next \/ Crash

RestartSpec == Init /\ [][RestartNext]_vars
=============================================================================
