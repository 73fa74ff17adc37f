-------------------------------- MODULE MCRestart ------------------------------
EXTENDS Restart, TLC

Symmetry ==
  Permutations(Drivers) \cup Permutations(Riders)
    \cup Permutations(Matchers) \cup Permutations(Workers)

(* The shutdown is left to the runs of the protocol.                       *)
Running == ~stopped
=============================================================================
