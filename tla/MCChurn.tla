--------------------------------- MODULE MCChurn -------------------------------
EXTENDS Churn, TLC

Symmetry == Permutations(Drivers) \cup Permutations(Riders) \cup Permutations(Matchers)

(* The shutdown is left to the runs of the protocol.                       *)
Running == ~stopped
=============================================================================
