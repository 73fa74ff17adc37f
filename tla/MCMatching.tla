------------------------------- MODULE MCMatching ------------------------------
EXTENDS Matching, TLC

(* Drivers, riders, matchers and workers are interchangeable: safety runs  *)
(* may identify states that differ only by renaming them.                  *)
Symmetry ==
  Permutations(Drivers) \cup Permutations(Riders)
    \cup Permutations(Matchers) \cup Permutations(Workers)

(* A run about faults leaves the shutdown to the other runs.               *)
Running == ~stopped
=============================================================================
