--------------------------------- MODULE MCRides -------------------------------
(* Both ride repositories on a small instance.                             *)
EXTENDS Rides, TLC

Symmetry == Permutations(Creators) \cup Permutations(Riders) \cup Permutations(Drivers)
=============================================================================
