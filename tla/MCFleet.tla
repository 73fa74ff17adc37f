--------------------------------- MODULE MCFleet -------------------------------
EXTENDS Fleet, TLC

Symmetry == Permutations(Beats) \cup Permutations(Riders)
=============================================================================
