---------------------------- MODULE MCRunStorage ----------------------------
(* Parameter sets are interchangeable. *)
EXTENDS RunStorage, TLC
CONSTANTS v1, v2
Symmetry == Permutations(Values)
=============================================================================
