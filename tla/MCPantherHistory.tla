-------------------------- MODULE MCPantherHistory --------------------------
(* As MCPanther, with the history variables. *)
EXTENDS PantherHistory
CONSTANTS a1, a2
Symmetry == Permutations(Handshaken) \cup Permutations(Agents \ Handshaken)
=============================================================================
