------------------------------ MODULE MCPanther ------------------------------
(* The sockets of a small instance.  Those of agents that an earlier call left *)
(* connected are interchangeable, and so are the free ones.                    *)
EXTENDS Panther
CONSTANTS a1, a2, a3
Symmetry == Permutations(Handshaken) \cup Permutations(Agents \ Handshaken)
=============================================================================
