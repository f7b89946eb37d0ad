----------------------------- MODULE MCModelRun -----------------------------
(* The runs of a small instance. *)
EXTENDS ModelRun
CONSTANTS r1, r2
=============================================================================
