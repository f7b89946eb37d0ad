----------------------------- MODULE MCRunFiles -----------------------------
(* The parameters of the runs of a small instance. *)
EXTENDS RunFiles, TLC
CONSTANTS v0, v1
TwoValues == (0 :> v0) @@ (1 :> v1)
=============================================================================
