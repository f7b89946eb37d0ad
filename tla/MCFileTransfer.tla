--------------------------- MODULE MCFileTransfer ---------------------------
(* The agent and the run of a small instance. *)
EXTENDS FileTransfer
CONSTANTS a1, r1
=============================================================================
