---------------------------- MODULE MCRelayCopy -----------------------------
(* Instances of RelayCopy for TLC. *)
EXTENDS RelayCopy
=============================================================================
