------------------------- MODULE MCCombineTransport -------------------------
(* Instances of CombineTransport for TLC. *)
EXTENDS CombineTransport
=============================================================================
