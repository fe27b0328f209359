------------------------- MODULE MCCombinedEndpoint -------------------------
(* Instances of CombinedEndpoint for TLC. *)
EXTENDS CombinedEndpoint

CONSTANT a1

OnlyLocalAddr == [l \in Listens |-> a1]

OnlyListenAddr == [i \in Forwarded |-> a1]
=============================================================================
