-------------------------- MODULE MCEndpointBehaviour -----------------------
(* Instances of EndpointBehaviour for TLC. *)
EXTENDS EndpointBehaviour

CONSTANTS a1, a2, l1, l2

\* The second listener takes the first one's address.
SameLocalAddr == [l \in Listens |-> a1]

\* Every listener has an address of its own.
OwnLocalAddr == [l \in Listens |-> IF l = l1 THEN a1 ELSE a2]

SameListenAddr == [i \in Forwarded |-> a1]

Symmetry == Permutations(Conns)
=============================================================================
