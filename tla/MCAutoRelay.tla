----------------------------- MODULE MCAutoRelay ----------------------------
(* Instances of AutoRelay for TLC. *)
EXTENDS AutoRelay, TLC

\* Nothing in the relay or the endpoints' upgrades tells two connections,
\* peers, addresses or streams apart.
Symmetry == Permutations(Conns) \cup Permutations(Peers)
              \cup Permutations(Addrs) \cup Permutations(Streams)
=============================================================================
