------------------------------ MODULE MCRelay -------------------------------
(* Instances of Relay for TLC. *)
EXTENDS Relay, TLC

\* Nothing in the relay tells two connections, peers, addresses or streams
\* apart.  Sound for the safety runs only.
Symmetry == Permutations(Conns) \cup Permutations(Peers)
              \cup Permutations(Addrs) \cup Permutations(Streams)
=============================================================================
