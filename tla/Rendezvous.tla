------------------------------ MODULE Rendezvous -----------------------------
(***************************************************************************)
(* What a dial through the relay promises: when it is told of success, it  *)
(* is joined to a stream that the endpoint of the peer it named has        *)
(* accepted, and that no other dial is joined to.                          *)
(*                                                                         *)
(* Nothing is promised of the address that was dialed, nor that a dial is  *)
(* told anything.                                                          *)
(***************************************************************************)
CONSTANTS Dials, Offers,  \* dials, and streams endpoints are offered
          Peers, None

VARIABLES
  target,   \* the peer a dial names
  offered,  \* the peer whose endpoint accepted an offer
  partner,  \* the offer a dial is joined to
  told      \* the dials that were told of success

vars == <<target, offered, partner, told>>

Init ==
  /\ target = [d \in Dials |-> None]
  /\ offered = [o \in Offers |-> None]
  /\ partner = [d \in Dials |-> None]
  /\ told = {}

Ask(d, p) ==
  /\ target[d] = None
  /\ target' = [target EXCEPT ![d] = p]
  /\ UNCHANGED <<offered, partner, told>>

Accept(o, p) ==
  /\ offered[o] = None
  /\ offered' = [offered EXCEPT ![o] = p]
  /\ UNCHANGED <<target, partner, told>>

Join(d, o) ==
  /\ partner[d] = None
  /\ offered[o] # None
  /\ offered[o] = target[d]
  /\ \A e \in Dials : partner[e] # o
  /\ partner' = [partner EXCEPT ![d] = o]
  /\ UNCHANGED <<target, offered, told>>

Succeed(d) ==
  /\ partner[d] # None
  /\ told' = told \cup {d}
  /\ UNCHANGED <<target, offered, partner>>

Next ==
  \/ \E d \in Dials, p \in Peers : Ask(d, p)
  \/ \E o \in Offers, p \in Peers : Accept(o, p)
  \/ \E d \in Dials, o \in Offers : Join(d, o)
  \/ \E d \in Dials : Succeed(d)

Spec == Init /\ [][Next]_vars
=============================================================================
