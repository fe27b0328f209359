--------------------------- MODULE EndpointService ---------------------------
(***************************************************************************)
(* What the endpoint promises to the swarm that uses it.  A dial ends once *)
(* at most, and stays as it ended.  A connection that the relay forwards   *)
(* is given to one listener at most: one of its address, which was open at *)
(* the time, behind what was given to it before and as long as there is    *)
(* room.  A listener gets nothing before it was opened or after it was     *)
(* closed, and there is one at a time.                                     *)
(*                                                                         *)
(* That a dial ends or a connection is given is not promised here: a       *)
(* connection may be lost as long as it is held.                           *)
(***************************************************************************)
EXTENDS Naturals, SequencesExt

CONSTANTS Dials, Listens,  \* what the swarm asks for, each once
          Forwarded,       \* connections the relay forwards, each once
          LocalAddr, ListenAddr,  \* the address of a listener, and of a connection
          ListenerCap      \* how many connections may wait for a listener

VARIABLES
  answer,   \* of a dial: "none" before it is made, "open", or how it ended
  opened,   \* the listeners that were opened
  open,     \* the listener that is open
  arrived,  \* the connections that were forwarded
  held,     \* those that are held for a listener
  incoming  \* those that wait for a listener to take them

vars == <<answer, opened, open, arrived, held, incoming>>

Init ==
  /\ answer = [d \in Dials |-> "none"]
  /\ opened = {} /\ open = {} /\ arrived = {} /\ held = {}
  /\ incoming = [l \in Listens |-> <<>>]

\* The swarm.
Dial(d) ==
  /\ answer[d] = "none"
  /\ answer' = [answer EXCEPT ![d] = "open"]
  /\ UNCHANGED <<opened, open, arrived, held, incoming>>

ListenOn(l) ==
  /\ open = {} /\ l \notin opened
  /\ opened' = opened \cup {l}
  /\ open' = {l}
  /\ UNCHANGED <<answer, arrived, held, incoming>>

\* Removed, or failed.
Close ==
  /\ open' = {}
  /\ UNCHANGED <<answer, opened, arrived, held, incoming>>

Receive(l) ==
  /\ l \in open
  /\ incoming[l] # <<>>
  /\ incoming' = [incoming EXCEPT ![l] = Tail(@)]
  /\ UNCHANGED <<answer, opened, open, arrived, held>>

\* The relay.
Forward(i) ==
  /\ i \notin arrived
  /\ arrived' = arrived \cup {i}
  /\ held' = held \cup {i}
  /\ UNCHANGED <<answer, opened, open, incoming>>

\* The endpoint: dials end, and connections are lost.
Settle ==
  /\ DOMAIN answer' = Dials
  /\ \A d \in Dials :
       \/ answer'[d] = answer[d]
       \/ answer[d] = "open" /\ answer'[d] \in {"ok", "err", "canceled"}
  /\ held' \subseteq held
  /\ UNCHANGED <<opened, open, arrived, incoming>>

\* It may lose some as it gives others.
Give(l) ==
  /\ l \in open
  /\ LET given == SubSeq(incoming'[l], Len(incoming[l]) + 1, Len(incoming'[l]))
     IN /\ incoming' = [incoming EXCEPT ![l] = @ \o given]
        /\ IsInjective(given)
        /\ Range(given) \subseteq held
        /\ \A i \in Range(given) : ListenAddr[i] = LocalAddr[l]
        /\ held' \subseteq held \ Range(given)
  /\ Len(incoming'[l]) <= ListenerCap
  /\ UNCHANGED <<answer, opened, open, arrived>>

Next ==
  \/ \E d \in Dials : Dial(d)
  \/ \E l \in Listens : ListenOn(l) \/ Receive(l) \/ Give(l)
  \/ Close
  \/ \E i \in Forwarded : Forward(i)
  \/ Settle

Spec == Init /\ [][Next]_vars
=============================================================================
