-------------------------- MODULE EndpointTransport --------------------------
(***************************************************************************)
(* The endpoint transport (endpoint/transport.rs) between the swarm, which *)
(* calls and polls it, and the behaviour at the other end of its channels. *)
(* The actions here are composed by CombineTransport.                      *)
(*                                                                         *)
(* What the poll returns to the swarm is left out, but for its effect on   *)
(* the transport.  Of a connection only that it waits for its listener is  *)
(* kept, and of the behaviour what the transport can tell of it: a request *)
(* it has taken is answered or not, and connections come to the listener.  *)
(***************************************************************************)
EXTENDS Naturals, SequencesExt

CONSTANTS Dials, Listens,  \* requests: dials, and listeners by their ids
          Addrs,           \* listen addresses
          ToBehaviourCap, FromBehaviourCap, ListenerCap,  \* of the channels
          MaxNews,         \* bound: what the behaviour has to tell at a time
          None             \* no listener

ASSUME RequestsDisjoint == Dials \cap Listens = {} /\ None \notin Dials \cup Listens \cup Addrs
ASSUME CapsPositive     == {ToBehaviourCap, FromBehaviourCap, ListenerCap} \subseteq Nat \ {0}

VARIABLES
  \* the transport
  pending_to_behaviour,
  to_behaviour, from_behaviour,  \* what is in the channels
  listener,   \* the id of the one listener, or None
  receiver,   \* how many connections wait for that listener
  local_addr, \* of a listener that was made, or None
  \* the behaviour
  made, taken,  \* the requests made, and those the behaviour has
  outcome,      \* of a listen request: "none" yet, "ok" or "failed"
  pending_to_transport  \* what it has to tell

requestVars == <<pending_to_behaviour, to_behaviour, made, taken>>
listenVars  == <<listener, receiver, local_addr>>
tellVars    == <<from_behaviour, outcome, pending_to_transport>>
transportVars == <<requestVars, listenVars, tellVars>>

Requests == Dials \cup Listens
Told     == [type : {"ListenSuccess", "ListenFailed"}, req : Listens]
              \cup [type : {"DialFailed"}, req : Dials] \cup [type : {"PeerClosed"}]

TransportInit ==
  /\ pending_to_behaviour = <<>> /\ to_behaviour = <<>> /\ from_behaviour = <<>>
  /\ listener = None /\ receiver = 0
  /\ local_addr = [l \in Listens |-> None]
  /\ made = <<>> /\ taken = <<>> /\ pending_to_transport = <<>>
  /\ outcome = [l \in Listens |-> "none"]

Push(r) ==
  /\ made' = Append(made, r)
  /\ pending_to_behaviour' = Append(pending_to_behaviour, r)
  /\ UNCHANGED <<to_behaviour, taken>>

\* Each dial is made once; whether it is answered is EndpointBehaviour's matter.
Dial(d) ==
  /\ d \notin Range(made)
  /\ Push(d)
  /\ UNCHANGED <<listenVars, tellVars>>

\* listen_on(a) returns l: the id of the listener there is, whatever its address.
ListenOn(a, l) ==
  /\ \/ /\ listener = l
        /\ UNCHANGED <<requestVars, listenVars>>
     \/ /\ listener = None
        /\ local_addr[l] = None
        /\ local_addr' = [local_addr EXCEPT ![l] = a]
        /\ listener' = l
        /\ receiver' = 0
        /\ Push(l)
  /\ UNCHANGED tellVars

\* remove_listener(l), which also drops the connections that wait.
RemoveListener(l) ==
  /\ listener' = IF listener = l THEN None ELSE listener
  /\ receiver' = IF listener = l THEN 0 ELSE receiver
  /\ UNCHANGED local_addr

(***************************************************************************)
(* poll: a listener's news first; then requests move into their channel    *)
(* while there is room, and a connection goes to the swarm.                *)
(***************************************************************************)
\* A plausible slip: a failed listener is reported and kept.
DropNone(e) == UNCHANGED listenVars

DropIfFailed(e) == IF e.type = "ListenFailed" THEN RemoveListener(e.req) ELSE UNCHANGED listenVars

Ignored(e) == e.type \in {"PeerClosed", "DialFailed"}

PollNews ==
  /\ \E k \in DOMAIN from_behaviour :
       /\ \A j \in 1..k - 1 : Ignored(from_behaviour[j])
       /\ ~ Ignored(from_behaviour[k])
       /\ DropIfFailed(from_behaviour[k])
       /\ from_behaviour' = SubSeq(from_behaviour, k + 1, Len(from_behaviour))
  /\ UNCHANGED <<requestVars, outcome, pending_to_transport>>

\* How many of the requests there is room for.
Fitting ==
  LET room == ToBehaviourCap - Len(to_behaviour)
  IN IF Len(pending_to_behaviour) < room THEN Len(pending_to_behaviour) ELSE room

Move(n) ==
  /\ to_behaviour' = to_behaviour \o SubSeq(pending_to_behaviour, 1, n)
  /\ pending_to_behaviour' =
       SubSeq(pending_to_behaviour, n + 1, Len(pending_to_behaviour))

\* A plausible slip: the request that has to wait goes to the back.
MoveBack ==
  LET p == pending_to_behaviour
      n == Fitting
  IN /\ to_behaviour' = to_behaviour \o SubSeq(p, 1, n)
     /\ pending_to_behaviour' =
          IF n = Len(p) THEN <<>> ELSE Append(SubSeq(p, n + 2, Len(p)), p[n + 1])

\* A plausible slip: the listener is polled first, and has nothing.
MoveAfterListener == Move(IF listener # None /\ receiver = 0 THEN 0 ELSE Fitting)

MoveRequests == Move(Fitting)

\* Listener::poll_next gives the swarm one connection: that is all the
\* behaviour ever sends, and when its end is dropped there is nothing more.
ReceiveConnection == receiver' = IF receiver > 0 THEN receiver - 1 ELSE 0

PollRest ==
  /\ \A k \in DOMAIN from_behaviour : Ignored(from_behaviour[k])
  /\ from_behaviour' = <<>>
  /\ MoveRequests
  /\ ReceiveConnection
  /\ UNCHANGED <<made, taken, listener, local_addr, outcome, pending_to_transport>>

(***************************************************************************)
(* The behaviour: what EndpointBehaviour does with the channels.           *)
(***************************************************************************)
Take ==
  /\ to_behaviour # <<>>
  /\ taken' = Append(taken, Head(to_behaviour))
  /\ to_behaviour' = Tail(to_behaviour)
  /\ UNCHANGED <<pending_to_behaviour, made, listenVars, tellVars>>

Tell(e) ==
  /\ Len(pending_to_transport) < MaxNews
  /\ pending_to_transport' = Append(pending_to_transport, e)

Answer(l) ==
  /\ l \in Range(taken)
  /\ outcome[l] = "none"
  /\ \/ outcome' = [outcome EXCEPT ![l] = "ok"] /\ Tell([type |-> "ListenSuccess", req |-> l])
     \/ outcome' = [outcome EXCEPT ![l] = "failed"] /\ Tell([type |-> "ListenFailed", req |-> l])
  /\ UNCHANGED <<requestVars, listenVars, from_behaviour>>

TellOther ==
  /\ \/ \E d \in Dials \cap Range(taken) : Tell([type |-> "DialFailed", req |-> d])
     \/ Tell([type |-> "PeerClosed"])
  /\ UNCHANGED <<requestVars, listenVars, from_behaviour, outcome>>

\* A plausible slip: the sender is used without poll_ready.
ForwardAnyway ==
  /\ listener \in Range(taken)
  /\ receiver' = receiver + 1
  /\ Tell([type |-> "ListenSuccess", req |-> listener])
  /\ UNCHANGED <<requestVars, listener, local_addr, from_behaviour, outcome>>

\* The listener's success is told once more for every connection.
Forward ==
  /\ listener \in Range(taken)
  /\ receiver < ListenerCap
  /\ receiver' = receiver + 1
  /\ Tell([type |-> "ListenSuccess", req |-> listener])
  /\ UNCHANGED <<requestVars, listener, local_addr, from_behaviour, outcome>>

Flush ==
  /\ pending_to_transport # <<>>
  /\ Len(from_behaviour) < FromBehaviourCap
  /\ from_behaviour' = Append(from_behaviour, Head(pending_to_transport))
  /\ pending_to_transport' = Tail(pending_to_transport)
  /\ UNCHANGED <<requestVars, listenVars, outcome>>

-----------------------------------------------------------------------------
\* Requests reach the behaviour in the order they were made, each once, however
\* full its channel is at the polls in between.
RequestsInOrder == taken \o to_behaviour \o pending_to_behaviour = made
=============================================================================
