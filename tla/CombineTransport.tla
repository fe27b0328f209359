--------------------------- MODULE CombineTransport --------------------------
(***************************************************************************)
(* The listeners of a CombineTransport (combine.rs), built as in the       *)
(* integration test: t1 is a normal transport, t2 the endpoint transport.  *)
(* Its dials are the matter of CombinedEndpoint.                           *)
(*                                                                         *)
(* An id that listen_on returns stands for a listener of each transport.   *)
(* It is made with that of t1, so that one name serves for both here.      *)
(***************************************************************************)
EXTENDS EndpointTransport

CONSTANT Ids  \* of listeners that listen_on makes, each once

VARIABLES
  addr1,         \* the address of t1's listener, None before it is made
  open1,         \* t1's listeners that are open
  ready1,        \* t1 has an event for the swarm
  listener_ids   \* CombineTransport::listener_ids: t2's listener, or None

firstVars == <<addr1, open1, ready1>>
vars == <<transportVars, firstVars, listener_ids>>

Init ==
  /\ TransportInit
  /\ addr1 = [i \in Ids |-> None]
  /\ open1 = {} /\ ready1 = FALSE
  /\ listener_ids = [i \in Ids |-> None]

\* When t1 fails so does listen_on; t2 never does.
CombinedListenOn(i, a) ==
  /\ addr1[i] = None
  /\ addr1' = [addr1 EXCEPT ![i] = a]
  /\ open1' = open1 \cup {i}
  /\ \E l \in Listens :
       /\ ListenOn(a, l)
       /\ listener_ids' = [listener_ids EXCEPT ![i] = l]
  /\ UNCHANGED ready1

\* A plausible slip: t2 is asked first.
RemoveSecondFirst(i) ==
  /\ RemoveListener(listener_ids[i])
  /\ open1' = IF listener = listener_ids[i] THEN open1 ELSE open1 \ {i}

\* A plausible slip: || for |.
RemoveBoth(i) ==
  /\ RemoveListener(listener_ids[i])
  /\ open1' = open1 \ {i}

\* t1.remove_listener(id1) || t2.remove_listener(id2)
RemoveOne(i) ==
  IF i \in open1
    THEN open1' = open1 \ {i} /\ UNCHANGED listenVars
    ELSE RemoveListener(listener_ids[i]) /\ UNCHANGED open1

CombinedRemove(i) ==
  /\ listener_ids[i] # None
  /\ listener_ids' = [listener_ids EXCEPT ![i] = None]
  /\ RemoveOne(i)
  /\ UNCHANGED <<requestVars, tellVars, addr1, ready1>>

\* t2 is polled only when t1 is pending.
PollFirst ==
  /\ ready1
  /\ ready1' = FALSE
  /\ UNCHANGED <<transportVars, addr1, open1, listener_ids>>

PollSecond ==
  /\ ~ ready1
  /\ PollNews \/ PollRest
  /\ UNCHANGED <<firstVars, listener_ids>>

Poll == PollFirst \/ PollSecond

\* The normal transport: it has something to tell, or closes a listener.
FirstReady ==
  /\ ready1' = TRUE
  /\ UNCHANGED <<transportVars, addr1, open1, listener_ids>>

FirstCloses(i) ==
  /\ i \in open1
  /\ open1' = open1 \ {i}
  /\ ready1' = TRUE
  /\ UNCHANGED <<transportVars, addr1, listener_ids>>

Next ==
  \/ \E i \in Ids : (\E a \in Addrs : CombinedListenOn(i, a)) \/ CombinedRemove(i) \/ FirstCloses(i)
  \/ FirstReady
  \/ Poll
  \/ UNCHANGED <<firstVars, listener_ids>> /\
       \/ \E d \in Dials : Dial(d)
       \/ Take \/ TellOther \/ Forward \/ Flush \/ \E l \in Listens : Answer(l)

\* The swarm polls the transport and the behaviour, which takes what it is sent
\* and tells what it has to.
Spec     == Init /\ [][Next]_vars
FairSpec ==
  /\ Spec
  /\ WF_vars(Poll)
  /\ WF_vars(Take /\ UNCHANGED <<firstVars, listener_ids>>)
  /\ WF_vars(Flush /\ UNCHANGED <<firstVars, listener_ids>>)

-----------------------------------------------------------------------------
\* Every variable has its type.
TypeOK ==
  /\ pending_to_behaviour \in Seq(Requests) /\ to_behaviour \in Seq(Requests)
  /\ from_behaviour \in Seq(Told) /\ pending_to_transport \in Seq(Told)
  /\ made \in Seq(Requests) /\ taken \in Seq(Requests)
  /\ outcome \in [Listens -> {"none", "ok", "failed"}]
  /\ listener \in Listens \cup {None} /\ receiver \in 0..ListenerCap
  /\ local_addr \in [Listens -> Addrs \cup {None}]
  /\ addr1 \in [Ids -> Addrs \cup {None}]
  /\ open1 \subseteq Ids /\ ready1 \in BOOLEAN
  /\ listener_ids \in [Ids -> Listens \cup {None}]

\* A listener that is open on the normal transport has an id it can be removed by.
FirstRemovable == \A i \in open1 : listener_ids[i] # None

\* Ids share the endpoint's listener.  An id keeps it while it has an id's own
\* cause to: it goes when its request failed, or with another id that shares it
\* and whose other listener had closed before.
SharedListenerKept ==
  [][\A i \in Ids :
       LET l == listener_ids[i]
       IN l # None /\ listener_ids'[i] = l /\ listener = l /\ listener' # l =>
            \/ outcome[l] = "failed"
            \/ \E j \in Ids : listener_ids[j] = l /\ listener_ids'[j] = None /\ j \notin open1
    ]_vars

\* Requests are made, and their answers heard, as transport and behaviour agreed.
Agreed == INSTANCE Line WITH
  asked <- Range(made),
  line  <- to_behaviour \o pending_to_behaviour,
  open  <- {listener} \ {None},
  news  <- from_behaviour \o pending_to_transport

ImplementsLine == Agreed!Spec

\* The normal transport comes to rest: while it has events, the other one is
\* not polled.
FirstRests == <>[] ~ ready1

\* Every request gets to the behaviour, whatever its channel holds.
RequestsTaken ==
  FirstRests => \A r \in Requests : r \in Range(made) ~> r \in Range(taken)

\* A listener whose request failed is dropped, so that listen_on can be tried again.
FailedIsDropped ==
  FirstRests => \A l \in Listens : outcome[l] = "failed" ~> listener # l

(***************************************************************************)
(* What the code says and does not do.                                     *)
(***************************************************************************)
\* "We hope the swarm listen an addr on the normal transport and the
\* endpoint-transport ... This combine transport can help us do this job"
\* (combine.rs:13): the two listeners of an id are for one address.
ListensOnBoth ==
  \A i \in Ids : listener_ids[i] # None => local_addr[listener_ids[i]] = addr1[i]
=============================================================================
