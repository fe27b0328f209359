-------------------------- MODULE EndpointBehaviour -------------------------
(***************************************************************************)
(* The endpoint's network behaviour (endpoint/behaviour.rs) and the        *)
(* handlers of its connections to the relay (endpoint/handler.rs), as      *)
(* Transport::new builds them: for one relay.                              *)
(*                                                                         *)
(* The transport sends dial and listen requests.  Without an established   *)
(* connection the behaviour parks them and asks the swarm to dial the      *)
(* relay; otherwise it hands them to a handler, whose upgrade asks the     *)
(* relay.  The relay opens a substream per connection it forwards, which   *)
(* the behaviour sends to the listener of its address.  Behaviour and      *)
(* transport are polled by one task, the swarm's; handlers by their own.   *)
(***************************************************************************)
EXTENDS Naturals, SequencesExt

CONSTANTS Dials, Listens,  \* requests of the transport, each sent once
          Addrs,           \* listen addresses
          LocalAddr,       \* the address of a listen request
          Forwarded,       \* connections the relay forwards, each once
          ListenAddr,      \* the address a forwarded connection is for
          Conns,           \* connections to the relay, each used once
          ListenerCap,     \* what the channel to a listener holds
          TransportCap,    \* what the channel to the transport holds
          None             \* no listener

ASSUME RequestsDisjoint == Dials \cap Listens = {} /\ None \notin Listens
ASSUME AddressesKnown   == LocalAddr \in [Listens -> Addrs] /\ ListenAddr \in [Forwarded -> Addrs]
ASSUME CapsPositive     == ListenerCap \in Nat \ {0} /\ TransportCap \in Nat \ {0}

VARIABLES
  \* the swarm
  live, closed,         \* connections to the relay, and those that were closed
  dialing,              \* a dial the behaviour asked for is under way
  \* the transport
  answer,               \* what became of a request, as far as the transport knows
  dropped,              \* listeners the transport removed
  incoming,             \* the channel to a listener
  \* the handlers
  pending_events,       \* ConnectionHandler::pending_events
  pending_inbound,      \* ConnectionHandler::pending_inbound_upgrade_output
  upgrading,            \* <<conn, request>>: outbound upgrades that run
  arrived,              \* forwarded connections the relay has sent
  \* the behaviour
  from_transport, listeners, pending_new_connections, pending_to_transport,
  to_transport, established, connecting, waiting, pending

swarmVars     == <<live, closed, dialing>>
transportVars == <<answer, dropped, incoming>>
handlerVars   == <<pending_events, pending_inbound, upgrading, arrived>>
requestVars   == <<from_transport, established, connecting, waiting, pending>>
outVars       == <<pending_new_connections, pending_to_transport, to_transport>>
vars == <<swarmVars, transportVars, handlerVars, requestVars, outVars, listeners>>

Requests == Dials \cup Listens
Answers  == {"none", "open", "ok", "err", "canceled"}
Events   == [type : {"request", "success", "failed"}, req : Requests]
Told     == [type : {"ListenSuccess", "ListenFailed"}, req : Listens]
              \cup [type : {"DialFailed"}, req : Dials]
              \cup [type : {"PeerClosed"}, conn : Conns]

Init ==
  /\ live = {} /\ closed = {} /\ dialing = FALSE
  /\ answer = [r \in Requests |-> "none"]
  /\ dropped = {}
  /\ incoming = [l \in Listens |-> <<>>]
  /\ pending_events = [c \in Conns |-> <<>>]
  /\ pending_inbound = [c \in Conns |-> <<>>]
  /\ upgrading = {} /\ arrived = {}
  /\ from_transport = <<>>
  /\ listeners = [a \in Addrs |-> None]
  /\ pending_new_connections = <<>>
  /\ pending_to_transport = <<>> /\ to_transport = <<>>
  /\ established = {} /\ connecting = FALSE
  /\ waiting = <<>> /\ pending = <<>>

(***************************************************************************)
(* The transport: it sends requests, has one listener at a time, drops a   *)
(* listener that failed, and ignores every other event.                    *)
(***************************************************************************)
\* Transport::listener is an Option: one listener at a time, while older ones
\* may still be on their way through the behaviour.
Request(r) ==
  /\ answer[r] = "none"
  /\ r \in Listens => \A l \in Listens : answer[l] # "none" => l \in dropped
  /\ answer' = [answer EXCEPT ![r] = "open"]
  /\ from_transport' = Append(from_transport, r)
  /\ UNCHANGED <<swarmVars, dropped, incoming, handlerVars, established, connecting,
                 waiting, pending, outVars, listeners>>

RemoveListener(l) ==
  /\ answer[l] # "none"
  /\ l \notin dropped
  /\ dropped' = dropped \cup {l}
  /\ UNCHANGED <<swarmVars, answer, incoming, handlerVars, requestVars, outVars, listeners>>

TransportReceive ==
  /\ to_transport # <<>>
  /\ LET e == Head(to_transport)
         l == IF e.type \in {"ListenSuccess", "ListenFailed"} THEN {e.req} ELSE {}
     IN /\ answer' = [r \in Requests |->
             IF r \notin l THEN answer[r]
             ELSE IF e.type = "ListenSuccess" THEN "ok" ELSE "err"]
        /\ dropped' = IF e.type = "ListenFailed" THEN dropped \cup l ELSE dropped
  /\ to_transport' = Tail(to_transport)
  /\ UNCHANGED <<swarmVars, incoming, handlerVars, requestVars,
                 pending_new_connections, pending_to_transport, listeners>>

ListenerReceive(l) ==
  /\ l \notin dropped
  /\ incoming[l] # <<>>
  /\ incoming' = [incoming EXCEPT ![l] = Tail(@)]
  /\ UNCHANGED <<swarmVars, answer, dropped, handlerVars, requestVars, outVars, listeners>>

(***************************************************************************)
(* Behaviour::on_swarm_event.  A connection to the relay may be the one    *)
(* the behaviour dialed or somebody else's; so may a dial that fails.      *)
(***************************************************************************)
\* A plausible slip: the parked requests are left parked.
OnEstablishedKeepsWaiting(c) ==
  /\ c \notin live \cup closed
  /\ live' = live \cup {c}
  /\ dialing' \in {dialing, FALSE}
  /\ connecting' = FALSE
  /\ established' = IF connecting THEN established \cup {c} ELSE established
  /\ UNCHANGED <<closed, transportVars, handlerVars, from_transport, waiting, pending,
                 outVars, listeners>>

OnConnectionEstablished(c) ==
  /\ c \notin live \cup closed
  /\ live' = live \cup {c}
  /\ dialing' \in {dialing, FALSE}
  /\ IF connecting
       THEN /\ connecting' = FALSE
            /\ established' = established \cup {c}
            /\ pending' = pending \o waiting
            /\ waiting' = <<>>
       ELSE UNCHANGED <<connecting, established, pending, waiting>>
  /\ UNCHANGED <<closed, transportVars, handlerVars, from_transport, outVars, listeners>>

\* A plausible slip: every request fails as a dial.
FailedAsDial(r) == [type |-> "DialFailed", req |-> r]

Failed(r) == [type |-> IF r \in Dials THEN "DialFailed" ELSE "ListenFailed", req |-> r]

\* The requests of the sequence rs fail: the senders of the dials are
\* answered, and the transport is told of each.
Fail(rs) ==
  /\ answer' = [r \in Requests |->
       IF r \in Dials \cap Range(rs) THEN "err" ELSE answer[r]]
  /\ pending_to_transport' = pending_to_transport \o [i \in DOMAIN rs |-> Failed(rs[i])]

\* A plausible slip: the failed requests stay parked.
OnDialFailureKeepsWaiting ==
  /\ dialing \/ waiting # <<>>
  /\ dialing' \in {dialing, FALSE}
  /\ Fail(waiting)
  /\ UNCHANGED <<live, closed, dropped, incoming, handlerVars, requestVars,
                 pending_new_connections, to_transport, listeners>>

OnDialFailure ==
  /\ dialing \/ waiting # <<>>
  /\ dialing' \in {dialing, FALSE}
  /\ Fail(waiting)
  /\ waiting' = <<>>
  /\ UNCHANGED <<live, closed, dropped, incoming, handlerVars, from_transport,
                 established, connecting, pending, pending_new_connections,
                 to_transport, listeners>>

\* The requests a handler works on: their senders are dropped with it.
HeldBy(c) == {r \in Requests : \/ <<c, r>> \in upgrading
                               \/ \E e \in Range(pending_events[c]) : e.req = r}

\* A plausible slip: a closed connection still counts as established.
ForgetConnection(c) == established

OpenConnections(c) == established \ {c}

OnConnectionClosed(c) ==
  /\ c \in live
  /\ live' = live \ {c}
  /\ closed' = closed \cup {c}
  /\ answer' = [r \in Requests |->
       IF r \in Dials \cap HeldBy(c) THEN "canceled" ELSE answer[r]]
  /\ pending_events' = [pending_events EXCEPT ![c] = <<>>]
  /\ pending_inbound' = [pending_inbound EXCEPT ![c] = <<>>]
  /\ upgrading' = {u \in upgrading : u[1] # c}
  /\ pending_to_transport' = Append(pending_to_transport, [type |-> "PeerClosed", conn |-> c])
  /\ established' = OpenConnections(c)
  /\ UNCHANGED <<dialing, dropped, incoming, arrived, from_transport, connecting,
                 waiting, pending, pending_new_connections, to_transport, listeners>>

(***************************************************************************)
(* The handler of a connection, and Behaviour::on_connection_handler_event *)
(* for what its poll returns: forwarded connections first.                 *)
(***************************************************************************)
Queue(c, type, r) ==
  pending_events' = [pending_events EXCEPT ![c] = Append(@, [type |-> type, req |-> r])]

Pop(c, type, r) ==
  /\ pending_inbound[c] = <<>>
  /\ pending_events[c] # <<>>
  /\ Head(pending_events[c]) = [type |-> type, req |-> r]
  /\ pending_events' = [pending_events EXCEPT ![c] = Tail(@)]

HandlerPollRequest(c, r) ==
  /\ Pop(c, "request", r)
  /\ upgrading' = upgrading \cup {<<c, r>>}
  /\ UNCHANGED <<swarmVars, transportVars, pending_inbound, arrived, requestVars,
                 outVars, listeners>>

\* The relay answers the upgrade, or it fails or times out.
UpgradeEnds(c, r) ==
  /\ <<c, r>> \in upgrading
  /\ upgrading' = upgrading \ {<<c, r>>}
  /\ \E type \in {"success", "failed"} : Queue(c, type, r)
  /\ UNCHANGED <<swarmVars, transportVars, pending_inbound, arrived, requestVars,
                 outVars, listeners>>

\* DialSuccess, DialFailed, ListenSuccess and ListenFailed.
OnUpgradeEnd(c, r) ==
  /\ \/ /\ Pop(c, "success", r)
        /\ IF r \in Dials
             THEN /\ answer' = [answer EXCEPT ![r] = "ok"]
                  /\ UNCHANGED pending_to_transport
             ELSE /\ pending_to_transport' =
                       Append(pending_to_transport, [type |-> "ListenSuccess", req |-> r])
                  /\ UNCHANGED answer
     \/ /\ Pop(c, "failed", r)
        /\ IF r \in Dials
             THEN /\ answer' = [answer EXCEPT ![r] = "err"]
                  /\ UNCHANGED pending_to_transport
             ELSE /\ pending_to_transport' = Append(pending_to_transport, Failed(r))
                  /\ UNCHANGED answer
  /\ UNCHANGED <<swarmVars, dropped, incoming, pending_inbound, upgrading, arrived,
                 requestVars, pending_new_connections, to_transport, listeners>>

\* The relay was answered with success for the connection i.
Accept(c, i) ==
  /\ c \in live
  /\ i \notin arrived
  /\ arrived' = arrived \cup {i}
  /\ pending_inbound' = [pending_inbound EXCEPT ![c] = Append(@, i)]
  /\ UNCHANGED <<swarmVars, transportVars, pending_events, upgrading, requestVars,
                 outVars, listeners>>

\* A plausible slip: the connection is looked at but not taken.
OnNewConnectionKeeps(c) ==
  /\ pending_inbound[c] # <<>>
  /\ pending_new_connections' = Append(pending_new_connections, Head(pending_inbound[c]))
  /\ UNCHANGED <<swarmVars, transportVars, handlerVars, requestVars,
                 pending_to_transport, to_transport, listeners>>

OnNewConnection(c) ==
  /\ pending_inbound[c] # <<>>
  /\ pending_inbound' = [pending_inbound EXCEPT ![c] = Tail(@)]
  /\ pending_new_connections' = Append(pending_new_connections, Head(pending_inbound[c]))
  /\ UNCHANGED <<swarmVars, transportVars, pending_events, upgrading, arrived,
                 requestVars, pending_to_transport, to_transport, listeners>>

(***************************************************************************)
(* Behaviour::poll.  A request, new or parked earlier, comes first.        *)
(***************************************************************************)
\* NotifyHandler::Any, and the sender of the listener kept under its address.
Dispatch(r) ==
  /\ listeners' = IF r \in Listens THEN [listeners EXCEPT ![LocalAddr[r]] = r]
                                   ELSE listeners
  /\ \/ /\ \E c \in live : Queue(c, "request", r)
        /\ UNCHANGED answer
     \/ /\ live = {}
        /\ answer' = IF r \in Dials THEN [answer EXCEPT ![r] = "canceled"] ELSE answer
        /\ UNCHANGED pending_events

PollSend ==
  /\ from_transport # <<>>
  /\ established # {}
  /\ Dispatch(Head(from_transport))
  /\ from_transport' = Tail(from_transport)
  /\ UNCHANGED <<swarmVars, dropped, incoming, pending_inbound, upgrading, arrived,
                 established, connecting, waiting, pending, outVars>>

PollPending ==
  /\ from_transport = <<>>
  /\ pending # <<>>
  /\ Dispatch(Head(pending))
  /\ pending' = Tail(pending)
  /\ UNCHANGED <<swarmVars, dropped, incoming, pending_inbound, upgrading, arrived,
                 from_transport, established, connecting, waiting, outVars>>

\* The swarm dials only while it has no connection to the peer; a dial it
\* does not try fails at once.
PollDial ==
  /\ from_transport # <<>>
  /\ established = {}
  /\ ~ connecting
  /\ connecting' = TRUE
  /\ from_transport' = Tail(from_transport)
  /\ LET parked == Append(waiting, Head(from_transport))
     IN IF live = {}
          THEN /\ dialing' = TRUE
               /\ waiting' = parked
               /\ UNCHANGED <<answer, pending_to_transport>>
          ELSE /\ Fail(parked)
               /\ waiting' = <<>>
               /\ UNCHANGED dialing
  /\ UNCHANGED <<live, closed, dropped, incoming, handlerVars, established, pending,
                 pending_new_connections, to_transport, listeners>>

(***************************************************************************)
(* The rest of poll: the forwarded connections in order, each to the       *)
(* listener of its address, until one has to wait for room or finds no     *)
(* open listener; the latter is dropped and ends the poll with an event.   *)
(* Otherwise the transport is told what fits its channel.  As the          *)
(* transport has one listener at a time (Request), what one poll sends     *)
(* goes to one listener.                                                   *)
(***************************************************************************)
\* A plausible slip: a connection goes to whichever listener is kept.
AnyListener(i) == CHOOSE l \in Listens \cup {None} : \E a \in Addrs : listeners[a] = l

ListenerOf(i) == listeners[ListenAddr[i]]

\* A plausible slip: the sender of a listener that is gone is used.
IsKnown(l) == l \in Listens

IsOpen(l) == l \in Listens /\ l \notin dropped

\* A plausible slip: the last place of the channel is never used.
FitsOffByOne(n) ==
  \A k \in 1..n :
    LET l == ListenerOf(pending_new_connections[k])
    IN IsOpen(l) /\ Len(incoming[l]) + k < ListenerCap

\* The first n forwarded connections find an open listener with room.
Fits(n) ==
  \A k \in 1..n :
    LET l == ListenerOf(pending_new_connections[k])
    IN IsOpen(l) /\ Len(incoming[l]) + k <= ListenerCap

\* A plausible slip: the event that found no room is lost.
FlushLosesOne(told) ==
  LET room == TransportCap - Len(to_transport)
      m    == IF Len(told) < room THEN Len(told) ELSE room
  IN /\ to_transport' = to_transport \o SubSeq(told, 1, m)
     /\ pending_to_transport' = SubSeq(told, m + 2, Len(told))

Flush(told) ==
  LET room == TransportCap - Len(to_transport)
      m    == IF Len(told) < room THEN Len(told) ELSE room
  IN /\ to_transport' = to_transport \o SubSeq(told, 1, m)
     /\ pending_to_transport' = SubSeq(told, m + 1, Len(told))

\* A plausible slip: the connection that has to wait goes to the back.
PutBehind(n) ==
  LET new == pending_new_connections
  IN IF n < Len(new) THEN Append(SubSeq(new, n + 2, Len(new)), new[n + 1]) ELSE <<>>

\* Those behind the first n, the one that has to wait in front again.
PutBack(n) == SubSeq(pending_new_connections, n + 1, Len(pending_new_connections))

DeliverAndFlush ==
  LET new == pending_new_connections
  IN \E n \in 0..Len(new) :
       LET told == pending_to_transport
             \o [k \in 1..n |-> [type |-> "ListenSuccess", req |-> ListenerOf(new[k])]]
       IN /\ Fits(n)
          /\ n < Len(new) => ~ Fits(n + 1)
          /\ incoming' = [l \in Listens |->
               IF n > 0 /\ l = ListenerOf(new[1]) THEN incoming[l] \o SubSeq(new, 1, n)
                                                  ELSE incoming[l]]
          /\ IF n < Len(new) /\ ~ IsOpen(ListenerOf(new[n + 1]))
               THEN /\ pending_new_connections' = SubSeq(new, n + 2, Len(new))
                    /\ pending_to_transport' = told
                    /\ UNCHANGED to_transport
               ELSE /\ pending_new_connections' = PutBack(n)
                    /\ Flush(told)

PollPark ==
  /\ from_transport # <<>>
  /\ established = {}
  /\ connecting
  /\ waiting' = Append(waiting, Head(from_transport))
  /\ from_transport' = Tail(from_transport)
  /\ DeliverAndFlush
  /\ UNCHANGED <<swarmVars, answer, dropped, handlerVars, established, connecting,
                 pending, listeners>>

PollRest ==
  /\ from_transport = <<>>
  /\ pending = <<>>
  /\ DeliverAndFlush
  /\ UNCHANGED <<swarmVars, answer, dropped, handlerVars, requestVars, listeners>>

Poll == PollSend \/ PollPending \/ PollDial \/ PollPark \/ PollRest

HandlerPoll(c) ==
  \/ OnNewConnection(c)
  \/ \E r \in Requests : HandlerPollRequest(c, r) \/ OnUpgradeEnd(c, r)

Next ==
  \/ \E r \in Requests : Request(r)
  \/ \E l \in Listens : RemoveListener(l) \/ ListenerReceive(l)
  \/ TransportReceive
  \/ OnDialFailure
  \/ \E c \in Conns :
       \/ OnConnectionEstablished(c)
       \/ OnConnectionClosed(c)
       \/ HandlerPoll(c)
       \/ \E r \in Requests : UpgradeEnds(c, r)
       \/ \E i \in Forwarded : Accept(c, i)
  \/ Poll

\* The dial the behaviour asked for ends: the transport that dials the relay
\* connects or gives up (CombinedEndpoint looks into that).
DialEnds ==
  /\ dialing
  /\ OnDialFailure \/ \E c \in Conns : OnConnectionEstablished(c)
  /\ dialing' = FALSE

\* The polls the swarm's task is woken for: a request to be passed on or to dial
\* for, or something to deliver.  A poll that only parks what it takes from the
\* transport is not among them: poll has left its waker with the transport's
\* channel only when it found that channel empty, so that a request sent after
\* one was parked waits for the swarm to be polled for another reason.
PollRequest == PollSend \/ PollPending \/ PollDial
PollOut     == (PollPark \/ PollRest) /\ outVars' # outVars

\* The swarm's task polls transport and behaviour, and each connection's task
\* its handler; the swarm bounds an upgrade by a timeout.
Fairness ==
  /\ WF_vars(PollRequest)
  /\ WF_vars(PollOut)
  /\ WF_vars(TransportReceive)
  /\ WF_vars(DialEnds)
  /\ \A l \in Listens : WF_vars(ListenerReceive(l))
  /\ \A c \in Conns :
       /\ WF_vars(HandlerPoll(c))
       /\ \A r \in Requests : WF_vars(UpgradeEnds(c, r))

Spec == Init /\ [][Next]_vars

FairSpec == Spec /\ Fairness

-----------------------------------------------------------------------------
(***************************************************************************)
(* Safety.                                                                 *)
(***************************************************************************)
\* Every variable has its type: the transport is told of dials and of
\* listeners by the events meant for them.
TypeOK ==
  /\ live \subseteq Conns /\ closed \subseteq Conns /\ dialing \in BOOLEAN
  /\ answer \in [Requests -> Answers]
  /\ dropped \subseteq Listens
  /\ incoming \in [Listens -> Seq(Forwarded)]
  /\ pending_events \in [Conns -> Seq(Events)]
  /\ pending_inbound \in [Conns -> Seq(Forwarded)]
  /\ upgrading \subseteq Conns \X Requests
  /\ arrived \subseteq Forwarded
  /\ from_transport \in Seq(Requests)
  /\ listeners \in [Addrs -> Listens \cup {None}]
  /\ pending_new_connections \in Seq(Forwarded)
  /\ pending_to_transport \in Seq(Told) /\ to_transport \in Seq(Told)
  /\ established \subseteq Conns /\ connecting \in BOOLEAN
  /\ waiting \in Seq(Requests) /\ pending \in Seq(Requests)

\* How often the request r is held: in a queue of the behaviour, in a queue of
\* a handler, or by an upgrade that runs.
Holders(r) ==
  LET held(s) == Cardinality({k \in DOMAIN s : s[k] = r})
      of(c)   == {k \in DOMAIN pending_events[c] : pending_events[c][k].req = r}
  IN held(from_transport) + held(waiting) + held(pending)
       + Cardinality({u \in upgrading : u[2] = r})
       + Cardinality(UNION {{c} \X of(c) : c \in Conns})

\* A dial's sender is in exactly one place until it is answered or dropped,
\* and in none afterwards: no request is lost, sent twice or answered twice,
\* however connections come, go and fail around it.
OneHolder ==
  \A r \in Dials : Holders(r) = IF answer[r] = "open" THEN 1 ELSE 0

\* Requests are parked only while the behaviour counts on a dial of its own,
\* and it counts on one only while it knows no connection.
ParkedMeansConnecting ==
  /\ waiting # <<>> => connecting
  /\ connecting => established = {}

\* A connection that counts as established is one the swarm still has: a request
\* that is not parked is never sent to nobody.
EstablishedIsLive == established \subseteq live

\* A listener only gets connections for its own address, though it may be
\* removed and another one take its address, before or after it is announced.
DeliveredToItsAddress ==
  \A l \in Listens : \A k \in 1..Len(incoming[l]) : ListenAddr[incoming[l][k]] = LocalAddr[l]

\* A forwarded connection is in at most one place between the substream it came
\* on and its listener, and in none before it came: none is delivered twice.
InOnePlace ==
  \A i \in Forwarded :
    LET at(s) == {k \in DOMAIN s : s[k] = i}
    IN Cardinality(at(pending_new_connections))
         + Cardinality(UNION {{c} \X at(pending_inbound[c]) : c \in Conns})
         + Cardinality(UNION {{l} \X at(incoming[l]) : l \in Listens})
           <= IF i \in arrived THEN 1 ELSE 0

\* A forwarded connection that the behaviour has taken leaves it through the
\* channel of the listener of its address, or because none is open there: a full
\* channel only makes it wait, and nothing that happens to requests, to
\* connections to the relay or to other forwarded connections loses it or lets
\* a later one overtake it.
ForwardedInTurn ==
  [][LET new == pending_new_connections
     IN \E n \in 0..Len(new) :
          /\ IsPrefix(SubSeq(new, n + 1, Len(new)), new')
          /\ \A k \in 1..n :
               IsOpen(ListenerOf(new[k])) => new[k] \in Range(incoming'[ListenerOf(new[k])])]_vars

\* The transport hears of what it asked for as the two agreed, in Line.
Requested == {r \in Requests : answer[r] # "none"}

Agreed == INSTANCE Line WITH
  asked <- Requested,
  line  <- from_transport,
  open  <- {l \in Listens : answer[l] # "none" /\ l \notin dropped},
  news  <- to_transport \o pending_to_transport

ImplementsLine == Agreed!Spec

\* What the swarm sees of its dials, its listener and the connections that the
\* relay forwards is what the endpoint promises, in EndpointService.
Service == INSTANCE EndpointService WITH
  answer <- [d \in Dials |-> answer[d]],
  opened <- {l \in Listens : answer[l] # "none"},
  open   <- {l \in Listens : answer[l] # "none" /\ l \notin dropped},
  held   <- Range(pending_new_connections)
              \cup UNION {Range(pending_inbound[c]) : c \in Conns}

ImplementsService == Service!Spec

(***************************************************************************)
(* Liveness, under FairSpec.                                               *)
(***************************************************************************)
\* The behaviour counts on a dial that is over.
Stranded == connecting /\ ~ dialing

\* A dial is answered or its sender dropped, whatever fails, unless the
\* behaviour waits for a dial that is over.
DialAnswered ==
  \A r \in Dials : answer[r] = "open" ~> answer[r] # "open" \/ Stranded

\* A listen request is answered while its connection lasts, unless it is
\* withdrawn or the behaviour waits for a dial that is over.
ListenAnswered ==
  \A l \in Listens :
    answer[l] = "open" ~> answer[l] # "open" \/ l \in dropped \/ closed # {} \/ Stranded

\* Nothing that was forwarded stays behind: each connection is taken by a
\* listener, dropped for want of one, or lost with its substream.
ForwardedLeaves ==
  \A i \in Forwarded :
    i \in Range(pending_new_connections) ~> i \notin Range(pending_new_connections)

(***************************************************************************)
(* What the code says and does not do.                                     *)
(***************************************************************************)
\* "If relay is not established, need dial first" (endpoint/behaviour.rs:323):
\* a request is parked for a dial that is under way.
ParkedMeansDialing == waiting # <<>> => dialing
=============================================================================
