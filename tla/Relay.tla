------------------------------- MODULE Relay --------------------------------
(***************************************************************************)
(* The relay server: its network behaviour (relay/behaviour.rs), one       *)
(* connection handler per connection (relay/handler.rs) and the upgrades   *)
(* that run on the substreams (relay/upgrade/).                            *)
(*                                                                         *)
(* A client opens a substream to ask the relay to dial a peer, or to       *)
(* listen on it.  The upgrade of a dial sends a ConnectRequest holding a   *)
(* oneshot sender to the behaviour and waits; the behaviour keeps the      *)
(* sender under the destination's peer id, asks the handler of a           *)
(* connection to that peer to open a connect substream, and gives the      *)
(* result to whatever sender is under that peer id when it comes back.     *)
(***************************************************************************)
EXTENDS Naturals, Sequences

CONSTANTS Peers,    \* peer ids of the clients
          Addrs,    \* destination addresses a dialer may ask for
          Conns,    \* connections to the relay, each used once
          Streams,  \* inbound substreams the clients open, each used once
          None      \* no stream, no peer, no request

ASSUME NoneIsFresh == None \notin Peers \cup Streams \cup (Conns \X Streams)

VARIABLES
  \* the swarm's connection pool
  conn_peer,            \* the peer a connection is with
  live, closed,         \* the connections that are, and that were, established
  \* the upgrades of inbound substreams
  request,              \* what the client sends on the substream
  inbound,              \* where the upgrade of the substream stands
  oneshot,              \* the answer in the oneshot channel of a dial
  connection,           \* <<conn, s>>: the stream a dial was given; it was
                        \* opened on conn for the request of s
  \* the handlers
  upgrading,            \* <<conn, s>>: outbound connect upgrades that run
  pending_events,       \* ConnectionHandler::pending_events, per connection
  \* the behaviour
  listening_clients, connect_requests, connecting_requests,
  io_copy_futures, pending_actions

poolVars      == <<conn_peer, live, closed>>
upgradeVars   == <<request, inbound, oneshot, connection>>
handlerVars   == <<upgrading, pending_events>>
behaviourVars == <<listening_clients, connect_requests, connecting_requests,
                   io_copy_futures, pending_actions>>
vars == <<poolVars, upgradeVars, handlerVars, behaviourVars>>

Request == [proto : {"dial", "listen"}, conn : Conns, peer : Peers, addr : Addrs]
Phases  == {"none", "reading", "waiting", "responding", "ok", "err", "dropped"}
Answers == {"empty", "canceled", "refused", "failed", "connected"}
Types   == {"connect", "dial_success", "connect_success", "connect_failed",
            "listen_success", "failed"}
AttemptTypes == {"connect", "connect_success", "connect_failed"}
Events  == [type : Types, stream : Streams]
Actions == {"start_copy", "listen", "failed"}
Copies  == Streams \X {"to_dst", "to_dialer"}

Opened(s)  == inbound[s] # "none"
Running(s) == inbound[s] \in {"reading", "waiting", "responding"}
IsDial(s)  == Opened(s) /\ request[s].proto = "dial"
Listened(s) == inbound[s] = "ok" /\ request[s].proto = "listen"
ConnsTo(p) == {c \in live : conn_peer[c] = p}

Init ==
  /\ conn_peer = [c \in Conns |-> None]
  /\ live = {}
  /\ closed = {}
  /\ request = [s \in Streams |-> None]
  /\ inbound = [s \in Streams |-> "none"]
  /\ oneshot = [s \in Streams |-> "empty"]
  /\ connection = [s \in Streams |-> None]
  /\ upgrading = {}
  /\ pending_events = [c \in Conns |-> <<>>]
  /\ listening_clients = {}
  /\ connect_requests = <<>>
  /\ connecting_requests = [p \in Peers |-> None]
  /\ io_copy_futures = {}
  /\ pending_actions = <<>>

(***************************************************************************)
(* The environment: connections come and go, clients open substreams.  The *)
(* behaviour ignores every swarm event.  When a connection closes, its     *)
(* task ends: the upgrades and the events of its handler are dropped.      *)
(***************************************************************************)
Establish(c, p) ==
  /\ c \notin live \cup closed
  /\ conn_peer' = [conn_peer EXCEPT ![c] = p]
  /\ live' = live \cup {c}
  /\ UNCHANGED <<closed, upgradeVars, handlerVars, behaviourVars>>

Close(c) ==
  /\ c \in live
  /\ live' = live \ {c}
  /\ closed' = closed \cup {c}
  /\ inbound' = [s \in Streams |->
       IF Running(s) /\ request[s].conn = c THEN "dropped" ELSE inbound[s]]
  /\ upgrading' = {u \in upgrading : u[1] # c}
  /\ pending_events' = [pending_events EXCEPT ![c] = <<>>]
  /\ UNCHANGED <<conn_peer, request, oneshot, connection, behaviourVars>>

\* A listener registers its own peer id (endpoint/upgrade/outbound.rs).
Open(s, r) ==
  /\ inbound[s] = "none"
  /\ r.conn \in live
  /\ r.proto = "listen" => r.peer = conn_peer[r.conn]
  /\ request' = [request EXCEPT ![s] = r]
  /\ inbound' = [inbound EXCEPT ![s] = "reading"]
  /\ UNCHANGED <<poolVars, oneshot, connection, handlerVars, behaviourVars>>

(***************************************************************************)
(* The upgrade of an inbound substream, run by the task of its connection, *)
(* and the handler event its end queues.                                   *)
(***************************************************************************)
Queue(c, type, s) ==
  pending_events' = [pending_events EXCEPT
                       ![c] = Append(@, [type |-> type, stream |-> s])]

\* A plausible slip: every substream is upgraded as a dial.
ReceiveAnyAsDial(s) ==
  /\ inbound[s] = "reading"
  /\ inbound' = [inbound EXCEPT ![s] = "waiting"]
  /\ connect_requests' = Append(connect_requests, s)
  /\ UNCHANGED <<poolVars, request, oneshot, connection, handlerVars,
                 listening_clients, connecting_requests, io_copy_futures,
                 pending_actions>>

\* dial_upgrade up to its wait: the channel always has room for one more
\* request, since each upgrade owns a clone of the sender.
ReceiveDialRequest(s) ==
  /\ inbound[s] = "reading"
  /\ request[s].proto = "dial"
  /\ inbound' = [inbound EXCEPT ![s] = "waiting"]
  /\ connect_requests' = Append(connect_requests, s)
  /\ UNCHANGED <<poolVars, request, oneshot, connection, handlerVars,
                 listening_clients, connecting_requests, io_copy_futures,
                 pending_actions>>

ReceiveListenRequest(s) ==
  /\ inbound[s] = "reading"
  /\ request[s].proto = "listen"
  /\ inbound' = [inbound EXCEPT ![s] = "responding"]
  /\ UNCHANGED <<poolVars, request, oneshot, connection, handlerVars,
                 behaviourVars>>

\* The oneshot is answered: with a connection the dialer is told of success
\* next; with an error, or a dropped sender, it is told of failure and the
\* upgrade fails.
ResumeDial(s) ==
  /\ inbound[s] = "waiting"
  /\ \/ /\ oneshot[s] = "connected"
        /\ inbound' = [inbound EXCEPT ![s] = "responding"]
        /\ UNCHANGED pending_events
     \/ /\ oneshot[s] \in {"canceled", "refused", "failed"}
        /\ inbound' = [inbound EXCEPT ![s] = "err"]
        /\ Queue(request[s].conn, "failed", s)
  /\ UNCHANGED <<poolVars, request, oneshot, connection, upgrading,
                 behaviourVars>>

\* The success response is sent: the client may act on it from here on.
Respond(s) ==
  /\ inbound[s] = "responding"
  /\ inbound' = [inbound EXCEPT ![s] = "ok"]
  /\ Queue(request[s].conn,
           IF request[s].proto = "dial" THEN "dial_success" ELSE "listen_success",
           s)
  /\ UNCHANGED <<poolVars, request, oneshot, connection, upgrading,
                 behaviourVars>>

\* A malformed request, a stream that closes, or the swarm's upgrade timeout.
UpgradeFails(s) ==
  /\ Running(s)
  /\ inbound' = [inbound EXCEPT ![s] = "err"]
  /\ Queue(request[s].conn, "failed", s)
  /\ UNCHANGED <<poolVars, request, oneshot, connection, upgrading,
                 behaviourVars>>

(***************************************************************************)
(* The outbound connect substream a handler is asked for.  It is upgraded, *)
(* or fails, or times out; either way the handler reports the peer id it   *)
(* was opened for.                                                         *)
(***************************************************************************)
Pop(c, type, s) ==
  /\ pending_events[c] # <<>>
  /\ Head(pending_events[c]) = [type |-> type, stream |-> s]
  /\ pending_events' = [pending_events EXCEPT ![c] = Tail(@)]

HandlerPollConnect(c, s) ==
  /\ Pop(c, "connect", s)
  /\ upgrading' = upgrading \cup {<<c, s>>}
  /\ UNCHANGED <<poolVars, upgradeVars, behaviourVars>>

ConnectEnds(c, s) ==
  /\ <<c, s>> \in upgrading
  /\ upgrading' = upgrading \ {<<c, s>>}
  /\ \E type \in {"connect_success", "connect_failed"} : Queue(c, type, s)
  /\ UNCHANGED <<poolVars, upgradeVars, behaviourVars>>

(***************************************************************************)
(* Behaviour::on_connection_handler_event, one action per event.  The      *)
(* handler's poll and the delivery of what it returns are one step.        *)
(***************************************************************************)
\* A plausible slip: the stream is copied one way only.
OnDialSuccessOneWay(c, s) ==
  /\ Pop(c, "dial_success", s)
  /\ io_copy_futures' = io_copy_futures \cup {<<s, "to_dst">>}
  /\ pending_actions' = Append(pending_actions, "start_copy")
  /\ UNCHANGED <<poolVars, upgradeVars, upgrading, listening_clients,
                 connect_requests, connecting_requests>>

OnDialSuccess(c, s) ==
  /\ Pop(c, "dial_success", s)
  /\ io_copy_futures' = io_copy_futures \cup ({s} \X {"to_dst", "to_dialer"})
  /\ pending_actions' = Append(pending_actions, "start_copy")
  /\ UNCHANGED <<poolVars, upgradeVars, upgrading, listening_clients,
                 connect_requests, connecting_requests>>

\* What sending r to the dial s leaves in its oneshot: nothing, when the
\* upgrade that would receive it is gone.
Send(s, r) ==
  IF inbound[s] = "waiting" THEN [oneshot EXCEPT ![s] = r] ELSE oneshot

\* A plausible slip: the sender is looked up, not removed.
OnConnectSuccessKeepsSender(c, s) ==
  LET d == connecting_requests[request[s].peer]
  IN /\ Pop(c, "connect_success", s)
     /\ IF d = None
          THEN UNCHANGED <<oneshot, connection>>
          ELSE /\ oneshot' = Send(d, "connected")
               /\ connection' = [connection EXCEPT ![d] = <<c, s>>]
     /\ UNCHANGED <<poolVars, request, inbound, upgrading, behaviourVars>>

OnConnectSuccess(c, s) ==
  LET p == request[s].peer
      d == connecting_requests[p]
  IN /\ Pop(c, "connect_success", s)
     /\ connecting_requests' = [connecting_requests EXCEPT ![p] = None]
     /\ IF d = None
          THEN UNCHANGED <<oneshot, connection>>
          ELSE /\ oneshot' = Send(d, "connected")
               /\ connection' = IF inbound[d] = "waiting"
                                  THEN [connection EXCEPT ![d] = <<c, s>>]
                                  ELSE connection
     /\ UNCHANGED <<poolVars, request, inbound, upgrading, listening_clients,
                    connect_requests, io_copy_futures, pending_actions>>

\* A plausible slip: the failure is logged and the dial is left waiting.
OnConnectFailedOnlyLogs(c, s) ==
  /\ Pop(c, "connect_failed", s)
  /\ UNCHANGED <<poolVars, upgradeVars, upgrading, behaviourVars>>

OnConnectFailed(c, s) ==
  LET p == request[s].peer
      d == connecting_requests[p]
  IN /\ Pop(c, "connect_failed", s)
     /\ connecting_requests' = [connecting_requests EXCEPT ![p] = None]
     /\ oneshot' = IF d = None THEN oneshot ELSE Send(d, "failed")
     /\ UNCHANGED <<poolVars, request, inbound, connection, upgrading,
                    listening_clients, connect_requests, io_copy_futures,
                    pending_actions>>

\* A plausible slip: the listener is reported, not remembered.
OnListenSuccessOnlyReports(c, s) ==
  /\ Pop(c, "listen_success", s)
  /\ pending_actions' = Append(pending_actions, "listen")
  /\ UNCHANGED <<poolVars, upgradeVars, upgrading, listening_clients,
                 connect_requests, connecting_requests, io_copy_futures>>

OnListenSuccess(c, s) ==
  /\ Pop(c, "listen_success", s)
  /\ listening_clients' = listening_clients \cup {request[s].peer}
  /\ pending_actions' = Append(pending_actions, "listen")
  /\ UNCHANGED <<poolVars, upgradeVars, upgrading, connect_requests,
                 connecting_requests, io_copy_futures>>

OnListenOrDialFailed(c, s) ==
  /\ Pop(c, "failed", s)
  /\ pending_actions' = Append(pending_actions, "failed")
  /\ UNCHANGED <<poolVars, upgradeVars, upgrading, listening_clients,
                 connect_requests, connecting_requests, io_copy_futures>>

(***************************************************************************)
(* Behaviour::poll: it polls the copies, then returns one thing: the       *)
(* answer to a connect request, else a queued event.                       *)
(***************************************************************************)
\* FuturesUnordered yields at most one finished copy per poll.
PollCopies ==
  \/ UNCHANGED io_copy_futures
  \/ \E f \in io_copy_futures : io_copy_futures' = io_copy_futures \ {f}

\* A plausible slip: a dial is forwarded whether or not its peer listens.
AlwaysForwarded(p) == TRUE

IsListening(p) == p \in listening_clients

PollRefuse(s) ==
  /\ connect_requests # <<>>
  /\ s = Head(connect_requests)
  /\ ~ IsListening(request[s].peer)
  /\ PollCopies
  /\ connect_requests' = Tail(connect_requests)
  /\ oneshot' = Send(s, "refused")
  /\ UNCHANGED <<poolVars, request, inbound, connection, handlerVars,
                 listening_clients, connecting_requests, pending_actions>>

\* Plausible slips: the event goes to every connection of the peer, or to a
\* connection of whatever peer.
NotifyAll(p, s) ==
  pending_events' = [c \in Conns |->
    IF c \in ConnsTo(p) THEN Append(pending_events[c], [type |-> "connect", stream |-> s])
                        ELSE pending_events[c]]

NotifyAnyPeer(p, s) ==
  \/ \E c \in live : Queue(c, "connect", s)
  \/ live = {} /\ UNCHANGED pending_events

\* NotifyHandler::Any: the swarm hands the event to the handler of some
\* connection to the peer, and drops it when there is none.
NotifyAny(p, s) ==
  \/ \E c \in ConnsTo(p) : Queue(c, "connect", s)
  \/ ConnsTo(p) = {} /\ UNCHANGED pending_events

\* insert() drops the sender that was under the same peer id.
PollForward(s) ==
  LET p   == request[s].peer
      old == connecting_requests[p]
  IN /\ connect_requests # <<>>
     /\ s = Head(connect_requests)
     /\ IsListening(p)
     /\ PollCopies
     /\ connect_requests' = Tail(connect_requests)
     /\ connecting_requests' = [connecting_requests EXCEPT ![p] = s]
     /\ oneshot' = IF old = None THEN oneshot ELSE Send(old, "canceled")
     /\ NotifyAny(p, s)
     /\ UNCHANGED <<poolVars, request, inbound, connection, upgrading,
                    listening_clients, pending_actions>>

PollEmit ==
  /\ connect_requests = <<>>
  /\ pending_actions # <<>>
  /\ PollCopies
  /\ pending_actions' = Tail(pending_actions)
  /\ UNCHANGED <<poolVars, upgradeVars, handlerVars, listening_clients,
                 connect_requests, connecting_requests>>

PollPending ==
  /\ connect_requests = <<>>
  /\ pending_actions = <<>>
  /\ \E f \in io_copy_futures : io_copy_futures' = io_copy_futures \ {f}
  /\ UNCHANGED <<poolVars, upgradeVars, handlerVars, listening_clients,
                 connect_requests, connecting_requests, pending_actions>>

Poll == \/ \E s \in Streams : PollRefuse(s) \/ PollForward(s)
        \/ PollEmit

HandlerPoll(c) ==
  \E s \in Streams :
    \/ HandlerPollConnect(c, s)
    \/ OnDialSuccess(c, s)
    \/ OnConnectSuccess(c, s)
    \/ OnConnectFailed(c, s)
    \/ OnListenSuccess(c, s)
    \/ OnListenOrDialFailed(c, s)

Next ==
  \/ \E c \in Conns, p \in Peers : Establish(c, p)
  \/ \E c \in Conns : Close(c)
  \/ \E s \in Streams, r \in Request : Open(s, r)
  \/ \E s \in Streams : \/ ReceiveDialRequest(s)
                        \/ ReceiveListenRequest(s)
                        \/ ResumeDial(s)
                        \/ Respond(s)
                        \/ UpgradeFails(s)
  \/ \E c \in Conns, s \in Streams : ConnectEnds(c, s)
  \/ \E c \in Conns : HandlerPoll(c)
  \/ Poll
  \/ PollPending

(***************************************************************************)
(* The executor polls what was woken: the behaviour while it has something *)
(* to return, a handler while it has events, a future whose input is       *)
(* there.  A connect upgrade ends: the swarm times it out.  Nothing makes  *)
(* a client open a stream or send on it, or an inbound upgrade fail.       *)
(***************************************************************************)
Fairness ==
  /\ WF_vars(Poll)
  /\ \A c \in Conns : WF_vars(HandlerPoll(c))
  /\ \A c \in Conns, s \in Streams : WF_vars(ConnectEnds(c, s))
  /\ \A s \in Streams : WF_vars(ResumeDial(s)) /\ WF_vars(Respond(s))

Spec     == Init /\ [][Next]_vars
FairSpec == Spec /\ Fairness

-----------------------------------------------------------------------------
InChannel(s) == \E i \in 1..Len(connect_requests) : connect_requests[i] = s
Queued(c, type, s) ==
  \E i \in 1..Len(pending_events[c]) :
    pending_events[c][i] = [type |-> type, stream |-> s]

\* Every variable has its type, and only dials reach the behaviour's channel,
\* its map of senders, its copies and the upgrades it asks for: a substream is
\* dispatched on its protocol.
VarsTyped ==
  /\ conn_peer \in [Conns -> Peers \cup {None}]
  /\ live \subseteq Conns /\ closed \subseteq Conns
  /\ request \in [Streams -> Request \cup {None}]
  /\ inbound \in [Streams -> Phases]
  /\ oneshot \in [Streams -> Answers]
  /\ connection \in [Streams -> (Conns \X Streams) \cup {None}]
  /\ upgrading \subseteq Conns \X Streams
  /\ pending_events \in [Conns -> Seq(Events)]
  /\ listening_clients \subseteq Peers
  /\ connect_requests \in Seq(Streams)
  /\ connecting_requests \in [Peers -> Streams \cup {None}]
  /\ io_copy_futures \subseteq Copies
  /\ pending_actions \in Seq(Actions)

DialsOnly ==
  /\ \A s \in Streams : Opened(s) => request[s] \in Request
  /\ \A s \in Streams : InChannel(s) => IsDial(s)
  /\ \A p \in Peers : connecting_requests[p] # None => IsDial(connecting_requests[p])
  /\ \A u \in upgrading : IsDial(u[2])
  /\ \A f \in io_copy_futures : IsDial(f[1])
  /\ \A c \in Conns, type \in Types, s \in Streams : Queued(c, type, s) =>
       IF type \in {"listen_success", "failed"} THEN Opened(s) ELSE IsDial(s)

TypeOK == VarsTyped /\ DialsOnly

\* The attempt to connect for the request of s is somewhere in c's handler.
Attempt(c, s) ==
  \/ <<c, s>> \in upgrading
  \/ \E type \in AttemptTypes : Queued(c, type, s)

\* A dial that waits has not been answered exactly while the behaviour holds
\* its sender, in the channel or under its destination: no dial is forgotten,
\* and none is answered twice.
OneSender ==
  \A s \in Streams : inbound[s] = "waiting" =>
    (oneshot[s] = "empty" <=>
       InChannel(s) \/ connecting_requests[request[s].peer] = s)

\* While a sender is under a peer id, some attempt to connect to that peer is
\* under way and will remove it, unless a connection to the peer was lost.
SenderHasAttempt ==
  \A p \in Peers : connecting_requests[p] # None =>
    \/ \E c \in live, s \in Streams : Attempt(c, s) /\ request[s].peer = p
    \/ \E c \in closed : conn_peer[c] = p

\* A dialer is only ever joined to a stream on a connection with the peer it
\* asked for, although the map gives it whichever stream comes back first.
SplicedToRequestedPeer ==
  \A s \in Streams : connection[s] # None =>
    IsDial(s) /\ conn_peer[connection[s][1]] = request[s].peer

\* The connect substream opened for one request serves at most one dial.
NoSharedStream ==
  \A s, t \in Streams :
    connection[s] # None /\ connection[t] # None /\ connection[s][2] = connection[t][2]
      => s = t

\* No peer is asked to accept a connection before it has been told, on some
\* substream of its own, that it listens.
OnlyListenersReached ==
  \A c \in Conns, s \in Streams : Attempt(c, s) =>
    \E l \in Streams : Listened(l) /\ request[l].peer = request[s].peer

\* Why those hold: what the behaviour keeps under a peer id, and what the
\* handlers of a connection work on, is for the peer of that connection, which
\* has been told that it listens.
Routing ==
  /\ \A c \in Conns : c \in live \cup closed <=> conn_peer[c] # None
  /\ live \cap closed = {}
  /\ \A s \in Streams : Opened(s) =>
       /\ request[s].conn \in live \cup closed
       /\ request[s].proto = "listen" => request[s].peer = conn_peer[request[s].conn]
  /\ \A p \in listening_clients :
       \E l \in Streams : Listened(l) /\ request[l].peer = p
  /\ \A c \in Conns, s \in Streams : Queued(c, "listen_success", s) => Listened(s)
  /\ \A p \in Peers : connecting_requests[p] # None =>
       request[connecting_requests[p]].peer = p
  /\ \A c \in Conns, s \in Streams : Attempt(c, s) =>
       /\ c \in live
       /\ conn_peer[c] = request[s].peer
       /\ request[s].peer \in listening_clients

\* A dial does not wait for ever, unless a connection to its destination is
\* lost: then nothing ever answers it but the swarm's upgrade timeout.
DialAnswered ==
  \A s \in Streams :
    inbound[s] = "waiting" ~>
      \/ inbound[s] # "waiting"
      \/ Opened(s) /\ \E c \in closed : conn_peer[c] = request[s].peer

\* A listener that was told of success can be dialed some time later.
ListedEventually ==
  \A s \in Streams :
    Listened(s) ~> Listened(s) /\ \/ request[s].peer \in listening_clients
                                  \/ request[s].conn \in closed

\* A dialer that is being told of success gets both copies of its stream.
DialSpliced ==
  \A s \in Streams :
    inbound[s] = "responding" /\ IsDial(s) ~>
      \/ {s} \X {"to_dst", "to_dialer"} \subseteq io_copy_futures
      \/ inbound[s] = "err"
      \/ Opened(s) /\ request[s].conn \in closed

-----------------------------------------------------------------------------
(* What the repository says of the relay and the code does not keep.       *)

\* A dialer connects to its target through the relay: the stream it is given
\* was opened for the address it asked for (endpoint/transport.rs:23).
SplicedToRequestedAddr ==
  \A s \in Streams : connection[s] # None =>
    request[connection[s][2]].addr = request[s].addr
=============================================================================
