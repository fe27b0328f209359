# A TLA+ development of libp2p-auto-relay

libp2p-auto-relay lets two peers that cannot reach each other talk through a
relay. A *listener* registers with the relay; a *dialer* asks the relay for a
peer; the relay opens a substream to that peer and copies bytes both ways. The
library is a relay (`src/src/relay/`), an endpoint (`src/src/endpoint/`) that
offers the relayed connections to a libp2p swarm as a transport, and a
`CombineTransport` (`src/src/combine.rs`) that pairs that transport with a normal
one. Everything is event-driven: behaviours are polled by the task of their
swarm, connection handlers and upgrades by a task per connection, and they talk
through channels, oneshots and queues. That is what the models are about.

Paths in this file are relative to the repository's `src/src/` unless they say
otherwise.

## Inventory

| Component | State | Operations | Talks to |
|---|---|---|---|
| Relay behaviour, `relay/behaviour.rs` | `listening_clients`, channel of connect requests, `connecting_requests` (one sender per destination peer), `io_copy_futures`, `pending_actions` | `on_connection_handler_event` (5 events), `poll` | handlers (events), inbound dial upgrades (channel, oneshot) |
| Relay handler, `relay/handler.rs` | `pending_events` | `on_behaviour_event`, `on_connection_event`, `poll` | relay behaviour, upgrades |
| Relay upgrades, `relay/upgrade/` | where a dial or listen exchange stands | `dial_upgrade`, `listen_upgrade`, outbound connect | clients (messages), relay behaviour |
| Stream copies, `relay/behaviour.rs` | the futures that run, their ready queue, what each has read and not written | `copy`, polled by the behaviour's `poll` | the two substreams, wakers |
| Endpoint transport, `endpoint/transport.rs` | `listener`, `pending_to_behaviour`, two channels | `listen_on`, `remove_listener`, `dial`, `poll` | endpoint behaviour (channels), swarm |
| Endpoint behaviour, `endpoint/behaviour.rs` | `connecting_relay`, `established_relay_connection`, parked and pending requests, `listeners`, `pending_new_connections`, `pending_to_transport` | `on_swarm_event` (3 events), `on_connection_handler_event` (6), `poll` | transport, handlers, swarm (dials) |
| Endpoint handler, `endpoint/handler.rs` | `pending_events`, `pending_inbound_upgrade_output` | as the relay's | behaviour, upgrades |
| Endpoint upgrades, `endpoint/upgrade/` | where an exchange with the relay stands | dial, listen, connect | relay (messages) |
| Combined transport, `combine.rs` | `listener_ids` | `inner_dial`, `listen_on`, `remove_listener`, `poll` | two transports, swarm |
| Connection, `connection.rs` | `remaining_buf` | reads and writes | substream |

The wire messages (`src/proto/auto_relay.proto`) are generated code; `lib.rs` has
constants, `src/tests/main.rs` one end-to-end run. libp2p's swarm, connection
pool and upgrades are not in the repository and are modelled from how the code
uses them.

What is hard, and the property that would notice:

* **Relay.** The map of waiting dials is keyed by the destination's peer id, so
  dials of one peer compete for one entry while their connect substreams, upgrade
  timeouts and closed connections come in any order: every dial must keep exactly
  one way to be answered (`OneSender`, `SenderHasAttempt`, `DialAnswered`), must
  be joined to the peer it asked for (`SplicedToRequestedPeer`) and to a substream
  of its own (`NoSharedStream`). Only peers that listen may be bothered
  (`OnlyListenersReached`), and success told must mean something
  (`ListedEventually`, `DialSpliced`).
* **Endpoint.** Requests made before there is a connection are parked, un-parked,
  failed, handed to a handler, dropped with a connection: none may be lost or
  answered twice (`OneHolder`, `DialAnswered`, `ListenAnswered`). What the behaviour
  believes about connections must agree with the swarm (`ParkedMeansConnecting`,
  `EstablishedIsLive`). Forwarded connections must reach the listener of their
  address once, wait in their turn when its channel is full, and not get stuck
  (`DeliveredToItsAddress`, `InOnePlace`, `ForwardedInTurn`, `ForwardedLeaves`). All of
  it together must be what a swarm may expect of a transport (`ImplementsService`).
* **Relayed streams.** The copies run from a queue that is polled once per poll of
  the behaviour: no wake-up may be lost (`QueuedIfItCanMove`), and what arrives must
  be passed on (`MovesOrStalls`). Bytes must come out in order whatever the codec
  had read ahead, and a stream that broke must not look like one that ended
  (`ImplementsPipe`, `LossPassedOnIfNotSilent`, `VectoredReads`).
* **End to end.** What a dialer is told must agree with what the endpoint at the
  other end accepted, though four upgrades and a map of dials lie in between
  (`ImplementsRendezvous`).
* **Transports.** Requests wait for room in a channel that is polled only now and
  then (`RequestsInOrder`, `RequestsTaken`). All ids share the endpoint's one
  listener, which comes and goes while news of older ones is under way
  (`SharedListenerKept`, `FailedIsDropped`, `FirstRemovable`). Transport and behaviour
  each act on an idea of the other that is a channel old (`ImplementsLine`).
* **Combined dial.** A dial of the relay goes through the relay too
  (`ReturnsOrWaitsForItself`, `AnsweredOrWaits`).

`PROJECT.json` lists every hazard at its line, the ones no property covers yet
included.

## Modules

```
Relay <- AutoRelay (implements Rendezvous)
EndpointBehaviour <- CombinedEndpoint (implements EndpointService and Line)
EndpointTransport <- CombineTransport (implements Line)
Connection <- RelayCopy (implements Pipe)
```

An arrow points from a module to the one that extends it. The proofs are in modules
of their own: `RelayProofs` and `RelayOnceProofs` about `Relay`, `AutoRelayProofs`,
`RelayCopyProofs`, `EndpointBehaviourProofs` and `EndpointOnceProofs` about
`EndpointBehaviour`, `CombinedEndpointProofs`, `CombineTransportProofs`.

### Relay

`Relay.tla` has the relay behaviour, all its handlers and all upgrades they run.

| In the model | In the code |
|---|---|
| `Streams`, `request`, `inbound` | inbound substreams, what the client asks on each, where its upgrade stands |
| `oneshot[s]` | the oneshot a dial upgrade waits on: empty, dropped (`canceled`), an error (`refused`, `failed`), a connection |
| `connection[s]` | the connection a dial was given, as the pair of the connection it was opened on and the request it was opened *for* |
| `pending_events[c]`, `upgrading` | a handler's queue; outbound connect upgrades that run |
| `connect_requests` | the mpsc channel into the behaviour; each upgrade holds a clone of the sender, and a clone always has a slot, so it is unbounded |
| `ReceiveDialRequest`, `ResumeDial`, `Respond` | `dial_upgrade`, cut where it awaits the oneshot and where the client may see the response |
| `ReceiveListenRequest`, `Respond` | `listen_upgrade`, cut where the client may see the response |
| `UpgradeFails` | malformed message, closed stream, upgrade timeout |
| `OnDialSuccess` ... `OnListenOrDialFailed` | `on_connection_handler_event`, one action per event |
| `PollRefuse`, `PollForward`, `PollEmit`, `PollPending` | the ways through `poll` |
| `NotifyAny` | `NotifyHandler::Any`: some connection with the peer, or nobody |
| `Establish`, `Close`, `Open` | the environment |

A handler's `poll` and the behaviour's handling of what it returned are one
step: what lies between, the pool's channel, only delays the event, as not taking
the step does. The same holds of the way from the behaviour to a handler. When a
connection closes its task ends, and with it the upgrades and events of its
handler. Messages are abstracted to the fields the behaviour reads. A listener
registers its own peer id, as the endpoint does: that is an assumption about the
clients, which the relay does not check (`relay/upgrade/inbound.rs:217`), so nothing
here speaks of a client that registers another's. The relay never compares the
peer of a dialer with its destination, so one peer may play both parts.

### EndpointBehaviour

`EndpointBehaviour.tla` has the endpoint behaviour, its handlers and as much of
the transport as they see, for the one relay that `Transport::new` configures.

| In the model | In the code |
|---|---|
| `Dials`, `Listens` | the transport's requests; `answer[r]` is what the transport learns of one |
| `from_transport` | `pending_to_behaviour` and the channel behind it |
| `waiting` | `wait_connection_transport_to_behaviour_events` |
| `pending` | `pending_transport_to_behaviour_events` |
| `connecting`, `established` | `connecting_relay`, `established_relay_connection` |
| `live`, `closed`, `dialing` | the swarm's connections to the relay, and whether a dial the behaviour asked for runs |
| `incoming[l]`, `listeners[a]` | the channel to a listener; whose sender is kept under an address |
| `pending_events[c]`, `pending_inbound[c]`, `upgrading` | the handler of a connection |
| `OnConnectionEstablished`, `OnDialFailure`, `OnConnectionClosed` | `on_swarm_event` |
| `OnUpgradeEnd`, `OnNewConnection` | `on_connection_handler_event` |
| `PollSend`, `PollPending`, `PollDial`, `PollPark`, `PollRest` | the ways through `poll`: a new request with a connection; a parked one; the first request without one; a later one; nothing to send |
| `DeliverAndFlush`, `PutBack` | the two loops at the end of `poll`, with their early returns; the connection whose listener has no room |

Connections to the relay may be the behaviour's or somebody else's, and dials of
somebody else may fail. Left out: the returns for a dropped transport, and
`pending_actions`, into which nothing is ever put. The order in which a swarm
polls transport and behaviour is left open. The transport keeps its listener in an
`Option`, so there is one at a time: `Request` lets a listener be asked for when those
before it were dropped. One `poll` therefore delivers to one listener.

### CombinedEndpoint

`CombinedEndpoint.tla` extends `EndpointBehaviour` with `inner_dial` of
`combine.rs`, for the one dial the endpoint itself causes: that of the relay.
`dial1` is the normal transport's half; `dial2` is the other half, a request
made of the very same behaviour. The first half that connects drops the other
(`DialSucceeds`), also when its connection then fails to be upgraded
(`ConnectionFails`); a half that fails leaves the dial to the other (`DialFails`).
Nobody else connects to the relay in this model,
though another dial of it may be refused.

### EndpointService and Line

`EndpointService.tla` is what the endpoint promises to the swarm. A dial ends once,
one way, and never changes. A connection the relay forwards is held, and then given to
one listener or lost: to one of its address that is open at that time, behind
those given to it before, and never beyond the room there is. There is one listener
at a time, and none gets anything before it was opened or after it was closed. The
mapping reads as held what is in a handler's `pending_inbound` or in
`pending_new_connections`, and as open a listener that was asked for and not dropped.

`Line.tla` is what transport and behaviour count on of each other over the two channels
between them. A request is made once and taken once, in order; nothing is told of a
request before it was taken; what is told is heard once, in the order it was told; the
transport has one listener at a time, and one that closed stays closed. The
transport is modelled twice, from its own side with a behaviour reduced to what the
transport can tell of it (`CombineTransport`), and from the behaviour's side with a
transport reduced likewise (`EndpointBehaviour`). Both implement `Line`, each under a
mapping of its own: what either assumes of the other side is no more than `Line` allows.

### AutoRelay and Rendezvous

`AutoRelay.tla` adds to `Relay` the endpoints' side of the exchanges.
`ReceiveSuccess` is the end of the dialer's `dial_upgrade`, which may come before the
relay's own upgrade has ended. `HandlerOffers` opens the substream of an offer, and
`Accept` is the answer of the listener's `upgrade_inbound`, which goes by the peer id
alone and may come when the relay has given up. The relay's outbound upgrade ends in
success only when the endpoint has accepted (`ConnectAnswered`), and may fail before
and after.

`Rendezvous.tla` is what all of it promises. A dial that is told of success is
joined to an offer that an endpoint of the peer it named has accepted, and no
other dial is joined to that offer. The mapping reads an offer as a connect
substream (the pair of connection and request), `partner` as the connection the
relay gave the dial.

### RelayCopy, Connection and Pipe

`Connection.tla` has the two reads of a `Connection` as operators.
`RelayCopy.tla` has the copies the relay runs once a dial is joined.

| In the model | In the code |
|---|---|
| `io_copy_futures`, `ready`, `registered` | the futures, the queue of those that were woken, whether a waker is left with that queue |
| `woken`, `polling`, `current` | the swarm's task, and where `poll` stands |
| `pending_actions` | how many events `poll` has to return, after each of which it is polled again |
| `buffer[c]`, `wants[c]` | what `io::copy` has read and not written; what the copy waits for |
| `remaining_buf`, `arrived`, `state` | the read half of a side's connection |
| `room`, `received`, `closed` | its write half |
| `PollNext`, `QueueIsEmpty`, `Ends` | `try_poll_next_unpin`: a copy to poll, none left, one that ended |
| `ReadSome` ... `WriteFails` | a copy from one point where it may wait to the next |

A copy that is in the queue does not wake the task again, and the queue wakes it
once per poll. The bytes are numbered per side, so that a lost, repeated or
reordered byte shows. `Pipe.tla` is the abstract view of a direction: what was
sent comes out in order, its end after all of it and only if the sender ended.

### EndpointTransport and CombineTransport

`EndpointTransport.tla` has the actions of `endpoint/transport.rs` and, of the
behaviour, only what the transport can tell of it. `CombineTransport.tla` composes
them with a normal transport and the table of ids of `combine.rs`.

| In the model | In the code |
|---|---|
| `pending_to_behaviour`, `to_behaviour`, `from_behaviour` | the transport's queue, and what is in the two channels |
| `listener`, `receiver`, `local_addr` | the one listener, how many connections wait for it, the address it was made for |
| `Dial`, `ListenOn`, `RemoveListener` | the calls of the swarm |
| `PollNews`, `PollRest` | a poll that returns what the behaviour told, and one that gets past it |
| `Take`, `Answer`, `TellOther`, `Forward`, `Flush` | the behaviour at the other end |
| `listener_ids`, `open1`, `addr1`, `ready1` | the table; the normal transport's listeners and whether it has an event |
| `CombinedListenOn`, `CombinedRemove`, `PollFirst`, `PollSecond` | `combine.rs` |

The swarm polls the transport after every call it makes of it, so a call needs no
wake-up of its own. `listen_on` of the endpoint transport never fails, so
the combined one never leaves a listener without an id.

### MC modules

`MCRelay`, `MCAutoRelay`, `MCEndpointBehaviour`, `MCCombinedEndpoint`,
`MCRelayCopy` and `MCCombineTransport` give the constants values and define
symmetry sets. Symmetry is used in safety runs only.

In the component modules, an operator introduced as a *plausible slip* is a
variant of the operator that follows it. The specifications do not use them:
they show that each property is broken by a mistake in the code it is about.

## Runs

Passing runs:

| Run | Instance | Shows |
|---|---|---|
| `auto_relay` | 2 peers, 2 connections, 3 substreams; 871 228 states up to symmetry | `TypeOK`, `Routing`, `OneSender`, `SenderHasAttempt`, `SplicedToRequestedPeer`, `NoSharedStream`, `OnlyListenersReached`, `ImplementsRendezvous` |
| `relay_live` | 1 peer, 1 connection, 3 substreams; 57 004 states | `DialAnswered`, `ListedEventually`, `DialSpliced` |
| `endpoint_safety` | 1 dial, 2 listeners at 2 addresses, 1 forwarded connection, 2 connections; 1 333 746 states up to symmetry | `TypeOK`, `OneHolder`, `ParkedMeansConnecting`, `EstablishedIsLive`, `DeliveredToItsAddress`, `ImplementsLine`, `ImplementsService` |
| `endpoint_live` | 1 dial, 1 listener, 3 forwarded connections, 1 connection; 235 322 states | `InOnePlace`, `ForwardedInTurn`, `DialAnswered`, `ListenAnswered`, `ForwardedLeaves` |
| `combined_answered` | 1 dial, 2 dials of the relay, 1 listener, 1 forwarded connection, 1 connection; 101 497 states | `ReturnsOrWaitsForItself`, `AnsweredOrWaits` |
| `relay_copy` | 1 pair, 2 bytes a side, room for 1; 41 839 states | `TypeOK`, `QueuedIfItCanMove`, `VectoredReads`, `ImplementsPipe`, `MovesOrStalls`, `LossPassedOnIfNotSilent` |
| `transports` | 1 dial, 2 listeners, 2 ids, channels with room for 1; 380 546 states | `TypeOK`, `RequestsInOrder`, `FirstRemovable`, `ImplementsLine`, `SharedListenerKept`, `RequestsTaken`, `FailedIsDropped` |

Runs that find what the code does against its own words (see "What was found"):
`relay_wrong_addr`, `relay_copy_stalls`, `endpoint_stranded`, `combined_returns`,
`combine_listens`.

**Bounds.** Most bounds are constant sets: a connection, substream, request or
forwarded connection is used once and never again. Three substreams are one
listener and two dials that compete for its entry, the smallest case in which an
entry is overwritten while its substream is under way. Two connections let one close and
another take over, or one be recorded and one not. Channels have room for
one, so one item fills them and a second must wait. Three forwarded connections for one
listener are the fewest of which one fills its channel, the next is put back in front,
and a last one waits behind that. `MaxSent` bounds what a side
of a relayed pair sends: two bytes are enough for one to be left over by the
codec, one in the copy's buffer, and for a write that takes only part.
`MaxNews` bounds what the modelled behaviour of `CombineTransport` has to tell at
a time. `VectoredReads` is evaluated in every state for what is left over there, and for
up to `MaxSent` buffers, each with room for up to one byte more than a side sends. No other queue has a bound. `CHECK_DEADLOCK FALSE` is set
everywhere since the system may rest when nothing is left to ask.

**Fairness.** Weak, and only of what the executor or a timeout brings about: the
behaviours' polls while they have something to return, a handler's poll while it
has events, a future whose input is there, the transport's poll, and the end of an
outbound upgrade, which the swarm times out after ten seconds. Nothing makes a
client open a substream or send on it, or a connection be established or close.
In `EndpointBehaviour` the dial of the relay is assumed to end; `CombinedEndpoint`
drops that assumption, asks only that the normal transport ends its half, and
finds the case in which the dial does not. A behaviour's poll is promised only
where a waker was left: `PollRequest` and `PollOut` are the polls that pass something
on, and a poll that would only park a request is not among them, because the
poll before it left no waker with the channel (`endpoint/behaviour.rs:317`). In
`RelayCopy` only the executor is fair: a task that was woken runs, and a poll that
began goes on; the peers owe nothing. In `CombineTransport` the swarm polls the
transport, and the behaviour takes and tells; `RequestsTaken` and `FailedIsDropped`
assume in so many words that the first transport comes to rest (`FirstRests`),
since the second is polled only then.

The properties name what the code does not promise. A relay's dial whose
destination lost a connection waits for the upgrade timeout (`DialAnswered` in
`Relay`). A listen request whose connection closes may be lost in silence
(`ListenAnswered`). Once a dial of the relay has failed the endpoint waits for it
for ever (`Stranded`). A copy that ended can leave those behind it in the queue of a
sleeping task (`Stalled`). When one side of a pair breaks, the other learns of it only
once it sends or ends (`LossPassedOnIfNotSilent`).

## What was found

* `relay_wrong_addr`: of two dials of one peer at two addresses the second takes
  the first's entry, and is joined to the substream opened for the first's
  address. The first dial is told that the behaviour is dropped.
* `relay_copy_stalls`: two copies are ready and the first ends. `poll` takes one
  result and goes on to return `Pending`; the second copy stays in the queue,
  whose waker was spent, and nothing runs it until another event of the swarm.
* `endpoint_stranded`: when the dial of the relay fails, `connecting_relay` keeps
  the relay, and no later request leads to another dial.
* `combined_returns`: the relay is unreachable and the endpoint's transport is in
  a `CombineTransport`. The second half of the dial of the relay is parked until
  the relay is dialed: the dial waits for itself, never fails, and every
  request waits with it.
* `combine_listens`: `listen_on` for a second address gets a new listener from the
  normal transport and the old one from the endpoint transport, so that one id
  stands for listeners at two addresses.

Known from the models, and without a run of their own: a listener is told of
success before the behaviour knows it, so a dial that follows at once may be refused
(`relay/upgrade/inbound.rs:261`; `ListedEventually` says it does not stay so); a
connection to the relay that the behaviour did not dial is not recorded, so the next
request dials again, is refused by the swarm and fails
(`endpoint/behaviour.rs:94`); a listen request that was parked and withdrawn can be
passed on after the one that replaced it, and its dead sender takes the other's
place, which `ForwardedInTurn` allows, for no open listener is kept then
(`endpoint/behaviour.rs:350`); after the relay's connection is lost the
listener stays and nothing listens again (`endpoint/transport.rs:196`); a vectored
read panics when a buffer is longer than the bytes left over
(`connection.rs:78`), and stops with bytes left over at an empty buffer, which looks
like the end of the stream when it is the first (`connection.rs:74`). `VectoredReads`
states both as what the code does: at these buffers and at no others.

## Proofs

All theorems are about every value of the constants, under the named assumptions
of the modules: values that stand for different things differ (`None`, which stands
for an absent value, is none of those that may be there), addresses are known,
channels have room for at least one. Every invariant, action property and refinement
of the passing runs is a theorem.

`RelayProofs.tla` proves `TypeCorrect`, `RoutingCorrect`, `DialsReachTheirPeer`
(`SplicedToRequestedPeer`), `SendersHaveAttempts` (`SenderHasAttempt`) and
`ReachedPeersListen` (`OnlyListenersReached`). The inductive invariant is
`TypeOK /\ Routing /\ SplicedToRequestedPeer /\ SenderHasAttempt`. `Routing` is
the heart of it. That a dial gets a connection with its peer cannot be seen from
the step that gives it, which looks a sender up by the peer id a handler reports;
one must know that the sender under a peer id asked for that peer, and that
whatever a handler works on (its events, the upgrades that run) was
asked for the peer at the other end of its connection, which listens. Each
conjunct is preserved by a lemma of its own (`PoolStep`, `ListeningStep`,
`SenderStep`, `OpenStep`, `AttemptStep`); `QueueAdds`, `PopRemoves`,
`ChannelAdds` and `ChannelRemoves` say what the queues hold after a step.

`RelayOnceProofs.tla` proves that nothing in the relay is ever in two places.
`DialsAnsweredOnce` (`OneSender`) needs `SenderInOnePlace`: a sender is in the channel
once, or under one peer id, and in neither before its dial was read. Otherwise a
dial that displaces another under their peer id could drop its own sender.
`StreamsServeOneDial` (`NoSharedStream`) needs `AttemptInOnePlace`: what the
behaviour starts for a dial is one event of one handler or one upgrade, none before
the sender has left the channel, and none once the stream it brought is given away.
That stream need not go to the dial it was opened for, so `NoSharedStream` does not
follow from there being one attempt per dial: the attempt ends in the very step
that gives its stream away. `SuccessesHaveStreams` says that an answer is a connection
exactly when the dial was given a stream, and no success is sent before.

`EndpointBehaviourProofs.tla` proves `TypeCorrect`, `ParkedRequestsWait`
(`ParkedMeansConnecting`), `EstablishedConnectionsLive` (`EstablishedIsLive`),
`ListenersGetTheirOwn` (`DeliveredToItsAddress`) and `ForwardedKeepTheirTurn`
(`ForwardedInTurn`). The inductive invariant adds to these the two things it takes
from the transport and the channels, one open listener and no more in a channel than
it has room for (`OneOpenListener`, `ChannelsBounded`), and two facts. Whatever is queued, parked, upgraded, kept or
told of is a request that was made (`InFlight(Requested)`): otherwise a sender
kept under an address could belong to a listener yet to come, and two open ones
could be kept. And a sender is kept under its own address (`KeptByAddress`).
`DeliverInTurn` is the step behind `ForwardedInTurn`: what a poll takes from the front
is in the listener's channel or has no open listener, and what it puts back stays
in front, however many came meanwhile and whatever the capacity.

It also proves `BehaviourKeepsTheLine` (`ImplementsLine`). `LineInv` adds that no request is
in the channel twice and that what the behaviour keeps, parks or tells is about
requests it has taken (`Taken`), not only about requests that were made: so nothing can
be told of a request before it was taken. The lemmas about what is in flight are stated
for any set of requests and serve both invariants. `Tells` says that a step only appends
to what the transport has yet to hear, which `FlushTells` proves for the step that
moves some of it into the channel.

`EndpointOnceProofs.tla` proves the two properties that count: `DialsHeldOnce`
(`OneHolder`) and `ForwardedOnce` (`InOnePlace`). The invariants, `AllHeld` and
`AllFollowed`, say the same without numbers: in each queue, family of queues or
set of upgrades a value is absent or there once, and it is once in one of them at
most. `Appended`, `TakenOff`, `Joined`, `Parted` and `Replaced` say what that
becomes when a queue gets an element, loses its first, is joined to another or cut,
or takes another's place among many; with them each step is a case distinction over
the places. `Counted` and `CountedInAll` lead back to cardinalities. `AllHeld` is stated
of the dials that are answered too, which are nowhere: a dial that is parked when
another part of the program's dial fails is answered there and could be answered
again if it were left anywhere else.

From all of these together follows `EndpointServes` (`ImplementsService`): every step is one
of the service's or none. That a dial ends once is `AnsweredOnce`, and rests on `AllHeld`: a
dial that is answered is nowhere, so no step finds a sender to answer. `DeliverGives` is
the step that gives: what a poll hands to the listener held each connection once
(`AllFollowed`), is left nowhere else, and is for the address the sender is kept under
(`KeptByAddress`), whose listener is the open one (`OneKept`). `GivenToRequested` is
needed for the listener's side, which may then receive only when it is open.

`CombinedEndpointProofs.tla` proves `CombinedImplementsEndpoint`: every step
behind a `CombineTransport` is a step of `EndpointBehaviour`, so its safety
theorems carry over, as `CombinedListenersGetTheirOwn`, `CombinedDialsHeldOnce` and
`CombinedServes` do for three of them.

`AutoRelayProofs.tla` proves the same of the relay with the endpoints at its
ends: `AutoImplementsRelay`, and with it `AutoDialsReachTheirPeer`. And it proves
`AutoImplementsRendezvous` (`ImplementsRendezvous`), step by step: the dialer's
`ReceiveSuccess` is the abstract step that joins, the listener's `Accept` the one that
accepts, all others stutter. The invariant is that of `RelayOnceProofs` with
`Offers`: an upgrade that the relay reports as a success was accepted. That the
offer is of the peer named is `SplicedToRequestedPeer`, that no other dial has it
`NoSharedStream`, that there is one at all `SuccessHasStream`.

`RelayCopyProofs.tla` proves `TypeCorrect`, `NoWakeUpIsLost` (`QueuedIfItCanMove`)
and `CopiesArePipes` (`ImplementsPipe`). The first needs that the queue holds copies
that run, each once, and not the one that is polled (`QueueTyped`), and that a copy
that waits is neither queued nor polled (`WaitersApart`), so that waking it keeps the
queue so. No wake-up is lost because a copy that waits waits for what it
cannot do (`WaitersAtRest`), and one that runs is queued, polled or waits (`Attended`):
each event of a substream that changes the former wakes the copy. For the
pipe, what a side has sent is at any time what was received, what the copy
holds, what the codec left over and what has arrived, joined in this order
(`Whole`): a step of the copy moves the border between two of them. An end comes after
everything because a copy whose target was closed has ended (`ClosedDone`).

`VectoredReadsFillFromTheFront` is about `Connection` alone: for any number of buffers of
any lengths a vectored read fills them from the front with the bytes a plain one gives
and keeps the others, up to an empty buffer, where it stops, or one longer than what is
left, where it panics (`VectoredReadFills`). `VectoredReadsAlways` (`VectoredReads`) follows.
The loop
over the buffers is a recursive function, `Turns`; that it and `Rooms` are defined
for every number of turns (`TurnsExist`, `RoomsExist`) and what holds after each
(`TurnsFill`) is by induction, which `UpToAll` provides for sets of numbers: a set
that has 0 and with each number the next has no least number missing. (The induction
theorems of the library take an operator, which the provers cannot instantiate; the
set of the turns after which something holds is a value.)

`CombineTransportProofs.tla` proves `RequestsStayInOrder` (`RequestsInOrder`) and
`OpenListenersRemovable` (`FirstRemovable`). For the first the invariant also bounds
the channel by its capacity, without which the number of requests that fit
could be negative; `MovedPrefix` says that a prefix moved from one queue to the
end of the next leaves their concatenation alone, whatever its length. For
the second, that the table and the listeners are about the ids there are.
`TypeCorrect` (`TypeOK`) and `SharedListenersKept` (`SharedListenerKept`, an action
property) rest on `ToldTruly`: news of a failure in either queue is of a listener
whose request failed (`Truths`), though it may be older than the listener
there is. With that, `WhyListenerGoes` goes through the steps that change the listener.
`TransportKeepsTheLine` (`ImplementsLine`) needs that no request is made twice (`MadeOnce`),
which makes one that was taken differ from all that are on their way (`TakenOnce`), and
that a call adds to the end of the line however it finds the queue and the channel
(`PushAsks`). A poll reads several pieces of news at once; `FirstsGone` and `TellBehaves`
say what that does to the line.

Only model-checked: everything that is about progress (`DialAnswered`, `ListenAnswered`, `ListedEventually`, `DialSpliced`,
`ForwardedLeaves`, `ReturnsOrWaitsForItself`, `AnsweredOrWaits`, `MovesOrStalls`,
`LossPassedOnIfNotSilent`, `RequestsTaken`, `FailedIsDropped`), because fairness and
`ENABLED` are out of its reach.

## Not modelled

The bytes on the wire and how messages are parsed; error texts and logging;
address translation; several relays behind one behaviour, which `Transport::new`
does not build; a transport or behaviour that is dropped while the other lives;
what the swarm makes of the events it is returned, the ids they carry included.
`lib.rs` and the `mod.rs` files have no state.

## Plan

Done: `Relay`, `AutoRelay`, `RelayCopy`, `EndpointBehaviour`, `CombinedEndpoint`,
`EndpointTransport`, `CombineTransport`, the abstract `Rendezvous`, `Pipe`, `Line` and
`EndpointService`, and the proofs listed above, with which every invariant, action property
and refinement of the runs is a theorem. Left:

1. The safety half of the progress properties: the invariants that say on which step
   a dial, a listener or a copy that waits depends.
2. A swarm that acts on the ids in the events it is returned (`combine.rs:172`).
