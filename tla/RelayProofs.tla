---------------------------- MODULE RelayProofs -----------------------------
(***************************************************************************)
(* Theorems about Relay, for any number of peers, connections, substreams  *)
(* and dials.                                                              *)
(***************************************************************************)
EXTENDS Relay, TLAPS

(***************************************************************************)
(* What Queue and Pop do to the events of the handlers.                    *)
(***************************************************************************)

\* Queue adds one event, at one connection (push_back, relay/handler.rs:160).
LEMMA QueueAdds ==
  ASSUME pending_events \in [Conns -> Seq(Events)],
         NEW c \in Conns, NEW type \in Types, NEW s \in Streams,
         Queue(c, type, s)
  PROVE  /\ pending_events' \in [Conns -> Seq(Events)]
         /\ \A d \in Conns, t \in Types, x \in Streams :
              Queued(d, t, x)' <=> \/ Queued(d, t, x)
                                   \/ d = c /\ t = type /\ x = s
<1> DEFINE e == [type |-> type, stream |-> s]
<1>1. e \in Events
  BY DEF Events
<1>2. pending_events' = [pending_events EXCEPT ![c] = Append(@, e)]
  BY DEF Queue
<1>3. /\ Append(pending_events[c], e) \in Seq(Events)
      /\ Len(Append(pending_events[c], e)) = Len(pending_events[c]) + 1
      /\ \A i \in 1..Len(pending_events[c]) :
           Append(pending_events[c], e)[i] = pending_events[c][i]
      /\ Append(pending_events[c], e)[Len(pending_events[c]) + 1] = e
  BY <1>1
<1>4. pending_events' \in [Conns -> Seq(Events)]
  BY <1>2, <1>3
<1>5. ASSUME NEW d \in Conns, NEW t \in Types, NEW x \in Streams, d # c
      PROVE  Queued(d, t, x)' <=> Queued(d, t, x)
  BY <1>2, <1>5 DEF Queued
<1>6. ASSUME NEW t \in Types, NEW x \in Streams
      PROVE  Queued(c, t, x)' <=> Queued(c, t, x) \/ (t = type /\ x = s)
  <2>1. pending_events'[c] = Append(pending_events[c], e)
    BY <1>2
  <2>2. Len(pending_events[c]) \in Nat
    OBVIOUS
  <2>3. ASSUME Queued(c, t, x)
        PROVE  Queued(c, t, x)'
    BY <2>1, <2>2, <2>3, <1>3 DEF Queued
  <2>4. ASSUME t = type, x = s
        PROVE  Queued(c, t, x)'
    <3>1. Len(pending_events[c]) + 1 \in 1..Len(pending_events'[c])
      BY <2>1, <2>2, <1>3
    <3> QED BY <3>1, <2>1, <2>4, <1>3 DEF Queued
  <2>5. ASSUME Queued(c, t, x)', ~ Queued(c, t, x)
        PROVE  t = type /\ x = s
    <3>1. PICK i \in 1..Len(pending_events'[c]) :
            pending_events'[c][i] = [type |-> t, stream |-> x]
      BY <2>5 DEF Queued
    <3>2. i = Len(pending_events[c]) + 1
      BY <3>1, <2>1, <2>2, <2>5, <1>3 DEF Queued
    <3>3. [type |-> t, stream |-> x] = e
      BY <3>1, <3>2, <2>1, <1>3
    <3>4. [type |-> t, stream |-> x].type = type /\ [type |-> t, stream |-> x].stream = s
      BY <3>3
    <3> QED BY <3>4
  <2> QED BY <2>3, <2>4, <2>5
<1> QED BY <1>4, <1>5, <1>6

\* Pop takes one event, and leaves the others (pop_front, relay/handler.rs:112).
LEMMA PopRemoves ==
  ASSUME pending_events \in [Conns -> Seq(Events)],
         NEW c \in Conns, NEW type \in Types, NEW s \in Streams,
         Pop(c, type, s)
  PROVE  /\ Queued(c, type, s)
         /\ pending_events' \in [Conns -> Seq(Events)]
         /\ \A d \in Conns, t \in Types, x \in Streams :
              /\ Queued(d, t, x)' => Queued(d, t, x)
              /\ Queued(d, t, x) => \/ Queued(d, t, x)'
                                    \/ d = c /\ t = type /\ x = s
<1> DEFINE q == pending_events[c]
<1>1. /\ pending_events' = [pending_events EXCEPT ![c] = Tail(q)]
      /\ q # <<>>
      /\ q[1] = [type |-> type, stream |-> s]
  BY DEF Pop
<1>2. q \in Seq(Events) /\ Len(q) \in Nat \ {0}
  BY <1>1
<1>3. /\ Tail(q) \in Seq(Events)
      /\ Len(Tail(q)) = Len(q) - 1
      /\ \A i \in 1..(Len(q) - 1) : Tail(q)[i] = q[i + 1]
  BY <1>1, <1>2
<1>4. pending_events' \in [Conns -> Seq(Events)]
  BY <1>1, <1>3
<1>5. Queued(c, type, s)
  BY <1>1, <1>2 DEF Queued
<1>6. ASSUME NEW d \in Conns, NEW t \in Types, NEW x \in Streams, d # c
      PROVE  Queued(d, t, x)' <=> Queued(d, t, x)
  BY <1>1, <1>6 DEF Queued
<1>7. ASSUME NEW t \in Types, NEW x \in Streams
      PROVE  /\ Queued(c, t, x)' => Queued(c, t, x)
             /\ Queued(c, t, x) => Queued(c, t, x)' \/ (t = type /\ x = s)
  <2>1. pending_events'[c] = Tail(q)
    BY <1>1
  <2>2. ASSUME Queued(c, t, x)'
        PROVE  Queued(c, t, x)
    <3>1. PICK i \in 1..(Len(q) - 1) : Tail(q)[i] = [type |-> t, stream |-> x]
      BY <2>1, <2>2, <1>3 DEF Queued
    <3>2. i + 1 \in 1..Len(q) /\ q[i + 1] = [type |-> t, stream |-> x]
      BY <3>1, <1>2, <1>3
    <3> QED BY <3>2 DEF Queued
  <2>3. ASSUME Queued(c, t, x), ~ (t = type /\ x = s)
        PROVE  Queued(c, t, x)'
    <3>1. PICK i \in 1..Len(q) : q[i] = [type |-> t, stream |-> x]
      BY <2>3 DEF Queued
    <3>2. [type |-> t, stream |-> x] # [type |-> type, stream |-> s]
      <4>1. [type |-> t, stream |-> x].type = t /\ [type |-> t, stream |-> x].stream = x
        OBVIOUS
      <4>2. /\ [type |-> type, stream |-> s].type = type
            /\ [type |-> type, stream |-> s].stream = s
        OBVIOUS
      <4> QED BY <4>1, <4>2, <2>3
    <3>3. i # 1
      BY <3>1, <3>2, <1>1
    <3>4. i - 1 \in 1..(Len(q) - 1) /\ Tail(q)[i - 1] = q[i]
      BY <3>1, <3>3, <1>2, <1>3
    <3> QED BY <3>1, <3>4, <2>1, <1>3 DEF Queued
  <2> QED BY <2>2, <2>3
<1> QED BY <1>4, <1>5, <1>6, <1>7

(***************************************************************************)
(* What a step does to the behaviour's channel of connect requests.        *)
(***************************************************************************)

\* Sending a request puts it in the channel (relay/upgrade/inbound.rs:117).
LEMMA ChannelAdds ==
  ASSUME connect_requests \in Seq(Streams), NEW s \in Streams,
         connect_requests' = Append(connect_requests, s)
  PROVE  /\ connect_requests' \in Seq(Streams)
         /\ \A x \in Streams : InChannel(x)' <=> InChannel(x) \/ x = s
<1>1. /\ Append(connect_requests, s) \in Seq(Streams)
      /\ Len(Append(connect_requests, s)) = Len(connect_requests) + 1
      /\ \A i \in 1..Len(connect_requests) :
           Append(connect_requests, s)[i] = connect_requests[i]
      /\ Append(connect_requests, s)[Len(connect_requests) + 1] = s
      /\ Len(connect_requests) \in Nat
  OBVIOUS
<1>2. ASSUME NEW x \in Streams, InChannel(x)
      PROVE  InChannel(x)'
  BY <1>1, <1>2 DEF InChannel
<1>3. InChannel(s)'
  <2>1. Len(connect_requests) + 1 \in 1..Len(connect_requests')
    BY <1>1
  <2> QED BY <2>1, <1>1 DEF InChannel
<1>4. ASSUME NEW x \in Streams, InChannel(x)', ~ InChannel(x)
      PROVE  x = s
  BY <1>1, <1>4 DEF InChannel
<1> QED BY <1>1, <1>2, <1>3, <1>4

\* Receiving one takes it out of the channel (relay/behaviour.rs:201).
LEMMA ChannelRemoves ==
  ASSUME connect_requests \in Seq(Streams), connect_requests # <<>>,
         connect_requests' = Tail(connect_requests)
  PROVE  /\ connect_requests' \in Seq(Streams)
         /\ Head(connect_requests) \in Streams
         /\ InChannel(Head(connect_requests))
         /\ \A x \in Streams :
              /\ InChannel(x)' => InChannel(x)
              /\ InChannel(x) => InChannel(x)' \/ x = Head(connect_requests)
<1> DEFINE q == connect_requests
<1>1. /\ Tail(q) \in Seq(Streams)
      /\ Len(q) \in Nat \ {0}
      /\ Len(Tail(q)) = Len(q) - 1
      /\ \A i \in 1..(Len(q) - 1) : Tail(q)[i] = q[i + 1]
      /\ Head(q) = q[1] /\ q[1] \in Streams
  OBVIOUS
<1>2. InChannel(Head(q))
  BY <1>1 DEF InChannel
<1>3. ASSUME NEW x \in Streams, InChannel(x)'
      PROVE  InChannel(x)
  <2>1. PICK i \in 1..(Len(q) - 1) : Tail(q)[i] = x
    BY <1>1, <1>3 DEF InChannel
  <2>2. i + 1 \in 1..Len(q) /\ q[i + 1] = x
    BY <2>1, <1>1
  <2> QED BY <2>2 DEF InChannel
<1>4. ASSUME NEW x \in Streams, InChannel(x), x # Head(q)
      PROVE  InChannel(x)'
  <2>1. PICK i \in 1..Len(q) : q[i] = x
    BY <1>4 DEF InChannel
  <2>2. i - 1 \in 1..(Len(q) - 1) /\ Tail(q)[i - 1] = x
    BY <2>1, <1>1, <1>4
  <2> QED BY <2>2, <1>1 DEF InChannel
<1> QED BY <1>1, <1>2, <1>3, <1>4

(***************************************************************************)
(* A substream is opened once: what it carries is fixed from then on, and  *)
(* a listener that was told of success stays told.                         *)
(***************************************************************************)
LEMMA Frozen ==
  ASSUME VarsTyped, [Next]_vars, NEW s \in Streams
  PROVE  /\ Opened(s) => Opened(s)' /\ request'[s] = request[s]
         /\ IsDial(s) => IsDial(s)'
         /\ Listened(s) => Listened(s)'
<1> USE DEF VarsTyped, Opened, IsDial, Listened
<1>1. ASSUME NEW t \in Streams, NEW r \in Request, Open(t, r)
      PROVE  /\ Opened(s) => Opened(s)' /\ request'[s] = request[s]
             /\ Listened(s) => Listened(s)'
  BY <1>1 DEF Open
<1>2. ASSUME NEW c \in Conns, Close(c)
      PROVE  /\ Opened(s) => Opened(s)' /\ request'[s] = request[s]
             /\ Listened(s) => Listened(s)'
  BY <1>2 DEF Close, Running
<1>3. ASSUME NEW t \in Streams,
             ReceiveDialRequest(t) \/ ReceiveListenRequest(t) \/ ResumeDial(t)
               \/ Respond(t) \/ UpgradeFails(t)
      PROVE  /\ Opened(s) => Opened(s)' /\ request'[s] = request[s]
             /\ Listened(s) => Listened(s)'
  BY <1>3 DEF ReceiveDialRequest, ReceiveListenRequest, ResumeDial, Respond,
              UpgradeFails, Running
<1>4. CASE UNCHANGED <<request, inbound>>
  BY <1>4
<1>5. CASE Next
  <2>1. ASSUME NEW c \in Conns, NEW p \in Peers, Establish(c, p)
        PROVE  UNCHANGED <<request, inbound>>
    BY <2>1 DEF Establish, upgradeVars
  <2>2. ASSUME NEW c \in Conns, NEW t \in Streams, ConnectEnds(c, t)
        PROVE  UNCHANGED <<request, inbound>>
    BY <2>2 DEF ConnectEnds, upgradeVars
  <2>3. ASSUME NEW c \in Conns, HandlerPoll(c)
        PROVE  UNCHANGED <<request, inbound>>
    BY <2>3 DEF HandlerPoll, HandlerPollConnect, OnDialSuccess, OnConnectSuccess,
                OnConnectFailed, OnListenSuccess, OnListenOrDialFailed, upgradeVars
  <2>4. ASSUME Poll \/ PollPending
        PROVE  UNCHANGED <<request, inbound>>
    BY <2>4 DEF Poll, PollRefuse, PollForward, PollEmit, PollPending, upgradeVars
  <2> QED BY <1>1, <1>2, <1>3, <1>4, <1>5, <2>1, <2>2, <2>3, <2>4 DEF Next
<1>6. CASE UNCHANGED vars
  BY <1>4, <1>6 DEF vars, upgradeVars
<1> QED BY <1>5, <1>6

(***************************************************************************)
(* Type correctness.                                                       *)
(***************************************************************************)
LEMMA TypeInit == Init => TypeOK
<1> SUFFICES ASSUME Init PROVE VarsTyped /\ DialsOnly
  BY DEF TypeOK
<1>1. VarsTyped
  BY DEF Init, VarsTyped, Phases, Answers
<1>2. /\ \A s \in Streams : ~ Opened(s)
      /\ \A s \in Streams : ~ InChannel(s)
      /\ \A c \in Conns, type \in Types, s \in Streams : ~ Queued(c, type, s)
  BY DEF Init, Opened, InChannel, Queued
<1>3. DialsOnly
  BY <1>2 DEF Init, DialsOnly
<1> QED BY <1>1, <1>3

LEMMA TypeStep == TypeOK /\ [Next]_vars => TypeOK'
<1> SUFFICES ASSUME TypeOK, [Next]_vars PROVE VarsTyped' /\ DialsOnly'
  BY DEF TypeOK
<1> USE NoneIsFresh
<1>a. VarsTyped /\ DialsOnly
  BY DEF TypeOK
<1>b. \A s \in Streams : /\ Opened(s) => Opened(s)' /\ request'[s] = request[s]
                         /\ IsDial(s) => IsDial(s)'
  BY <1>a, Frozen
<1>c. \A s \in Streams : Opened(s) => request[s] \in Request /\ request[s].conn \in Conns
                                        /\ request[s].peer \in Peers
  BY <1>a DEF DialsOnly, Request
<1>1. ASSUME NEW c \in Conns, NEW p \in Peers, Establish(c, p)
      PROVE  VarsTyped' /\ DialsOnly'
  <2>1. VarsTyped'
    BY <1>1, <1>a DEF Establish, upgradeVars, handlerVars, behaviourVars, VarsTyped
  <2>2. DialsOnly'
    BY <1>1, <1>a DEF Establish, upgradeVars, handlerVars, behaviourVars, DialsOnly,
       Opened, IsDial, InChannel, Queued
  <2> QED BY <2>1, <2>2
<1>2. ASSUME NEW c \in Conns, Close(c)
      PROVE  VarsTyped' /\ DialsOnly'
  <2>1. VarsTyped'
    BY <1>2, <1>a DEF Close, behaviourVars, VarsTyped, Phases
  <2>2. \A d \in Conns, type \in Types, s \in Streams :
          Queued(d, type, s)' => Queued(d, type, s)
    BY <1>2, <1>a DEF Close, Queued, VarsTyped
  <2>3. \A s \in Streams : Opened(s)' => Opened(s)
    BY <1>2, <1>a DEF Close, Opened, Running, VarsTyped
  <2>4. /\ upgrading' \subseteq upgrading
        /\ UNCHANGED <<request, connect_requests, connecting_requests, io_copy_futures>>
    BY <1>2 DEF Close, behaviourVars
  <2>5. \A s \in Streams : InChannel(s)' <=> InChannel(s)
    BY <2>4 DEF InChannel
  <2>6. DialsOnly'
    BY <2>2, <2>3, <2>4, <2>5, <1>a, <1>b DEF DialsOnly, VarsTyped, Copies
  <2> QED BY <2>1, <2>6
<1>3. ASSUME NEW s \in Streams, NEW r \in Request, Open(s, r)
      PROVE  VarsTyped' /\ DialsOnly'
  <2>1. VarsTyped'
    BY <1>3, <1>a DEF Open, poolVars, handlerVars, behaviourVars, VarsTyped, Phases
  <2>2. \A x \in Streams : InChannel(x)' <=> InChannel(x)
    BY <1>3 DEF Open, behaviourVars, InChannel
  <2>3. \A d \in Conns, type \in Types, x \in Streams :
          Queued(d, type, x)' <=> Queued(d, type, x)
    BY <1>3 DEF Open, handlerVars, Queued
  <2>4. \A x \in Streams : Opened(x)' => request'[x] \in Request
    BY <1>3, <1>a DEF Open, Opened, VarsTyped, DialsOnly
  <2>5. UNCHANGED <<upgrading, connecting_requests, io_copy_futures>>
    BY <1>3 DEF Open, handlerVars, behaviourVars
  <2>6. DialsOnly'
    BY <2>2, <2>3, <2>4, <2>5, <1>a, <1>b DEF DialsOnly, VarsTyped, Copies
  <2> QED BY <2>1, <2>6
<1>4. ASSUME NEW s \in Streams, ReceiveDialRequest(s)
      PROVE  VarsTyped' /\ DialsOnly'
  <2>1. \A x \in Streams : InChannel(x)' <=> InChannel(x) \/ x = s
    BY <1>4, <1>a, ChannelAdds DEF ReceiveDialRequest, VarsTyped
  <2>2. connect_requests' \in Seq(Streams)
    BY <1>4, <1>a, ChannelAdds DEF ReceiveDialRequest, VarsTyped
  <2>3. VarsTyped'
    BY <1>4, <1>a, <2>2 DEF ReceiveDialRequest, poolVars, handlerVars, VarsTyped, Phases
  <2>4. IsDial(s)
    BY <1>4 DEF ReceiveDialRequest, IsDial, Opened
  <2>5. \A x \in Streams : Opened(x)' => Opened(x)
    BY <1>4, <1>a DEF ReceiveDialRequest, Opened, VarsTyped
  <2>6. \A d \in Conns, type \in Types, x \in Streams :
          Queued(d, type, x)' <=> Queued(d, type, x)
    BY <1>4 DEF ReceiveDialRequest, handlerVars, Queued
  <2>7. UNCHANGED <<request, upgrading, connecting_requests, io_copy_futures>>
    BY <1>4 DEF ReceiveDialRequest, handlerVars
  <2>8. DialsOnly'
    BY <2>1, <2>4, <2>5, <2>6, <2>7, <1>a, <1>b DEF DialsOnly, VarsTyped, Copies
  <2> QED BY <2>3, <2>8
<1>5. ASSUME NEW s \in Streams, ReceiveListenRequest(s)
      PROVE  VarsTyped' /\ DialsOnly'
  <2>1. VarsTyped'
    BY <1>5, <1>a DEF ReceiveListenRequest, poolVars, handlerVars, behaviourVars,
       VarsTyped, Phases
  <2>2. DialsOnly'
    BY <1>5, <1>a DEF ReceiveListenRequest, handlerVars, behaviourVars, VarsTyped,
       DialsOnly, Opened, IsDial, InChannel, Queued, Copies
  <2> QED BY <2>1, <2>2
\* The rest of an inbound upgrade: it queues at most one event of its own.
<1>6. ASSUME NEW s \in Streams, ResumeDial(s) \/ Respond(s) \/ UpgradeFails(s)
      PROVE  VarsTyped' /\ DialsOnly'
  <2>1. /\ Opened(s)
        /\ inbound' \in [Streams -> Phases]
        /\ \A x \in Streams : Opened(x)' => Opened(x)
        /\ UNCHANGED <<poolVars, request, oneshot, connection, upgrading, behaviourVars>>
    BY <1>6, <1>a DEF ResumeDial, Respond, UpgradeFails, Opened, Running, Phases, VarsTyped
  <2>2. \/ UNCHANGED pending_events
        \/ Queue(request[s].conn, "failed", s)
        \/ IsDial(s) /\ Queue(request[s].conn, "dial_success", s)
        \/ Queue(request[s].conn, "listen_success", s)
    BY <1>6, <2>1 DEF ResumeDial, Respond, UpgradeFails, IsDial
  <2>3. /\ pending_events' \in [Conns -> Seq(Events)]
        /\ \A d \in Conns, type \in Types, x \in Streams :
             Queued(d, type, x)' =>
               \/ Queued(d, type, x)
               \/ x = s /\ type \in {"failed", "listen_success"}
               \/ x = s /\ IsDial(s)
    <3>1. request[s].conn \in Conns
      BY <2>1, <1>c
    <3>2. CASE UNCHANGED pending_events
      BY <3>2, <1>a DEF VarsTyped, Queued
    <3>3. ASSUME NEW t \in Types, Queue(request[s].conn, t, s)
          PROVE  /\ pending_events' \in [Conns -> Seq(Events)]
                 /\ \A d \in Conns, type \in Types, x \in Streams :
                      Queued(d, type, x)' => Queued(d, type, x) \/ (type = t /\ x = s)
      BY <3>1, <3>3, <1>a, QueueAdds DEF VarsTyped
    <3>4. {"failed", "listen_success", "dial_success"} \subseteq Types
      BY DEF Types
    <3> QED BY <2>2, <3>2, <3>3, <3>4
  <2>4. VarsTyped'
    BY <2>1, <2>3, <1>a DEF VarsTyped, poolVars, behaviourVars
  <2>5. \A x \in Streams : InChannel(x)' <=> InChannel(x)
    BY <2>1 DEF InChannel, behaviourVars
  <2>6. DialsOnly'
    BY <2>1, <2>3, <2>5, <1>a, <1>b DEF DialsOnly, VarsTyped, behaviourVars, Copies
  <2> QED BY <2>4, <2>6
<1>7. ASSUME NEW c \in Conns, NEW s \in Streams, ConnectEnds(c, s)
      PROVE  VarsTyped' /\ DialsOnly'
  <2>1. IsDial(s) /\ Opened(s)
    BY <1>7, <1>a DEF ConnectEnds, DialsOnly, IsDial
  <2>2. PICK t \in {"connect_success", "connect_failed"} : Queue(c, t, s)
    BY <1>7 DEF ConnectEnds
  <2>3. /\ pending_events' \in [Conns -> Seq(Events)]
        /\ \A d \in Conns, type \in Types, x \in Streams :
             Queued(d, type, x)' => Queued(d, type, x) \/ x = s
    <3>1. t \in Types
      BY DEF Types
    <3> QED BY <2>2, <3>1, <1>a, QueueAdds DEF VarsTyped
  <2>4. /\ upgrading' \subseteq upgrading
        /\ UNCHANGED <<poolVars, upgradeVars, behaviourVars>>
    BY <1>7 DEF ConnectEnds
  <2>5. VarsTyped'
    BY <2>3, <2>4, <1>a DEF VarsTyped, poolVars, upgradeVars, behaviourVars
  <2>6. /\ \A x \in Streams : InChannel(x)' <=> InChannel(x)
        /\ \A x \in Streams : Opened(x)' <=> Opened(x)
    BY <2>4 DEF InChannel, behaviourVars, Opened, upgradeVars
  <2>7. DialsOnly'
    BY <2>1, <2>3, <2>4, <2>6, <1>a, <1>b
       DEF DialsOnly, VarsTyped, behaviourVars, upgradeVars, Copies
  <2> QED BY <2>5, <2>7
\* A handler event is taken; only OnDialSuccess and HandlerPollConnect start
\* something with its dial.
<1>8. ASSUME NEW c \in Conns, HandlerPoll(c)
      PROVE  VarsTyped' /\ DialsOnly'
  <2>1. PICK s \in Streams : \/ HandlerPollConnect(c, s) \/ OnDialSuccess(c, s)
                             \/ OnConnectSuccess(c, s)   \/ OnConnectFailed(c, s)
                             \/ OnListenSuccess(c, s)    \/ OnListenOrDialFailed(c, s)
    BY <1>8 DEF HandlerPoll
  <2>2. PICK t \in Types : Pop(c, t, s)
    BY <2>1 DEF Types, HandlerPollConnect, OnDialSuccess, OnConnectSuccess,
                OnConnectFailed, OnListenSuccess, OnListenOrDialFailed
  <2>3. /\ pending_events' \in [Conns -> Seq(Events)]
        /\ \A d \in Conns, type \in Types, x \in Streams :
             Queued(d, type, x)' => Queued(d, type, x)
        /\ Queued(c, t, s)
    BY <2>2, <1>a, PopRemoves DEF VarsTyped
  <2>4. Opened(s) /\ request[s].peer \in Peers
    BY <2>3, <1>a, <1>c DEF DialsOnly, IsDial
  <2>5. UNCHANGED <<poolVars, request, inbound, connect_requests>>
    BY <2>1 DEF HandlerPollConnect, OnDialSuccess, OnConnectSuccess, OnConnectFailed,
       OnListenSuccess, OnListenOrDialFailed, upgradeVars, behaviourVars
  <2>6. /\ \A x \in Streams : InChannel(x)' <=> InChannel(x)
        /\ \A x \in Streams : Opened(x)' <=> Opened(x)
    BY <2>5 DEF InChannel, Opened
  <2>7. SUFFICES /\ oneshot' \in [Streams -> Answers]
                 /\ connection' \in [Streams -> (Conns \X Streams) \cup {None}]
                 /\ upgrading' \subseteq Conns \X Streams
                 /\ \A u \in upgrading' : IsDial(u[2])
                 /\ listening_clients' \subseteq Peers
                 /\ connecting_requests' \in [Peers -> Streams \cup {None}]
                 /\ \A p \in Peers : connecting_requests'[p] \in {connecting_requests[p], None}
                 /\ io_copy_futures' \subseteq Copies
                 /\ \A f \in io_copy_futures' : IsDial(f[1])
                 /\ pending_actions' \in Seq(Actions)
    <3>1. VarsTyped'
      BY <2>3, <2>5, <2>7, <1>a DEF VarsTyped, poolVars
    <3>2. DialsOnly'
      BY <2>3, <2>5, <2>6, <2>7, <1>a, <1>b DEF DialsOnly, VarsTyped, Copies
    <3> QED BY <3>1, <3>2
  <2> USE DEF VarsTyped, DialsOnly
  <2>8. CASE HandlerPollConnect(c, s)
    <3>1. IsDial(s)
      <4>1. Pop(c, "connect", s) /\ "connect" \in Types
        BY <2>8 DEF HandlerPollConnect, Types
      <4>2. Queued(c, "connect", s)
        BY <4>1, <1>a, PopRemoves
      <4> QED BY <4>1, <4>2, <1>a
    <3> QED BY <2>8, <3>1, <1>a DEF HandlerPollConnect, upgradeVars, behaviourVars
  <2>9. CASE OnDialSuccess(c, s)
    <3>1. IsDial(s)
      <4>1. Pop(c, "dial_success", s) /\ "dial_success" \in Types
        BY <2>9 DEF OnDialSuccess, Types
      <4>2. Queued(c, "dial_success", s)
        BY <4>1, <1>a, PopRemoves
      <4> QED BY <4>1, <4>2, <1>a
    <3> QED BY <2>9, <3>1, <1>a DEF OnDialSuccess, upgradeVars, Copies, Actions
  <2>10. CASE OnConnectSuccess(c, s)
    <3> DEFINE d == connecting_requests[request[s].peer]
    <3>1. d = None \/ d \in Streams
      BY <2>4, <1>a
    <3>2. oneshot' \in [Streams -> Answers]
      BY <2>10, <3>1, <1>a DEF OnConnectSuccess, Send, Answers
    <3>3. connection' \in [Streams -> (Conns \X Streams) \cup {None}]
      <4>1. connection' \in {connection, [connection EXCEPT ![d] = <<c, s>>]}
        BY <2>10 DEF OnConnectSuccess
      <4>2. <<c, s>> \in (Conns \X Streams) \cup {None}
        OBVIOUS
      <4> QED BY <4>1, <4>2, <1>a
    <3>4. /\ connecting_requests' \in [Peers -> Streams \cup {None}]
          /\ \A p \in Peers : connecting_requests'[p] \in {connecting_requests[p], None}
      BY <2>10, <1>a DEF OnConnectSuccess
    <3> QED BY <2>10, <3>2, <3>3, <3>4, <1>a DEF OnConnectSuccess
  <2>11. CASE OnConnectFailed(c, s)
    <3>1. oneshot' \in [Streams -> Answers]
      BY <2>11, <1>a DEF OnConnectFailed, Send, Answers
    <3>2. /\ connecting_requests' \in [Peers -> Streams \cup {None}]
          /\ \A p \in Peers : connecting_requests'[p] \in {connecting_requests[p], None}
      BY <2>11, <1>a DEF OnConnectFailed
    <3> QED BY <2>11, <3>1, <3>2, <1>a DEF OnConnectFailed
  <2>12. CASE OnListenSuccess(c, s)
    BY <2>12, <2>4, <1>a DEF OnListenSuccess, upgradeVars, Actions
  <2>13. CASE OnListenOrDialFailed(c, s)
    BY <2>13, <1>a DEF OnListenOrDialFailed, upgradeVars, Actions
  <2> QED BY <2>1, <2>8, <2>9, <2>10, <2>11, <2>12, <2>13
<1>9. ASSUME NEW s \in Streams, PollRefuse(s)
      PROVE  VarsTyped' /\ DialsOnly'
  <2>1. /\ connect_requests' \in Seq(Streams)
        /\ \A x \in Streams : InChannel(x)' => InChannel(x)
    BY <1>9, <1>a, ChannelRemoves DEF PollRefuse, VarsTyped
  <2>2. oneshot' \in [Streams -> Answers]
    BY <1>9, <1>a DEF PollRefuse, Send, Answers, VarsTyped
  <2>3. io_copy_futures' \subseteq io_copy_futures
    BY <1>9 DEF PollRefuse, PollCopies
  <2>4. VarsTyped'
    BY <1>9, <2>1, <2>2, <2>3, <1>a DEF PollRefuse, VarsTyped, poolVars, handlerVars
  <2>5. DialsOnly'
    BY <1>9, <2>1, <2>3, <1>a DEF PollRefuse, DialsOnly, handlerVars, Opened, IsDial, Queued
  <2> QED BY <2>4, <2>5
<1>10. ASSUME NEW s \in Streams, PollForward(s)
       PROVE  VarsTyped' /\ DialsOnly'
  <2>1. /\ connect_requests' \in Seq(Streams)
        /\ \A x \in Streams : InChannel(x)' => InChannel(x)
        /\ IsDial(s) /\ Opened(s)
    BY <1>10, <1>a, ChannelRemoves DEF PollForward, VarsTyped, DialsOnly, IsDial
  <2>2. /\ oneshot' \in [Streams -> Answers]
        /\ connecting_requests' \in [Peers -> Streams \cup {None}]
        /\ \A p \in Peers : connecting_requests'[p] \in {connecting_requests[p], s}
    BY <1>10, <1>a DEF PollForward, Send, Answers, VarsTyped
  <2>3. /\ pending_events' \in [Conns -> Seq(Events)]
        /\ \A d \in Conns, type \in Types, x \in Streams :
             Queued(d, type, x)' => Queued(d, type, x) \/ x = s
    <3>1. NotifyAny(request[s].peer, s)
      BY <1>10 DEF PollForward
    <3>2. CASE UNCHANGED pending_events
      BY <3>2, <1>a DEF VarsTyped, Queued
    <3>3. ASSUME NEW c \in ConnsTo(request[s].peer), Queue(c, "connect", s)
          PROVE  /\ pending_events' \in [Conns -> Seq(Events)]
                 /\ \A d \in Conns, type \in Types, x \in Streams :
                      Queued(d, type, x)' => Queued(d, type, x) \/ x = s
      <4>1. c \in Conns /\ "connect" \in Types
        BY <1>a DEF ConnsTo, VarsTyped, Types
      <4> QED BY <3>3, <4>1, <1>a, QueueAdds DEF VarsTyped
    <3> QED BY <3>1, <3>2, <3>3 DEF NotifyAny
  <2>4. io_copy_futures' \subseteq io_copy_futures
    BY <1>10 DEF PollForward, PollCopies
  <2>5. VarsTyped'
    BY <1>10, <2>1, <2>2, <2>3, <2>4, <1>a DEF PollForward, VarsTyped, poolVars
  <2>6. UNCHANGED <<request, inbound, upgrading>>
    BY <1>10 DEF PollForward
  <2>7. \A x \in Streams : Opened(x)' <=> Opened(x)
    BY <2>6 DEF Opened
  <2>8. DialsOnly'
    BY <2>1, <2>2, <2>3, <2>4, <2>6, <2>7, <1>a, <1>b DEF DialsOnly, VarsTyped, Copies
  <2> QED BY <2>5, <2>8
<1>11. ASSUME PollEmit \/ PollPending
       PROVE  VarsTyped' /\ DialsOnly'
  <2>1. io_copy_futures' \subseteq io_copy_futures /\ pending_actions' \in Seq(Actions)
    <3>1. io_copy_futures' \subseteq io_copy_futures
      BY <1>11 DEF PollEmit, PollPending, PollCopies
    <3>2. CASE PollEmit
      <4>1. /\ pending_actions \in Seq(Actions) /\ pending_actions # <<>>
            /\ pending_actions' = Tail(pending_actions)
        BY <3>2, <1>a DEF PollEmit, VarsTyped
      <4> QED BY <3>1, <4>1
    <3>3. CASE PollPending
      BY <3>1, <3>3, <1>a DEF PollPending, VarsTyped
    <3> QED BY <1>11, <3>2, <3>3
  <2>2. UNCHANGED <<poolVars, upgradeVars, handlerVars, listening_clients,
                    connect_requests, connecting_requests>>
    BY <1>11 DEF PollEmit, PollPending
  <2>3. VarsTyped'
    BY <2>1, <2>2, <1>a DEF VarsTyped, poolVars, upgradeVars, handlerVars
  <2>4. DialsOnly'
    BY <2>1, <2>2, <1>a DEF DialsOnly, upgradeVars, handlerVars, Opened, IsDial,
       InChannel, Queued
  <2> QED BY <2>3, <2>4
<1>12. CASE UNCHANGED vars
  BY <1>12, <1>a DEF vars, poolVars, upgradeVars, handlerVars, behaviourVars, VarsTyped,
     DialsOnly, Opened, IsDial, InChannel, Queued
<1> QED
  BY <1>1, <1>2, <1>3, <1>4, <1>5, <1>6, <1>7, <1>8, <1>9, <1>10, <1>11, <1>12
     DEF Next, Poll

\* Every variable always has its type, and only dials reach the behaviour.
THEOREM TypeCorrect == Spec => []TypeOK
<1>1. Init => TypeOK
  BY TypeInit
<1>2. TypeOK /\ [Next]_vars => TypeOK'
  BY TypeStep
<1> QED BY <1>1, <1>2, PTL DEF Spec

(***************************************************************************)
(* Where the attempts to connect come from, and what becomes of them.      *)
(***************************************************************************)
\* A step starts an attempt only on a connection to a peer that listens; it
\* ends one only by taking the sender away or by losing the connection.
LEMMA AttemptStep ==
  ASSUME TypeOK, [Next]_vars, NEW c \in Conns, NEW s \in Streams
  PROVE  /\ Attempt(c, s)' =>
              \/ Attempt(c, s) /\ (c \in live => c \in live')
              \/ /\ c \in ConnsTo(request[s].peer) /\ UNCHANGED poolVars
                 /\ IsListening(request[s].peer) /\ IsDial(s)
         /\ Attempt(c, s) /\ c \in live =>
              \/ Attempt(c, s)' \/ c \in closed'
              \/ connecting_requests'[request[s].peer] = None
<1> DEFINE Goal ==
      /\ Attempt(c, s)' =>
           \/ Attempt(c, s) /\ (c \in live => c \in live')
           \/ /\ c \in ConnsTo(request[s].peer) /\ UNCHANGED poolVars
              /\ IsListening(request[s].peer) /\ IsDial(s)
      /\ Attempt(c, s) /\ c \in live =>
           \/ Attempt(c, s)' \/ c \in closed'
           \/ connecting_requests'[request[s].peer] = None
<1> SUFFICES Goal
  OBVIOUS
<1>a. VarsTyped /\ DialsOnly
  BY DEF TypeOK
<1>b. AttemptTypes \subseteq Types
  BY DEF AttemptTypes, Types
<1>1. CASE UNCHANGED handlerVars /\ live \subseteq live'
  BY <1>1 DEF handlerVars, Attempt, Queued
<1>2. ASSUME NEW d \in Conns, Close(d)
      PROVE  Goal
  <2>1. CASE d = c
    <3>1. c \notin live' /\ c \in closed' /\ pending_events'[c] = <<>>
      BY <1>2, <2>1, <1>a DEF Close, VarsTyped
    <3>2. \A type \in Types : ~ Queued(c, type, s)'
      BY <3>1 DEF Queued
    <3>3. <<c, s>> \notin upgrading'
      BY <1>2, <2>1 DEF Close
    <3> QED BY <3>1, <3>2, <3>3, <1>b DEF Attempt, AttemptTypes
  <2>2. CASE d # c
    <3>1. /\ c \in live => c \in live'
          /\ pending_events'[c] = pending_events[c]
          /\ <<c, s>> \in upgrading' <=> <<c, s>> \in upgrading
      BY <1>2, <2>2, <1>a DEF Close, VarsTyped
    <3> QED BY <3>1 DEF Attempt, Queued
  <2> QED BY <2>1, <2>2
<1>3. ASSUME NEW x \in Streams, ResumeDial(x) \/ Respond(x) \/ UpgradeFails(x)
      PROVE  Goal
  <2>1. /\ UNCHANGED upgrading /\ UNCHANGED live
        /\ Opened(x)
    BY <1>3 DEF ResumeDial, Respond, UpgradeFails, poolVars, Opened, Running
  <2>2. request[x].conn \in Conns
    BY <2>1, <1>a DEF DialsOnly, Request
  <2>3. \/ UNCHANGED pending_events
        \/ \E t \in {"failed", "dial_success", "listen_success"} : Queue(request[x].conn, t, x)
    BY <1>3 DEF ResumeDial, Respond, UpgradeFails
  <2>4. \A type \in AttemptTypes : Queued(c, type, s)' <=> Queued(c, type, s)
    <3>1. CASE UNCHANGED pending_events
      BY <3>1 DEF Queued
    <3>2. ASSUME NEW t \in {"failed", "dial_success", "listen_success"},
                 Queue(request[x].conn, t, x)
          PROVE  \A type \in AttemptTypes : Queued(c, type, s)' <=> Queued(c, type, s)
      <4>1. t \in Types /\ t \notin AttemptTypes
        BY DEF Types, AttemptTypes
      <4>2. \A type \in Types : Queued(c, type, s)' <=>
              Queued(c, type, s) \/ (c = request[x].conn /\ type = t /\ s = x)
        BY <3>2, <4>1, <2>2, <1>a, QueueAdds DEF VarsTyped
      <4> QED BY <4>1, <4>2, <1>b
    <3> QED BY <2>3, <3>1, <3>2
  <2> QED BY <2>1, <2>4 DEF Attempt, AttemptTypes
<1>4. ASSUME NEW d \in Conns, NEW x \in Streams, ConnectEnds(d, x)
      PROVE  Goal
  <2>1. PICK t \in {"connect_success", "connect_failed"} : Queue(d, t, x)
    BY <1>4 DEF ConnectEnds
  <2>2. t \in Types /\ t \in AttemptTypes
    BY DEF Types, AttemptTypes
  <2>3. \A type \in Types : Queued(c, type, s)' <=>
          Queued(c, type, s) \/ (c = d /\ type = t /\ s = x)
    BY <2>1, <2>2, <1>a, QueueAdds DEF VarsTyped
  <2>4. /\ <<d, x>> \in upgrading /\ upgrading' = upgrading \ {<<d, x>>}
        /\ UNCHANGED live
    BY <1>4 DEF ConnectEnds, poolVars
  <2>5. CASE c = d /\ s = x
    BY <2>2, <2>3, <2>4, <2>5 DEF Attempt, AttemptTypes
  <2>6. CASE ~ (c = d /\ s = x)
    <3>1. <<c, s>> \in upgrading' <=> <<c, s>> \in upgrading
      BY <2>4, <2>6
    <3>2. \A type \in AttemptTypes : Queued(c, type, s)' <=> Queued(c, type, s)
      BY <2>3, <2>6, <1>b
    <3> QED BY <2>4, <3>1, <3>2 DEF Attempt, AttemptTypes
  <2> QED BY <2>5, <2>6
<1>5. ASSUME NEW d \in Conns, HandlerPoll(d)
      PROVE  Goal
  <2>0. PICK x \in Streams : \/ HandlerPollConnect(d, x) \/ OnDialSuccess(d, x)
                             \/ OnConnectSuccess(d, x)   \/ OnConnectFailed(d, x)
                             \/ OnListenSuccess(d, x)    \/ OnListenOrDialFailed(d, x)
    BY <1>5 DEF HandlerPoll
  <2>1. UNCHANGED live
    BY <2>0 DEF HandlerPollConnect, OnDialSuccess, OnConnectSuccess, OnConnectFailed,
       OnListenSuccess, OnListenOrDialFailed, poolVars
  <2>2. ASSUME NEW t \in Types, Pop(d, t, x)
        PROVE  /\ Queued(d, t, x)
               /\ \A type \in Types :
                    /\ Queued(c, type, s)' => Queued(c, type, s)
                    /\ Queued(c, type, s) => \/ Queued(c, type, s)'
                                             \/ c = d /\ type = t /\ s = x
    BY <2>2, <1>a, PopRemoves DEF VarsTyped
  <2>3. CASE HandlerPollConnect(d, x)
    <3>1. /\ Pop(d, "connect", x) /\ "connect" \in Types /\ "connect" \in AttemptTypes
          /\ upgrading' = upgrading \cup {<<d, x>>}
      BY <2>3 DEF HandlerPollConnect, Types, AttemptTypes
    <3>2. Attempt(c, s)' => Attempt(c, s)
      <4>1. CASE c = d /\ s = x
        BY <3>1, <2>2, <4>1 DEF Attempt
      <4>2. CASE ~ (c = d /\ s = x)
        BY <3>1, <2>2, <4>2, <1>b DEF Attempt, AttemptTypes
      <4> QED BY <4>1, <4>2
    <3>3. Attempt(c, s) => Attempt(c, s)'
      BY <3>1, <2>2, <1>b DEF Attempt, AttemptTypes
    <3> QED BY <3>2, <3>3, <2>1
  <2>4. CASE OnDialSuccess(d, x) \/ OnListenSuccess(d, x) \/ OnListenOrDialFailed(d, x)
    <3>1. PICK t \in {"dial_success", "listen_success", "failed"} : Pop(d, t, x)
      BY <2>4 DEF OnDialSuccess, OnListenSuccess, OnListenOrDialFailed
    <3>2. t \in Types /\ t \notin AttemptTypes
      BY DEF Types, AttemptTypes
    <3>3. UNCHANGED upgrading
      BY <2>4 DEF OnDialSuccess, OnListenSuccess, OnListenOrDialFailed
    <3>4. \A type \in AttemptTypes : Queued(c, type, s)' <=> Queued(c, type, s)
      BY <3>1, <3>2, <2>2, <1>b
    <3> QED BY <3>3, <3>4, <2>1 DEF Attempt, AttemptTypes
  <2>5. CASE OnConnectSuccess(d, x) \/ OnConnectFailed(d, x)
    <3>1. PICK t \in {"connect_success", "connect_failed"} : Pop(d, t, x)
      BY <2>5 DEF OnConnectSuccess, OnConnectFailed
    <3>2. t \in Types
      BY DEF Types
    <3>3. /\ UNCHANGED upgrading
          /\ connecting_requests' = [connecting_requests EXCEPT ![request[x].peer] = None]
      BY <2>5 DEF OnConnectSuccess, OnConnectFailed
    <3>4. Queued(d, t, x)
      BY <3>1, <3>2, <2>2
    <3>5. request[x].peer \in Peers
      BY <3>2, <3>4, <1>a DEF DialsOnly, IsDial, Request
    <3>6. connecting_requests'[request[x].peer] = None
      BY <3>3, <3>5, <1>a DEF VarsTyped
    <3>7. Attempt(c, s)' => Attempt(c, s)
      BY <3>1, <3>2, <3>3, <2>2, <1>b DEF Attempt, AttemptTypes
    <3>8. Attempt(c, s) => Attempt(c, s)' \/ s = x
      BY <3>1, <3>2, <3>3, <2>2, <1>b DEF Attempt, AttemptTypes
    <3> QED BY <3>6, <3>7, <3>8, <2>1
  <2> QED BY <2>0, <2>3, <2>4, <2>5
<1>6. ASSUME NEW x \in Streams, PollForward(x)
      PROVE  Goal
  <2>1. /\ UNCHANGED poolVars /\ UNCHANGED upgrading
        /\ NotifyAny(request[x].peer, x) /\ IsListening(request[x].peer)
    BY <1>6 DEF PollForward
  <2>2. IsDial(x)
    BY <1>6, <1>a, ChannelRemoves DEF PollForward, VarsTyped, DialsOnly
  <2>3. CASE UNCHANGED pending_events
    BY <2>1, <2>3 DEF poolVars, Attempt, Queued
  <2>4. ASSUME NEW d \in ConnsTo(request[x].peer), Queue(d, "connect", x)
        PROVE  Goal
    <3>1. d \in Conns /\ "connect" \in Types
      BY <1>a DEF ConnsTo, VarsTyped, Types
    <3>2. \A type \in Types : Queued(c, type, s)' <=>
            Queued(c, type, s) \/ (c = d /\ type = "connect" /\ s = x)
      BY <2>4, <3>1, <1>a, QueueAdds DEF VarsTyped
    <3>3. Attempt(c, s) => Attempt(c, s)'
      BY <3>2, <2>1, <1>b DEF Attempt, AttemptTypes
    <3>4. Attempt(c, s)' => Attempt(c, s) \/ (c = d /\ s = x)
      BY <3>2, <2>1, <1>b DEF Attempt, AttemptTypes
    <3>5. c \in live => c \in live'
      BY <2>1 DEF poolVars
    <3>6. CASE c = d /\ s = x
      BY <3>3, <3>6, <2>1, <2>2
    <3> QED BY <3>3, <3>4, <3>5, <3>6
  <2> QED BY <2>1, <2>3, <2>4 DEF NotifyAny
<1>7. CASE Next
  <2>1. ASSUME NEW d \in Conns, NEW p \in Peers, Establish(d, p)
        PROVE  Goal
    BY <2>1, <1>1 DEF Establish
  <2>2. ASSUME NEW x \in Streams, NEW r \in Request, Open(x, r)
        PROVE  Goal
    BY <2>2, <1>1 DEF Open, poolVars
  <2>3. ASSUME NEW x \in Streams,
               ReceiveDialRequest(x) \/ ReceiveListenRequest(x) \/ PollRefuse(x)
        PROVE  Goal
    BY <2>3, <1>1 DEF ReceiveDialRequest, ReceiveListenRequest, PollRefuse, poolVars
  <2>4. CASE PollEmit \/ PollPending
    BY <2>4, <1>1 DEF PollEmit, PollPending, poolVars
  <2> QED BY <1>7, <1>2, <1>3, <1>4, <1>5, <1>6, <2>1, <2>2, <2>3, <2>4 DEF Next, Poll
<1>8. CASE UNCHANGED vars
  BY <1>1, <1>8 DEF vars, poolVars
<1> QED BY <1>7, <1>8

(***************************************************************************)
(* Routing: whatever the interleaving, the peer id a sender is kept under, *)
(* the peer of the connection an attempt runs on and the peer the dialer   *)
(* asked for are the same.                                                 *)
(***************************************************************************)
LEMMA RoutingInit == Init => Routing
<1> SUFFICES ASSUME Init PROVE Routing
  OBVIOUS
<1>1. /\ \A c \in Conns, type \in Types, s \in Streams : ~ Queued(c, type, s)
      /\ \A s \in Streams : ~ Opened(s)
  BY DEF Init, Queued, Opened
<1>2. \A c \in Conns, s \in Streams : ~ Attempt(c, s)
  BY <1>1 DEF Init, Attempt, AttemptTypes, Types
<1>3. "listen_success" \in Types
  BY DEF Types
<1> QED BY <1>1, <1>2, <1>3 DEF Init, Routing

\* A connection keeps its peer.
LEMMA PoolStep ==
  ASSUME TypeOK, Routing, [Next]_vars
  PROVE  /\ \A c \in Conns : c \in (live \cup closed)' <=> conn_peer'[c] # None
         /\ (live \cap closed)' = {}
         /\ \A c \in live \cup closed : c \in (live \cup closed)' /\ conn_peer'[c] = conn_peer[c]
         /\ closed \subseteq closed'
<1> USE NoneIsFresh
<1>a. VarsTyped
  BY DEF TypeOK
<1>1. ASSUME NEW c \in Conns, NEW p \in Peers, Establish(c, p)
      PROVE  /\ \A d \in Conns : d \in (live \cup closed)' <=> conn_peer'[d] # None
             /\ (live \cap closed)' = {}
             /\ \A d \in live \cup closed :
                  d \in (live \cup closed)' /\ conn_peer'[d] = conn_peer[d]
             /\ closed \subseteq closed'
  BY <1>1, <1>a DEF Establish, VarsTyped, Routing
<1>2. ASSUME NEW c \in Conns, Close(c)
      PROVE  /\ \A d \in Conns : d \in (live \cup closed)' <=> conn_peer'[d] # None
             /\ (live \cap closed)' = {}
             /\ \A d \in live \cup closed :
                  d \in (live \cup closed)' /\ conn_peer'[d] = conn_peer[d]
             /\ closed \subseteq closed'
  BY <1>2, <1>a DEF Close, VarsTyped, Routing
<1>3. CASE UNCHANGED poolVars
  BY <1>3 DEF poolVars, Routing
<1>4. CASE Next
  <2>1. ASSUME NEW s \in Streams, NEW r \in Request, Open(s, r)
        PROVE  UNCHANGED poolVars
    BY <2>1 DEF Open
  <2>2. ASSUME NEW s \in Streams,
               \/ ReceiveDialRequest(s) \/ ReceiveListenRequest(s) \/ ResumeDial(s)
               \/ Respond(s) \/ UpgradeFails(s) \/ PollRefuse(s) \/ PollForward(s)
        PROVE  UNCHANGED poolVars
    BY <2>2 DEF ReceiveDialRequest, ReceiveListenRequest, ResumeDial, Respond,
       UpgradeFails, PollRefuse, PollForward
  <2>3. ASSUME NEW c \in Conns, NEW s \in Streams, ConnectEnds(c, s)
        PROVE  UNCHANGED poolVars
    BY <2>3 DEF ConnectEnds
  <2>4. ASSUME NEW c \in Conns, HandlerPoll(c)
        PROVE  UNCHANGED poolVars
    BY <2>4 DEF HandlerPoll, HandlerPollConnect, OnDialSuccess, OnConnectSuccess,
       OnConnectFailed, OnListenSuccess, OnListenOrDialFailed
  <2>5. PollEmit \/ PollPending => UNCHANGED poolVars
    BY DEF PollEmit, PollPending
  <2> QED BY <1>4, <1>1, <1>2, <1>3, <2>1, <2>2, <2>3, <2>4, <2>5 DEF Next, Poll
<1>5. CASE UNCHANGED vars
  BY <1>3, <1>5 DEF vars
<1> QED BY <1>4, <1>5

\* A peer is listed only for a listen request that was answered with success.
LEMMA ListeningStep ==
  ASSUME TypeOK, [Next]_vars
  PROVE  /\ listening_clients \subseteq listening_clients'
         /\ \A p \in listening_clients' :
              \/ p \in listening_clients
              \/ \E c \in Conns, l \in Streams :
                   Queued(c, "listen_success", l) /\ request[l].peer = p
         /\ \A c \in Conns, l \in Streams :
              Queued(c, "listen_success", l)' =>
                Queued(c, "listen_success", l) \/ Listened(l)'
<1> DEFINE Listed ==
      /\ listening_clients \subseteq listening_clients'
      /\ \A p \in listening_clients' :
           \/ p \in listening_clients
           \/ \E c \in Conns, l \in Streams :
                Queued(c, "listen_success", l) /\ request[l].peer = p
<1> DEFINE Told ==
      \A c \in Conns, l \in Streams :
        Queued(c, "listen_success", l)' =>
          Queued(c, "listen_success", l) \/ Listened(l)'
<1> SUFFICES Listed /\ Told
  OBVIOUS
<1>a. VarsTyped /\ DialsOnly
  BY DEF TypeOK
<1>b. "listen_success" \in Types
  BY DEF Types
<1>1. CASE UNCHANGED listening_clients /\ UNCHANGED pending_events
  BY <1>1 DEF Queued
<1>2. ASSUME NEW c \in Conns, Close(c)
      PROVE  Listed /\ Told
  BY <1>2, <1>a DEF Close, VarsTyped, Queued, behaviourVars
<1>3. ASSUME NEW s \in Streams, ResumeDial(s) \/ Respond(s) \/ UpgradeFails(s)
      PROVE  Listed /\ Told
  <2>1. Opened(s) /\ UNCHANGED listening_clients
    BY <1>3 DEF ResumeDial, Respond, UpgradeFails, behaviourVars, Opened, Running
  <2>2. request[s].conn \in Conns /\ request[s].proto \in {"dial", "listen"}
    BY <2>1, <1>a DEF DialsOnly, Request
  <2>3. \/ UNCHANGED pending_events
        \/ Queue(request[s].conn, "failed", s)
        \/ Queue(request[s].conn, "dial_success", s)
        \/ Queue(request[s].conn, "listen_success", s) /\ Listened(s)'
    BY <1>3, <2>2, <1>a DEF ResumeDial, Respond, UpgradeFails, Listened, VarsTyped
  <2>4. ASSUME NEW t \in Types, Queue(request[s].conn, t, s)
        PROVE  \A c \in Conns, l \in Streams :
                 Queued(c, "listen_success", l)' =>
                   Queued(c, "listen_success", l) \/ (t = "listen_success" /\ l = s)
    BY <2>4, <2>2, <1>a, <1>b, QueueAdds DEF VarsTyped
  <2>5. "failed" \in Types /\ "dial_success" \in Types
    BY DEF Types
  <2> QED BY <2>1, <2>3, <2>4, <2>5, <1>1, <1>b
<1>4. ASSUME NEW c \in Conns, NEW s \in Streams, ConnectEnds(c, s)
      PROVE  Listed /\ Told
  <2>1. PICK t \in {"connect_success", "connect_failed"} : Queue(c, t, s)
    BY <1>4 DEF ConnectEnds
  <2>2. t \in Types
    BY DEF Types
  <2>3. Told
    BY <2>1, <2>2, <1>a, <1>b, QueueAdds DEF VarsTyped
  <2> QED BY <2>3, <1>4 DEF ConnectEnds, behaviourVars
<1>5. ASSUME NEW c \in Conns, HandlerPoll(c)
      PROVE  Listed /\ Told
  <2>1. PICK s \in Streams : \/ HandlerPollConnect(c, s) \/ OnDialSuccess(c, s)
                             \/ OnConnectSuccess(c, s)   \/ OnConnectFailed(c, s)
                             \/ OnListenSuccess(c, s)    \/ OnListenOrDialFailed(c, s)
    BY <1>5 DEF HandlerPoll
  <2>2. PICK t \in Types : Pop(c, t, s)
    BY <2>1 DEF Types, HandlerPollConnect, OnDialSuccess, OnConnectSuccess,
                OnConnectFailed, OnListenSuccess, OnListenOrDialFailed
  <2>3. Told
    BY <2>2, <1>a, <1>b, PopRemoves DEF VarsTyped
  <2>4. CASE OnListenSuccess(c, s)
    <3>1. Queued(c, "listen_success", s)
      BY <2>4, <1>a, <1>b, PopRemoves DEF OnListenSuccess, VarsTyped
    <3>2. listening_clients' = listening_clients \cup {request[s].peer}
      BY <2>4 DEF OnListenSuccess
    <3> QED BY <2>3, <3>1, <3>2
  <2>5. CASE UNCHANGED listening_clients
    BY <2>3, <2>5
  <2> QED BY <2>1, <2>4, <2>5 DEF HandlerPollConnect, OnDialSuccess, OnConnectSuccess,
     OnConnectFailed, OnListenOrDialFailed, behaviourVars
<1>6. ASSUME NEW s \in Streams, PollForward(s)
      PROVE  Listed /\ Told
  <2>1. UNCHANGED listening_clients /\ NotifyAny(request[s].peer, s)
    BY <1>6 DEF PollForward
  <2>2. ASSUME NEW c \in ConnsTo(request[s].peer), Queue(c, "connect", s)
        PROVE  Told
    <3>1. c \in Conns /\ "connect" \in Types
      BY <1>a DEF ConnsTo, VarsTyped, Types
    <3> QED BY <2>2, <3>1, <1>a, <1>b, QueueAdds DEF VarsTyped
  <2> QED BY <2>1, <2>2, <1>1 DEF NotifyAny
<1>7. CASE Next
  <2>1. ASSUME NEW c \in Conns, NEW p \in Peers, Establish(c, p)
        PROVE  Listed /\ Told
    BY <2>1, <1>1 DEF Establish, handlerVars, behaviourVars
  <2>2. ASSUME NEW s \in Streams, NEW r \in Request, Open(s, r)
        PROVE  Listed /\ Told
    BY <2>2, <1>1 DEF Open, handlerVars, behaviourVars
  <2>3. ASSUME NEW s \in Streams,
               ReceiveDialRequest(s) \/ ReceiveListenRequest(s) \/ PollRefuse(s)
        PROVE  Listed /\ Told
    BY <2>3, <1>1 DEF ReceiveDialRequest, ReceiveListenRequest, PollRefuse, handlerVars,
       behaviourVars
  <2>4. CASE PollEmit \/ PollPending
    BY <2>4, <1>1 DEF PollEmit, PollPending, handlerVars
  <2> QED BY <1>7, <1>2, <1>3, <1>4, <1>5, <1>6, <2>1, <2>2, <2>3, <2>4 DEF Next, Poll
<1>8. CASE UNCHANGED vars
  BY <1>8, <1>1 DEF vars, handlerVars, behaviourVars
<1> QED BY <1>7, <1>8

\* A sender is put under its destination, with an attempt to connect to it;
\* a stream is given to the dial whose sender is under the attempt's peer.
LEMMA SenderStep ==
  ASSUME TypeOK, [Next]_vars
  PROVE  /\ \A p \in Peers :
              \/ connecting_requests'[p] \in {connecting_requests[p], None}
              \/ \E s \in Streams :
                   /\ connecting_requests'[p] = s /\ IsDial(s) /\ request[s].peer = p
                   /\ IsListening(p) /\ UNCHANGED poolVars
                   /\ ConnsTo(p) = {} \/ \E c \in ConnsTo(p) : Attempt(c, s)'
         /\ \A d \in Streams :
              \/ connection'[d] = connection[d]
              \/ \E c \in Conns, s \in Streams :
                   /\ connection'[d] = <<c, s>> /\ Attempt(c, s)
                   /\ request[s].peer \in Peers
                   /\ connecting_requests[request[s].peer] = d
<1> DEFINE Senders ==
      \A p \in Peers :
        \/ connecting_requests'[p] \in {connecting_requests[p], None}
        \/ \E s \in Streams :
             /\ connecting_requests'[p] = s /\ IsDial(s) /\ request[s].peer = p
             /\ IsListening(p) /\ UNCHANGED poolVars
             /\ ConnsTo(p) = {} \/ \E c \in ConnsTo(p) : Attempt(c, s)'
<1> DEFINE Spliced ==
      \A d \in Streams :
        \/ connection'[d] = connection[d]
        \/ \E c \in Conns, s \in Streams :
             /\ connection'[d] = <<c, s>> /\ Attempt(c, s)
             /\ request[s].peer \in Peers
             /\ connecting_requests[request[s].peer] = d
<1> SUFFICES Senders /\ Spliced
  OBVIOUS
<1>a. VarsTyped /\ DialsOnly
  BY DEF TypeOK
<1>1. CASE UNCHANGED connecting_requests /\ UNCHANGED connection
  BY <1>1
<1>2. ASSUME NEW s \in Streams, PollForward(s)
      PROVE  Senders /\ Spliced
  <2> DEFINE p == request[s].peer
  <2>1. /\ connecting_requests' = [connecting_requests EXCEPT ![p] = s]
        /\ UNCHANGED connection /\ UNCHANGED poolVars
        /\ IsListening(p) /\ NotifyAny(p, s)
    BY <1>2 DEF PollForward
  <2>2. IsDial(s)
    BY <1>2, <1>a, ChannelRemoves DEF PollForward, VarsTyped, DialsOnly
  <2>3. p \in Peers
    BY <2>2, <1>a DEF IsDial, DialsOnly, Request
  <2>4. connecting_requests'[p] = s
    BY <2>1, <2>3, <1>a DEF VarsTyped
  <2>5. ConnsTo(p) = {} \/ \E c \in ConnsTo(p) : Attempt(c, s)'
    <3>1. ASSUME NEW c \in ConnsTo(p), Queue(c, "connect", s)
          PROVE  Attempt(c, s)'
      <4>1. c \in Conns /\ "connect" \in Types /\ "connect" \in AttemptTypes
        BY <1>a DEF ConnsTo, VarsTyped, Types, AttemptTypes
      <4>2. Queued(c, "connect", s)'
        BY <3>1, <4>1, <1>a, QueueAdds DEF VarsTyped
      <4> QED BY <4>1, <4>2 DEF Attempt
    <3> QED BY <2>1, <3>1 DEF NotifyAny
  <2>6. \A x \in Peers : x # p => connecting_requests'[x] = connecting_requests[x]
    BY <2>1, <1>a DEF VarsTyped
  <2> QED BY <2>1, <2>2, <2>4, <2>5, <2>6
<1>3. ASSUME NEW c \in Conns, NEW s \in Streams,
             OnConnectSuccess(c, s) \/ OnConnectFailed(c, s)
      PROVE  Senders /\ Spliced
  <2>1. connecting_requests' = [connecting_requests EXCEPT ![request[s].peer] = None]
    BY <1>3 DEF OnConnectSuccess, OnConnectFailed
  <2>2. Senders
    BY <2>1, <1>a DEF VarsTyped
  <2>3. CASE OnConnectFailed(c, s)
    BY <2>2, <2>3 DEF OnConnectFailed
  <2>4. CASE OnConnectSuccess(c, s)
    <3>1. Pop(c, "connect_success", s) /\ "connect_success" \in Types
      BY <2>4 DEF OnConnectSuccess, Types
    <3>2. Queued(c, "connect_success", s)
      BY <3>1, <1>a, PopRemoves DEF VarsTyped
    <3>3. Attempt(c, s)
      BY <3>2 DEF Attempt, AttemptTypes
    <3>4. request[s].peer \in Peers
      BY <3>1, <3>2, <1>a DEF DialsOnly, IsDial, Request
    <3>5. \A d \in Streams : \/ connection'[d] = connection[d]
                             \/ /\ connection'[d] = <<c, s>>
                                /\ connecting_requests[request[s].peer] = d
      BY <2>4, <1>a DEF OnConnectSuccess, VarsTyped
    <3> QED BY <2>2, <3>3, <3>4, <3>5
  <2> QED BY <1>3, <2>3, <2>4
<1>4. CASE Next
  <2>1. ASSUME NEW c \in Conns, NEW p \in Peers, Establish(c, p)
        PROVE  Senders /\ Spliced
    BY <2>1, <1>1 DEF Establish, upgradeVars, behaviourVars
  <2>2. ASSUME NEW c \in Conns, Close(c)
        PROVE  Senders /\ Spliced
    BY <2>2, <1>1 DEF Close, behaviourVars
  <2>3. ASSUME NEW s \in Streams, NEW r \in Request, Open(s, r)
        PROVE  Senders /\ Spliced
    BY <2>3, <1>1 DEF Open, behaviourVars
  <2>4. ASSUME NEW s \in Streams,
               \/ ReceiveDialRequest(s) \/ ReceiveListenRequest(s) \/ ResumeDial(s)
               \/ Respond(s) \/ UpgradeFails(s) \/ PollRefuse(s)
        PROVE  Senders /\ Spliced
    BY <2>4, <1>1 DEF ReceiveDialRequest, ReceiveListenRequest, ResumeDial, Respond,
       UpgradeFails, PollRefuse, behaviourVars
  <2>5. ASSUME NEW c \in Conns, NEW s \in Streams,
               \/ ConnectEnds(c, s) \/ HandlerPollConnect(c, s) \/ OnDialSuccess(c, s)
               \/ OnListenSuccess(c, s) \/ OnListenOrDialFailed(c, s)
        PROVE  Senders /\ Spliced
    BY <2>5, <1>1 DEF ConnectEnds, HandlerPollConnect, OnDialSuccess, OnListenSuccess,
       OnListenOrDialFailed, upgradeVars, behaviourVars
  <2>6. CASE PollEmit \/ PollPending
    BY <2>6, <1>1 DEF PollEmit, PollPending, upgradeVars
  <2> QED BY <1>4, <1>2, <1>3, <2>1, <2>2, <2>3, <2>4, <2>5, <2>6
     DEF Next, Poll, HandlerPoll
<1>5. CASE UNCHANGED vars
  BY <1>5, <1>1 DEF vars, upgradeVars, behaviourVars
<1> QED BY <1>4, <1>5

\* A substream is opened on a live connection; a listener registers its own id.
LEMMA OpenStep ==
  ASSUME TypeOK, [Next]_vars, NEW s \in Streams, Opened(s)'
  PROVE  \/ Opened(s)
         \/ /\ UNCHANGED poolVars
            /\ request'[s].conn \in live
            /\ request'[s].proto = "listen" => request'[s].peer = conn_peer[request'[s].conn]
<1>a. VarsTyped
  BY DEF TypeOK
<1>1. CASE Opened(s)' => Opened(s)
  BY <1>1
<1>2. ASSUME NEW x \in Streams, NEW r \in Request, Open(x, r)
      PROVE  \/ Opened(s)
             \/ /\ UNCHANGED poolVars
                /\ request'[s].conn \in live
                /\ request'[s].proto = "listen" =>
                     request'[s].peer = conn_peer[request'[s].conn]
  BY <1>2, <1>a DEF Open, Opened, VarsTyped
<1>3. CASE Next
  <2>1. ASSUME NEW c \in Conns, NEW p \in Peers, Establish(c, p)
        PROVE  Opened(s)' => Opened(s)
    BY <2>1 DEF Establish, upgradeVars, Opened
  <2>2. ASSUME NEW c \in Conns, Close(c)
        PROVE  Opened(s)' => Opened(s)
    BY <2>2 DEF Close, Running, Opened
  <2>3. ASSUME NEW x \in Streams,
               \/ ReceiveDialRequest(x) \/ ReceiveListenRequest(x) \/ ResumeDial(x)
               \/ Respond(x) \/ UpgradeFails(x)
        PROVE  Opened(s)' => Opened(s)
    BY <2>3, <1>a DEF ReceiveDialRequest, ReceiveListenRequest, ResumeDial, Respond,
       UpgradeFails, Running, Opened, VarsTyped
  <2>4. ASSUME NEW c \in Conns, NEW x \in Streams, ConnectEnds(c, x)
        PROVE  Opened(s)' => Opened(s)
    BY <2>4 DEF ConnectEnds, upgradeVars, Opened
  <2>5. ASSUME NEW c \in Conns, HandlerPoll(c)
        PROVE  Opened(s)' => Opened(s)
    BY <2>5 DEF HandlerPoll, HandlerPollConnect, OnDialSuccess, OnConnectSuccess,
       OnConnectFailed, OnListenSuccess, OnListenOrDialFailed, upgradeVars, Opened
  <2>6. Poll \/ PollPending => (Opened(s)' => Opened(s))
    BY DEF Poll, PollRefuse, PollForward, PollEmit, PollPending, upgradeVars, Opened
  <2> QED BY <1>3, <1>1, <1>2, <2>1, <2>2, <2>3, <2>4, <2>5, <2>6 DEF Next
<1>4. CASE UNCHANGED vars
  BY <1>4, <1>1 DEF vars, upgradeVars, Opened
<1> QED BY <1>3, <1>4

LEMMA RoutingStep == TypeOK /\ Routing /\ [Next]_vars => Routing'
<1> SUFFICES ASSUME TypeOK, Routing, [Next]_vars PROVE Routing'
  OBVIOUS
<1> USE NoneIsFresh
<1>a. VarsTyped /\ DialsOnly
  BY DEF TypeOK
<1>b. "listen_success" \in Types
  BY DEF Types
<1>1. /\ \A c \in Conns : c \in (live \cup closed)' <=> conn_peer'[c] # None
      /\ (live \cap closed)' = {}
      /\ \A c \in live \cup closed : c \in (live \cup closed)' /\ conn_peer'[c] = conn_peer[c]
  BY PoolStep
<1>2. ASSUME NEW s \in Streams, Opened(s)'
      PROVE  /\ request'[s].conn \in (live \cup closed)'
             /\ request'[s].proto = "listen" =>
                  request'[s].peer = conn_peer'[request'[s].conn]
  <2>1. CASE Opened(s)
    <3>1. /\ request'[s] = request[s]
          /\ request[s].conn \in live \cup closed
          /\ request[s].proto = "listen" => request[s].peer = conn_peer[request[s].conn]
      BY <2>1, <1>a, Frozen DEF Routing
    <3> QED BY <3>1, <1>1
  <2>2. CASE ~ Opened(s)
    <3>1. /\ UNCHANGED poolVars /\ request'[s].conn \in live
          /\ request'[s].proto = "listen" =>
               request'[s].peer = conn_peer[request'[s].conn]
      BY <1>2, <2>2, OpenStep
    <3> QED BY <3>1 DEF poolVars
  <2> QED BY <2>1, <2>2
<1>3. ASSUME NEW p \in listening_clients'
      PROVE  \E l \in Streams : Listened(l)' /\ request'[l].peer = p
  <2>1. PICK l \in Streams : Listened(l) /\ request[l].peer = p
    <3>1. CASE p \in listening_clients
      BY <3>1 DEF Routing
    <3>2. CASE p \notin listening_clients
      <4>1. PICK c \in Conns, l \in Streams :
              Queued(c, "listen_success", l) /\ request[l].peer = p
        BY <1>3, <3>2, ListeningStep
      <4> QED BY <4>1 DEF Routing
    <3> QED BY <3>1, <3>2
  <2>2. Opened(l)
    BY <2>1 DEF Listened, Opened
  <2> QED BY <2>1, <2>2, <1>a, Frozen
<1>4. ASSUME NEW c \in Conns, NEW s \in Streams, Queued(c, "listen_success", s)'
      PROVE  Listened(s)'
  <2>1. Queued(c, "listen_success", s) \/ Listened(s)'
    BY <1>4, ListeningStep
  <2> QED BY <2>1, <1>a, Frozen DEF Routing
<1>5. ASSUME NEW p \in Peers, connecting_requests'[p] # None
      PROVE  request'[connecting_requests'[p]].peer = p
  <2>1. PICK s \in Streams : connecting_requests'[p] = s /\ IsDial(s) /\ request[s].peer = p
    <3>1. CASE connecting_requests'[p] = connecting_requests[p]
      BY <3>1, <1>5, <1>a DEF Routing, DialsOnly, VarsTyped
    <3>2. CASE connecting_requests'[p] # connecting_requests[p]
      BY <3>2, <1>5, SenderStep
    <3> QED BY <3>1, <3>2
  <2> QED BY <2>1, <1>a, Frozen DEF IsDial
<1>6. ASSUME NEW c \in Conns, NEW s \in Streams, Attempt(c, s)'
      PROVE  /\ c \in live'
             /\ conn_peer'[c] = request'[s].peer
             /\ request'[s].peer \in listening_clients'
  <2>1. listening_clients \subseteq listening_clients'
    BY ListeningStep
  <2>2. \/ Attempt(c, s) /\ (c \in live => c \in live')
        \/ /\ c \in ConnsTo(request[s].peer) /\ UNCHANGED poolVars
           /\ IsListening(request[s].peer) /\ IsDial(s)
    BY <1>6, AttemptStep
  <2>3. CASE Attempt(c, s) /\ (c \in live => c \in live')
    <3>1. /\ c \in live /\ conn_peer[c] = request[s].peer
          /\ request[s].peer \in listening_clients
      BY <2>3 DEF Routing
    <3>2. Opened(s)
      <4>1. CASE <<c, s>> \in upgrading
        BY <4>1, <1>a DEF DialsOnly, IsDial
      <4>2. ASSUME NEW type \in AttemptTypes, Queued(c, type, s)
            PROVE  Opened(s)
        BY <4>2, <1>a DEF DialsOnly, IsDial, AttemptTypes, Types
      <4> QED BY <2>3, <4>1, <4>2 DEF Attempt
    <3>3. request'[s] = request[s]
      BY <3>2, <1>a, Frozen
    <3> QED BY <2>1, <2>3, <3>1, <3>3, <1>1
  <2>4. CASE /\ c \in ConnsTo(request[s].peer) /\ UNCHANGED poolVars
             /\ IsListening(request[s].peer) /\ IsDial(s)
    <3>1. request'[s] = request[s]
      BY <2>4, <1>a, Frozen DEF IsDial
    <3> QED BY <2>1, <2>4, <3>1 DEF ConnsTo, poolVars, IsListening
  <2> QED BY <2>2, <2>3, <2>4
<1> QED BY <1>1, <1>2, <1>3, <1>4, <1>5, <1>6 DEF Routing

\* A dialer is only ever given a stream on a connection of the peer it asked for.
LEMMA SplicedStep ==
  TypeOK /\ Routing /\ SplicedToRequestedPeer /\ [Next]_vars => SplicedToRequestedPeer'
<1> SUFFICES ASSUME TypeOK, Routing, SplicedToRequestedPeer, [Next]_vars,
                    NEW d \in Streams, connection'[d] # None
             PROVE  IsDial(d)' /\ conn_peer'[connection'[d][1]] = request'[d].peer
  BY DEF SplicedToRequestedPeer
<1> USE NoneIsFresh
<1>a. VarsTyped /\ DialsOnly
  BY DEF TypeOK
<1>1. PICK c \in Conns : /\ connection'[d][1] = c
                         /\ conn_peer[c] = request[d].peer /\ IsDial(d)
  <2>1. CASE connection'[d] = connection[d]
    BY <2>1, <1>a DEF SplicedToRequestedPeer, VarsTyped
  <2>2. CASE connection'[d] # connection[d]
    <3>1. PICK c \in Conns, s \in Streams :
            /\ connection'[d] = <<c, s>> /\ Attempt(c, s)
            /\ request[s].peer \in Peers
            /\ connecting_requests[request[s].peer] = d
      BY <2>2, SenderStep
    <3>2. conn_peer[c] = request[s].peer
      BY <3>1 DEF Routing
    <3>3. request[d].peer = request[s].peer /\ IsDial(d)
      BY <3>1, <1>a DEF Routing, DialsOnly
    <3> QED BY <3>1, <3>2, <3>3
  <2> QED BY <2>1, <2>2
<1>2. request[d].peer \in Peers
  BY <1>1, <1>a DEF IsDial, DialsOnly, Request
<1>3. c \in live \cup closed
  BY <1>1, <1>2 DEF Routing
<1>4. conn_peer'[c] = conn_peer[c]
  BY <1>3, PoolStep
<1>5. request'[d] = request[d] /\ IsDial(d)'
  BY <1>1, <1>a, Frozen DEF IsDial
<1> QED BY <1>1, <1>4, <1>5

\* A sender in the map has an attempt that will remove it, or a lost connection.
LEMMA SenderHasAttemptStep ==
  TypeOK /\ Routing /\ SenderHasAttempt /\ [Next]_vars => SenderHasAttempt'
<1> SUFFICES ASSUME TypeOK, Routing, SenderHasAttempt, [Next]_vars,
                    NEW p \in Peers, connecting_requests'[p] # None
             PROVE  \/ \E c \in live', s \in Streams : Attempt(c, s)' /\ request'[s].peer = p
                    \/ \E c \in closed' : conn_peer'[c] = p
  BY DEF SenderHasAttempt
<1> USE NoneIsFresh
<1>a. VarsTyped /\ DialsOnly /\ Routing'
  BY RoutingStep DEF TypeOK
<1>1. CASE connecting_requests'[p] = connecting_requests[p]
  <2>1. CASE \E c \in closed : conn_peer[c] = p
    BY <2>1, PoolStep
  <2>2. ASSUME NEW c \in live, NEW s \in Streams, Attempt(c, s), request[s].peer = p
        PROVE  \/ \E d \in live', x \in Streams : Attempt(d, x)' /\ request'[x].peer = p
               \/ \E d \in closed' : conn_peer'[d] = p
    <3>1. c \in Conns /\ conn_peer[c] = p
      BY <2>2, <1>a DEF Routing, VarsTyped
    <3>2. Attempt(c, s)' \/ c \in closed'
      BY <2>2, <3>1, <1>1, AttemptStep
    <3>3. conn_peer'[c] = p
      BY <3>1, PoolStep
    <3>4. CASE c \in closed'
      BY <3>3, <3>4
    <3>5. CASE Attempt(c, s)'
      BY <3>1, <3>3, <3>5, <1>a DEF Routing
    <3> QED BY <3>2, <3>4, <3>5
  <2> QED BY <1>1, <2>1, <2>2 DEF SenderHasAttempt
<1>2. CASE connecting_requests'[p] # connecting_requests[p]
  <2>1. PICK s \in Streams : /\ IsDial(s) /\ request[s].peer = p
                             /\ IsListening(p) /\ UNCHANGED poolVars
                             /\ ConnsTo(p) = {} \/ \E c \in ConnsTo(p) : Attempt(c, s)'
    BY <1>2, SenderStep
  <2>2. CASE ConnsTo(p) = {}
    <3>1. PICK l \in Streams : Listened(l) /\ request[l].peer = p
      BY <2>1 DEF IsListening, Routing
    <3>2. request[l].conn \in live \cup closed /\ conn_peer[request[l].conn] = p
      BY <3>1 DEF Routing, Listened, Opened
    <3>3. request[l].conn \in closed
      BY <3>2, <2>2 DEF ConnsTo
    <3> QED BY <3>2, <3>3, <2>1 DEF poolVars
  <2>3. ASSUME NEW c \in ConnsTo(p), Attempt(c, s)'
        PROVE  \E d \in live', x \in Streams : Attempt(d, x)' /\ request'[x].peer = p
    <3>1. request'[s] = request[s]
      BY <2>1, <1>a, Frozen DEF IsDial
    <3> QED BY <2>1, <2>3, <3>1 DEF ConnsTo, poolVars
  <2> QED BY <2>1, <2>2, <2>3
<1> QED BY <1>1, <1>2

(***************************************************************************)
(* The theorems.                                                           *)
(***************************************************************************)
IInv == TypeOK /\ Routing /\ SplicedToRequestedPeer /\ SenderHasAttempt

LEMMA IInvHolds == Spec => []IInv
<1>1. Init => IInv
  BY TypeInit, RoutingInit DEF IInv, Init, SplicedToRequestedPeer, SenderHasAttempt
<1>2. IInv /\ [Next]_vars => IInv'
  BY TypeStep, RoutingStep, SplicedStep, SenderHasAttemptStep DEF IInv
<1> QED BY <1>1, <1>2, PTL DEF Spec

\* What is kept under a peer id, and what a handler of a connection works on,
\* is always for the peer of that connection.
THEOREM RoutingCorrect == Spec => []Routing
BY IInvHolds, PTL DEF IInv

\* A dialer is never joined to a peer other than the one it asked for.
THEOREM DialsReachTheirPeer == Spec => []SplicedToRequestedPeer
BY IInvHolds, PTL DEF IInv

\* No sender is left in the map with nothing under way that would remove it,
\* unless a connection to the destination was lost.
THEOREM SendersHaveAttempts == Spec => []SenderHasAttempt
BY IInvHolds, PTL DEF IInv

\* No peer is asked to accept a connection before it was told that it listens.
THEOREM ReachedPeersListen == Spec => []OnlyListenersReached
<1>1. IInv => OnlyListenersReached
  BY DEF IInv, Routing, OnlyListenersReached
<1> QED BY <1>1, IInvHolds, PTL
=============================================================================
