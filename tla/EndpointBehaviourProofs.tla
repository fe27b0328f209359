----------------------- MODULE EndpointBehaviourProofs ----------------------
(***************************************************************************)
(* Theorems about EndpointBehaviour, for any number of requests, listeners *)
(* and connections and for channels of any capacity.                       *)
(***************************************************************************)
EXTENDS EndpointBehaviour, SequenceTheorems, TLAPS

(***************************************************************************)
(* The inductive invariant.  That a listener only gets connections for its *)
(* address needs to know that the senders kept are those of requests made, *)
(* for addresses of theirs, and that at most one of them is open.          *)
(***************************************************************************)
EventsOf(M) == {e \in Events : e.req \in M}

ToldOf(M) == {e \in Told : e.type # "PeerClosed" => e.req \in M}

\* Only requests of M are kept by the behaviour or told of.
Beyond(M) ==
  /\ waiting \in Seq(M) /\ pending \in Seq(M)
  /\ pending_events \in [Conns -> Seq(EventsOf(M))]
  /\ upgrading \subseteq Conns \X M
  /\ listeners \in [Addrs -> (Listens \cap M) \cup {None}]
  /\ pending_to_transport \in Seq(ToldOf(M)) /\ to_transport \in Seq(ToldOf(M))

\* Only those are on their way to it, too.
InFlight(M) == from_transport \in Seq(M) /\ Beyond(M)

\* A listener's sender is kept under its address.
KeptByAddress ==
  \A a \in Addrs : listeners[a] \in Listens => LocalAddr[listeners[a]] = a

\* At most one of the listeners that were asked for is open.
OneOpenListener ==
  \A k, l \in Listens :
    answer[k] # "none" /\ answer[l] # "none" => k = l \/ k \in dropped \/ l \in dropped

\* What a channel holds leaves room for what Fits and Flush count.
ChannelsBounded ==
  /\ \A l \in Listens : Len(incoming[l]) <= ListenerCap
  /\ Len(to_transport) <= TransportCap

IInv ==
  /\ TypeOK /\ ParkedMeansConnecting /\ EstablishedIsLive /\ OneOpenListener
  /\ InFlight(Requested) /\ KeptByAddress /\ DeliveredToItsAddress /\ ChannelsBounded

(***************************************************************************)
(* Type correctness.                                                       *)
(***************************************************************************)

\* What is left of a queue after its first elements is a queue of the same type.
LEMMA RestIsSeq ==
  ASSUME NEW S, NEW s \in Seq(S), NEW k \in Int, k >= 1
  PROVE  SubSeq(s, k, Len(s)) \in Seq(S)
<1>1. Len(s) \in Int /\ \A i \in k..Len(s) : s[i] \in S
  OBVIOUS
<1> QED BY <1>1, SubSeqProperties

\* Failing parked requests keeps the answers' and the events' types.
LEMMA FailTypes ==
  ASSUME TypeOK, NEW rs \in Seq(Requests), Fail(rs)
  PROVE  /\ answer' \in [Requests -> Answers]
         /\ pending_to_transport' \in Seq(Told)
<1>1. answer' \in [Requests -> Answers]
  BY DEF Fail, TypeOK, Answers
<1>2. \A r \in Requests : Failed(r) \in Told
  BY DEF Failed, Told, Requests
<1>3. [i \in DOMAIN rs |-> Failed(rs[i])] \in Seq(Told)
  BY <1>2
<1>4. pending_to_transport' \in Seq(Told)
  BY <1>3 DEF Fail, TypeOK
<1> QED BY <1>1, <1>4

\* A handler's queue of events keeps its type.
LEMMA QueueTypes ==
  ASSUME TypeOK, NEW c \in Conns, NEW type \in {"request", "success", "failed"},
         NEW r \in Requests, Queue(c, type, r) \/ Pop(c, type, r)
  PROVE  pending_events' \in [Conns -> Seq(Events)]
<1>1. [type |-> type, req |-> r] \in Events
  BY DEF Events
<1>2. pending_events[c] \in Seq(Events)
  BY DEF TypeOK
<1>3. CASE Queue(c, type, r)
  BY <1>1, <1>2, <1>3 DEF Queue, TypeOK
<1>4. CASE Pop(c, type, r)
  <2>1. Tail(pending_events[c]) \in Seq(Events)
    BY <1>2, <1>4 DEF Pop
  <2> QED BY <2>1, <1>4 DEF Pop, TypeOK
<1> QED BY <1>3, <1>4

\* Passing on a request keeps the types of what it changes.
LEMMA DispatchTypes ==
  ASSUME TypeOK, NEW r \in Requests, Dispatch(r)
  PROVE  /\ listeners' \in [Addrs -> Listens \cup {None}]
         /\ pending_events' \in [Conns -> Seq(Events)]
         /\ answer' \in [Requests -> Answers]
<1>1. listeners' \in [Addrs -> Listens \cup {None}]
  BY DEF Dispatch, TypeOK
<1>2. answer' \in [Requests -> Answers]
  BY DEF Dispatch, TypeOK, Answers
<1>3. pending_events' \in [Conns -> Seq(Events)]
  <2>1. CASE \E c \in live : Queue(c, "request", r)
    <3>1. PICK c \in live : Queue(c, "request", r)
      BY <2>1
    <3> QED BY <3>1, QueueTypes DEF TypeOK
  <2>2. CASE UNCHANGED pending_events
    BY <2>2 DEF TypeOK
  <2> QED BY <2>1, <2>2 DEF Dispatch
<1> QED BY <1>1, <1>2, <1>3

\* The rest of a poll keeps the types of the channels.
LEMMA DeliverTypes ==
  ASSUME TypeOK, ChannelsBounded, DeliverAndFlush
  PROVE  /\ incoming' \in [Listens -> Seq(Forwarded)]
         /\ pending_new_connections' \in Seq(Forwarded)
         /\ pending_to_transport' \in Seq(Told)
         /\ to_transport' \in Seq(Told)
<1> DEFINE new == pending_new_connections
           successes(n) == [k \in 1..n |-> [type |-> "ListenSuccess", req |-> ListenerOf(new[k])]]
           told(n) == pending_to_transport \o successes(n)
<1>1. PICK n \in 0..Len(new) :
        /\ Fits(n)
        /\ incoming' = [l \in Listens |->
             IF n > 0 /\ l = ListenerOf(new[1]) THEN incoming[l] \o SubSeq(new, 1, n)
                                                ELSE incoming[l]]
        /\ IF n < Len(new) /\ ~ IsOpen(ListenerOf(new[n + 1]))
             THEN /\ pending_new_connections' = SubSeq(new, n + 2, Len(new))
                  /\ pending_to_transport' = told(n)
                  /\ UNCHANGED to_transport
             ELSE /\ pending_new_connections' = SubSeq(new, n + 1, Len(new))
                  /\ Flush(told(n))
  BY DEF DeliverAndFlush, PutBack
<1>2. new \in Seq(Forwarded) /\ Len(new) \in Nat /\ n \in Nat
  BY DEF TypeOK
<1>3. SubSeq(new, 1, n) \in Seq(Forwarded)
  BY <1>2
<1>4. incoming' \in [Listens -> Seq(Forwarded)]
  BY <1>1, <1>3 DEF TypeOK
<1>5. pending_new_connections' \in Seq(Forwarded)
  <2>1. n + 1 \in Int /\ n + 1 >= 1 /\ n + 2 \in Int /\ n + 2 >= 1
    BY <1>2
  <2> QED BY <1>1, <1>2, <2>1, RestIsSeq
<1>6. successes(n) \in Seq(Told)
  <2>1. \A k \in 1..n : ListenerOf(new[k]) \in Listens
    BY <1>1 DEF Fits, IsOpen
  <2>2. \A k \in 1..n : [type |-> "ListenSuccess", req |-> ListenerOf(new[k])] \in Told
    BY <2>1 DEF Told
  <2> QED BY <2>2, <1>2
<1>7. told(n) \in Seq(Told)
  BY <1>6 DEF TypeOK
<1>8. pending_to_transport' \in Seq(Told) /\ to_transport' \in Seq(Told)
  <2>1. CASE n < Len(new) /\ ~ IsOpen(ListenerOf(new[n + 1]))
    BY <1>1, <1>7, <2>1 DEF TypeOK
  <2>2. CASE ~ (n < Len(new) /\ ~ IsOpen(ListenerOf(new[n + 1])))
    <3> HIDE DEF told
    <3>1. Flush(told(n))
      BY <1>1, <2>2
    <3> DEFINE room == TransportCap - Len(to_transport)
               m    == IF Len(told(n)) < room THEN Len(told(n)) ELSE room
    <3>2. /\ to_transport' = to_transport \o SubSeq(told(n), 1, m)
          /\ pending_to_transport' = SubSeq(told(n), m + 1, Len(told(n)))
      BY <3>1 DEF Flush
    <3>3. m \in Nat /\ m <= Len(told(n))
      BY <1>7, CapsPositive DEF TypeOK, ChannelsBounded
    <3>4. SubSeq(told(n), 1, m) \in Seq(Told)
      BY <1>7, <3>3
    <3>5. SubSeq(told(n), m + 1, Len(told(n))) \in Seq(Told)
      BY <1>7, <3>3, RestIsSeq
    <3>6. to_transport' \in Seq(Told)
      BY <3>2, <3>4 DEF TypeOK
    <3> QED BY <3>2, <3>5, <3>6
  <2> QED BY <2>1, <2>2
<1> QED BY <1>4, <1>5, <1>8

LEMMA TypeInit ==
  ASSUME Init
  PROVE  TypeOK
<1>1. /\ live \subseteq Conns /\ closed \subseteq Conns /\ dialing \in BOOLEAN
      /\ answer \in [Requests -> Answers]
      /\ dropped \subseteq Listens
      /\ upgrading \subseteq Conns \X Requests
      /\ arrived \subseteq Forwarded
      /\ listeners \in [Addrs -> Listens \cup {None}]
      /\ established \subseteq Conns /\ connecting \in BOOLEAN
  BY DEF Init, Answers
<1>2. \A S : <<>> \in Seq(S)
  OBVIOUS
<1>3. /\ incoming \in [Listens -> Seq(Forwarded)]
      /\ pending_events \in [Conns -> Seq(Events)]
      /\ pending_inbound \in [Conns -> Seq(Forwarded)]
  BY <1>2 DEF Init
<1>4. /\ from_transport \in Seq(Requests)
      /\ pending_new_connections \in Seq(Forwarded)
      /\ pending_to_transport \in Seq(Told) /\ to_transport \in Seq(Told)
      /\ waiting \in Seq(Requests) /\ pending \in Seq(Requests)
  BY <1>2 DEF Init
<1> QED BY <1>1, <1>3, <1>4 DEF TypeOK

\* Every step keeps the types.
LEMMA TypeStep ==
  ASSUME TypeOK, ChannelsBounded, [Next]_vars
  PROVE  TypeOK'
<1> USE DEF swarmVars, transportVars, handlerVars, requestVars, outVars
<1>1. ASSUME NEW r \in Requests, Request(r)
      PROVE  TypeOK'
  <2>1. answer' \in [Requests -> Answers]
    BY <1>1 DEF Request, TypeOK, Answers
  <2>2. from_transport' \in Seq(Requests)
    BY <1>1 DEF Request, TypeOK
  <2> QED BY <1>1, <2>1, <2>2 DEF Request, TypeOK
<1>2. ASSUME NEW l \in Listens, RemoveListener(l)
      PROVE  TypeOK'
  <2>1. dropped' \subseteq Listens
    BY <1>2 DEF RemoveListener, TypeOK
  <2> QED BY <1>2, <2>1 DEF RemoveListener, TypeOK
<1>3. ASSUME NEW l \in Listens, ListenerReceive(l)
      PROVE  TypeOK'
  <2>1. incoming[l] \in Seq(Forwarded) /\ incoming[l] # <<>>
    BY <1>3 DEF ListenerReceive, TypeOK
  <2>2. Tail(incoming[l]) \in Seq(Forwarded)
    BY <2>1
  <2> QED BY <1>3, <2>2 DEF ListenerReceive, TypeOK
<1>4. ASSUME TransportReceive
      PROVE  TypeOK'
  <2>1. Head(to_transport) \in Told /\ Tail(to_transport) \in Seq(Told)
    BY <1>4 DEF TransportReceive, TypeOK
  <2>2. answer' \in [Requests -> Answers]
    BY <1>4, <2>1 DEF TransportReceive, TypeOK, Answers
  <2>3. dropped' \subseteq Listens
    <3>1. Head(to_transport).type = "ListenFailed" => Head(to_transport).req \in Listens
      BY <2>1 DEF Told
    <3> QED BY <1>4, <3>1 DEF TransportReceive, TypeOK
  <2> QED BY <1>4, <2>1, <2>2, <2>3 DEF TransportReceive, TypeOK
<1>5. ASSUME OnDialFailure
      PROVE  TypeOK'
  <2>1. waiting \in Seq(Requests) /\ Fail(waiting)
    BY <1>5 DEF OnDialFailure, TypeOK
  <2>2. answer' \in [Requests -> Answers] /\ pending_to_transport' \in Seq(Told)
    BY <2>1, FailTypes
  <2>3. dialing' \in BOOLEAN
    BY <1>5 DEF OnDialFailure, TypeOK
  <2>4. waiting' \in Seq(Requests)
    BY <1>5 DEF OnDialFailure
  <2> QED BY <1>5, <2>2, <2>3, <2>4 DEF OnDialFailure, TypeOK
<1>6. ASSUME NEW c \in Conns, OnConnectionEstablished(c)
      PROVE  TypeOK'
  <2>1. dialing' \in BOOLEAN /\ connecting' \in BOOLEAN
    BY <1>6 DEF OnConnectionEstablished, TypeOK
  <2>2. waiting' \in Seq(Requests) /\ pending' \in Seq(Requests)
    <3>1. CASE connecting
      <4>1. waiting' = <<>> /\ pending' = pending \o waiting
        BY <1>6, <3>1 DEF OnConnectionEstablished
      <4> QED BY <4>1, EmptySeq DEF TypeOK
    <3>2. CASE ~ connecting
      BY <1>6, <3>2 DEF OnConnectionEstablished, TypeOK
    <3> QED BY <3>1, <3>2
  <2> QED BY <1>6, <2>1, <2>2 DEF OnConnectionEstablished, TypeOK
<1>7. ASSUME NEW c \in Conns, OnConnectionClosed(c)
      PROVE  TypeOK'
  <2>1. [type |-> "PeerClosed", conn |-> c] \in Told
    BY DEF Told
  <2>2. pending_to_transport' \in Seq(Told)
    BY <1>7, <2>1 DEF OnConnectionClosed, TypeOK
  <2>3. answer' \in [Requests -> Answers]
    BY <1>7 DEF OnConnectionClosed, TypeOK, Answers
  <2> QED BY <1>7, <2>2, <2>3 DEF OnConnectionClosed, OpenConnections, TypeOK
<1>8. ASSUME NEW c \in Conns, OnNewConnection(c)
      PROVE  TypeOK'
  <2>1. pending_inbound[c] \in Seq(Forwarded) /\ pending_inbound[c] # <<>>
    BY <1>8 DEF OnNewConnection, TypeOK
  <2>2. Head(pending_inbound[c]) \in Forwarded /\ Tail(pending_inbound[c]) \in Seq(Forwarded)
    BY <2>1
  <2> QED BY <1>8, <2>2 DEF OnNewConnection, TypeOK
<1>9. ASSUME NEW c \in Conns, NEW r \in Requests, HandlerPollRequest(c, r)
      PROVE  TypeOK'
  <2>1. pending_events' \in [Conns -> Seq(Events)]
    BY <1>9, QueueTypes DEF HandlerPollRequest
  <2> QED BY <1>9, <2>1 DEF HandlerPollRequest, TypeOK
<1>10. ASSUME NEW c \in Conns, NEW r \in Requests, OnUpgradeEnd(c, r)
       PROVE  TypeOK'
  <2>1. pending_events' \in [Conns -> Seq(Events)]
    BY <1>10, QueueTypes DEF OnUpgradeEnd
  <2>2. answer' \in [Requests -> Answers]
    BY <1>10 DEF OnUpgradeEnd, TypeOK, Answers
  <2>3. r \in Dials \/ /\ [type |-> "ListenSuccess", req |-> r] \in Told
                       /\ Failed(r) \in Told
    BY DEF Requests, Failed, Told
  <2>4. pending_to_transport' \in Seq(Told)
    <3>1. \/ UNCHANGED pending_to_transport
          \/ \E e \in Told : pending_to_transport' = Append(pending_to_transport, e)
      BY <1>10, <2>3 DEF OnUpgradeEnd
    <3>2. ASSUME NEW e \in Told, pending_to_transport' = Append(pending_to_transport, e)
          PROVE  pending_to_transport' \in Seq(Told)
      BY <3>2 DEF TypeOK
    <3> QED BY <3>1, <3>2 DEF TypeOK
  <2> QED BY <1>10, <2>1, <2>2, <2>4 DEF OnUpgradeEnd, TypeOK
<1>11. ASSUME NEW c \in Conns, NEW r \in Requests, UpgradeEnds(c, r)
       PROVE  TypeOK'
  <2>1. pending_events' \in [Conns -> Seq(Events)]
    <3>1. PICK type \in {"success", "failed"} : Queue(c, type, r)
      BY <1>11 DEF UpgradeEnds
    <3> QED BY <3>1, QueueTypes
  <2> QED BY <1>11, <2>1 DEF UpgradeEnds, TypeOK
<1>12. ASSUME NEW c \in Conns, NEW i \in Forwarded, Accept(c, i)
       PROVE  TypeOK'
  BY <1>12 DEF Accept, TypeOK
<1>13. ASSUME PollSend
       PROVE  TypeOK'
  <2>1. Head(from_transport) \in Requests /\ Tail(from_transport) \in Seq(Requests)
    BY <1>13 DEF PollSend, TypeOK
  <2>2. Dispatch(Head(from_transport))
    BY <1>13 DEF PollSend
  <2> QED BY <1>13, <2>1, <2>2, DispatchTypes DEF PollSend, TypeOK
<1>14. ASSUME PollPending
       PROVE  TypeOK'
  <2>1. Head(pending) \in Requests /\ Tail(pending) \in Seq(Requests)
    BY <1>14 DEF PollPending, TypeOK
  <2>2. Dispatch(Head(pending))
    BY <1>14 DEF PollPending
  <2> QED BY <1>14, <2>1, <2>2, DispatchTypes DEF PollPending, TypeOK
<1>15. ASSUME PollDial
       PROVE  TypeOK'
  <2> DEFINE parked == Append(waiting, Head(from_transport))
  <2>1. /\ Head(from_transport) \in Requests
        /\ Tail(from_transport) \in Seq(Requests)
        /\ parked \in Seq(Requests)
    BY <1>15 DEF PollDial, TypeOK
  <2>2. CASE live = {}
    BY <1>15, <2>1, <2>2 DEF PollDial, TypeOK
  <2>3. CASE live # {}
    <3>1. Fail(parked)
      BY <1>15, <2>3 DEF PollDial
    <3>2. answer' \in [Requests -> Answers] /\ pending_to_transport' \in Seq(Told)
      BY <2>1, <3>1, FailTypes
    <3>3. waiting' \in Seq(Requests)
      BY <1>15, <2>3, EmptySeq DEF PollDial
    <3> QED BY <1>15, <2>1, <2>3, <3>2, <3>3 DEF PollDial, TypeOK
  <2> QED BY <2>2, <2>3
<1>16. ASSUME PollPark
       PROVE  TypeOK'
  <2>1. /\ Head(from_transport) \in Requests
        /\ Tail(from_transport) \in Seq(Requests)
        /\ Append(waiting, Head(from_transport)) \in Seq(Requests)
    BY <1>16 DEF PollPark, TypeOK
  <2>2. DeliverAndFlush
    BY <1>16 DEF PollPark
  <2> QED BY <1>16, <2>1, <2>2, DeliverTypes DEF PollPark, TypeOK
<1>17. ASSUME PollRest
       PROVE  TypeOK'
  <2>1. DeliverAndFlush
    BY <1>17 DEF PollRest
  <2> QED BY <1>17, <2>1, DeliverTypes DEF PollRest, TypeOK
<1>18. CASE UNCHANGED vars
  BY <1>18 DEF vars, TypeOK
<1> QED BY <1>1, <1>2, <1>3, <1>4, <1>5, <1>6, <1>7, <1>8, <1>9, <1>10, <1>11, <1>12,
           <1>13, <1>14, <1>15, <1>16, <1>17, <1>18 DEF Next, HandlerPoll, Poll

(***************************************************************************)
(* Requests and connections.                                               *)
(***************************************************************************)

\* Requests are parked only for a dial the behaviour counts on, and those that
\* are not go to a connection there is (endpoint/behaviour.rs:94-138, 324-348).
LEMMA ConnectionsStep ==
  ASSUME TypeOK, ParkedMeansConnecting, EstablishedIsLive, [Next]_vars
  PROVE  ParkedMeansConnecting' /\ EstablishedIsLive'
<1> USE DEF ParkedMeansConnecting, EstablishedIsLive,
            swarmVars, transportVars, handlerVars, requestVars, outVars
<1>1. ASSUME \/ \E r \in Requests : Request(r)
             \/ \E l \in Listens : RemoveListener(l) \/ ListenerReceive(l)
             \/ TransportReceive
      PROVE  ParkedMeansConnecting' /\ EstablishedIsLive'
  BY <1>1 DEF Request, RemoveListener, ListenerReceive, TransportReceive
<1>2. ASSUME OnDialFailure
      PROVE  ParkedMeansConnecting' /\ EstablishedIsLive'
  BY <1>2 DEF OnDialFailure
<1>3. ASSUME NEW c \in Conns, OnConnectionEstablished(c)
      PROVE  ParkedMeansConnecting' /\ EstablishedIsLive'
  <2>1. CASE connecting
    BY <1>3, <2>1 DEF OnConnectionEstablished
  <2>2. CASE ~ connecting
    BY <1>3, <2>2 DEF OnConnectionEstablished
  <2> QED BY <2>1, <2>2
<1>4. ASSUME NEW c \in Conns, OnConnectionClosed(c)
      PROVE  ParkedMeansConnecting' /\ EstablishedIsLive'
  BY <1>4 DEF OnConnectionClosed, OpenConnections
<1>5. ASSUME NEW c \in Conns,
             \/ HandlerPoll(c)
             \/ \E r \in Requests : UpgradeEnds(c, r)
             \/ \E i \in Forwarded : Accept(c, i)
      PROVE  ParkedMeansConnecting' /\ EstablishedIsLive'
  <2>1. UNCHANGED <<waiting, connecting, established, live>>
    BY <1>5 DEF HandlerPoll, HandlerPollRequest, OnUpgradeEnd, OnNewConnection,
                UpgradeEnds, Accept
  <2> QED BY <2>1
<1>6. ASSUME PollSend \/ PollPending \/ PollPark \/ PollRest
      PROVE  ParkedMeansConnecting' /\ EstablishedIsLive'
  BY <1>6 DEF PollSend, PollPending, PollPark, PollRest
<1>7. ASSUME PollDial
      PROVE  ParkedMeansConnecting' /\ EstablishedIsLive'
  <2>1. connecting' = TRUE
    BY <1>7 DEF PollDial
  <2>2. established' = {}
    BY <1>7 DEF PollDial
  <2>3. ParkedMeansConnecting'
    BY <2>1, <2>2
  <2> QED BY <2>2, <2>3
<1>8. CASE UNCHANGED vars
  BY <1>8 DEF vars
<1> QED BY <1>1, <1>2, <1>3, <1>4, <1>5, <1>6, <1>7, <1>8 DEF Next, Poll

\* A request that was made stays made.
LEMMA AnswersKept ==
  ASSUME TypeOK, [Next]_vars, NEW r \in Requests, answer[r] # "none"
  PROVE  answer'[r] # "none"
<1> USE DEF swarmVars, transportVars, handlerVars, requestVars, outVars
<1>1. ASSUME NEW rs, Fail(rs)
      PROVE  answer'[r] # "none"
  BY <1>1 DEF Fail
<1>2. ASSUME NEW q \in Requests, Dispatch(q)
      PROVE  answer'[r] # "none"
  BY <1>2 DEF Dispatch, TypeOK
<1>3. ASSUME NEW q \in Requests, Request(q)
      PROVE  answer'[r] # "none"
  BY <1>3 DEF Request, TypeOK
<1>4. ASSUME TransportReceive
      PROVE  answer'[r] # "none"
  BY <1>4 DEF TransportReceive
<1>5. ASSUME OnDialFailure
      PROVE  answer'[r] # "none"
  BY <1>5, <1>1 DEF OnDialFailure
<1>6. ASSUME NEW c \in Conns, OnConnectionClosed(c)
      PROVE  answer'[r] # "none"
  BY <1>6 DEF OnConnectionClosed
<1>7. ASSUME NEW c \in Conns, NEW q \in Requests, OnUpgradeEnd(c, q)
      PROVE  answer'[r] # "none"
  BY <1>7 DEF OnUpgradeEnd, TypeOK
<1>8. ASSUME PollSend
      PROVE  answer'[r] # "none"
  <2>1. Head(from_transport) \in Requests
    BY <1>8 DEF PollSend, TypeOK
  <2> QED BY <1>8, <2>1, <1>2 DEF PollSend
<1>9. ASSUME PollPending
      PROVE  answer'[r] # "none"
  <2>1. Head(pending) \in Requests
    BY <1>9 DEF PollPending, TypeOK
  <2> QED BY <1>9, <2>1, <1>2 DEF PollPending
<1>10. ASSUME PollDial
       PROVE  answer'[r] # "none"
  <2>1. CASE live = {}
    BY <1>10, <2>1 DEF PollDial
  <2>2. CASE live # {}
    BY <1>10, <2>2, <1>1 DEF PollDial
  <2> QED BY <2>1, <2>2
<1>11. ASSUME \/ \E l \in Listens : RemoveListener(l) \/ ListenerReceive(l)
              \/ \E c \in Conns :
                   \/ OnConnectionEstablished(c) \/ OnNewConnection(c)
                   \/ \E q \in Requests : HandlerPollRequest(c, q) \/ UpgradeEnds(c, q)
                   \/ \E i \in Forwarded : Accept(c, i)
              \/ PollPark \/ PollRest
              \/ UNCHANGED vars
       PROVE  answer'[r] # "none"
  <2>1. UNCHANGED answer
    BY <1>11 DEF RemoveListener, ListenerReceive, OnConnectionEstablished, OnNewConnection,
                 HandlerPollRequest, UpgradeEnds, Accept, PollPark, PollRest, vars
  <2> QED BY <2>1
<1> QED BY <1>3, <1>4, <1>5, <1>6, <1>7, <1>8, <1>9, <1>10, <1>11
        DEF Next, HandlerPoll, Poll

(***************************************************************************)
(* What is in flight.                                                      *)
(***************************************************************************)

\* What is in flight for some requests is in flight for more of them.
LEMMA BeyondMonotonic ==
  ASSUME NEW M, NEW N, M \subseteq N, Beyond(M)
  PROVE  Beyond(N)
<1>1. EventsOf(M) \subseteq EventsOf(N) /\ ToldOf(M) \subseteq ToldOf(N)
  BY DEF EventsOf, ToldOf
<1>2. /\ Seq(M) \subseteq Seq(N)
      /\ Seq(EventsOf(M)) \subseteq Seq(EventsOf(N))
      /\ Seq(ToldOf(M)) \subseteq Seq(ToldOf(N))
  BY <1>1, SeqMonotonic
<1> QED BY <1>2 DEF Beyond

\* A handler's queue of events stays within the requests in flight.
LEMMA QueueInFlight ==
  ASSUME NEW M \in SUBSET Requests, pending_events \in [Conns -> Seq(EventsOf(M))],
         NEW c \in Conns, NEW type \in {"request", "success", "failed"}, NEW r \in Requests,
         \/ Queue(c, type, r) /\ r \in M
         \/ Pop(c, type, r)
  PROVE  /\ pending_events' \in [Conns -> Seq(EventsOf(M))]
         /\ r \in M
<1>1. pending_events[c] \in Seq(EventsOf(M))
  OBVIOUS
<1>2. CASE Queue(c, type, r) /\ r \in M
  <2>1. [type |-> type, req |-> r] \in EventsOf(M)
    BY <1>2 DEF EventsOf, Events
  <2> QED BY <1>1, <1>2, <2>1 DEF Queue
<1>3. CASE Pop(c, type, r)
  <2>1. Head(pending_events[c]) \in EventsOf(M) /\ Tail(pending_events[c]) \in Seq(EventsOf(M))
    BY <1>1, <1>3 DEF Pop
  <2>2. r \in M
    BY <2>1, <1>3 DEF Pop, EventsOf
  <2> QED BY <1>3, <2>1, <2>2 DEF Pop
<1> QED BY <1>2, <1>3

\* The transport is told only of requests that failed.
LEMMA FailInFlight ==
  ASSUME NEW M \in SUBSET Requests, pending_to_transport \in Seq(ToldOf(M)),
         NEW rs \in Seq(M), Fail(rs)
  PROVE  pending_to_transport' \in Seq(ToldOf(M))
<1>1. \A r \in M : Failed(r) \in ToldOf(M)
  BY DEF Failed, ToldOf, Told, Requests
<1>2. [i \in DOMAIN rs |-> Failed(rs[i])] \in Seq(ToldOf(M))
  BY <1>1
<1> QED BY <1>2 DEF Fail

\* A request that is passed on goes to a handler, and a listener's is kept.
LEMMA DispatchBeyond ==
  ASSUME TypeOK, NEW M \in SUBSET Requests, Beyond(M), NEW r \in M, Dispatch(r)
  PROVE  /\ listeners' \in [Addrs -> (Listens \cap M) \cup {None}]
         /\ pending_events' \in [Conns -> Seq(EventsOf(M))]
<1>1. listeners' \in [Addrs -> (Listens \cap M) \cup {None}]
  BY DEF Dispatch, Beyond
<1>2. CASE \E c \in live : Queue(c, "request", r)
  <2>1. PICK c \in live : Queue(c, "request", r)
    BY <1>2
  <2>2. pending_events' \in [Conns -> Seq(EventsOf(M))]
    BY <2>1, QueueInFlight DEF Beyond, TypeOK
  <2> QED BY <1>1, <2>2
<1>3. CASE UNCHANGED pending_events
  BY <1>1, <1>3 DEF Beyond
<1> QED BY <1>2, <1>3 DEF Dispatch

\* Concatenation is associative.
LEMMA Regroup ==
  ASSUME NEW S, NEW a \in Seq(S), NEW b \in Seq(S), NEW c \in Seq(S)
  PROVE  a \o (b \o c) = (a \o b) \o c
<1>1. /\ a \o b \in Seq(S) /\ b \o c \in Seq(S)
      /\ Len(a \o b) = Len(a) + Len(b) /\ Len(b \o c) = Len(b) + Len(c)
  OBVIOUS
<1>2. /\ (a \o b) \o c \in Seq(S) /\ a \o (b \o c) \in Seq(S)
      /\ Len((a \o b) \o c) = Len(a) + Len(b) + Len(c)
      /\ Len(a \o (b \o c)) = Len(a) + Len(b) + Len(c)
  BY <1>1
<1>3. ASSUME NEW i \in 1..Len(a) + Len(b) + Len(c)
      PROVE  ((a \o b) \o c)[i] = (a \o (b \o c))[i]
  <2>1. CASE i <= Len(a)
    BY <1>1, <2>1
  <2>2. CASE i > Len(a) /\ i <= Len(a) + Len(b)
    BY <1>1, <2>2
  <2>3. CASE i > Len(a) + Len(b)
    BY <1>1, <2>3
  <2> QED BY <2>1, <2>2, <2>3
<1> QED BY <1>2, <1>3, SeqEqual

\* What was told and not heard: a step of the behaviour appends to it.
Unheard == to_transport \o pending_to_transport
Tells   == \E t \in Seq(Told) : Unheard' = Unheard \o t

\* What is told waits behind what was told before.
LEMMA TellsLater ==
  ASSUME TypeOK, UNCHANGED to_transport,
         \/ UNCHANGED pending_to_transport
         \/ \E e \in Told : pending_to_transport' = Append(pending_to_transport, e)
         \/ \E t \in Seq(Told) : pending_to_transport' = pending_to_transport \o t
  PROVE  Tells
<1>1. to_transport \in Seq(Told) /\ pending_to_transport \in Seq(Told)
  BY DEF TypeOK
<1>2. ASSUME NEW t \in Seq(Told), pending_to_transport' = pending_to_transport \o t
      PROVE  Tells
  <2>1. to_transport \o (pending_to_transport \o t)
          = (to_transport \o pending_to_transport) \o t
    BY <1>1, Regroup
  <2>2. Unheard' = to_transport \o (pending_to_transport \o t)
    BY <1>2, Zenon DEF Unheard
  <2>3. Unheard' = Unheard \o t
    BY <2>1, <2>2, Zenon DEF Unheard
  <2> QED BY <2>3, Zenon DEF Tells
<1>3. ASSUME UNCHANGED pending_to_transport
      PROVE  Tells
  <2>1. pending_to_transport \o <<>> = pending_to_transport /\ <<>> \in Seq(Told)
    BY <1>1, ConcatEmptySeq, EmptySeq
  <2> QED BY <1>2, <1>3, <2>1
<1>4. ASSUME NEW e \in Told, pending_to_transport' = Append(pending_to_transport, e)
      PROVE  Tells
  <2>1. /\ Append(pending_to_transport, e) = pending_to_transport \o <<e>>
        /\ <<e>> \in Seq(Told)
    BY <1>1, AppendIsConcat
  <2> QED BY <1>2, <1>4, <2>1
<1> QED BY <1>2, <1>3, <1>4

\* What fits the channel and what is left of it are what was told.
LEMMA FlushTells ==
  ASSUME TypeOK, ChannelsBounded, NEW told \in Seq(Told), Flush(told)
  PROVE  Unheard' = to_transport \o told
<1> DEFINE room == TransportCap - Len(to_transport)
           m    == IF Len(told) < room THEN Len(told) ELSE room
<1>1. /\ to_transport' = to_transport \o SubSeq(told, 1, m)
      /\ pending_to_transport' = SubSeq(told, m + 1, Len(told))
  BY DEF Flush
<1>2. m \in 0..Len(told) /\ to_transport \in Seq(Told)
  BY CapsPositive DEF TypeOK, ChannelsBounded
<1> HIDE DEF m
<1>3. SubSeq(told, 1, m) \in Seq(Told) /\ SubSeq(told, m + 1, Len(told)) \in Seq(Told)
  BY <1>2
<1>4. SubSeq(told, 1, m) \o SubSeq(told, m + 1, Len(told)) = told
  <2>1. /\ 1 \in 1..Len(told) + 1 /\ m \in 1 - 1..Len(told) /\ Len(told) \in m..Len(told)
    BY <1>2
  <2>2. SubSeq(told, 1, m) \o SubSeq(told, m + 1, Len(told)) = SubSeq(told, 1, Len(told))
    BY <2>1, ConcatAdjacentSubSeq, Zenon
  <2> QED BY <2>2, SubSeqFull, Zenon
<1> DEFINE a == SubSeq(told, 1, m)
           b == SubSeq(told, m + 1, Len(told))
<1>5. a \in Seq(Told) /\ b \in Seq(Told) /\ a \o b = told
  BY <1>3, <1>4
<1>6. Unheard' = (to_transport \o a) \o b
  BY <1>1, Zenon DEF Unheard
<1> HIDE DEF a, b
<1>7. to_transport \o (a \o b) = (to_transport \o a) \o b
  <2>1. \A x, y, z \in Seq(Told) : x \o (y \o z) = (x \o y) \o z
    BY Regroup
  <2> QED BY <1>2, <1>5, <2>1, Zenon
<1> QED BY <1>5, <1>6, <1>7, Zenon

\* The rest of a poll tells the transport of listeners that are kept.
LEMMA DeliverBeyond ==
  ASSUME TypeOK, ChannelsBounded, NEW M \in SUBSET Requests, Beyond(M), DeliverAndFlush
  PROVE  /\ pending_to_transport' \in Seq(ToldOf(M))
         /\ to_transport' \in Seq(ToldOf(M))
         /\ Tells
<1> DEFINE new == pending_new_connections
           successes(n) == [k \in 1..n |-> [type |-> "ListenSuccess", req |-> ListenerOf(new[k])]]
           told(n) == pending_to_transport \o successes(n)
<1>1. PICK n \in 0..Len(new) :
        /\ Fits(n)
        /\ \/ pending_to_transport' = told(n) /\ UNCHANGED to_transport
           \/ Flush(told(n))
  BY DEF DeliverAndFlush, PutBack
<1>2. new \in Seq(Forwarded) /\ Len(new) \in Nat /\ n \in Nat
  BY DEF TypeOK
<1>3. told(n) \in Seq(ToldOf(M))
  <2>1. ASSUME NEW k \in 1..n
        PROVE  ListenerOf(new[k]) \in Listens \cap M
    <3>1. new[k] \in Forwarded
      BY <1>2
    <3>2. ListenAddr[new[k]] \in Addrs
      BY <3>1, AddressesKnown
    <3>3. ListenerOf(new[k]) \in (Listens \cap M) \cup {None}
      BY <3>2 DEF ListenerOf, Beyond
    <3> QED BY <1>1, <3>3, RequestsDisjoint DEF Fits, IsOpen
  <2>2. \A k \in 1..n : [type |-> "ListenSuccess", req |-> ListenerOf(new[k])] \in ToldOf(M)
    BY <2>1 DEF ToldOf, Told
  <2>3. successes(n) \in Seq(ToldOf(M))
    BY <2>2, <1>2
  <2> QED BY <2>3 DEF Beyond
<1>5. Tells
  <2>1. /\ told(n) \in Seq(Told) /\ successes(n) \in Seq(Told)
        /\ to_transport \in Seq(Told) /\ pending_to_transport \in Seq(Told)
    BY <1>3 DEF TypeOK, ToldOf
  <2> HIDE DEF successes
  <2>2. ASSUME Flush(told(n)) PROVE Tells
    <3>1. Unheard' = to_transport \o (pending_to_transport \o successes(n))
      BY <2>1, <2>2, FlushTells
    <3>2. to_transport \o (pending_to_transport \o successes(n)) = Unheard \o successes(n)
      BY <2>1, Regroup DEF Unheard
    <3> QED BY <2>1, <3>1, <3>2, Zenon DEF Tells
  <2>3. ASSUME pending_to_transport' = told(n), UNCHANGED to_transport PROVE Tells
    BY <2>1, <2>3, TellsLater
  <2> QED BY <1>1, <2>2, <2>3
<1> HIDE DEF told
<1>4. CASE Flush(told(n))
  <2> DEFINE room == TransportCap - Len(to_transport)
             m    == IF Len(told(n)) < room THEN Len(told(n)) ELSE room
  <2>1. /\ to_transport' = to_transport \o SubSeq(told(n), 1, m)
        /\ pending_to_transport' = SubSeq(told(n), m + 1, Len(told(n)))
    BY <1>4 DEF Flush
  <2>2. m \in Nat /\ m <= Len(told(n))
    BY <1>3, CapsPositive DEF TypeOK, ChannelsBounded
  <2>3. SubSeq(told(n), 1, m) \in Seq(ToldOf(M))
    BY <1>3, <2>2
  <2>4. SubSeq(told(n), m + 1, Len(told(n))) \in Seq(ToldOf(M))
    BY <1>3, <2>2, RestIsSeq
  <2>5. to_transport' \in Seq(ToldOf(M))
    BY <2>1, <2>3 DEF Beyond
  <2> QED BY <1>5, <2>1, <2>4, <2>5
<1> QED BY <1>1, <1>3, <1>4, <1>5 DEF Beyond

\* The behaviour gets requests from the transport only.
LEMMA BeyondStep ==
  ASSUME TypeOK, ChannelsBounded, NEW M \in SUBSET Requests, Beyond(M), [Next]_vars,
         PollSend \/ PollDial \/ PollPark => Head(from_transport) \in M
  PROVE  Beyond(M)'
<1> USE DEF swarmVars, transportVars, handlerVars, requestVars, outVars
<1>0. <<>> \in Seq(M)
  BY EmptySeq
<1>1. ASSUME NEW r \in Requests, Request(r)
      PROVE  Beyond(M)'
  BY <1>1 DEF Request, Beyond
<1>2. ASSUME NEW l \in Listens, RemoveListener(l) \/ ListenerReceive(l)
      PROVE  Beyond(M)'
  BY <1>2 DEF RemoveListener, ListenerReceive, Beyond
<1>3. ASSUME TransportReceive
      PROVE  Beyond(M)'
  <2>1. to_transport' \in Seq(ToldOf(M))
    BY <1>3 DEF TransportReceive, Beyond
  <2> QED BY <1>3, <2>1 DEF TransportReceive, Beyond
<1>4. ASSUME OnDialFailure
      PROVE  Beyond(M)'
  <2>1. waiting \in Seq(M) /\ Fail(waiting)
    BY <1>4 DEF OnDialFailure, Beyond
  <2>2. pending_to_transport' \in Seq(ToldOf(M))
    BY <2>1, FailInFlight DEF Beyond
  <2> QED BY <1>0, <1>4, <2>2 DEF OnDialFailure, Beyond
<1>5. ASSUME NEW c \in Conns, OnConnectionEstablished(c)
      PROVE  Beyond(M)'
  <2>1. \/ waiting' = <<>> /\ pending' = pending \o waiting
        \/ UNCHANGED <<waiting, pending>>
    BY <1>5 DEF OnConnectionEstablished
  <2>2. waiting' \in Seq(M)
    BY <1>0, <2>1 DEF Beyond
  <2>3. pending \o waiting \in Seq(M)
    BY DEF Beyond
  <2>4. pending' \in Seq(M)
    BY <2>1, <2>3 DEF Beyond
  <2> QED BY <1>5, <2>2, <2>4 DEF OnConnectionEstablished, Beyond
<1>6. ASSUME NEW c \in Conns, OnConnectionClosed(c)
      PROVE  Beyond(M)'
  <2>1. [type |-> "PeerClosed", conn |-> c] \in ToldOf(M)
    BY DEF ToldOf, Told
  <2>2. pending_to_transport' \in Seq(ToldOf(M))
    BY <1>6, <2>1 DEF OnConnectionClosed, Beyond
  <2>3. pending_events' \in [Conns -> Seq(EventsOf(M))]
    BY <1>6, EmptySeq DEF OnConnectionClosed, Beyond
  <2> QED BY <1>6, <2>2, <2>3 DEF OnConnectionClosed, Beyond
<1>7. ASSUME NEW c \in Conns, NEW r \in Requests, HandlerPollRequest(c, r)
      PROVE  Beyond(M)'
  <2>1. Pop(c, "request", r)
    BY <1>7 DEF HandlerPollRequest
  <2>2. pending_events' \in [Conns -> Seq(EventsOf(M))] /\ r \in M
    BY <2>1, QueueInFlight DEF Beyond
  <2> QED BY <1>7, <2>2 DEF HandlerPollRequest, Beyond
<1>8. ASSUME NEW c \in Conns, NEW r \in Requests, OnUpgradeEnd(c, r)
      PROVE  Beyond(M)'
  <2>1. pending_events' \in [Conns -> Seq(EventsOf(M))] /\ r \in M
    BY <1>8, QueueInFlight DEF OnUpgradeEnd, Beyond
  <2>2. r \in Dials \/ /\ [type |-> "ListenSuccess", req |-> r] \in ToldOf(M)
                       /\ Failed(r) \in ToldOf(M)
    BY <2>1 DEF Requests, Failed, ToldOf, Told
  <2>3. \/ UNCHANGED pending_to_transport
        \/ \E e \in ToldOf(M) : pending_to_transport' = Append(pending_to_transport, e)
    BY <1>8, <2>2 DEF OnUpgradeEnd
  <2>4. ASSUME NEW e \in ToldOf(M), pending_to_transport' = Append(pending_to_transport, e)
        PROVE  pending_to_transport' \in Seq(ToldOf(M))
    BY <2>4 DEF Beyond
  <2>5. pending_to_transport' \in Seq(ToldOf(M))
    BY <2>3, <2>4 DEF Beyond
  <2> QED BY <1>8, <2>1, <2>5 DEF OnUpgradeEnd, Beyond
<1>9. ASSUME NEW c \in Conns, NEW r \in Requests, UpgradeEnds(c, r)
      PROVE  Beyond(M)'
  <2>1. r \in M
    BY <1>9 DEF UpgradeEnds, Beyond
  <2>2. PICK type \in {"success", "failed"} : Queue(c, type, r)
    BY <1>9 DEF UpgradeEnds
  <2>3. pending_events' \in [Conns -> Seq(EventsOf(M))]
    BY <2>1, <2>2, QueueInFlight DEF Beyond
  <2> QED BY <1>9, <2>3 DEF UpgradeEnds, Beyond
<1>10. ASSUME NEW c \in Conns, OnNewConnection(c) \/ \E i \in Forwarded : Accept(c, i)
       PROVE  Beyond(M)'
  BY <1>10 DEF OnNewConnection, Accept, Beyond
<1>11. ASSUME PollSend
       PROVE  Beyond(M)'
  <2>1. Head(from_transport) \in M
    BY <1>11
  <2>2. Dispatch(Head(from_transport))
    BY <1>11 DEF PollSend
  <2> QED BY <1>11, <2>1, <2>2, DispatchBeyond DEF PollSend, Beyond
<1>12. ASSUME PollPending
       PROVE  Beyond(M)'
  <2>1. Head(pending) \in M /\ Tail(pending) \in Seq(M)
    BY <1>12 DEF PollPending, Beyond
  <2>2. Dispatch(Head(pending))
    BY <1>12 DEF PollPending
  <2> QED BY <1>12, <2>1, <2>2, DispatchBeyond DEF PollPending, Beyond
<1>13. ASSUME PollDial
       PROVE  Beyond(M)'
  <2> DEFINE parked == Append(waiting, Head(from_transport))
  <2>1. parked \in Seq(M)
    BY <1>13 DEF PollDial, Beyond
  <2>2. CASE live = {}
    BY <1>13, <2>1, <2>2 DEF PollDial, Beyond
  <2>3. CASE live # {}
    <3>1. Fail(parked) /\ waiting' = <<>>
      BY <1>13, <2>3 DEF PollDial
    <3>2. pending_to_transport' \in Seq(ToldOf(M))
      BY <2>1, <3>1, FailInFlight DEF Beyond
    <3>3. waiting' \in Seq(M)
      BY <1>0, <3>1
    <3> QED BY <1>13, <2>1, <3>2, <3>3 DEF PollDial, Beyond
  <2> QED BY <2>2, <2>3
<1>14. ASSUME PollPark
       PROVE  Beyond(M)'
  <2>1. Append(waiting, Head(from_transport)) \in Seq(M)
    BY <1>14 DEF PollPark, Beyond
  <2>2. DeliverAndFlush
    BY <1>14 DEF PollPark
  <2> QED BY <1>14, <2>1, <2>2, DeliverBeyond DEF PollPark, Beyond
<1>15. ASSUME PollRest
       PROVE  Beyond(M)'
  <2>1. DeliverAndFlush
    BY <1>15 DEF PollRest
  <2> QED BY <1>15, <2>1, DeliverBeyond DEF PollRest, Beyond
<1>16. CASE UNCHANGED vars
  BY <1>16 DEF vars, Beyond
<1> QED BY <1>1, <1>2, <1>3, <1>4, <1>5, <1>6, <1>7, <1>8, <1>9, <1>10, <1>11, <1>12,
           <1>13, <1>14, <1>15, <1>16 DEF Next, HandlerPoll, Poll

\* What is on its way was requested.
LEMMA OnTheWay ==
  ASSUME [Next]_vars
  PROVE  \/ UNCHANGED from_transport
         \/ \E r \in Requests : Request(r)
         \/ /\ PollSend \/ PollDial \/ PollPark
            /\ from_transport # <<>> /\ from_transport' = Tail(from_transport)
BY DEF Next, RemoveListener, ListenerReceive, TransportReceive, OnDialFailure,
       OnConnectionEstablished, OnConnectionClosed, HandlerPoll, OnNewConnection,
       HandlerPollRequest, OnUpgradeEnd, UpgradeEnds, Accept, Poll, PollSend, PollPending,
       PollDial, PollPark, PollRest, vars, swarmVars, transportVars, handlerVars,
       requestVars, outVars

LEMMA InFlightStep ==
  ASSUME TypeOK, ChannelsBounded, NEW M \in SUBSET Requests, InFlight(M), [Next]_vars,
         \A r \in Requests : Request(r) => r \in M
  PROVE  InFlight(M)'
<1>1. from_transport' \in Seq(M)
  <2>1. CASE UNCHANGED from_transport
    BY <2>1 DEF InFlight
  <2>2. ASSUME NEW r \in Requests, Request(r)
        PROVE  from_transport' \in Seq(M)
    <3>1. r \in M /\ from_transport' = Append(from_transport, r)
      BY <2>2 DEF Request
    <3> QED BY <3>1 DEF InFlight
  <2>3. CASE from_transport # <<>> /\ from_transport' = Tail(from_transport)
    BY <2>3 DEF InFlight
  <2> QED BY <2>1, <2>2, <2>3, OnTheWay
<1>2. PollSend \/ PollDial \/ PollPark => Head(from_transport) \in M
  BY DEF PollSend, PollDial, PollPark, InFlight
<1>3. Beyond(M)'
  BY <1>2, BeyondStep DEF InFlight
<1> QED BY <1>1, <1>3 DEF InFlight

\* What is in flight, is kept or is told of was requested.
LEMMA RequestedStep ==
  ASSUME TypeOK, ChannelsBounded, InFlight(Requested), [Next]_vars
  PROVE  InFlight(Requested)'
<1>1. PICK M : M = Requested'
  OBVIOUS
<1>2. M \in SUBSET Requests
  BY <1>1 DEF Requested
<1>3. Requested \subseteq M
  BY <1>1, AnswersKept DEF Requested
<1>4. InFlight(M)
  BY <1>3, BeyondMonotonic, SeqMonotonic DEF InFlight
<1>5. ASSUME NEW r \in Requests, Request(r)
      PROVE  r \in M
  BY <1>1, <1>5 DEF Request, Requested, TypeOK
<1>6. InFlight(M)'
  BY <1>2, <1>4, <1>5, InFlightStep
<1> QED BY <1>1, <1>6

(***************************************************************************)
(* Listeners.                                                              *)
(***************************************************************************)

\* Only the transport makes a request a requested one.
LEMMA OnlyRequestMakes ==
  ASSUME TypeOK, InFlight(Requested), [Next]_vars,
         NEW r \in Requests, answer[r] = "none", answer'[r] # "none"
  PROVE  Request(r)
<1> USE DEF swarmVars, transportVars, handlerVars, requestVars, outVars
<1> SUFFICES ASSUME ~ Request(r)
             PROVE  answer'[r] = "none"
  OBVIOUS
<1>1. r \notin Requested
  BY DEF Requested
<1>2. ASSUME NEW rs \in Seq(Requested), Fail(rs)
      PROVE  answer'[r] = "none"
  <2>1. Range(rs) \subseteq Requested
    BY DEF Range
  <2> QED BY <1>1, <1>2, <2>1 DEF Fail
<1>3. ASSUME NEW q \in Requested, Dispatch(q)
      PROVE  answer'[r] = "none"
  <2>1. q # r /\ q \in Requests
    BY <1>1 DEF Requested
  <2> QED BY <1>3, <2>1 DEF Dispatch, TypeOK
<1>4. ASSUME NEW q \in Requests, Request(q)
      PROVE  answer'[r] = "none"
  BY <1>1, <1>4 DEF Request, TypeOK
<1>5. ASSUME TransportReceive
      PROVE  answer'[r] = "none"
  <2> DEFINE e == Head(to_transport)
  <2>1. e \in ToldOf(Requested)
    BY <1>5 DEF TransportReceive, InFlight, Beyond
  <2>2. e.type \in {"ListenSuccess", "ListenFailed"} => e.req # r
    BY <1>1, <2>1 DEF ToldOf
  <2> QED BY <1>5, <2>2 DEF TransportReceive
<1>6. ASSUME OnDialFailure
      PROVE  answer'[r] = "none"
  BY <1>6, <1>2 DEF OnDialFailure, InFlight, Beyond
<1>7. ASSUME NEW c \in Conns, OnConnectionClosed(c)
      PROVE  answer'[r] = "none"
  <2>1. pending_events[c] \in Seq(EventsOf(Requested))
    BY DEF InFlight, Beyond
  <2>2. Range(pending_events[c]) \subseteq EventsOf(Requested)
    BY <2>1 DEF Range
  <2>3. \A e \in Range(pending_events[c]) : e.req \in Requested
    BY <2>2 DEF EventsOf
  <2>4. r \notin HeldBy(c)
    BY <1>1, <2>3 DEF HeldBy, InFlight, Beyond
  <2> QED BY <1>7, <2>4 DEF OnConnectionClosed
<1>8. ASSUME NEW c \in Conns, NEW q \in Requests, OnUpgradeEnd(c, q)
      PROVE  answer'[r] = "none"
  <2>1. Requested \in SUBSET Requests
    BY DEF Requested
  <2>2. PICK type \in {"success", "failed"} : Pop(c, type, q)
    BY <1>8 DEF OnUpgradeEnd
  <2>3. q # r
    BY <1>1, <2>1, <2>2, QueueInFlight DEF InFlight, Beyond
  <2> QED BY <1>8, <2>3 DEF OnUpgradeEnd, TypeOK
<1>9. ASSUME PollSend
      PROVE  answer'[r] = "none"
  <2>1. Head(from_transport) \in Requested
    BY <1>9 DEF PollSend, InFlight
  <2> QED BY <1>9, <2>1, <1>3 DEF PollSend
<1>10. ASSUME PollPending
       PROVE  answer'[r] = "none"
  <2>1. Head(pending) \in Requested
    BY <1>10 DEF PollPending, InFlight, Beyond
  <2> QED BY <1>10, <2>1, <1>3 DEF PollPending
<1>11. ASSUME PollDial
       PROVE  answer'[r] = "none"
  <2>1. Append(waiting, Head(from_transport)) \in Seq(Requested)
    BY <1>11 DEF PollDial, InFlight, Beyond
  <2>2. CASE live = {}
    BY <1>11, <2>2 DEF PollDial
  <2>3. CASE live # {}
    BY <1>11, <2>1, <2>3, <1>2 DEF PollDial
  <2> QED BY <2>2, <2>3
<1>12. ASSUME \/ \E k \in Listens : RemoveListener(k) \/ ListenerReceive(k)
              \/ \E c \in Conns :
                   \/ OnConnectionEstablished(c) \/ OnNewConnection(c)
                   \/ \E q \in Requests : HandlerPollRequest(c, q) \/ UpgradeEnds(c, q)
                   \/ \E i \in Forwarded : Accept(c, i)
              \/ PollPark \/ PollRest
              \/ UNCHANGED vars
       PROVE  answer'[r] = "none"
  <2>1. UNCHANGED answer
    BY <1>12 DEF RemoveListener, ListenerReceive, OnConnectionEstablished, OnNewConnection,
                 HandlerPollRequest, UpgradeEnds, Accept, PollPark, PollRest, vars
  <2> QED BY <2>1
<1> QED BY <1>4, <1>5, <1>6, <1>7, <1>8, <1>9, <1>10, <1>11, <1>12
        DEF Next, HandlerPoll, Poll

\* A listener is asked for only when those before it were removed, and none
\* comes back (endpoint/transport.rs:75-77, 99, 104-117).
LEMMA OneListenerStep ==
  ASSUME TypeOK, InFlight(Requested), OneOpenListener, [Next]_vars
  PROVE  OneOpenListener' /\ dropped \subseteq dropped'
<1> USE DEF swarmVars, transportVars, handlerVars, requestVars, outVars
<1>1. dropped \subseteq dropped'
  <2>1. \/ dropped' = dropped
        \/ \E l \in Listens : RemoveListener(l)
        \/ TransportReceive
    BY DEF Next, Request, ListenerReceive, OnDialFailure, OnConnectionEstablished,
           OnConnectionClosed, HandlerPoll, OnNewConnection, HandlerPollRequest,
           OnUpgradeEnd, UpgradeEnds, Accept, Poll, PollSend, PollPending, PollDial,
           PollPark, PollRest, vars
  <2> QED BY <2>1 DEF RemoveListener, TransportReceive
<1>2. ASSUME NEW l \in Listens, answer[l] = "none", answer'[l] # "none",
             NEW k \in Listens, k # l, answer'[k] # "none"
      PROVE  k \in dropped
  <2>1. l \in Requests
    BY DEF Requests
  <2>2. Request(l)
    BY <1>2, <2>1, OnlyRequestMakes
  <2>3. answer'[k] = answer[k]
    BY <1>2, <2>1, <2>2 DEF Request, TypeOK
  <2> QED BY <1>2, <2>2, <2>3 DEF Request
<1>3. ASSUME NEW k \in Listens, NEW l \in Listens,
             answer'[k] # "none", answer'[l] # "none", k # l
      PROVE  k \in dropped' \/ l \in dropped'
  BY <1>1, <1>2, <1>3 DEF OneOpenListener
<1> QED BY <1>1, <1>3 DEF OneOpenListener

\* A sender is kept under the address its request has (endpoint/behaviour.rs:383).
LEMMA KeptStep ==
  ASSUME TypeOK, KeptByAddress, [Next]_vars
  PROVE  KeptByAddress'
<1> USE DEF swarmVars, transportVars, handlerVars, requestVars, outVars
<1>1. ASSUME NEW r \in Requests, Dispatch(r)
      PROVE  KeptByAddress'
  BY <1>1, AddressesKnown DEF Dispatch, KeptByAddress, TypeOK
<1>2. ASSUME PollSend
      PROVE  KeptByAddress'
  <2>1. Head(from_transport) \in Requests /\ Dispatch(Head(from_transport))
    BY <1>2 DEF PollSend, TypeOK
  <2> QED BY <2>1, <1>1
<1>3. ASSUME PollPending
      PROVE  KeptByAddress'
  <2>1. Head(pending) \in Requests /\ Dispatch(Head(pending))
    BY <1>3 DEF PollPending, TypeOK
  <2> QED BY <2>1, <1>1
<1>4. CASE UNCHANGED listeners
  BY <1>4 DEF KeptByAddress
<1>5. UNCHANGED listeners \/ PollSend \/ PollPending
  BY DEF Next, Request, RemoveListener, ListenerReceive, TransportReceive, OnDialFailure,
         OnConnectionEstablished, OnConnectionClosed, HandlerPoll, OnNewConnection,
         HandlerPollRequest, OnUpgradeEnd, UpgradeEnds, Accept, Poll, PollDial, PollPark,
         PollRest, vars
<1> QED BY <1>2, <1>3, <1>4, <1>5

\* The senders kept lead to one open listener at most.
LEMMA OneKept ==
  ASSUME InFlight(Requested), OneOpenListener,
         NEW a \in Addrs, NEW b \in Addrs, IsOpen(listeners[a]), IsOpen(listeners[b])
  PROVE  listeners[a] = listeners[b]
<1>1. ASSUME NEW x \in Addrs, IsOpen(listeners[x])
      PROVE  /\ listeners[x] \in Listens /\ listeners[x] \notin dropped
             /\ answer[listeners[x]] # "none"
  BY <1>1, RequestsDisjoint DEF InFlight, Beyond, IsOpen, Requested
<1> QED BY <1>1 DEF OneOpenListener

\* What a poll sends fits the channels, and a listener is sent connections of
\* addresses whose sender is its own (endpoint/behaviour.rs:404-479).
LEMMA DeliverChannels ==
  ASSUME TypeOK, ChannelsBounded, InFlight(Requested), OneOpenListener, DeliverAndFlush
  PROVE  /\ ChannelsBounded'
         /\ \A l \in Listens : \A k \in 1..Len(incoming'[l]) :
              \/ k \in 1..Len(incoming[l]) /\ incoming'[l][k] = incoming[l][k]
              \/ incoming'[l][k] \in Forwarded /\ ListenerOf(incoming'[l][k]) = l
<1> DEFINE new == pending_new_connections
           successes(n) == [k \in 1..n |-> [type |-> "ListenSuccess", req |-> ListenerOf(new[k])]]
           told(n) == pending_to_transport \o successes(n)
<1>1. PICK n \in 0..Len(new) :
        /\ Fits(n)
        /\ incoming' = [l \in Listens |->
             IF n > 0 /\ l = ListenerOf(new[1]) THEN incoming[l] \o SubSeq(new, 1, n)
                                                ELSE incoming[l]]
        /\ UNCHANGED to_transport \/ Flush(told(n))
  BY DEF DeliverAndFlush, PutBack
<1>2. new \in Seq(Forwarded) /\ Len(new) \in Nat /\ n \in Nat
  BY DEF TypeOK
<1>3. /\ SubSeq(new, 1, n) \in Seq(Forwarded)
      /\ Len(SubSeq(new, 1, n)) = n
      /\ \A k \in 1..n : SubSeq(new, 1, n)[k] = new[k]
  BY <1>2
<1>4. ASSUME NEW k \in 1..n
      PROVE  new[k] \in Forwarded /\ ListenAddr[new[k]] \in Addrs /\ IsOpen(ListenerOf(new[k]))
  <2>1. new[k] \in Forwarded
    BY <1>2
  <2> QED BY <1>1, <2>1, AddressesKnown DEF Fits
<1>5. \A k \in 1..n : ListenerOf(new[k]) = ListenerOf(new[1])
  <2>1. ASSUME NEW k \in 1..n
        PROVE  ListenerOf(new[k]) = ListenerOf(new[1])
    <3>1. 1 \in 1..n
      BY <1>2
    <3> QED BY <1>4, <3>1, OneKept DEF ListenerOf
  <2> QED BY <2>1
<1>6. ASSUME NEW l \in Listens
      PROVE  /\ Len(incoming'[l]) <= ListenerCap
             /\ \A k \in 1..Len(incoming'[l]) :
                  \/ k \in 1..Len(incoming[l]) /\ incoming'[l][k] = incoming[l][k]
                  \/ incoming'[l][k] \in Forwarded /\ ListenerOf(incoming'[l][k]) = l
  <2>1. incoming[l] \in Seq(Forwarded) /\ Len(incoming[l]) \in Nat
    BY DEF TypeOK
  <2>2. CASE n > 0 /\ l = ListenerOf(new[1])
    <3>1. incoming'[l] = incoming[l] \o SubSeq(new, 1, n)
      BY <1>1, <2>2
    <3>2. /\ Len(incoming'[l]) = Len(incoming[l]) + n
          /\ \A k \in 1..(Len(incoming[l]) + n) :
               incoming'[l][k] = IF k <= Len(incoming[l]) THEN incoming[l][k]
                                 ELSE SubSeq(new, 1, n)[k - Len(incoming[l])]
      BY <1>3, <2>1, <3>1, ConcatProperties
    <3>3. Len(incoming[l]) + n <= ListenerCap
      <4>1. n \in 1..n
        BY <1>2, <2>2
      <4>2. ListenerOf(new[n]) = l
        BY <4>1, <1>5, <2>2
      <4> QED BY <4>1, <4>2, <1>1 DEF Fits
    <3>4. ASSUME NEW k \in 1..Len(incoming'[l]), k > Len(incoming[l])
          PROVE  incoming'[l][k] \in Forwarded /\ ListenerOf(incoming'[l][k]) = l
      <4>1. k - Len(incoming[l]) \in 1..n
        BY <2>1, <3>2, <3>4, <1>2
      <4>2. incoming'[l][k] = new[k - Len(incoming[l])]
        BY <1>2, <1>3, <2>1, <3>2, <3>4, <4>1
      <4>3. new[k - Len(incoming[l])] \in Forwarded
        BY <4>1, <1>4
      <4>4. ListenerOf(new[k - Len(incoming[l])]) = l
        BY <4>1, <1>5, <2>2
      <4> QED BY <4>2, <4>3, <4>4
    <3>5. ASSUME NEW k \in 1..Len(incoming'[l]), k <= Len(incoming[l])
          PROVE  k \in 1..Len(incoming[l]) /\ incoming'[l][k] = incoming[l][k]
      BY <1>2, <2>1, <3>2, <3>5
    <3> QED BY <2>1, <3>2, <3>3, <3>4, <3>5
  <2>3. CASE ~ (n > 0 /\ l = ListenerOf(new[1]))
    <3>1. incoming'[l] = incoming[l]
      BY <1>1, <2>3
    <3> QED BY <3>1 DEF ChannelsBounded
  <2> QED BY <2>2, <2>3
<1>7. Len(to_transport') <= TransportCap
  <2>1. CASE UNCHANGED to_transport
    BY <2>1 DEF ChannelsBounded
  <2>2. CASE Flush(told(n))
    <3> DEFINE room == TransportCap - Len(to_transport)
               m    == IF Len(told(n)) < room THEN Len(told(n)) ELSE room
    <3>1. successes(n) \in Seq(Told)
      <4>1. \A k \in 1..n : ListenerOf(new[k]) \in Listens
        BY <1>4 DEF IsOpen
      <4>2. \A k \in 1..n : [type |-> "ListenSuccess", req |-> ListenerOf(new[k])] \in Told
        BY <4>1 DEF Told
      <4> QED BY <4>2, <1>2
    <3>2. told(n) \in Seq(Told)
      BY <3>1 DEF TypeOK
    <3> HIDE DEF told
    <3>3. to_transport' = to_transport \o SubSeq(told(n), 1, m)
      BY <2>2 DEF Flush
    <3>4. m \in Nat /\ m <= Len(told(n)) /\ m <= room /\ room \in Nat /\ Len(to_transport) \in Nat
      BY <3>2, CapsPositive DEF TypeOK, ChannelsBounded
    <3>5. SubSeq(told(n), 1, m) \in Seq(Told) /\ Len(SubSeq(told(n), 1, m)) = m
      BY <3>2, <3>4
    <3>6. Len(to_transport') = Len(to_transport) + m
      BY <3>3, <3>5, ConcatProperties DEF TypeOK
    <3> QED BY <3>4, <3>6, CapsPositive
  <2> QED BY <1>1, <2>1, <2>2
<1> QED BY <1>6, <1>7 DEF ChannelsBounded

\* The channels stay within their capacity, and a listener gets connections
\* for its own address.
LEMMA ChannelsStep ==
  ASSUME TypeOK, ChannelsBounded, InFlight(Requested), OneOpenListener, KeptByAddress,
         DeliveredToItsAddress, [Next]_vars
  PROVE  ChannelsBounded' /\ DeliveredToItsAddress'
<1> USE DEF swarmVars, transportVars, handlerVars, requestVars, outVars
<1>1. ASSUME NEW l \in Listens, ListenerReceive(l)
      PROVE  ChannelsBounded' /\ DeliveredToItsAddress'
  <2> DEFINE q == incoming[l]
  <2>1. q \in Seq(Forwarded) /\ q # <<>>
    BY <1>1 DEF ListenerReceive, TypeOK
  <2>2. /\ Len(q) \in Nat \ {0} /\ Len(Tail(q)) = Len(q) - 1
        /\ \A k \in 1..Len(Tail(q)) : Tail(q)[k] = q[k + 1]
    BY <2>1, HeadTailProperties
  <2>3. /\ incoming'[l] = Tail(q)
        /\ \A k \in Listens \ {l} : incoming'[k] = incoming[k]
        /\ UNCHANGED to_transport
    BY <1>1 DEF ListenerReceive, TypeOK
  <2>4. ASSUME NEW k \in 1..Len(Tail(q))
        PROVE  ListenAddr[Tail(q)[k]] = LocalAddr[l]
    <3>1. k + 1 \in 1..Len(q) /\ Tail(q)[k] = q[k + 1]
      BY <2>2
    <3> QED BY <3>1 DEF DeliveredToItsAddress
  <2>5. DeliveredToItsAddress'
    BY <2>3, <2>4 DEF DeliveredToItsAddress
  <2>6. Len(Tail(q)) <= ListenerCap
    BY <2>2, CapsPositive DEF ChannelsBounded
  <2>7. ChannelsBounded'
    BY <2>3, <2>6 DEF ChannelsBounded
  <2> QED BY <2>5, <2>7
<1>2. ASSUME TransportReceive
      PROVE  ChannelsBounded' /\ DeliveredToItsAddress'
  <2>1. UNCHANGED incoming /\ to_transport # <<>> /\ to_transport' = Tail(to_transport)
    BY <1>2 DEF TransportReceive
  <2>2. Len(to_transport) \in Nat /\ Len(to_transport') = Len(to_transport) - 1
    BY <2>1, HeadTailProperties DEF TypeOK
  <2>3. Len(to_transport') <= TransportCap
    BY <2>2, CapsPositive DEF ChannelsBounded
  <2> QED BY <2>1, <2>3 DEF ChannelsBounded, DeliveredToItsAddress
<1>3. ASSUME DeliverAndFlush
      PROVE  ChannelsBounded' /\ DeliveredToItsAddress'
  <2>1. ASSUME NEW l \in Listens, NEW i \in Forwarded, ListenerOf(i) = l
        PROVE  ListenAddr[i] = LocalAddr[l]
    BY <2>1, AddressesKnown DEF KeptByAddress, ListenerOf
  <2>2. DeliveredToItsAddress'
    BY <1>3, <2>1, DeliverChannels DEF DeliveredToItsAddress
  <2> QED BY <1>3, <2>2, DeliverChannels
<1>4. CASE UNCHANGED <<incoming, to_transport>>
  BY <1>4 DEF ChannelsBounded, DeliveredToItsAddress
<1>5. \/ UNCHANGED <<incoming, to_transport>>
      \/ \E l \in Listens : ListenerReceive(l)
      \/ TransportReceive
      \/ DeliverAndFlush
  BY DEF Next, Request, RemoveListener, OnDialFailure, OnConnectionEstablished,
         OnConnectionClosed, HandlerPoll, OnNewConnection, HandlerPollRequest, OnUpgradeEnd,
         UpgradeEnds, Accept, Poll, PollSend, PollPending, PollDial, PollPark, PollRest, vars
<1> QED BY <1>1, <1>2, <1>3, <1>4, <1>5

(***************************************************************************)
(* The theorems.                                                           *)
(***************************************************************************)
LEMMA IInvInit ==
  ASSUME Init
  PROVE  IInv
<1>1. TypeOK
  BY TypeInit
<1>2. ParkedMeansConnecting /\ EstablishedIsLive /\ OneOpenListener
  BY DEF Init, ParkedMeansConnecting, EstablishedIsLive, OneOpenListener, Requests
<1>3. InFlight(Requested)
  <2>1. \A S : <<>> \in Seq(S)
    BY EmptySeq
  <2> QED BY <2>1 DEF Init, InFlight, Beyond
<1>4. KeptByAddress
  BY RequestsDisjoint DEF Init, KeptByAddress
<1>5. Len(<<>>) = 0
  OBVIOUS
<1>6. DeliveredToItsAddress /\ ChannelsBounded
  BY <1>5, CapsPositive DEF Init, DeliveredToItsAddress, ChannelsBounded
<1> QED BY <1>1, <1>2, <1>3, <1>4, <1>6 DEF IInv

LEMMA IInvStep ==
  ASSUME IInv, [Next]_vars
  PROVE  IInv'
BY TypeStep, ConnectionsStep, OneListenerStep, RequestedStep, KeptStep, ChannelsStep DEF IInv

LEMMA IInvHolds == Spec => []IInv
<1>1. Init => IInv
  BY IInvInit
<1>2. IInv /\ [Next]_vars => IInv'
  BY IInvStep
<1> QED BY <1>1, <1>2, PTL DEF Spec

\* Every variable keeps its type, and the transport is told of dials and of
\* listeners by the events meant for them.
THEOREM TypeCorrect == Spec => []TypeOK
<1>1. IInv => TypeOK
  BY DEF IInv
<1> QED BY <1>1, IInvHolds, PTL

\* Requests are parked only while the behaviour counts on a dial of its own
\* (endpoint/behaviour.rs:328-334, 94-107).
THEOREM ParkedRequestsWait == Spec => []ParkedMeansConnecting
<1>1. IInv => ParkedMeansConnecting
  BY DEF IInv
<1> QED BY <1>1, IInvHolds, PTL

\* A connection counts as established only while the swarm has it, however many
\* there are and in whatever order they close (endpoint/behaviour.rs:135-140).
THEOREM EstablishedConnectionsLive == Spec => []EstablishedIsLive
<1>1. IInv => EstablishedIsLive
  BY DEF IInv
<1> QED BY <1>1, IInvHolds, PTL

\* A listener only gets connections for its own address, however listeners are
\* removed and replaced (endpoint/behaviour.rs:383-389, 404-463).
THEOREM ListenersGetTheirOwn == Spec => []DeliveredToItsAddress
<1>1. IInv => DeliveredToItsAddress
  BY DEF IInv
<1> QED BY <1>1, IInvHolds, PTL

(***************************************************************************)
(* The forwarded connections that wait in the behaviour.                   *)
(***************************************************************************)
\* The first n of them are delivered or find no open listener; the others stay
\* as they are, in front of what comes.
InTurn(n) ==
  /\ IsPrefix(SubSeq(pending_new_connections, n + 1, Len(pending_new_connections)),
              pending_new_connections')
  /\ \A k \in 1..n :
       LET l == ListenerOf(pending_new_connections[k])
       IN IsOpen(l) => pending_new_connections[k] \in Range(incoming'[l])

LEMMA PrefixOfItself == ASSUME NEW S, NEW s \in Seq(S) PROVE IsPrefix(s, s)
BY DEF IsPrefix

LEMMA PrefixOfMore ==
  ASSUME NEW S, NEW s \in Seq(S), NEW x \in S PROVE IsPrefix(s, Append(s, x))
<1>1. /\ Append(s, x) \in Seq(S) /\ Len(Append(s, x)) = Len(s) + 1 /\ Len(s) \in Nat
      /\ \A k \in 1..Len(s) : Append(s, x)[k] = s[k]
  BY AppendProperties
<1>2. SubSeq(Append(s, x), 1, Len(s)) = s
  BY <1>1, SubSeqProperties
<1>3. SubSeq(s, 1, Len(s)) = s
  OBVIOUS
<1> QED BY <1>1, <1>2, <1>3 DEF IsPrefix

\* A poll that delivers takes them from the front, and puts back the one that
\* has to wait (endpoint/behaviour.rs:404-433).
LEMMA DeliverInTurn ==
  ASSUME IInv, DeliverAndFlush
  PROVE  \E n \in 0..Len(pending_new_connections) : InTurn(n)
<1> DEFINE new == pending_new_connections
<1>1. PICK n \in 0..Len(new) :
        /\ Fits(n)
        /\ incoming' = [l \in Listens |->
             IF n > 0 /\ l = ListenerOf(new[1]) THEN incoming[l] \o SubSeq(new, 1, n)
                                                ELSE incoming[l]]
        /\ \/ new' = SubSeq(new, n + 1, Len(new))
           \/ /\ n < Len(new) /\ ~ IsOpen(ListenerOf(new[n + 1]))
              /\ new' = SubSeq(new, n + 2, Len(new))
  BY DEF DeliverAndFlush, PutBack
<1>2. /\ new \in Seq(Forwarded) /\ Len(new) \in Nat /\ n \in Nat /\ n <= Len(new)
      /\ incoming \in [Listens -> Seq(Forwarded)]
  BY DEF IInv, TypeOK
<1>3. ASSUME NEW k \in 1..n, IsOpen(ListenerOf(new[k]))
      PROVE  new[k] \in Range(incoming'[ListenerOf(new[k])])
  <2> DEFINE l == ListenerOf(new[k])
             sent == SubSeq(new, 1, n)
  <2>1. 1 \in 1..n /\ n > 0
    BY <1>2
  <2>2. \A j \in 1..n : /\ ListenAddr[new[j]] \in Addrs /\ IsOpen(ListenerOf(new[j]))
    BY <1>1, <1>2, AddressesKnown DEF Fits
  <2>3. l = ListenerOf(new[1])
    BY <2>1, <2>2, OneKept DEF ListenerOf, IInv
  <2>4. l \in Listens
    BY <1>3 DEF IsOpen
  <2>5. incoming'[l] = incoming[l] \o sent
    BY <1>1, <2>1, <2>3, <2>4
  <2>6. sent \in Seq(Forwarded) /\ Len(sent) = n /\ sent[k] = new[k]
    BY <1>2
  <2>7. incoming[l] \in Seq(Forwarded) /\ Len(incoming[l]) \in Nat
    BY <1>2, <2>4
  <2> HIDE DEF sent, l
  <2>a. /\ Len(incoming'[l]) = Len(incoming[l]) + n
        /\ \A j \in 1..(Len(incoming[l]) + n) :
             incoming'[l][j] = IF j <= Len(incoming[l]) THEN incoming[l][j]
                               ELSE sent[j - Len(incoming[l])]
    <3>1. /\ Len(incoming[l] \o sent) = Len(incoming[l]) + Len(sent)
          /\ \A j \in 1..(Len(incoming[l]) + Len(sent)) :
               (incoming[l] \o sent)[j] = IF j <= Len(incoming[l]) THEN incoming[l][j]
                                         ELSE sent[j - Len(incoming[l])]
      BY <2>6, <2>7, ConcatProperties
    <3> QED BY <3>1, <2>5, <2>6
  <2>b. /\ Len(incoming[l]) + k \in 1..(Len(incoming[l]) + n)
        /\ ~ (Len(incoming[l]) + k <= Len(incoming[l]))
        /\ (Len(incoming[l]) + k) - Len(incoming[l]) = k
    BY <1>2, <2>7
  <2>8. incoming'[l][Len(incoming[l]) + k] = sent[k]
    BY <2>a, <2>b
  <2>9. /\ Len(incoming[l]) + k \in 1..Len(incoming'[l])
        /\ DOMAIN incoming'[l] = 1..Len(incoming'[l])
    BY <2>a, <2>b, <2>5, <2>6, <2>7, ConcatProperties
  <2> QED BY <2>6, <2>8, <2>9 DEF Range, l
<1>4. CASE new' = SubSeq(new, n + 1, Len(new))
  <2>1. SubSeq(new, n + 1, Len(new)) \in Seq(Forwarded)
    BY <1>2
  <2>2. InTurn(n)
    BY <1>3, <1>4, <2>1, PrefixOfItself DEF InTurn
  <2> QED BY <2>2
<1>5. CASE /\ n < Len(new) /\ ~ IsOpen(ListenerOf(new[n + 1]))
           /\ new' = SubSeq(new, n + 2, Len(new))
  <2>1. n + 1 \in 0..Len(new) /\ (n + 1) + 1 = n + 2
    BY <1>2, <1>5
  <2>2. SubSeq(new, n + 2, Len(new)) \in Seq(Forwarded)
    BY <1>2
  <2>3. \A k \in 1..(n + 1) : k \in 1..n \/ k = n + 1
    BY <1>2
  <2>4. \A k \in 1..(n + 1) :
          IsOpen(ListenerOf(new[k])) => new[k] \in Range(incoming'[ListenerOf(new[k])])
    BY <1>3, <1>5, <2>3
  <2>5. IsPrefix(SubSeq(new, (n + 1) + 1, Len(new)), new')
    BY <1>5, <2>1, <2>2, PrefixOfItself
  <2>6. InTurn(n + 1)
    BY <2>4, <2>5 DEF InTurn
  <2> QED BY <2>1, <2>6
<1> QED BY <1>1, <1>4, <1>5

LEMMA InTurnStep ==
  ASSUME IInv, [Next]_vars
  PROVE  \E n \in 0..Len(pending_new_connections) : InTurn(n)
<1> USE DEF swarmVars, transportVars, handlerVars, requestVars, outVars
<1> DEFINE new == pending_new_connections
<1>1. new \in Seq(Forwarded) /\ 0 \in 0..Len(new) /\ SubSeq(new, 0 + 1, Len(new)) = new
  BY DEF IInv, TypeOK
<1>2. ASSUME IsPrefix(new, new')
      PROVE  InTurn(0)
  <2>1. IsPrefix(SubSeq(new, 0 + 1, Len(new)), new')
    BY <1>1, <1>2, Zenon
  <2>2. \A k \in 1..0 : FALSE
    OBVIOUS
  <2> QED BY <2>1, <2>2, Zenon DEF InTurn
<1>3. UNCHANGED new => IsPrefix(new, new')
  BY <1>1, PrefixOfItself
<1>4. ASSUME NEW c \in Conns, OnNewConnection(c)
      PROVE  IsPrefix(new, new')
  <2>1. /\ pending_inbound[c] \in Seq(Forwarded) /\ pending_inbound[c] # <<>>
        /\ new' = Append(new, Head(pending_inbound[c]))
    BY <1>4 DEF OnNewConnection, IInv, TypeOK
  <2>2. Head(pending_inbound[c]) \in Forwarded
    BY <2>1
  <2> QED BY <1>1, <2>1, <2>2, PrefixOfMore
<1>5. \/ UNCHANGED new
      \/ \E c \in Conns : OnNewConnection(c)
      \/ DeliverAndFlush
  BY DEF Next, Request, RemoveListener, ListenerReceive, TransportReceive, OnDialFailure,
         OnConnectionEstablished, OnConnectionClosed, HandlerPoll,
         HandlerPollRequest, OnUpgradeEnd, UpgradeEnds, Accept, Poll, PollSend, PollPending,
         PollDial, PollPark, PollRest, vars
<1> QED BY <1>1, <1>2, <1>3, <1>4, <1>5, DeliverInTurn

\* A forwarded connection that the behaviour has taken is delivered, or finds no
\* open listener, in its turn, for channels of any capacity and any number of
\* listeners (endpoint/behaviour.rs:404-479).
THEOREM ForwardedKeepTheirTurn == Spec => ForwardedInTurn
<1>1. IInv /\ [Next]_vars => \E n \in 0..Len(pending_new_connections) : InTurn(n)
  BY InTurnStep
<1> QED BY <1>1, IInvHolds, PTL DEF Spec, ForwardedInTurn, InTurn

(***************************************************************************)
(* The line to the transport: EndpointBehaviour implements Line.           *)
(***************************************************************************)

\* The requests the behaviour has taken from the transport.
Taken == Requested \ Range(from_transport)

\* The inductive invariant, on top of IInv: no request is on its way twice,
\* and what is beyond the channel was taken from it.
LineInv ==
  /\ IsInjective(from_transport)
  /\ Beyond(Taken)
  /\ dropped \subseteq Requested

\* The listener that is open.
Open == {l \in Listens : answer[l] # "none" /\ l \notin dropped}

\* A queue without repetitions, and one element more or less.
LEMMA QueueOnce ==
  ASSUME NEW S, NEW s \in Seq(S), IsInjective(s)
  PROVE  /\ s # <<>> => /\ IsInjective(Tail(s))
                        /\ Range(Tail(s)) \subseteq Range(s)
                        /\ Head(s) \notin Range(Tail(s))
         /\ \A x \in S : x \notin Range(s) => IsInjective(Append(s, x))
         /\ \A x \in S : Range(Append(s, x)) = Range(s) \cup {x}
<1>1. DOMAIN s = 1..Len(s) /\ Len(s) \in Nat
  OBVIOUS
<1>2. ASSUME s # <<>>
      PROVE  /\ IsInjective(Tail(s))
             /\ Range(Tail(s)) \subseteq Range(s)
             /\ Head(s) \notin Range(Tail(s))
  <2> DEFINE t == Tail(s)
  <2>1. /\ DOMAIN t = 1..Len(s) - 1 /\ \A k \in DOMAIN t : t[k] = s[k + 1]
        /\ Head(s) = s[1] /\ 1 \in DOMAIN s
    BY <1>1, <1>2, EmptySeq
  <2>2. \A k \in DOMAIN t : k + 1 \in DOMAIN s /\ k + 1 # 1 /\ k \in Int
    BY <1>1, <2>1
  <2> HIDE DEF t
  <2>3. \A j, k \in DOMAIN t : t[j] = t[k] => j + 1 = k + 1
    BY <2>1, <2>2 DEF IsInjective
  <2>4. \A j, k \in DOMAIN t : j + 1 = k + 1 => j = k
    BY <2>2
  <2>5. \A k \in DOMAIN t : t[k] \in Range(s) /\ t[k] # Head(s)
    BY <2>1, <2>2 DEF IsInjective, Range
  <2> QED BY <2>3, <2>4, <2>5 DEF IsInjective, Range, t
<1>3. ASSUME NEW x \in S
      PROVE  /\ x \notin Range(s) => IsInjective(Append(s, x))
             /\ Range(Append(s, x)) = Range(s) \cup {x}
  <2> DEFINE t == Append(s, x)
             n == Len(s) + 1
  <2>1. /\ DOMAIN t = 1..n /\ t[n] = x
        /\ \A k \in DOMAIN s : t[k] = s[k]
    BY <1>1, AppendProperties
  <2>2. \A k : k \in DOMAIN t <=> k = n \/ k \in DOMAIN s
    BY <1>1, <2>1
  <2> HIDE DEF t, n
  <2>3. Range(t) = Range(s) \cup {x}
    BY <2>1, <2>2 DEF Range
  <2>4. x \notin Range(s) => IsInjective(t)
    BY <2>1, <2>2 DEF Range, IsInjective
  <2> QED BY <2>3, <2>4 DEF t
<1> QED BY <1>2, <1>3

\* Requests are made by Request only, and none is forgotten.
LEMMA RequestedKept ==
  ASSUME IInv, [Next]_vars
  PROVE  /\ Requested \subseteq Requested'
         /\ \A r \in Requests : Request(r) => Requested' = Requested \cup {r}
         /\ (\A r \in Requests : ~ Request(r)) => Requested' = Requested
<1>1. Requested \subseteq Requested'
  BY AnswersKept DEF Requested, IInv
<1>2. ASSUME NEW r \in Requests, Request(r)
      PROVE  Requested' = Requested \cup {r}
  BY <1>2 DEF Request, Requested, IInv, TypeOK
<1>3. ASSUME \A r \in Requests : ~ Request(r)
      PROVE  Requested' = Requested
  BY <1>1, <1>3, OnlyRequestMakes DEF Requested, IInv
<1> QED BY <1>1, <1>2, <1>3

LEMMA LineInit == ASSUME Init PROVE LineInv
<1>1. \A S : <<>> \in Seq(S)
  BY EmptySeq
<1>2. IsInjective(<<>>)
  BY DEF IsInjective
<1> QED BY <1>1, <1>2 DEF Init, LineInv, Beyond

LEMMA LineStep ==
  ASSUME IInv, LineInv, [Next]_vars
  PROVE  LineInv'
<1> DEFINE s == from_transport
<1>1. /\ s \in Seq(Requested) /\ s \in Seq(Requests) /\ Range(s) \subseteq Requested
      /\ Requested \subseteq Requests
  <2>1. s \in Seq(Requested) /\ s \in Seq(Requests)
    BY DEF IInv, InFlight, TypeOK
  <2> QED BY <2>1 DEF Range, Requested
<1> HIDE DEF s
<1>2. ASSUME NEW r \in Requests, Request(r)
      PROVE  IsInjective(s') /\ Taken' = Taken
  <2>1. r \notin Requested /\ s' = Append(s, r)
    BY <1>2 DEF Request, Requested, s
  <2>2. IsInjective(s') /\ Range(s') = Range(s) \cup {r}
    BY <1>1, <2>1, QueueOnce DEF LineInv, s
  <2>3. Requested' = Requested \cup {r}
    BY <1>2, RequestedKept
  <2> QED BY <2>1, <2>2, <2>3 DEF Taken, s
<1>3. ASSUME PollSend \/ PollDial \/ PollPark
      PROVE  IsInjective(s') /\ Taken \subseteq Taken' /\ Head(s) \in Taken'
  <2>1. s # <<>> /\ s' = Tail(s)
    BY <1>3 DEF PollSend, PollDial, PollPark, s
  <2>2. IsInjective(s') /\ Range(s') \subseteq Range(s) /\ Head(s) \notin Range(s')
    BY <1>1, <2>1, QueueOnce DEF LineInv, s
  <2>3. Head(s) \in Requested /\ Requested \subseteq Requested'
    BY <1>1, <2>1, RequestedKept
  <2> QED BY <2>2, <2>3 DEF Taken, s
<1>4. ASSUME UNCHANGED s
      PROVE  IsInjective(s') /\ Taken \subseteq Taken'
  BY <1>4, RequestedKept DEF LineInv, Taken, s
<1>5. IsInjective(s') /\ Taken \subseteq Taken'
  BY <1>2, <1>3, <1>4, OnTheWay DEF s
<1>6. Beyond(Taken)'
  <2>1. PICK M : M = Taken'
    OBVIOUS
  <2>2. M \in SUBSET Requests
    BY <2>1 DEF Taken, Requested
  <2>3. Beyond(M)
    BY <1>5, <2>1, BeyondMonotonic DEF LineInv
  <2>4. PollSend \/ PollDial \/ PollPark => Head(from_transport) \in M
    BY <1>3, <2>1 DEF s
  <2>5. Beyond(M)'
    BY <2>2, <2>3, <2>4, BeyondStep DEF IInv
  <2> QED BY <2>1, <2>5
<1>7. dropped' \subseteq Requested'
  <2>1. CASE TransportReceive
    <3>1. Head(to_transport) \in ToldOf(Requested)
      BY <2>1 DEF TransportReceive, IInv, InFlight, Beyond
    <3> QED BY <2>1, <3>1, RequestedKept DEF TransportReceive, ToldOf, LineInv
  <2>2. ASSUME NEW l \in Listens, RemoveListener(l)
        PROVE  dropped' \subseteq Requested'
    BY <2>2, RequestedKept DEF RemoveListener, LineInv, Requested, Requests
  <2>3. ASSUME UNCHANGED dropped
        PROVE  dropped' \subseteq Requested'
    BY <2>3, RequestedKept DEF LineInv
  <2>4. \/ UNCHANGED dropped
        \/ \E l \in Listens : RemoveListener(l)
        \/ TransportReceive
    BY DEF Next, Request, ListenerReceive, OnDialFailure, OnConnectionEstablished,
           OnConnectionClosed, HandlerPoll, OnNewConnection, HandlerPollRequest,
           OnUpgradeEnd, UpgradeEnds, Accept, Poll, PollSend, PollPending, PollDial,
           PollPark, PollRest, vars, swarmVars, transportVars, handlerVars, requestVars,
           outVars
  <2> QED BY <2>1, <2>2, <2>3, <2>4
<1> QED BY <1>5, <1>6, <1>7 DEF LineInv, s

\* Only what the transport hears is no longer told.
LEMMA TellsStep ==
  ASSUME IInv, [Next]_vars
  PROVE  Tells \/ TransportReceive
<1> USE DEF swarmVars, transportVars, handlerVars, requestVars, outVars
<1>1. TypeOK /\ ChannelsBounded /\ Requests \in SUBSET Requests
  BY DEF IInv
<1>2. Beyond(Requests)
  BY BeyondMonotonic DEF IInv, InFlight, Requested
<1>3. ASSUME NEW rs \in Seq(Requests), Fail(rs), UNCHANGED to_transport
      PROVE  Tells
  <2>1. \A k \in DOMAIN rs : Failed(rs[k]) \in Told
    BY DEF Failed, Told, Requests
  <2>2. [k \in DOMAIN rs |-> Failed(rs[k])] \in Seq(Told)
    BY <2>1
  <2> QED BY <1>1, <1>3, <2>2, TellsLater DEF Fail
<1>4. ASSUME OnDialFailure
      PROVE  Tells
  BY <1>1, <1>3, <1>4 DEF OnDialFailure, TypeOK
<1>5. ASSUME PollDial
      PROVE  Tells
  <2>1. CASE live = {}
    BY <1>1, <1>5, <2>1, TellsLater DEF PollDial
  <2>2. CASE live # {}
    <3>1. Append(waiting, Head(from_transport)) \in Seq(Requests)
      BY <1>1, <1>5 DEF PollDial, TypeOK
    <3> QED BY <1>3, <1>5, <2>2, <3>1 DEF PollDial
  <2> QED BY <2>1, <2>2
<1>6. ASSUME DeliverAndFlush
      PROVE  Tells
  BY <1>1, <1>2, <1>6, DeliverBeyond
<1>7. ASSUME NEW c \in Conns, OnConnectionClosed(c)
      PROVE  Tells
  <2>1. [type |-> "PeerClosed", conn |-> c] \in Told
    BY DEF Told
  <2> QED BY <1>1, <1>7, <2>1, TellsLater DEF OnConnectionClosed
<1>8. ASSUME NEW c \in Conns, NEW r \in Requests, OnUpgradeEnd(c, r)
      PROVE  Tells
  <2>1. /\ Failed(r) \in Told
        /\ r \notin Dials => [type |-> "ListenSuccess", req |-> r] \in Told
    BY DEF Failed, Told, Requests
  <2>2. /\ UNCHANGED to_transport
        /\ \/ UNCHANGED pending_to_transport
           \/ \E e \in Told : pending_to_transport' = Append(pending_to_transport, e)
    BY <1>8, <2>1 DEF OnUpgradeEnd
  <2> QED BY <1>1, <2>2, TellsLater
<1>9. ASSUME UNCHANGED <<to_transport, pending_to_transport>>
      PROVE  Tells
  BY <1>1, <1>9, TellsLater
<1>10. \/ UNCHANGED <<to_transport, pending_to_transport>>
       \/ TransportReceive \/ OnDialFailure \/ PollDial \/ DeliverAndFlush
       \/ \E c \in Conns : \/ OnConnectionClosed(c)
                           \/ \E r \in Requests : OnUpgradeEnd(c, r)
  BY DEF Next, Request, RemoveListener, ListenerReceive, OnConnectionEstablished,
         HandlerPoll, OnNewConnection, HandlerPollRequest, UpgradeEnds, Accept, Poll,
         PollSend, PollPending, PollPark, PollRest, vars
<1> QED BY <1>4, <1>5, <1>6, <1>7, <1>8, <1>9, <1>10

\* Every step is one of the line's, or none.
LEMMA AgreedStep ==
  ASSUME IInv, LineInv, [Next]_vars, LineInv'
  PROVE  Agreed!Next \/ UNCHANGED Agreed!vars
<1> USE DEF Unheard, Open
<1>1. ASSUME NEW r \in Requests, Request(r)
      PROVE  Agreed!Ask(r)
  <2>1. r \notin Requested /\ Requested' = Requested \cup {r}
    BY <1>1, RequestedKept DEF Request, Requested
  <2>2. /\ from_transport' = Append(from_transport, r) /\ UNCHANGED Unheard
        /\ dropped' = dropped /\ answer' = [answer EXCEPT ![r] = "open"]
    BY <1>1 DEF Request, outVars
  <2>3. IF r \in Listens THEN Open = {} /\ Open' = {r} ELSE UNCHANGED Open
    <3>1. CASE r \in Listens
      <4>1. Open = {}
        BY <1>1, <3>1 DEF Request
      <4>2. r \notin dropped
        BY <2>1 DEF LineInv
      <4>3. Open' = Open \cup {r}
        BY <2>2, <3>1, <4>2 DEF IInv, TypeOK, Requests
      <4> QED BY <3>1, <4>1, <4>3
    <3>2. CASE r \notin Listens
      BY <2>2, <3>2 DEF IInv, TypeOK, Requests
    <3> QED BY <3>1, <3>2
  <2> QED BY <2>1, <2>2, <2>3 DEF Agreed!Ask
<1>2. ASSUME NEW l \in Listens, RemoveListener(l)
      PROVE  Agreed!Close
  <2>1. UNCHANGED <<answer, from_transport, Unheard>> /\ dropped' = dropped \cup {l}
    BY <1>2 DEF RemoveListener, outVars, requestVars
  <2>2. Open' = {}
    BY <1>2, <2>1 DEF RemoveListener, IInv, OneOpenListener
  <2> QED BY <2>1, <2>2 DEF Agreed!Close, Requested
<1>3. ASSUME TransportReceive
      PROVE  1 \in 1..Len(Unheard) /\ Agreed!Hear(1)
  <2> DEFINE e == Head(to_transport)
  <2>1. /\ to_transport \in Seq(Told) /\ to_transport # <<>>
        /\ pending_to_transport \in Seq(Told)
        /\ to_transport' = Tail(to_transport)
        /\ UNCHANGED <<pending_to_transport, from_transport>>
    BY <1>3 DEF TransportReceive, IInv, TypeOK, requestVars
  <2>2. Len(Unheard) >= 1 /\ Unheard[1] = e
    BY <2>1, EmptySeq
  <2>3. Unheard' = SubSeq(Unheard, 2, Len(Unheard))
    <3> DEFINE n == Len(to_transport)
               m == Len(pending_to_transport)
    <3>1. /\ n \in Nat \ {0} /\ m \in Nat /\ Len(Unheard) = n + m
          /\ to_transport' \in Seq(Told) /\ Len(to_transport') = n - 1
          /\ \A k \in 1..n - 1 : to_transport'[k] = to_transport[k + 1]
          /\ Unheard \in Seq(Told) /\ Unheard' \in Seq(Told) /\ Len(Unheard') = n - 1 + m
      BY <2>1, EmptySeq
    <3>2. /\ SubSeq(Unheard, 2, Len(Unheard)) \in Seq(Told)
          /\ Len(SubSeq(Unheard, 2, Len(Unheard))) = n - 1 + m
          /\ \A k \in 1..n - 1 + m : SubSeq(Unheard, 2, Len(Unheard))[k] = Unheard[k + 1]
      BY <3>1
    <3>3. ASSUME NEW k \in 1..n - 1 + m
          PROVE  Unheard'[k] = Unheard[k + 1]
      <4>1. CASE k <= n - 1
        BY <2>1, <3>1, <4>1
      <4>2. CASE k > n - 1
        BY <2>1, <3>1, <4>2
      <4> QED BY <3>1, <4>1, <4>2
    <3> QED BY <3>1, <3>2, <3>3, SeqEqual
  <2>4. Requested' = Requested
    BY <1>3, RequestedKept DEF TransportReceive, Request, IInv, TypeOK
  <2>5. Open' = {l \in Open : e.type = "ListenFailed" => e.req # l}
    BY <1>3, <2>4 DEF TransportReceive, Requested, Requests
  <2> HIDE DEF e
  <2>6. Open' = {l \in Open : \A k \in 1..1 :
                    Unheard[k].type = "ListenFailed" => Unheard[k].req # l}
    BY <2>2, <2>5
  <2> QED BY <2>1, <2>2, <2>3, <2>4, <2>6 DEF Agreed!Hear
<1>4. ASSUME \A r \in Requests : ~ Request(r),
             \A l \in Listens : ~ RemoveListener(l),
             ~ TransportReceive
      PROVE  Agreed!Behave
  <2>1. Requested' = Requested
    BY <1>4, RequestedKept
  <2>2. dropped' = dropped
    BY <1>4 DEF Next, ListenerReceive, OnDialFailure, OnConnectionEstablished,
           OnConnectionClosed, HandlerPoll, OnNewConnection, HandlerPollRequest,
           OnUpgradeEnd, UpgradeEnds, Accept, Poll, PollSend, PollPending, PollDial,
           PollPark, PollRest, vars, transportVars
  <2>3. Open' = Open
    BY <2>1, <2>2 DEF Requested, Requests
  <2>4. \/ from_transport' = from_transport
        \/ from_transport # <<>> /\ from_transport' = Tail(from_transport)
    BY <1>4, OnTheWay
  <2>5. PICK t \in Seq(Told) : Unheard' = Unheard \o t
    BY <1>4, TellsStep DEF Tells
  <2>6. Unheard \in Seq(Told) /\ Unheard' \in Seq(ToldOf(Taken'))
    BY DEF IInv, TypeOK, LineInv, Beyond
  <2> HIDE DEF Unheard, Open
  <2>7. Agreed!IsPrefix(Unheard, Unheard')
    BY <2>5, <2>6 DEF Agreed!IsPrefix
  <2>8. ASSUME NEW k \in 1..Len(Unheard')
        PROVE  Unheard'[k].type # "PeerClosed" =>
                 /\ Unheard'[k].req \in Requested
                 /\ Unheard'[k].req \notin Range(from_transport')
    <3>1. Unheard'[k] \in ToldOf(Taken')
      BY <2>6
    <3> QED BY <2>1, <3>1 DEF ToldOf, Taken
  <2>9. \A k \in Len(Unheard) + 1..Len(Unheard') : k \in 1..Len(Unheard')
    BY <2>6
  <2> QED BY <2>1, <2>3, <2>4, <2>7, <2>8, <2>9
          DEF Agreed!Behave, Agreed!Known, Agreed!Range, Range, Unheard, Open
<1> QED BY <1>1, <1>2, <1>3, <1>4 DEF Agreed!Next, Requests

\* The transport hears of a request only after it was taken, of each thing once
\* and in order, and it never has two listeners: what the behaviour and the
\* transport count on of each other over their channels
\* (endpoint/behaviour.rs:323-402, 481-500, endpoint/transport.rs:65-201).
THEOREM BehaviourKeepsTheLine == Spec => ImplementsLine
<1>1. Init => IInv /\ LineInv
  BY IInvInit, LineInit
<1>2. (IInv /\ LineInv) /\ [Next]_vars => (IInv /\ LineInv)'
  BY IInvStep, LineStep
<1>3. Init => Agreed!Init
  <2>1. <<>> \o <<>> = <<>>
    BY ConcatEmptySeq, EmptySeq
  <2>2. ASSUME Init
        PROVE  /\ \A r \in Requests : answer[r] = "none"
               /\ from_transport = <<>> /\ to_transport = <<>> /\ pending_to_transport = <<>>
    BY <2>2 DEF Init
  <2> QED BY <2>1, <2>2 DEF Agreed!Init, Requested, Requests
<1>4. IInv /\ LineInv /\ [Next]_vars /\ LineInv' => [Agreed!Next]_(Agreed!vars)
  BY AgreedStep
<1> QED BY <1>1, <1>2, <1>3, <1>4, PTL DEF Spec, ImplementsLine, Agreed!Spec
=============================================================================
