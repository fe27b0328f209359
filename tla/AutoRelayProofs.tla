--------------------------- MODULE AutoRelayProofs ---------------------------
(***************************************************************************)
(* The relay behind the upgrades of its endpoints is a relay: what is      *)
(* proved of Relay, whose endpoints answer as they like (but register no   *)
(* id but their own), holds of it.  And it keeps what a relay promises to  *)
(* a dialer (Rendezvous).                                                  *)
(***************************************************************************)
EXTENDS AutoRelay, RelayOnceProofs

LEMMA AutoStep == [AutoNext]_autoVars => [Next]_vars
<1> SUFFICES ASSUME [AutoNext]_autoVars
             PROVE  [Next]_vars
    OBVIOUS
<1>1. CASE UNCHANGED autoVars
  BY <1>1 DEF autoVars
<1>2. ASSUME NEW s \in Streams, ReceiveSuccess(s)
      PROVE  UNCHANGED vars
  BY <1>2 DEF ReceiveSuccess
<1>3. ASSUME NEW c \in Conns, NEW s \in Streams, Accept(c, s)
      PROVE  UNCHANGED vars
  BY <1>3 DEF Accept
<1>4. ASSUME NEW c \in Conns, NEW s \in Streams, ConnectAnswered(c, s)
      PROVE  Next
  BY <1>4 DEF ConnectAnswered, Next
<1>5. ASSUME NEW c \in Conns, NEW p \in Peers, Establish(c, p)
      PROVE  Next
  BY <1>5 DEF Next
<1>6. ASSUME NEW c \in Conns, Close(c) \/ HandlerOffers(c)
      PROVE  Next
  BY <1>6 DEF Next, HandlerOffers
<1>7. ASSUME NEW s \in Streams, NEW r \in Request, Open(s, r)
      PROVE  Next
  BY <1>7 DEF Next
<1>8. ASSUME NEW s \in Streams,
             \/ ReceiveDialRequest(s)
             \/ ReceiveListenRequest(s)
             \/ ResumeDial(s)
             \/ Respond(s)
             \/ UpgradeFails(s)
      PROVE  Next
  BY <1>8 DEF Next
<1>9. CASE Poll \/ PollPending
  BY <1>9 DEF Next
<1> QED
  BY <1>1, <1>2, <1>3, <1>4, <1>5, <1>6, <1>7, <1>8, <1>9 DEF AutoNext

\* The endpoints restrict what the relay sees and add nothing to it.
THEOREM AutoImplementsRelay == AutoSpec => Spec
<1>1. AutoInit => Init
  BY DEF AutoInit
<1> QED BY <1>1, AutoStep, PTL DEF AutoSpec, Spec

\* So a dialer of the whole system is joined to the peer it asked for.
THEOREM AutoDialsReachTheirPeer == AutoSpec => []SplicedToRequestedPeer
BY AutoImplementsRelay, DialsReachTheirPeer, PTL

(***************************************************************************)
(* What the relay reports of an endpoint is what the endpoint has said.    *)
(***************************************************************************)
\* Only streams that were accepted come back as a success, and only those that
\* were offered are accepted, over a connection there was at the time.
Offers ==
  /\ offers \subseteq Conns \X Streams /\ accepted \subseteq offers
  /\ \A o \in offers : o[1] \in live \cup closed
  /\ \A c \in Conns, s \in Streams :
       Queued(c, "connect_success", s) => <<c, s>> \in accepted

\* A step of the relay that reports no success.
LEMMA NoReport ==
  ASSUME TypeOK, Routing, Offers, [Next]_vars, UNCHANGED <<offers, accepted>>,
         \A c \in Conns, s \in Streams :
           Queued(c, "connect_success", s)' => Queued(c, "connect_success", s)
  PROVE  Offers'
<1>1. live \cup closed \subseteq (live \cup closed)'
  BY PoolStep
<1> QED BY <1>1 DEF Offers

LEMMA OffersStep ==
  TypeOK /\ Routing /\ Offers /\ [AutoNext]_autoVars => Offers'
<1> SUFFICES ASSUME TypeOK, Routing, Offers, [AutoNext]_autoVars PROVE Offers'
  OBVIOUS
<1> DEFINE Quiet == \A c \in Conns, s \in Streams :
             Queued(c, "connect_success", s)' => Queued(c, "connect_success", s)
<1>a. [Next]_vars
  BY AutoStep
<1>b. VarsTyped /\ DialsOnly /\ "connect_success" \in Types
  BY DEF TypeOK, Types
<1>c. UNCHANGED <<offers, accepted>> /\ Quiet => Offers'
  BY <1>a, NoReport
<1>d. UNCHANGED pending_events => Quiet
  BY DEF Queued
<1>1. ASSUME NEW s \in Streams, ReceiveSuccess(s)
      PROVE  UNCHANGED <<offers, accepted>> /\ Quiet
  BY <1>1, <1>d DEF ReceiveSuccess, vars, handlerVars
<1>2. ASSUME NEW c \in Conns, NEW s \in Streams, Accept(c, s)
      PROVE  Offers'
  <2>1. /\ <<c, s>> \in offers /\ accepted' = accepted \cup {<<c, s>>}
        /\ UNCHANGED <<live, closed, pending_events, offers>>
    BY <1>2 DEF Accept, vars, poolVars, handlerVars
  <2> QED BY <2>1 DEF Offers, Queued
<1>3. ASSUME NEW c \in Conns, NEW s \in Streams, ConnectAnswered(c, s)
      PROVE  Offers'
  <2>1. /\ UNCHANGED <<offers, accepted, live, closed>>
        /\ <<c, s>> \notin accepted => Queue(c, "connect_failed", s)
    BY <1>3 DEF ConnectAnswered, ConnectEnds, OnlyIfAccepted, endpointVars, poolVars
  <2>2. PICK t \in {"connect_success", "connect_failed"} : Queue(c, t, s)
    BY <1>3 DEF ConnectAnswered, ConnectEnds
  <2>3. t \in Types /\ "connect_failed" \in Types
    BY DEF Types
  <2>4. CASE <<c, s>> \in accepted
    <3>1. \A d \in Conns, x \in Streams : Queued(d, "connect_success", x)' =>
            Queued(d, "connect_success", x) \/ (d = c /\ x = s)
      BY <2>2, <2>3, <1>b, QueueAdds DEF VarsTyped
    <3> QED BY <2>1, <2>4, <3>1 DEF Offers
  <2>5. CASE <<c, s>> \notin accepted
    <3>1. Quiet
      BY <2>1, <2>3, <2>5, <1>b, QueueAdds DEF VarsTyped
    <3> QED BY <3>1, <2>1, <1>c
  <2> QED BY <2>4, <2>5
<1>4. ASSUME NEW c \in Conns, NEW p \in Peers, Establish(c, p)
      PROVE  Quiet
  BY <1>4, <1>d DEF Establish, handlerVars
<1>5. ASSUME NEW c \in Conns, Close(c)
      PROVE  Quiet
  BY <1>5, <1>b DEF Close, Queued, VarsTyped
<1>6. ASSUME NEW s \in Streams, NEW r \in Request, Open(s, r)
      PROVE  Quiet
  BY <1>6, <1>d DEF Open, handlerVars
<1>7. ASSUME NEW s \in Streams,
             \/ ReceiveDialRequest(s) \/ ReceiveListenRequest(s)
             \/ ResumeDial(s) \/ Respond(s) \/ UpgradeFails(s)
      PROVE  Quiet
  <2>1. \/ UNCHANGED pending_events
        \/ /\ Opened(s)
           /\ \E t \in {"failed", "dial_success", "listen_success"} :
                Queue(request[s].conn, t, s)
    BY <1>7 DEF ReceiveDialRequest, ReceiveListenRequest, handlerVars, ResumeDial,
       Respond, UpgradeFails, Running, Opened
  <2>2. ASSUME Opened(s), NEW t \in {"failed", "dial_success", "listen_success"},
               Queue(request[s].conn, t, s)
        PROVE  Quiet
    <3>1. request[s].conn \in Conns /\ t \in Types
      BY <2>2, <1>b DEF DialsOnly, Request, Types
    <3> QED BY <2>2, <3>1, <1>b, QueueAdds DEF VarsTyped
  <2> QED BY <2>1, <2>2, <1>d
<1>8. ASSUME NEW c \in Conns, HandlerOffers(c)
      PROVE  Offers'
  <2>1. HandlerPoll(c) /\ offers' = offers \cup upgrading' /\ accepted' = accepted
    BY <1>8 DEF HandlerOffers
  <2>2. PICK s \in Streams, t \in Types : Pop(c, t, s)
    BY <2>1 DEF Types, HandlerPoll, HandlerPollConnect, OnDialSuccess, OnConnectSuccess,
       OnConnectFailed, OnListenSuccess, OnListenOrDialFailed
  <2>3. Quiet
    BY <2>2, <1>b, PopRemoves DEF VarsTyped
  <2>4. TypeOK' /\ Routing'
    BY <1>a, TypeStep, RoutingStep
  <2>5. upgrading' \subseteq Conns \X Streams
    BY <2>4 DEF TypeOK, VarsTyped
  <2>6. \A o \in upgrading' : o[1] \in live'
    BY <2>4, <2>5 DEF Routing, Attempt
  <2>7. \A o \in offers : o[1] \in (live \cup closed)'
    BY <1>a, PoolStep DEF Offers
  <2> QED BY <2>1, <2>3, <2>5, <2>6, <2>7 DEF Offers
<1>9. ASSUME NEW s \in Streams, PollForward(s)
      PROVE  Quiet
  <2>1. \/ UNCHANGED pending_events
        \/ \E c \in ConnsTo(request[s].peer) : Queue(c, "connect", s)
    BY <1>9 DEF PollForward, NotifyAny
  <2>2. ASSUME NEW c \in ConnsTo(request[s].peer), Queue(c, "connect", s)
        PROVE  Quiet
    <3>1. c \in Conns /\ "connect" \in Types
      BY <1>b DEF ConnsTo, VarsTyped, Types
    <3> QED BY <2>2, <3>1, <1>b, QueueAdds DEF VarsTyped
  <2> QED BY <2>1, <2>2, <1>d
<1>10. ASSUME NEW s \in Streams, PollRefuse(s)
       PROVE  Quiet
  BY <1>10, <1>d DEF PollRefuse, handlerVars
<1>11. PollEmit \/ PollPending => Quiet
  BY <1>d DEF PollEmit, PollPending, handlerVars
<1>12. CASE UNCHANGED autoVars
  BY <1>12, <1>c, <1>d DEF autoVars, endpointVars, vars, handlerVars
<1> HIDE DEF Quiet
<1> QED
  BY <1>c, <1>1, <1>2, <1>3, <1>4, <1>5, <1>6, <1>7, <1>8, <1>9, <1>10, <1>11, <1>12
     DEF AutoNext, Poll, endpointVars

(***************************************************************************)
(* Every step of the whole is a step of Rendezvous, or none: a dial that   *)
(* is opened asks, an endpoint that answers accepts, and the behaviour     *)
(* that finds a sender under the peer of a stream joins the two.           *)
(***************************************************************************)
Target  == [s \in Streams |-> IF IsDial(s) THEN request[s].peer ELSE None]
Offered == [o \in Conns \X Streams |-> IF o \in accepted THEN conn_peer[o[1]] ELSE None]

AutoInv == AttemptInv /\ SuccessHasStream /\ Offers

\* No dial is opened, no stream accepted: nobody asks or offers anything.
LEMMA TargetKept ==
  ASSUME \A s \in Streams : /\ IsDial(s)' <=> IsDial(s)
                            /\ IsDial(s) => request'[s] = request[s]
  PROVE  Target' = Target
BY DEF Target

LEMMA OfferedKept ==
  ASSUME AutoInv, UNCHANGED accepted,
         \A c \in live \cup closed : conn_peer'[c] = conn_peer[c]
  PROVE  Offered' = Offered
BY DEF Offered, AutoInv, Offers

\* A step in which no dial is asked, answered with a stream, or told of success.
LEMMA Stutters ==
  ASSUME AutoInv, [AutoNext]_autoVars, UNCHANGED <<connection, told, accepted>>,
         \A s \in Streams : Opened(s)' => Opened(s)
  PROVE  UNCHANGED <<Target, Offered, connection, told>>
<1>1. \A s \in Streams : /\ Opened(s) => Opened(s)' /\ request'[s] = request[s]
                         /\ Opened(s)' => Opened(s)
  BY AutoStep, Frozen DEF AutoInv, AttemptInv, SenderInv, TypeOK
<1>2. Target' = Target
  BY <1>1, TargetKept DEF IsDial
<1>3. \A c \in live \cup closed : conn_peer'[c] = conn_peer[c]
  BY AutoStep, PoolStep DEF AutoInv, AttemptInv, SenderInv
<1>4. Offered' = Offered
  BY <1>3, OfferedKept
<1> QED BY <1>2, <1>4

\* The client opens a substream: a dial asks for its peer.
LEMMA AskStep ==
  ASSUME AutoInv, [AutoNext]_autoVars, NEW s \in Streams, NEW r \in Request,
         Open(s, r), UNCHANGED endpointVars
  PROVE  \/ \E p \in Peers : /\ Target[s] = None
                             /\ Target' = [Target EXCEPT ![s] = p]
                             /\ UNCHANGED <<Offered, connection, told>>
         \/ UNCHANGED <<Target, Offered, connection, told>>
<1>a. VarsTyped
  BY DEF AutoInv, AttemptInv, SenderInv, TypeOK
<1>1. /\ inbound[s] = "none" /\ request' = [request EXCEPT ![s] = r]
      /\ inbound' = [inbound EXCEPT ![s] = "reading"]
      /\ UNCHANGED <<conn_peer, connection, accepted, told>>
  BY DEF Open, poolVars, endpointVars
<1>2. Offered' = Offered
  BY <1>1, OfferedKept
<1>3. \A x \in Streams : x # s =>
        /\ IsDial(x)' <=> IsDial(x)
        /\ IsDial(x) => request'[x] = request[x]
  BY <1>1, <1>a DEF IsDial, Opened, VarsTyped
<1>4. ~ IsDial(s) /\ request'[s] = r /\ (IsDial(s)' <=> r.proto = "dial")
  BY <1>1, <1>a DEF IsDial, Opened, VarsTyped
<1>5. CASE r.proto = "dial"
  <2>1. Target[s] = None /\ r.peer \in Peers
    BY <1>4 DEF Target, Request
  <2>2. Target' = [Target EXCEPT ![s] = r.peer]
    BY <1>3, <1>4, <1>5 DEF Target
  <2> QED BY <2>1, <2>2, <1>1, <1>2
<1>6. CASE r.proto # "dial"
  <2>1. Target' = Target
    BY <1>3, <1>4, <1>6, TargetKept
  <2> QED BY <2>1, <1>1, <1>2
<1> QED BY <1>5, <1>6

\* The endpoint of a peer accepts the stream it is offered.
LEMMA AcceptStep ==
  ASSUME AutoInv, NEW c \in Conns, NEW s \in Streams, Accept(c, s)
  PROVE  /\ conn_peer[c] \in Peers
         /\ Offered[<<c, s>>] = None
         /\ Offered' = [Offered EXCEPT ![<<c, s>>] = conn_peer[c]]
         /\ UNCHANGED <<Target, connection, told>>
<1>1. /\ <<c, s>> \in offers /\ <<c, s>> \notin accepted
      /\ accepted' = accepted \cup {<<c, s>>}
      /\ UNCHANGED <<conn_peer, request, inbound, connection, told>>
  BY DEF Accept, vars, poolVars, upgradeVars
<1>2. conn_peer[c] \in Peers
  <2>1. c \in live \cup closed
    BY <1>1 DEF AutoInv, Offers
  <2> QED BY <2>1 DEF AutoInv, AttemptInv, SenderInv, Routing, TypeOK, VarsTyped
<1>3. Offered[<<c, s>>] = None
  BY <1>1 DEF Offered
<1>4. Offered' = [Offered EXCEPT ![<<c, s>>] = conn_peer[c]]
  <2> DEFINE o == <<c, s>>
  <2>1. o \in Conns \X Streams /\ o[1] = c
    OBVIOUS
  <2>2. accepted' = accepted \cup {o} /\ conn_peer' = conn_peer
    BY <1>1
  <2> HIDE DEF o
  <2>3. Offered' = [Offered EXCEPT ![o] = conn_peer[c]]
    BY <2>1, <2>2 DEF Offered
  <2> QED BY <2>3 DEF o
<1>5. Target' = Target
  BY <1>1, TargetKept DEF IsDial, Opened
<1> QED BY <1>1, <1>2, <1>3, <1>4, <1>5

\* A stream that comes back is given to the dial whose sender is under its
\* peer, if that dial still waits: it has none yet, and nobody has this one.
LEMMA JoinStep ==
  ASSUME AutoInv, [AutoNext]_autoVars, NEW c \in Conns, NEW s \in Streams,
         OnConnectSuccess(c, s), UNCHANGED <<told, accepted>>
  PROVE  \/ \E d \in Streams :
              /\ connection[d] = None
              /\ Offered[<<c, s>>] # None /\ Offered[<<c, s>>] = Target[d]
              /\ \A e \in Streams : connection[e] # <<c, s>>
              /\ connection' = [connection EXCEPT ![d] = <<c, s>>]
              /\ UNCHANGED <<Target, Offered, told>>
         \/ UNCHANGED <<Target, Offered, connection, told>>
<1> USE NoneIsFresh
<1>a. VarsTyped /\ DialsOnly /\ Routing
  BY DEF AutoInv, AttemptInv, SenderInv, TypeOK
<1> DEFINE d == connecting_requests[request[s].peer]
<1>1. /\ "connect_success" \in Types /\ "connect_success" \in AttemptTypes
  BY DEF Types, AttemptTypes
<1>2. Queued(c, "connect_success", s)
  BY <1>1, <1>a, PopRemoves DEF OnConnectSuccess, VarsTyped
<1>3. Attempt(c, s) /\ <<c, s>> \in accepted
  BY <1>1, <1>2 DEF Attempt, AutoInv, Offers
<1>4. request[s].peer \in Peers
  BY <1>1, <1>2, <1>a DEF DialsOnly, IsDial, Request
<1>5. UNCHANGED <<conn_peer, request, inbound, accepted, told>>
  BY DEF OnConnectSuccess, poolVars
<1>6. Target' = Target /\ Offered' = Offered
  BY <1>5, TargetKept, OfferedKept DEF IsDial, Opened
<1>7. CASE d # None /\ inbound[d] = "waiting"
  <2>1. d \in Streams /\ IsDial(d) /\ request[d].peer = request[s].peer
    BY <1>4, <1>7, <1>a DEF VarsTyped, DialsOnly, Routing
  <2>2. oneshot[d] = "empty"
    BY <2>1, <1>7 DEF AutoInv, AttemptInv, SenderInv, OneSender
  <2>3. connection[d] = None
    BY <2>1, <2>2 DEF AutoInv, SuccessHasStream
  <2>4. Offered[<<c, s>>] = conn_peer[c] /\ conn_peer[c] = request[s].peer
    BY <1>3, <1>a DEF Offered, Routing
  <2>5. Target[d] = request[d].peer
    BY <2>1 DEF Target
  <2>6. \A e \in Streams : connection[e] # <<c, s>>
    <3>1. ~ Served(s)
      BY <1>3 DEF AutoInv, AttemptInv, AttemptInOnePlace
    <3>2. <<c, s>> # None /\ <<c, s>>[2] = s
      OBVIOUS
    <3>3. ASSUME NEW e \in Streams, connection[e] = <<c, s>> PROVE Served(s)
      <4>1. connection[e] # None /\ connection[e][2] = s
        BY <3>2, <3>3
      <4> QED BY <4>1 DEF Served
    <3> QED BY <3>1, <3>3
  <2>7. connection' = [connection EXCEPT ![d] = <<c, s>>]
    BY <1>7 DEF OnConnectSuccess
  <2>8. Offered[<<c, s>>] # None
    BY <2>4, <1>4
  <2>9. Offered[<<c, s>>] = Target[d]
    BY <2>1, <2>4, <2>5
  <2> HIDE DEF d
  <2> QED BY <2>1, <2>3, <2>6, <2>7, <2>8, <2>9, <1>5, <1>6
<1>8. CASE ~ (d # None /\ inbound[d] = "waiting")
  BY <1>5, <1>6, <1>8 DEF OnConnectSuccess
<1> QED BY <1>7, <1>8

\* A dial that is told of success is joined.
LEMMA SucceedStep ==
  ASSUME AutoInv, NEW s \in Streams, ReceiveSuccess(s)
  PROVE  /\ connection[s] # None
         /\ told' = told \cup {s}
         /\ UNCHANGED <<Target, Offered, connection>>
<1>1. /\ IsDial(s) /\ inbound[s] \in {"responding", "ok"}
      /\ told' = told \cup {s}
      /\ UNCHANGED <<conn_peer, request, inbound, connection, accepted>>
  BY DEF ReceiveSuccess, SuccessSent, vars, poolVars, upgradeVars
<1>2. connection[s] # None
  BY <1>1 DEF AutoInv, SuccessHasStream
<1>3. Target' = Target /\ Offered' = Offered
  BY <1>1, TargetKept, OfferedKept DEF IsDial, Opened
<1> QED BY <1>1, <1>2, <1>3

LEMMA RendezvousInit == AutoInit => Named!Init
<1> SUFFICES ASSUME AutoInit PROVE Named!Init
  OBVIOUS
<1>1. \A s \in Streams : ~ IsDial(s) /\ connection[s] = None
  BY DEF AutoInit, Init, IsDial, Opened
<1>2. connection = [s \in Streams |-> None]
  BY DEF AutoInit, Init
<1>3. told = {} /\ offers = {} /\ accepted = {}
  BY DEF AutoInit
<1> QED BY <1>1, <1>2, <1>3 DEF Named!Init

LEMMA RendezvousStep == AutoInv /\ [AutoNext]_autoVars => [Named!Next]_Named!vars
<1> SUFFICES ASSUME AutoInv, [AutoNext]_autoVars PROVE [Named!Next]_Named!vars
  OBVIOUS
<1> DEFINE Stutter == UNCHANGED <<Target, Offered, connection, told>>
           Still == \A x \in Streams : Opened(x)' => Opened(x)
           Kept == UNCHANGED connection /\ Still
<1>a. VarsTyped
  BY DEF AutoInv, AttemptInv, SenderInv, TypeOK
<1>b. Stutter => [Named!Next]_Named!vars
  BY DEF Target, Offered, Named!vars
<1>c. UNCHANGED <<told, accepted>> /\ Kept => Stutter
  BY Stutters
<1>d. UNCHANGED inbound => Still
  BY DEF Opened
<1>1. ASSUME NEW s \in Streams, ReceiveSuccess(s)
      PROVE  Named!Next
  <2>1. Named!Succeed(s)
    BY <1>1, SucceedStep DEF Named!Succeed, Target, Offered
  <2> QED BY <2>1 DEF Named!Next
<1>2. ASSUME NEW c \in Conns, NEW s \in Streams, Accept(c, s)
      PROVE  Named!Next
  <2>1. PICK p \in Peers : p = conn_peer[c]
    BY <1>2, AcceptStep
  <2>2. <<c, s>> \in Conns \X Streams /\ Named!Accept(<<c, s>>, p)
    BY <1>2, <2>1, AcceptStep DEF Named!Accept, Target, Offered
  <2> QED BY <2>2 DEF Named!Next
<1>3. ASSUME NEW s \in Streams, NEW r \in Request, Open(s, r), UNCHANGED endpointVars
      PROVE  Named!Next \/ Stutter
  <2>1. CASE Stutter
    BY <2>1
  <2>2. ASSUME NEW p \in Peers,
               Target[s] = None, Target' = [Target EXCEPT ![s] = p],
               UNCHANGED <<Offered, connection, told>>
        PROVE  Named!Next
    <3>1. Named!Ask(s, p)
      BY <2>2 DEF Named!Ask, Target, Offered
    <3> QED BY <3>1 DEF Named!Next
  <2> QED BY <1>3, <2>1, <2>2, AskStep
<1>4. ASSUME NEW c \in Conns, NEW s \in Streams, OnConnectSuccess(c, s),
             UNCHANGED <<told, accepted>>
      PROVE  Named!Next \/ Stutter
  <2>1. CASE Stutter
    BY <2>1
  <2>2. ASSUME NEW d \in Streams,
               connection[d] = None,
               Offered[<<c, s>>] # None, Offered[<<c, s>>] = Target[d],
               \A e \in Streams : connection[e] # <<c, s>>,
               connection' = [connection EXCEPT ![d] = <<c, s>>],
               UNCHANGED <<Target, Offered, told>>
        PROVE  Named!Next
    <3>1. <<c, s>> \in Conns \X Streams /\ Named!Join(d, <<c, s>>)
      BY <2>2 DEF Named!Join, Target, Offered
    <3> QED BY <3>1 DEF Named!Next
  <2> QED BY <1>4, <2>1, <2>2, JoinStep
<1>5. ASSUME NEW c \in Conns, NEW s \in Streams, ConnectAnswered(c, s)
      PROVE  UNCHANGED <<told, accepted>> /\ Kept
  BY <1>5, <1>d DEF ConnectAnswered, ConnectEnds, upgradeVars, endpointVars
<1>6. ASSUME NEW c \in Conns, NEW p \in Peers, Establish(c, p)
      PROVE  Kept
  BY <1>6, <1>d DEF Establish, upgradeVars
<1>7. ASSUME NEW c \in Conns, Close(c)
      PROVE  Kept
  BY <1>7 DEF Close, Running, Opened
<1>8. ASSUME NEW s \in Streams,
             \/ ReceiveDialRequest(s) \/ ReceiveListenRequest(s)
             \/ ResumeDial(s) \/ Respond(s) \/ UpgradeFails(s)
      PROVE  Kept
  <2>1. /\ UNCHANGED connection /\ Opened(s)
        /\ \A x \in Streams : x # s => inbound'[x] = inbound[x]
    BY <1>8, <1>a DEF ReceiveDialRequest, ReceiveListenRequest, ResumeDial, Respond,
       UpgradeFails, Running, Opened, VarsTyped
  <2> QED BY <2>1 DEF Opened
<1>9. ASSUME NEW c \in Conns, NEW s \in Streams,
             \/ HandlerPollConnect(c, s) \/ OnDialSuccess(c, s) \/ OnConnectFailed(c, s)
             \/ OnListenSuccess(c, s) \/ OnListenOrDialFailed(c, s)
      PROVE  Kept
  BY <1>9, <1>d DEF HandlerPollConnect, OnDialSuccess, OnConnectFailed, OnListenSuccess,
     OnListenOrDialFailed, upgradeVars
<1>10. ASSUME NEW s \in Streams, PollRefuse(s) \/ PollForward(s)
       PROVE  Kept
  BY <1>10, <1>d DEF PollRefuse, PollForward
<1>11. PollEmit \/ PollPending => Kept
  BY <1>d DEF PollEmit, PollPending, upgradeVars
<1>12. UNCHANGED autoVars => UNCHANGED <<told, accepted>> /\ Kept
  BY <1>d DEF autoVars, endpointVars, vars, upgradeVars
<1> HIDE DEF Stutter, Kept
<1> QED
  BY <1>b, <1>c, <1>1, <1>2, <1>3, <1>4, <1>5, <1>6, <1>7, <1>8, <1>9, <1>10, <1>11, <1>12
     DEF AutoNext, HandlerOffers, Poll, HandlerPoll, endpointVars

LEMMA AutoInvHolds == AutoSpec => []AutoInv
<1>1. AutoInit => AttemptInv /\ SuccessHasStream /\ Offers
  <2>1. AutoInit => Init
    BY DEF AutoInit
  <2>2. AutoInit => Offers
    BY DEF AutoInit, Init, Offers, Queued
  <2> QED BY <2>1, <2>2, TypeInit, RoutingInit, SenderInit, AttemptInit, SuccessInit
     DEF AttemptInv, SenderInv
<1>2. AutoInv /\ [AutoNext]_autoVars => AutoInv'
  BY AutoStep, OffersStep, TypeStep, RoutingStep, SenderStepOnce, AttemptStepOnce,
     SuccessStep DEF AutoInv, AttemptInv, SenderInv
<1> QED BY <1>1, <1>2, PTL DEF AutoSpec, AutoInv

\* Whatever closes, times out or overtakes on the way, the relay and the
\* endpoints' upgrades keep what a relay promises to a dialer.
THEOREM AutoImplementsRendezvous == AutoSpec => ImplementsRendezvous
<1>1. AutoInit => Named!Init
  BY RendezvousInit
<1>2. AutoInv /\ [AutoNext]_autoVars => [Named!Next]_Named!vars
  BY RendezvousStep
<1> QED BY <1>1, <1>2, AutoInvHolds, PTL DEF AutoSpec, ImplementsRendezvous, Named!Spec
=============================================================================
