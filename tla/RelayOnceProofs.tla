--------------------------- MODULE RelayOnceProofs --------------------------
(***************************************************************************)
(* A dial is answered once, and each connect substream serves one dial:    *)
(* that nothing in the relay is ever in two places.                        *)
(***************************************************************************)
EXTENDS RelayProofs

(***************************************************************************)
(* The inductive invariants.                                               *)
(***************************************************************************)
Untouched(s) == inbound[s] \in {"none", "reading"}
Held(s)      == \E p \in Peers : connecting_requests[p] = s

\* The sender of a dial is in one place at most, and in none before the dial
\* was read.
SenderInOnePlace ==
  /\ \A i, j \in 1..Len(connect_requests) :
       connect_requests[i] = connect_requests[j] => i = j
  /\ \A s \in Streams : InChannel(s) => ~ Held(s)
  /\ \A s \in Streams : Untouched(s) =>
       oneshot[s] = "empty" /\ ~ InChannel(s) /\ ~ Held(s)

\* What is queued at c for the attempt of s, by its place in the queue.
AttemptAt(c, s, i) ==
  /\ i \in 1..Len(pending_events[c])
  /\ \E type \in AttemptTypes :
       pending_events[c][i] = [type |-> type, stream |-> s]
AttemptQueued(c, s) == \E type \in AttemptTypes : Queued(c, type, s)

QueuedOnce(c, s) ==
  \A i, j \in Nat : AttemptAt(c, s, i) /\ AttemptAt(c, s, j) => i = j

NotForwarded(s) == InChannel(s) \/ Untouched(s)

Served(s) == \E t \in Streams : connection[t] # None /\ connection[t][2] = s

\* There is one attempt for a dial, in one place, after its sender has left the
\* channel and before a stream that it brought is given away.
AttemptInOnePlace ==
  /\ \A s \in Streams : \A c, d \in Conns : Attempt(c, s) /\ Attempt(d, s) => c = d
  /\ \A c \in Conns, s \in Streams : QueuedOnce(c, s)
  /\ \A c \in Conns, s \in Streams : <<c, s>> \in upgrading => ~ AttemptQueued(c, s)
  /\ \A c \in Conns, s \in Streams : Attempt(c, s) => ~ Served(s)
  /\ \A s \in Streams : NotForwarded(s) =>
       ~ Served(s) /\ \A c \in Conns : ~ Attempt(c, s)

(***************************************************************************)
(* What sending and receiving a request do to the order of the channel.    *)
(***************************************************************************)
\* A request that is not in the channel can be sent to it.
LEMMA ChannelStaysDistinct ==
  ASSUME connect_requests \in Seq(Streams), NEW s \in Streams,
         \A i, j \in 1..Len(connect_requests) :
           connect_requests[i] = connect_requests[j] => i = j,
         ~ InChannel(s),
         connect_requests' = Append(connect_requests, s)
  PROVE  \A i, j \in 1..Len(connect_requests') :
           connect_requests'[i] = connect_requests'[j] => i = j
<1> DEFINE q == connect_requests
           n == Len(q)
<1>1. /\ n \in Nat
      /\ Len(Append(q, s)) = n + 1
      /\ \A i \in 1..n : Append(q, s)[i] = q[i]
      /\ Append(q, s)[n + 1] = s
  OBVIOUS
<1>2. \A i \in 1..n : q[i] # s
  BY DEF InChannel
<1>3. \A i \in 1..n + 1 : i \in 1..n \/ i = n + 1
  BY <1>1
<1>4. ASSUME NEW i \in 1..n + 1, NEW j \in 1..n + 1, Append(q, s)[i] = Append(q, s)[j]
      PROVE  i = j
  BY <1>1, <1>2, <1>3, <1>4
<1> QED BY <1>1, <1>4

\* The request that is received is in the channel no more.
LEMMA ReceivedLeavesChannel ==
  ASSUME connect_requests \in Seq(Streams), connect_requests # <<>>,
         NEW s \in Streams, s = Head(connect_requests),
         \A i, j \in 1..Len(connect_requests) :
           connect_requests[i] = connect_requests[j] => i = j,
         connect_requests' = Tail(connect_requests)
  PROVE  /\ ~ InChannel(s)'
         /\ \A i, j \in 1..Len(connect_requests') :
              connect_requests'[i] = connect_requests'[j] => i = j
<1> DEFINE q == connect_requests
           n == Len(q)
<1>1. /\ n \in Nat \ {0}
      /\ Len(Tail(q)) = n - 1
      /\ \A i \in 1..(n - 1) : Tail(q)[i] = q[i + 1]
      /\ s = q[1]
  OBVIOUS
<1>2. ASSUME NEW i \in 1..(n - 1) PROVE Tail(q)[i] # s
  <2>1. i + 1 \in 1..n /\ 1 \in 1..n /\ i + 1 # 1
    BY <1>1
  <2> QED BY <1>1, <2>1
<1>3. ASSUME NEW i \in 1..(n - 1), NEW j \in 1..(n - 1), Tail(q)[i] = Tail(q)[j]
      PROVE  i = j
  <2>1. i + 1 \in 1..n /\ j + 1 \in 1..n /\ q[i + 1] = q[j + 1]
    BY <1>1, <1>3
  <2>2. i + 1 = j + 1
    BY <2>1
  <2> QED BY <2>2
<1> QED BY <1>1, <1>2, <1>3 DEF InChannel

(***************************************************************************)
(* What Queue and Pop do to the place of an attempt in its queue.          *)
(***************************************************************************)
\* An event of a record is its type and its stream.
LEMMA SameEvent ==
  ASSUME NEW t, NEW x, NEW u, NEW y,
         [type |-> t, stream |-> x] = [type |-> u, stream |-> y]
  PROVE  t = u /\ x = y
<1>1. [type |-> t, stream |-> x].type = t /\ [type |-> t, stream |-> x].stream = x
  OBVIOUS
<1>2. [type |-> u, stream |-> y].type = u /\ [type |-> u, stream |-> y].stream = y
  OBVIOUS
<1> QED BY <1>1, <1>2

\* What is queued somewhere is queued at some place.
LEMMA AttemptPlaces ==
  ASSUME pending_events \in [Conns -> Seq(Events)],
         pending_events' \in [Conns -> Seq(Events)],
         NEW c \in Conns, NEW s \in Streams
  PROVE  /\ AttemptQueued(c, s) <=> \E i \in Nat : AttemptAt(c, s, i)
         /\ AttemptQueued(c, s)' <=> \E i \in Nat : AttemptAt(c, s, i)'
<1>1. Len(pending_events[c]) \in Nat /\ Len(pending_events'[c]) \in Nat
  OBVIOUS
<1>2. /\ \A i \in 1..Len(pending_events[c]) : i \in Nat
      /\ \A i \in 1..Len(pending_events'[c]) : i \in Nat
  BY <1>1
<1>3. AttemptQueued(c, s) <=> \E i \in Nat : AttemptAt(c, s, i)
  BY <1>2, Zenon DEF AttemptQueued, Queued, AttemptAt
<1>4. AttemptQueued(c, s)' <=> \E i \in Nat : AttemptAt(c, s, i)'
  BY <1>2, Zenon DEF AttemptQueued, Queued, AttemptAt
<1> QED BY <1>3, <1>4

\* A queue that does not change keeps its attempts where they are.
LEMMA SameQueue ==
  ASSUME NEW c \in Conns, NEW s \in Streams,
         QueuedOnce(c, s), pending_events'[c] = pending_events[c]
  PROVE  QueuedOnce(c, s)' /\ (AttemptQueued(c, s)' <=> AttemptQueued(c, s))
BY DEF QueuedOnce, AttemptAt, AttemptQueued, Queued

\* An event that is queued is not that of an attempt already queued.
LEMMA QueueKeepsPlaces ==
  ASSUME pending_events \in [Conns -> Seq(Events)],
         NEW d \in Conns, NEW t \in Types, NEW x \in Streams, Queue(d, t, x),
         NEW c \in Conns, NEW s \in Streams, QueuedOnce(c, s),
         c = d /\ s = x /\ t \in AttemptTypes => ~ AttemptQueued(c, s)
  PROVE  QueuedOnce(c, s)'
<1> DEFINE e == [type |-> t, stream |-> x]
           q == pending_events[c]
           n == Len(q)
<1>1. pending_events' = [pending_events EXCEPT ![d] = Append(@, e)]
  BY DEF Queue
<1>2. CASE c # d
  <2>1. pending_events'[c] = pending_events[c]
    BY <1>1, <1>2
  <2> QED BY <2>1, SameQueue
<1>3. CASE c = d
  <2>1. pending_events'[c] = Append(q, e) /\ n \in Nat
    BY <1>1, <1>3
  <2>2. e \in Events
    BY DEF Events
  <2>3. /\ Len(Append(q, e)) = n + 1
        /\ \A i \in 1..n : Append(q, e)[i] = q[i]
        /\ Append(q, e)[n + 1] = e
    BY <2>2
  <2>4. ASSUME NEW i \in Nat, AttemptAt(c, s, i)'
        PROVE  \/ AttemptAt(c, s, i)
               \/ i = n + 1 /\ s = x /\ t \in AttemptTypes
    <3>1. i \in 1..n + 1
      BY <2>1, <2>3, <2>4 DEF AttemptAt
    <3>2. PICK type \in AttemptTypes : pending_events'[c][i] = [type |-> type, stream |-> s]
      BY <2>4 DEF AttemptAt
    <3>3. CASE i \in 1..n
      BY <3>2, <3>3, <2>1, <2>3 DEF AttemptAt
    <3>4. CASE i = n + 1
      <4>1. [type |-> type, stream |-> s] = e
        BY <3>2, <3>4, <2>1, <2>3
      <4>2. type = t /\ s = x
        BY <4>1, SameEvent
      <4> QED BY <3>4, <4>2
    <3> QED BY <3>1, <3>3, <3>4, <2>1
  <2>5. CASE s = x /\ t \in AttemptTypes
    <3>1. pending_events' \in [Conns -> Seq(Events)]
      BY QueueAdds
    <3>2. \A i \in Nat : ~ AttemptAt(c, s, i)
      BY <1>3, <2>5, <3>1, AttemptPlaces
    <3> QED BY <2>4, <3>2 DEF QueuedOnce
  <2>6. CASE ~ (s = x /\ t \in AttemptTypes)
    BY <2>4, <2>6 DEF QueuedOnce
  <2> QED BY <2>5, <2>6
<1> QED BY <1>2, <1>3

\* An event that is taken was the only one of its attempt.
LEMMA PopKeepsPlaces ==
  ASSUME pending_events \in [Conns -> Seq(Events)],
         NEW d \in Conns, NEW t \in Types, NEW x \in Streams, Pop(d, t, x),
         NEW c \in Conns, NEW s \in Streams, QueuedOnce(c, s)
  PROVE  /\ QueuedOnce(c, s)'
         /\ c = d /\ s = x /\ t \in AttemptTypes => ~ AttemptQueued(c, s)'
<1> DEFINE q == pending_events[c]
           n == Len(q)
<1>1. /\ pending_events[d] # <<>>
      /\ Head(pending_events[d]) = [type |-> t, stream |-> x]
      /\ pending_events' = [pending_events EXCEPT ![d] = Tail(@)]
  BY DEF Pop
<1>2. CASE c # d
  <2>1. pending_events'[c] = pending_events[c]
    BY <1>1, <1>2
  <2> QED BY <1>2, <2>1, SameQueue
<1>3. CASE c = d
  <2>1. /\ pending_events'[c] = Tail(q) /\ n \in Nat \ {0}
        /\ Len(Tail(q)) = n - 1
        /\ \A i \in 1..(n - 1) : Tail(q)[i] = q[i + 1]
        /\ q[1] = [type |-> t, stream |-> x]
    BY <1>1, <1>3
  <2>2. ASSUME NEW i \in Nat, AttemptAt(c, s, i)'
        PROVE  i + 1 # 1 /\ AttemptAt(c, s, i + 1)
    <3>1. i \in 1..(n - 1)
      BY <2>1, <2>2 DEF AttemptAt
    <3>2. i + 1 \in 1..n /\ i + 1 # 1 /\ q[i + 1] = pending_events'[c][i]
      BY <2>1, <3>1
    <3> QED BY <2>2, <3>2 DEF AttemptAt
  <2>3. QueuedOnce(c, s)'
    <3>1. ASSUME NEW i \in Nat, NEW j \in Nat, AttemptAt(c, s, i)', AttemptAt(c, s, j)'
          PROVE  i = j
      <4>1. i + 1 = j + 1
        BY <2>2, <3>1 DEF QueuedOnce
      <4> QED BY <4>1
    <3> QED BY <3>1 DEF QueuedOnce
  <2>4. ASSUME s = x, t \in AttemptTypes, NEW i \in Nat, AttemptAt(c, s, i)'
        PROVE  FALSE
    <3>1. AttemptAt(c, s, 1)
      BY <2>1, <2>4 DEF AttemptAt
    <3>2. AttemptAt(c, s, i + 1) /\ i + 1 # 1 /\ i + 1 \in Nat
      BY <2>2, <2>4
    <3> QED BY <3>1, <3>2 DEF QueuedOnce
  <2>5. pending_events' \in [Conns -> Seq(Events)]
    BY PopRemoves
  <2> QED BY <2>3, <2>4, <2>5, AttemptPlaces
<1> QED BY <1>2, <1>3

(***************************************************************************)
(* A dial is answered once.                                                *)
(***************************************************************************)
SenderInv == TypeOK /\ Routing /\ SenderInOnePlace /\ OneSender

\* A step that leaves the senders alone and makes no dial wait.
LEMMA SendersLeftAlone ==
  ASSUME SenderInv, [Next]_vars,
         UNCHANGED <<connect_requests, connecting_requests, oneshot>>,
         \A s \in Streams : /\ Untouched(s)' => Untouched(s)
                            /\ inbound'[s] = "waiting" => inbound[s] = "waiting"
  PROVE  SenderInOnePlace' /\ OneSender'
<1>1. \A s \in Streams : /\ InChannel(s)' <=> InChannel(s)
                         /\ Held(s)' <=> Held(s)
  BY DEF InChannel, Held
<1>2. SenderInOnePlace'
  BY <1>1 DEF SenderInv, SenderInOnePlace
<1>3. ASSUME NEW s \in Streams, inbound'[s] = "waiting"
      PROVE  request'[s] = request[s]
  BY <1>3, Frozen DEF SenderInv, TypeOK, Opened
<1> QED BY <1>1, <1>2, <1>3 DEF SenderInv, OneSender

\* A dial that was read waits, with its sender in the channel.
LEMMA SenderSent ==
  ASSUME SenderInv, NEW s \in Streams, ReceiveDialRequest(s)
  PROVE  SenderInOnePlace' /\ OneSender'
<1>a. VarsTyped /\ SenderInOnePlace /\ OneSender
  BY DEF SenderInv, TypeOK
<1>1. /\ inbound[s] = "reading" /\ inbound' = [inbound EXCEPT ![s] = "waiting"]
      /\ connect_requests' = Append(connect_requests, s)
      /\ UNCHANGED <<request, oneshot, connecting_requests>>
  BY DEF ReceiveDialRequest
<1>2. oneshot[s] = "empty" /\ ~ InChannel(s) /\ ~ Held(s)
  BY <1>1, <1>a DEF SenderInOnePlace, Untouched
<1>3. /\ connect_requests' \in Seq(Streams)
      /\ \A x \in Streams : InChannel(x)' <=> InChannel(x) \/ x = s
  BY <1>1, <1>a, ChannelAdds DEF VarsTyped
<1>4. \A i, j \in 1..Len(connect_requests') :
        connect_requests'[i] = connect_requests'[j] => i = j
  BY <1>1, <1>2, <1>a, ChannelStaysDistinct DEF VarsTyped, SenderInOnePlace
<1>5. \A x \in Streams : Held(x)' <=> Held(x)
  BY <1>1 DEF Held
<1>6. \A x \in Streams : x # s => inbound'[x] = inbound[x]
  BY <1>1, <1>a DEF VarsTyped
<1>7. inbound'[s] = "waiting"
  BY <1>1, <1>a DEF VarsTyped
<1>8. SenderInOnePlace'
  BY <1>2, <1>3, <1>4, <1>5, <1>6, <1>7, <1>1, <1>a DEF SenderInOnePlace, Untouched
<1>9. OneSender'
  BY <1>1, <1>2, <1>3, <1>6, <1>7, <1>a DEF OneSender
<1> QED BY <1>8, <1>9

\* A sender that leaves the channel or its peer id is used or dropped: the
\* dial it is of is answered, unless it has been put under its peer id.
LEMMA SendersTaken ==
  ASSUME SenderInv, NEW p \in Peers, NEW new \in Streams \cup {None},
         connecting_requests' = [connecting_requests EXCEPT ![p] = new],
         UNCHANGED <<request, inbound>>,
         \A i, j \in 1..Len(connect_requests') :
           connect_requests'[i] = connect_requests'[j] => i = j,
         \A x \in Streams : InChannel(x)' <=> InChannel(x) /\ x # new,
         new # None => InChannel(new) /\ request[new].peer = p,
         NEW r \in Answers \ {"empty"},
         oneshot' = IF connecting_requests[p] = None
                      THEN oneshot ELSE Send(connecting_requests[p], r)
  PROVE  SenderInOnePlace' /\ OneSender'
<1> USE NoneIsFresh
<1> DEFINE old == connecting_requests[p]
<1>a. VarsTyped /\ SenderInOnePlace /\ OneSender
  BY DEF SenderInv, TypeOK
<1>1. /\ connecting_requests'[p] = new
      /\ \A q \in Peers : q # p => connecting_requests'[q] = connecting_requests[q]
  BY <1>a DEF VarsTyped
<1>2. /\ \A x \in Streams : Held(x)' => x = new \/ Held(x)
      /\ \A x \in Streams : x # new /\ x # old => (Held(x)' <=> Held(x))
      /\ new # None => Held(new)'
  BY <1>1 DEF Held
<1>3. /\ \A x \in Streams : x # old => oneshot'[x] = oneshot[x]
      /\ \A x \in Streams : inbound[x] # "waiting" => oneshot'[x] = oneshot[x]
      /\ old # None /\ inbound[old] = "waiting" => oneshot'[old] = r
  BY <1>a DEF Send, VarsTyped
<1>4. new # None => ~ Held(new) /\ ~ Untouched(new)
  BY <1>a DEF SenderInOnePlace
<1>5. old # None => Held(old) /\ request[old].peer = p /\ ~ InChannel(old)
  BY <1>a DEF Held, SenderInv, Routing, SenderInOnePlace, VarsTyped
<1>6. SenderInOnePlace'
  <2>1. ASSUME NEW x \in Streams, InChannel(x)' PROVE ~ Held(x)'
    BY <2>1, <1>2, <1>a DEF SenderInOnePlace
  <2>2. ASSUME NEW x \in Streams, Untouched(x)'
        PROVE  oneshot'[x] = "empty" /\ ~ InChannel(x)' /\ ~ Held(x)'
    <3>1. Untouched(x) /\ inbound[x] # "waiting"
      BY <2>2 DEF Untouched
    <3> QED BY <3>1, <1>2, <1>3, <1>4, <1>a DEF SenderInOnePlace
  <2> QED BY <2>1, <2>2 DEF SenderInOnePlace
<1>7. ASSUME NEW x \in Streams, inbound'[x] = "waiting"
      PROVE  oneshot'[x] = "empty" <=>
               InChannel(x)' \/ connecting_requests'[request'[x].peer] = x
  <2>1. inbound[x] = "waiting" /\ request'[x] = request[x]
    BY <1>7
  <2>2. oneshot[x] = "empty" <=>
          InChannel(x) \/ connecting_requests[request[x].peer] = x
    BY <2>1, <1>a DEF OneSender
  <2>3. CASE x = new
    <3>1. x # old
      BY <2>3, <1>4, <1>5
    <3> QED BY <2>1, <2>2, <2>3, <3>1, <1>1, <1>3
  <2>4. CASE x = old /\ x # new
    BY <2>1, <2>4, <1>1, <1>3, <1>5
  <2>5. CASE x # old /\ x # new
    <3>1. request[x].peer \in Peers
      BY <2>1, Frozen DEF SenderInv, TypeOK, DialsOnly, Opened, Request
    <3>2. connecting_requests'[request[x].peer] = x <=>
            connecting_requests[request[x].peer] = x
      BY <2>5, <3>1, <1>1
    <3> QED BY <2>1, <2>2, <2>5, <3>2, <1>3
  <2> QED BY <2>3, <2>4, <2>5
<1> QED BY <1>6, <1>7 DEF OneSender

\* A dial that is refused is answered as it leaves the channel.
LEMMA SenderRefused ==
  ASSUME SenderInv, NEW s \in Streams, PollRefuse(s)
  PROVE  SenderInOnePlace' /\ OneSender'
<1>a. VarsTyped /\ DialsOnly /\ SenderInOnePlace /\ OneSender
  BY DEF SenderInv, TypeOK
<1>1. /\ connect_requests # <<>> /\ s = Head(connect_requests)
      /\ connect_requests' = Tail(connect_requests)
      /\ oneshot' = Send(s, "refused")
      /\ UNCHANGED <<request, inbound, connecting_requests>>
  BY DEF PollRefuse
<1>2. /\ InChannel(s)
      /\ \A x \in Streams : InChannel(x)' => InChannel(x)
      /\ \A x \in Streams : InChannel(x) => InChannel(x)' \/ x = s
  BY <1>1, <1>a, ChannelRemoves DEF VarsTyped
<1>3. /\ ~ InChannel(s)'
      /\ \A i, j \in 1..Len(connect_requests') :
           connect_requests'[i] = connect_requests'[j] => i = j
  BY <1>1, <1>a, ReceivedLeavesChannel DEF VarsTyped, SenderInOnePlace
<1>4. \A x \in Streams : Held(x)' <=> Held(x)
  BY <1>1 DEF Held
<1>5. /\ \A x \in Streams : x # s => oneshot'[x] = oneshot[x]
      /\ inbound[s] # "waiting" => oneshot'[s] = oneshot[s]
      /\ inbound[s] = "waiting" => oneshot'[s] = "refused"
  BY <1>1, <1>a DEF Send, VarsTyped
<1>6. ~ Held(s) /\ ~ Untouched(s)
  BY <1>2, <1>a DEF SenderInOnePlace
<1>7. SenderInOnePlace'
  BY <1>1, <1>2, <1>3, <1>4, <1>5, <1>6, <1>a DEF SenderInOnePlace, Untouched
<1>8. connecting_requests[request[s].peer] # s
  <2>1. request[s].peer \in Peers
    BY <1>2, <1>a DEF DialsOnly, IsDial, Request
  <2> QED BY <2>1, <1>6 DEF Held
<1>9. OneSender'
  BY <1>1, <1>2, <1>3, <1>5, <1>8, <1>a DEF OneSender
<1> QED BY <1>7, <1>9

\* A dial that is forwarded takes the place of the one under its peer id.
LEMMA SenderForwarded ==
  ASSUME SenderInv, NEW s \in Streams, PollForward(s)
  PROVE  SenderInOnePlace' /\ OneSender'
<1>a. VarsTyped /\ DialsOnly /\ SenderInOnePlace
  BY DEF SenderInv, TypeOK
<1> DEFINE p == request[s].peer
<1>1. /\ connect_requests # <<>> /\ s = Head(connect_requests)
      /\ connect_requests' = Tail(connect_requests)
      /\ connecting_requests' = [connecting_requests EXCEPT ![p] = s]
      /\ oneshot' = IF connecting_requests[p] = None
                      THEN oneshot ELSE Send(connecting_requests[p], "canceled")
      /\ UNCHANGED <<request, inbound>>
  BY DEF PollForward
<1>2. /\ InChannel(s)
      /\ \A x \in Streams : InChannel(x)' => InChannel(x)
      /\ \A x \in Streams : InChannel(x) => InChannel(x)' \/ x = s
  BY <1>1, <1>a, ChannelRemoves DEF VarsTyped
<1>3. /\ ~ InChannel(s)'
      /\ \A i, j \in 1..Len(connect_requests') :
           connect_requests'[i] = connect_requests'[j] => i = j
  BY <1>1, <1>a, ReceivedLeavesChannel DEF VarsTyped, SenderInOnePlace
<1>4. \A x \in Streams : InChannel(x)' <=> InChannel(x) /\ x # s
  BY <1>2, <1>3
<1>5. p \in Peers
  BY <1>2, <1>a DEF DialsOnly, IsDial, Request
<1>6. "canceled" \in Answers \ {"empty"}
  BY DEF Answers
<1> HIDE DEF p
<1>7. s \in Streams \cup {None} /\ request[s].peer = p
  BY DEF p
<1> QED BY <1>1, <1>2, <1>3, <1>4, <1>5, <1>6, <1>7, SendersTaken

\* The end of an attempt takes whatever sender is under its peer id.
LEMMA SenderAnswered ==
  ASSUME SenderInv, NEW c \in Conns, NEW s \in Streams,
         OnConnectSuccess(c, s) \/ OnConnectFailed(c, s)
  PROVE  SenderInOnePlace' /\ OneSender'
<1>a. VarsTyped /\ DialsOnly /\ SenderInOnePlace
  BY DEF SenderInv, TypeOK
<1> DEFINE p == request[s].peer
<1>1. PICK r \in {"connected", "failed"} :
        oneshot' = IF connecting_requests[p] = None
                     THEN oneshot ELSE Send(connecting_requests[p], r)
  BY DEF OnConnectSuccess, OnConnectFailed
<1>2. /\ connecting_requests' = [connecting_requests EXCEPT ![p] = None]
      /\ UNCHANGED <<request, inbound, connect_requests>>
  BY DEF OnConnectSuccess, OnConnectFailed
<1>3. PICK t \in {"connect_success", "connect_failed"} : Pop(c, t, s)
  BY DEF OnConnectSuccess, OnConnectFailed
<1>4. t \in Types
  BY DEF Types
<1>5. Queued(c, t, s)
  BY <1>3, <1>4, <1>a, PopRemoves DEF VarsTyped
<1>6. p \in Peers
  BY <1>4, <1>5, <1>a DEF DialsOnly, IsDial, Request
<1>7. r \in Answers \ {"empty"}
  BY DEF Answers
<1>8. \A i, j \in 1..Len(connect_requests') :
        connect_requests'[i] = connect_requests'[j] => i = j
  BY <1>2, <1>a DEF SenderInOnePlace
<1>9. None \in Streams \cup {None} /\ \A x \in Streams : x # None
  BY NoneIsFresh
<1>10. \A x \in Streams : InChannel(x)' <=> InChannel(x) /\ x # None
  BY <1>2, <1>9 DEF InChannel
<1> HIDE DEF p
<1> QED BY <1>1, <1>2, <1>6, <1>7, <1>8, <1>9, <1>10, SendersTaken

LEMMA SenderInit == Init => SenderInOnePlace /\ OneSender
<1> SUFFICES ASSUME Init PROVE SenderInOnePlace /\ OneSender
  OBVIOUS
<1>1. /\ \A s \in Streams : ~ InChannel(s) /\ ~ Held(s)
      /\ \A s \in Streams : inbound[s] = "none" /\ oneshot[s] = "empty"
  BY NoneIsFresh DEF Init, InChannel, Held
<1>2. SenderInOnePlace
  BY <1>1 DEF Init, SenderInOnePlace
<1> QED BY <1>1, <1>2 DEF OneSender

LEMMA SenderStepOnce ==
  SenderInv /\ [Next]_vars => SenderInOnePlace' /\ OneSender'
<1> SUFFICES ASSUME SenderInv, [Next]_vars PROVE SenderInOnePlace' /\ OneSender'
  OBVIOUS
<1> DEFINE Calm == UNCHANGED <<connect_requests, connecting_requests, oneshot>>
           Still == \A s \in Streams : /\ Untouched(s)' => Untouched(s)
                                       /\ inbound'[s] = "waiting" => inbound[s] = "waiting"
<1>a. VarsTyped
  BY DEF SenderInv, TypeOK
<1>b. Calm /\ Still => SenderInOnePlace' /\ OneSender'
  BY SendersLeftAlone
<1>c. UNCHANGED inbound => Still
  BY DEF Untouched
<1>1. ASSUME NEW c \in Conns, NEW p \in Peers, Establish(c, p)
      PROVE  Calm /\ UNCHANGED inbound
  BY <1>1 DEF Establish, upgradeVars, behaviourVars
<1>2. ASSUME NEW c \in Conns, Close(c)
      PROVE  Calm /\ Still
  BY <1>2, <1>a DEF Close, behaviourVars, Untouched, Running
<1>3. ASSUME NEW s \in Streams, NEW r \in Request, Open(s, r)
      PROVE  Calm /\ Still
  BY <1>3, <1>a DEF Open, behaviourVars, Untouched, VarsTyped
<1>4. ASSUME NEW s \in Streams,
             ReceiveListenRequest(s) \/ ResumeDial(s) \/ Respond(s) \/ UpgradeFails(s)
      PROVE  Calm /\ Still
  BY <1>4, <1>a DEF ReceiveListenRequest, ResumeDial, Respond, UpgradeFails,
     behaviourVars, Untouched, VarsTyped
<1>5. ASSUME NEW c \in Conns, NEW s \in Streams,
             \/ ConnectEnds(c, s) \/ HandlerPollConnect(c, s) \/ OnDialSuccess(c, s)
             \/ OnListenSuccess(c, s) \/ OnListenOrDialFailed(c, s)
      PROVE  Calm /\ UNCHANGED inbound
  BY <1>5 DEF ConnectEnds, HandlerPollConnect, OnDialSuccess, OnListenSuccess,
     OnListenOrDialFailed, upgradeVars, behaviourVars
<1>6. PollEmit \/ PollPending => Calm /\ UNCHANGED inbound
  BY DEF PollEmit, PollPending, upgradeVars
<1>7. UNCHANGED vars => Calm /\ UNCHANGED inbound
  BY DEF vars, upgradeVars, behaviourVars
<1> HIDE DEF Calm, Still
<1> QED
  BY <1>b, <1>c, <1>1, <1>2, <1>3, <1>4, <1>5, <1>6, <1>7, SenderSent, SenderRefused,
     SenderForwarded, SenderAnswered DEF Next, Poll, HandlerPoll

LEMMA SenderInvHolds == Spec => []SenderInv
<1>1. Init => SenderInv
  BY TypeInit, RoutingInit, SenderInit DEF SenderInv
<1>2. SenderInv /\ [Next]_vars => SenderInv'
  BY TypeStep, RoutingStep, SenderStepOnce DEF SenderInv
<1> QED BY <1>1, <1>2, PTL DEF Spec

\* However dials for one peer overtake each other, a dial that waits is
\* unanswered exactly while the behaviour holds its sender: none is forgotten,
\* and none is answered twice (relay/behaviour.rs:130, 219).
THEOREM DialsAnsweredOnce == Spec => []OneSender
BY SenderInvHolds, PTL DEF SenderInv

(***************************************************************************)
(* A connect substream serves one dial.                                    *)
(***************************************************************************)
AttemptInv == SenderInv /\ AttemptInOnePlace /\ NoSharedStream

LEMMA AttemptIs ==
  ASSUME NEW c \in Conns, NEW s \in Streams
  PROVE  /\ Attempt(c, s) <=> <<c, s>> \in upgrading \/ AttemptQueued(c, s)
         /\ Attempt(c, s)' <=> <<c, s>> \in upgrading' \/ AttemptQueued(c, s)'
BY DEF Attempt, AttemptQueued

\* A step that starts no attempt, and gives no stream to a dial.
LEMMA AttemptsKept ==
  ASSUME AttemptInv, UNCHANGED connection,
         \A s \in Streams : NotForwarded(s)' => NotForwarded(s),
         \A c \in Conns, s \in Streams :
           /\ Attempt(c, s)' => Attempt(c, s)
           /\ QueuedOnce(c, s)'
           /\ <<c, s>> \in upgrading' => ~ AttemptQueued(c, s)'
  PROVE  AttemptInOnePlace' /\ NoSharedStream'
<1>1. \A s \in Streams : Served(s)' <=> Served(s)
  BY DEF Served
<1>2. AttemptInOnePlace'
  BY <1>1 DEF AttemptInv, AttemptInOnePlace
<1> QED BY <1>2 DEF AttemptInv, NoSharedStream

\* An attempt starts for a dial whose sender has just left the channel.
LEMMA AttemptStarts ==
  ASSUME AttemptInv, NEW s \in Streams, PollForward(s)
  PROVE  AttemptInOnePlace' /\ NoSharedStream'
<1>a. VarsTyped /\ SenderInOnePlace /\ AttemptInOnePlace /\ NoSharedStream
  BY DEF AttemptInv, SenderInv, TypeOK
<1>1. /\ connect_requests # <<>> /\ s = Head(connect_requests)
      /\ connect_requests' = Tail(connect_requests)
      /\ UNCHANGED <<inbound, connection, upgrading>>
      /\ NotifyAny(request[s].peer, s)
  BY DEF PollForward
<1>2. /\ InChannel(s)
      /\ \A x \in Streams : InChannel(x)' => InChannel(x)
  BY <1>1, <1>a, ChannelRemoves DEF VarsTyped
<1>3. ~ InChannel(s)' /\ ~ Untouched(s)
  BY <1>1, <1>2, <1>a, ReceivedLeavesChannel DEF VarsTyped, SenderInOnePlace
<1>4. /\ ~ NotForwarded(s)'
      /\ \A x \in Streams : NotForwarded(x)' => NotForwarded(x)
  BY <1>1, <1>2, <1>3 DEF NotForwarded, Untouched
<1>5. ~ Served(s) /\ \A c \in Conns : ~ Attempt(c, s)
  BY <1>2, <1>a DEF AttemptInOnePlace, NotForwarded
<1>6. CASE UNCHANGED pending_events
  <2>1. \A c \in Conns, x \in Streams :
          /\ Attempt(c, x)' <=> Attempt(c, x)
          /\ QueuedOnce(c, x)' <=> QueuedOnce(c, x)
          /\ AttemptQueued(c, x)' <=> AttemptQueued(c, x)
    BY <1>1, <1>6 DEF Attempt, Queued, QueuedOnce, AttemptAt, AttemptQueued
  <2> QED BY <2>1, <1>1, <1>4, <1>a, AttemptsKept DEF AttemptInOnePlace
<1>7. ASSUME NEW d \in Conns, Queue(d, "connect", s)
      PROVE  AttemptInOnePlace' /\ NoSharedStream'
  <2>1. "connect" \in Types /\ "connect" \in AttemptTypes /\ AttemptTypes \subseteq Types
    BY DEF Types, AttemptTypes
  <2>2. \A c \in Conns, type \in Types, x \in Streams :
          Queued(c, type, x)' <=> Queued(c, type, x) \/ (c = d /\ type = "connect" /\ x = s)
    BY <1>7, <2>1, <1>a, QueueAdds DEF VarsTyped
  <2>3. \A c \in Conns, x \in Streams :
          AttemptQueued(c, x)' <=> AttemptQueued(c, x) \/ (c = d /\ x = s)
    BY <2>1, <2>2 DEF AttemptQueued
  <2>4. \A c \in Conns, x \in Streams :
          Attempt(c, x)' <=> Attempt(c, x) \/ (c = d /\ x = s)
    BY <2>3, <1>1, AttemptIs
  <2>5. \A c \in Conns : ~ AttemptQueued(c, s) /\ <<c, s>> \notin upgrading
    BY <1>5, AttemptIs
  <2>6. ASSUME NEW c \in Conns, NEW x \in Streams PROVE QueuedOnce(c, x)'
    <3>1. QueuedOnce(c, x) /\ (c = d /\ x = s => ~ AttemptQueued(c, x))
      BY <2>5, <1>a DEF AttemptInOnePlace
    <3>2. pending_events \in [Conns -> Seq(Events)]
      BY <1>a DEF VarsTyped
    <3> QED BY <1>7, <2>1, <3>1, <3>2, QueueKeepsPlaces
  <2>7. \A c \in Conns, x \in Streams : <<c, x>> \in upgrading' => ~ AttemptQueued(c, x)'
    BY <2>3, <2>5, <1>1, <1>a DEF AttemptInOnePlace
  <2>8. \A x \in Streams : Served(x)' <=> Served(x)
    BY <1>1 DEF Served
  <2>9. \A x \in Streams, c, e \in Conns : Attempt(c, x)' /\ Attempt(e, x)' => c = e
    BY <2>4, <1>5, <1>a DEF AttemptInOnePlace
  <2>10. \A c \in Conns, x \in Streams : Attempt(c, x)' => ~ Served(x)'
    BY <2>4, <2>8, <1>5, <1>a DEF AttemptInOnePlace
  <2>11. \A x \in Streams : NotForwarded(x)' =>
           ~ Served(x)' /\ \A c \in Conns : ~ Attempt(c, x)'
    BY <2>4, <2>8, <1>4, <1>a DEF AttemptInOnePlace
  <2>12. AttemptInOnePlace'
    BY <2>6, <2>7, <2>9, <2>10, <2>11 DEF AttemptInOnePlace
  <2> QED BY <2>12, <1>1, <1>a DEF NoSharedStream
<1>8. ConnsTo(request[s].peer) \subseteq Conns
  BY <1>a DEF ConnsTo, VarsTyped
<1> QED BY <1>1, <1>6, <1>7, <1>8 DEF NotifyAny

\* The stream an attempt brings is given to one dial, and the attempt is over.
LEMMA AttemptSucceeds ==
  ASSUME AttemptInv, NEW c \in Conns, NEW s \in Streams, OnConnectSuccess(c, s)
  PROVE  AttemptInOnePlace' /\ NoSharedStream'
<1> USE NoneIsFresh
<1>a. VarsTyped /\ AttemptInOnePlace /\ NoSharedStream
  BY DEF AttemptInv, SenderInv, TypeOK
<1>1. /\ Pop(c, "connect_success", s)
      /\ UNCHANGED <<inbound, upgrading, connect_requests>>
  BY DEF OnConnectSuccess
<1>2. /\ "connect_success" \in Types /\ "connect_success" \in AttemptTypes
      /\ AttemptTypes \subseteq Types
  BY DEF Types, AttemptTypes
<1>3. /\ Queued(c, "connect_success", s)
      /\ \A d \in Conns, type \in Types, x \in Streams :
           Queued(d, type, x)' => Queued(d, type, x)
  BY <1>1, <1>2, <1>a, PopRemoves DEF VarsTyped
<1>4. AttemptQueued(c, s) /\ Attempt(c, s)
  BY <1>2, <1>3 DEF AttemptQueued, Attempt
<1>5. \A d \in Conns, x \in Streams : AttemptQueued(d, x)' => AttemptQueued(d, x)
  BY <1>2, <1>3 DEF AttemptQueued
<1>6. \A d \in Conns, x \in Streams : Attempt(d, x)' => Attempt(d, x)
  BY <1>1, <1>5, AttemptIs
<1>7. /\ \A d \in Conns, x \in Streams : QueuedOnce(d, x)'
      /\ ~ AttemptQueued(c, s)'
  BY <1>1, <1>2, <1>a, PopKeepsPlaces DEF VarsTyped, AttemptInOnePlace
<1>8. \A d \in Conns : ~ Attempt(d, s)'
  <2>1. \A d \in Conns : Attempt(d, s)' => d = c
    BY <1>4, <1>6, <1>a DEF AttemptInOnePlace
  <2>2. <<c, s>> \notin upgrading
    BY <1>4, <1>a DEF AttemptInOnePlace
  <2> QED BY <2>1, <2>2, <1>1, <1>7, AttemptIs
<1>9. ~ Served(s) /\ ~ NotForwarded(s)
  BY <1>4, <1>a DEF AttemptInOnePlace
<1>10. \A x \in Streams : NotForwarded(x)' <=> NotForwarded(x)
  BY <1>1 DEF NotForwarded, InChannel, Untouched
<1> DEFINE d == connecting_requests[request[s].peer]
<1>11. \/ UNCHANGED connection
       \/ d \in Streams /\ connection' = [connection EXCEPT ![d] = <<c, s>>]
  <2>1. request[s].peer \in Peers
    BY <1>2, <1>3 DEF AttemptInv, SenderInv, TypeOK, DialsOnly, IsDial, Request
  <2>2. d \in Streams \cup {None}
    BY <2>1, <1>a DEF VarsTyped
  <2> QED BY <2>2 DEF OnConnectSuccess
<1> HIDE DEF d
<1>12. \A t \in Streams : connection'[t] # None =>
         \/ connection'[t] = connection[t]
         \/ t = d /\ connection'[t] = <<c, s>>
  BY <1>11, <1>a DEF VarsTyped
<1>13. \A x \in Streams : Served(x)' => Served(x) \/ x = s
  BY <1>12 DEF Served
<1>14. AttemptInOnePlace'
  BY <1>1, <1>5, <1>6, <1>7, <1>8, <1>9, <1>10, <1>13, <1>a DEF AttemptInOnePlace
<1>15. NoSharedStream'
  <2>1. \A t \in Streams : connection[t] # None => connection[t][2] # s
    BY <1>9 DEF Served
  <2>2. ASSUME NEW t \in Streams, NEW u \in Streams,
               connection'[t] # None, connection'[u] # None,
               connection'[t][2] = connection'[u][2]
        PROVE  t = u
    <3>1. CASE connection'[t] = connection[t] /\ connection'[u] = connection[u]
      BY <2>2, <3>1, <1>a DEF NoSharedStream
    <3>2. CASE connection'[t] = <<c, s>> /\ t = d /\ connection'[u] = connection[u]
      BY <2>1, <2>2, <3>2
    <3>3. CASE connection'[u] = <<c, s>> /\ u = d /\ connection'[t] = connection[t]
      BY <2>1, <2>2, <3>3
    <3> QED BY <2>2, <3>1, <3>2, <3>3, <1>12
  <2> QED BY <2>2 DEF NoSharedStream
<1> QED BY <1>14, <1>15

\* Taking an event starts no attempt, whichever it is.
LEMMA PopKeepsAttempts ==
  ASSUME AttemptInv, NEW d \in Conns, NEW t \in Types, NEW x \in Streams,
         Pop(d, t, x), NEW c \in Conns, NEW s \in Streams
  PROVE  /\ QueuedOnce(c, s)'
         /\ AttemptQueued(c, s)' => AttemptQueued(c, s)
         /\ c = d /\ s = x /\ t \in AttemptTypes =>
              AttemptQueued(c, s) /\ ~ AttemptQueued(c, s)'
<1>a. pending_events \in [Conns -> Seq(Events)] /\ QueuedOnce(c, s)
  BY DEF AttemptInv, SenderInv, TypeOK, VarsTyped, AttemptInOnePlace
<1>1. /\ Queued(d, t, x)
      /\ \A type \in Types : Queued(c, type, s)' => Queued(c, type, s)
  BY <1>a, PopRemoves
<1>2. AttemptTypes \subseteq Types
  BY DEF AttemptTypes, Types
<1>3. AttemptQueued(c, s)' => AttemptQueued(c, s)
  BY <1>1, <1>2 DEF AttemptQueued
<1>4. c = d /\ s = x /\ t \in AttemptTypes => AttemptQueued(c, s)
  BY <1>1 DEF AttemptQueued
<1>5. /\ QueuedOnce(c, s)'
      /\ c = d /\ s = x /\ t \in AttemptTypes => ~ AttemptQueued(c, s)'
  BY <1>a, PopKeepsPlaces
<1> QED BY <1>3, <1>4, <1>5

\* Queueing an event starts an attempt only if it is that of one.
LEMMA QueueKeepsAttempts ==
  ASSUME AttemptInv, NEW d \in Conns, NEW t \in Types, NEW x \in Streams,
         Queue(d, t, x), t \in AttemptTypes => ~ AttemptQueued(d, x),
         NEW c \in Conns, NEW s \in Streams
  PROVE  /\ QueuedOnce(c, s)'
         /\ AttemptQueued(c, s)' <=>
              \/ AttemptQueued(c, s)
              \/ c = d /\ s = x /\ t \in AttemptTypes
<1>a. pending_events \in [Conns -> Seq(Events)] /\ QueuedOnce(c, s)
  BY DEF AttemptInv, SenderInv, TypeOK, VarsTyped, AttemptInOnePlace
<1>1. \A type \in Types : Queued(c, type, s)' <=>
        Queued(c, type, s) \/ (c = d /\ type = t /\ s = x)
  BY <1>a, QueueAdds
<1>2. AttemptTypes \subseteq Types
  BY DEF AttemptTypes, Types
<1>3. AttemptQueued(c, s)' <=> AttemptQueued(c, s) \/ (c = d /\ s = x /\ t \in AttemptTypes)
  BY <1>1, <1>2 DEF AttemptQueued
<1>4. c = d /\ s = x /\ t \in AttemptTypes => ~ AttemptQueued(c, s)
  OBVIOUS
<1>5. QueuedOnce(c, s)'
  BY <1>a, <1>4, QueueKeepsPlaces
<1> QED BY <1>3, <1>5

LEMMA AttemptInit == Init => AttemptInOnePlace /\ NoSharedStream
<1> SUFFICES ASSUME Init PROVE AttemptInOnePlace /\ NoSharedStream
  OBVIOUS
<1>1. /\ \A s \in Streams : ~ Served(s)
      /\ \A c \in Conns, s \in Streams : ~ AttemptQueued(c, s) /\ ~ Attempt(c, s)
      /\ \A c \in Conns, s \in Streams, i \in Nat : ~ AttemptAt(c, s, i)
  BY DEF Init, Served, AttemptQueued, Queued, Attempt, AttemptAt
<1> QED BY <1>1 DEF Init, AttemptInOnePlace, QueuedOnce, NoSharedStream

LEMMA AttemptStepOnce ==
  AttemptInv /\ [Next]_vars => AttemptInOnePlace' /\ NoSharedStream'
<1> SUFFICES ASSUME AttemptInv, [Next]_vars PROVE AttemptInOnePlace' /\ NoSharedStream'
  OBVIOUS
<1> DEFINE Later == \A s \in Streams : NotForwarded(s)' => NotForwarded(s)
           Same(c, s) == /\ Attempt(c, s)' => Attempt(c, s)
                         /\ QueuedOnce(c, s)'
                         /\ <<c, s>> \in upgrading' => ~ AttemptQueued(c, s)'
           Kept == \A c \in Conns, s \in Streams : Same(c, s)
<1>a. VarsTyped /\ DialsOnly /\ AttemptInOnePlace
  BY DEF AttemptInv, SenderInv, TypeOK
<1>b. UNCHANGED connection /\ Later /\ Kept => AttemptInOnePlace' /\ NoSharedStream'
  BY AttemptsKept
<1>c. UNCHANGED <<inbound, connect_requests>> => Later
  BY DEF NotForwarded, InChannel, Untouched
<1>d. ASSUME UNCHANGED handlerVars, NEW c \in Conns, NEW s \in Streams
      PROVE  Same(c, s)
  <2>1. QueuedOnce(c, s) /\ (<<c, s>> \in upgrading => ~ AttemptQueued(c, s))
    BY <1>a DEF AttemptInOnePlace
  <2>2. pending_events'[c] = pending_events[c] /\ upgrading' = upgrading
    BY <1>d DEF handlerVars
  <2> QED BY <2>1, <2>2, SameQueue, AttemptIs
<1>1. ASSUME NEW c \in Conns, NEW p \in Peers, Establish(c, p)
      PROVE  UNCHANGED connection /\ Later /\ Kept
  BY <1>1, <1>c, <1>d DEF Establish, upgradeVars, behaviourVars
<1>2. ASSUME NEW d \in Conns, Close(d)
      PROVE  UNCHANGED connection /\ Later /\ Kept
  <2>1. Later
    BY <1>2, <1>a DEF Close, behaviourVars, NotForwarded, InChannel, Untouched, Running
  <2>2. /\ pending_events' = [pending_events EXCEPT ![d] = <<>>]
        /\ upgrading' = {u \in upgrading : u[1] # d}
    BY <1>2 DEF Close
  <2>3. ASSUME NEW c \in Conns, NEW s \in Streams, c # d PROVE Same(c, s)
    <3>1. /\ pending_events'[c] = pending_events[c]
          /\ <<c, s>> \in upgrading' <=> <<c, s>> \in upgrading
      BY <2>2, <2>3
    <3>2. QueuedOnce(c, s) /\ (<<c, s>> \in upgrading => ~ AttemptQueued(c, s))
      BY <1>a DEF AttemptInOnePlace
    <3> QED BY <3>1, <3>2, SameQueue, AttemptIs
  <2>4. ASSUME NEW s \in Streams PROVE Same(d, s)
    <3>1. pending_events'[d] = <<>> /\ <<d, s>> \notin upgrading'
      BY <2>2, <1>a DEF VarsTyped
    <3>2. ~ AttemptQueued(d, s)' /\ \A i \in Nat : ~ AttemptAt(d, s, i)'
      BY <3>1 DEF AttemptQueued, Queued, AttemptAt
    <3> QED BY <3>1, <3>2, AttemptIs DEF QueuedOnce
  <2> QED BY <2>1, <2>3, <2>4, <1>2 DEF Close
<1>3. ASSUME NEW s \in Streams, NEW r \in Request, Open(s, r)
      PROVE  UNCHANGED connection /\ Later /\ Kept
  <2>1. Later
    BY <1>3, <1>a DEF Open, behaviourVars, NotForwarded, InChannel, Untouched, VarsTyped
  <2> QED BY <2>1, <1>3, <1>d DEF Open
<1>4. ASSUME NEW s \in Streams, ReceiveDialRequest(s)
      PROVE  UNCHANGED connection /\ Later /\ Kept
  <2>1. \A x \in Streams : InChannel(x)' <=> InChannel(x) \/ x = s
    BY <1>4, <1>a, ChannelAdds DEF ReceiveDialRequest, VarsTyped
  <2>2. Later
    BY <1>4, <2>1, <1>a DEF ReceiveDialRequest, NotForwarded, Untouched, VarsTyped
  <2> QED BY <2>2, <1>4, <1>d DEF ReceiveDialRequest
<1>5. ASSUME NEW s \in Streams, ReceiveListenRequest(s)
      PROVE  UNCHANGED connection /\ Later /\ Kept
  <2>1. Later
    BY <1>5, <1>a DEF ReceiveListenRequest, behaviourVars, NotForwarded, InChannel,
       Untouched, VarsTyped
  <2> QED BY <2>1, <1>5, <1>d DEF ReceiveListenRequest
<1>6. ASSUME NEW s \in Streams, ResumeDial(s) \/ Respond(s) \/ UpgradeFails(s)
      PROVE  UNCHANGED connection /\ Later /\ Kept
  <2>1. Later
    BY <1>6, <1>a DEF ResumeDial, Respond, UpgradeFails, behaviourVars, NotForwarded,
       InChannel, Untouched, VarsTyped
  <2>2. \/ UNCHANGED pending_events
        \/ \E t \in {"failed", "dial_success", "listen_success"} : Queue(request[s].conn, t, s)
    BY <1>6 DEF ResumeDial, Respond, UpgradeFails
  <2>3. request[s].conn \in Conns /\ UNCHANGED <<connection, upgrading>>
    BY <1>6, <1>a DEF ResumeDial, Respond, UpgradeFails, Running, Opened, DialsOnly, Request
  <2>4. ASSUME NEW t \in {"failed", "dial_success", "listen_success"},
               Queue(request[s].conn, t, s), NEW c \in Conns, NEW x \in Streams
        PROVE  Same(c, x)
    <3>1. t \in Types /\ t \notin AttemptTypes
      BY DEF Types, AttemptTypes
    <3>2. QueuedOnce(c, x)' /\ (AttemptQueued(c, x)' <=> AttemptQueued(c, x))
      BY <2>3, <2>4, <3>1, QueueKeepsAttempts
    <3> QED BY <2>3, <3>2, <1>a, AttemptIs DEF AttemptInOnePlace
  <2>5. CASE UNCHANGED pending_events
    BY <2>1, <2>3, <2>5, <1>d DEF handlerVars
  <2> QED BY <2>1, <2>2, <2>3, <2>4, <2>5
<1>7. ASSUME NEW d \in Conns, NEW x \in Streams, ConnectEnds(d, x)
      PROVE  UNCHANGED connection /\ Later /\ Kept
  <2>1. PICK t \in {"connect_success", "connect_failed"} : Queue(d, t, x)
    BY <1>7 DEF ConnectEnds
  <2>2. t \in Types /\ t \in AttemptTypes
    BY DEF Types, AttemptTypes
  <2>3. /\ <<d, x>> \in upgrading /\ upgrading' = upgrading \ {<<d, x>>}
        /\ UNCHANGED <<connection, inbound, connect_requests>>
    BY <1>7 DEF ConnectEnds, upgradeVars, behaviourVars
  <2>4. ~ AttemptQueued(d, x) /\ Attempt(d, x)
    BY <2>3, <1>a DEF AttemptInOnePlace, Attempt
  <2>5. ASSUME NEW c \in Conns, NEW s \in Streams PROVE Same(c, s)
    <3>1. QueuedOnce(c, s)' /\ (AttemptQueued(c, s)' <=>
                                  AttemptQueued(c, s) \/ (c = d /\ s = x))
      BY <2>1, <2>2, <2>4, QueueKeepsAttempts
    <3>2. <<c, s>> \in upgrading' <=> <<c, s>> \in upgrading /\ ~ (c = d /\ s = x)
      BY <2>3
    <3> QED BY <2>4, <3>1, <3>2, <1>a, AttemptIs DEF AttemptInOnePlace
  <2> QED BY <2>3, <2>5, <1>c
<1>8. ASSUME NEW d \in Conns, NEW x \in Streams, HandlerPollConnect(d, x)
      PROVE  UNCHANGED connection /\ Later /\ Kept
  <2>1. /\ Pop(d, "connect", x) /\ upgrading' = upgrading \cup {<<d, x>>}
        /\ UNCHANGED <<connection, inbound, connect_requests>>
    BY <1>8 DEF HandlerPollConnect, upgradeVars, behaviourVars
  <2>2. "connect" \in Types /\ "connect" \in AttemptTypes
    BY DEF Types, AttemptTypes
  <2>3. ASSUME NEW c \in Conns, NEW s \in Streams PROVE Same(c, s)
    <3>1. /\ QueuedOnce(c, s)'
          /\ AttemptQueued(c, s)' => AttemptQueued(c, s)
          /\ c = d /\ s = x => AttemptQueued(c, s) /\ ~ AttemptQueued(c, s)'
      BY <2>1, <2>2, PopKeepsAttempts
    <3>2. <<c, s>> \in upgrading' <=> <<c, s>> \in upgrading \/ (c = d /\ s = x)
      BY <2>1
    <3> QED BY <3>1, <3>2, <1>a, AttemptIs DEF AttemptInOnePlace
  <2> QED BY <2>1, <2>3, <1>c
<1>9. ASSUME NEW d \in Conns, NEW x \in Streams,
             \/ OnDialSuccess(d, x) \/ OnConnectFailed(d, x)
             \/ OnListenSuccess(d, x) \/ OnListenOrDialFailed(d, x)
      PROVE  UNCHANGED connection /\ Later /\ Kept
  <2>1. PICK t \in Types : Pop(d, t, x)
    BY <1>9 DEF Types, OnDialSuccess, OnConnectFailed, OnListenSuccess,
       OnListenOrDialFailed
  <2>2. UNCHANGED <<connection, inbound, connect_requests, upgrading>>
    BY <1>9 DEF OnDialSuccess, OnConnectFailed, OnListenSuccess, OnListenOrDialFailed,
       upgradeVars, behaviourVars
  <2>3. ASSUME NEW c \in Conns, NEW s \in Streams PROVE Same(c, s)
    <3>1. QueuedOnce(c, s)' /\ (AttemptQueued(c, s)' => AttemptQueued(c, s))
      BY <2>1, PopKeepsAttempts
    <3> QED BY <2>2, <3>1, <1>a, AttemptIs DEF AttemptInOnePlace
  <2> QED BY <2>2, <2>3, <1>c
<1>10. ASSUME NEW s \in Streams, PollRefuse(s)
       PROVE  UNCHANGED connection /\ Later /\ Kept
  <2>1. \A x \in Streams : InChannel(x)' => InChannel(x)
    BY <1>10, <1>a, ChannelRemoves DEF PollRefuse, VarsTyped
  <2>2. Later
    BY <1>10, <2>1 DEF PollRefuse, NotForwarded, Untouched
  <2> QED BY <2>2, <1>10, <1>d DEF PollRefuse
<1>11. PollEmit \/ PollPending => UNCHANGED connection /\ Later /\ Kept
  BY <1>c, <1>d DEF PollEmit, PollPending, upgradeVars
<1>12. UNCHANGED vars => UNCHANGED connection /\ Later /\ Kept
  BY <1>c, <1>d DEF vars, upgradeVars, behaviourVars
<1> HIDE DEF Later, Kept
<1> QED
  BY <1>b, <1>1, <1>2, <1>3, <1>4, <1>5, <1>6, <1>7, <1>8, <1>9, <1>10, <1>11, <1>12,
     AttemptStarts, AttemptSucceeds DEF Next, Poll, HandlerPoll

LEMMA AttemptInvHolds == Spec => []AttemptInv
<1>1. Init => AttemptInv
  BY TypeInit, RoutingInit, SenderInit, AttemptInit DEF AttemptInv, SenderInv
<1>2. AttemptInv /\ [Next]_vars => AttemptInv'
  BY TypeStep, RoutingStep, SenderStepOnce, AttemptStepOnce DEF AttemptInv, SenderInv
<1> QED BY <1>1, <1>2, PTL DEF Spec

\* However the attempts for one peer overtake each other, no two dials are
\* joined to the same connect substream (relay/behaviour.rs:130).
THEOREM StreamsServeOneDial == Spec => []NoSharedStream
BY AttemptInvHolds, PTL DEF AttemptInv

(***************************************************************************)
(* A dial that is told of success was given a stream.                      *)
(***************************************************************************)
\* The answer of a dial is a connection exactly when it was given a stream, and
\* no success is sent to a dialer before.
SuccessHasStream ==
  \A s \in Streams :
    /\ connection[s] # None <=> oneshot[s] = "connected"
    /\ IsDial(s) /\ inbound[s] \in {"responding", "ok"} => oneshot[s] = "connected"

\* Another answer is only sent to a dial that has none.
LEMMA OtherAnswer ==
  ASSUME SenderInv, SuccessHasStream, NEW s \in Streams,
         InChannel(s) \/ Held(s), NEW r \in Answers \ {"connected"},
         oneshot' = Send(s, r), UNCHANGED <<request, inbound, connection>>
  PROVE  SuccessHasStream'
<1>a. VarsTyped
  BY DEF SenderInv, TypeOK
<1>1. inbound[s] = "waiting" => oneshot[s] = "empty"
  <2>1. InChannel(s) \/ connecting_requests[request[s].peer] = s
    BY NoneIsFresh DEF Held, SenderInv, Routing, TypeOK, VarsTyped
  <2> QED BY <2>1 DEF SenderInv, OneSender
<1>2. ASSUME NEW x \in Streams
      PROVE  /\ connection'[x] # None <=> oneshot'[x] = "connected"
             /\ IsDial(x)' /\ inbound'[x] \in {"responding", "ok"} =>
                  oneshot'[x] = "connected"
  <2>1. CASE oneshot'[x] = oneshot[x]
    BY <2>1 DEF SuccessHasStream, IsDial, Opened
  <2>2. CASE oneshot'[x] # oneshot[x]
    <3>1. x = s /\ inbound[s] = "waiting" /\ oneshot'[s] = r
      BY <2>2, <1>a DEF Send, VarsTyped
    <3>2. connection[s] = None
      BY <3>1, <1>1 DEF SuccessHasStream
    <3> QED BY <3>1, <3>2
  <2> QED BY <2>1, <2>2
<1> QED BY <1>2 DEF SuccessHasStream

\* A step that answers no dial.
LEMMA NoAnswer ==
  ASSUME SuccessHasStream, UNCHANGED <<oneshot, connection>>,
         \A s \in Streams : IsDial(s)' /\ inbound'[s] \in {"responding", "ok"} =>
           oneshot[s] = "connected"
  PROVE  SuccessHasStream'
BY DEF SuccessHasStream

LEMMA SuccessStep ==
  SenderInv /\ SuccessHasStream /\ [Next]_vars => SuccessHasStream'
<1> SUFFICES ASSUME SenderInv, SuccessHasStream, [Next]_vars PROVE SuccessHasStream'
  OBVIOUS
<1> USE NoneIsFresh
<1> DEFINE Before == \A s \in Streams :
             IsDial(s)' /\ inbound'[s] \in {"responding", "ok"} => oneshot[s] = "connected"
<1>a. VarsTyped /\ DialsOnly /\ Routing
  BY DEF SenderInv, TypeOK
<1>b. UNCHANGED <<oneshot, connection>> /\ Before => SuccessHasStream'
  BY NoAnswer
<1>c. UNCHANGED <<request, inbound>> => Before
  BY DEF SuccessHasStream, IsDial, Opened
<1>1. ASSUME NEW c \in Conns, NEW p \in Peers, Establish(c, p)
      PROVE  UNCHANGED <<oneshot, connection>> /\ Before
  BY <1>1, <1>c DEF Establish, upgradeVars
<1>2. ASSUME NEW c \in Conns, Close(c)
      PROVE  UNCHANGED <<oneshot, connection>> /\ Before
  <2>1. \A s \in Streams : IsDial(s)' /\ inbound'[s] \in {"responding", "ok"} =>
          IsDial(s) /\ inbound[s] \in {"responding", "ok"}
    BY <1>2, <1>a DEF Close, IsDial, Opened, VarsTyped
  <2> QED BY <2>1, <1>2 DEF Close, SuccessHasStream
<1>3. ASSUME NEW s \in Streams, NEW r \in Request, Open(s, r)
      PROVE  UNCHANGED <<oneshot, connection>> /\ Before
  <2>1. \A x \in Streams : IsDial(x)' /\ inbound'[x] \in {"responding", "ok"} =>
          IsDial(x) /\ inbound[x] \in {"responding", "ok"}
    BY <1>3, <1>a DEF Open, IsDial, Opened, VarsTyped
  <2> QED BY <2>1, <1>3 DEF Open, SuccessHasStream
<1>4. ASSUME NEW s \in Streams, ReceiveDialRequest(s) \/ ReceiveListenRequest(s)
      PROVE  UNCHANGED <<oneshot, connection>> /\ Before
  <2>1. /\ request' = request /\ UNCHANGED <<oneshot, connection>>
        /\ \A x \in Streams : x # s => inbound'[x] = inbound[x]
        /\ \/ inbound'[s] = "waiting"
           \/ request[s].proto = "listen"
    BY <1>4, <1>a DEF ReceiveDialRequest, ReceiveListenRequest, VarsTyped
  <2> QED BY <2>1 DEF SuccessHasStream, IsDial, Opened
<1>5. ASSUME NEW s \in Streams, ResumeDial(s) \/ Respond(s) \/ UpgradeFails(s)
      PROVE  UNCHANGED <<oneshot, connection>> /\ Before
  <2>1. /\ request' = request /\ UNCHANGED <<oneshot, connection>>
        /\ \A x \in Streams : x # s => inbound'[x] = inbound[x]
        /\ Opened(s)
        /\ \/ inbound'[s] = "err"
           \/ oneshot[s] = "connected"
           \/ inbound[s] = "responding"
    BY <1>5, <1>a DEF ResumeDial, Respond, UpgradeFails, Running, Opened, VarsTyped
  <2> QED BY <2>1 DEF SuccessHasStream, IsDial, Opened
<1>6. ASSUME NEW c \in Conns, NEW s \in Streams,
             \/ ConnectEnds(c, s) \/ HandlerPollConnect(c, s) \/ OnDialSuccess(c, s)
             \/ OnListenSuccess(c, s) \/ OnListenOrDialFailed(c, s)
      PROVE  UNCHANGED <<oneshot, connection>> /\ Before
  BY <1>6, <1>c DEF ConnectEnds, HandlerPollConnect, OnDialSuccess, OnListenSuccess,
     OnListenOrDialFailed, upgradeVars
<1>7. PollEmit \/ PollPending => UNCHANGED <<oneshot, connection>> /\ Before
  BY <1>c DEF PollEmit, PollPending, upgradeVars
<1>8. UNCHANGED vars => UNCHANGED <<oneshot, connection>> /\ Before
  BY <1>c DEF vars, upgradeVars
<1>9. ASSUME NEW s \in Streams, PollRefuse(s) PROVE SuccessHasStream'
  <2>1. InChannel(s)
    BY <1>9, <1>a, ChannelRemoves DEF PollRefuse, VarsTyped
  <2>2. "refused" \in Answers \ {"connected"}
    BY DEF Answers
  <2> QED BY <2>1, <2>2, <1>9, OtherAnswer DEF PollRefuse
\* What a peer id holds is the dial that the end of an attempt answers.
<1>10. ASSUME NEW p \in Peers, connecting_requests[p] # None
       PROVE  /\ connecting_requests[p] \in Streams
              /\ Held(connecting_requests[p])
  BY <1>10, <1>a DEF Held, VarsTyped
<1>11. ASSUME NEW s \in Streams, PollForward(s) PROVE SuccessHasStream'
  <2>1. IsDial(s)
    BY <1>11, <1>a, ChannelRemoves DEF PollForward, VarsTyped, DialsOnly
  <2>2. request[s].peer \in Peers
    BY <2>1, <1>a DEF DialsOnly, IsDial, Request
  <2>3. "canceled" \in Answers \ {"connected"}
    BY DEF Answers
  <2>4. CASE connecting_requests[request[s].peer] = None
    BY <2>4, <1>11, <1>b, <1>c DEF PollForward
  <2>5. CASE connecting_requests[request[s].peer] # None
    BY <2>2, <2>3, <2>5, <1>10, <1>11, OtherAnswer DEF PollForward
  <2> QED BY <2>4, <2>5
<1>12. ASSUME NEW c \in Conns, NEW s \in Streams,
              OnConnectFailed(c, s) \/ OnConnectSuccess(c, s)
       PROVE  SuccessHasStream'
  <2>1. PICK t \in {"connect_failed", "connect_success"} : Pop(c, t, s)
    BY <1>12 DEF OnConnectFailed, OnConnectSuccess
  <2>2. t \in Types
    BY DEF Types
  <2>3. Queued(c, t, s)
    BY <2>1, <2>2, <1>a, PopRemoves DEF VarsTyped
  <2>4. request[s].peer \in Peers
    BY <2>2, <2>3, <1>a DEF DialsOnly, IsDial, Request
  <2>5. "failed" \in Answers \ {"connected"}
    BY DEF Answers
  <2> DEFINE d == connecting_requests[request[s].peer]
  <2>6. d # None => d \in Streams /\ Held(d)
    BY <2>4, <1>10
  <2>7. UNCHANGED <<request, inbound>>
    BY <1>12 DEF OnConnectFailed, OnConnectSuccess
  <2>8. CASE d = None
    <3>1. UNCHANGED <<oneshot, connection>>
      BY <2>8, <1>12 DEF OnConnectFailed, OnConnectSuccess
    <3> QED BY <3>1, <2>7, <1>b, <1>c
  <2>9. CASE d # None /\ OnConnectFailed(c, s)
    <3>1. oneshot' = Send(d, "failed") /\ connection' = connection
      BY <2>9 DEF OnConnectFailed
    <3> HIDE DEF d
    <3> QED BY <3>1, <2>5, <2>6, <2>7, <2>9, OtherAnswer
  <2>10. CASE d # None /\ OnConnectSuccess(c, s)
    <3>1. /\ oneshot' = Send(d, "connected")
          /\ connection' = IF inbound[d] = "waiting"
                             THEN [connection EXCEPT ![d] = <<c, s>>] ELSE connection
      BY <2>10 DEF OnConnectSuccess
    <3>2. <<c, s>> # None
      OBVIOUS
    <3> HIDE DEF d
    <3>3. CASE inbound[d] # "waiting"
      BY <3>1, <3>3, <2>7, <1>b, <1>c DEF Send
    <3>4. CASE inbound[d] = "waiting"
      BY <3>1, <3>2, <3>4, <2>6, <2>7, <2>10, <1>a
         DEF Send, VarsTyped, SuccessHasStream, IsDial, Opened
    <3> QED BY <3>3, <3>4
  <2> QED BY <1>12, <2>8, <2>9, <2>10
<1> HIDE DEF Before
<1> QED
  BY <1>b, <1>1, <1>2, <1>3, <1>4, <1>5, <1>6, <1>7, <1>8, <1>9, <1>11, <1>12
     DEF Next, Poll, HandlerPoll

LEMMA SuccessInit == Init => SuccessHasStream
BY DEF Init, SuccessHasStream, IsDial, Opened

\* No dialer is told of success before the relay has a stream to its peer for
\* it (relay/upgrade/inbound.rs:167).
THEOREM SuccessesHaveStreams == Spec => []SuccessHasStream
<1>1. Init => SenderInv /\ SuccessHasStream
  BY TypeInit, RoutingInit, SenderInit, SuccessInit DEF SenderInv
<1>2. SenderInv /\ SuccessHasStream /\ [Next]_vars => SenderInv' /\ SuccessHasStream'
  BY TypeStep, RoutingStep, SenderStepOnce, SuccessStep DEF SenderInv
<1> QED BY <1>1, <1>2, PTL DEF Spec
=============================================================================
