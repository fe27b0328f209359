------------------------ MODULE CombineTransportProofs -----------------------
(***************************************************************************)
(* Theorems about CombineTransport, for any number of requests, listeners  *)
(* and addresses and for every capacity of the channels.                   *)
(***************************************************************************)
EXTENDS CombineTransport, SequenceTheorems, TLAPS

-----------------------------------------------------------------------------
(* Requests stay in order. *)

\* Concatenation is associative.
LEMMA Regroup ==
  ASSUME NEW S, NEW a \in Seq(S), NEW b \in Seq(S), NEW c \in Seq(S)
  PROVE  (a \o b) \o c = a \o (b \o c)
<1>1. /\ a \o b \in Seq(S) /\ b \o c \in Seq(S)
      /\ Len(a \o b) = Len(a) + Len(b) /\ Len(b \o c) = Len(b) + Len(c)
  OBVIOUS
<1>2. /\ (a \o b) \o c \in Seq(S) /\ a \o (b \o c) \in Seq(S)
      /\ Len((a \o b) \o c) = Len(a) + Len(b) + Len(c)
      /\ Len(a \o (b \o c)) = Len(a) + Len(b) + Len(c)
  BY <1>1
<1>3. ASSUME NEW i \in 1..Len(a) + Len(b) + Len(c)
      PROVE  ((a \o b) \o c)[i] = (a \o (b \o c))[i]
  <2>1. CASE i <= Len(a)
    BY <1>1, <2>1
  <2>2. CASE i > Len(a) /\ i <= Len(a) + Len(b)
    BY <1>1, <2>2
  <2>3. CASE i > Len(a) + Len(b)
    BY <1>1, <2>3
  <2> QED BY <2>1, <2>2, <2>3
<1> QED BY <1>2, <1>3, SeqEqual

\* A prefix moved from one queue to the end of another leaves their
\* concatenation as it was.
LEMMA MovedPrefix ==
  ASSUME NEW S, NEW a \in Seq(S), NEW b \in Seq(S), NEW n \in 0..Len(b)
  PROVE  /\ SubSeq(b, 1, n) \in Seq(S)
         /\ SubSeq(b, n + 1, Len(b)) \in Seq(S)
         /\ (a \o SubSeq(b, 1, n)) \o SubSeq(b, n + 1, Len(b)) = a \o b
<1>1. /\ SubSeq(b, 1, n) \in Seq(S)
      /\ SubSeq(b, n + 1, Len(b)) \in Seq(S)
  OBVIOUS
<1>2. SubSeq(b, 1, n) \o SubSeq(b, n + 1, Len(b)) = b
  <2>1. /\ 1 \in 1..Len(b) + 1 /\ n \in 1 - 1..Len(b) /\ Len(b) \in n..Len(b)
    OBVIOUS
  <2>2. SubSeq(b, 1, n) \o SubSeq(b, n + 1, Len(b)) = SubSeq(b, 1, Len(b))
    BY <2>1, ConcatAdjacentSubSeq, Zenon
  <2> QED BY <2>2, SubSeqFull, Zenon
<1>3. (a \o SubSeq(b, 1, n)) \o SubSeq(b, n + 1, Len(b))
        = a \o (SubSeq(b, 1, n) \o SubSeq(b, n + 1, Len(b)))
  <2> DEFINE x == SubSeq(b, 1, n)
             y == SubSeq(b, n + 1, Len(b))
  <2>1. x \in Seq(S) /\ y \in Seq(S)
    BY <1>1
  <2> HIDE DEF x, y
  <2>2. (a \o x) \o y = a \o (x \o y)
    BY <2>1, Regroup
  <2> QED BY <2>2 DEF x, y
<1> QED BY <1>1, <1>2, <1>3

\* A sequence is its head followed by its tail.
LEMMA HeadFirst ==
  ASSUME NEW S, NEW s \in Seq(S), s # <<>>
  PROVE  /\ Head(s) \in S /\ <<Head(s)>> \in Seq(S)
         /\ Tail(s) \in Seq(S) /\ Len(Tail(s)) = Len(s) - 1
         /\ <<Head(s)>> \o Tail(s) = s
<1>1. /\ Head(s) \in S /\ <<Head(s)>> \in Seq(S)
      /\ Tail(s) \in Seq(S) /\ Len(Tail(s)) = Len(s) - 1
  OBVIOUS
<1>2. Len(<<Head(s)>> \o Tail(s)) = Len(s)
  BY <1>1
<1>3. ASSUME NEW i \in 1..Len(s) PROVE (<<Head(s)>> \o Tail(s))[i] = s[i]
  BY <1>1
<1> QED BY <1>1, <1>2, <1>3, SeqEqual

\* The inductive invariant: the queues hold requests, the channel no more than
\* fits, and together what was made.
InOrder ==
  /\ pending_to_behaviour \in Seq(Requests) /\ to_behaviour \in Seq(Requests)
  /\ made \in Seq(Requests) /\ taken \in Seq(Requests)
  /\ Len(to_behaviour) <= ToBehaviourCap
  /\ RequestsInOrder

LEMMA InOrderInit == Init => InOrder
BY CapsPositive DEF Init, TransportInit, InOrder, RequestsInOrder

\* However much of the channel is free, the requests keep their order.
LEMMA InOrderMove ==
  ASSUME InOrder, MoveRequests, UNCHANGED <<made, taken>>
  PROVE  InOrder'
<1> DEFINE n == Fitting
           head == SubSeq(pending_to_behaviour, 1, n)
<1>1. /\ pending_to_behaviour \in Seq(Requests) /\ to_behaviour \in Seq(Requests)
      /\ made \in Seq(Requests) /\ taken \in Seq(Requests)
      /\ n \in 0..Len(pending_to_behaviour) /\ n <= ToBehaviourCap - Len(to_behaviour)
  BY CapsPositive DEF InOrder, Fitting
<1>2. /\ to_behaviour' = to_behaviour \o head
      /\ pending_to_behaviour' = SubSeq(pending_to_behaviour, n + 1, Len(pending_to_behaviour))
  BY DEF MoveRequests, Move
<1> HIDE DEF n
<1>3. /\ head \in Seq(Requests) /\ Len(head) = n
      /\ to_behaviour' \in Seq(Requests) /\ pending_to_behaviour' \in Seq(Requests)
      /\ Len(to_behaviour') <= ToBehaviourCap
  BY <1>1, <1>2, CapsPositive
<1>4. to_behaviour' \o pending_to_behaviour' = to_behaviour \o pending_to_behaviour
  BY <1>1, <1>2, MovedPrefix
<1>5. \A x, y, z \in Seq(Requests) : (x \o y) \o z = x \o (y \o z)
  BY Regroup
<1>6. (taken \o to_behaviour) \o pending_to_behaviour
        = taken \o (to_behaviour \o pending_to_behaviour)
  BY <1>1, <1>5, Zenon
<1>7. (taken \o to_behaviour') \o pending_to_behaviour'
        = taken \o (to_behaviour' \o pending_to_behaviour')
  BY <1>1, <1>3, <1>5, Zenon
<1> QED BY <1>1, <1>3, <1>4, <1>6, <1>7 DEF InOrder, RequestsInOrder

\* A request that is made comes after those that wait.
LEMMA InOrderPush ==
  ASSUME InOrder, NEW r \in Requests, Push(r) PROVE InOrder'
<1> DEFINE before == taken \o to_behaviour
           one == <<r>>
<1>1. pending_to_behaviour \in Seq(Requests)
  BY DEF InOrder
<1>2. before \in Seq(Requests) /\ one \in Seq(Requests)
  BY DEF InOrder
<1>3. made \in Seq(Requests) /\ before \o pending_to_behaviour = made
  BY DEF InOrder, RequestsInOrder
<1>4. /\ pending_to_behaviour' = Append(pending_to_behaviour, r)
      /\ made' = Append(made, r)
      /\ UNCHANGED <<to_behaviour, taken>>
  BY DEF Push
<1>5. pending_to_behaviour' \in Seq(Requests) /\ made' \in Seq(Requests)
  BY <1>1, <1>3, <1>4
<1>6. pending_to_behaviour' = pending_to_behaviour \o one /\ made' = made \o one
  BY <1>1, <1>3, <1>4, AppendIsConcat
<1> HIDE DEF before, one
<1>7. (before \o pending_to_behaviour) \o one = before \o (pending_to_behaviour \o one)
  BY <1>1, <1>2, Regroup
<1>8. before \o pending_to_behaviour' = made'
  BY <1>3, <1>6, <1>7, Zenon
<1>9. (taken' \o to_behaviour') \o pending_to_behaviour' = made'
  BY <1>4, <1>8, Zenon DEF before
<1> QED BY <1>4, <1>5, <1>9 DEF InOrder, RequestsInOrder

\* The behaviour takes the oldest request there is.
LEMMA InOrderTake == ASSUME InOrder, Take PROVE InOrder'
<1> DEFINE h == <<Head(to_behaviour)>>
<1>1. /\ to_behaviour \in Seq(Requests) /\ to_behaviour # <<>>
      /\ pending_to_behaviour \in Seq(Requests)
      /\ made \in Seq(Requests) /\ taken \in Seq(Requests)
      /\ Len(to_behaviour) <= ToBehaviourCap
  BY DEF InOrder, Take
<1>2. /\ Head(to_behaviour) \in Requests /\ h \in Seq(Requests)
      /\ Tail(to_behaviour) \in Seq(Requests)
      /\ Len(Tail(to_behaviour)) <= ToBehaviourCap
      /\ h \o Tail(to_behaviour) = to_behaviour
  BY <1>1, HeadFirst, CapsPositive
<1>3. taken' = taken \o h /\ taken' \in Seq(Requests)
  BY <1>1, <1>2, AppendIsConcat DEF Take
<1>4. taken' \o Tail(to_behaviour) = taken \o to_behaviour
  <2> DEFINE t == Tail(to_behaviour)
  <2>1. h \in Seq(Requests) /\ t \in Seq(Requests) /\ h \o t = to_behaviour
    BY <1>2
  <2> HIDE DEF h, t
  <2>2. \A x, y, z \in Seq(Requests) : (x \o y) \o z = x \o (y \o z)
    BY Regroup
  <2>3. taken \in Seq(Requests) /\ taken' = taken \o h
    BY <1>1, <1>3
  <2>4. (taken \o h) \o t = taken \o (h \o t)
    BY <2>1, <2>2, <2>3, Zenon
  <2>5. taken' \o t = taken \o to_behaviour
    BY <2>1, <2>3, <2>4, Zenon
  <2> QED BY <2>5, Zenon DEF t
<1> QED BY <1>1, <1>2, <1>3, <1>4 DEF InOrder, RequestsInOrder, Take

LEMMA InOrderSame == ASSUME InOrder, UNCHANGED requestVars PROVE InOrder'
BY DEF InOrder, requestVars, RequestsInOrder

\* One step of each action keeps the order: Dial and ListenOn make a request,
\* a poll moves some, Take takes one, and the rest leave the queues alone.
LEMMA InOrderNext == ASSUME InOrder, [Next]_vars PROVE InOrder'
<1>1. ASSUME NEW i \in Ids, NEW a \in Addrs, CombinedListenOn(i, a) PROVE InOrder'
  <2>1. PICK l \in Listens : ListenOn(a, l)
    BY <1>1 DEF CombinedListenOn
  <2> QED BY <2>1, InOrderPush, InOrderSame DEF ListenOn, Requests
<1>2. ASSUME NEW i \in Ids, CombinedRemove(i) PROVE InOrder'
  BY <1>2, InOrderSame DEF CombinedRemove
<1>3. ASSUME NEW i \in Ids, FirstCloses(i) PROVE InOrder'
  BY <1>3, InOrderSame DEF FirstCloses, transportVars
<1>4. CASE FirstReady
  BY <1>4, InOrderSame DEF FirstReady, transportVars
<1>5. CASE PollFirst
  BY <1>5, InOrderSame DEF PollFirst, transportVars
<1>6. CASE PollNews
  BY <1>6, InOrderSame DEF PollNews
<1>7. CASE PollRest
  BY <1>7, InOrderMove DEF PollRest
<1>8. ASSUME NEW d \in Dials, Dial(d) PROVE InOrder'
  BY <1>8, InOrderPush DEF Dial, Requests
<1>9. CASE Take
  BY <1>9, InOrderTake
<1>10. CASE TellOther
  BY <1>10, InOrderSame DEF TellOther
<1>11. CASE Forward
  BY <1>11, InOrderSame DEF Forward
<1>12. CASE Flush
  BY <1>12, InOrderSame DEF Flush
<1>13. ASSUME NEW l \in Listens, Answer(l) PROVE InOrder'
  BY <1>13, InOrderSame DEF Answer
<1>14. CASE UNCHANGED vars
  BY <1>14, InOrderSame DEF vars, transportVars
<1> QED
  BY <1>1, <1>2, <1>3, <1>4, <1>5, <1>6, <1>7, <1>8, <1>9, <1>10, <1>11, <1>12, <1>13, <1>14
  DEF Next, Poll, PollSecond

\* Whatever is polled when, and however small the channel, requests reach the
\* behaviour in the order the swarm made them, and none is lost: what
\* endpoint/transport.rs:211 puts back when the channel is full stays in front.
THEOREM RequestsStayInOrder == Spec => []RequestsInOrder
<1>1. InOrder => RequestsInOrder
  BY DEF InOrder
<1> QED BY InOrderInit, InOrderNext, <1>1, PTL DEF Spec

-----------------------------------------------------------------------------
(* Listeners can be removed. *)

\* The inductive invariant, with what the table and t1's listeners are.
Removable ==
  /\ open1 \subseteq Ids
  /\ listener_ids \in [Ids -> Listens \cup {None}]
  /\ FirstRemovable

LEMMA RemovableInit == Init => Removable
BY DEF Init, Removable, FirstRemovable

LEMMA RemovableSame ==
  ASSUME Removable, open1' \subseteq open1, UNCHANGED listener_ids PROVE Removable'
BY DEF Removable, FirstRemovable

\* An id is in the table as soon as its listener is open, and leaves it only
\* with that listener.
LEMMA RemovableNext == ASSUME Removable, [Next]_vars PROVE Removable'
<1>1. ASSUME NEW i \in Ids, NEW a \in Addrs, CombinedListenOn(i, a) PROVE Removable'
  <2>1. PICK l \in Listens : listener_ids' = [listener_ids EXCEPT ![i] = l]
    BY <1>1 DEF CombinedListenOn
  <2>2. open1' = open1 \cup {i} /\ l # None
    BY <1>1, RequestsDisjoint DEF CombinedListenOn
  <2> QED BY <2>1, <2>2 DEF Removable, FirstRemovable
<1>2. ASSUME NEW i \in Ids, CombinedRemove(i) PROVE Removable'
  <2>1. listener_ids' = [listener_ids EXCEPT ![i] = None]
    BY <1>2 DEF CombinedRemove
  <2>2. open1' = open1 \ {i}
    BY <1>2 DEF CombinedRemove, RemoveOne
  <2> QED BY <2>1, <2>2 DEF Removable, FirstRemovable
<1>3. ASSUME NEW i \in Ids, FirstCloses(i) PROVE Removable'
  BY <1>3, RemovableSame DEF FirstCloses
<1>4. CASE FirstReady
  BY <1>4, RemovableSame DEF FirstReady
<1>5. CASE PollFirst
  BY <1>5, RemovableSame DEF PollFirst
<1>6. CASE PollSecond
  BY <1>6, RemovableSame DEF PollSecond, firstVars
<1>7. CASE UNCHANGED <<firstVars, listener_ids>>
  BY <1>7, RemovableSame DEF firstVars
<1>8. CASE UNCHANGED vars
  BY <1>8, RemovableSame DEF vars, firstVars
<1> QED
  BY <1>1, <1>2, <1>3, <1>4, <1>5, <1>6, <1>7, <1>8 DEF Next, Poll

\* Whatever is listened on, removed and closed in whatever order, an open
\* listener of the normal transport is found by remove_listener (combine.rs:146).
THEOREM OpenListenersRemovable == Spec => []FirstRemovable
<1>1. Removable => FirstRemovable
  BY DEF Removable
<1> QED BY RemovableInit, RemovableNext, <1>1, PTL DEF Spec

-----------------------------------------------------------------------------
(* Types, and when a listener that is shared goes. *)

\* What may be told: that a listener failed only when it did.
Truths == {e \in Told : e.type = "ListenFailed" => outcome[e.req] = "failed"}

ListensTyped ==
  /\ listener \in Listens \cup {None} /\ receiver \in 0..ListenerCap
  /\ local_addr \in [Listens -> Addrs \cup {None}]

IdsTyped ==
  /\ addr1 \in [Ids -> Addrs \cup {None}]
  /\ open1 \subseteq Ids /\ ready1 \in BOOLEAN
  /\ listener_ids \in [Ids -> Listens \cup {None}]

\* Only truths are in the channel to the transport, and before it.
TellsTyped ==
  /\ from_behaviour \in Seq(Truths) /\ pending_to_transport \in Seq(Truths)
  /\ outcome \in [Listens -> {"none", "ok", "failed"}]

\* The inductive invariant: the types, with those of the requests, which
\* InOrder has.
ToldTruly == InOrder /\ ListensTyped /\ IdsTyped /\ TellsTyped

LEMMA ToldTrulyInit == Init => ToldTruly
<1> SUFFICES ASSUME Init PROVE ToldTruly
  OBVIOUS
<1>1. ListensTyped
  <2>1. ListenerCap \in Nat
    BY CapsPositive
  <2> QED BY <2>1 DEF Init, TransportInit, ListensTyped
<1>2. IdsTyped
  BY DEF Init, IdsTyped
<1>3. TellsTyped
  BY DEF Init, TransportInit, TellsTyped
<1> QED BY <1>1, <1>2, <1>3, InOrderInit DEF ToldTruly

LEMMA QueuesOfTruths ==
  ASSUME NEW q \in Seq(Truths)
  PROVE  /\ q \in Seq(Told)
         /\ q # <<>> => Head(q) \in Truths /\ Tail(q) \in Seq(Truths)
         /\ \A k \in DOMAIN q : q[k] \in Truths /\ SubSeq(q, k + 1, Len(q)) \in Seq(Truths)
<1>1. q \in Seq(Told)
  BY SeqMonotonic DEF Truths
<1>2. \A k \in 1..Len(q) : q[k] \in Truths
  BY ElementOfSeq
<1>3. ASSUME NEW k \in 1..Len(q) PROVE SubSeq(q, k + 1, Len(q)) \in Seq(Truths)
  BY <1>2
<1>4. DOMAIN q = 1..Len(q)
  BY LenProperties
<1> QED BY <1>1, <1>2, <1>3, <1>4

\* The queues stay truthful while what was true stays true and what is told is.
LEMMA TellTyped ==
  ASSUME TellsTyped, NEW e \in Told, Tell(e), UNCHANGED from_behaviour,
         outcome' \in [Listens -> {"none", "ok", "failed"}],
         Truths \subseteq Truths', e \in Truths'
  PROVE  TellsTyped'
<1>1. from_behaviour \in Seq(Truths') /\ pending_to_transport \in Seq(Truths')
  BY SeqMonotonic DEF TellsTyped
<1>2. pending_to_transport' = Append(pending_to_transport, e)
  BY DEF Tell
<1>3. pending_to_transport' \in Seq(Truths')
  BY <1>1, <1>2, AppendProperties
<1> QED BY <1>1, <1>3 DEF TellsTyped

LEMMA TellsSame == ASSUME TellsTyped, UNCHANGED tellVars PROVE TellsTyped'
BY DEF TellsTyped, tellVars, Truths

LEMMA TellsNext == ASSUME ToldTruly, [Next]_vars PROVE TellsTyped'
<1>a. TellsTyped
  BY DEF ToldTruly
<1>b. outcome' = outcome => Truths' = Truths
  BY DEF Truths
<1>1. CASE UNCHANGED tellVars
  BY <1>1, <1>a, TellsSame
<1>2. ASSUME NEW i \in Ids, NEW a \in Addrs, CombinedListenOn(i, a) PROVE UNCHANGED tellVars
  BY <1>2 DEF CombinedListenOn, ListenOn
<1>3. ASSUME NEW i \in Ids, CombinedRemove(i) \/ FirstCloses(i) PROVE UNCHANGED tellVars
  BY <1>3 DEF CombinedRemove, FirstCloses, transportVars
<1>4. CASE FirstReady \/ PollFirst \/ Take \/ UNCHANGED vars
  BY <1>4, <1>1 DEF FirstReady, PollFirst, Take, vars, transportVars
<1>5. CASE PollNews
  <2>1. PICK k \in DOMAIN from_behaviour :
          /\ from_behaviour' = SubSeq(from_behaviour, k + 1, Len(from_behaviour))
          /\ UNCHANGED <<outcome, pending_to_transport>>
    BY <1>5 DEF PollNews
  <2>2. SubSeq(from_behaviour, k + 1, Len(from_behaviour)) \in Seq(Truths)
    BY <1>a, QueuesOfTruths DEF TellsTyped
  <2> QED BY <1>a, <1>b, <2>1, <2>2 DEF TellsTyped
<1>6. CASE PollRest
  <2>1. <<>> \in Seq(Truths)
    OBVIOUS
  <2> QED BY <1>a, <1>b, <1>6, <2>1 DEF PollRest, TellsTyped
<1>7. ASSUME NEW d \in Dials, Dial(d) PROVE UNCHANGED tellVars
  BY <1>7 DEF Dial
<1>8. CASE TellOther
  <2>1. PICK e \in Told : Tell(e) /\ e.type \in {"DialFailed", "PeerClosed"}
    <3> DEFINE failed(d) == [type |-> "DialFailed", req |-> d]
               closed    == [type |-> "PeerClosed"]
    <3>1. \A d \in Dials : failed(d) \in Told /\ failed(d).type = "DialFailed"
      BY DEF Told
    <3>2. closed \in Told /\ closed.type = "PeerClosed"
      BY DEF Told
    <3>3. (\E d \in Dials : Tell(failed(d))) \/ Tell(closed)
      BY <1>8 DEF TellOther
    <3> HIDE DEF failed, closed
    <3> QED BY <3>1, <3>2, <3>3
  <2>2. e \in Truths /\ UNCHANGED <<from_behaviour, outcome>>
    BY <1>8, <2>1 DEF TellOther, Truths
  <2> QED BY <1>a, <1>b, <2>1, <2>2, TellTyped DEF TellsTyped
<1>9. CASE Forward
  <2>1. listener \in Listens
    <3>1. listener \in Requests
      BY <1>9, RangeOfSeq DEF Forward, ToldTruly, InOrder
    <3> QED BY <3>1, RequestsDisjoint DEF ToldTruly, ListensTyped, Requests
  <2>2. PICK e \in Told : e = [type |-> "ListenSuccess", req |-> listener]
    BY <2>1 DEF Told
  <2>3. e \in Truths /\ Tell(e) /\ UNCHANGED <<from_behaviour, outcome>>
    BY <1>9, <2>2 DEF Forward, Truths
  <2> QED BY <1>a, <1>b, <2>3, TellTyped DEF TellsTyped
<1>10. CASE Flush
  <2>1. Head(pending_to_transport) \in Truths /\ Tail(pending_to_transport) \in Seq(Truths)
    BY <1>a, <1>10, QueuesOfTruths DEF Flush, TellsTyped
  <2>2. Append(from_behaviour, Head(pending_to_transport)) \in Seq(Truths)
    BY <1>a, <2>1, AppendProperties DEF TellsTyped
  <2> QED BY <1>a, <1>b, <1>10, <2>1, <2>2 DEF Flush, TellsTyped
<1>11. ASSUME NEW l \in Listens, Answer(l) PROVE TellsTyped'
  <2>1. PICK o \in {"ok", "failed"} :
          /\ outcome[l] = "none" /\ outcome' = [outcome EXCEPT ![l] = o]
          /\ Tell([type |-> IF o = "ok" THEN "ListenSuccess" ELSE "ListenFailed", req |-> l])
          /\ from_behaviour' = from_behaviour
    BY <1>11 DEF Answer
  <2>2. PICK e \in Told :
          e = [type |-> IF o = "ok" THEN "ListenSuccess" ELSE "ListenFailed", req |-> l]
    BY <2>1 DEF Told
  <2>3. outcome' \in [Listens -> {"none", "ok", "failed"}]
    BY <1>a, <2>1 DEF TellsTyped
  <2>4. e \in Truths'
    BY <1>a, <2>1, <2>2 DEF Truths, TellsTyped
  <2>5. ASSUME NEW x \in Truths PROVE x \in Truths'
    <3>1. CASE x.type = "ListenFailed"
      <4>1. outcome[x.req] = "failed" /\ x.req \in Listens
        BY <3>1 DEF Truths, Told
      <4>2. outcome'[x.req] = "failed"
        BY <1>a, <2>1, <4>1 DEF TellsTyped
      <4> QED BY <4>2 DEF Truths
    <3>2. CASE x.type # "ListenFailed"
      BY <3>2 DEF Truths
    <3> QED BY <3>1, <3>2
  <2>6. Tell(e)
    BY <2>1, <2>2
  <2> QED BY <1>a, <2>1, <2>3, <2>4, <2>5, <2>6, TellTyped
<1> QED
  BY <1>1, <1>2, <1>3, <1>4, <1>5, <1>6, <1>7, <1>8, <1>9, <1>10, <1>11
     DEF Next, Poll, PollSecond

\* Only what listen_on, the behaviour and the polls count and set.
LEMMA ListensNext == ASSUME ToldTruly, [Next]_vars PROVE ListensTyped'
<1>a. ListensTyped
  BY DEF ToldTruly
<1>b. ListenerCap \in Nat /\ ListenerCap > 0
  BY CapsPositive
<1>c. ASSUME NEW l, RemoveListener(l) PROVE ListensTyped'
  BY <1>a, <1>b, <1>c DEF ListensTyped, RemoveListener
<1>1. CASE UNCHANGED listenVars
  BY <1>a, <1>1 DEF ListensTyped, listenVars
<1>2. ASSUME NEW i \in Ids, NEW a \in Addrs, CombinedListenOn(i, a) PROVE ListensTyped'
  <2>1. PICK l \in Listens : ListenOn(a, l)
    BY <1>2 DEF CombinedListenOn
  <2> QED BY <1>a, <1>b, <1>1, <2>1 DEF ListenOn, ListensTyped
<1>3. ASSUME NEW i \in Ids, CombinedRemove(i) PROVE ListensTyped'
  BY <1>3, <1>1, <1>c DEF CombinedRemove, RemoveOne
<1>4. CASE PollNews
  BY <1>4, <1>1, <1>c DEF PollNews, DropIfFailed
<1>5. CASE PollRest
  BY <1>5, <1>a, <1>b DEF PollRest, ReceiveConnection, ListensTyped
<1>6. CASE Forward
  BY <1>6, <1>a, <1>b DEF Forward, ListensTyped
<1>7. ASSUME NEW i \in Ids, FirstCloses(i) PROVE UNCHANGED listenVars
  BY <1>7 DEF FirstCloses, transportVars
<1>8. ASSUME NEW d \in Dials, Dial(d) PROVE UNCHANGED listenVars
  BY <1>8 DEF Dial
<1>9. ASSUME NEW l \in Listens, Answer(l) PROVE UNCHANGED listenVars
  BY <1>9 DEF Answer
<1>10. CASE FirstReady \/ PollFirst \/ Take \/ TellOther \/ Flush \/ UNCHANGED vars
  BY <1>10, <1>1 DEF FirstReady, PollFirst, Take, TellOther, Flush, vars, transportVars
<1> QED
  BY <1>1, <1>2, <1>3, <1>4, <1>5, <1>6, <1>7, <1>8, <1>9, <1>10
     DEF Next, Poll, PollSecond

LEMMA IdsNext == ASSUME ToldTruly, [Next]_vars PROVE IdsTyped'
<1>a. IdsTyped
  BY DEF ToldTruly
<1>1. CASE UNCHANGED <<firstVars, listener_ids>>
  BY <1>a, <1>1 DEF IdsTyped, firstVars
<1>2. ASSUME NEW i \in Ids, NEW a \in Addrs, CombinedListenOn(i, a) PROVE IdsTyped'
  BY <1>a, <1>2 DEF CombinedListenOn, IdsTyped
<1>3. ASSUME NEW i \in Ids, CombinedRemove(i) PROVE IdsTyped'
  BY <1>a, <1>3 DEF CombinedRemove, RemoveOne, IdsTyped
<1>4. ASSUME NEW i \in Ids, FirstCloses(i) PROVE IdsTyped'
  BY <1>a, <1>4 DEF FirstCloses, IdsTyped
<1>5. CASE FirstReady \/ PollFirst
  BY <1>a, <1>5 DEF FirstReady, PollFirst, IdsTyped
<1>6. CASE PollSecond \/ UNCHANGED vars
  BY <1>1, <1>6 DEF PollSecond, vars
<1> QED BY <1>1, <1>2, <1>3, <1>4, <1>5, <1>6 DEF Next, Poll

LEMMA ToldTrulyNext == ASSUME ToldTruly, [Next]_vars PROVE ToldTruly'
<1>1. InOrder'
  BY InOrderNext DEF ToldTruly
<1> QED BY <1>1, ListensNext, IdsNext, TellsNext DEF ToldTruly

\* Every variable of the two transports and of the channels keeps its type: no
\* more connections wait for a listener than its channel has room for
\* (endpoint/transport.rs:79), and what is told is of a request there is.
THEOREM TypeCorrect == Spec => []TypeOK
<1>1. ToldTruly => TypeOK
  BY QueuesOfTruths DEF ToldTruly, InOrder, ListensTyped, IdsTyped, TellsTyped, TypeOK
<1> QED BY ToldTrulyInit, ToldTrulyNext, <1>1, PTL DEF Spec

\* Which steps make the listener another one: a failure that is read, and a
\* removal by an id whose other listener is closed.
LEMMA WhyListenerGoes ==
  ASSUME ToldTruly, [Next]_vars, NEW l \in Listens, listener = l, listener' # l
  PROVE  \/ outcome[l] = "failed"
         \/ \E j \in Ids : listener_ids[j] = l /\ listener_ids'[j] = None /\ j \notin open1
<1>a. l # None
  BY RequestsDisjoint
<1>1. ASSUME NEW i \in Ids, NEW a \in Addrs, CombinedListenOn(i, a) PROVE FALSE
  BY <1>1, <1>a DEF CombinedListenOn, ListenOn, listenVars
<1>2. ASSUME NEW j \in Ids, CombinedRemove(j)
      PROVE  listener_ids[j] = l /\ listener_ids'[j] = None /\ j \notin open1
  <2>1. j \notin open1 /\ RemoveListener(listener_ids[j])
    BY <1>2 DEF CombinedRemove, RemoveOne, listenVars
  <2>2. listener_ids' = [listener_ids EXCEPT ![j] = None]
    BY <1>2 DEF CombinedRemove
  <2> QED BY <2>1, <2>2 DEF RemoveListener, ToldTruly, IdsTyped
<1>3. CASE PollNews
  <2>1. PICK k \in DOMAIN from_behaviour : DropIfFailed(from_behaviour[k])
    BY <1>3 DEF PollNews
  <2>2. from_behaviour[k] \in Truths
    BY QueuesOfTruths DEF ToldTruly, TellsTyped
  <2>3. from_behaviour[k].type = "ListenFailed" /\ from_behaviour[k].req = l
    BY <2>1 DEF DropIfFailed, RemoveListener, listenVars
  <2> QED BY <2>2, <2>3 DEF Truths
<1>4. ASSUME NEW i \in Ids, FirstCloses(i) PROVE FALSE
  BY <1>4 DEF FirstCloses, transportVars, listenVars
<1>5. ASSUME NEW d \in Dials, Dial(d) PROVE FALSE
  BY <1>5 DEF Dial, listenVars
<1>6. ASSUME NEW m \in Listens, Answer(m) PROVE FALSE
  BY <1>6 DEF Answer, listenVars
<1>7. ~ (FirstReady \/ PollFirst \/ PollRest \/ Take \/ TellOther)
  BY DEF FirstReady, PollFirst, PollRest, Take, TellOther, transportVars, listenVars
<1>8. ~ (Forward \/ Flush \/ UNCHANGED vars)
  BY DEF Forward, Flush, vars, transportVars, listenVars
<1> QED
  BY <1>1, <1>2, <1>3, <1>4, <1>5, <1>6, <1>7, <1>8 DEF Next, Poll, PollSecond

\* An id loses the endpoint's listener, which it may share, only when its
\* request failed (endpoint/transport.rs:186) or with an id that shares it and
\* has no other listener left (combine.rs:151).
THEOREM SharedListenersKept == Spec => SharedListenerKept
<1> DEFINE Kept(i) ==
      LET l == listener_ids[i]
      IN l # None /\ listener_ids'[i] = l /\ listener = l /\ listener' # l =>
           \/ outcome[l] = "failed"
           \/ \E j \in Ids : listener_ids[j] = l /\ listener_ids'[j] = None /\ j \notin open1
<1>1. ASSUME ToldTruly, [Next]_vars PROVE \A i \in Ids : Kept(i)
  <2>1. listener # None => listener \in Listens
    BY <1>1 DEF ToldTruly, ListensTyped
  <2> QED BY <1>1, <2>1, WhyListenerGoes
<1>2. ToldTruly /\ [Next]_vars => [\A i \in Ids : Kept(i)]_vars
  BY <1>1
<1> HIDE DEF Kept
<1>3. Spec => [][\A i \in Ids : Kept(i)]_vars
  BY ToldTrulyInit, ToldTrulyNext, <1>2, PTL DEF Spec
<1> QED BY <1>3 DEF SharedListenerKept, Kept

-----------------------------------------------------------------------------
(* The line to the behaviour: CombineTransport implements Line. *)

\* What is on its way to the behaviour, what the transport has not heard, and
\* the listener that is open.
OnItsWay == to_behaviour \o pending_to_behaviour
Unheard  == from_behaviour \o pending_to_transport
Open     == {listener} \ {None}

lineVars == <<made, to_behaviour, pending_to_behaviour, from_behaviour,
              pending_to_transport, listener>>

\* The inductive invariant, on top of ToldTruly: no request is made twice, and a
\* listener's has an address once it is made.
MadeOnce ==
  /\ IsInjective(made)
  /\ \A l \in Listens : l \in Range(made) => local_addr[l] # None

LEMMA MadeOnceInit == Init => MadeOnce
BY DEF Init, TransportInit, MadeOnce, IsInjective, Range

\* A new request at the end of those that were made.
LEMMA OneMore ==
  ASSUME NEW S, NEW s \in Seq(S), NEW x \in S
  PROVE  /\ Range(Append(s, x)) = Range(s) \cup {x}
         /\ IsInjective(s) /\ x \notin Range(s) => IsInjective(Append(s, x))
<1> DEFINE t == Append(s, x)
           n == Len(s) + 1
<1>1. /\ DOMAIN s = 1..Len(s) /\ DOMAIN t = 1..n /\ Len(s) \in Nat
      /\ t[n] = x /\ \A k \in DOMAIN s : t[k] = s[k]
  BY AppendProperties, LenProperties
<1>2. \A k : k \in DOMAIN t <=> k = n \/ k \in DOMAIN s
  BY <1>1
<1> HIDE DEF t, n
<1>3. Range(t) = Range(s) \cup {x}
  BY <1>1, <1>2 DEF Range
<1>4. IsInjective(s) /\ x \notin Range(s) => IsInjective(t)
  BY <1>1, <1>2 DEF Range, IsInjective
<1> QED BY <1>3, <1>4 DEF t

\* What was taken is no longer on its way.
LEMMA TakenOnce ==
  ASSUME NEW S, NEW s \in Seq(S), NEW t \in Seq(S), IsInjective(s \o t)
  PROVE  \A x \in Range(s) : x \in Range(s \o t) /\ x \notin Range(t)
<1> DEFINE u == s \o t
           n == Len(s)
<1>1. /\ DOMAIN s = 1..n /\ DOMAIN t = 1..Len(t) /\ DOMAIN u = 1..n + Len(t)
      /\ n \in Nat /\ Len(t) \in Nat
      /\ \A k \in 1..n : u[k] = s[k]
      /\ \A k \in 1..n + Len(t) : k > n => u[k] = t[k - n]
  BY ConcatProperties, LenProperties
<1> HIDE DEF u, n
<1>2. \A k \in DOMAIN s : k \in DOMAIN u /\ u[k] = s[k]
  BY <1>1
<1>3. ASSUME NEW k \in DOMAIN t
      PROVE  n + k \in DOMAIN u /\ u[n + k] = t[k] /\ n + k \notin DOMAIN s
  <2>1. n + k \in 1..n + Len(t) /\ n + k > n /\ (n + k) - n = k
    BY <1>1
  <2> QED BY <1>1, <2>1
<1>4. \A j \in DOMAIN s, k \in DOMAIN t : s[j] # t[k]
  BY <1>2, <1>3 DEF IsInjective, u
<1> QED BY <1>2, <1>4 DEF Range, u

\* What is left of two queues when the first gives up its first elements.
LEMMA FirstsGone ==
  ASSUME NEW S, NEW s \in Seq(S), NEW t \in Seq(S), NEW k \in 0..Len(s)
  PROVE  SubSeq(s, k + 1, Len(s)) \o t = SubSeq(s \o t, k + 1, Len(s \o t))
<1> DEFINE n == Len(s)
           m == Len(t)
           a == SubSeq(s, k + 1, n)
           u == s \o t
           b == SubSeq(u, k + 1, n + m)
           c == a \o t
<1>1. n \in Nat /\ m \in Nat /\ k \in Nat /\ k <= n
  OBVIOUS
<1>2. /\ u \in Seq(S) /\ Len(u) = n + m
      /\ \A i \in 1..n + m : u[i] = IF i <= n THEN s[i] ELSE t[i - n]
  BY ConcatProperties
<1>3. a \in Seq(S) /\ Len(a) = n - k /\ \A i \in 1..n - k : a[i] = s[i + k]
  BY <1>1
<1> HIDE DEF a, u
<1>4. b \in Seq(S) /\ Len(b) = n + m - k /\ \A i \in 1..n + m - k : b[i] = u[i + k]
  BY <1>1, <1>2
<1>5. /\ c \in Seq(S) /\ Len(c) = n - k + m
      /\ \A i \in 1..n - k + m : c[i] = IF i <= n - k THEN a[i] ELSE t[i - (n - k)]
  <2>1. /\ c \in Seq(S) /\ Len(c) = Len(a) + m
        /\ \A i \in 1..Len(a) + m : c[i] = IF i <= Len(a) THEN a[i] ELSE t[i - Len(a)]
    BY <1>3, ConcatProperties
  <2> QED BY <1>3, <2>1
<1> HIDE DEF b, c, n, m
<1>6. ASSUME NEW i \in 1..n + m - k PROVE c[i] = b[i]
  <2>1. i + k \in 1..n + m /\ (i + k) - n = i - (n - k) /\ i \in 1..n - k + m
    BY <1>1
  <2>2. CASE i <= n - k
    <3>1. i + k <= n /\ i \in 1..n - k
      BY <1>1, <2>2
    <3> QED BY <1>2, <1>3, <1>4, <1>5, <2>1, <2>2, <3>1
  <2>3. CASE ~ (i <= n - k)
    <3>1. ~ (i + k <= n)
      BY <1>1, <2>3
    <3> QED BY <1>2, <1>4, <1>5, <2>1, <2>3, <3>1
  <2> QED BY <2>2, <2>3
<1>7. Len(c) = n + m - k
  BY <1>1, <1>5
<1>8. c = b
  BY <1>4, <1>5, <1>6, <1>7, SeqEqual
<1> QED BY <1>2, <1>8 DEF a, b, c, u, n, m

\* A request that is new is made and put behind those that wait.
LEMMA PushAsks ==
  ASSUME InOrder, IsInjective(made), NEW r \in Requests, r \notin Range(made), Push(r)
  PROVE  /\ IsInjective(made')
         /\ Range(made') = Range(made) \cup {r}
         /\ OnItsWay' = Append(OnItsWay, r)
<1>1. /\ made \in Seq(Requests) /\ to_behaviour \in Seq(Requests)
      /\ pending_to_behaviour \in Seq(Requests)
  BY DEF InOrder
<1>2. /\ made' = Append(made, r) /\ to_behaviour' = to_behaviour
      /\ pending_to_behaviour' = Append(pending_to_behaviour, r)
  BY DEF Push
<1>3. IsInjective(made') /\ Range(made') = Range(made) \cup {r}
  BY <1>1, <1>2, OneMore
<1>4. OnItsWay' = Append(OnItsWay, r)
  <2> DEFINE one == <<r>>
  <2>1. /\ one \in Seq(Requests) /\ OnItsWay \in Seq(Requests)
        /\ Append(pending_to_behaviour, r) = pending_to_behaviour \o one
        /\ Append(OnItsWay, r) = OnItsWay \o one
    <3>1. one \in Seq(Requests) /\ OnItsWay \in Seq(Requests)
      BY <1>1 DEF OnItsWay
    <3> QED BY <1>1, <3>1, AppendIsConcat
  <2> HIDE DEF one
  <2>2. \A x, y, z \in Seq(Requests) : (x \o y) \o z = x \o (y \o z)
    BY Regroup
  <2>3. OnItsWay \o one = to_behaviour \o (pending_to_behaviour \o one)
    BY <1>1, <2>1, <2>2, Zenon DEF OnItsWay
  <2>4. OnItsWay' = to_behaviour \o (pending_to_behaviour \o one)
    BY <1>2, <2>1, Zenon DEF OnItsWay
  <2> QED BY <2>1, <2>3, <2>4, Zenon
<1> QED BY <1>3, <1>4

\* Each listener gets a new id, and each dial is made once.
LEMMA MadeOnceNext == ASSUME ToldTruly, MadeOnce, [Next]_vars PROVE MadeOnce'
<1>1. CASE UNCHANGED <<made, local_addr>>
  BY <1>1 DEF MadeOnce
<1>2. ASSUME NEW i \in Ids, NEW a \in Addrs, CombinedListenOn(i, a) PROVE MadeOnce'
  <2>1. PICK l \in Listens : ListenOn(a, l)
    BY <1>2 DEF CombinedListenOn
  <2>2. CASE UNCHANGED <<requestVars, listenVars>>
    BY <1>1, <2>2 DEF requestVars, listenVars
  <2>3. CASE ~ UNCHANGED <<requestVars, listenVars>>
    <3>1. /\ local_addr[l] = None /\ local_addr' = [local_addr EXCEPT ![l] = a] /\ Push(l)
      BY <2>1, <2>3 DEF ListenOn
    <3>2. IsInjective(made') /\ Range(made') = Range(made) \cup {l}
      BY <3>1, PushAsks DEF MadeOnce, ToldTruly, Requests
    <3>3. \A k \in Listens : local_addr'[k] = IF k = l THEN a ELSE local_addr[k]
      BY <3>1 DEF ToldTruly, ListensTyped
    <3> QED BY <3>2, <3>3, RequestsDisjoint DEF MadeOnce
  <2> QED BY <2>2, <2>3
<1>3. ASSUME NEW i \in Ids, CombinedRemove(i) \/ FirstCloses(i)
      PROVE  UNCHANGED <<made, local_addr>>
  BY <1>3 DEF CombinedRemove, RemoveOne, RemoveListener, FirstCloses, transportVars,
              requestVars, listenVars
<1>4. ASSUME PollNews
      PROVE  UNCHANGED <<made, local_addr>>
  BY <1>4 DEF PollNews, DropIfFailed, RemoveListener, requestVars, listenVars
<1>5. ASSUME NEW d \in Dials, Dial(d) PROVE MadeOnce'
  <2>1. IsInjective(made') /\ Range(made') = Range(made) \cup {d}
    BY <1>5, PushAsks DEF Dial, MadeOnce, ToldTruly, Requests
  <2>2. local_addr' = local_addr /\ d \notin Listens
    BY <1>5, RequestsDisjoint DEF Dial, listenVars
  <2> QED BY <2>1, <2>2 DEF MadeOnce
<1>6. ASSUME \/ FirstReady \/ PollFirst \/ PollRest \/ Take \/ TellOther \/ Forward \/ Flush
             \/ \E l \in Listens : Answer(l)
             \/ UNCHANGED vars
      PROVE  UNCHANGED <<made, local_addr>>
  BY <1>6 DEF FirstReady, PollFirst, PollRest, Take, TellOther, Forward, Flush, Answer,
              vars, transportVars, requestVars, listenVars
<1> QED BY <1>1, <1>2, <1>3, <1>4, <1>5, <1>6 DEF Next, Poll, PollSecond

\* The behaviour tells of what it has taken.
LEMMA TellBehaves ==
  ASSUME ToldTruly, MadeOnce, NEW e \in Told, Tell(e),
         UNCHANGED <<requestVars, from_behaviour, listener>>,
         e.type # "PeerClosed" => e.req \in Range(taken)
  PROVE  Agreed!Behave
<1> USE DEF OnItsWay, Unheard, Open
<1>1. /\ from_behaviour \in Seq(Told) /\ pending_to_transport \in Seq(Told)
      /\ pending_to_transport' = Append(pending_to_transport, e)
  BY QueuesOfTruths DEF ToldTruly, TellsTyped, Tell
<1>2. Unheard \in Seq(Told) /\ Unheard' = Append(Unheard, e)
  <2> DEFINE one == <<e>>
  <2>1. Unheard \in Seq(Told) /\ one \in Seq(Told)
    BY <1>1
  <2>2. /\ Append(pending_to_transport, e) = pending_to_transport \o one
        /\ Append(Unheard, e) = Unheard \o one
    BY <1>1, <2>1, AppendIsConcat
  <2> HIDE DEF one
  <2>3. \A x, y, z \in Seq(Told) : (x \o y) \o z = x \o (y \o z)
    BY Regroup
  <2>4. Unheard \o one = from_behaviour \o (pending_to_transport \o one)
    BY <1>1, <2>1, <2>3, Zenon
  <2>5. Unheard' = from_behaviour \o (pending_to_transport \o one)
    BY <1>1, <2>2, Zenon
  <2> QED BY <2>1, <2>2, <2>4, <2>5, Zenon
<1> HIDE DEF Unheard
<1>3. /\ Len(Unheard') = Len(Unheard) + 1 /\ Len(Unheard) \in Nat
      /\ Unheard'[Len(Unheard) + 1] = e
      /\ Agreed!IsPrefix(Unheard, Unheard')
  BY <1>2 DEF Agreed!IsPrefix
<1>4. e.type # "PeerClosed" => e.req \in Range(made) /\ e.req \notin Range(OnItsWay)
  <2>1. made = taken \o OnItsWay
    <3>1. \A x, y, z \in Seq(Requests) : (x \o y) \o z = x \o (y \o z)
      BY Regroup
    <3> QED BY <3>1, Zenon DEF ToldTruly, InOrder, RequestsInOrder
  <2>2. taken \in Seq(Requests) /\ OnItsWay \in Seq(Requests)
    BY DEF ToldTruly, InOrder
  <2> HIDE DEF OnItsWay
  <2> QED BY <2>1, <2>2, TakenOnce DEF MadeOnce
<1>5. UNCHANGED <<made, OnItsWay, Open>>
  BY DEF requestVars
<1>6. \A k \in Len(Unheard) + 1..Len(Unheard') : Unheard'[k] = e
  BY <1>3
<1> HIDE DEF OnItsWay, Open
<1> QED BY <1>3, <1>4, <1>5, <1>6
        DEF Agreed!Behave, Agreed!Known, Agreed!Range, Range, OnItsWay, Unheard, Open

\* Every step is one of the line's, or none.
LEMMA AgreedStep ==
  ASSUME ToldTruly, MadeOnce, [Next]_vars
  PROVE  Agreed!Next \/ UNCHANGED Agreed!vars
<1> USE DEF OnItsWay, Unheard, Open
<1>a. /\ from_behaviour \in Seq(Told) /\ pending_to_transport \in Seq(Told)
      /\ Len(from_behaviour) \in Nat /\ Len(pending_to_transport) \in Nat
      /\ DOMAIN from_behaviour = 1..Len(from_behaviour)
  BY QueuesOfTruths DEF ToldTruly, TellsTyped
<1>b. UNCHANGED lineVars => UNCHANGED Agreed!vars
  BY DEF lineVars, Agreed!vars
<1>c. /\ Len(Unheard) = Len(from_behaviour) + Len(pending_to_transport)
      /\ \A k \in DOMAIN from_behaviour : k \in 1..Len(Unheard) /\ Unheard[k] = from_behaviour[k]
  BY <1>a
<1>1. ASSUME NEW i \in Ids, NEW a \in Addrs, CombinedListenOn(i, a)
      PROVE  Agreed!Next \/ UNCHANGED Agreed!vars
  <2>1. PICK l \in Listens : ListenOn(a, l)
    BY <1>1 DEF CombinedListenOn
  <2>2. CASE UNCHANGED <<requestVars, listenVars>>
    BY <1>b, <2>1, <2>2 DEF ListenOn, requestVars, listenVars, tellVars, lineVars
  <2>3. CASE ~ UNCHANGED <<requestVars, listenVars>>
    <3>1. /\ listener = None /\ listener' = l /\ Push(l) /\ local_addr[l] = None
          /\ UNCHANGED tellVars
      BY <2>1, <2>3 DEF ListenOn
    <3>2. l \notin Range(made)
      BY <3>1 DEF MadeOnce
    <3>3. Range(made') = Range(made) \cup {l} /\ OnItsWay' = Append(OnItsWay, l)
      BY <3>1, <3>2, PushAsks DEF MadeOnce, ToldTruly, Requests
    <3>4. Open = {} /\ Open' = {l} /\ UNCHANGED Unheard
      BY <3>1, RequestsDisjoint DEF tellVars
    <3> HIDE DEF OnItsWay, Unheard, Open
    <3>5. Agreed!Ask(l)
      BY <3>2, <3>3, <3>4 DEF Agreed!Ask, Agreed!Range, Range, OnItsWay, Unheard, Open
    <3> QED BY <3>5 DEF Agreed!Next
  <2> QED BY <2>2, <2>3
<1>2. ASSUME NEW i \in Ids, CombinedRemove(i)
      PROVE  Agreed!Next \/ UNCHANGED Agreed!vars
  <2>1. /\ UNCHANGED <<made, to_behaviour, pending_to_behaviour, from_behaviour,
                       pending_to_transport>>
        /\ listener' \in {listener, None}
    BY <1>2 DEF CombinedRemove, RemoveOne, RemoveListener, requestVars, tellVars, listenVars
  <2>2. CASE listener' = listener
    BY <1>b, <2>1, <2>2 DEF lineVars
  <2>3. CASE listener' = None
    BY <2>1, <2>3 DEF Agreed!Next, Agreed!Close, Agreed!Range
  <2> QED BY <2>1, <2>2, <2>3
<1>3. ASSUME NEW d \in Dials, Dial(d)
      PROVE  Agreed!Next
  <2>1. d \notin Range(made) /\ Push(d) /\ UNCHANGED <<Open, Unheard>> /\ d \notin Listens
    BY <1>3, RequestsDisjoint DEF Dial, listenVars, tellVars
  <2>2. Range(made') = Range(made) \cup {d} /\ OnItsWay' = Append(OnItsWay, d)
    BY <2>1, PushAsks DEF MadeOnce, ToldTruly, Requests
  <2> HIDE DEF OnItsWay, Unheard, Open
  <2>3. Agreed!Ask(d)
    BY <2>1, <2>2 DEF Agreed!Ask, Agreed!Range, Range, OnItsWay, Unheard, Open
  <2> QED BY <2>3 DEF Agreed!Next
<1>4. ASSUME PollNews
      PROVE  Agreed!Next
  <2>1. PICK k \in DOMAIN from_behaviour :
          /\ \A j \in 1..k - 1 : Ignored(from_behaviour[j])
          /\ ~ Ignored(from_behaviour[k])
          /\ DropIfFailed(from_behaviour[k])
          /\ from_behaviour' = SubSeq(from_behaviour, k + 1, Len(from_behaviour))
    BY <1>4 DEF PollNews
  <2>2. UNCHANGED <<made, to_behaviour, pending_to_behaviour, pending_to_transport>>
    BY <1>4 DEF PollNews, requestVars
  <2>3. k \in 0..Len(from_behaviour) /\ k \in 1..Len(Unheard)
    BY <1>a, <1>c
  <2>4. Unheard' = SubSeq(Unheard, k + 1, Len(Unheard))
    BY <1>a, <2>1, <2>2, <2>3, FirstsGone
  <2>5. \A j \in 1..k : j \in DOMAIN from_behaviour /\ (j = k \/ j \in 1..k - 1)
    BY <1>a, <2>1
  <2> HIDE DEF Unheard
  <2>6. ASSUME NEW l \in Open
        PROVE  l \in Open' <=> \A j \in 1..k : Unheard[j].type = "ListenFailed" => Unheard[j].req # l
    <3>1. l = listener /\ l # None
      OBVIOUS
    <3>2. \A j \in 1..k - 1 : j \in 1..k => Unheard[j].type # "ListenFailed"
      BY <1>c, <2>1, <2>5 DEF Ignored
    <3>3. l \in Open' <=> ~ (from_behaviour[k].type = "ListenFailed" /\ from_behaviour[k].req = l)
      BY <2>1, <3>1 DEF DropIfFailed, RemoveListener, listenVars
    <3>4. k \in 1..k
      BY <2>3
    <3> QED BY <1>c, <2>1, <2>5, <3>2, <3>3, <3>4
  <2>7. Open' \subseteq Open
    BY <2>1 DEF DropIfFailed, RemoveListener, listenVars
  <2> HIDE DEF Open, OnItsWay
  <2>8. Open' = {l \in Open : \A j \in 1..k :
                   Unheard[j].type = "ListenFailed" => Unheard[j].req # l}
    BY <2>6, <2>7
  <2>9. UNCHANGED <<Range(made), OnItsWay>>
    BY <2>2 DEF OnItsWay
  <2>10. Agreed!Hear(k)
    BY <2>4, <2>8, <2>9 DEF Agreed!Hear, Agreed!Range, Range, Open, OnItsWay, Unheard
  <2> QED BY <2>3, <2>10 DEF Agreed!Next, Unheard
<1>5. ASSUME PollRest
      PROVE  Agreed!Next \/ UNCHANGED Agreed!vars
  <2> DEFINE n == Len(from_behaviour)
  <2>1. OnItsWay' = OnItsWay
    <3>1. /\ to_behaviour \in Seq(Requests) /\ pending_to_behaviour \in Seq(Requests)
          /\ Fitting \in 0..Len(pending_to_behaviour)
      BY CapsPositive DEF ToldTruly, InOrder, Fitting
    <3>2. /\ to_behaviour' = to_behaviour \o SubSeq(pending_to_behaviour, 1, Fitting)
          /\ pending_to_behaviour' =
               SubSeq(pending_to_behaviour, Fitting + 1, Len(pending_to_behaviour))
      BY <1>5 DEF PollRest, MoveRequests, Move
    <3> QED BY <3>1, <3>2, MovedPrefix
  <2>2. /\ UNCHANGED <<made, listener, pending_to_transport>> /\ from_behaviour' = <<>>
        /\ \A k \in 1..n : Ignored(from_behaviour[k])
    BY <1>5, <1>a DEF PollRest
  <2>3. Unheard' = pending_to_transport
    BY <1>a, <2>2, ConcatEmptySeq
  <2>4. CASE n = 0
    <3>1. from_behaviour = <<>>
      BY <1>a, <2>4, EmptySeq
    <3>2. Unheard' = Unheard
      BY <2>2, <3>1
    <3> QED BY <2>1, <2>2, <3>2 DEF Agreed!vars, Agreed!Range
  <2>5. CASE n # 0
    <3>1. n \in 0..n /\ n \in 1..Len(Unheard)
      BY <1>a, <1>c, <2>5
    <3>2. SubSeq(from_behaviour, n + 1, n) = <<>>
      BY <1>a
    <3>3. Unheard' = SubSeq(Unheard, n + 1, Len(Unheard))
      <4>1. <<>> \o pending_to_transport = SubSeq(Unheard, n + 1, Len(Unheard))
        BY <1>a, <3>1, <3>2, FirstsGone
      <4> QED BY <1>a, <2>3, <4>1, ConcatEmptySeq
    <3> HIDE DEF Unheard
    <3>4. \A k \in 1..n : Unheard[k].type # "ListenFailed"
      BY <1>a, <1>c, <2>2 DEF Ignored
    <3> HIDE DEF n, OnItsWay
    <3>5. Open' = {l \in Open : \A k \in 1..n :
                     Unheard[k].type = "ListenFailed" => Unheard[k].req # l}
      BY <2>2, <3>4
    <3>6. Agreed!Hear(n)
      BY <2>1, <2>2, <3>3, <3>5 DEF Agreed!Hear, Agreed!Range, Range, OnItsWay, Unheard
    <3> QED BY <3>1, <3>6 DEF Agreed!Next, Unheard
  <2> QED BY <2>4, <2>5
<1>6. ASSUME Take
      PROVE  Agreed!Next
  <2>1. /\ to_behaviour # <<>> /\ to_behaviour' = Tail(to_behaviour)
        /\ UNCHANGED <<made, pending_to_behaviour, listener, from_behaviour,
                       pending_to_transport>>
        /\ to_behaviour \in Seq(Requests) /\ pending_to_behaviour \in Seq(Requests)
    BY <1>6 DEF Take, listenVars, tellVars, ToldTruly, InOrder
  <2>2. OnItsWay # <<>> /\ OnItsWay' = Tail(OnItsWay)
    <3>1. /\ OnItsWay \in Seq(Requests) /\ Len(OnItsWay) > 0 /\ OnItsWay # <<>>
          /\ Len(to_behaviour) \in Nat /\ 1 \in 0..Len(to_behaviour)
      BY <2>1, EmptySeq
    <3>2. /\ Tail(to_behaviour) = SubSeq(to_behaviour, 2, Len(to_behaviour))
          /\ Tail(OnItsWay) = SubSeq(OnItsWay, 2, Len(OnItsWay))
      BY <2>1, <3>1, SubSeqFull, HeadTailOfSubSeq
    <3>3. SubSeq(to_behaviour, 1 + 1, Len(to_behaviour)) \o pending_to_behaviour
            = SubSeq(OnItsWay, 1 + 1, Len(OnItsWay))
      BY <2>1, <3>1, FirstsGone
    <3> QED BY <2>1, <3>1, <3>2, <3>3
  <2>3. UNCHANGED <<Range(made), Open, Unheard>> /\ Unheard \in Seq(Told)
    BY <1>a, <2>1
  <2> HIDE DEF OnItsWay, Unheard, Open
  <2>4. /\ Agreed!IsPrefix(Unheard, Unheard')
        /\ \A k \in Len(Unheard) + 1..Len(Unheard') : FALSE
    BY <2>3 DEF Agreed!IsPrefix
  <2>5. Agreed!Behave
    BY <2>2, <2>3, <2>4 DEF Agreed!Behave, Agreed!Range, Range, OnItsWay, Unheard, Open
  <2> QED BY <2>5 DEF Agreed!Next
<1>7. ASSUME NEW l \in Listens, Answer(l)
      PROVE  Agreed!Next
  <2>1. PICK t \in {"ListenSuccess", "ListenFailed"} : Tell([type |-> t, req |-> l])
    BY <1>7 DEF Answer
  <2>2. [type |-> t, req |-> l] \in Told /\ l \in Range(taken)
    BY <1>7 DEF Answer, Told
  <2>3. Agreed!Behave
    BY <1>7, <2>1, <2>2, TellBehaves DEF Answer, listenVars
  <2> QED BY <2>3 DEF Agreed!Next
<1>8. ASSUME TellOther
      PROVE  Agreed!Next
  <2>1. UNCHANGED <<requestVars, from_behaviour, listener>>
    BY <1>8 DEF TellOther, listenVars
  <2>2. ASSUME NEW d \in Dials \cap Range(taken), Tell([type |-> "DialFailed", req |-> d])
        PROVE  Agreed!Behave
    <3>1. [type |-> "DialFailed", req |-> d] \in Told
      BY DEF Told
    <3> QED BY <2>1, <2>2, <3>1, TellBehaves
  <2>3. ASSUME Tell([type |-> "PeerClosed"])
        PROVE  Agreed!Behave
    <3>1. [type |-> "PeerClosed"] \in Told
      BY DEF Told
    <3> QED BY <2>1, <2>3, <3>1, TellBehaves
  <2> QED BY <1>8, <2>2, <2>3 DEF TellOther, Agreed!Next
<1>9. ASSUME Forward
      PROVE  Agreed!Next
  <2>1. listener \in Range(taken) /\ UNCHANGED <<requestVars, from_behaviour, listener>>
    BY <1>9 DEF Forward
  <2>2. listener \in Listens
    <3>1. listener \in Requests
      BY <2>1, RangeOfSeq DEF ToldTruly, InOrder
    <3> QED BY <3>1, RequestsDisjoint DEF ToldTruly, ListensTyped, Requests
  <2>3. [type |-> "ListenSuccess", req |-> listener] \in Told
    BY <2>2 DEF Told
  <2>4. Agreed!Behave
    BY <1>9, <2>1, <2>3, TellBehaves DEF Forward
  <2> QED BY <2>4 DEF Agreed!Next
<1>10. ASSUME Flush
       PROVE  UNCHANGED Agreed!vars
  <2> DEFINE h == <<Head(pending_to_transport)>>
             t == Tail(pending_to_transport)
  <2>1. /\ h \in Seq(Told) /\ t \in Seq(Told) /\ h \o t = pending_to_transport
        /\ Append(from_behaviour, Head(pending_to_transport)) = from_behaviour \o h
    <3>1. /\ Head(pending_to_transport) \in Told
          /\ h \in Seq(Told) /\ t \in Seq(Told) /\ h \o t = pending_to_transport
      BY <1>10, <1>a, HeadFirst DEF Flush
    <3> QED BY <1>a, <3>1, AppendIsConcat
  <2>2. /\ from_behaviour' = from_behaviour \o h /\ pending_to_transport' = t
        /\ UNCHANGED <<made, to_behaviour, pending_to_behaviour, listener>>
    BY <1>10, <2>1 DEF Flush, requestVars, listenVars
  <2> HIDE DEF h, t
  <2>3. \A x, y, z \in Seq(Told) : (x \o y) \o z = x \o (y \o z)
    BY Regroup
  <2>4. (from_behaviour \o h) \o t = from_behaviour \o (h \o t)
    BY <1>a, <2>1, <2>3, Zenon
  <2>5. Unheard' = Unheard
    BY <2>1, <2>2, <2>4, Zenon
  <2> QED BY <2>2, <2>5 DEF Agreed!vars, Agreed!Range
<1>11. ASSUME \/ FirstReady \/ PollFirst \/ UNCHANGED vars
              \/ \E i \in Ids : FirstCloses(i)
       PROVE  UNCHANGED Agreed!vars
  BY <1>11, <1>b DEF FirstReady, PollFirst, FirstCloses, vars, transportVars, requestVars,
                     listenVars, tellVars, lineVars
<1> QED
  BY <1>1, <1>2, <1>3, <1>4, <1>5, <1>6, <1>7, <1>8, <1>9, <1>10, <1>11
     DEF Next, Poll, PollSecond

\* The transport makes a request once and hears what was told in order, however
\* full the channels are, and has one listener at a time, which a failure it
\* hears closes: what it and the behaviour count on of each other
\* (endpoint/transport.rs:65-240).
THEOREM TransportKeepsTheLine == Spec => ImplementsLine
<1>1. Init => Agreed!Init
  <2>1. <<>> \o <<>> = <<>>
    BY ConcatEmptySeq, EmptySeq
  <2>2. Range(<<>>) = {}
    BY DEF Range
  <2> QED BY <2>1, <2>2 DEF Init, TransportInit, Agreed!Init
<1>2. ToldTruly /\ MadeOnce /\ [Next]_vars => (ToldTruly /\ MadeOnce)'
  BY ToldTrulyNext, MadeOnceNext
<1>3. ToldTruly /\ MadeOnce /\ [Next]_vars => [Agreed!Next]_(Agreed!vars)
  BY AgreedStep
<1> QED BY ToldTrulyInit, MadeOnceInit, <1>1, <1>2, <1>3, PTL
        DEF Spec, ImplementsLine, Agreed!Spec
=============================================================================
