--------------------------- MODULE RelayCopyProofs ---------------------------
(***************************************************************************)
(* Theorems about RelayCopy, for any number of pairs and of bytes, and for *)
(* every window: no wake-up of a copy is lost, and each direction of a     *)
(* pair is a pipe.                                                         *)
(***************************************************************************)
EXTENDS RelayCopy, SequenceTheorems, WellFoundedInduction, TLAPS

Bytes == Seq(1..MaxSent)

\* What the copies and the substreams hold has its type.
BytesTyped ==
  /\ buffer \in [Copies -> Bytes]
  /\ remaining_buf \in [Sides -> Bytes]
  /\ arrived \in [Sides -> Bytes]
  /\ received \in [Sides -> Bytes]
  /\ state \in [Sides -> {"open", "eof", "lost"}]
  /\ room \in [Sides -> 0..Window]
  /\ closed \in [Sides -> BOOLEAN]

\* The queue holds copies that run, each once, and not the one that is polled.
QueueTyped ==
  /\ io_copy_futures \subseteq Copies
  /\ ready \in Seq(io_copy_futures)
  /\ IsInjective(ready)
  /\ current \in io_copy_futures \cup {None}
  /\ current \notin Range(ready)

TaskTyped ==
  /\ started \subseteq Pairs
  /\ pending_actions \in Nat
  /\ registered \in BOOLEAN /\ woken \in BOOLEAN /\ polling \in BOOLEAN

\* Only copies of joined pairs run.
RunningStarted == \A c \in io_copy_futures : c[1] \in started

\* A copy that waits runs, and is neither queued nor polled.
WaitersApart ==
  /\ wants \in [Copies -> {"nothing", "read", "write"}]
  /\ \A c \in Copies : wants[c] # "nothing" =>
       /\ c \in io_copy_futures
       /\ c \notin Range(ready) /\ c # current

CopyInv == BytesTyped /\ QueueTyped /\ TaskTyped /\ RunningStarted /\ WaitersApart

\* A copy waits for what it cannot do.
AtRest(c) ==
  \/ /\ wants[c] = "read"
     /\ buffer[c] = <<>>
     /\ remaining_buf[Source(c)] = <<>> /\ arrived[Source(c)] = <<>>
     /\ state[Source(c)] = "open"
  \/ /\ wants[c] = "write"
     /\ buffer[c] # <<>>
     /\ state[Target(c)] # "lost"
     /\ room[Target(c)] = 0

WaitersAtRest == \A c \in Copies : wants[c] = "nothing" \/ AtRest(c)

\* A copy that runs is queued, polled, or waits.
Attended ==
  \A c \in io_copy_futures : c \in Range(ready) \/ c = current \/ wants[c] # "nothing"

WakeInv == CopyInv /\ WaitersAtRest /\ Attended

\* The copy into a side that was closed has ended.
ClosedDone ==
  \A c \in Copies : closed[Target(c)] => c[1] \in started /\ c \notin io_copy_futures

-----------------------------------------------------------------------------
(* Copies and sides, queues, and reads. *)

\* Every side is the source of one copy of its pair and the target of the other.
LEMMA SidesOfCopies ==
  /\ \A s \in Sides :
       /\ Reader(s) \in Copies /\ Source(Reader(s)) = s
       /\ Writer(s) \in Copies /\ Target(Writer(s)) = s
       /\ Reader(s) # Writer(s)
  /\ \A c \in Copies :
       /\ Source(c) \in Sides /\ Target(c) \in Sides
       /\ Source(c)[1] = c[1] /\ Target(c)[1] = c[1]
       /\ Reader(Source(c)) = c /\ Writer(Target(c)) = c
<1>1. \A c \in Copies : /\ Source(c) \in Sides /\ Target(c) \in Sides
                        /\ Source(c)[1] = c[1] /\ Target(c)[1] = c[1]
                        /\ Source(c) # Target(c)
  BY DEF Copies, Sides, Source, Target
<1>2. \A c, d \in Copies : Source(c) = Source(d) \/ Target(c) = Target(d) => c = d
  BY DEF Copies, Source, Target
<1>3. ASSUME NEW s \in Sides
      PROVE  (\E c \in Copies : Source(c) = s) /\ (\E c \in Copies : Target(c) = s)
  <2>1. PICK p \in Pairs : s = <<p, "dialer">> \/ s = <<p, "dst">>
    BY DEF Sides
  <2>2. <<p, "to_dst">> \in Copies /\ <<p, "to_dialer">> \in Copies
    BY DEF Copies
  <2>3. /\ Source(<<p, "to_dst">>) = <<p, "dialer">> /\ Target(<<p, "to_dst">>) = <<p, "dst">>
        /\ Source(<<p, "to_dialer">>) = <<p, "dst">> /\ Target(<<p, "to_dialer">>) = <<p, "dialer">>
    BY DEF Source, Target
  <2> QED BY <2>1, <2>2, <2>3
<1>4. \A s \in Sides : Reader(s) \in Copies /\ Source(Reader(s)) = s
  BY <1>3 DEF Reader
<1>5. \A s \in Sides : Writer(s) \in Copies /\ Target(Writer(s)) = s
  BY <1>3 DEF Writer
<1> QED BY <1>1, <1>2, <1>4, <1>5

\* Two queues without a copy in common make one that holds nothing twice.
LEMMA JoinQueues ==
  ASSUME NEW S, NEW q \in Seq(S), NEW t \in Seq(S),
         IsInjective(q), IsInjective(t), Range(q) \cap Range(t) = {}
  PROVE  /\ q \o t \in Seq(S) /\ IsInjective(q \o t)
         /\ Range(q \o t) = Range(q) \cup Range(t)
<1>1. /\ q \o t \in Seq(S) /\ Range(q \o t) = Range(q) \cup Range(t)
      /\ DOMAIN (q \o t) = 1..Len(q) + Len(t)
  BY RangeConcatenation, ConcatProperties, LenProperties
<1>2. \A i \in 1..Len(q) : (q \o t)[i] = q[i] /\ q[i] \in Range(q)
  BY ConcatProperties DEF Range
<1>3. \A i \in 1..Len(q) + Len(t) : i > Len(q) =>
        /\ (q \o t)[i] = t[i - Len(q)] /\ t[i - Len(q)] \in Range(t)
        /\ i - Len(q) \in 1..Len(t)
  BY ConcatProperties DEF Range
<1>4. ASSUME NEW i \in 1..Len(q) + Len(t), NEW j \in 1..Len(q) + Len(t),
             (q \o t)[i] = (q \o t)[j]
      PROVE  i = j
  <2>1. CASE i <= Len(q) /\ j <= Len(q)
    BY <1>2, <1>4, <2>1 DEF IsInjective
  <2>2. CASE i > Len(q) /\ j > Len(q)
    <3>1. i - Len(q) = j - Len(q)
      BY <1>3, <1>4, <2>2 DEF IsInjective
    <3> QED BY <3>1
  <2>3. CASE i <= Len(q) /\ j > Len(q)
    BY <1>2, <1>3, <1>4, <2>3
  <2>4. CASE i > Len(q) /\ j <= Len(q)
    BY <1>2, <1>3, <1>4, <2>4
  <2> QED BY <2>1, <2>2, <2>3, <2>4
<1> QED BY <1>1, <1>4 DEF IsInjective

\* What is taken off a queue is no longer in it, and the rest stays.
LEMMA TakeOff ==
  ASSUME NEW S, NEW q \in Seq(S), IsInjective(q), q # <<>>
  PROVE  /\ Head(q) \in S /\ Tail(q) \in Seq(S) /\ IsInjective(Tail(q))
         /\ Head(q) \notin Range(Tail(q))
         /\ Range(q) = {Head(q)} \cup Range(Tail(q))
<1>1. /\ Head(q) \in S /\ Tail(q) \in Seq(S) /\ Len(Tail(q)) = Len(q) - 1
      /\ Len(q) \in Nat \ {0} /\ Head(q) = q[1]
      /\ \A i \in 1..Len(q) - 1 : Tail(q)[i] = q[i + 1]
  OBVIOUS
<1>2. DOMAIN q = 1..Len(q) /\ DOMAIN Tail(q) = 1..Len(q) - 1
  BY <1>1
<1>3. IsInjective(Tail(q))
  BY <1>1, <1>2 DEF IsInjective
<1>4. Head(q) \notin Range(Tail(q))
  BY <1>1, <1>2 DEF IsInjective, Range
<1>5. Range(q) = {Head(q)} \cup Range(Tail(q))
  <2>1. ASSUME NEW i \in 1..Len(q) PROVE q[i] \in {Head(q)} \cup Range(Tail(q))
    <3>1. CASE i = 1
      BY <1>1, <3>1
    <3>2. CASE i # 1
      <4>1. i - 1 \in 1..Len(q) - 1 /\ (i - 1) + 1 = i
        BY <1>1, <3>2
      <4> QED BY <4>1, <1>1, <1>2 DEF Range
    <3> QED BY <3>1, <3>2
  <2>2. ASSUME NEW i \in 1..Len(q) - 1 PROVE Tail(q)[i] \in Range(q)
    <3>1. i + 1 \in 1..Len(q)
      BY <1>1
    <3> QED BY <3>1, <1>1, <1>2 DEF Range
  <2>3. Head(q) \in Range(q)
    BY <1>1, <1>2 DEF Range
  <2> QED BY <1>2, <2>1, <2>2, <2>3 DEF Range
<1> QED BY <1>1, <1>3, <1>4, <1>5

\* What First takes and Rest leaves is the whole.
LEMMA SplitBytes ==
  ASSUME NEW b \in Bytes, NEW n \in 0..Len(b)
  PROVE  /\ First(b, n) \in Bytes /\ Rest(b, n) \in Bytes
         /\ Len(First(b, n)) = n /\ Len(Rest(b, n)) = Len(b) - n
         /\ First(b, n) \o Rest(b, n) = b
<1>1. /\ 1 \in 1..Len(b) + 1 /\ n \in 1 - 1..Len(b) /\ Len(b) \in n..Len(b)
  BY DEF Bytes
<1>2. SubSeq(b, 1, n) \o SubSeq(b, n + 1, Len(b)) = SubSeq(b, 1, Len(b))
  BY <1>1, ConcatAdjacentSubSeq, Zenon DEF Bytes
<1>3. SubSeq(b, 1, Len(b)) = b
  BY SubSeqFull, Zenon DEF Bytes
<1>4. /\ SubSeq(b, 1, n) \in Bytes /\ SubSeq(b, n + 1, Len(b)) \in Bytes
      /\ Len(SubSeq(b, 1, n)) = n /\ Len(SubSeq(b, n + 1, Len(b))) = Len(b) - n
  <2> DEFINE S == 1..MaxSent
  <2>1. b \in Seq(S) /\ Len(b) \in Nat /\ n \in Nat /\ n <= Len(b)
    BY DEF Bytes
  <2> HIDE DEF S
  <2>2. \A i \in 1..Len(b) : b[i] \in S
    BY <2>1, ElementOfSeq
  <2>3. SubSeq(b, 1, n) \in Seq(S) /\ Len(SubSeq(b, 1, n)) = n
    BY <2>1, <2>2
  <2>4. /\ SubSeq(b, n + 1, Len(b)) \in Seq(S)
        /\ Len(SubSeq(b, n + 1, Len(b))) = Len(b) - n
    BY <2>1, <2>2
  <2> QED BY <2>3, <2>4 DEF S, Bytes
<1> QED BY <1>2, <1>3, <1>4 DEF First, Rest

LEMMA WholeBytes ==
  ASSUME NEW b \in Bytes
  PROVE  First(b, 0) = <<>> /\ Rest(b, 0) = b
<1>1. SubSeq(b, 1, 0) = <<>>
  BY SubSeqEmpty
<1>2. SubSeq(b, 1, Len(b)) = b
  BY SubSeqFull, Zenon DEF Bytes
<1> QED BY <1>1, <1>2 DEF First, Rest

\* A read takes bytes from the front of what is left over and what has arrived;
\* it takes all that is left over before it touches what has arrived.
LEMMA ReadTakes ==
  ASSUME NEW b \in Bytes, NEW a \in Bytes
  PROVE  LET r == PollRead(b, a, MaxSent)
         IN /\ r.bytes \in Bytes /\ r.remaining_buf \in Bytes /\ r.arrived \in Bytes
            /\ \/ r.bytes \o r.remaining_buf = b /\ r.arrived = a
               \/ b = <<>> /\ r.remaining_buf = <<>> /\ r.bytes \o r.arrived = a
<1> DEFINE r == PollRead(b, a, MaxSent)
<1>1. Len(a) \in Nat /\ Len(b) \in Nat /\ MaxSent \in Nat
  BY BoundsNat DEF Bytes
<1>2. CASE b # <<>>
  <2> DEFINE k == Lesser(Len(b), MaxSent)
  <2>1. k \in 0..Len(b)
    BY <1>1 DEF Lesser
  <2>2. r.bytes = First(b, k) /\ r.remaining_buf = Rest(b, k) /\ r.arrived = Rest(a, 0)
    BY <1>2 DEF PollRead
  <2> QED BY <2>1, <2>2, SplitBytes, WholeBytes
<1>3. CASE b = <<>>
  <2> DEFINE k == Lesser(Len(a), MaxSent)
  <2>1. k \in 0..Len(a)
    BY <1>1 DEF Lesser
  <2>2. r.bytes = First(a, k) /\ r.remaining_buf = Rest(b, 0) /\ r.arrived = Rest(a, k)
    BY <1>3 DEF PollRead
  <2> QED BY <2>1, <2>2, <1>3, SplitBytes, WholeBytes
<1> QED BY <1>2, <1>3

-----------------------------------------------------------------------------
(* Types, and what the queue holds. *)

LEMMA CopyInit == Init => CopyInv
<1> SUFFICES ASSUME Init PROVE CopyInv
  OBVIOUS
<1>1. <<>> \in Bytes
  BY DEF Bytes
<1>2. BytesTyped
  BY <1>1, BoundsNat DEF Init, BytesTyped
<1>3. /\ <<>> \in Seq(io_copy_futures) /\ IsInjective(<<>>)
      /\ \A c : c \notin Range(<<>>)
  BY DEF IsInjective, Range
<1>4. QueueTyped /\ TaskTyped /\ RunningStarted
  BY <1>3 DEF Init, QueueTyped, TaskTyped, RunningStarted
<1>5. WaitersApart
  BY DEF Init, WaitersApart
<1> QED BY <1>2, <1>4, <1>5 DEF CopyInv

LEMMA BytesStep == BytesTyped /\ [Next]_vars => BytesTyped'
<1> SUFFICES ASSUME BytesTyped, [Next]_vars PROVE BytesTyped'
  OBVIOUS
<1> USE DEF BytesTyped
<1>a. \A b \in Bytes : Len(b) \in Nat
  BY DEF Bytes
<1>1. ASSUME NEW s \in Sides, PeerSends(s) PROVE BytesTyped'
  <2> DEFINE c == Reader(s)
             n == Sent(s)
  <2>1. c \in Copies /\ Target(c) \in Sides
    BY SidesOfCopies
  <2>2. n \in Nat /\ n < MaxSent
    BY <1>1, <1>a, <2>1 DEF PeerSends, Sent
  <2>3. n + 1 \in 1..MaxSent
    BY <2>2, BoundsNat
  <2> HIDE DEF n
  <2>4. \A b \in Bytes : Append(b, n + 1) \in Bytes
    BY <2>3 DEF Bytes
  <2>5. arrived' = [arrived EXCEPT ![s] = Append(@, n + 1)]
    BY <1>1 DEF PeerSends, n
  <2> QED BY <1>1, <2>4, <2>5 DEF PeerSends, writeVars
<1>2. ASSUME NEW s \in Sides, PeerEnds(s) \/ PeerLost(s) PROVE BytesTyped'
  BY <1>2 DEF PeerEnds, PeerLost, writeVars
<1>3. ASSUME NEW s \in Sides, PeerReads(s) PROVE BytesTyped'
  BY <1>3, BoundsNat DEF PeerReads, readVars
<1>4. ASSUME NEW p \in Pairs, OnDialSuccess(p) PROVE BytesTyped'
  <2>1. PICK n \in [Sides -> 0..MaxSent] :
          /\ \A s \in Sides : n[s] <= IF s[1] = p THEN Len(arrived[s]) ELSE 0
          /\ remaining_buf' = [s \in Sides |-> remaining_buf[s] \o First(arrived[s], n[s])]
          /\ arrived' = [s \in Sides |-> Rest(arrived[s], n[s])]
    BY <1>4 DEF OnDialSuccess
  <2>2. ASSUME NEW s \in Sides
        PROVE  /\ First(arrived[s], n[s]) \in Bytes /\ Rest(arrived[s], n[s]) \in Bytes
    <3>1. n[s] \in 0..Len(arrived[s])
      BY <2>1, <1>a, BoundsNat
    <3> QED BY <3>1, SplitBytes
  <2>3. \A a, b \in Bytes : a \o b \in Bytes
    BY DEF Bytes
  <2> QED BY <1>4, <2>1, <2>2, <2>3 DEF OnDialSuccess, copyVars, writeVars
<1>5. CASE BeginPoll \/ SwarmEvent \/ PollNext \/ QueueIsEmpty
  BY <1>5 DEF BeginPoll, SwarmEvent, PollNext, QueueIsEmpty, copyVars, readVars, writeVars
<1>6. ASSUME NEW c \in Copies, ReadSome(c) PROVE BytesTyped'
  <2> DEFINE s == Source(c)
             r == PollRead(remaining_buf[s], arrived[s], MaxSent)
  <2>1. s \in Sides
    BY SidesOfCopies
  <2>2. r.bytes \in Bytes /\ r.remaining_buf \in Bytes /\ r.arrived \in Bytes
    BY <2>1, ReadTakes
  <2>3. /\ buffer' = [buffer EXCEPT ![c] = r.bytes]
        /\ remaining_buf' = [remaining_buf EXCEPT ![s] = r.remaining_buf]
        /\ arrived' = [arrived EXCEPT ![s] = r.arrived]
        /\ UNCHANGED <<state, writeVars>>
    BY <1>6 DEF ReadSome
  <2> HIDE DEF r, s
  <2> QED BY <2>1, <2>2, <2>3 DEF writeVars
<1>7. ASSUME NEW c \in Copies, CopyEnds(c) PROVE BytesTyped'
  BY <1>7, SidesOfCopies DEF CopyEnds, copyVars, readVars
<1>8. ASSUME NEW c \in Copies, WriteSome(c) PROVE BytesTyped'
  <2> DEFINE t == Target(c)
  <2>1. t \in Sides
    BY SidesOfCopies
  <2>2. PICK n \in 1..Len(buffer[c]) :
          /\ n <= room[t]
          /\ received' = [received EXCEPT ![t] = @ \o First(buffer[c], n)]
          /\ room' = [room EXCEPT ![t] = @ - n]
          /\ buffer' = [buffer EXCEPT ![c] = Rest(@, n)]
          /\ UNCHANGED <<readVars, closed>>
    BY <1>8 DEF WriteSome
  <2>3. First(buffer[c], n) \in Bytes /\ Rest(buffer[c], n) \in Bytes
    BY <1>a, SplitBytes
  <2>4. \A a, b \in Bytes : a \o b \in Bytes
    BY DEF Bytes
  <2>5. room[t] - n \in 0..Window
    BY <2>1, <2>2, <1>a, BoundsNat
  <2> HIDE DEF t
  <2> QED BY <2>1, <2>2, <2>3, <2>4, <2>5 DEF readVars
<1>9. ASSUME NEW c \in Copies, ReadWaits(c) \/ WriteWaits(c) PROVE BytesTyped'
  BY <1>9 DEF ReadWaits, WriteWaits, readVars, writeVars
<1>10. ASSUME NEW c \in Copies, WriteFails(c) PROVE BytesTyped'
  BY <1>10 DEF WriteFails, copyVars, readVars, writeVars
<1>11. CASE UNCHANGED vars
  BY <1>11 DEF vars, copyVars, readVars, writeVars
<1> QED
  BY <1>1, <1>2, <1>3, <1>4, <1>5, <1>6, <1>7, <1>8, <1>9, <1>10, <1>11
     DEF Next, Poll, PollCopy

LEMMA WaitingCopies ==
  ASSUME NEW c \in Copies, NEW for
  PROVE  /\ Waiting(c, for) \in Seq(Copies)
         /\ IsInjective(Waiting(c, for))
         /\ Range(Waiting(c, for)) = IF wants[c] = for THEN {c} ELSE {}
BY DEF Waiting, IsInjective, Range

\* Copies that are woken join the queue, and wait no more.
LEMMA WakeQueues ==
  ASSUME QueueTyped, WaitersApart, NEW cs \in Seq(Copies),
         IsInjective(cs), \A c \in Range(cs) : wants[c] # "nothing",
         Wake(cs), UNCHANGED <<io_copy_futures, current>>
  PROVE  /\ QueueTyped' /\ WaitersApart'
         /\ Range(ready)' = Range(ready) \cup Range(cs)
         /\ \A c \in Copies : wants'[c] = IF c \in Range(cs) THEN "nothing" ELSE wants[c]
<1>1. Range(cs) \subseteq io_copy_futures /\ Range(cs) \subseteq Copies
  BY RangeOfSeq DEF WaitersApart
<1>2. cs \in Seq(io_copy_futures)
  <2>1. cs \in Seq(Range(cs))
    BY SeqOfRange
  <2> QED BY <1>1, <2>1, SeqMonotonic
<1>3. Range(ready) \cap Range(cs) = {} /\ current \notin Range(cs)
  BY <1>1 DEF WaitersApart
<1>4. ready' = ready \o cs
  BY DEF Wake
<1>5. /\ ready' \in Seq(io_copy_futures) /\ IsInjective(ready')
      /\ Range(ready') = Range(ready) \cup Range(cs)
  BY <1>2, <1>3, <1>4, JoinQueues DEF QueueTyped
<1>6. QueueTyped'
  BY <1>3, <1>5 DEF QueueTyped
<1>7. \A c \in Copies : wants'[c] = IF c \in Range(cs) THEN "nothing" ELSE wants[c]
  BY DEF Wake
<1>8. wants' \in [Copies -> {"nothing", "read", "write"}]
  BY DEF Wake, WaitersApart
<1>9. WaitersApart'
  BY <1>5, <1>7, <1>8 DEF WaitersApart
<1> QED BY <1>5, <1>6, <1>7, <1>9

\* What happens at a side wakes copies that wait.
LEMMA SideWakes ==
  ASSUME NEW s \in Sides,
         PeerSends(s) \/ PeerEnds(s) \/ PeerLost(s) \/ PeerReads(s)
  PROVE  \E cs \in Seq(Copies) :
           /\ Wake(cs)
           /\ IsInjective(cs) /\ \A c \in Range(cs) : wants[c] # "nothing"
           /\ \/ /\ PeerSends(s) \/ PeerEnds(s)
                 /\ \A c \in Copies : c \in Range(cs) <=> c = Reader(s) /\ wants[c] = "read"
              \/ /\ PeerReads(s)
                 /\ \A c \in Copies : c \in Range(cs) <=> c = Writer(s) /\ wants[c] = "write"
              \/ /\ PeerLost(s)
                 /\ \A c \in Copies : c \in Range(cs) <=>
                      \/ c = Reader(s) /\ wants[c] = "read"
                      \/ c = Writer(s) /\ wants[c] = "write"
<1> DEFINE r == Waiting(Reader(s), "read")
           w == Waiting(Writer(s), "write")
<1>1. /\ r \in Seq(Copies) /\ IsInjective(r)
      /\ Range(r) = IF wants[Reader(s)] = "read" THEN {Reader(s)} ELSE {}
  BY SidesOfCopies, WaitingCopies
<1>2. /\ w \in Seq(Copies) /\ IsInjective(w)
      /\ Range(w) = IF wants[Writer(s)] = "write" THEN {Writer(s)} ELSE {}
  BY SidesOfCopies, WaitingCopies
<1>3. Range(r) \cap Range(w) = {}
  BY <1>1, <1>2, SidesOfCopies
<1>4. r \o w \in Seq(Copies) /\ IsInjective(r \o w) /\ Range(r \o w) = Range(r) \cup Range(w)
  BY <1>1, <1>2, <1>3, JoinQueues
<1>5. CASE PeerSends(s) \/ PeerEnds(s)
  <2>1. Wake(r)
    BY <1>5 DEF PeerSends, PeerEnds
  <2> HIDE DEF r
  <2> QED BY <1>1, <1>5, <2>1
<1>6. CASE PeerReads(s)
  <2>1. Wake(w)
    BY <1>6 DEF PeerReads
  <2> HIDE DEF w
  <2> QED BY <1>2, <1>6, <2>1
<1>7. CASE PeerLost(s)
  <2>1. Wake(r \o w)
    BY <1>7 DEF PeerLost
  <2> HIDE DEF r, w
  <2> QED BY <1>1, <1>2, <1>4, <1>7, <2>1
<1> QED BY <1>5, <1>6, <1>7

\* A joined pair's copies are new, and join the queue.
LEMMA StartQueues ==
  ASSUME QueueTyped, RunningStarted, NEW p \in Pairs, OnDialSuccess(p)
  PROVE  /\ QueueTyped'
         /\ CopiesOf(p) \subseteq Copies /\ CopiesOf(p) \cap io_copy_futures = {}
         /\ io_copy_futures' = io_copy_futures \cup CopiesOf(p)
         /\ Range(ready)' = Range(ready) \cup CopiesOf(p)
<1> DEFINE q == << <<p, "to_dst">>, <<p, "to_dialer">> >>
           io == io_copy_futures \cup CopiesOf(p)
<1>1. /\ io_copy_futures' = io /\ ready' = ready \o q
      /\ current' = current /\ p \notin started
  BY DEF OnDialSuccess, pollVars
<1>2. CopiesOf(p) = {<<p, "to_dst">>, <<p, "to_dialer">>}
  BY DEF CopiesOf
<1>3. CopiesOf(p) \subseteq Copies /\ \A c \in CopiesOf(p) : c[1] = p
  BY <1>2 DEF Copies
<1>4. CopiesOf(p) \cap io_copy_futures = {}
  BY <1>1, <1>3 DEF RunningStarted
<1>5. q \in Seq(io) /\ IsInjective(q) /\ Range(q) = CopiesOf(p)
  <2>1. Len(q) = 2 /\ DOMAIN q = 1..2 /\ q[1] = <<p, "to_dst">> /\ q[2] = <<p, "to_dialer">>
    OBVIOUS
  <2>2. q \in Seq(io)
    BY <1>2
  <2>3. q[1] # q[2]
    BY <2>1
  <2>4. \A i \in 1..2 : i = 1 \/ i = 2
    OBVIOUS
  <2> HIDE DEF q
  <2>5. IsInjective(q)
    BY <2>1, <2>3, <2>4 DEF IsInjective
  <2>6. Range(q) = CopiesOf(p)
    BY <1>2, <2>1, <2>4 DEF Range
  <2> QED BY <2>2, <2>5, <2>6
<1>6. ready \in Seq(io) /\ Range(ready) \subseteq io_copy_futures
  BY SeqMonotonic, RangeOfSeq DEF QueueTyped
<1> HIDE DEF q, io
<1>7. /\ ready' \in Seq(io) /\ IsInjective(ready')
      /\ Range(ready') = Range(ready) \cup CopiesOf(p)
  BY <1>1, <1>4, <1>5, <1>6, JoinQueues DEF QueueTyped
<1>8. current \notin CopiesOf(p) /\ io \subseteq Copies
  BY <1>3, <1>4, NoneIsNoCopy DEF QueueTyped, io
<1>9. QueueTyped'
  BY <1>1, <1>7, <1>8 DEF QueueTyped, io
<1> QED BY <1>1, <1>3, <1>4, <1>7, <1>9 DEF io

\* The copy that is polled waits for nothing, and the queue does not hold it.
LEMMA PolledRuns ==
  ASSUME QueueTyped, WaitersApart, NEW c \in Copies, current = c
  PROVE  /\ c \in io_copy_futures /\ c \notin Range(ready) /\ wants[c] = "nothing"
         /\ ready \in Seq(io_copy_futures \ {c})
<1>1. c \in io_copy_futures /\ c \notin Range(ready) /\ wants[c] = "nothing"
  BY NoneIsNoCopy DEF QueueTyped, WaitersApart
<1>2. Range(ready) \subseteq io_copy_futures \ {c}
  BY <1>1, RangeOfSeq DEF QueueTyped
<1>3. ready \in Seq(Range(ready))
  BY SeqOfRange DEF QueueTyped
<1> QED BY <1>1, <1>2, <1>3, SeqMonotonic

LEMMA QueueStep == CopyInv /\ [Next]_vars => (QueueTyped /\ RunningStarted /\ WaitersApart)'
<1> SUFFICES ASSUME CopyInv, [Next]_vars
             PROVE  QueueTyped' /\ RunningStarted' /\ WaitersApart'
  OBVIOUS
<1> USE DEF CopyInv
<1> DEFINE After == QueueTyped' /\ RunningStarted' /\ WaitersApart'
<1>a. ASSUME UNCHANGED <<started, io_copy_futures, ready, current, wants>> PROVE After
  BY <1>a DEF QueueTyped, RunningStarted, WaitersApart
<1>1. ASSUME NEW s \in Sides, PeerSends(s) \/ PeerEnds(s) \/ PeerLost(s) \/ PeerReads(s)
      PROVE  After
  <2>1. PICK cs \in Seq(Copies) :
          /\ Wake(cs) /\ IsInjective(cs) /\ \A c \in Range(cs) : wants[c] # "nothing"
    BY <1>1, SideWakes
  <2>2. UNCHANGED <<started, io_copy_futures, current>>
    BY <1>1 DEF PeerSends, PeerEnds, PeerLost, PeerReads, taskVars, pollVars
  <2> QED BY <2>1, <2>2, WakeQueues DEF RunningStarted
<1>2. ASSUME NEW p \in Pairs, OnDialSuccess(p) PROVE After
  <2>1. started' = started \cup {p} /\ UNCHANGED <<current, wants>>
    BY <1>2 DEF OnDialSuccess, pollVars, copyVars
  <2>2. \A c \in CopiesOf(p) : c[1] = p
    BY DEF CopiesOf
  <2>3. RunningStarted'
    BY <1>2, <2>1, <2>2, StartQueues DEF RunningStarted
  <2>4. WaitersApart'
    BY <1>2, <2>1, StartQueues DEF WaitersApart
  <2> QED BY <1>2, <2>3, <2>4, StartQueues
<1>3. CASE BeginPoll \/ SwarmEvent
  BY <1>3, <1>a DEF BeginPoll, SwarmEvent, taskVars, pollVars, copyVars
<1>4. CASE PollNext
  <2>1. /\ current' = Head(ready) /\ ready' = Tail(ready) /\ ready # <<>>
        /\ UNCHANGED <<started, io_copy_futures, wants>>
    BY <1>4 DEF PollNext, taskVars, copyVars
  <2>2. /\ Head(ready) \in io_copy_futures /\ Tail(ready) \in Seq(io_copy_futures)
        /\ IsInjective(Tail(ready)) /\ Head(ready) \notin Range(Tail(ready))
        /\ Range(ready) = {Head(ready)} \cup Range(Tail(ready))
    BY <2>1, TakeOff DEF QueueTyped
  <2>3. QueueTyped'
    BY <2>1, <2>2 DEF QueueTyped
  <2>4. WaitersApart'
    BY <2>1, <2>2 DEF WaitersApart
  <2> QED BY <2>1, <2>3, <2>4 DEF RunningStarted
<1>5. CASE QueueIsEmpty
  <2>1. current' = None /\ UNCHANGED <<started, io_copy_futures, ready, wants>>
    BY <1>5 DEF QueueIsEmpty, Return, copyVars
  <2>2. None \notin Range(ready)
    BY RangeOfSeq, NoneIsNoCopy DEF QueueTyped
  <2> QED BY <2>1, <2>2, NoneIsNoCopy DEF QueueTyped, RunningStarted, WaitersApart
<1>6. ASSUME NEW c \in Copies, ReadSome(c) \/ WriteSome(c) PROVE After
  BY <1>6, <1>a DEF ReadSome, WriteSome, taskVars, queueVars, pollVars
<1>7. ASSUME NEW c \in Copies, ReadWaits(c) \/ WriteWaits(c) PROVE After
  <2>1. PICK what \in {"read", "write"} : WaitFor(c, what)
    BY <1>7 DEF ReadWaits, WriteWaits
  <2>2. /\ current = c /\ current' = None /\ wants' = [wants EXCEPT ![c] = what]
        /\ UNCHANGED <<started, io_copy_futures, ready>>
    BY <1>7, <2>1 DEF ReadWaits, NothingToRead, WriteWaits, WaitFor, taskVars, queueVars
  <2>3. None \notin Range(ready)
    BY RangeOfSeq, NoneIsNoCopy DEF QueueTyped
  <2> QED BY <2>2, <2>3, PolledRuns, NoneIsNoCopy DEF QueueTyped, RunningStarted, WaitersApart
<1>8. ASSUME NEW c \in Copies, CopyEnds(c) \/ WriteFails(c) PROVE After
  <2>1. /\ current = c /\ current' = None
        /\ io_copy_futures' = io_copy_futures \ {c}
        /\ UNCHANGED <<started, ready, wants>>
    BY <1>8 DEF CopyEnds, NothingToRead, WriteFails, Ends, Return, copyVars
  <2>2. None \notin Range(ready)
    BY RangeOfSeq, NoneIsNoCopy DEF QueueTyped
  <2> QED BY <2>1, <2>2, PolledRuns, NoneIsNoCopy DEF QueueTyped, RunningStarted, WaitersApart
<1>9. CASE UNCHANGED vars
  BY <1>9, <1>a DEF vars, taskVars, queueVars, pollVars, copyVars
<1> QED
  BY <1>1, <1>2, <1>3, <1>4, <1>5, <1>6, <1>7, <1>8, <1>9 DEF Next, Poll, PollCopy

LEMMA TaskStep == CopyInv /\ [Next]_vars => TaskTyped'
<1> SUFFICES ASSUME TaskTyped, [Next]_vars PROVE TaskTyped'
  BY DEF CopyInv
<1> USE DEF TaskTyped, taskVars, queueVars, pollVars
<1>a. ASSUME Return, UNCHANGED <<started, registered>> PROVE TaskTyped'
  <2>1. pending_actions' \in Nat
    BY <1>a DEF Return
  <2>2. polling' \in BOOLEAN /\ woken' \in BOOLEAN
    BY <1>a, Zenon DEF Return
  <2> QED BY <1>a, <2>1, <2>2
<1>1. ASSUME NEW s \in Sides, PeerSends(s) \/ PeerEnds(s) \/ PeerLost(s) \/ PeerReads(s)
      PROVE  TaskTyped'
  <2>1. PICK cs \in Seq(Copies) : Wake(cs)
    BY <1>1, SideWakes
  <2>2. registered' \in BOOLEAN /\ woken' \in BOOLEAN
    BY <2>1 DEF Wake
  <2> QED BY <1>1, <2>2 DEF PeerSends, PeerEnds, PeerLost, PeerReads
<1>2. ASSUME NEW p \in Pairs, OnDialSuccess(p) PROVE TaskTyped'
  BY <1>2 DEF OnDialSuccess
<1>3. CASE SwarmEvent \/ BeginPoll \/ PollNext
  BY <1>3 DEF SwarmEvent, BeginPoll, PollNext
<1>4. CASE QueueIsEmpty
  BY <1>4, <1>a DEF QueueIsEmpty
<1>5. ASSUME NEW c \in Copies, CopyEnds(c) \/ WriteFails(c) PROVE TaskTyped'
  BY <1>5, <1>a DEF CopyEnds, WriteFails, Ends
<1>6. ASSUME NEW c \in Copies, ReadSome(c) \/ ReadWaits(c) \/ WriteSome(c) \/ WriteWaits(c)
      PROVE  TaskTyped'
  BY <1>6 DEF ReadSome, ReadWaits, WriteSome, WriteWaits, WaitFor
<1>7. CASE UNCHANGED vars
  BY <1>7 DEF vars
<1> QED BY <1>1, <1>2, <1>3, <1>4, <1>5, <1>6, <1>7 DEF Next, Poll, PollCopy

LEMMA CopyStep == CopyInv /\ [Next]_vars => CopyInv'
BY BytesStep, QueueStep, TaskStep DEF CopyInv

\* Everything the copies keep is well typed, and the queue only ever holds
\* copies that run (FuturesUnordered, relay/behaviour.rs:35).
THEOREM TypeCorrect == Spec => []TypeOK
<1>1. CopyInv => TypeOK
  BY DEF CopyInv, BytesTyped, QueueTyped, TaskTyped, WaitersApart, TypeOK, Bytes
<1> QED BY <1>1, CopyInit, CopyStep, PTL DEF Spec

-----------------------------------------------------------------------------
(* No wake-up is lost. *)

\* A copy stays at rest while nothing it waits for changes.
LEMMA StaysAtRest ==
  ASSUME NEW c \in Copies, wants[c] = "nothing" \/ AtRest(c),
         wants'[c] # "nothing" =>
           /\ wants'[c] = wants[c] /\ buffer'[c] = buffer[c]
           /\ wants[c] = "read" =>
                /\ remaining_buf'[Source(c)] = remaining_buf[Source(c)]
                /\ arrived'[Source(c)] = arrived[Source(c)]
                /\ state'[Source(c)] = state[Source(c)]
           /\ wants[c] = "write" =>
                /\ state[Target(c)] # "lost" => state'[Target(c)] # "lost"
                /\ room'[Target(c)] = room[Target(c)]
  PROVE  wants'[c] = "nothing" \/ AtRest(c)'
<1>1. "read" # "write" /\ "read" # "nothing" /\ "write" # "nothing"
  OBVIOUS
<1> QED BY <1>1 DEF AtRest

LEMMA RestStep == WakeInv /\ [Next]_vars => WaitersAtRest'
<1> SUFFICES ASSUME WakeInv, [Next]_vars,
                    NEW c \in Copies, wants'[c] # "nothing"
             PROVE  AtRest(c)'
  BY DEF WaitersAtRest
<1>a. CopyInv /\ CopyInv' /\ BytesTyped /\ (wants[c] = "nothing" \/ AtRest(c))
  BY CopyStep DEF WakeInv, CopyInv, WaitersAtRest
<1>b. /\ Source(c) \in Sides /\ Target(c) \in Sides
      /\ Reader(Source(c)) = c /\ Writer(Target(c)) = c
  BY SidesOfCopies
<1>c. ASSUME UNCHANGED <<wants, buffer, remaining_buf, arrived, state, room>>
      PROVE  AtRest(c)'
  BY <1>a, <1>c, StaysAtRest
<1>d. wants \in [Copies -> {"nothing", "read", "write"}]
  BY <1>a DEF CopyInv, WaitersApart
<1>1. ASSUME NEW s \in Sides, PeerSends(s) \/ PeerEnds(s) \/ PeerLost(s) \/ PeerReads(s)
      PROVE  AtRest(c)'
  <2>1. PICK cs \in Seq(Copies) :
           /\ Wake(cs)
           /\ IsInjective(cs) /\ \A d \in Range(cs) : wants[d] # "nothing"
           /\ \/ /\ PeerSends(s) \/ PeerEnds(s)
                 /\ \A d \in Copies : d \in Range(cs) <=> d = Reader(s) /\ wants[d] = "read"
              \/ /\ PeerReads(s)
                 /\ \A d \in Copies : d \in Range(cs) <=> d = Writer(s) /\ wants[d] = "write"
              \/ /\ PeerLost(s)
                 /\ \A d \in Copies : d \in Range(cs) <=>
                      \/ d = Reader(s) /\ wants[d] = "read"
                      \/ d = Writer(s) /\ wants[d] = "write"
    BY <1>1, SideWakes
  <2>2. wants'[c] = wants[c] /\ c \notin Range(cs)
    BY <2>1 DEF Wake
  <2>3. buffer' = buffer /\ remaining_buf' = remaining_buf
    BY <1>1 DEF PeerSends, PeerEnds, PeerLost, PeerReads, readVars
  <2>4. \/ (PeerSends(s) \/ PeerEnds(s)) /\ (wants[c] = "read" => Source(c) # s)
        \/ PeerReads(s) /\ (wants[c] = "write" => Target(c) # s)
        \/ PeerLost(s) /\ (wants[c] = "read" => Source(c) # s)
                       /\ (wants[c] = "write" => Target(c) # s)
    BY <1>b, <2>1, <2>2
  <2>5. /\ wants[c] = "read" => /\ arrived'[Source(c)] = arrived[Source(c)]
                                /\ state'[Source(c)] = state[Source(c)]
        /\ wants[c] = "write" => /\ state[Target(c)] # "lost" => state'[Target(c)] # "lost"
                                 /\ room'[Target(c)] = room[Target(c)]
    <3>1. CASE (PeerSends(s) \/ PeerEnds(s)) /\ (wants[c] = "read" => Source(c) # s)
      BY <3>1, <1>a, <1>b DEF BytesTyped, PeerSends, PeerEnds, writeVars
    <3>2. CASE PeerReads(s) /\ (wants[c] = "write" => Target(c) # s)
      BY <3>2, <1>a, <1>b DEF BytesTyped, PeerReads, readVars
    <3>3. CASE PeerLost(s) /\ (wants[c] = "read" => Source(c) # s)
                          /\ (wants[c] = "write" => Target(c) # s)
      BY <3>3, <1>a, <1>b DEF BytesTyped, PeerLost, writeVars
    <3> QED BY <2>4, <3>1, <3>2, <3>3
  <2> QED BY <1>a, <2>2, <2>3, <2>5, StaysAtRest
<1>2. ASSUME NEW p \in Pairs, OnDialSuccess(p) PROVE AtRest(c)'
  <2>1. /\ p \notin started
        /\ UNCHANGED <<wants, buffer, state, room>>
    BY <1>2 DEF OnDialSuccess, copyVars, writeVars
  <2>2. Source(c)[1] # p
    <3>1. c[1] \in started
      BY <1>a, <2>1 DEF CopyInv, WaitersApart, RunningStarted
    <3> QED BY <3>1, <2>1, SidesOfCopies
  <2>3. PICK n \in [Sides -> 0..MaxSent] :
          /\ \A s \in Sides : n[s] <= IF s[1] = p THEN Len(arrived[s]) ELSE 0
          /\ remaining_buf' = [s \in Sides |-> remaining_buf[s] \o First(arrived[s], n[s])]
          /\ arrived' = [s \in Sides |-> Rest(arrived[s], n[s])]
    BY <1>2 DEF OnDialSuccess
  <2>4. n[Source(c)] = 0
    BY <1>b, <2>2, <2>3, BoundsNat
  <2>5. arrived[Source(c)] \in Bytes /\ remaining_buf[Source(c)] \in Bytes
    BY <1>a, <1>b DEF BytesTyped
  <2>6. /\ arrived'[Source(c)] = arrived[Source(c)]
        /\ remaining_buf'[Source(c)] = remaining_buf[Source(c)] \o <<>>
    BY <1>b, <2>3, <2>4, <2>5, WholeBytes
  <2>7. remaining_buf'[Source(c)] = remaining_buf[Source(c)]
    BY <2>5, <2>6, ConcatEmptySeq DEF Bytes
  <2> QED BY <1>a, <2>1, <2>6, <2>7, StaysAtRest
<1>3. CASE BeginPoll \/ SwarmEvent \/ PollNext \/ QueueIsEmpty
  BY <1>3, <1>c DEF BeginPoll, SwarmEvent, PollNext, QueueIsEmpty, copyVars, readVars, writeVars
<1>4. ASSUME NEW d \in Copies, CopyEnds(d) \/ WriteFails(d) PROVE AtRest(c)'
  BY <1>4, <1>c DEF CopyEnds, WriteFails, copyVars, readVars, writeVars
<1>5. ASSUME NEW d \in Copies, ReadSome(d) PROVE AtRest(c)'
  <2>1. /\ current = d /\ UNCHANGED <<wants, state, room>>
        /\ \E b \in Bytes : buffer' = [buffer EXCEPT ![d] = b]
        /\ \E b \in Bytes : remaining_buf' = [remaining_buf EXCEPT ![Source(d)] = b]
        /\ \E b \in Bytes : arrived' = [arrived EXCEPT ![Source(d)] = b]
    <3>1. /\ PollRead(remaining_buf[Source(d)], arrived[Source(d)], MaxSent).bytes \in Bytes
          /\ PollRead(remaining_buf[Source(d)], arrived[Source(d)], MaxSent).remaining_buf \in Bytes
          /\ PollRead(remaining_buf[Source(d)], arrived[Source(d)], MaxSent).arrived \in Bytes
      BY <1>a, SidesOfCopies, ReadTakes DEF BytesTyped
    <3> QED BY <1>5, <3>1 DEF ReadSome, writeVars
  <2>2. c # d
    BY <1>a, <2>1, PolledRuns DEF CopyInv
  <2>3. Source(c) # Source(d)
    BY <2>2, SidesOfCopies
  <2>4. /\ buffer'[c] = buffer[c] /\ remaining_buf'[Source(c)] = remaining_buf[Source(c)]
        /\ arrived'[Source(c)] = arrived[Source(c)]
    BY <1>a, <1>b, <2>1, <2>2, <2>3 DEF BytesTyped
  <2> QED BY <1>a, <2>1, <2>4, StaysAtRest
<1>6. ASSUME NEW d \in Copies, WriteSome(d) PROVE AtRest(c)'
  <2>1. /\ current = d /\ UNCHANGED <<wants, remaining_buf, arrived, state>>
        /\ \E b : buffer' = [buffer EXCEPT ![d] = b]
        /\ \E n : room' = [room EXCEPT ![Target(d)] = n]
    BY <1>6 DEF WriteSome, readVars
  <2>2. c # d
    BY <1>a, <2>1, PolledRuns DEF CopyInv
  <2>3. Target(c) # Target(d)
    BY <2>2, SidesOfCopies
  <2>4. buffer'[c] = buffer[c] /\ room'[Target(c)] = room[Target(c)]
    BY <1>a, <1>b, <2>1, <2>2, <2>3 DEF BytesTyped
  <2> QED BY <1>a, <2>1, <2>4, StaysAtRest
<1>7. ASSUME NEW d \in Copies, ReadWaits(d) \/ WriteWaits(d) PROVE AtRest(c)'
  <2>1. UNCHANGED <<buffer, remaining_buf, arrived, state, room>>
    BY <1>7 DEF ReadWaits, WriteWaits, readVars, writeVars
  <2>2. CASE c # d
    <3>1. wants'[c] = wants[c]
      BY <1>7, <1>d, <2>2 DEF ReadWaits, WriteWaits, WaitFor
    <3> QED BY <1>a, <2>1, <3>1, StaysAtRest
  <2>3. CASE c = d /\ ReadWaits(c)
    BY <1>d, <2>1, <2>3 DEF ReadWaits, NothingToRead, WaitFor, AtRest
  <2>4. CASE c = d /\ WriteWaits(c)
    BY <1>d, <2>1, <2>4 DEF WriteWaits, WaitFor, AtRest
  <2> QED BY <1>7, <2>2, <2>3, <2>4
<1>8. CASE UNCHANGED vars
  BY <1>8, <1>c DEF vars, copyVars, readVars, writeVars
<1> QED BY <1>1, <1>2, <1>3, <1>4, <1>5, <1>6, <1>7, <1>8 DEF Next, Poll, PollCopy

LEMMA AttendedStep == WakeInv /\ [Next]_vars => Attended'
<1> SUFFICES ASSUME WakeInv, [Next]_vars,
                    NEW c \in io_copy_futures', c \notin Range(ready)', c # current'
             PROVE  wants'[c] # "nothing"
  BY DEF Attended
<1>a. /\ CopyInv /\ QueueTyped /\ WaitersApart /\ RunningStarted
      /\ c \in io_copy_futures => c \in Range(ready) \/ c = current \/ wants[c] # "nothing"
  BY DEF WakeInv, CopyInv, Attended
<1>b. ASSUME UNCHANGED <<io_copy_futures, ready, current, wants>>
      PROVE  wants'[c] # "nothing"
  BY <1>a, <1>b
<1>1. ASSUME NEW s \in Sides, PeerSends(s) \/ PeerEnds(s) \/ PeerLost(s) \/ PeerReads(s)
      PROVE  wants'[c] # "nothing"
  <2>1. PICK cs \in Seq(Copies) :
          /\ Wake(cs) /\ IsInjective(cs) /\ \A d \in Range(cs) : wants[d] # "nothing"
    BY <1>1, SideWakes
  <2>2. UNCHANGED <<io_copy_futures, current>>
    BY <1>1 DEF PeerSends, PeerEnds, PeerLost, PeerReads, taskVars, pollVars
  <2>3. /\ Range(ready)' = Range(ready) \cup Range(cs)
        /\ \A d \in Copies : wants'[d] = IF d \in Range(cs) THEN "nothing" ELSE wants[d]
    BY <1>a, <2>1, <2>2, WakeQueues
  <2>4. c \in Copies
    BY <1>a, <2>2 DEF QueueTyped
  <2> QED BY <1>a, <2>2, <2>3, <2>4
<1>2. ASSUME NEW p \in Pairs, OnDialSuccess(p) PROVE wants'[c] # "nothing"
  BY <1>2, <1>a, StartQueues DEF OnDialSuccess, pollVars, copyVars
<1>3. CASE BeginPoll \/ SwarmEvent
  BY <1>3, <1>b DEF BeginPoll, SwarmEvent, taskVars, pollVars, copyVars
<1>4. CASE PollNext
  <2>1. /\ current = None /\ current' = Head(ready) /\ ready' = Tail(ready) /\ ready # <<>>
        /\ UNCHANGED <<io_copy_futures, wants>>
    BY <1>4 DEF PollNext, taskVars, copyVars
  <2>2. Range(ready) = {Head(ready)} \cup Range(Tail(ready))
    BY <1>a, <2>1, TakeOff DEF QueueTyped
  <2>3. c # None
    BY <1>a, <2>1, NoneIsNoCopy DEF QueueTyped
  <2> QED BY <1>a, <2>1, <2>2, <2>3
<1>5. CASE QueueIsEmpty
  BY <1>5, <1>a, NoneIsNoCopy DEF QueueIsEmpty, Return, copyVars, QueueTyped
<1>6. ASSUME NEW d \in Copies, ReadSome(d) \/ WriteSome(d) PROVE wants'[c] # "nothing"
  BY <1>6, <1>b DEF ReadSome, WriteSome, taskVars, queueVars, pollVars
<1>7. ASSUME NEW d \in Copies, ReadWaits(d) \/ WriteWaits(d) PROVE wants'[c] # "nothing"
  <2>1. PICK what \in {"read", "write"} : WaitFor(d, what)
    BY <1>7 DEF ReadWaits, WriteWaits
  <2>2. /\ current = d /\ wants' = [wants EXCEPT ![d] = what]
        /\ UNCHANGED <<io_copy_futures, ready>>
    BY <1>7, <2>1 DEF ReadWaits, NothingToRead, WriteWaits, WaitFor, taskVars, queueVars
  <2>3. wants \in [Copies -> {"nothing", "read", "write"}] /\ c \in Copies
    BY <1>a, <2>2 DEF QueueTyped, WaitersApart
  <2> QED BY <1>a, <2>2, <2>3
<1>8. ASSUME NEW d \in Copies, CopyEnds(d) \/ WriteFails(d) PROVE wants'[c] # "nothing"
  <2>1. /\ current = d /\ io_copy_futures' = io_copy_futures \ {d}
        /\ UNCHANGED <<ready, wants>>
    BY <1>8 DEF CopyEnds, NothingToRead, WriteFails, Ends, copyVars
  <2> QED BY <1>a, <2>1
<1>9. CASE UNCHANGED vars
  BY <1>9, <1>b DEF vars, taskVars, queueVars, pollVars, copyVars
<1> QED BY <1>1, <1>2, <1>3, <1>4, <1>5, <1>6, <1>7, <1>8, <1>9 DEF Next, Poll, PollCopy

LEMMA WakeInit == Init => WakeInv
<1> SUFFICES ASSUME Init PROVE WakeInv
  OBVIOUS
<1>1. WaitersAtRest /\ Attended
  BY DEF Init, WaitersAtRest, Attended
<1> QED BY <1>1, CopyInit DEF WakeInv

LEMMA WakeStep == WakeInv /\ [Next]_vars => WakeInv'
BY CopyStep, RestStep, AttendedStep DEF WakeInv

\* A copy of a relayed connection that can read, write or end is in the queue
\* the behaviour polls (relay/behaviour.rs:317), or is being polled: whatever
\* happens at the two substreams, in whatever order, no wake-up is lost.
THEOREM NoWakeUpIsLost == Spec => []QueuedIfItCanMove
<1>1. WakeInv => QueuedIfItCanMove
  <2> SUFFICES ASSUME WakeInv, NEW c \in Copies, CanMove(c),
                      c \notin Range(ready), c # current
               PROVE  FALSE
    BY DEF QueuedIfItCanMove
  <2>1. wants[c] # "nothing" /\ AtRest(c)
    BY DEF WakeInv, WaitersAtRest, Attended, CanMove
  <2> QED BY <2>1 DEF AtRest, CanMove
<1> QED BY <1>1, WakeInit, WakeStep, PTL DEF Spec

-----------------------------------------------------------------------------
(* A direction of a pair is a pipe. *)

\* Concatenation, under a name that the provers do not expand.
Then(a, b) == a \o b

\* What the sender of a direction has sent: what was received, what the copy
\* holds, what the codec left over and what has arrived.
Whole(a, b, r, v) == Then(Then(Then(a, b), r), v)

LEMMA ThenBytes ==
  ASSUME NEW a \in Bytes, NEW b \in Bytes
  PROVE  /\ Then(a, b) \in Bytes
         /\ Len(a) \in Nat /\ Len(Then(a, b)) = Len(a) + Len(b)
<1> DEFINE S == 1..MaxSent
<1>1. a \in Seq(S) /\ b \in Seq(S)
  BY DEF Bytes
<1> HIDE DEF S
<1>2. a \o b \in Seq(S) /\ Len(a) \in Nat /\ Len(a \o b) = Len(a) + Len(b)
  BY <1>1
<1> QED BY <1>2 DEF S, Bytes, Then

LEMMA ThenRegroups ==
  ASSUME NEW a \in Bytes, NEW b \in Bytes, NEW c \in Bytes
  PROVE  Then(Then(a, b), c) = Then(a, Then(b, c))
<1> DEFINE S == 1..MaxSent
<1>1. a \in Seq(S) /\ b \in Seq(S) /\ c \in Seq(S)
  BY DEF Bytes
<1> HIDE DEF S
<1>2. (a \o b) \o c = a \o (b \o c)
  BY <1>1, ConcatAssociative
<1> QED BY <1>2 DEF Then

LEMMA ThenNothing ==
  ASSUME NEW b \in Bytes
  PROVE  <<>> \in Bytes /\ Then(b, <<>>) = b /\ Then(<<>>, b) = b
<1>1. b \o <<>> = b /\ <<>> \o b = b
  BY ConcatEmptySeq DEF Bytes
<1>2. <<>> \in Bytes
  BY DEF Bytes
<1> QED BY <1>1, <1>2 DEF Then

LEMMA ThenOne ==
  ASSUME NEW b \in Bytes, NEW x \in 1..MaxSent
  PROVE  <<x>> \in Bytes /\ Append(b, x) = Then(b, <<x>>)
<1>1. <<x>> \in Bytes
  BY DEF Bytes
<1>2. Append(b, x) = b \o <<x>>
  BY AppendIsConcat DEF Bytes
<1> QED BY <1>1, <1>2 DEF Then

LEMMA ThenStarts ==
  ASSUME NEW a \in Bytes, NEW b \in Bytes
  PROVE  First(Then(a, b), Len(a)) = a
<1> DEFINE S == 1..MaxSent
<1>1. a \in Seq(S) /\ b \in Seq(S)
  BY DEF Bytes
<1> HIDE DEF S
<1>2. \A i \in 1..Len(a) : (a \o b)[i] = a[i] /\ a[i] \in S
  BY <1>1
<1>3. SubSeq(a \o b, 1, Len(a)) \in Seq(S) /\ Len(SubSeq(a \o b, 1, Len(a))) = Len(a)
  BY <1>1, <1>2
<1>4. \A i \in 1..Len(a) : SubSeq(a \o b, 1, Len(a))[i] = a[i]
  BY <1>1, <1>2, <1>3
<1>5. SubSeq(a \o b, 1, Len(a)) = a
  BY <1>1, <1>3, <1>4, SeqEqual
<1> QED BY <1>5 DEF First, Then

LEMMA WholeTyped ==
  ASSUME NEW a \in Bytes, NEW b \in Bytes, NEW r \in Bytes, NEW v \in Bytes
  PROVE  Whole(a, b, r, v) \in Bytes
<1>1. Then(a, b) \in Bytes
  BY ThenBytes
<1>2. Then(Then(a, b), r) \in Bytes
  BY <1>1, ThenBytes
<1> QED BY <1>2, ThenBytes DEF Whole

\* A byte that arrives comes last.
LEMMA WholeGrows ==
  ASSUME NEW a \in Bytes, NEW b \in Bytes, NEW r \in Bytes, NEW v \in Bytes, NEW e \in Bytes
  PROVE  /\ Len(Whole(a, b, r, v)) = Len(a) + Len(b) + Len(r) + Len(v)
         /\ Whole(a, b, r, Then(v, e)) = Then(Whole(a, b, r, v), e)
<1>1. Then(a, b) \in Bytes /\ Len(Then(a, b)) = Len(a) + Len(b)
  BY ThenBytes
<1>2. PICK h \in Bytes : h = Then(Then(a, b), r)
  BY <1>1, ThenBytes
<1>3. Len(h) = Len(a) + Len(b) + Len(r)
  BY <1>1, <1>2, ThenBytes
<1>4. Len(Then(h, v)) = Len(h) + Len(v)
  BY ThenBytes
<1>5. Then(h, Then(v, e)) = Then(Then(h, v), e)
  BY ThenRegroups
<1> QED BY <1>2, <1>3, <1>4, <1>5 DEF Whole

\* The codec may hold a part of what has arrived.
LEMMA WholeHeld ==
  ASSUME NEW a \in Bytes, NEW b \in Bytes, NEW r \in Bytes,
         NEW f \in Bytes, NEW g \in Bytes
  PROVE  Whole(a, b, Then(r, f), g) = Whole(a, b, r, Then(f, g))
<1>1. PICK h \in Bytes : h = Then(a, b)
  BY ThenBytes
<1>2. Then(h, Then(r, f)) = Then(Then(h, r), f) /\ Then(h, r) \in Bytes
  BY ThenBytes, ThenRegroups
<1>3. Then(Then(Then(h, r), f), g) = Then(Then(h, r), Then(f, g))
  BY <1>2, ThenRegroups
<1> QED BY <1>1, <1>2, <1>3 DEF Whole

\* A copy that has nothing takes the next bytes.
LEMMA WholeRead ==
  ASSUME NEW a \in Bytes, NEW r \in Bytes, NEW v \in Bytes,
         NEW x \in Bytes, NEW q \in Bytes, NEW w \in Bytes,
         \/ Then(x, q) = r /\ w = v
         \/ r = <<>> /\ q = <<>> /\ Then(x, w) = v
  PROVE  Whole(a, x, q, w) = Whole(a, <<>>, r, v)
<1>1. /\ Then(Then(a, x), q) = Then(a, Then(x, q))
      /\ Then(Then(a, x), w) = Then(a, Then(x, w))
      /\ Then(a, x) \in Bytes
  BY ThenBytes, ThenRegroups
<1>2. Then(a, <<>>) = a /\ Then(Then(a, x), <<>>) = Then(a, x)
  BY <1>1, ThenNothing
<1> QED BY <1>1, <1>2 DEF Whole

\* What a copy writes are the next bytes that were sent.
LEMMA WholeWritten ==
  ASSUME NEW a \in Bytes, NEW f \in Bytes, NEW g \in Bytes, NEW r \in Bytes, NEW v \in Bytes
  PROVE  /\ Whole(Then(a, f), g, r, v) = Whole(a, Then(f, g), r, v)
         /\ Len(f) <= Len(Whole(a, Then(f, g), r, v)) - Len(a)
         /\ First(Whole(a, Then(f, g), r, v), Len(a) + Len(f)) = Then(a, f)
<1>1. PICK h \in Bytes : h = Then(a, f)
  BY ThenBytes
<1>2. Then(a, Then(f, g)) = Then(h, g)
  BY <1>1, ThenRegroups
<1>3. PICK t \in Bytes : t = Then(Then(g, r), v)
  <2>1. Then(g, r) \in Bytes
    BY ThenBytes
  <2> QED BY <2>1, ThenBytes
<1>4. Then(Then(Then(h, g), r), v) = Then(h, t)
  <2>1. Then(Then(h, g), r) = Then(h, Then(g, r)) /\ Then(g, r) \in Bytes
    BY ThenBytes, ThenRegroups
  <2> QED BY <1>3, <2>1, ThenRegroups
<1>5. Len(h) = Len(a) + Len(f) /\ Len(Then(h, t)) = Len(h) + Len(t)
  BY <1>1, ThenBytes
<1>6. Len(a) \in Nat /\ Len(f) \in Nat /\ Len(t) \in Nat
  BY ThenBytes
<1>7. First(Then(h, t), Len(h)) = h
  BY ThenStarts
<1>8. Len(f) <= Len(Then(h, t)) - Len(a)
  BY <1>5, <1>6
<1> QED BY <1>1, <1>2, <1>4, <1>5, <1>7, <1>8 DEF Whole

\* The pipe of each direction, as RelayCopy maps it.
In    == [c \in Copies |-> Whole(received[Target(c)], buffer[c],
                                 remaining_buf[Source(c)], arrived[Source(c)])]
Peer  == [c \in Copies |-> state[Source(c)]]
Out   == [c \in Copies |-> received[Target(c)]]
Ended == [c \in Copies |-> closed[Target(c)]]

pipeVars == <<In, Peer, Out, Ended>>

PipeInv == CopyInv /\ ClosedDone

\* What the peer sends goes in last.
LEMMA SendStep ==
  ASSUME CopyInv, NEW s \in Sides, PeerSends(s)
  PROVE  APipe!Send(Reader(s))
<1> DEFINE c == Reader(s)
<1>1. /\ c \in Copies /\ Source(c) = s /\ Target(c) \in Sides
      /\ \A d \in Copies : d # c => Source(d) \in Sides /\ Source(d) # s
  BY SidesOfCopies
<1> HIDE DEF c
<1>2. /\ state[s] = "open" /\ Sent(s) < MaxSent
      /\ arrived' = [arrived EXCEPT ![s] = Append(@, Sent(s) + 1)]
      /\ UNCHANGED <<buffer, remaining_buf, state, received, closed>>
  BY DEF PeerSends, writeVars
<1>3. arrived \in [Sides -> Bytes]
  BY DEF CopyInv, BytesTyped
<1>4. PICK a \in Bytes, b \in Bytes, r \in Bytes, v \in Bytes :
        /\ a = received[Target(c)] /\ b = buffer[c]
        /\ r = remaining_buf[s] /\ v = arrived[s]
  BY <1>1 DEF CopyInv, BytesTyped
<1>5. PICK x : x = Sent(s) + 1
  OBVIOUS
<1>6. /\ In'[c] = Append(In[c], Len(In[c]) + 1)
      /\ \A d \in Copies : d # c => In'[d] = In[d]
  <2>1. Sent(s) = Len(a) + Len(b) + Len(r) + Len(v)
    BY <1>4 DEF Sent, c
  <2>2. Len(a) \in Nat /\ Len(b) \in Nat /\ Len(r) \in Nat /\ Len(v) \in Nat
    BY ThenBytes
  <2>3. x \in 1..MaxSent /\ x = Len(a) + Len(b) + Len(r) + Len(v) + 1
    BY <1>2, <1>5, <2>1, <2>2, BoundsNat
  <2>4. /\ Len(Whole(a, b, r, v)) + 1 = x
        /\ Whole(a, b, r, Append(v, x)) = Append(Whole(a, b, r, v), x)
    <3>1. PICK e \in Bytes : e = <<x>>
      BY <2>3, ThenOne
    <3>2. PICK W \in Bytes : W = Whole(a, b, r, v)
      BY WholeTyped
    <3>3. /\ Len(Whole(a, b, r, v)) = Len(a) + Len(b) + Len(r) + Len(v)
          /\ Whole(a, b, r, Then(v, e)) = Then(Whole(a, b, r, v), e)
      BY WholeGrows
    <3>4. Append(v, x) = Then(v, e) /\ Append(W, x) = Then(W, e)
      BY <2>3, <3>1, ThenOne
    <3> QED BY <2>3, <3>2, <3>3, <3>4
  <2>5. In[c] = Whole(a, b, r, v)
    BY <1>1, <1>4 DEF In
  <2>6. In'[c] = Whole(a, b, r, Append(v, x))
    BY <1>1, <1>2, <1>3, <1>4, <1>5 DEF In
  <2>7. \A d \in Copies : d # c => In'[d] = In[d]
    BY <1>1, <1>2, <1>3 DEF In
  <2> QED BY <2>4, <2>5, <2>6, <2>7
<1>9. In' = [In EXCEPT ![c] = Append(@, Len(@) + 1)]
  BY <1>1, <1>6 DEF In
<1>7. UNCHANGED <<Peer, Out, Ended>> /\ Peer[c] = "open"
  BY <1>1, <1>2 DEF Peer, Out, Ended
<1>8. APipe!Send(c)
  BY <1>9, <1>7 DEF APipe!Send, In, Peer, Out, Ended, Whole, Then
<1> QED BY <1>8 DEF c

\* The end of a side, and its loss, are those of the direction it sends in.
LEMMA PeerStep ==
  ASSUME CopyInv, NEW s \in Sides, PeerEnds(s) \/ PeerLost(s)
  PROVE  APipe!SenderEnds(Reader(s)) \/ APipe!Breaks(Reader(s))
<1> DEFINE c == Reader(s)
<1>1. /\ c \in Copies /\ Source(c) = s
      /\ \A d \in Copies : d # c => Source(d) \in Sides /\ Source(d) # s
  BY SidesOfCopies
<1> HIDE DEF c
<1>2. state \in [Sides -> {"open", "eof", "lost"}]
  BY DEF CopyInv, BytesTyped
<1>3. UNCHANGED <<In, Out, Ended>>
  BY DEF PeerEnds, PeerLost, writeVars, In, Out, Ended
<1>4. CASE PeerEnds(s)
  <2>1. Peer[c] = "open" /\ Peer' = [Peer EXCEPT ![c] = "eof"]
    BY <1>1, <1>2, <1>4 DEF PeerEnds, Peer
  <2>2. APipe!SenderEnds(c)
    BY <1>3, <2>1 DEF APipe!SenderEnds, In, Peer, Out, Ended, Whole, Then
  <2> QED BY <2>2 DEF c
<1>5. CASE PeerLost(s)
  <2>1. Peer' = [Peer EXCEPT ![c] = "lost"]
    BY <1>1, <1>2, <1>5 DEF PeerLost, Peer
  <2>2. APipe!Breaks(c)
    BY <1>3, <2>1 DEF APipe!Breaks, In, Peer, Out, Ended, Whole, Then
  <2> QED BY <2>2 DEF c
<1> QED BY <1>4, <1>5

\* Joining a pair changes nothing of what was sent.
LEMMA StartStep ==
  ASSUME CopyInv, NEW p \in Pairs, OnDialSuccess(p)
  PROVE  UNCHANGED pipeVars
<1>1. PICK n \in [Sides -> 0..MaxSent] :
        /\ \A s \in Sides : n[s] <= IF s[1] = p THEN Len(arrived[s]) ELSE 0
        /\ remaining_buf' = [s \in Sides |-> remaining_buf[s] \o First(arrived[s], n[s])]
        /\ arrived' = [s \in Sides |-> Rest(arrived[s], n[s])]
        /\ UNCHANGED <<buffer, state, received, closed>>
  BY DEF OnDialSuccess, copyVars, writeVars
<1>2. ASSUME NEW c \in Copies
      PROVE  Whole(received[Target(c)], buffer[c], remaining_buf'[Source(c)], arrived'[Source(c)])
               = Whole(received[Target(c)], buffer[c], remaining_buf[Source(c)], arrived[Source(c)])
  <2> DEFINE s == Source(c)
  <2>1. s \in Sides /\ Target(c) \in Sides
    BY SidesOfCopies
  <2> HIDE DEF s
  <2>2. /\ received[Target(c)] \in Bytes /\ buffer[c] \in Bytes
        /\ remaining_buf[s] \in Bytes /\ arrived[s] \in Bytes
    BY <2>1 DEF CopyInv, BytesTyped
  <2>3. n[s] \in 0..Len(arrived[s])
    BY <1>1, <2>1, <2>2, ThenBytes, BoundsNat
  <2>4. /\ First(arrived[s], n[s]) \in Bytes /\ Rest(arrived[s], n[s]) \in Bytes
        /\ Then(First(arrived[s], n[s]), Rest(arrived[s], n[s])) = arrived[s]
    BY <2>2, <2>3, SplitBytes DEF Then
  <2>5. /\ remaining_buf'[s] = Then(remaining_buf[s], First(arrived[s], n[s]))
        /\ arrived'[s] = Rest(arrived[s], n[s])
    BY <1>1, <2>1 DEF Then
  <2>6. Whole(received[Target(c)], buffer[c], remaining_buf'[s], arrived'[s])
          = Whole(received[Target(c)], buffer[c], remaining_buf[s], arrived[s])
    BY <2>2, <2>4, <2>5, WholeHeld
  <2> QED BY <2>6 DEF s
<1> QED BY <1>1, <1>2 DEF pipeVars, In, Peer, Out, Ended

\* A read moves bytes from the substream to the copy.
LEMMA ReadStep ==
  ASSUME CopyInv, NEW c \in Copies, ReadSome(c)
  PROVE  UNCHANGED pipeVars
<1> DEFINE s == Source(c)
           r == PollRead(remaining_buf[s], arrived[s], MaxSent)
<1>1. /\ s \in Sides /\ Target(c) \in Sides
      /\ \A d \in Copies : d # c => Source(d) \in Sides /\ Source(d) # s
  BY SidesOfCopies
<1>2. /\ buffer[c] = <<>>
      /\ buffer' = [buffer EXCEPT ![c] = r.bytes]
      /\ remaining_buf' = [remaining_buf EXCEPT ![s] = r.remaining_buf]
      /\ arrived' = [arrived EXCEPT ![s] = r.arrived]
      /\ UNCHANGED <<state, received, closed>>
  BY DEF ReadSome, writeVars
<1>3. /\ received[Target(c)] \in Bytes
      /\ remaining_buf[s] \in Bytes /\ arrived[s] \in Bytes
      /\ buffer \in [Copies -> Bytes] /\ remaining_buf \in [Sides -> Bytes]
      /\ arrived \in [Sides -> Bytes]
  BY <1>1 DEF CopyInv, BytesTyped
<1>4. /\ r.bytes \in Bytes /\ r.remaining_buf \in Bytes /\ r.arrived \in Bytes
      /\ \/ Then(r.bytes, r.remaining_buf) = remaining_buf[s] /\ r.arrived = arrived[s]
         \/ /\ remaining_buf[s] = <<>> /\ r.remaining_buf = <<>>
            /\ Then(r.bytes, r.arrived) = arrived[s]
  BY <1>3, ReadTakes DEF Then
<1> HIDE DEF s, r
<1>5. Whole(received[Target(c)], r.bytes, r.remaining_buf, r.arrived)
        = Whole(received[Target(c)], <<>>, remaining_buf[s], arrived[s])
  <2>1. PICK a \in Bytes, b \in Bytes, v \in Bytes :
          a = received[Target(c)] /\ b = remaining_buf[s] /\ v = arrived[s]
    BY <1>3
  <2>2. PICK x \in Bytes, q \in Bytes, w \in Bytes :
          x = r.bytes /\ q = r.remaining_buf /\ w = r.arrived
    BY <1>4
  <2>3. \/ Then(x, q) = b /\ w = v
        \/ b = <<>> /\ q = <<>> /\ Then(x, w) = v
    BY <1>4, <2>1, <2>2
  <2>4. Whole(a, x, q, w) = Whole(a, <<>>, b, v)
    BY <2>3, WholeRead
  <2> QED BY <2>1, <2>2, <2>4
<1>6. In' = In
  <2>1. /\ buffer'[c] = r.bytes /\ remaining_buf'[s] = r.remaining_buf /\ arrived'[s] = r.arrived
    BY <1>1, <1>2, <1>3
  <2>2. \A d \in Copies : d # c =>
          /\ buffer'[d] = buffer[d] /\ remaining_buf'[Source(d)] = remaining_buf[Source(d)]
          /\ arrived'[Source(d)] = arrived[Source(d)]
    BY <1>1, <1>2, <1>3
  <2>3. s = Source(c)
    BY DEF s
  <2> QED BY <1>2, <1>5, <2>1, <2>2, <2>3 DEF In
<1> QED BY <1>2, <1>6 DEF pipeVars, Peer, Out, Ended

\* What a copy writes is delivered.
LEMMA WriteStep ==
  ASSUME PipeInv, NEW c \in Copies, WriteSome(c)
  PROVE  APipe!Deliver(c)
<1> DEFINE t == Target(c)
           s == Source(c)
<1>1. /\ t \in Sides /\ s \in Sides
      /\ \A d \in Copies : d # c => Target(d) \in Sides /\ Target(d) # t
  BY SidesOfCopies
<1>2. PICK n \in 1..Len(buffer[c]) :
        /\ received' = [received EXCEPT ![t] = @ \o First(buffer[c], n)]
        /\ buffer' = [buffer EXCEPT ![c] = Rest(@, n)]
        /\ current = c
        /\ UNCHANGED <<remaining_buf, arrived, state, closed>>
  BY DEF WriteSome, readVars
<1>3. ~ closed[t]
  BY <1>2, PolledRuns DEF PipeInv, ClosedDone, CopyInv
<1>4. /\ buffer \in [Copies -> Bytes] /\ received \in [Sides -> Bytes]
      /\ buffer[c] \in Bytes /\ received[t] \in Bytes
  BY <1>1 DEF PipeInv, CopyInv, BytesTyped
<1>5. PICK a \in Bytes, r \in Bytes, v \in Bytes :
        a = received[t] /\ r = remaining_buf[s] /\ v = arrived[s]
  BY <1>1 DEF PipeInv, CopyInv, BytesTyped
<1>6. PICK f \in Bytes, g \in Bytes :
        /\ f = First(buffer[c], n) /\ g = Rest(buffer[c], n)
        /\ Len(f) = n /\ Then(f, g) = buffer[c]
  BY <1>4, SplitBytes, ThenBytes DEF Then
<1>7. /\ t = Target(c) /\ s = Source(c)
      /\ received' = [received EXCEPT ![t] = Then(@, f)] /\ buffer' = [buffer EXCEPT ![c] = g]
  BY <1>2, <1>6 DEF Then
<1> HIDE DEF t, s
<1>8. /\ Whole(Then(a, f), g, r, v) = In[c]
      /\ n <= Len(In[c]) - Len(a)
      /\ First(In[c], Len(a) + n) = Then(a, f)
  <2>1. In[c] = Whole(a, Then(f, g), r, v)
    BY <1>5, <1>6, <1>7 DEF In
  <2>2. /\ Whole(Then(a, f), g, r, v) = Whole(a, Then(f, g), r, v)
        /\ Len(f) <= Len(Whole(a, Then(f, g), r, v)) - Len(a)
        /\ First(Whole(a, Then(f, g), r, v), Len(a) + Len(f)) = Then(a, f)
    BY WholeWritten
  <2> QED BY <1>6, <2>1, <2>2
<1>9. In' = In
  <2>1. buffer'[c] = g /\ received'[t] = Then(a, f)
    BY <1>1, <1>4, <1>5, <1>7
  <2>2. \A d \in Copies : d # c =>
          buffer'[d] = buffer[d] /\ received'[Target(d)] = received[Target(d)]
    BY <1>1, <1>4, <1>7
  <2>3. remaining_buf'[s] = r /\ arrived'[s] = v
    BY <1>2, <1>5
  <2>4. In'[c] = Whole(Then(a, f), g, r, v)
    BY <1>7, <2>1, <2>3 DEF In
  <2>5. \A d \in Copies : d # c => In'[d] = In[d]
    BY <1>2, <2>2 DEF In
  <2>6. \A d \in Copies : In'[d] = In[d]
    BY <1>8, <2>4, <2>5
  <2> QED BY <2>6 DEF In
<1>10. /\ Out[c] = a /\ ~ Ended[c]
       /\ Out' = [Out EXCEPT ![c] = SubSeq(In[c], 1, Len(@) + n)]
  <2>1. Out[c] = a /\ Ended[c] = closed[t]
    BY <1>5, <1>7 DEF Out, Ended
  <2>2. Out' = [Out EXCEPT ![c] = Then(a, f)]
    BY <1>1, <1>4, <1>5, <1>7 DEF Out
  <2> QED BY <1>3, <1>8, <2>1, <2>2 DEF First
<1>11. n \in 1..Len(In[c]) - Len(Out[c])
  <2>1. n >= 1 /\ n \in Nat
    BY <1>4, ThenBytes
  <2>2. Len(a) \in Nat /\ Len(In[c]) \in Nat
    <3>1. Len(a) \in Nat
      BY ThenBytes
    <3>2. In[c] \in Bytes
      <4>1. Then(a, f) \in Bytes
        BY ThenBytes
      <4>2. Whole(Then(a, f), g, r, v) \in Bytes
        BY <4>1, WholeTyped
      <4> QED BY <1>8, <4>2
    <3> QED BY <3>1, <3>2, ThenBytes
  <2> QED BY <1>8, <1>10, <2>1, <2>2
<1>12. UNCHANGED <<Peer, Ended>>
  BY <1>2 DEF Peer, Ended
<1> QED
  BY <1>9, <1>10, <1>11, <1>12 DEF APipe!Deliver, In, Peer, Out, Ended, Whole, Then

\* A copy that closes its target has passed on all that its source sent.
LEMMA EndStep ==
  ASSUME CopyInv, NEW c \in Copies, CopyEnds(c)
  PROVE  APipe!End(c) \/ UNCHANGED pipeVars
<1>1. /\ Target(c) \in Sides /\ Source(c) \in Sides
      /\ \A d \in Copies : d # c => Target(d) \in Sides /\ Target(d) # Target(c)
  BY SidesOfCopies
<1>2. /\ buffer[c] = <<>> /\ remaining_buf[Source(c)] = <<>> /\ arrived[Source(c)] = <<>>
      /\ UNCHANGED <<buffer, remaining_buf, arrived, state, received>>
      /\ closed' = IF Closes(c) THEN [closed EXCEPT ![Target(c)] = TRUE] ELSE closed
  BY DEF CopyEnds, NothingToRead, copyVars, readVars
<1>3. UNCHANGED <<In, Peer, Out>>
  BY <1>2 DEF In, Peer, Out
<1>4. received[Target(c)] \in Bytes /\ closed \in [Sides -> BOOLEAN]
  BY <1>1 DEF CopyInv, BytesTyped
<1>5. In[c] = Out[c]
  <2>1. Whole(received[Target(c)], <<>>, <<>>, <<>>) = received[Target(c)]
    BY <1>4, ThenNothing DEF Whole
  <2> QED BY <1>2, <2>1 DEF In, Out
<1>6. CASE Closes(c)
  <2>1. Peer[c] = "eof"
    BY <1>6 DEF Closes, Peer
  <2>2. Ended' = [Ended EXCEPT ![c] = TRUE]
    BY <1>1, <1>2, <1>4, <1>6 DEF Ended
  <2>3. APipe!End(c)
    BY <1>3, <1>5, <2>1, <2>2 DEF APipe!End, In, Peer, Out, Ended, Whole, Then
  <2> QED BY <2>3
<1>7. CASE ~ Closes(c)
  BY <1>2, <1>3, <1>7 DEF pipeVars, Ended
<1> QED BY <1>6, <1>7

LEMMA PipeInvInit == Init => PipeInv
<1> SUFFICES ASSUME Init PROVE PipeInv
  OBVIOUS
<1>1. \A c \in Copies : ~ closed[Target(c)]
  BY SidesOfCopies DEF Init
<1> QED BY <1>1, CopyInit DEF PipeInv, ClosedDone

LEMMA ClosedStep == PipeInv /\ [Next]_vars => ClosedDone'
<1> SUFFICES ASSUME PipeInv, [Next]_vars,
                    NEW d \in Copies, closed'[Target(d)]
             PROVE  d[1] \in started' /\ d \notin io_copy_futures'
  BY DEF ClosedDone
<1>a. /\ CopyInv /\ QueueTyped /\ WaitersApart /\ RunningStarted
      /\ closed[Target(d)] => d[1] \in started /\ d \notin io_copy_futures
  BY DEF PipeInv, CopyInv, ClosedDone
<1>b. ASSUME UNCHANGED <<started, io_copy_futures, closed>>
      PROVE  d[1] \in started' /\ d \notin io_copy_futures'
  BY <1>a, <1>b
<1>1. ASSUME NEW s \in Sides, PeerSends(s) \/ PeerEnds(s) \/ PeerLost(s) \/ PeerReads(s)
      PROVE  d[1] \in started' /\ d \notin io_copy_futures'
  BY <1>1, <1>b DEF PeerSends, PeerEnds, PeerLost, PeerReads, taskVars, writeVars
<1>2. ASSUME NEW p \in Pairs, OnDialSuccess(p)
      PROVE  d[1] \in started' /\ d \notin io_copy_futures'
  <2>1. /\ p \notin started /\ started' = started \cup {p} /\ closed' = closed
        /\ io_copy_futures' = io_copy_futures \cup CopiesOf(p)
    BY <1>2 DEF OnDialSuccess, writeVars
  <2>2. \A c \in CopiesOf(p) : c[1] = p
    BY DEF CopiesOf
  <2> QED BY <1>a, <2>1, <2>2
<1>3. CASE BeginPoll \/ SwarmEvent \/ PollNext \/ QueueIsEmpty
  BY <1>3, <1>b DEF BeginPoll, SwarmEvent, PollNext, QueueIsEmpty, taskVars, writeVars
<1>4. ASSUME NEW c \in Copies, CopyEnds(c)
      PROVE  d[1] \in started' /\ d \notin io_copy_futures'
  <2>1. /\ current = c /\ started' = started
        /\ io_copy_futures' = io_copy_futures \ {c}
        /\ closed' = IF Closes(c) THEN [closed EXCEPT ![Target(c)] = TRUE] ELSE closed
    BY <1>4 DEF CopyEnds, NothingToRead, Ends
  <2>2. c[1] \in started
    BY <1>a, <2>1, PolledRuns DEF RunningStarted
  <2>3. CASE c = d
    BY <2>1, <2>2, <2>3
  <2>4. CASE c # d
    <3>1. Target(c) # Target(d)
      BY <2>4, SidesOfCopies
    <3>2. closed[Target(d)]
      BY <2>1, <3>1
    <3> QED BY <1>a, <2>1, <3>2
  <2> QED BY <2>3, <2>4
<1>5. ASSUME NEW c \in Copies, WriteFails(c)
      PROVE  d[1] \in started' /\ d \notin io_copy_futures'
  BY <1>5, <1>a DEF WriteFails, Ends, writeVars
<1>6. ASSUME NEW c \in Copies, ReadSome(c) \/ ReadWaits(c) \/ WriteSome(c) \/ WriteWaits(c)
      PROVE  d[1] \in started' /\ d \notin io_copy_futures'
  BY <1>6, <1>b DEF ReadSome, ReadWaits, WriteSome, WriteWaits, taskVars, writeVars
<1>7. CASE UNCHANGED vars
  BY <1>7, <1>b DEF vars, taskVars, writeVars
<1> QED BY <1>1, <1>2, <1>3, <1>4, <1>5, <1>6, <1>7 DEF Next, Poll, PollCopy

LEMMA PipeInvStep == PipeInv /\ [Next]_vars => PipeInv'
BY CopyStep, ClosedStep DEF PipeInv

LEMMA PipeInit == Init => APipe!Init
<1> SUFFICES ASSUME Init PROVE APipe!Init
  OBVIOUS
<1>1. ASSUME NEW c \in Copies
      PROVE  In[c] = <<>> /\ Peer[c] = "open" /\ Out[c] = <<>> /\ Ended[c] = FALSE
  <2>1. Source(c) \in Sides /\ Target(c) \in Sides
    BY SidesOfCopies
  <2>2. Whole(<<>>, <<>>, <<>>, <<>>) = <<>>
    <3>1. <<>> \in Bytes
      BY DEF Bytes
    <3>2. Then(<<>>, <<>>) = <<>>
      BY <3>1, ThenNothing
    <3> QED BY <3>2 DEF Whole
  <2> QED BY <2>1, <2>2 DEF Init, In, Peer, Out, Ended
<1>2. /\ In = [c \in Copies |-> <<>>] /\ Peer = [c \in Copies |-> "open"]
      /\ Out = [c \in Copies |-> <<>>] /\ Ended = [c \in Copies |-> FALSE]
  BY <1>1 DEF In, Peer, Out, Ended
<1> QED BY <1>2 DEF APipe!Init, In, Peer, Out, Ended, Whole, Then

LEMMA PipeStep == PipeInv /\ [Next]_vars => [APipe!Next]_APipe!vars
<1> SUFFICES ASSUME PipeInv, [Next]_vars PROVE [APipe!Next]_APipe!vars
  OBVIOUS
<1>a. CopyInv
  BY DEF PipeInv
<1>b. UNCHANGED pipeVars => [APipe!Next]_APipe!vars
  BY DEF pipeVars, APipe!vars, In, Peer, Out, Ended, Whole, Then
<1>c. UNCHANGED <<buffer, remaining_buf, arrived, state, received, closed>> => UNCHANGED pipeVars
  BY DEF pipeVars, In, Peer, Out, Ended
<1>1. ASSUME NEW s \in Sides, PeerSends(s) PROVE APipe!Next
  BY <1>1, <1>a, SendStep, SidesOfCopies DEF APipe!Next
<1>2. ASSUME NEW s \in Sides, PeerEnds(s) \/ PeerLost(s) PROVE APipe!Next
  BY <1>2, <1>a, PeerStep, SidesOfCopies DEF APipe!Next
<1>3. ASSUME NEW s \in Sides, PeerReads(s) PROVE UNCHANGED pipeVars
  BY <1>3, <1>c DEF PeerReads, readVars
<1>4. ASSUME NEW p \in Pairs, OnDialSuccess(p) PROVE UNCHANGED pipeVars
  BY <1>4, <1>a, StartStep
<1>5. CASE BeginPoll \/ SwarmEvent \/ PollNext \/ QueueIsEmpty
  BY <1>5, <1>b, <1>c
     DEF BeginPoll, SwarmEvent, PollNext, QueueIsEmpty, copyVars, readVars, writeVars
<1>6. ASSUME NEW c \in Copies, ReadSome(c) PROVE UNCHANGED pipeVars
  BY <1>6, <1>a, ReadStep
<1>7. ASSUME NEW c \in Copies, WriteSome(c) PROVE APipe!Next
  BY <1>7, WriteStep DEF APipe!Next
<1>8. ASSUME NEW c \in Copies, CopyEnds(c) PROVE APipe!Next \/ UNCHANGED pipeVars
  BY <1>8, <1>a, EndStep DEF APipe!Next
<1>9. ASSUME NEW c \in Copies, ReadWaits(c) \/ WriteWaits(c) \/ WriteFails(c)
      PROVE  UNCHANGED pipeVars
  BY <1>9, <1>c DEF ReadWaits, WriteWaits, WriteFails, copyVars, readVars, writeVars
<1>10. CASE UNCHANGED vars
  BY <1>10, <1>b, <1>c DEF vars, copyVars, readVars, writeVars
<1> QED
  BY <1>b, <1>1, <1>2, <1>3, <1>4, <1>5, <1>6, <1>7, <1>8, <1>9, <1>10
     DEF Next, Poll, PollCopy

\* Each direction of a relayed connection is a pipe (copy, relay/behaviour.rs,
\* over the reads of connection.rs): what comes out is what went in, in order,
\* and the end comes only after all of it, however the codec split the bytes and
\* whichever side breaks.
THEOREM CopiesArePipes == Spec => ImplementsPipe
<1>1. Init => PipeInv /\ APipe!Init
  BY PipeInvInit, PipeInit
<1>2. PipeInv /\ [Next]_vars => PipeInv' /\ [APipe!Next]_APipe!vars
  BY PipeInvStep, PipeStep
<1> QED BY <1>1, <1>2, PTL DEF Spec, ImplementsPipe, APipe!Spec

-----------------------------------------------------------------------------
(* Vectored reads.  What the turns over the buffers compute is a recursive   *)
(* function of how many there were; it is reasoned about by taking the first *)
(* turn after which something does not hold.                                 *)

LEMMA NatMin ==
  ASSUME NEW T \in SUBSET Nat, T # {}
  PROVE  \E n \in T : \A m \in T : n <= m
<1> DEFINE Less == OpToRel(<, Nat)
<1>1. PICK n \in T : \A m \in T : <<m, n>> \notin Less
  BY WFMin, NatLessThanWellFounded
<1>2. \A m \in T : ~ (m < n)
  BY <1>1 DEF OpToRel
<1> QED BY <1>2

LEMMA UpToAll ==
  ASSUME NEW T \in SUBSET Nat, NEW l \in Nat, 0 \in T, \A k \in T : k < l => k + 1 \in T
  PROVE  0..l \subseteq T
<1> SUFFICES ASSUME ~ 0..l \subseteq T PROVE FALSE
  OBVIOUS
<1> DEFINE U == {k \in 0..l : k \notin T}
<1>0. U \in SUBSET Nat /\ U # {}
  OBVIOUS
<1>1. PICK n \in U : \A m \in U : n <= m
  <2> HIDE DEF U
  <2> QED BY <1>0, NatMin
<1>2. n # 0 /\ n - 1 \in 0..l /\ n - 1 \notin U /\ n - 1 < l
  BY <1>1
<1> QED BY <1>1, <1>2

\* A function on the first turns is defined by its first value and its steps.
LEMMA RoomsExist ==
  ASSUME NEW lens \in Seq(Nat)
  PROVE  /\ Rooms(lens)[0] = 0
         /\ \A k \in 1..Len(lens) : Rooms(lens)[k] = Rooms(lens)[k - 1] + lens[k]
<1> DEFINE Eqn(f, n) == f = [k \in 0..n |-> IF k = 0 THEN 0 ELSE f[k - 1] + lens[k]]
           T == {n \in Nat : \E f : Eqn(f, n)}
<1>1. 0 \in T
  <2> DEFINE g == [k \in 0..0 |-> 0]
  <2>1. Eqn(g, 0)
    OBVIOUS
  <2> QED BY <2>1
<1>2. ASSUME NEW n \in T PROVE n + 1 \in T
  <2>1. PICK f : Eqn(f, n)
    OBVIOUS
  <2> DEFINE g == [k \in 0..n + 1 |-> IF k <= n THEN f[k] ELSE f[n] + lens[n + 1]]
  <2>2. Eqn(g, n + 1)
    <3>1. \A k \in 0..n : f[k] = IF k = 0 THEN 0 ELSE f[k - 1] + lens[k]
      BY <2>1
    <3> QED BY <3>1
  <2>3. n + 1 \in Nat
    OBVIOUS
  <2> HIDE DEF g
  <2> QED BY <2>2, <2>3
<1>3. PICK f : Eqn(f, Len(lens))
  <2>1. 0..Len(lens) \subseteq T
    <3>1. T \in SUBSET Nat /\ Len(lens) \in Nat
      OBVIOUS
    <3> HIDE DEF T
    <3> QED BY <1>1, <1>2, <3>1, UpToAll
  <2> QED BY <2>1
<1>4. Eqn(Rooms(lens), Len(lens))
  BY <1>3 DEF Rooms
<1> HIDE DEF T
<1> QED BY <1>4

LEMMA TurnsExist ==
  ASSUME NEW buf, NEW lens \in Seq(Nat)
  PROVE  /\ Turns(buf, lens)[0] = [bytes |-> <<>>, rest |-> buf, outcome |-> "filling"]
         /\ \A k \in 1..Len(lens) :
              Turns(buf, lens)[k] = CopyIntoBuffer(Turns(buf, lens)[k - 1], lens[k])
<1> DEFINE zero == [bytes |-> <<>>, rest |-> buf, outcome |-> "filling"]
           Eqn(f, n) == f = [k \in 0..n |-> IF k = 0 THEN zero ELSE CopyIntoBuffer(f[k - 1], lens[k])]
           T == {n \in Nat : \E f : Eqn(f, n)}
<1>1. 0 \in T
  <2> DEFINE g == [k \in 0..0 |-> zero]
  <2>1. Eqn(g, 0)
    OBVIOUS
  <2> QED BY <2>1
<1>2. ASSUME NEW n \in T PROVE n + 1 \in T
  <2>1. PICK f : Eqn(f, n)
    OBVIOUS
  <2> DEFINE g == [k \in 0..n + 1 |-> IF k <= n THEN f[k] ELSE CopyIntoBuffer(f[n], lens[n + 1])]
  <2>2. Eqn(g, n + 1)
    <3>1. \A k \in 0..n : f[k] = IF k = 0 THEN zero ELSE CopyIntoBuffer(f[k - 1], lens[k])
      BY <2>1
    <3> HIDE DEF zero
    <3> QED BY <3>1
  <2>3. n + 1 \in Nat
    OBVIOUS
  <2> HIDE DEF g
  <2> QED BY <2>2, <2>3
<1>3. PICK f : Eqn(f, Len(lens))
  <2>1. 0..Len(lens) \subseteq T
    <3>1. T \in SUBSET Nat /\ Len(lens) \in Nat
      OBVIOUS
    <3> HIDE DEF T
    <3> QED BY <1>1, <1>2, <3>1, UpToAll
  <2> QED BY <2>1
<1>4. Eqn(Turns(buf, lens), Len(lens))
  BY <1>3 DEF Turns
<1> HIDE DEF T
<1> QED BY <1>4

\* What the first i turns have done: they filled the first k buffers, none of them
\* empty, and kept the rest; when those are fewer than i, a buffer came that was
\* empty, or found nothing left, or was longer than what was left.
FilledSoFar(buf, acc, lens, i) ==
  /\ acc \in [bytes : Bytes, rest : Bytes, outcome : {"filling", "broke", "panicked"}]
  /\ Then(acc.bytes, acc.rest) = buf
  /\ \E k \in 0..i :
       /\ \A j \in 1..k : lens[j] # 0
       /\ Len(acc.bytes) = Rooms(lens)[k]
       /\ \/ k = i /\ acc.outcome = "filling"
          \/ k < i /\ (Len(acc.rest) = 0 \/ lens[k + 1] = 0) /\ acc.outcome = "broke"
          \/ k < i /\ Len(acc.rest) \in 1..lens[k + 1] - 1 /\ acc.outcome = "panicked"

LEMMA TurnKeeps ==
  ASSUME NEW buf \in Bytes, NEW lens \in Seq(Nat), NEW i \in 0..Len(lens), i < Len(lens),
         NEW acc, FilledSoFar(buf, acc, lens, i)
  PROVE  FilledSoFar(buf, CopyIntoBuffer(acc, lens[i + 1]), lens, i + 1)
<1> DEFINE n == lens[i + 1]
           c == Lesser(Len(acc.rest), n)
           next == CopyIntoBuffer(acc, n)
           Outcomes == {"filling", "broke", "panicked"}
<1>1. /\ acc \in [bytes : Bytes, rest : Bytes, outcome : Outcomes]
      /\ acc.bytes \in Bytes /\ acc.rest \in Bytes
      /\ acc.outcome \in Outcomes /\ Then(acc.bytes, acc.rest) = buf
  BY DEF FilledSoFar
<1>2. /\ i \in Nat /\ i + 1 \in 1..Len(lens) /\ n \in Nat
      /\ Rooms(lens)[i + 1] = Rooms(lens)[i] + n
  <2>1. i \in Nat /\ i + 1 \in 1..Len(lens) /\ (i + 1) - 1 = i
    OBVIOUS
  <2>2. Rooms(lens)[i + 1] = Rooms(lens)[(i + 1) - 1] + lens[i + 1]
    BY <2>1, RoomsExist
  <2> QED BY <2>1, <2>2
<1>3. /\ Len(acc.rest) \in Nat /\ Len(acc.bytes) \in Nat
      /\ c \in 0..Len(acc.rest) /\ c <= n /\ (c = Len(acc.rest) \/ c = n)
  <2>1. Len(acc.rest) \in Nat /\ Len(acc.bytes) \in Nat
    BY <1>1, ThenBytes, Zenon
  <2>2. \A x, y \in Nat : LET z == Lesser(x, y)
                         IN z \in 0..x /\ z <= y /\ (z = x \/ z = y)
    BY DEF Lesser
  <2>3. n \in Nat
    BY <1>2
  <2> QED BY <2>1, <2>2, <2>3, Zenon
<1>4. CASE acc.outcome # "filling"
  <2>1. next = acc
    BY <1>4 DEF CopyIntoBuffer
  <2>2. \A k \in 0..i : k \in 0..(i + 1) /\ (k < i => k < i + 1)
    BY <1>2
  <2> QED BY <1>4, <2>1, <2>2 DEF FilledSoFar
<1>5. CASE acc.outcome = "filling"
  <2>1. (\A j \in 1..i : lens[j] # 0) /\ Len(acc.bytes) = Rooms(lens)[i]
    BY <1>5 DEF FilledSoFar
  <2>2. i \in 0..(i + 1) /\ i < i + 1
    BY <1>2
  <2>3. CASE c = 0
    <3>1. next = [acc EXCEPT !.outcome = "broke"]
      BY <1>5, <2>3 DEF CopyIntoBuffer
    <3>2. /\ next \in [bytes : Bytes, rest : Bytes, outcome : Outcomes]
          /\ next.bytes = acc.bytes /\ next.rest = acc.rest /\ next.outcome = "broke"
      BY <1>1, <3>1
    <3>3. Len(acc.rest) = 0 \/ n = 0
      BY <1>3, <2>3
    <3> QED BY <1>1, <2>1, <2>2, <3>2, <3>3 DEF FilledSoFar
  <2>4. CASE c # 0 /\ c # n
    <3>1. next = [acc EXCEPT !.outcome = "panicked"]
      BY <1>5, <2>4 DEF CopyIntoBuffer
    <3>2. /\ next \in [bytes : Bytes, rest : Bytes, outcome : Outcomes]
          /\ next.bytes = acc.bytes /\ next.rest = acc.rest /\ next.outcome = "panicked"
      BY <1>1, <3>1
    <3>3. Len(acc.rest) \in 1..n - 1
      BY <1>2, <1>3, <2>4
    <3> QED BY <1>1, <2>1, <2>2, <3>2, <3>3 DEF FilledSoFar
  <2>5. CASE c # 0 /\ c = n
    <3> DEFINE f == First(acc.rest, c)
               g == Rest(acc.rest, c)
    <3>1. next = [acc EXCEPT !.bytes = Then(@, f), !.rest = g]
      BY <1>5, <2>5 DEF CopyIntoBuffer, Then
    <3>2. f \in Bytes /\ g \in Bytes /\ Len(f) = c /\ Then(f, g) = acc.rest
      BY <1>1, <1>3, SplitBytes DEF Then
    <3>3. /\ Then(acc.bytes, f) \in Bytes /\ Len(Then(acc.bytes, f)) = Rooms(lens)[i + 1]
          /\ Then(Then(acc.bytes, f), g) = buf
      <4>1. Then(acc.bytes, f) \in Bytes /\ Len(Then(acc.bytes, f)) = Len(acc.bytes) + Len(f)
        BY <1>1, <3>2, ThenBytes
      <4>2. Then(Then(acc.bytes, f), g) = Then(acc.bytes, Then(f, g))
        BY <1>1, <3>2, ThenRegroups
      <4>3. Len(Then(acc.bytes, f)) = Rooms(lens)[i + 1]
        BY <1>2, <2>1, <2>5, <3>2, <4>1
      <4>4. Then(Then(acc.bytes, f), g) = buf
        BY <1>1, <3>2, <4>2
      <4> QED BY <4>1, <4>3, <4>4
    <3> HIDE DEF f, g
    <3>4. /\ next \in [bytes : Bytes, rest : Bytes, outcome : Outcomes]
          /\ next.bytes = Then(acc.bytes, f) /\ next.rest = g /\ next.outcome = "filling"
      BY <1>1, <1>5, <3>1, <3>2, <3>3
    <3>5. i + 1 \in 0..(i + 1) /\ \A j \in 1..(i + 1) : lens[j] # 0
      BY <1>2, <2>1, <2>5
    <3> QED BY <3>3, <3>4, <3>5 DEF FilledSoFar
  <2> QED BY <2>3, <2>4, <2>5
<1> QED BY <1>4, <1>5

LEMMA TurnsFill ==
  ASSUME NEW buf \in Bytes, NEW lens \in Seq(Nat)
  PROVE  \A i \in 0..Len(lens) : FilledSoFar(buf, Turns(buf, lens)[i], lens, i)
<1> DEFINE Good(i) == FilledSoFar(buf, Turns(buf, lens)[i], lens, i)
           T == {i \in 0..Len(lens) : Good(i)}
<1>1. 0 \in T
  <2> DEFINE zero == [bytes |-> <<>>, rest |-> buf, outcome |-> "filling"]
  <2>1. FilledSoFar(buf, zero, lens, 0)
    <3>1. /\ zero \in [bytes : Bytes, rest : Bytes, outcome : {"filling", "broke", "panicked"}]
          /\ Then(zero.bytes, zero.rest) = buf /\ Len(zero.bytes) = 0
      BY ThenNothing
    <3>2. Rooms(lens)[0] = 0 /\ 0 \in 0..0 /\ \A j \in 1..0 : lens[j] # 0
      BY RoomsExist
    <3> QED BY <3>1, <3>2 DEF FilledSoFar
  <2> QED BY <2>1, TurnsExist
<1>2. ASSUME NEW i \in T, i < Len(lens) PROVE i + 1 \in T
  <2>1. i \in 0..Len(lens) /\ i + 1 \in 1..Len(lens) /\ (i + 1) - 1 = i
    BY <1>2
  <2>2. Turns(buf, lens)[i + 1] = CopyIntoBuffer(Turns(buf, lens)[i], lens[i + 1])
    BY <2>1, TurnsExist
  <2>3. Good(i)
    OBVIOUS
  <2>4. Good(i + 1)
    BY <1>2, <2>1, <2>2, <2>3, TurnKeeps
  <2> QED BY <2>1, <2>4
<1>3. T \in SUBSET Nat /\ Len(lens) \in Nat
  OBVIOUS
<1>4. 0..Len(lens) \subseteq T
  <2> HIDE DEF T
  <2> QED BY <1>1, <1>2, <1>3, UpToAll
<1> QED BY <1>4

LEMMA ThenEnds ==
  ASSUME NEW a \in Bytes, NEW b \in Bytes
  PROVE  Rest(Then(a, b), Len(a)) = b
<1> DEFINE S == 1..MaxSent
           t == a \o b
           e == SubSeq(t, Len(a) + 1, Len(t))
<1>1. a \in Seq(S) /\ b \in Seq(S)
  BY DEF Bytes
<1> HIDE DEF S
<1>2. /\ Len(a) \in Nat /\ Len(b) \in Nat /\ t \in Seq(S) /\ Len(t) = Len(a) + Len(b)
      /\ \A i \in 1..Len(b) : t[Len(a) + i] = b[i]
  BY <1>1
<1>3. e \in Seq(S) /\ Len(e) = Len(b) /\ \A i \in 1..Len(b) : e[i] = t[Len(a) + i]
  <2> HIDE DEF t
  <2> QED BY <1>2
<1>4. e = b
  <2> HIDE DEF e, t
  <2> QED BY <1>1, <1>2, <1>3, SeqEqual
<1> QED BY <1>4 DEF Rest, Then

\* A vectored read of the bytes the codec left over (poll_read_vectored,
\* connection.rs:64-87) fills its buffers from the front with what a plain read
\* into as much room gives, and keeps the rest, whatever their number and lengths.
\* It stops at an empty buffer and panics at one longer than what is left, and
\* nowhere else.
THEOREM VectoredReadsFillFromTheFront ==
  ASSUME NEW buf \in Bytes, NEW lens \in Seq(Nat)
  PROVE  VectoredReadFills(buf, lens)
<1> DEFINE r == PollReadVectored(buf, lens)
           m == Len(lens)
<1>1. m \in 0..m /\ FilledSoFar(buf, r, lens, m)
  <2>1. m \in 0..m
    OBVIOUS
  <2> QED BY <2>1, TurnsFill DEF PollReadVectored
<1> HIDE DEF r
<1>2. PICK k \in 0..m :
        /\ \A j \in 1..k : lens[j] # 0
        /\ Len(r.bytes) = Rooms(lens)[k]
        /\ \/ k = m /\ r.outcome = "filling"
           \/ k < m /\ (Len(r.rest) = 0 \/ lens[k + 1] = 0) /\ r.outcome = "broke"
           \/ k < m /\ Len(r.rest) \in 1..lens[k + 1] - 1 /\ r.outcome = "panicked"
  BY <1>1 DEF FilledSoFar
<1>3. r.bytes \in Bytes /\ r.rest \in Bytes /\ Then(r.bytes, r.rest) = buf
  BY <1>1 DEF FilledSoFar
<1> DEFINE held == Rooms(lens)[k]
<1>4. /\ held \in Nat /\ Len(buf) \in Nat /\ Len(r.rest) \in Nat
      /\ Len(r.rest) = Len(buf) - held /\ held <= Len(buf)
  <2>1. /\ Len(r.bytes) \in Nat /\ Len(r.rest) \in Nat
        /\ Len(Then(r.bytes, r.rest)) = Len(r.bytes) + Len(r.rest)
    BY <1>3, ThenBytes, Zenon
  <2>2. Len(buf) = Len(r.bytes) + Len(r.rest)
    BY <1>3, <2>1, Zenon
  <2>3. Len(r.bytes) = held
    BY <1>2, Zenon
  <2> QED BY <2>1, <2>2, <2>3
<1>5. First(buf, held) = r.bytes /\ Rest(buf, held) = r.rest
  BY <1>2, <1>3, ThenStarts, ThenEnds
<1>6. Lesser(Len(buf), held) = held
  BY <1>4 DEF Lesser
<1>7. /\ PollRead(buf, <<>>, held).bytes = r.bytes
      /\ PollRead(buf, <<>>, held).remaining_buf = r.rest
  <2>1. CASE buf # <<>>
    BY <1>5, <1>6, <2>1 DEF PollRead
  <2>2. CASE buf = <<>>
    <3>1. held = 0
      BY <1>4, <2>2
    <3> QED BY <1>5, <1>6, <2>2, <3>1 DEF PollRead
  <2> QED BY <2>1, <2>2
<1>8. \/ k = m /\ r.outcome = "filling"
      \/ k < m /\ (Len(buf) - held = 0 \/ lens[k + 1] = 0) /\ r.outcome = "broke"
      \/ k < m /\ Len(buf) - held \in 1..lens[k + 1] - 1 /\ r.outcome = "panicked"
  BY <1>2, <1>4
<1> QED BY <1>2, <1>4, <1>7, <1>8, Zenon DEF VectoredReadFills, r

\* So are those of the substreams whose copies run.
THEOREM VectoredReadsAlways == Spec => []VectoredReads
<1>1. CopyInv => VectoredReads
  <2>1. ASSUME CopyInv, NEW s \in Sides, NEW k \in 1..MaxSent,
               NEW lens \in [1..k -> 0..MaxSent + 1]
        PROVE  remaining_buf[s] \in Bytes /\ lens \in Seq(Nat)
    <3>1. remaining_buf[s] \in Bytes
      BY <2>1 DEF CopyInv, BytesTyped
    <3>2. k \in Nat /\ 0..MaxSent + 1 \subseteq Nat
      BY BoundsNat
    <3>3. lens \in [1..k -> Nat]
      BY <3>2
    <3> QED BY <3>1, <3>2, <3>3
  <2> QED BY <2>1, VectoredReadsFillFromTheFront DEF VectoredReads
<1> QED BY <1>1, CopyInit, CopyStep, PTL DEF Spec
=============================================================================
