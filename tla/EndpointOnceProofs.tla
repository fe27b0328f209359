-------------------------- MODULE EndpointOnceProofs -------------------------
(***************************************************************************)
(* Theorems about EndpointBehaviour that count: a dial is held in one      *)
(* place until it is answered, and a forwarded connection is in one place  *)
(* at most.  The invariants say so without numbers: in each place a value  *)
(* is absent or there once, and it is once in one place at most.           *)
(***************************************************************************)
EXTENDS EndpointBehaviourProofs, FiniteSetTheorems

Absent(s, x) == \A k \in DOMAIN s : s[k] # x
Once(s, x)   == \E k \in DOMAIN s : \A j \in DOMAIN s : s[j] = x <=> j = k

\* The same for a family of queues f.
Nowhere(f, x) == \A c \in DOMAIN f : Absent(f[c], x)
Single(f, x)  ==
  \E c \in DOMAIN f : Once(f[c], x) /\ \A d \in DOMAIN f \ {c} : Absent(f[d], x)

-----------------------------------------------------------------------------
(* Queues, and families of queues. *)

LEMMA Empty == \A x : Absent(<<>>, x)
BY DEF Absent

LEMMA Appended ==
  ASSUME NEW S, NEW s \in Seq(S), NEW x \in S, NEW y \in S
  PROVE  /\ Absent(s, x) /\ y # x => Absent(Append(s, y), x)
         /\ Absent(s, x) /\ y = x => Once(Append(s, y), x)
         /\ Once(s, x) /\ y # x => Once(Append(s, y), x)
<1> DEFINE t == Append(s, y)
           n == Len(s) + 1
<1>1. /\ DOMAIN s = 1..Len(s) /\ DOMAIN t = 1..n /\ Len(s) \in Nat
      /\ t[n] = y /\ \A k \in 1..Len(s) : t[k] = s[k]
  BY AppendProperties, LenProperties
<1> HIDE DEF t
<1>2. \A k \in DOMAIN t : k = n \/ k \in DOMAIN s
  BY <1>1
<1>3. \A k \in DOMAIN s : k \in DOMAIN t /\ k # n
  BY <1>1
<1>4. n \in DOMAIN t
  BY <1>1
<1> HIDE DEF n
<1>5. ASSUME Absent(s, x), y # x PROVE Absent(t, x)
  BY <1>1, <1>2, <1>5 DEF Absent
<1>6. ASSUME Absent(s, x), y = x PROVE Once(t, x)
  BY <1>1, <1>2, <1>3, <1>4, <1>6 DEF Absent, Once
<1>7. ASSUME Once(s, x), y # x PROVE Once(t, x)
  BY <1>1, <1>2, <1>3, <1>4, <1>7 DEF Once
<1> QED BY <1>5, <1>6, <1>7 DEF t

LEMMA TakenOff ==
  ASSUME NEW S, NEW s \in Seq(S), NEW x \in S, s # <<>>
  PROVE  /\ Absent(s, x) => Head(s) # x /\ Absent(Tail(s), x)
         /\ Once(s, x) => IF Head(s) = x THEN Absent(Tail(s), x) ELSE Once(Tail(s), x)
<1> DEFINE t == Tail(s)
<1>1. /\ DOMAIN s = 1..Len(s) /\ DOMAIN t = 1..Len(s) - 1 /\ Len(s) \in Nat /\ Len(s) > 0
      /\ \A k \in 1..Len(s) - 1 : t[k] = s[k + 1]
      /\ Head(s) = s[1]
  BY EmptySeq, LenProperties
<1> HIDE DEF t
<1>2. 1 \in DOMAIN s
  BY <1>1
<1>3. \A k \in DOMAIN t : k + 1 \in DOMAIN s /\ t[k] = s[k + 1] /\ k + 1 # 1
  BY <1>1
<1>4. ASSUME Absent(s, x) PROVE Head(s) # x /\ Absent(t, x)
  BY <1>1, <1>2, <1>3, <1>4 DEF Absent
<1>5. ASSUME Once(s, x) PROVE IF Head(s) = x THEN Absent(t, x) ELSE Once(t, x)
  <2>1. PICK k \in DOMAIN s : \A j \in DOMAIN s : s[j] = x <=> j = k
    BY <1>5 DEF Once
  <2>2. CASE Head(s) = x
    BY <1>1, <1>2, <1>3, <2>1, <2>2 DEF Absent
  <2>3. CASE Head(s) # x
    <3>1. k # 1
      BY <1>1, <1>2, <2>1, <2>3
    <3>2. k - 1 \in DOMAIN t
      BY <1>1, <3>1
    <3>3. ASSUME NEW j \in DOMAIN t PROVE t[j] = x <=> j = k - 1
      <4>1. t[j] = x <=> j + 1 = k
        BY <1>3, <2>1
      <4> QED BY <4>1, <1>1
    <3> QED BY <2>3, <3>2, <3>3 DEF Once
  <2> QED BY <2>2, <2>3
<1> QED BY <1>4, <1>5 DEF t

LEMMA Joined ==
  ASSUME NEW S, NEW s \in Seq(S), NEW t \in Seq(S), NEW x \in S
  PROVE  /\ Absent(s, x) /\ Absent(t, x) => Absent(s \o t, x)
         /\ Once(s, x) /\ Absent(t, x) => Once(s \o t, x)
         /\ Absent(s, x) /\ Once(t, x) => Once(s \o t, x)
<1> DEFINE u == s \o t
           n == Len(s)
<1>1. /\ DOMAIN s = 1..n /\ DOMAIN t = 1..Len(t) /\ DOMAIN u = 1..n + Len(t)
      /\ n \in Nat /\ Len(t) \in Nat
      /\ \A k \in 1..n : u[k] = s[k]
      /\ \A k \in 1..n + Len(t) : k > n => u[k] = t[k - n]
  BY ConcatProperties, LenProperties
<1> HIDE DEF u, n
<1>2. \A k \in DOMAIN u : k \notin DOMAIN s => k - n \in DOMAIN t /\ u[k] = t[k - n]
  BY <1>1
<1>3. \A k \in DOMAIN s : k \in DOMAIN u /\ u[k] = s[k]
  BY <1>1
<1>4. \A k \in DOMAIN t : n + k \in DOMAIN u /\ n + k \notin DOMAIN s
  BY <1>1
<1>5. ASSUME Absent(s, x), Absent(t, x) PROVE Absent(u, x)
  BY <1>2, <1>3, <1>5 DEF Absent
<1>6. ASSUME Once(s, x), Absent(t, x) PROVE Once(u, x)
  <2>1. PICK k \in DOMAIN s : \A j \in DOMAIN s : s[j] = x <=> j = k
    BY <1>6 DEF Once
  <2>2. ASSUME NEW j \in DOMAIN u PROVE u[j] = x <=> j = k
    <3>1. CASE j \in DOMAIN s
      BY <1>3, <2>1, <3>1
    <3>2. CASE j \notin DOMAIN s
      BY <1>2, <1>6, <2>1, <3>2 DEF Absent
    <3> QED BY <3>1, <3>2
  <2> QED BY <1>3, <2>1, <2>2 DEF Once
<1>7. ASSUME Absent(s, x), Once(t, x) PROVE Once(u, x)
  <2>1. PICK k \in DOMAIN t : \A j \in DOMAIN t : t[j] = x <=> j = k
    BY <1>7 DEF Once
  <2>2. ASSUME NEW j \in DOMAIN u PROVE u[j] = x <=> j = n + k
    <3>1. CASE j \in DOMAIN s
      BY <1>3, <1>4, <1>7, <3>1 DEF Absent
    <3>2. CASE j \notin DOMAIN s
      <4>1. j - n \in DOMAIN t /\ u[j] = t[j - n]
        BY <1>2, <3>2
      <4>2. u[j] = x <=> j - n = k
        BY <2>1, <4>1
      <4> QED BY <1>1, <4>2
    <3> QED BY <3>1, <3>2
  <2> QED BY <1>4, <2>2 DEF Once
<1> QED BY <1>5, <1>6, <1>7 DEF u

\* The first n elements, and those after the first m.
LEMMA Parted ==
  ASSUME NEW S, NEW s \in Seq(S), NEW x \in S,
         NEW n \in 0..Len(s), NEW m \in n..Len(s)
  PROVE  LET first == SubSeq(s, 1, n)
             rest  == SubSeq(s, m + 1, Len(s))
         IN /\ Absent(s, x) => Absent(first, x) /\ Absent(rest, x)
            /\ Once(s, x) => \/ Once(first, x) /\ Absent(rest, x)
                             \/ Absent(first, x) /\ Absent(rest, x)
                             \/ Absent(first, x) /\ Once(rest, x)
<1> DEFINE first == SubSeq(s, 1, n)
           rest  == SubSeq(s, m + 1, Len(s))
<1>1. DOMAIN s = 1..Len(s) /\ Len(s) \in Nat
  BY LenProperties
<1>2. DOMAIN first = 1..n /\ \A k \in 1..n : first[k] = s[k]
  BY <1>1
<1>3. DOMAIN rest = 1..Len(s) - m /\ \A k \in 1..Len(s) - m : rest[k] = s[k + m]
  BY <1>1
<1> HIDE DEF first, rest
<1>4. \A k \in DOMAIN first : k \in DOMAIN s /\ first[k] = s[k]
  BY <1>1, <1>2
<1>5. \A k \in DOMAIN rest : k + m \in DOMAIN s /\ rest[k] = s[k + m] /\ k + m \notin DOMAIN first
  BY <1>1, <1>2, <1>3
<1>6. ASSUME Absent(s, x) PROVE Absent(first, x) /\ Absent(rest, x)
  BY <1>4, <1>5, <1>6 DEF Absent
<1>7. ASSUME Once(s, x)
      PROVE  \/ Once(first, x) /\ Absent(rest, x)
             \/ Absent(first, x) /\ Absent(rest, x)
             \/ Absent(first, x) /\ Once(rest, x)
  <2>1. PICK k \in DOMAIN s : \A j \in DOMAIN s : s[j] = x <=> j = k
    BY <1>7 DEF Once
  <2>2. CASE k \in DOMAIN first
    <3>1. Once(first, x)
      BY <1>4, <2>1, <2>2 DEF Once
    <3>2. Absent(rest, x)
      BY <1>5, <2>1, <2>2 DEF Absent
    <3> QED BY <3>1, <3>2
  <2>3. CASE k \notin DOMAIN first /\ k - m \in DOMAIN rest
    <3>1. Absent(first, x)
      BY <1>4, <2>1, <2>3 DEF Absent
    <3>2. \A j \in DOMAIN rest : rest[j] = x <=> j + m = k
      BY <1>5, <2>1
    <3>3. \A j \in DOMAIN rest : j + m = k <=> j = k - m
      BY <1>1, <1>3
    <3>4. Once(rest, x)
      BY <2>3, <3>2, <3>3 DEF Once
    <3> QED BY <3>1, <3>4
  <2>4. CASE k \notin DOMAIN first /\ k - m \notin DOMAIN rest
    <3>1. Absent(first, x)
      BY <1>4, <2>1, <2>4 DEF Absent
    <3>2. \A j \in DOMAIN rest : j + m # k
      BY <1>1, <1>3, <2>4
    <3>3. Absent(rest, x)
      BY <1>5, <2>1, <3>2 DEF Absent
    <3> QED BY <3>1, <3>3
  <2> QED BY <2>2, <2>3, <2>4
<1> QED BY <1>6, <1>7 DEF first, rest

\* One queue of a family becomes another.
LEMMA Replaced ==
  ASSUME NEW f, NEW g, NEW c \in DOMAIN f, NEW x,
         DOMAIN g = DOMAIN f, \A d \in DOMAIN f \ {c} : g[d] = f[d]
  PROVE  /\ Nowhere(f, x) /\ Absent(g[c], x) => Nowhere(g, x)
         /\ Nowhere(f, x) /\ Once(g[c], x) => Single(g, x)
         /\ Single(f, x) => \/ Absent(f[c], x) /\ (Absent(g[c], x) => Single(g, x))
                            \/ /\ Once(f[c], x)
                               /\ Absent(g[c], x) => Nowhere(g, x)
                               /\ Once(g[c], x) => Single(g, x)
<1>1. ASSUME Nowhere(f, x), Absent(g[c], x) PROVE Nowhere(g, x)
  BY <1>1 DEF Nowhere
<1>2. ASSUME Nowhere(f, x), Once(g[c], x) PROVE Single(g, x)
  BY <1>2 DEF Nowhere, Single
<1>3. ASSUME Single(f, x)
      PROVE  \/ Absent(f[c], x) /\ (Absent(g[c], x) => Single(g, x))
             \/ /\ Once(f[c], x)
                /\ Absent(g[c], x) => Nowhere(g, x)
                /\ Once(g[c], x) => Single(g, x)
  <2>1. PICK e \in DOMAIN f : Once(f[e], x) /\ \A d \in DOMAIN f \ {e} : Absent(f[d], x)
    BY <1>3 DEF Single
  <2>2. CASE e = c
    BY <2>1, <2>2 DEF Nowhere, Single
  <2>3. CASE e # c
    BY <2>1, <2>3 DEF Single
  <2> QED BY <2>2, <2>3
<1> QED BY <1>1, <1>2, <1>3

-----------------------------------------------------------------------------
(* A forwarded connection is in one place at most. *)

\* Before it came, a connection is nowhere, and then in one place at most.
Followed(i) ==
  LET waits  == Once(pending_new_connections, i)
      gone   == Absent(pending_new_connections, i)
  IN \/ gone /\ Nowhere(pending_inbound, i) /\ Nowhere(incoming, i)
     \/ /\ i \in arrived
        /\ \/ waits /\ Nowhere(pending_inbound, i) /\ Nowhere(incoming, i)
           \/ gone /\ Single(pending_inbound, i) /\ Nowhere(incoming, i)
           \/ gone /\ Nowhere(pending_inbound, i) /\ Single(incoming, i)

AllFollowed == \A i \in Forwarded : Followed(i)

followVars == <<pending_new_connections, pending_inbound, incoming, arrived>>

LEMMA FollowedInit == Init => AllFollowed
BY Empty DEF Init, AllFollowed, Followed, Nowhere

LEMMA FollowedSame == ASSUME AllFollowed, UNCHANGED followVars PROVE AllFollowed'
BY DEF AllFollowed, Followed, followVars

\* The relay sends each connection once.
LEMMA AcceptFollowed ==
  ASSUME TypeOK, AllFollowed, NEW c \in Conns, NEW j \in Forwarded, Accept(c, j)
  PROVE  AllFollowed'
<1>1. /\ pending_inbound \in [Conns -> Seq(Forwarded)]
      /\ pending_inbound[c] \in Seq(Forwarded)
      /\ pending_inbound' = [pending_inbound EXCEPT ![c] = Append(pending_inbound[c], j)]
      /\ j \notin arrived /\ arrived' = arrived \cup {j}
      /\ UNCHANGED <<pending_new_connections, incoming>>
  BY DEF TypeOK, Accept, outVars, transportVars
<1>2. /\ DOMAIN pending_inbound = Conns /\ DOMAIN pending_inbound' = Conns
      /\ pending_inbound'[c] = Append(pending_inbound[c], j)
      /\ \A d \in Conns \ {c} : pending_inbound'[d] = pending_inbound[d]
  BY <1>1
<1>3. ASSUME NEW i \in Forwarded PROVE Followed(i)'
  <2>1. Nowhere(pending_inbound, i) => Absent(pending_inbound[c], i)
    BY <1>2 DEF Nowhere
  <2>2. /\ Absent(pending_inbound[c], i) /\ j # i => Absent(pending_inbound'[c], i)
        /\ Absent(pending_inbound[c], i) /\ j = i => Once(pending_inbound'[c], i)
        /\ Once(pending_inbound[c], i) /\ j # i => Once(pending_inbound'[c], i)
    BY <1>1, <1>2, Appended
  <2>3. /\ Nowhere(pending_inbound, i) /\ j # i => Nowhere(pending_inbound', i)
        /\ Nowhere(pending_inbound, i) /\ j = i => Single(pending_inbound', i)
        /\ Single(pending_inbound, i) /\ j # i => Single(pending_inbound', i)
    BY <1>2, <2>1, <2>2, Replaced
  <2>4. Followed(i)
    BY DEF AllFollowed
  <2> QED BY <1>1, <2>3, <2>4 DEF Followed
<1> QED BY <1>3 DEF AllFollowed

\* The behaviour takes it from the handler.
LEMMA NewConnectionFollowed ==
  ASSUME TypeOK, AllFollowed, NEW c \in Conns, OnNewConnection(c)
  PROVE  AllFollowed'
<1> DEFINE j == Head(pending_inbound[c])
<1>1. /\ pending_inbound \in [Conns -> Seq(Forwarded)]
      /\ pending_inbound[c] \in Seq(Forwarded) /\ pending_inbound[c] # <<>>
      /\ pending_inbound' = [pending_inbound EXCEPT ![c] = Tail(pending_inbound[c])]
      /\ pending_new_connections \in Seq(Forwarded) /\ j \in Forwarded
      /\ pending_new_connections' = Append(pending_new_connections, j)
      /\ UNCHANGED <<arrived, incoming>>
  BY DEF TypeOK, OnNewConnection, transportVars
<1>2. /\ DOMAIN pending_inbound = Conns /\ DOMAIN pending_inbound' = Conns
      /\ pending_inbound'[c] = Tail(pending_inbound[c])
      /\ \A d \in Conns \ {c} : pending_inbound'[d] = pending_inbound[d]
  BY <1>1
<1>3. ASSUME NEW i \in Forwarded PROVE Followed(i)'
  <2>1. Nowhere(pending_inbound, i) => Absent(pending_inbound[c], i)
    BY <1>2 DEF Nowhere
  <2>2. /\ Absent(pending_inbound[c], i) => j # i /\ Absent(pending_inbound'[c], i)
        /\ Once(pending_inbound[c], i) =>
             IF j = i THEN Absent(pending_inbound'[c], i) ELSE Once(pending_inbound'[c], i)
    BY <1>1, <1>2, TakenOff
  <2>3. /\ Absent(pending_new_connections, i) /\ j # i => Absent(pending_new_connections', i)
        /\ Absent(pending_new_connections, i) /\ j = i => Once(pending_new_connections', i)
        /\ Once(pending_new_connections, i) /\ j # i => Once(pending_new_connections', i)
    BY <1>1, Appended
  <2> HIDE DEF j
  <2>4. /\ Nowhere(pending_inbound, i) => j # i /\ Nowhere(pending_inbound', i)
        /\ Single(pending_inbound, i) =>
             IF j = i THEN Nowhere(pending_inbound', i) ELSE Single(pending_inbound', i)
    BY <1>2, <2>1, <2>2, Replaced
  <2>5. Followed(i)
    BY DEF AllFollowed
  <2> QED BY <1>1, <2>3, <2>4, <2>5 DEF Followed
<1> QED BY <1>3 DEF AllFollowed

\* The listener's side reads it.
LEMMA ReceiveFollowed ==
  ASSUME TypeOK, AllFollowed, NEW l \in Listens, ListenerReceive(l)
  PROVE  AllFollowed'
<1>1. /\ incoming \in [Listens -> Seq(Forwarded)]
      /\ incoming[l] \in Seq(Forwarded) /\ incoming[l] # <<>>
      /\ incoming' = [incoming EXCEPT ![l] = Tail(incoming[l])]
      /\ UNCHANGED <<arrived, pending_inbound, pending_new_connections>>
  BY DEF TypeOK, ListenerReceive, handlerVars, outVars
<1>2. /\ DOMAIN incoming = Listens /\ DOMAIN incoming' = Listens
      /\ incoming'[l] = Tail(incoming[l])
      /\ \A d \in Listens \ {l} : incoming'[d] = incoming[d]
  BY <1>1
<1>3. ASSUME NEW i \in Forwarded PROVE Followed(i)'
  <2>1. Nowhere(incoming, i) => Absent(incoming[l], i)
    BY <1>2 DEF Nowhere
  <2>2. /\ Absent(incoming[l], i) => Absent(incoming'[l], i)
        /\ Once(incoming[l], i) => Absent(incoming'[l], i) \/ Once(incoming'[l], i)
    BY <1>1, <1>2, TakenOff
  <2>3. /\ Nowhere(incoming, i) => Nowhere(incoming', i)
        /\ Single(incoming, i) => Nowhere(incoming', i) \/ Single(incoming', i)
    BY <1>2, <2>1, <2>2, Replaced
  <2>4. Followed(i)
    BY DEF AllFollowed
  <2> QED BY <1>1, <2>3, <2>4 DEF Followed
<1> QED BY <1>3 DEF AllFollowed

\* What a handler had is gone with it.
LEMMA ClosedFollowed ==
  ASSUME TypeOK, AllFollowed, NEW c \in Conns, OnConnectionClosed(c)
  PROVE  AllFollowed'
<1>1. /\ pending_inbound \in [Conns -> Seq(Forwarded)]
      /\ pending_inbound' = [pending_inbound EXCEPT ![c] = <<>>]
      /\ UNCHANGED <<arrived, incoming, pending_new_connections>>
  BY DEF TypeOK, OnConnectionClosed
<1>2. /\ DOMAIN pending_inbound = Conns /\ DOMAIN pending_inbound' = Conns
      /\ pending_inbound'[c] = <<>>
      /\ \A d \in Conns \ {c} : pending_inbound'[d] = pending_inbound[d]
  BY <1>1
<1>3. ASSUME NEW i \in Forwarded PROVE Followed(i)'
  <2>1. Absent(pending_inbound'[c], i)
    BY <1>2, Empty
  <2>2. /\ Nowhere(pending_inbound, i) => Nowhere(pending_inbound', i)
        /\ Single(pending_inbound, i) =>
             Nowhere(pending_inbound', i) \/ Single(pending_inbound', i)
    BY <1>2, <2>1, Replaced
  <2>3. Followed(i)
    BY DEF AllFollowed
  <2> QED BY <1>1, <2>2, <2>3 DEF Followed
<1> QED BY <1>3 DEF AllFollowed

\* A poll sends the first connections that wait, may drop the one after them,
\* and leaves the others to wait.
LEMMA DeliverFollowed ==
  ASSUME TypeOK, AllFollowed, DeliverAndFlush, UNCHANGED <<arrived, pending_inbound>>
  PROVE  AllFollowed'
<1> DEFINE new == pending_new_connections
<1>1. PICK n \in 0..Len(new) :
        /\ Fits(n)
        /\ incoming' = [l \in Listens |->
             IF n > 0 /\ l = ListenerOf(new[1]) THEN incoming[l] \o SubSeq(new, 1, n)
                                                ELSE incoming[l]]
        /\ \/ pending_new_connections' = SubSeq(new, n + 1, Len(new))
           \/ n < Len(new) /\ pending_new_connections' = SubSeq(new, n + 2, Len(new))
  BY DEF DeliverAndFlush, PutBack
<1>2. new \in Seq(Forwarded) /\ Len(new) \in Nat
  BY DEF TypeOK
<1>3. PICK m \in n..Len(new) : pending_new_connections' = SubSeq(new, m + 1, Len(new))
  <2>1. CASE pending_new_connections' = SubSeq(new, n + 1, Len(new))
    BY <1>2, <2>1
  <2>2. CASE n < Len(new) /\ pending_new_connections' = SubSeq(new, n + 2, Len(new))
    <3>1. n + 1 \in n..Len(new) /\ (n + 1) + 1 = n + 2
      BY <1>2, <2>2
    <3> QED BY <2>2, <3>1
  <2> QED BY <1>1, <2>1, <2>2
<1> DEFINE sent == SubSeq(new, 1, n)
           left == SubSeq(new, m + 1, Len(new))
<1>4. /\ incoming \in [Listens -> Seq(Forwarded)] /\ sent \in Seq(Forwarded)
      /\ DOMAIN incoming = Listens /\ DOMAIN incoming' = Listens
      /\ \A l \in Listens : incoming[l] \in Seq(Forwarded)
  BY <1>1, <1>2 DEF TypeOK
<1>5. CASE n = 0
  <2>1. \A l \in Listens : incoming'[l] = incoming[l]
    BY <1>1, <1>5
  <2>2. incoming' = incoming
    BY <1>1, <1>4, <2>1
  <2>3. ASSUME NEW i \in Forwarded PROVE Followed(i)'
    <3>1. /\ Absent(new, i) => Absent(left, i)
          /\ Once(new, i) => Absent(left, i) \/ Once(left, i)
      BY <1>2, Parted
    <3>2. Followed(i)
      BY DEF AllFollowed
    <3> QED BY <1>3, <2>2, <3>1, <3>2 DEF Followed
  <2> QED BY <2>3 DEF AllFollowed
<1>6. CASE n > 0
  <2> DEFINE to == ListenerOf(new[1])
  <2>1. to \in Listens
    BY <1>1, <1>2, <1>6 DEF Fits, IsOpen
  <2>2. /\ incoming'[to] = incoming[to] \o sent
        /\ \A l \in Listens \ {to} : incoming'[l] = incoming[l]
    BY <1>1, <1>6, <2>1
  <2> HIDE DEF to
  <2>3. ASSUME NEW i \in Forwarded PROVE Followed(i)'
    <3>1. /\ Absent(new, i) => Absent(sent, i) /\ Absent(left, i)
          /\ Once(new, i) => \/ Once(sent, i) /\ Absent(left, i)
                             \/ Absent(sent, i) /\ Absent(left, i)
                             \/ Absent(sent, i) /\ Once(left, i)
      BY <1>2, Parted
    <3> HIDE DEF sent
    <3>2. /\ Absent(incoming[to], i) /\ Absent(sent, i) => Absent(incoming'[to], i)
          /\ Once(incoming[to], i) /\ Absent(sent, i) => Once(incoming'[to], i)
          /\ Absent(incoming[to], i) /\ Once(sent, i) => Once(incoming'[to], i)
      BY <1>4, <2>1, <2>2, Joined
    <3>3. Nowhere(incoming, i) => Absent(incoming[to], i)
      BY <1>4, <2>1 DEF Nowhere
    <3>4. /\ Nowhere(incoming, i) /\ Absent(sent, i) => Nowhere(incoming', i)
          /\ Nowhere(incoming, i) /\ Once(sent, i) => Single(incoming', i)
          /\ Single(incoming, i) /\ Absent(sent, i) => Single(incoming', i)
      BY <1>4, <2>1, <2>2, <3>2, <3>3, Replaced
    <3>5. Followed(i)
      BY DEF AllFollowed
    <3> HIDE DEF left, new
    <3>6. pending_new_connections' = left
      BY <1>3 DEF left, new
    <3> QED BY <3>1, <3>4, <3>5, <3>6 DEF Followed, new
  <2> QED BY <2>3 DEF AllFollowed
<1> QED BY <1>1, <1>2, <1>5, <1>6

\* Every step moves a connection on, drops it or leaves it where it is.
LEMMA FollowedNext == ASSUME TypeOK, AllFollowed, [Next]_vars PROVE AllFollowed'
<1> USE DEF followVars, swarmVars, transportVars, handlerVars, requestVars, outVars
<1>1. ASSUME NEW r \in Requests, Request(r) PROVE AllFollowed'
  BY <1>1, FollowedSame DEF Request
<1>2. ASSUME NEW l \in Listens, RemoveListener(l) PROVE AllFollowed'
  BY <1>2, FollowedSame DEF RemoveListener
<1>3. ASSUME NEW l \in Listens, ListenerReceive(l) PROVE AllFollowed'
  BY <1>3, ReceiveFollowed
<1>4. CASE TransportReceive
  BY <1>4, FollowedSame DEF TransportReceive
<1>5. CASE OnDialFailure
  BY <1>5, FollowedSame DEF OnDialFailure
<1>6. ASSUME NEW c \in Conns, OnConnectionEstablished(c) PROVE AllFollowed'
  BY <1>6, FollowedSame DEF OnConnectionEstablished
<1>7. ASSUME NEW c \in Conns, OnConnectionClosed(c) PROVE AllFollowed'
  BY <1>7, ClosedFollowed
<1>8. ASSUME NEW c \in Conns, HandlerPoll(c) PROVE AllFollowed'
  <2>1. ASSUME NEW r \in Requests, HandlerPollRequest(c, r) \/ OnUpgradeEnd(c, r)
        PROVE  AllFollowed'
    BY <2>1, FollowedSame DEF HandlerPollRequest, OnUpgradeEnd
  <2> QED BY <1>8, <2>1, NewConnectionFollowed DEF HandlerPoll
<1>9. ASSUME NEW c \in Conns, NEW r \in Requests, UpgradeEnds(c, r) PROVE AllFollowed'
  BY <1>9, FollowedSame DEF UpgradeEnds
<1>10. ASSUME NEW c \in Conns, NEW i \in Forwarded, Accept(c, i) PROVE AllFollowed'
  BY <1>10, AcceptFollowed
<1>11. CASE PollSend \/ PollPending \/ PollDial
  BY <1>11, FollowedSame DEF PollSend, PollPending, PollDial
<1>12. CASE PollPark \/ PollRest
  BY <1>12, DeliverFollowed DEF PollPark, PollRest
<1>13. CASE UNCHANGED vars
  BY <1>13, FollowedSame DEF vars
<1> QED
  BY <1>1, <1>2, <1>3, <1>4, <1>5, <1>6, <1>7, <1>8, <1>9, <1>10, <1>11, <1>12, <1>13
     DEF Next, Poll

\* How many places a value has, in a queue and in a family of queues.
LEMMA Counted ==
  ASSUME NEW s, NEW x
  PROVE  LET at == {k \in DOMAIN s : s[k] = x}
         IN /\ Absent(s, x) => Cardinality(at) = 0
            /\ Once(s, x) => Cardinality(at) = 1
<1> DEFINE at == {k \in DOMAIN s : s[k] = x}
<1>1. ASSUME Absent(s, x) PROVE Cardinality(at) = 0
  <2>1. at = {}
    BY <1>1 DEF Absent
  <2> QED BY <2>1, FS_EmptySet
<1>2. ASSUME Once(s, x) PROVE Cardinality(at) = 1
  <2>1. PICK k : at = {k}
    BY <1>2 DEF Once
  <2> QED BY <2>1, FS_Singleton
<1> QED BY <1>1, <1>2

LEMMA CountedInAll ==
  ASSUME NEW f, NEW x
  PROVE  LET at(s) == {k \in DOMAIN s : s[k] = x}
             all   == UNION {{c} \X at(f[c]) : c \in DOMAIN f}
         IN /\ Nowhere(f, x) => Cardinality(all) = 0
            /\ Single(f, x) => Cardinality(all) = 1
<1> DEFINE at(s) == {k \in DOMAIN s : s[k] = x}
           all   == UNION {{c} \X at(f[c]) : c \in DOMAIN f}
<1>1. ASSUME Nowhere(f, x) PROVE Cardinality(all) = 0
  <2>1. \A c \in DOMAIN f : at(f[c]) = {}
    BY <1>1 DEF Nowhere, Absent
  <2>2. all = {}
    BY <2>1
  <2> QED BY <2>2, FS_EmptySet
<1>2. ASSUME Single(f, x) PROVE Cardinality(all) = 1
  <2>1. PICK c \in DOMAIN f : Once(f[c], x) /\ \A d \in DOMAIN f \ {c} : Absent(f[d], x)
    BY <1>2 DEF Single
  <2>2. PICK k : at(f[c]) = {k}
    BY <2>1 DEF Once
  <2>3. \A d \in DOMAIN f \ {c} : at(f[d]) = {}
    BY <2>1 DEF Absent
  <2> HIDE DEF at
  <2>4. all = {c} \X {k}
    BY <2>2, <2>3
  <2>5. {c} \X {k} = {<<c, k>>}
    OBVIOUS
  <2> QED BY <2>4, <2>5, FS_Singleton
<1> QED BY <1>1, <1>2

\* A connection the relay forwards is never in two places, nor anywhere before
\* its substream came: what a handler gives the behaviour and the behaviour a
\* listener (endpoint/handler.rs:111, endpoint/behaviour.rs:404) is given once.
THEOREM ForwardedOnce == Spec => []InOnePlace
<1>1. ASSUME TypeOK, AllFollowed PROVE InOnePlace
  <2> DEFINE at(s, i)  == {k \in DOMAIN s : s[k] = i}
             behind(i) == Cardinality(at(pending_new_connections, i))
             before(i) == Cardinality(UNION {{c} \X at(pending_inbound[c], i) : c \in Conns})
             after(i)  == Cardinality(UNION {{l} \X at(incoming[l], i) : l \in Listens})
  <2>1. DOMAIN pending_inbound = Conns /\ DOMAIN incoming = Listens
    BY <1>1 DEF TypeOK
  <2>2. ASSUME NEW i \in Forwarded
        PROVE  behind(i) + before(i) + after(i) <= IF i \in arrived THEN 1 ELSE 0
    <3>1. /\ Absent(pending_new_connections, i) => behind(i) = 0
          /\ Once(pending_new_connections, i) => behind(i) = 1
      BY Counted
    <3>2. /\ Nowhere(pending_inbound, i) => before(i) = 0
          /\ Single(pending_inbound, i) => before(i) = 1
      BY <2>1, CountedInAll
    <3>3. /\ Nowhere(incoming, i) => after(i) = 0
          /\ Single(incoming, i) => after(i) = 1
      BY <2>1, CountedInAll
    <3>4. Followed(i)
      BY <1>1 DEF AllFollowed
    <3> HIDE DEF behind, before, after
    <3> QED BY <3>1, <3>2, <3>3, <3>4 DEF Followed
  <2> QED BY <2>2 DEF InOnePlace
<1>2. IInv => TypeOK
  BY DEF IInv
<1> QED BY <1>1, <1>2, FollowedInit, FollowedNext, IInvHolds, PTL DEF Spec

-----------------------------------------------------------------------------
(* A dial is held in one place until it is answered. *)

\* The requests that the events of the handlers are about.
Asked == [c \in Conns |-> [k \in DOMAIN pending_events[c] |-> pending_events[c][k].req]]

Idle(r) == \A c \in Conns : <<c, r>> \notin upgrading
Runs(r) == \E c \in Conns : \A d \in Conns : <<d, r>> \in upgrading <=> d = c

HeldNowhere(r) ==
  /\ Absent(from_transport, r) /\ Absent(waiting, r) /\ Absent(pending, r)
  /\ Idle(r) /\ Nowhere(Asked, r)

HeldOnce(r) ==
  LET sent    == Once(from_transport, r)
      unsent  == Absent(from_transport, r)
      parked  == Absent(pending, r) /\ Idle(r) /\ Nowhere(Asked, r) /\ Once(waiting, r)
      unasked == Absent(waiting, r) /\ Absent(pending, r) /\ Idle(r) /\ Nowhere(Asked, r)
      known   == Absent(waiting, r) /\ Idle(r) /\ Nowhere(Asked, r) /\ Once(pending, r)
      runs    == Absent(waiting, r) /\ Absent(pending, r) /\ Runs(r) /\ Nowhere(Asked, r)
      asked   == Absent(waiting, r) /\ Absent(pending, r) /\ Idle(r) /\ Single(Asked, r)
  IN \/ sent /\ unasked
     \/ unsent /\ (parked \/ known \/ runs \/ asked)

Held(r) == IF answer[r] = "open" THEN HeldOnce(r) ELSE HeldNowhere(r)

AllHeld == \A r \in Dials : Held(r)

heldVars == <<answer, from_transport, waiting, pending, upgrading, pending_events>>

LEMMA HeldInit == Init => AllHeld
<1> SUFFICES ASSUME Init, NEW r \in Dials PROVE Held(r)
  BY DEF AllHeld
<1>1. answer[r] = "none"
  BY DEF Init, Requests
<1>2. Absent(from_transport, r) /\ Absent(waiting, r) /\ Absent(pending, r) /\ Idle(r)
  BY Empty DEF Init, Idle
<1>3. Nowhere(Asked, r)
  BY DEF Init, Asked, Nowhere, Absent
<1> QED BY <1>1, <1>2, <1>3 DEF Held, HeldNowhere

\* A dial for which nothing changes.
LEMMA HeldSame ==
  ASSUME AllHeld, NEW r \in Dials, answer'[r] = answer[r],
         UNCHANGED <<from_transport, waiting, pending, upgrading, pending_events>>
  PROVE  Held(r)'
<1>1. Held(r)
  BY DEF AllHeld
<1>2. Asked' = Asked /\ (Idle(r)' <=> Idle(r)) /\ (Runs(r)' <=> Runs(r))
  BY DEF Asked, Idle, Runs
<1> QED BY <1>1, <1>2 DEF Held, HeldOnce, HeldNowhere

LEMMA AskedTyped ==
  ASSUME TypeOK
  PROVE  /\ DOMAIN Asked = Conns /\ DOMAIN pending_events = Conns
         /\ \A c \in Conns : /\ pending_events[c] \in Seq(Events)
                             /\ Asked[c] \in Seq(Requests)
<1>1. pending_events \in [Conns -> Seq(Events)]
  BY DEF TypeOK
<1>2. ASSUME NEW c \in Conns PROVE Asked[c] \in Seq(Requests)
  <2>1. /\ pending_events[c] \in Seq(Events)
        /\ DOMAIN pending_events[c] = 1..Len(pending_events[c]) /\ Len(pending_events[c]) \in Nat
    BY <1>1
  <2>2. \A k \in 1..Len(pending_events[c]) : pending_events[c][k].req \in Requests
    <3>1. \A k \in 1..Len(pending_events[c]) : pending_events[c][k] \in Events
      BY <2>1
    <3> QED BY <3>1 DEF Events
  <2>3. Asked[c] = [k \in 1..Len(pending_events[c]) |-> pending_events[c][k].req]
    BY <2>1 DEF Asked
  <2> QED BY <2>1, <2>2, <2>3
<1> QED BY <1>1, <1>2 DEF Asked

\* An event is queued.
LEMMA QueueAsked ==
  ASSUME TypeOK, NEW c \in Conns, NEW type \in {"request", "success", "failed"},
         NEW q \in Requests, NEW r \in Requests, Queue(c, type, q)
  PROVE  /\ Nowhere(Asked, r) /\ q # r => Nowhere(Asked', r)
         /\ Nowhere(Asked, r) /\ q = r => Single(Asked', r)
         /\ Single(Asked, r) /\ q # r => Single(Asked', r)
<1> DEFINE e == [type |-> type, req |-> q]
           p == pending_events[c]
<1>1. /\ DOMAIN Asked = Conns /\ DOMAIN pending_events = Conns
      /\ p \in Seq(Events) /\ Asked[c] \in Seq(Requests)
  BY AskedTyped
<1>2. DOMAIN Asked' = Conns /\ \A d \in Conns \ {c} : Asked'[d] = Asked[d]
  BY <1>1 DEF Queue, Asked
<1>3. Asked'[c] = Append(Asked[c], q)
  <2>1. e \in Events /\ e.req = q
    BY DEF Events
  <2>2. pending_events'[c] = Append(p, e)
    BY <1>1 DEF Queue
  <2>3. /\ Len(p) \in Nat /\ DOMAIN p = 1..Len(p) /\ DOMAIN Append(p, e) = 1..Len(p) + 1
        /\ Append(p, e)[Len(p) + 1] = e
        /\ \A k \in 1..Len(p) : Append(p, e)[k] = p[k]
    BY <1>1, <2>1, AppendProperties, LenProperties
  <2>4. Asked[c] = [k \in 1..Len(p) |-> p[k].req]
    BY <2>3 DEF Asked
  <2>5. Asked'[c] = [k \in 1..Len(p) + 1 |-> Append(p, e)[k].req]
    BY <2>2, <2>3 DEF Asked
  <2>6. /\ Len(Asked[c]) = Len(p) /\ DOMAIN Asked[c] = 1..Len(p)
        /\ Append(Asked[c], q) = [k \in 1..Len(p) + 1 |-> IF k = Len(p) + 1 THEN q ELSE Asked[c][k]]
    BY <1>1, <2>3, <2>4
  <2>7. ASSUME NEW k \in 1..Len(p) + 1
        PROVE  Append(p, e)[k].req = IF k = Len(p) + 1 THEN q ELSE Asked[c][k]
    <3>1. CASE k = Len(p) + 1
      BY <2>1, <2>3, <3>1
    <3>2. CASE k # Len(p) + 1
      <4>1. k \in 1..Len(p)
        BY <2>3, <3>2
      <4>2. Append(p, e)[k] = p[k] /\ Asked[c][k] = p[k].req
        BY <2>3, <2>4, <4>1
      <4> QED BY <3>2, <4>2
    <3> QED BY <3>1, <3>2
  <2> QED BY <2>5, <2>6, <2>7
<1>4. /\ Absent(Asked[c], r) /\ q # r => Absent(Asked'[c], r)
      /\ Absent(Asked[c], r) /\ q = r => Once(Asked'[c], r)
      /\ Once(Asked[c], r) /\ q # r => Once(Asked'[c], r)
  BY <1>1, <1>3, Appended
<1>5. Nowhere(Asked, r) => Absent(Asked[c], r)
  BY <1>1 DEF Nowhere
<1> QED BY <1>1, <1>2, <1>4, <1>5, Replaced

\* An event leaves its queue.
LEMMA PopAsked ==
  ASSUME TypeOK, NEW c \in Conns, NEW type, NEW q \in Requests, NEW r \in Requests,
         Pop(c, type, q)
  PROVE  /\ Nowhere(Asked, r) => q # r /\ Nowhere(Asked', r)
         /\ Single(Asked, r) => IF q = r THEN Nowhere(Asked', r) ELSE Single(Asked', r)
<1> DEFINE p == pending_events[c]
<1>1. /\ DOMAIN Asked = Conns /\ DOMAIN pending_events = Conns
      /\ p \in Seq(Events) /\ Asked[c] \in Seq(Requests)
  BY AskedTyped
<1>2. DOMAIN Asked' = Conns /\ \A d \in Conns \ {c} : Asked'[d] = Asked[d]
  BY <1>1 DEF Pop, Asked
<1>3. /\ Asked[c] # <<>> /\ Head(Asked[c]) = q
      /\ Asked'[c] = Tail(Asked[c])
  <2>1. /\ p # <<>> /\ Head(p) = [type |-> type, req |-> q]
        /\ pending_events'[c] = Tail(p)
    BY <1>1 DEF Pop
  <2>2. /\ Len(p) \in Nat /\ Len(p) > 0 /\ DOMAIN p = 1..Len(p) /\ DOMAIN Tail(p) = 1..Len(p) - 1
        /\ Head(p) = p[1]
        /\ \A k \in 1..Len(p) - 1 : Tail(p)[k] = p[k + 1]
    BY <1>1, <2>1
  <2>3. Asked[c] = [k \in 1..Len(p) |-> p[k].req]
    BY <2>2 DEF Asked
  <2>4. Asked'[c] = [k \in 1..Len(p) - 1 |-> Tail(p)[k].req]
    BY <2>1, <2>2 DEF Asked
  <2>5. Len(Asked[c]) = Len(p) /\ Asked[c] # <<>> /\ Head(Asked[c]) = Asked[c][1]
    BY <1>1, <2>2, <2>3
  <2>6. Asked[c][1] = q
    BY <2>1, <2>2, <2>3
  <2>7. \A k \in 1..Len(p) - 1 : Tail(p)[k].req = Asked[c][k + 1]
    BY <2>2, <2>3
  <2>8. Asked'[c] = Tail(Asked[c])
    <3>1. PICK s \in Seq(Requests) : s = Asked[c]
      BY <1>1
    <3>2. PICK t : t = Asked'[c]
      OBVIOUS
    <3>3. /\ s # <<>> /\ Len(s) = Len(p) /\ Len(p) \in Nat \ {0}
          /\ t = [k \in 1..Len(p) - 1 |-> s[k + 1]]
      BY <2>2, <2>4, <2>5, <2>7, <3>1, <3>2
    <3>4. /\ Tail(s) \in Seq(Requests) /\ Len(Tail(s)) = Len(p) - 1
          /\ \A k \in 1..Len(p) - 1 : Tail(s)[k] = s[k + 1]
      BY <3>3, HeadTailProperties
    <3>5. t \in Seq(Requests) /\ Len(t) = Len(p) - 1
      <4>1. \A k \in 1..Len(p) - 1 : s[k + 1] \in Requests
        BY <3>3
      <4> QED BY <3>3, <4>1
    <3>6. t = Tail(s)
      BY <3>3, <3>4, <3>5, SeqEqual
    <3> QED BY <3>1, <3>2, <3>6
  <2> QED BY <2>5, <2>6, <2>8
<1>4. /\ Absent(Asked[c], r) => q # r /\ Absent(Asked'[c], r)
      /\ Once(Asked[c], r) => IF q = r THEN Absent(Asked'[c], r) ELSE Once(Asked'[c], r)
  BY <1>1, <1>3, TakenOff
<1>5. Nowhere(Asked, r) => Absent(Asked[c], r)
  BY <1>1 DEF Nowhere
<1> QED BY <1>1, <1>2, <1>4, <1>5, Replaced

\* The task of a connection ends, and its queue with it.
LEMMA ClosedAsked ==
  ASSUME TypeOK, NEW c \in Conns, NEW r \in Requests,
         pending_events' = [pending_events EXCEPT ![c] = <<>>]
  PROVE  /\ Nowhere(Asked, r) => Nowhere(Asked', r) /\ Absent(Asked[c], r)
         /\ Single(Asked, r) => \/ Absent(Asked[c], r) /\ Single(Asked', r)
                                \/ Once(Asked[c], r) /\ Nowhere(Asked', r)
<1>1. DOMAIN Asked = Conns /\ DOMAIN pending_events = Conns
  BY AskedTyped
<1>2. DOMAIN Asked' = Conns /\ \A d \in Conns \ {c} : Asked'[d] = Asked[d]
  BY <1>1 DEF Asked
<1>3. Absent(Asked'[c], r)
  <2>1. pending_events'[c] = <<>>
    BY <1>1
  <2> QED BY <2>1 DEF Asked, Absent
<1>4. Nowhere(Asked, r) => Absent(Asked[c], r)
  BY <1>1 DEF Nowhere
<1> QED BY <1>1, <1>2, <1>3, <1>4, Replaced

LEMMA Among ==
  ASSUME NEW s, NEW x
  PROVE  (Absent(s, x) => x \notin Range(s)) /\ (Once(s, x) => x \in Range(s))
BY DEF Absent, Once, Range

\* A request is passed on to a handler, or dropped for want of one.
LEMMA DispatchHeld ==
  ASSUME TypeOK, NEW q \in Requests, Dispatch(q), NEW r \in Dials
  PROVE  /\ q # r => /\ answer'[r] = answer[r]
                     /\ Nowhere(Asked, r) => Nowhere(Asked', r)
                     /\ Single(Asked, r) => Single(Asked', r)
         /\ q = r /\ Nowhere(Asked, r) =>
              \/ answer'[r] = answer[r] /\ Single(Asked', r)
              \/ answer'[r] = "canceled" /\ Nowhere(Asked', r)
<1>1. r \in Requests /\ answer \in [Requests -> Answers] /\ live \subseteq Conns
  BY DEF Requests, TypeOK
<1>2. CASE (\E c \in live : Queue(c, "request", q)) /\ UNCHANGED answer
  <2>1. PICK c \in Conns : Queue(c, "request", q)
    BY <1>1, <1>2
  <2> QED BY <1>1, <1>2, <2>1, QueueAsked
<1>3. CASE /\ answer' = IF q \in Dials THEN [answer EXCEPT ![q] = "canceled"] ELSE answer
           /\ UNCHANGED pending_events
  <2>1. Asked' = Asked
    BY <1>3 DEF Asked
  <2>2. answer'[r] = IF q = r THEN "canceled" ELSE answer[r]
    BY <1>1, <1>3
  <2> QED BY <2>1, <2>2
<1> QED BY <1>2, <1>3 DEF Dispatch

\* The requests of a queue fail.
LEMMA FailHeld ==
  ASSUME TypeOK, NEW s, Fail(s), NEW r \in Dials
  PROVE  /\ Absent(s, r) => answer'[r] = answer[r]
         /\ Once(s, r) => answer'[r] = "err"
<1>1. answer'[r] = IF r \in Range(s) THEN "err" ELSE answer[r]
  BY DEF Fail, Requests
<1> QED BY <1>1, Among

\* The swarm makes a request.
LEMMA RequestHeld ==
  ASSUME TypeOK, AllHeld, NEW q \in Requests, Request(q), NEW r \in Dials
  PROVE  Held(r)'
<1>1. /\ r \in Requests /\ answer \in [Requests -> Answers] /\ from_transport \in Seq(Requests)
      /\ answer[q] = "none" /\ answer' = [answer EXCEPT ![q] = "open"]
      /\ from_transport' = Append(from_transport, q)
      /\ UNCHANGED <<waiting, pending, upgrading, pending_events>>
  BY DEF Requests, TypeOK, Request, handlerVars
<1>2. Asked' = Asked /\ (Idle(r)' <=> Idle(r)) /\ (Runs(r)' <=> Runs(r))
  BY <1>1 DEF Asked, Idle, Runs
<1>3. /\ Absent(from_transport, r) /\ q # r => Absent(from_transport', r)
      /\ Absent(from_transport, r) /\ q = r => Once(from_transport', r)
      /\ Once(from_transport, r) /\ q # r => Once(from_transport', r)
  BY <1>1, Appended
<1>4. Held(r)
  BY DEF AllHeld
<1>5. CASE q = r
  <2>1. answer[r] = "none" /\ answer'[r] = "open"
    BY <1>1, <1>5
  <2> QED BY <1>1, <1>2, <1>3, <1>4, <1>5, <2>1 DEF Held, HeldOnce, HeldNowhere
<1>6. CASE q # r
  <2>1. answer'[r] = answer[r]
    BY <1>1, <1>6
  <2> QED BY <1>1, <1>2, <1>3, <1>4, <1>6, <2>1 DEF Held, HeldOnce, HeldNowhere
<1> QED BY <1>5, <1>6

\* The parked requests are to be passed on.
LEMMA EstablishedHeld ==
  ASSUME TypeOK, AllHeld, NEW c \in Conns, OnConnectionEstablished(c), NEW r \in Dials
  PROVE  Held(r)'
<1>1. /\ r \in Requests /\ waiting \in Seq(Requests) /\ pending \in Seq(Requests)
      /\ UNCHANGED <<answer, from_transport, upgrading, pending_events>>
  BY DEF Requests, TypeOK, OnConnectionEstablished, handlerVars, transportVars
<1>2. CASE UNCHANGED <<waiting, pending>>
  BY <1>1, <1>2, HeldSame
<1>3. CASE pending' = pending \o waiting /\ waiting' = <<>>
  <2>1. Asked' = Asked /\ (Idle(r)' <=> Idle(r)) /\ (Runs(r)' <=> Runs(r))
    BY <1>1 DEF Asked, Idle, Runs
  <2>2. /\ Absent(pending, r) /\ Absent(waiting, r) => Absent(pending', r)
        /\ Once(pending, r) /\ Absent(waiting, r) => Once(pending', r)
        /\ Absent(pending, r) /\ Once(waiting, r) => Once(pending', r)
    BY <1>1, <1>3, Joined
  <2>3. Absent(waiting', r) /\ Held(r)
    BY <1>3, Empty DEF AllHeld
  <2> QED BY <1>1, <2>1, <2>2, <2>3 DEF Held, HeldOnce, HeldNowhere
<1> QED BY <1>2, <1>3 DEF OnConnectionEstablished

\* The parked requests fail.
LEMMA DialFailureHeld ==
  ASSUME TypeOK, AllHeld, OnDialFailure, NEW r \in Dials
  PROVE  Held(r)'
<1>1. /\ waiting' = <<>> /\ Fail(waiting)
      /\ UNCHANGED <<from_transport, pending, upgrading, pending_events>>
  BY DEF OnDialFailure, handlerVars
<1>2. Asked' = Asked /\ (Idle(r)' <=> Idle(r)) /\ (Runs(r)' <=> Runs(r))
  BY <1>1 DEF Asked, Idle, Runs
<1>3. /\ Absent(waiting, r) => answer'[r] = answer[r]
      /\ Once(waiting, r) => answer'[r] = "err"
  BY <1>1, FailHeld
<1>4. Absent(waiting', r) /\ Held(r)
  BY <1>1, Empty DEF AllHeld
<1> QED BY <1>1, <1>2, <1>3, <1>4 DEF Held, HeldOnce, HeldNowhere

\* A connection closes, and drops what its handler has.
LEMMA ClosedHeld ==
  ASSUME TypeOK, AllHeld, NEW c \in Conns, OnConnectionClosed(c), NEW r \in Dials
  PROVE  Held(r)'
<1>1. /\ r \in Requests /\ upgrading \subseteq Conns \X Requests
      /\ pending_events' = [pending_events EXCEPT ![c] = <<>>]
      /\ upgrading' = {u \in upgrading : u[1] # c}
      /\ UNCHANGED <<from_transport, waiting, pending>>
  BY DEF Requests, TypeOK, OnConnectionClosed
<1>2. answer'[r] = IF r \in HeldBy(c) THEN "canceled" ELSE answer[r]
  BY <1>1 DEF OnConnectionClosed
<1>3. r \in HeldBy(c) <=> <<c, r>> \in upgrading \/ ~ Absent(Asked[c], r)
  <2>1. (\E e \in Range(pending_events[c]) : e.req = r) <=> ~ Absent(Asked[c], r)
    BY DEF Range, Absent, Asked
  <2> QED BY <1>1, <2>1 DEF HeldBy
<1>4. \A d \in Conns : <<d, r>> \in upgrading' <=> <<d, r>> \in upgrading /\ d # c
  BY <1>1
<1>5. /\ Idle(r) => Idle(r)' /\ <<c, r>> \notin upgrading
      /\ Runs(r) => IF <<c, r>> \in upgrading THEN Idle(r)' ELSE Runs(r)'
  BY <1>4 DEF Idle, Runs
<1>6. /\ Nowhere(Asked, r) => Nowhere(Asked', r) /\ Absent(Asked[c], r)
      /\ Single(Asked, r) => \/ Absent(Asked[c], r) /\ Single(Asked', r)
                             \/ Once(Asked[c], r) /\ Nowhere(Asked', r)
  BY <1>1, ClosedAsked
<1>7. Once(Asked[c], r) => ~ Absent(Asked[c], r)
  BY DEF Once, Absent
<1>8. Held(r)
  BY DEF AllHeld
<1> QED BY <1>1, <1>2, <1>3, <1>5, <1>6, <1>7, <1>8 DEF Held, HeldOnce, HeldNowhere

\* A handler starts the upgrade of a request, and queues how it ended.
LEMMA UpgradeHeld ==
  ASSUME TypeOK, AllHeld, NEW c \in Conns, NEW q \in Requests, NEW r \in Dials,
         HandlerPollRequest(c, q) \/ UpgradeEnds(c, q)
  PROVE  Held(r)'
<1>1. r \in Requests /\ UNCHANGED <<answer, from_transport, waiting, pending>>
  BY DEF Requests, HandlerPollRequest, UpgradeEnds, transportVars, requestVars
<1>2. Held(r)
  BY DEF AllHeld
<1>3. CASE HandlerPollRequest(c, q)
  <2>1. Pop(c, "request", q) /\ upgrading' = upgrading \cup {<<c, q>>}
    BY <1>3 DEF HandlerPollRequest
  <2>2. /\ Nowhere(Asked, r) => q # r /\ Nowhere(Asked', r)
        /\ Single(Asked, r) => IF q = r THEN Nowhere(Asked', r) ELSE Single(Asked', r)
    BY <1>1, <2>1, PopAsked
  <2>3. \A d \in Conns : <<d, r>> \in upgrading' <=> <<d, r>> \in upgrading \/ (d = c /\ q = r)
    BY <2>1
  <2>4. /\ Idle(r) /\ q # r => Idle(r)'
        /\ Idle(r) /\ q = r => Runs(r)'
        /\ Runs(r) /\ q # r => Runs(r)'
    BY <2>3 DEF Idle, Runs
  <2> QED BY <1>1, <1>2, <2>2, <2>4 DEF Held, HeldOnce, HeldNowhere
<1>4. CASE UpgradeEnds(c, q)
  <2>1. PICK type \in {"success", "failed"} : Queue(c, type, q)
    BY <1>4 DEF UpgradeEnds
  <2>2. <<c, q>> \in upgrading /\ upgrading' = upgrading \ {<<c, q>>}
    BY <1>4 DEF UpgradeEnds
  <2>3. /\ Nowhere(Asked, r) /\ q # r => Nowhere(Asked', r)
        /\ Nowhere(Asked, r) /\ q = r => Single(Asked', r)
        /\ Single(Asked, r) /\ q # r => Single(Asked', r)
    BY <1>1, <2>1, QueueAsked
  <2>4. \A d \in Conns : <<d, r>> \in upgrading' <=> <<d, r>> \in upgrading /\ ~ (d = c /\ q = r)
    BY <2>2
  <2>5. /\ Idle(r) => q # r /\ Idle(r)'
        /\ Runs(r) => IF q = r THEN Idle(r)' ELSE Runs(r)'
    BY <2>2, <2>4 DEF Idle, Runs
  <2> QED BY <1>1, <1>2, <2>3, <2>5 DEF Held, HeldOnce, HeldNowhere
<1> QED BY <1>3, <1>4

\* The behaviour answers the dial that a handler is done with.
LEMMA UpgradeEndHeld ==
  ASSUME TypeOK, AllHeld, NEW c \in Conns, NEW q \in Requests, OnUpgradeEnd(c, q), NEW r \in Dials
  PROVE  Held(r)'
<1>1. /\ r \in Requests /\ answer \in [Requests -> Answers]
      /\ UNCHANGED <<from_transport, waiting, pending, upgrading>>
  BY DEF Requests, TypeOK, OnUpgradeEnd, requestVars
<1>2. PICK type \in {"success", "failed"} :
        /\ Pop(c, type, q)
        /\ IF q \in Dials
             THEN answer' = [answer EXCEPT ![q] = IF type = "success" THEN "ok" ELSE "err"]
             ELSE UNCHANGED answer
  BY DEF OnUpgradeEnd
<1>3. /\ Nowhere(Asked, r) => q # r /\ Nowhere(Asked', r)
      /\ Single(Asked, r) => IF q = r THEN Nowhere(Asked', r) ELSE Single(Asked', r)
  BY <1>1, <1>2, PopAsked
<1>4. (Idle(r)' <=> Idle(r)) /\ (Runs(r)' <=> Runs(r))
  BY <1>1 DEF Idle, Runs
<1>5. IF q = r THEN answer'[r] # "open" ELSE answer'[r] = answer[r]
  BY <1>1, <1>2
<1>6. Held(r)
  BY DEF AllHeld
<1> QED BY <1>1, <1>3, <1>4, <1>5, <1>6 DEF Held, HeldOnce, HeldNowhere

\* A request of the queue is passed on.
LEMMA PollSendHeld ==
  ASSUME TypeOK, AllHeld, PollSend \/ PollPending, NEW r \in Dials
  PROVE  Held(r)'
<1>1. r \in Requests /\ UNCHANGED <<waiting, upgrading>> /\ Held(r)
  BY DEF Requests, PollSend, PollPending, AllHeld
<1>2. (Idle(r)' <=> Idle(r)) /\ (Runs(r)' <=> Runs(r))
  BY <1>1 DEF Idle, Runs
<1>3. CASE PollSend
  <2> DEFINE q == Head(from_transport)
  <2>1. /\ from_transport \in Seq(Requests) /\ from_transport # <<>> /\ q \in Requests
        /\ from_transport' = Tail(from_transport) /\ Dispatch(q) /\ UNCHANGED pending
    BY <1>3 DEF TypeOK, PollSend
  <2>2. /\ Absent(from_transport, r) => q # r /\ Absent(from_transport', r)
        /\ Once(from_transport, r) =>
             IF q = r THEN Absent(from_transport', r) ELSE Once(from_transport', r)
    BY <1>1, <2>1, TakenOff
  <2> HIDE DEF q
  <2>3. /\ q # r => /\ answer'[r] = answer[r]
                    /\ Nowhere(Asked, r) => Nowhere(Asked', r)
                    /\ Single(Asked, r) => Single(Asked', r)
        /\ q = r /\ Nowhere(Asked, r) =>
             \/ answer'[r] = answer[r] /\ Single(Asked', r)
             \/ answer'[r] = "canceled" /\ Nowhere(Asked', r)
    BY <2>1, DispatchHeld
  <2> QED BY <1>1, <1>2, <2>1, <2>2, <2>3 DEF Held, HeldOnce, HeldNowhere
<1>4. CASE PollPending
  <2> DEFINE q == Head(pending)
  <2>1. /\ pending \in Seq(Requests) /\ pending # <<>> /\ q \in Requests
        /\ pending' = Tail(pending) /\ Dispatch(q) /\ UNCHANGED from_transport
    BY <1>4 DEF TypeOK, PollPending
  <2>2. /\ Absent(pending, r) => q # r /\ Absent(pending', r)
        /\ Once(pending, r) => IF q = r THEN Absent(pending', r) ELSE Once(pending', r)
    BY <1>1, <2>1, TakenOff
  <2> HIDE DEF q
  <2>3. /\ q # r => /\ answer'[r] = answer[r]
                    /\ Nowhere(Asked, r) => Nowhere(Asked', r)
                    /\ Single(Asked, r) => Single(Asked', r)
        /\ q = r /\ Nowhere(Asked, r) =>
             \/ answer'[r] = answer[r] /\ Single(Asked', r)
             \/ answer'[r] = "canceled" /\ Nowhere(Asked', r)
    BY <2>1, DispatchHeld
  <2> QED BY <1>1, <1>2, <2>1, <2>2, <2>3 DEF Held, HeldOnce, HeldNowhere
<1> QED BY <1>3, <1>4

\* A request is parked: it waits for the dial, or fails at once with the rest.
LEMMA PollParkHeld ==
  ASSUME TypeOK, AllHeld, PollDial \/ PollPark, NEW r \in Dials
  PROVE  Held(r)'
<1> DEFINE q == Head(from_transport)
           parked == Append(waiting, q)
<1>1. /\ r \in Requests /\ from_transport \in Seq(Requests) /\ from_transport # <<>>
      /\ waiting \in Seq(Requests) /\ q \in Requests
      /\ from_transport' = Tail(from_transport)
      /\ UNCHANGED <<pending, upgrading, pending_events>>
  BY DEF Requests, TypeOK, PollDial, PollPark, handlerVars
<1>2. Asked' = Asked /\ (Idle(r)' <=> Idle(r)) /\ (Runs(r)' <=> Runs(r))
  BY <1>1 DEF Asked, Idle, Runs
<1>3. /\ Absent(from_transport, r) => q # r /\ Absent(from_transport', r)
      /\ Once(from_transport, r) =>
           IF q = r THEN Absent(from_transport', r) ELSE Once(from_transport', r)
  BY <1>1, TakenOff
<1>4. /\ Absent(waiting, r) /\ q # r => Absent(parked, r)
      /\ Absent(waiting, r) /\ q = r => Once(parked, r)
      /\ Once(waiting, r) /\ q # r => Once(parked, r)
  BY <1>1, Appended
<1>5. \/ waiting' = parked /\ UNCHANGED answer
      \/ waiting' = <<>> /\ Fail(parked)
  BY DEF PollDial, PollPark
<1>6. Held(r)
  BY DEF AllHeld
<1>7. CASE waiting' = parked /\ UNCHANGED answer
  <2> HIDE DEF q, parked
  <2> QED BY <1>1, <1>2, <1>3, <1>4, <1>6, <1>7 DEF Held, HeldOnce, HeldNowhere
<1>8. CASE waiting' = <<>> /\ Fail(parked)
  <2>1. /\ Absent(parked, r) => answer'[r] = answer[r]
        /\ Once(parked, r) => answer'[r] = "err"
    BY <1>8, FailHeld
  <2>2. Absent(waiting', r)
    BY <1>8, Empty
  <2> HIDE DEF q, parked
  <2> QED BY <1>1, <1>2, <1>3, <1>4, <1>6, <2>1, <2>2 DEF Held, HeldOnce, HeldNowhere
<1> QED BY <1>5, <1>7, <1>8

\* Every step passes a dial's sender on, answers or drops it, or leaves it
\* where it is.
LEMMA HeldNext == ASSUME TypeOK, AllHeld, [Next]_vars PROVE AllHeld'
<1> SUFFICES ASSUME NEW r \in Dials PROVE Held(r)'
  BY DEF AllHeld
<1> USE DEF swarmVars, transportVars, handlerVars, requestVars, outVars
<1>1. ASSUME NEW q \in Requests, Request(q) PROVE Held(r)'
  BY <1>1, RequestHeld
<1>2. ASSUME NEW l \in Listens, RemoveListener(l) \/ ListenerReceive(l) PROVE Held(r)'
  BY <1>2, HeldSame DEF RemoveListener, ListenerReceive
<1>3. CASE TransportReceive
  <2>1. r \in Requests /\ r \notin Listens
    BY RequestsDisjoint DEF Requests
  <2>2. Head(to_transport) \in Told
    BY <1>3 DEF TransportReceive, TypeOK
  <2>3. Head(to_transport).type \in {"ListenSuccess", "ListenFailed"} => Head(to_transport).req # r
    BY <2>1, <2>2 DEF Told
  <2>4. answer'[r] = answer[r]
    BY <1>3, <2>1, <2>3 DEF TransportReceive
  <2> QED BY <1>3, <2>4, HeldSame DEF TransportReceive
<1>4. CASE OnDialFailure
  BY <1>4, DialFailureHeld
<1>5. ASSUME NEW c \in Conns, OnConnectionEstablished(c) PROVE Held(r)'
  BY <1>5, EstablishedHeld
<1>6. ASSUME NEW c \in Conns, OnConnectionClosed(c) PROVE Held(r)'
  BY <1>6, ClosedHeld
<1>7. ASSUME NEW c \in Conns, HandlerPoll(c) PROVE Held(r)'
  <2>1. CASE OnNewConnection(c)
    BY <2>1, HeldSame DEF OnNewConnection
  <2>2. ASSUME NEW q \in Requests, HandlerPollRequest(c, q) \/ OnUpgradeEnd(c, q) PROVE Held(r)'
    BY <2>2, UpgradeHeld, UpgradeEndHeld
  <2> QED BY <1>7, <2>1, <2>2 DEF HandlerPoll
<1>8. ASSUME NEW c \in Conns, NEW q \in Requests, UpgradeEnds(c, q) PROVE Held(r)'
  BY <1>8, UpgradeHeld
<1>9. ASSUME NEW c \in Conns, NEW i \in Forwarded, Accept(c, i) PROVE Held(r)'
  BY <1>9, HeldSame DEF Accept
<1>10. CASE PollSend \/ PollPending
  BY <1>10, PollSendHeld
<1>11. CASE PollDial \/ PollPark
  BY <1>11, PollParkHeld
<1>12. CASE PollRest
  BY <1>12, HeldSame DEF PollRest
<1>13. CASE UNCHANGED vars
  BY <1>13, HeldSame DEF vars
<1> QED
  BY <1>1, <1>2, <1>3, <1>4, <1>5, <1>6, <1>7, <1>8, <1>9, <1>10, <1>11, <1>12, <1>13
     DEF Next, Poll

\* How many upgrades run for a request.
LEMMA UpgradesCounted ==
  ASSUME TypeOK, NEW r
  PROVE  LET running == {u \in upgrading : u[2] = r}
         IN /\ Idle(r) => Cardinality(running) = 0
            /\ Runs(r) => Cardinality(running) = 1
<1> DEFINE running == {u \in upgrading : u[2] = r}
<1>1. upgrading \subseteq Conns \X Requests
  BY DEF TypeOK
<1>2. \A u \in running : \E c \in Conns : u = <<c, r>>
  BY <1>1
<1>3. ASSUME Idle(r) PROVE Cardinality(running) = 0
  <2>1. running = {}
    BY <1>2, <1>3 DEF Idle
  <2> QED BY <2>1, FS_EmptySet
<1>4. ASSUME Runs(r) PROVE Cardinality(running) = 1
  <2>1. PICK c \in Conns : \A d \in Conns : <<d, r>> \in upgrading <=> d = c
    BY <1>4 DEF Runs
  <2>2. <<c, r>> \in running
    BY <2>1
  <2>3. running = {<<c, r>>}
    BY <1>2, <2>1, <2>2
  <2> QED BY <2>3, FS_Singleton
<1> QED BY <1>3, <1>4

\* No dial is lost, sent to the relay twice or answered twice: whatever fails,
\* closes or is overtaken (endpoint/behaviour.rs:116, 145 and 350), its sender is
\* in one place until it is answered or dropped, and in none afterwards.
THEOREM DialsHeldOnce == Spec => []OneHolder
<1>1. ASSUME TypeOK, AllHeld, NEW r \in Dials
      PROVE  Holders(r) = IF answer[r] = "open" THEN 1 ELSE 0
  <2> DEFINE held(s) == Cardinality({k \in DOMAIN s : s[k] = r})
             of(c)   == {k \in DOMAIN pending_events[c] : pending_events[c][k].req = r}
             running == Cardinality({u \in upgrading : u[2] = r})
             asked   == Cardinality(UNION {{c} \X of(c) : c \in Conns})
             sent    == held(from_transport)
             parked  == held(waiting)
             known   == held(pending)
  <2>1. Holders(r) = sent + parked + known + running + asked
    BY DEF Holders
  <2>2. /\ Absent(from_transport, r) => sent = 0
        /\ Once(from_transport, r) => sent = 1
    BY Counted
  <2>3. /\ Absent(waiting, r) => parked = 0
        /\ Once(waiting, r) => parked = 1
    BY Counted
  <2>4. /\ Absent(pending, r) => known = 0
        /\ Once(pending, r) => known = 1
    BY Counted
  <2>5. /\ Idle(r) => running = 0
        /\ Runs(r) => running = 1
    BY <1>1, UpgradesCounted
  <2>6. /\ Nowhere(Asked, r) => asked = 0
        /\ Single(Asked, r) => asked = 1
    <3> DEFINE at(s) == {k \in DOMAIN s : s[k] = r}
    <3>1. DOMAIN Asked = Conns
      BY DEF Asked
    <3>2. \A c \in Conns : of(c) = at(Asked[c])
      BY DEF Asked
    <3>3. /\ Nowhere(Asked, r) => Cardinality(UNION {{c} \X at(Asked[c]) : c \in Conns}) = 0
          /\ Single(Asked, r) => Cardinality(UNION {{c} \X at(Asked[c]) : c \in Conns}) = 1
      BY <3>1, CountedInAll
    <3> HIDE DEF of, at
    <3>4. {{c} \X of(c) : c \in Conns} = {{c} \X at(Asked[c]) : c \in Conns}
      BY <3>2
    <3> QED BY <3>3, <3>4
  <2>7. IF answer[r] = "open" THEN HeldOnce(r) ELSE HeldNowhere(r)
    BY <1>1 DEF AllHeld, Held
  <2> HIDE DEF sent, parked, known, running, asked
  <2> QED BY <2>1, <2>2, <2>3, <2>4, <2>5, <2>6, <2>7 DEF HeldOnce, HeldNowhere
<1>2. TypeOK /\ AllHeld => OneHolder
  BY <1>1 DEF OneHolder
<1>3. IInv => TypeOK
  BY DEF IInv
<1> QED BY <1>2, <1>3, HeldInit, HeldNext, IInvHolds, PTL DEF Spec

-----------------------------------------------------------------------------
(* The endpoint keeps its promises: EndpointBehaviour implements             *)
(* EndpointService.                                                          *)

\* What the swarm knows of its dials, and the connections held for a listener.
Answered   == [d \in Dials |-> answer[d]]
AtEndpoint ==
  Range(pending_new_connections) \cup UNION {Range(pending_inbound[c]) : c \in Conns}

\* Only a listener that was asked for gets connections.
GivenToRequested == \A l \in Listens : incoming[l] # <<>> => l \in Requested

\* What a queue holds, with one element more or less.
LEMMA Ranges ==
  ASSUME NEW S, NEW s \in Seq(S)
  PROVE  /\ \A x \in S : Range(Append(s, x)) = Range(s) \cup {x}
         /\ s # <<>> => Range(s) = Range(Tail(s)) \cup {Head(s)}
<1>1. DOMAIN s = 1..Len(s) /\ Len(s) \in Nat
  OBVIOUS
<1>2. ASSUME NEW x \in S
      PROVE  Range(Append(s, x)) = Range(s) \cup {x}
  <2> DEFINE t == Append(s, x)
             n == Len(s) + 1
  <2>1. DOMAIN t = 1..n /\ t[n] = x /\ \A k \in DOMAIN s : t[k] = s[k]
    BY <1>1, AppendProperties
  <2>2. \A k : k \in DOMAIN t <=> k = n \/ k \in DOMAIN s
    BY <1>1, <2>1
  <2> HIDE DEF t, n
  <2>3. Range(t) = Range(s) \cup {x}
    BY <2>1, <2>2 DEF Range
  <2> QED BY <2>3 DEF t
<1>3. ASSUME s # <<>>
      PROVE  Range(s) = Range(Tail(s)) \cup {Head(s)}
  <2> DEFINE t == Tail(s)
  <2>1. /\ DOMAIN t = 1..Len(s) - 1 /\ \A k \in DOMAIN t : t[k] = s[k + 1]
        /\ Head(s) = s[1] /\ 1 \in DOMAIN s
    BY <1>1, <1>3, EmptySeq
  <2>2. /\ \A k \in DOMAIN t : k + 1 \in DOMAIN s
        /\ \A k \in DOMAIN s : k = 1 \/ (k - 1 \in DOMAIN t /\ (k - 1) + 1 = k)
    BY <1>1, <2>1
  <2> HIDE DEF t
  <2>3. ASSUME NEW x \in Range(s)
        PROVE  x = Head(s) \/ x \in Range(t)
    <3>1. PICK k \in DOMAIN s : s[k] = x
      BY DEF Range
    <3>2. CASE k = 1
      BY <2>1, <3>1, <3>2
    <3>3. CASE k # 1
      <4>1. k - 1 \in DOMAIN t /\ t[k - 1] = s[k]
        BY <2>1, <2>2, <3>3
      <4> QED BY <3>1, <4>1 DEF Range
    <3> QED BY <3>2, <3>3
  <2>4. Head(s) \in Range(s) /\ Range(t) \subseteq Range(s)
    BY <2>1, <2>2 DEF Range
  <2> QED BY <2>3, <2>4 DEF t
<1> QED BY <1>2, <1>3

\* What was appended to a queue is what follows what it held.
LEMMA Following ==
  ASSUME NEW S, NEW s \in Seq(S), NEW t \in Seq(S)
  PROVE  SubSeq(s \o t, Len(s) + 1, Len(s \o t)) = t
<1> DEFINE u == s \o t
           w == SubSeq(u, Len(s) + 1, Len(u))
<1>1. /\ u \in Seq(S) /\ Len(u) = Len(s) + Len(t) /\ Len(s) \in Nat /\ Len(t) \in Nat
      /\ \A k \in 1..Len(t) : u[Len(s) + k] = t[k]
  BY ConcatProperties
<1> HIDE DEF u
<1>2. /\ w \in Seq(S) /\ Len(w) = Len(t)
      /\ \A k \in 1..Len(t) : w[k] = u[Len(s) + k]
  BY <1>1
<1>3. w = t
  BY <1>1, <1>2, SeqEqual
<1> QED BY <1>3 DEF u

\* A dial that is not waiting for an answer gets none.
LEMMA AnsweredOnce ==
  ASSUME TypeOK, AllHeld, [Next]_vars, NEW r \in Dials, answer[r] # "open", ~ Request(r)
  PROVE  answer'[r] = answer[r]
<1> USE DEF swarmVars, transportVars, handlerVars, requestVars, outVars
<1>1. HeldNowhere(r) /\ r \in Requests
  BY DEF AllHeld, Held, Requests
<1>2. ASSUME NEW q \in Requests, Request(q)
      PROVE  answer'[r] = answer[r]
  <2>1. q # r
    BY <1>2
  <2> QED BY <1>1, <1>2, <2>1 DEF Request, TypeOK
<1>3. ASSUME TransportReceive
      PROVE  answer'[r] = answer[r]
  <2>1. r \notin Listens
    BY RequestsDisjoint
  <2>2. Head(to_transport) \in Told
    BY <1>3 DEF TransportReceive, TypeOK
  <2>3. Head(to_transport).type \in {"ListenSuccess", "ListenFailed"} => Head(to_transport).req # r
    BY <2>1, <2>2 DEF Told
  <2> QED BY <1>1, <1>3, <2>3 DEF TransportReceive
<1>4. ASSUME OnDialFailure
      PROVE  answer'[r] = answer[r]
  BY <1>1, <1>4, FailHeld DEF OnDialFailure, HeldNowhere
<1>5. ASSUME NEW c \in Conns, OnConnectionClosed(c)
      PROVE  answer'[r] = answer[r]
  <2>1. <<c, r>> \notin upgrading
    BY <1>1 DEF HeldNowhere, Idle
  <2>2. Absent(Asked[c], r)
    BY <1>1 DEF HeldNowhere, Nowhere, Asked
  <2>3. (\E e \in Range(pending_events[c]) : e.req = r) <=> ~ Absent(Asked[c], r)
    BY DEF Range, Absent, Asked
  <2>4. r \notin HeldBy(c)
    BY <2>1, <2>2, <2>3 DEF HeldBy
  <2> QED BY <1>1, <1>5, <2>4 DEF OnConnectionClosed
<1>6. ASSUME NEW c \in Conns, NEW q \in Requests, OnUpgradeEnd(c, q)
      PROVE  answer'[r] = answer[r]
  <2>1. PICK type : Pop(c, type, q)
    BY <1>6 DEF OnUpgradeEnd
  <2>2. q # r
    BY <1>1, <2>1, PopAsked DEF HeldNowhere
  <2> QED BY <1>1, <1>6, <2>2 DEF OnUpgradeEnd, TypeOK
<1>7. ASSUME PollSend
      PROVE  answer'[r] = answer[r]
  <2>1. /\ from_transport \in Seq(Requests) /\ from_transport # <<>>
        /\ Head(from_transport) \in Requests /\ Dispatch(Head(from_transport))
    BY <1>7 DEF TypeOK, PollSend
  <2>2. Head(from_transport) # r
    BY <1>1, <2>1, TakenOff DEF HeldNowhere
  <2> QED BY <2>1, <2>2, DispatchHeld
<1>8. ASSUME PollPending
      PROVE  answer'[r] = answer[r]
  <2>1. /\ pending \in Seq(Requests) /\ pending # <<>>
        /\ Head(pending) \in Requests /\ Dispatch(Head(pending))
    BY <1>8 DEF TypeOK, PollPending
  <2>2. Head(pending) # r
    BY <1>1, <2>1, TakenOff DEF HeldNowhere
  <2> QED BY <2>1, <2>2, DispatchHeld
<1>9. ASSUME PollDial
      PROVE  answer'[r] = answer[r]
  <2> DEFINE parked == Append(waiting, Head(from_transport))
  <2>1. /\ from_transport \in Seq(Requests) /\ from_transport # <<>>
        /\ Head(from_transport) \in Requests /\ waiting \in Seq(Requests)
    BY <1>9 DEF TypeOK, PollDial
  <2>2. Absent(parked, r)
    BY <1>1, <2>1, TakenOff, Appended DEF HeldNowhere
  <2>3. UNCHANGED answer \/ Fail(parked)
    BY <1>9 DEF PollDial
  <2> QED BY <2>2, <2>3, FailHeld
<1>10. \/ UNCHANGED answer
       \/ \E q \in Requests : Request(q)
       \/ TransportReceive \/ OnDialFailure \/ PollSend \/ PollPending \/ PollDial
       \/ \E c \in Conns : \/ OnConnectionClosed(c)
                           \/ \E q \in Requests : OnUpgradeEnd(c, q)
  BY DEF Next, RemoveListener, ListenerReceive, OnConnectionEstablished, HandlerPoll,
         OnNewConnection, HandlerPollRequest, UpgradeEnds, Accept, Poll, PollPark, PollRest,
         vars
<1> QED BY <1>2, <1>3, <1>4, <1>5, <1>6, <1>7, <1>8, <1>9, <1>10

\* What is held for a listener, place by place.
LEMMA AtEndpointPlaces ==
  ASSUME TypeOK, NEW i
  PROVE  i \notin AtEndpoint <=> Absent(pending_new_connections, i) /\ Nowhere(pending_inbound, i)
<1>1. DOMAIN pending_inbound = Conns
  BY DEF TypeOK
<1> QED BY <1>1 DEF AtEndpoint, Absent, Nowhere, Range

\* A connection is held from when it came; from then on it is passed on.
LEMMA AtEndpointStep ==
  ASSUME TypeOK, TypeOK', [Next]_vars
  PROVE  /\ \A c \in Conns, i \in Forwarded : Accept(c, i) => AtEndpoint' = AtEndpoint \cup {i}
         /\ \/ \E c \in Conns, i \in Forwarded : Accept(c, i)
            \/ DeliverAndFlush /\ UNCHANGED <<answer, pending_inbound>>
            \/ AtEndpoint' \subseteq AtEndpoint
<1> USE DEF swarmVars, transportVars, handlerVars, requestVars, outVars
<1>1. pending_inbound \in [Conns -> Seq(Forwarded)] /\ pending_new_connections \in Seq(Forwarded)
  BY DEF TypeOK
<1>2. ASSUME NEW c \in Conns, NEW i \in Forwarded, Accept(c, i)
      PROVE  AtEndpoint' = AtEndpoint \cup {i}
  <2>1. /\ pending_inbound'[c] = Append(pending_inbound[c], i)
        /\ \A d \in Conns \ {c} : pending_inbound'[d] = pending_inbound[d]
        /\ UNCHANGED pending_new_connections
    BY <1>1, <1>2 DEF Accept
  <2>2. Range(pending_inbound'[c]) = Range(pending_inbound[c]) \cup {i}
    BY <1>1, <2>1, Ranges
  <2> QED BY <2>1, <2>2 DEF AtEndpoint
<1>3. ASSUME NEW c \in Conns, OnNewConnection(c)
      PROVE  AtEndpoint' \subseteq AtEndpoint
  <2> DEFINE q == pending_inbound[c]
  <2>1. /\ q \in Seq(Forwarded) /\ q # <<>> /\ Head(q) \in Forwarded
        /\ pending_inbound'[c] = Tail(q)
        /\ \A d \in Conns \ {c} : pending_inbound'[d] = pending_inbound[d]
        /\ pending_new_connections' = Append(pending_new_connections, Head(q))
    BY <1>1, <1>3 DEF OnNewConnection
  <2>2. Range(q) = Range(Tail(q)) \cup {Head(q)}
    BY <2>1, Ranges
  <2>3. Range(pending_new_connections') = Range(pending_new_connections) \cup {Head(q)}
    BY <1>1, <2>1, Ranges
  <2>4. \A d \in Conns : Range(pending_inbound'[d]) \subseteq Range(pending_inbound[d])
    BY <2>1, <2>2
  <2>5. Head(q) \in AtEndpoint
    BY <2>2 DEF AtEndpoint
  <2> QED BY <2>3, <2>4, <2>5 DEF AtEndpoint
<1>4. ASSUME NEW c \in Conns, OnConnectionClosed(c)
      PROVE  AtEndpoint' \subseteq AtEndpoint
  <2>1. /\ pending_inbound'[c] = <<>> /\ UNCHANGED pending_new_connections
        /\ \A d \in Conns \ {c} : pending_inbound'[d] = pending_inbound[d]
    BY <1>1, <1>4 DEF OnConnectionClosed
  <2>2. Range(<<>>) = {}
    BY DEF Range
  <2>3. \A d \in Conns : Range(pending_inbound'[d]) \subseteq Range(pending_inbound[d])
    BY <2>1, <2>2
  <2> QED BY <2>1, <2>3 DEF AtEndpoint
<1>5. ASSUME UNCHANGED <<pending_inbound, pending_new_connections>>
      PROVE  AtEndpoint' \subseteq AtEndpoint
  BY <1>5 DEF AtEndpoint
<1>6. \/ UNCHANGED <<pending_inbound, pending_new_connections>>
      \/ DeliverAndFlush /\ UNCHANGED <<answer, pending_inbound>>
      \/ \E c \in Conns : \/ OnNewConnection(c) \/ OnConnectionClosed(c)
                          \/ \E i \in Forwarded : Accept(c, i)
  BY DEF Next, Request, RemoveListener, ListenerReceive, TransportReceive, OnDialFailure,
         OnConnectionEstablished, HandlerPoll, HandlerPollRequest, OnUpgradeEnd, UpgradeEnds,
         Poll, PollSend, PollPending, PollDial, PollPark, PollRest, vars
<1> QED BY <1>2, <1>3, <1>4, <1>5, <1>6

\* A poll gives an open listener what it takes from the first that wait, and
\* may lose one more (endpoint/behaviour.rs:404-479).
LEMMA DeliverGives ==
  ASSUME IInv, AllFollowed, DeliverAndFlush, UNCHANGED pending_inbound
  PROVE  \/ UNCHANGED incoming /\ AtEndpoint' \subseteq AtEndpoint
         \/ \E l \in Open : \E sent \in Seq(Forwarded) :
              /\ incoming' = [incoming EXCEPT ![l] = @ \o sent]
              /\ IsInjective(sent) /\ Range(sent) \subseteq AtEndpoint
              /\ \A i \in Range(sent) : ListenAddr[i] = LocalAddr[l]
              /\ AtEndpoint' \subseteq AtEndpoint \ Range(sent)
<1> DEFINE new == pending_new_connections
<1>1. PICK n \in 0..Len(new) :
        /\ Fits(n)
        /\ incoming' = [l \in Listens |->
             IF n > 0 /\ l = ListenerOf(new[1]) THEN incoming[l] \o SubSeq(new, 1, n)
                                                ELSE incoming[l]]
        /\ \/ pending_new_connections' = SubSeq(new, n + 1, Len(new))
           \/ n < Len(new) /\ pending_new_connections' = SubSeq(new, n + 2, Len(new))
  BY DEF DeliverAndFlush, PutBack
<1>2. /\ new \in Seq(Forwarded) /\ Len(new) \in Nat /\ incoming \in [Listens -> Seq(Forwarded)]
      /\ DOMAIN new = 1..Len(new)
  BY DEF IInv, TypeOK
<1>3. PICK m \in n..Len(new) : new' = SubSeq(new, m + 1, Len(new))
  <2>1. CASE new' = SubSeq(new, n + 1, Len(new))
    BY <1>2, <2>1
  <2>2. CASE n < Len(new) /\ new' = SubSeq(new, n + 2, Len(new))
    <3>1. n + 1 \in n..Len(new) /\ (n + 1) + 1 = n + 2
      BY <1>2, <2>2
    <3> QED BY <2>2, <3>1
  <2> QED BY <1>1, <2>1, <2>2
<1> DEFINE sent == SubSeq(new, 1, n)
<1>4. /\ sent \in Seq(Forwarded) /\ DOMAIN sent = 1..n
      /\ \A k \in 1..n : k \in DOMAIN new /\ sent[k] = new[k]
  BY <1>1, <1>2
<1>5. ASSUME NEW i \in Forwarded, i \in AtEndpoint'
      PROVE  i \in AtEndpoint /\ i \notin Range(sent)
  <2>1. /\ Absent(new, i) => Absent(sent, i) /\ Absent(new', i)
        /\ Once(new, i) => \/ Once(sent, i) /\ Absent(new', i)
                           \/ Absent(sent, i) /\ Absent(new', i)
                           \/ Absent(sent, i) /\ Once(new', i)
    BY <1>2, <1>3, Parted
  <2> HIDE DEF sent
  <2>2. \/ Absent(new, i)
        \/ Once(new, i) /\ Nowhere(pending_inbound, i)
    BY DEF AllFollowed, Followed
  <2>3. (i \notin AtEndpoint <=> Absent(new, i) /\ Nowhere(pending_inbound, i))
    BY AtEndpointPlaces DEF IInv
  <2>4. Absent(sent, i) => i \notin Range(sent)
    BY Among
  <2>5. ~ (Absent(new', i) /\ Nowhere(pending_inbound, i))
    <3>1. DOMAIN pending_inbound = Conns
      BY DEF IInv, TypeOK
    <3> QED BY <1>5, <3>1 DEF AtEndpoint, Absent, Nowhere, Range
  <2> QED BY <2>1, <2>2, <2>3, <2>4, <2>5 DEF Once, Absent
<1>6. AtEndpoint' \subseteq Forwarded
  <2>1. new' \in Seq(Forwarded) /\ pending_inbound \in [Conns -> Seq(Forwarded)]
    BY <1>2, <1>3 DEF IInv, TypeOK
  <2>2. \A s \in Seq(Forwarded) : Range(s) \subseteq Forwarded
    BY DEF Range
  <2> QED BY <2>1, <2>2 DEF AtEndpoint
<1>7. CASE n = 0
  <2>1. \A l \in Listens : incoming'[l] = incoming[l]
    BY <1>1, <1>7
  <2>2. incoming' = incoming
    BY <1>1, <1>2, <2>1
  <2> QED BY <1>5, <1>6, <2>2
<1>8. CASE n > 0
  <2> DEFINE to == ListenerOf(new[1])
  <2>1. \A k \in 1..n : /\ new[k] \in Forwarded /\ ListenAddr[new[k]] \in Addrs
                        /\ IsOpen(ListenerOf(new[k]))
    BY <1>1, <1>2, AddressesKnown DEF Fits
  <2>2. 1 \in 1..n
    BY <1>8
  <2>3. \A k \in 1..n : ListenerOf(new[k]) = to
    <3>1. ASSUME NEW k \in 1..n
          PROVE  ListenerOf(new[k]) = to
      BY <2>1, <2>2, OneKept DEF ListenerOf, IInv
    <3> QED BY <3>1
  <2>4. to \in Open
    BY <2>1, <2>2, RequestsDisjoint
    DEF Open, IsOpen, ListenerOf, IInv, InFlight, Beyond, Requested
  <2>5. incoming' = [incoming EXCEPT ![to] = @ \o sent]
    BY <1>1, <1>2, <1>8, <2>4 DEF Open
  <2>6. \A i \in Range(sent) : \E k \in 1..n : i = new[k] /\ k \in DOMAIN new
    BY <1>4 DEF Range
  <2> HIDE DEF sent, to, new
  <2>7. \A i \in Range(sent) : ListenAddr[i] = LocalAddr[to]
    <3>1. ASSUME NEW k \in 1..n
          PROVE  ListenAddr[new[k]] = LocalAddr[to]
      BY <2>1, <2>3 DEF IInv, KeptByAddress, ListenerOf, IsOpen
    <3> QED BY <2>6, <3>1
  <2>8. IsInjective(sent)
    <3>1. ASSUME NEW j \in 1..n, NEW k \in 1..n, new[j] = new[k]
          PROVE  j = k
      <4>1. j \in DOMAIN new /\ k \in DOMAIN new /\ new[j] \in Forwarded
        BY <1>4, <2>1
      <4>2. Once(new, new[j])
        BY <4>1 DEF AllFollowed, Followed, Absent, new
      <4> QED BY <3>1, <4>1, <4>2 DEF Once
    <3> QED BY <1>4, <3>1 DEF IsInjective
  <2>9. Range(sent) \subseteq AtEndpoint
    BY <2>6 DEF AtEndpoint, Range, new
  <2>10. AtEndpoint' \subseteq AtEndpoint \ Range(sent)
    BY <1>5, <1>6
  <2> QED BY <1>4, <2>4, <2>5, <2>7, <2>8, <2>9, <2>10
<1>9. n = 0 \/ n > 0
  BY <1>2
<1> QED BY <1>7, <1>8, <1>9

\* A listener is given something only when it is open, so after it was asked for.
LEMMA GivenStep ==
  ASSUME IInv, AllFollowed, GivenToRequested, [Next]_vars
  PROVE  GivenToRequested'
<1> USE DEF swarmVars, transportVars, handlerVars, requestVars, outVars
<1>1. Requested \subseteq Requested' /\ incoming \in [Listens -> Seq(Forwarded)]
  BY RequestedKept DEF IInv, TypeOK
<1>2. ASSUME NEW l \in Listens, ListenerReceive(l)
      PROVE  GivenToRequested'
  BY <1>1, <1>2 DEF ListenerReceive, GivenToRequested
<1>3. ASSUME DeliverAndFlush, UNCHANGED pending_inbound
      PROVE  GivenToRequested'
  <2>1. \A l \in Listens : incoming'[l] = incoming[l] \/ l \in Open
    BY <1>1, <1>3, DeliverGives
  <2> QED BY <1>1, <2>1 DEF GivenToRequested, Open, Requested, Requests
<1>4. ASSUME UNCHANGED incoming
      PROVE  GivenToRequested'
  BY <1>1, <1>4 DEF GivenToRequested
<1>5. \/ UNCHANGED incoming
      \/ \E l \in Listens : ListenerReceive(l)
      \/ DeliverAndFlush /\ UNCHANGED pending_inbound
  BY DEF Next, Request, RemoveListener, TransportReceive, OnDialFailure,
         OnConnectionEstablished, OnConnectionClosed, HandlerPoll, OnNewConnection,
         HandlerPollRequest, OnUpgradeEnd, UpgradeEnds, Accept, Poll, PollSend, PollPending,
         PollDial, PollPark, PollRest, vars
<1> QED BY <1>2, <1>3, <1>4, <1>5

\* Dials end as the service says, and only once.
LEMMA AnsweredStep ==
  ASSUME IInv, IInv', AllHeld, [Next]_vars, \A r \in Dials : ~ Request(r)
  PROVE  /\ DOMAIN Answered' = Dials
         /\ \A d \in Dials :
              \/ Answered'[d] = Answered[d]
              \/ Answered[d] = "open" /\ Answered'[d] \in {"ok", "err", "canceled"}
<1>1. ASSUME NEW d \in Dials
      PROVE  \/ answer'[d] = answer[d]
             \/ answer[d] = "open" /\ answer'[d] \in {"ok", "err", "canceled"}
  <2>1. d \in Requests /\ answer'[d] \in Answers
    BY DEF IInv, TypeOK, Requests
  <2>2. CASE answer[d] = "open"
    <3>1. answer'[d] # "none"
      BY <2>1, <2>2, AnswersKept DEF IInv
    <3> QED BY <2>1, <2>2, <3>1 DEF Answers
  <2>3. CASE answer[d] # "open"
    BY <2>3, AnsweredOnce DEF IInv
  <2> QED BY <2>2, <2>3
<1> QED BY <1>1 DEF Answered

\* Every step is one of the service's, or none.
LEMMA ServiceStep ==
  ASSUME IInv, IInv', LineInv, AllFollowed, AllHeld, GivenToRequested, [Next]_vars
  PROVE  Service!Next \/ UNCHANGED Service!vars
<1> USE DEF swarmVars, transportVars, handlerVars, requestVars, outVars
<1> DEFINE opened == {l \in Listens : answer[l] # "none"}
<1> USE DEF Answered, AtEndpoint, Open
<1>1. ASSUME NEW d \in Dials, Request(d)
      PROVE  Service!Dial(d)
  <2>1. d \in Requests /\ d \notin Listens /\ answer \in [Requests -> Answers]
    BY RequestsDisjoint DEF IInv, TypeOK, Requests
  <2>2. /\ answer[d] = "none" /\ answer' = [answer EXCEPT ![d] = "open"]
        /\ UNCHANGED <<dropped, incoming, pending_inbound, pending_new_connections, arrived>>
    BY <1>1 DEF Request
  <2>3. \A l \in Listens : l \in Requests /\ l # d
    BY <2>1 DEF Requests
  <2>4. UNCHANGED <<opened, Open>>
    BY <2>1, <2>2, <2>3
  <2>5. Answered' = [Answered EXCEPT ![d] = "open"]
    BY <2>1, <2>2 DEF Requests
  <2> QED BY <2>2, <2>4, <2>5 DEF Service!Dial
<1>2. ASSUME NEW l \in Listens, Request(l)
      PROVE  Service!ListenOn(l)
  <2>1. l \in Requests /\ l \notin Dials /\ answer \in [Requests -> Answers]
    BY RequestsDisjoint DEF IInv, TypeOK, Requests
  <2>2. /\ answer[l] = "none" /\ answer' = [answer EXCEPT ![l] = "open"]
        /\ \A k \in Listens : answer[k] # "none" => k \in dropped
        /\ UNCHANGED <<dropped, incoming, pending_inbound, pending_new_connections, arrived>>
    BY <1>2 DEF Request
  <2>3. l \notin dropped
    BY <2>2 DEF LineInv, Requested
  <2>4. \A k \in Listens : answer'[k] # "none" <=> k = l \/ answer[k] # "none"
    BY <2>1, <2>2 DEF Requests
  <2>5. \A d \in Dials : answer'[d] = answer[d]
    BY <2>1, <2>2 DEF Requests
  <2>6. Open = {} /\ l \notin opened /\ opened' = opened \cup {l} /\ Open' = {l}
    BY <2>2, <2>3, <2>4
  <2> QED BY <2>2, <2>5, <2>6 DEF Service!ListenOn
<1>3. ASSUME NEW l \in Listens, RemoveListener(l)
      PROVE  Service!Close
  <2>1. /\ answer[l] # "none" /\ l \notin dropped /\ dropped' = dropped \cup {l}
        /\ UNCHANGED <<answer, incoming, pending_inbound, pending_new_connections, arrived>>
    BY <1>3 DEF RemoveListener
  <2>2. Open' = {}
    BY <2>1 DEF IInv, OneOpenListener
  <2> QED BY <2>1, <2>2 DEF Service!Close
<1>4. ASSUME TransportReceive
      PROVE  Service!Close \/ UNCHANGED Service!vars
  <2>1. UNCHANGED <<incoming, pending_inbound, pending_new_connections, arrived>>
    BY <1>4 DEF TransportReceive
  <2>2. \A r \in Requests : ~ Request(r)
    BY <1>4 DEF TransportReceive, Request, IInv, TypeOK
  <2>3. Requested' = Requested
    BY <2>2, RequestedKept
  <2>4. \A l \in Listens : answer'[l] # "none" <=> answer[l] # "none"
    BY <2>3 DEF Requested, Requests
  <2>5. \A d \in Dials : answer'[d] = answer[d]
    <3>1. Head(to_transport) \in Told
      BY <1>4 DEF TransportReceive, IInv, TypeOK
    <3> QED BY <1>4, <3>1, RequestsDisjoint DEF TransportReceive, Told, Requests
  <2>6. dropped \subseteq dropped'
    BY <1>4 DEF TransportReceive
  <2>7. UNCHANGED opened /\ (Open' = {} \/ Open' = Open)
    BY <2>4, <2>6 DEF IInv, OneOpenListener
  <2> QED BY <2>1, <2>5, <2>7 DEF Service!Close, Service!vars
<1>5. ASSUME NEW l \in Listens, ListenerReceive(l)
      PROVE  Service!Receive(l)
  <2>1. /\ l \notin dropped /\ incoming[l] # <<>>
        /\ incoming' = [incoming EXCEPT ![l] = Tail(@)]
        /\ UNCHANGED <<answer, dropped, pending_inbound, pending_new_connections, arrived>>
    BY <1>5 DEF ListenerReceive
  <2>2. l \in Open
    BY <2>1 DEF GivenToRequested, Requested
  <2> QED BY <2>1, <2>2 DEF Service!Receive
<1>6. ASSUME NEW c \in Conns, NEW i \in Forwarded, Accept(c, i)
      PROVE  Service!Forward(i)
  <2>1. AtEndpoint' = AtEndpoint \cup {i}
    BY <1>6, AtEndpointStep DEF IInv
  <2>2. /\ i \notin arrived /\ arrived' = arrived \cup {i}
        /\ UNCHANGED <<answer, dropped, incoming>>
    BY <1>6 DEF Accept
  <2> QED BY <2>1, <2>2 DEF Service!Forward
<1> DEFINE Inside == /\ \A r \in Requests : ~ Request(r)
                     /\ \A l \in Listens : ~ RemoveListener(l) /\ ~ ListenerReceive(l)
                     /\ ~ TransportReceive
                     /\ \A c \in Conns, i \in Forwarded : ~ Accept(c, i)
<1>7. ASSUME Inside
      PROVE  Service!Settle \/ \E l \in Listens : Service!Give(l)
  <2>1. UNCHANGED <<dropped, arrived>> /\ Requested' = Requested
    <3>1. UNCHANGED <<dropped, arrived>>
      BY <1>7 DEF Next, OnDialFailure, OnConnectionEstablished, OnConnectionClosed,
             HandlerPoll, OnNewConnection, HandlerPollRequest, OnUpgradeEnd, UpgradeEnds,
             Poll, PollSend, PollPending, PollDial, PollPark, PollRest, vars
    <3> QED BY <1>7, <3>1, RequestedKept
  <2>2. \A l \in Listens : answer'[l] # "none" <=> answer[l] # "none"
    BY <2>1 DEF Requested, Requests
  <2>3. UNCHANGED <<opened, Open>>
    BY <2>1, <2>2
  <2>4. /\ DOMAIN Answered' = Dials
        /\ \A d \in Dials :
             \/ Answered'[d] = Answered[d]
             \/ Answered[d] = "open" /\ Answered'[d] \in {"ok", "err", "canceled"}
    BY <1>7, AnsweredStep DEF Requests
  <2>5. \/ UNCHANGED incoming /\ AtEndpoint' \subseteq AtEndpoint
        \/ DeliverAndFlush /\ UNCHANGED <<answer, pending_inbound>>
    <3>1. \/ UNCHANGED incoming
          \/ DeliverAndFlush /\ UNCHANGED <<answer, pending_inbound>>
      BY <1>7 DEF Next, OnDialFailure, OnConnectionEstablished, OnConnectionClosed,
             HandlerPoll, OnNewConnection, HandlerPollRequest, OnUpgradeEnd, UpgradeEnds,
             Poll, PollSend, PollPending, PollDial, PollPark, PollRest, vars
    <3>2. \/ AtEndpoint' \subseteq AtEndpoint
          \/ DeliverAndFlush /\ UNCHANGED <<answer, pending_inbound>>
      BY <1>7, AtEndpointStep DEF IInv
    <3> HIDE DEF AtEndpoint
    <3> QED BY <3>1, <3>2
  <2>6. CASE UNCHANGED incoming /\ AtEndpoint' \subseteq AtEndpoint
    BY <2>1, <2>3, <2>4, <2>6 DEF Service!Settle
  <2>7. ASSUME DeliverAndFlush, UNCHANGED <<answer, pending_inbound>>,
               NEW l \in Open, NEW sent \in Seq(Forwarded),
               incoming' = [incoming EXCEPT ![l] = @ \o sent],
               IsInjective(sent), Range(sent) \subseteq AtEndpoint,
               \A i \in Range(sent) : ListenAddr[i] = LocalAddr[l],
               AtEndpoint' \subseteq AtEndpoint \ Range(sent)
        PROVE  Service!Give(l)
    <3>1. incoming[l] \in Seq(Forwarded) /\ l \in Listens
      BY <2>7 DEF IInv, TypeOK
    <3>2. incoming'[l] = incoming[l] \o sent
      BY <2>7, <3>1 DEF IInv, TypeOK
    <3> DEFINE given == SubSeq(incoming'[l], Len(incoming[l]) + 1, Len(incoming'[l]))
    <3>3. given = sent
      BY <3>1, <3>2, Following
    <3>4. Len(incoming'[l]) <= ListenerCap
      BY <3>1 DEF IInv, ChannelsBounded
    <3> HIDE DEF given, AtEndpoint
    <3>5. \A i : i \in Service!Range(given) <=> i \in Range(sent)
      BY <3>3 DEF Service!Range, Range
    <3>6. Service!IsInjective(given)
      BY <2>7, <3>3 DEF Service!IsInjective, IsInjective
    <3>7. incoming' = [incoming EXCEPT ![l] = @ \o given]
      BY <2>7, <3>3
    <3>8. /\ Service!Range(given) \subseteq AtEndpoint
          /\ \A i \in Service!Range(given) : ListenAddr[i] = LocalAddr[l]
          /\ AtEndpoint' \subseteq AtEndpoint \ Service!Range(given)
      BY <2>7, <3>5
    <3>9. UNCHANGED <<Answered, opened, Open, arrived>>
      BY <2>1, <2>3, <2>7
    <3> QED BY <2>7, <3>4, <3>6, <3>7, <3>8, <3>9 DEF Service!Give, AtEndpoint, given
  <2>8. CASE DeliverAndFlush /\ UNCHANGED <<answer, pending_inbound>>
    <3>1. \A l \in Open : l \in Listens
      OBVIOUS
    <3> QED BY <2>6, <2>7, <2>8, <3>1, DeliverGives
  <2> QED BY <2>5, <2>6, <2>8
<1> QED
  BY <1>1, <1>2, <1>3, <1>4, <1>5, <1>6, <1>7 DEF Service!Next, Requests

\* What the swarm is promised: a dial ends once; a connection that the relay
\* forwards is given once, in order and within the room there is, to the listener
\* of its address while that is open; and there is one listener at a time
\* (endpoint/behaviour.rs:53-145, 323-479, endpoint/transport.rs:65-175).
THEOREM EndpointServes == Spec => ImplementsService
<1> DEFINE Inv == IInv /\ LineInv /\ AllFollowed /\ AllHeld /\ GivenToRequested
<1>1. Init => Inv
  <2>1. Init => GivenToRequested
    BY DEF Init, GivenToRequested
  <2> QED BY <2>1, IInvInit, LineInit, FollowedInit, HeldInit
<1>2. Inv /\ [Next]_vars => Inv'
  BY IInvStep, LineStep, FollowedNext, HeldNext, GivenStep DEF IInv
<1>3. Init => Service!Init
  <2>1. ASSUME Init
        PROVE  /\ \A r \in Requests : answer[r] = "none"
               /\ pending_new_connections = <<>> /\ arrived = {}
               /\ \A c \in Conns : pending_inbound[c] = <<>>
               /\ incoming = [l \in Listens |-> <<>>]
    BY <2>1 DEF Init
  <2>2. Range(<<>>) = {}
    BY DEF Range
  <2> QED BY <2>1, <2>2 DEF Service!Init, Requests
<1>4. Inv /\ [Next]_vars /\ Inv' => [Service!Next]_(Service!vars)
  BY ServiceStep
<1> QED BY <1>1, <1>2, <1>3, <1>4, PTL DEF Spec, ImplementsService, Service!Spec
=============================================================================
