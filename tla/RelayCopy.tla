------------------------------ MODULE RelayCopy -----------------------------
(***************************************************************************)
(* The copies of a relayed connection (relay/behaviour.rs): two futures    *)
(* per joined pair, run by the FuturesUnordered that the behaviour polls   *)
(* once per poll of its own.                                               *)
(*                                                                         *)
(* A copy that has to wait is woken by the substream it waits for, which   *)
(* puts it into the queue of ready futures and wakes the swarm's task.  A  *)
(* copy that is in the queue already wakes nobody.                         *)
(***************************************************************************)
EXTENDS Connection

CONSTANTS Pairs,    \* dialers joined to their targets
          MaxSent,  \* bound: what each side of a pair ever sends
          Window,   \* what a substream takes before its peer must read
          None      \* no copy

ASSUME BoundsNat == MaxSent \in Nat /\ Window \in Nat \ {0}

Copies == Pairs \X {"to_dst", "to_dialer"}
Sides  == Pairs \X {"dialer", "dst"}

\* The side a copy reads from, and the one it writes to.
Source(c) == <<c[1], IF c[2] = "to_dst" THEN "dialer" ELSE "dst">>
Target(c) == <<c[1], IF c[2] = "to_dst" THEN "dst" ELSE "dialer">>
Reader(s) == CHOOSE c \in Copies : Source(c) = s
Writer(s) == CHOOSE c \in Copies : Target(c) = s
CopiesOf(p) == {p} \X {"to_dst", "to_dialer"}

ASSUME NoneIsNoCopy == None \notin Copies

VARIABLES
  \* the behaviour and its task
  started,          \* pairs that were joined
  io_copy_futures,  \* copies that run
  ready,            \* the queue of futures to be polled
  registered,       \* that queue has the waker of the task
  woken,            \* the task is to run
  polling,          \* the queue is being polled
  current,          \* the copy that is polled
  pending_actions,  \* how many events the behaviour has to return
  \* the copies
  buffer,           \* what io::copy has read and not written
  wants,            \* what a copy waits for: to "read", to "write", or nothing
  \* the substream of a side
  remaining_buf, arrived,  \* what can be read: left over by the codec, or not
  state,            \* "open", "eof" once its peer has ended, "lost" once broken
  room,             \* how much it takes until its peer reads
  received, closed  \* what was written to it, and whether it was closed

taskVars   == <<started, io_copy_futures, pending_actions>>
queueVars  == <<ready, registered, woken>>
pollVars   == <<polling, current>>
copyVars   == <<buffer, wants>>
readVars   == <<remaining_buf, arrived, state>>
writeVars  == <<room, received, closed>>
vars == <<taskVars, queueVars, pollVars, copyVars, readVars, writeVars>>

Init ==
  /\ started = {} /\ io_copy_futures = {} /\ pending_actions = 0
  /\ ready = <<>> /\ registered = FALSE /\ woken = FALSE
  /\ polling = FALSE /\ current = None
  /\ buffer = [c \in Copies |-> <<>>]
  /\ wants = [c \in Copies |-> "nothing"]
  /\ remaining_buf = [s \in Sides |-> <<>>]
  /\ arrived = [s \in Sides |-> <<>>]
  /\ state = [s \in Sides |-> "open"]
  /\ room = [s \in Sides |-> Window]
  /\ received = [s \in Sides |-> <<>>]
  /\ closed = [s \in Sides |-> FALSE]

(***************************************************************************)
(* The substreams.  A change wakes the copies that wait for it: each is    *)
(* queued, and the first to be queued since the last poll wakes the task.  *)
(***************************************************************************)
Wake(cs) ==
  /\ ready' = ready \o cs
  /\ wants' = [c \in Copies |-> IF c \in Range(cs) THEN "nothing" ELSE wants[c]]
  /\ woken' = (woken \/ (cs # <<>> /\ registered))
  /\ registered' = (registered /\ cs = <<>>)

Waiting(c, for) == IF wants[c] = for THEN <<c>> ELSE <<>>

\* How much the side s has sent.
Sent(s) ==
  Len(received[Target(Reader(s))]) + Len(buffer[Reader(s)])
    + Len(remaining_buf[s]) + Len(arrived[s])

PeerSends(s) ==
  /\ state[s] = "open"
  /\ Sent(s) < MaxSent
  /\ arrived' = [arrived EXCEPT ![s] = Append(@, Sent(s) + 1)]
  /\ Wake(Waiting(Reader(s), "read"))
  /\ UNCHANGED <<taskVars, pollVars, buffer, remaining_buf, state, writeVars>>

PeerEnds(s) ==
  /\ state[s] = "open"
  /\ state' = [state EXCEPT ![s] = "eof"]
  /\ Wake(Waiting(Reader(s), "read"))
  /\ UNCHANGED <<taskVars, pollVars, buffer, remaining_buf, arrived, writeVars>>

PeerLost(s) ==
  /\ state[s] # "lost"
  /\ state' = [state EXCEPT ![s] = "lost"]
  /\ Wake(Waiting(Reader(s), "read") \o Waiting(Writer(s), "write"))
  /\ UNCHANGED <<taskVars, pollVars, buffer, remaining_buf, arrived, writeVars>>

PeerReads(s) ==
  /\ room[s] < Window
  /\ room' = [room EXCEPT ![s] = @ + 1]
  /\ Wake(Waiting(Writer(s), "write"))
  /\ UNCHANGED <<taskVars, pollVars, buffer, readVars, received, closed>>

\* Any other event of the swarm makes its task run.
SwarmEvent ==
  /\ woken' = TRUE
  /\ UNCHANGED <<taskVars, ready, registered, pollVars, copyVars, readVars, writeVars>>

(***************************************************************************)
(* DialSuccess: the pair is split and both copies are pushed, to be polled *)
(* for the first time.  Of what has arrived the codec may hold a part.     *)
(***************************************************************************)
\* A plausible slip: the task is not woken.
StartAsleep(p) ==
  /\ p \notin started /\ ~ polling
  /\ started' = started \cup {p}
  /\ io_copy_futures' = io_copy_futures \cup CopiesOf(p)
  /\ ready' = ready \o << <<p, "to_dst">>, <<p, "to_dialer">> >>
  /\ pending_actions' = pending_actions + 1
  /\ UNCHANGED <<registered, woken, pollVars, copyVars, readVars, writeVars>>

OnDialSuccess(p) ==
  /\ p \notin started
  /\ ~ polling
  /\ started' = started \cup {p}
  /\ io_copy_futures' = io_copy_futures \cup CopiesOf(p)
  /\ ready' = ready \o << <<p, "to_dst">>, <<p, "to_dialer">> >>
  /\ pending_actions' = pending_actions + 1
  /\ woken' = TRUE
  /\ \E n \in [Sides -> 0..MaxSent] :
       /\ \A s \in Sides : n[s] <= IF s[1] = p THEN Len(arrived[s]) ELSE 0
       /\ remaining_buf' = [s \in Sides |-> remaining_buf[s] \o First(arrived[s], n[s])]
       /\ arrived' = [s \in Sides |-> Rest(arrived[s], n[s])]
  /\ UNCHANGED <<registered, pollVars, copyVars, state, writeVars>>

(***************************************************************************)
(* Behaviour::poll.  The queue is polled until it is empty or a copy has   *)
(* ended; then the behaviour returns an event, after which it is polled    *)
(* again, or nothing.                                                      *)
(***************************************************************************)
BeginPoll ==
  /\ woken
  /\ ~ polling
  /\ polling' = TRUE
  /\ woken' = FALSE
  /\ registered' = TRUE
  /\ UNCHANGED <<taskVars, ready, current, copyVars, readVars, writeVars>>

PollNext ==
  /\ polling
  /\ current = None
  /\ ready # <<>>
  /\ current' = Head(ready)
  /\ ready' = Tail(ready)
  /\ UNCHANGED <<taskVars, registered, woken, polling, copyVars, readVars, writeVars>>

\* A plausible slip: an event is taken whether or not there is one.
ReturnAnEvent ==
  /\ polling' = FALSE
  /\ current' = None
  /\ woken' = TRUE
  /\ pending_actions' = pending_actions - 1

Return ==
  /\ polling' = FALSE
  /\ current' = None
  /\ woken' = (woken \/ pending_actions > 0)
  /\ pending_actions' = IF pending_actions > 0 THEN pending_actions - 1 ELSE 0

QueueIsEmpty ==
  /\ polling
  /\ current = None
  /\ ready = <<>>
  /\ Return
  /\ UNCHANGED <<started, io_copy_futures, ready, registered, copyVars, readVars, writeVars>>

(***************************************************************************)
(* copy: io::copy reads and writes in turn; at the end of its source it    *)
(* flushes and closes its target, but not when it has failed.              *)
(***************************************************************************)
WaitFor(c, what) ==
  /\ wants' = [wants EXCEPT ![c] = what]
  /\ current' = None
  /\ UNCHANGED polling

Ends(c) ==
  /\ io_copy_futures' = io_copy_futures \ {c}
  /\ Return

ReadSome(c) ==
  LET r == PollRead(remaining_buf[Source(c)], arrived[Source(c)], MaxSent)
  IN /\ current = c
     /\ buffer[c] = <<>>
     /\ r.bytes # <<>>
     /\ buffer' = [buffer EXCEPT ![c] = r.bytes]
     /\ remaining_buf' = [remaining_buf EXCEPT ![Source(c)] = r.remaining_buf]
     /\ arrived' = [arrived EXCEPT ![Source(c)] = r.arrived]
     /\ UNCHANGED <<taskVars, queueVars, pollVars, wants, state, writeVars>>

NothingToRead(c) ==
  /\ current = c
  /\ buffer[c] = <<>>
  /\ remaining_buf[Source(c)] = <<>> /\ arrived[Source(c)] = <<>>

ReadWaits(c) ==
  /\ NothingToRead(c)
  /\ state[Source(c)] = "open"
  /\ WaitFor(c, "read")
  /\ UNCHANGED <<taskVars, queueVars, buffer, readVars, writeVars>>

Closes(c) == state[Source(c)] = "eof" /\ state[Target(c)] # "lost"

CopyEnds(c) ==
  /\ NothingToRead(c)
  /\ state[Source(c)] # "open"
  /\ closed' = IF Closes(c) THEN [closed EXCEPT ![Target(c)] = TRUE] ELSE closed
  /\ Ends(c)
  /\ UNCHANGED <<started, ready, registered, copyVars, readVars, room, received>>

WriteSome(c) ==
  LET t == Target(c)
  IN /\ current = c
     /\ buffer[c] # <<>>
     /\ state[t] # "lost"
     /\ room[t] > 0
     /\ \E n \in 1..Len(buffer[c]) :
          /\ n <= room[t]
          /\ received' = [received EXCEPT ![t] = @ \o First(buffer[c], n)]
          /\ room' = [room EXCEPT ![t] = @ - n]
          /\ buffer' = [buffer EXCEPT ![c] = Rest(@, n)]
     /\ UNCHANGED <<taskVars, queueVars, pollVars, wants, readVars, closed>>

\* A plausible slip: the copy is to be woken by what it reads from.
WriteWaitsForReader(c) ==
  /\ current = c
  /\ buffer[c] # <<>>
  /\ state[Target(c)] # "lost"
  /\ room[Target(c)] = 0
  /\ WaitFor(c, "read")
  /\ UNCHANGED <<taskVars, queueVars, buffer, readVars, writeVars>>

WriteWaits(c) ==
  /\ current = c
  /\ buffer[c] # <<>>
  /\ state[Target(c)] # "lost"
  /\ room[Target(c)] = 0
  /\ WaitFor(c, "write")
  /\ UNCHANGED <<taskVars, queueVars, buffer, readVars, writeVars>>

\* A plausible slip: what cannot be written is thrown away, and the copy goes on.
WriteFailureIgnored(c) ==
  /\ current = c
  /\ buffer[c] # <<>>
  /\ state[Target(c)] = "lost"
  /\ buffer' = [buffer EXCEPT ![c] = <<>>]
  /\ UNCHANGED <<taskVars, queueVars, pollVars, wants, readVars, writeVars>>

WriteFails(c) ==
  /\ current = c
  /\ buffer[c] # <<>>
  /\ state[Target(c)] = "lost"
  /\ Ends(c)
  /\ UNCHANGED <<started, ready, registered, copyVars, readVars, writeVars>>

PollCopy(c) ==
  ReadSome(c) \/ ReadWaits(c) \/ CopyEnds(c) \/ WriteSome(c) \/ WriteWaits(c) \/ WriteFails(c)

Poll == PollNext \/ QueueIsEmpty \/ \E c \in Copies : PollCopy(c)

Next ==
  \/ \E s \in Sides : PeerSends(s) \/ PeerEnds(s) \/ PeerLost(s) \/ PeerReads(s)
  \/ SwarmEvent
  \/ \E p \in Pairs : OnDialSuccess(p)
  \/ BeginPoll
  \/ Poll

\* The executor runs a task that was woken, and the task its poll.  Nothing
\* makes a peer send, read or end, or another event of the swarm happen.
Fairness == WF_vars(BeginPoll) /\ WF_vars(Poll)

Spec     == Init /\ [][Next]_vars
FairSpec == Spec /\ Fairness

-----------------------------------------------------------------------------
\* Every variable has its type, and the queue holds copies that run.
TypeOK ==
  /\ started \subseteq Pairs
  /\ io_copy_futures \subseteq Copies
  /\ pending_actions \in Nat
  /\ ready \in Seq(io_copy_futures)
  /\ registered \in BOOLEAN /\ woken \in BOOLEAN /\ polling \in BOOLEAN
  /\ current \in io_copy_futures \cup {None}
  /\ buffer \in [Copies -> Seq(1..MaxSent)]
  /\ wants \in [Copies -> {"nothing", "read", "write"}]
  /\ remaining_buf \in [Sides -> Seq(1..MaxSent)]
  /\ arrived \in [Sides -> Seq(1..MaxSent)]
  /\ state \in [Sides -> {"open", "eof", "lost"}]
  /\ room \in [Sides -> 0..Window]
  /\ received \in [Sides -> Seq(1..MaxSent)]
  /\ closed \in [Sides -> BOOLEAN]

\* Each direction of a joined pair is a pipe: what the relay writes to one side
\* is what the other has sent, in order, wherever the codec stopped reading; and
\* a side is closed only when the other ended and all it sent was written.
APipe == INSTANCE Pipe WITH
  Directions <- Copies,
  in    <- [c \in Copies |-> received[Target(c)] \o buffer[c]
                               \o remaining_buf[Source(c)] \o arrived[Source(c)]],
  state <- [c \in Copies |-> state[Source(c)]],
  out   <- [c \in Copies |-> received[Target(c)]],
  ended <- [c \in Copies |-> closed[Target(c)]]

ImplementsPipe == APipe!Spec

\* A copy that runs has something to do: to read, to write, or to end.
CanMove(c) ==
  /\ c \in io_copy_futures
  /\ IF buffer[c] # <<>>
       THEN room[Target(c)] > 0 \/ state[Target(c)] = "lost"
       ELSE \/ remaining_buf[Source(c)] # <<>> \/ arrived[Source(c)] # <<>>
            \/ state[Source(c)] # "open"

\* No wake-up is lost between a substream and the copies at its two ends: a copy
\* that can move is in the queue, or is being polled.
QueuedIfItCanMove ==
  \A c \in Copies : CanMove(c) => c \in Range(ready) \/ c = current

\* A vectored read of what the codec left over, into up to MaxSent buffers, fills
\* them from the front with the bytes a plain one gives and keeps the others.  It
\* leaves bytes behind at an empty buffer, and panics at one that is longer than
\* what is left, and nowhere else.
VectoredReads ==
  \A s \in Sides : \A k \in 1..MaxSent : \A lens \in [1..k -> 0..MaxSent + 1] :
    remaining_buf[s] # <<>> => VectoredReadFills(remaining_buf[s], lens)

\* A copy ended and those behind it in the queue were left there, while the
\* task sleeps.
Stalled ==
  /\ ready # <<>> /\ ~ woken /\ ~ polling
  /\ \E p \in started : ~ CopiesOf(p) \subseteq io_copy_futures

\* Whatever arrives is passed on, or the end of a side, unless the queue has
\* stalled behind a copy that ended.
MovesOrStalls == \A c \in Copies : CanMove(c) ~> ~ CanMove(c) \/ Stalled

\* What the side s has sent waits for room on the other side.
Full(s) == buffer[Reader(s)] # <<>> /\ room[Target(Reader(s))] = 0

OtherSide(s) == Target(Reader(s))

\* When a side breaks, the other one's connection is dropped as well once it
\* sends or ends; while it is silent, or does not read, nothing tells it.
LossPassedOnIfNotSilent ==
  \A s \in Sides :
    LET t == OtherSide(s)
    IN /\ Reader(s) \in io_copy_futures
       /\ state[s] = "lost"
       /\ arrived[t] # <<>> \/ state[t] # "open"
       ~> CopiesOf(s[1]) \cap io_copy_futures = {} \/ Full(s) \/ Stalled

-----------------------------------------------------------------------------
(* What the repository says of the relay and the code does not keep.       *)

\* "then forward the data" (relay/behaviour.rs:29): what has arrived for a copy
\* that runs is passed on.
CopiesMove == \A c \in Copies : CanMove(c) ~> ~ CanMove(c)
=============================================================================
