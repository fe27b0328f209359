----------------------------- MODULE Connection -----------------------------
(***************************************************************************)
(* The reads of a Connection (connection.rs): the bytes the framed codec   *)
(* had read beyond its last message, remaining_buf, come before those of   *)
(* the substream.  Writes go straight to the substream.                    *)
(***************************************************************************)
EXTENDS Naturals, SequencesExt

Lesser(m, n) == IF m <= n THEN m ELSE n

First(s, n) == SubSeq(s, 1, n)
Rest(s, n)  == SubSeq(s, n + 1, Len(s))

\* A plausible slip: what the substream has is read first.
ReadSubstreamFirst(remaining_buf, arrived, n) ==
  LET k == Lesser(Len(arrived), n)
  IN IF arrived = <<>>
       THEN [bytes         |-> First(remaining_buf, Lesser(Len(remaining_buf), n)),
             remaining_buf |-> Rest(remaining_buf, Lesser(Len(remaining_buf), n)),
             arrived       |-> arrived]
       ELSE [bytes         |-> First(arrived, k),
             remaining_buf |-> remaining_buf,
             arrived       |-> Rest(arrived, k)]

\* poll_read into a buffer of length n, of a substream that has arrived: it
\* has nothing to read exactly when no byte comes back.
PollRead(remaining_buf, arrived, n) ==
  LET source == IF remaining_buf # <<>> THEN remaining_buf ELSE arrived
      k      == Lesser(Len(source), n)
  IN [bytes         |-> First(source, k),
      remaining_buf |-> Rest(remaining_buf, IF remaining_buf # <<>> THEN k ELSE 0),
      arrived       |-> Rest(arrived, IF remaining_buf # <<>> THEN 0 ELSE k)]

\* A plausible slip: remaining_buf is not advanced from buffer to buffer.
CopyWithoutAdvance(acc, n) ==
  LET copied == Lesser(Len(acc.rest), n)
  IN IF acc.outcome # "filling" THEN acc
     ELSE CASE copied = 0               -> [acc EXCEPT !.outcome = "broke"]
            [] copied # 0 /\ copied # n -> [acc EXCEPT !.outcome = "panicked"]
            [] copied # 0 /\ copied = n ->
                 [acc EXCEPT !.bytes = @ \o First(acc.rest, copied)]

\* One turn of poll_read_vectored's loop over the buffers: copy_from_slice
\* panics unless the whole buffer, of length n, is filled.
CopyIntoBuffer(acc, n) ==
  LET copied == Lesser(Len(acc.rest), n)
  IN IF acc.outcome # "filling" THEN acc
     ELSE CASE copied = 0               -> [acc EXCEPT !.outcome = "broke"]
            [] copied # 0 /\ copied # n -> [acc EXCEPT !.outcome = "panicked"]
            [] copied # 0 /\ copied = n ->
                 [acc EXCEPT !.bytes = @ \o First(acc.rest, copied),
                             !.rest = Rest(@, copied)]

\* What poll_read_vectored has done after each turn over buffers of the lengths
\* lens, with bytes left over.
Turns(remaining_buf, lens) ==
  LET turn[k \in 0..Len(lens)] ==
        IF k = 0 THEN [bytes |-> <<>>, rest |-> remaining_buf, outcome |-> "filling"]
                 ELSE CopyIntoBuffer(turn[k - 1], lens[k])
  IN turn

PollReadVectored(remaining_buf, lens) == Turns(remaining_buf, lens)[Len(lens)]

\* The room in the first k of the buffers.
Rooms(lens) ==
  LET rooms[k \in 0..Len(lens)] == IF k = 0 THEN 0 ELSE rooms[k - 1] + lens[k]
  IN rooms

\* What poll_read_vectored does with bytes left over.  It fills the first k
\* buffers, none of them empty, with what poll_read gives for as much room, and
\* keeps the rest.  These are all the buffers; or it stops there, with bytes left
\* when the next buffer is empty; or the next buffer is longer than what is left,
\* which it does not copy in part as poll_read does: it panics.
VectoredReadFills(remaining_buf, lens) ==
  LET r       == PollReadVectored(remaining_buf, lens)
      room(k) == Rooms(lens)[k]
      left(k) == Len(remaining_buf) - room(k)
      plain(k) == PollRead(remaining_buf, <<>>, room(k))
  IN \E k \in 0..Len(lens) :
       /\ room(k) <= Len(remaining_buf) /\ \A j \in 1..k : lens[j] # 0
       /\ r.bytes = plain(k).bytes /\ r.rest = plain(k).remaining_buf
       /\ \/ k = Len(lens) /\ r.outcome = "filling"
          \/ k < Len(lens) /\ (left(k) = 0 \/ lens[k + 1] = 0) /\ r.outcome = "broke"
          \/ k < Len(lens) /\ left(k) \in 1..lens[k + 1] - 1 /\ r.outcome = "panicked"
=============================================================================
