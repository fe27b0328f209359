-------------------------------- MODULE Pipe --------------------------------
(***************************************************************************)
(* What a relayed connection promises in each of its two directions: the   *)
(* bytes come out in the order they went in, and their end is passed on    *)
(* only once the sender has ended and all of them are out; a direction     *)
(* that broke is never passed on as one that ended.                        *)
(***************************************************************************)
EXTENDS Naturals, SequencesExt

CONSTANT Directions

VARIABLES
  in,    \* what the sender of a direction has sent
  state, \* of the sender: "open", "eof" when it has ended, or "lost"
  out,   \* what the receiver has been given
  ended  \* the receiver has been told of the end

vars == <<in, state, out, ended>>

Init ==
  /\ in = [d \in Directions |-> <<>>]
  /\ state = [d \in Directions |-> "open"]
  /\ out = [d \in Directions |-> <<>>]
  /\ ended = [d \in Directions |-> FALSE]

Send(d) ==
  /\ state[d] = "open"
  /\ in' = [in EXCEPT ![d] = Append(@, Len(@) + 1)]
  /\ UNCHANGED <<state, out, ended>>

SenderEnds(d) ==
  /\ state[d] = "open"
  /\ state' = [state EXCEPT ![d] = "eof"]
  /\ UNCHANGED <<in, out, ended>>

Breaks(d) ==
  /\ state' = [state EXCEPT ![d] = "lost"]
  /\ UNCHANGED <<in, out, ended>>

Deliver(d) ==
  /\ ~ ended[d]
  /\ \E n \in 1..Len(in[d]) - Len(out[d]) :
       out' = [out EXCEPT ![d] = SubSeq(in[d], 1, Len(@) + n)]
  /\ UNCHANGED <<in, state, ended>>

End(d) ==
  /\ state[d] = "eof"
  /\ out[d] = in[d]
  /\ ended' = [ended EXCEPT ![d] = TRUE]
  /\ UNCHANGED <<in, state, out>>

Next == \E d \in Directions :
  Send(d) \/ SenderEnds(d) \/ Breaks(d) \/ Deliver(d) \/ End(d)

Spec == Init /\ [][Next]_vars
=============================================================================
