-------------------------------- MODULE Line --------------------------------
(***************************************************************************)
(* What the endpoint transport and the endpoint behaviour may count on of  *)
(* each other, over the two channels between them: a request is made once  *)
(* and taken once, in the order they were made; nothing is told of a       *)
(* request before it was taken, and what is told is heard in the order it  *)
(* was told, each piece once; the transport has one listener at a time,    *)
(* which closes when it is removed or when its failure is heard, for good. *)
(*                                                                         *)
(* Each side is modelled with its own idea of the other; both are held to  *)
(* this.  That a request is taken, or anything told of it, is not promised.*)
(***************************************************************************)
EXTENDS Naturals, SequencesExt

CONSTANTS Dials, Listens  \* requests

VARIABLES
  asked,  \* the requests that were made
  line,   \* those that are on their way
  open,   \* the listener that is open
  news    \* what the behaviour has told and the transport has not heard

vars == <<asked, line, open, news>>

Init == asked = {} /\ line = <<>> /\ open = {} /\ news = <<>>

\* The transport.
Ask(r) ==
  /\ r \notin asked
  /\ asked' = asked \cup {r}
  /\ line' = Append(line, r)
  /\ IF r \in Listens THEN open = {} /\ open' = {r} ELSE UNCHANGED open
  /\ UNCHANGED news

Close ==
  /\ open' = {}
  /\ UNCHANGED <<asked, line, news>>

\* The listener is open until it hears of its own failure.
Hear(n) ==
  /\ news' = SubSeq(news, n + 1, Len(news))
  /\ open' = {l \in open : \A k \in 1..n : news[k].type = "ListenFailed" => news[k].req # l}
  /\ UNCHANGED <<asked, line>>

\* The behaviour may take a request and tell things at once.
Known(e) == e.type # "PeerClosed" => e.req \in asked /\ e.req \notin Range(line')

Behave ==
  /\ line' = line \/ (line # <<>> /\ line' = Tail(line))
  /\ IsPrefix(news, news')
  /\ \A k \in Len(news) + 1..Len(news') : Known(news'[k])
  /\ UNCHANGED <<asked, open>>

Next ==
  \/ \E r \in Dials \cup Listens : Ask(r)
  \/ Close
  \/ \E n \in 1..Len(news) : Hear(n)
  \/ Behave

Spec == Init /\ [][Next]_vars
=============================================================================
