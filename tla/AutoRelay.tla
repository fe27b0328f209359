------------------------------ MODULE AutoRelay ------------------------------
(***************************************************************************)
(* The relay together with the upgrades of the endpoints at the two ends:  *)
(* the dialer's (endpoint/upgrade/outbound.rs) and the one of an endpoint  *)
(* that is offered a connection (endpoint/upgrade/inbound.rs).             *)
(***************************************************************************)
EXTENDS Relay

VARIABLES
  told,     \* dials whose endpoint was told of success
  offers,   \* <<conn, s>>: connect substreams the relay has opened
  accepted  \* those of them answered with success

endpointVars == <<told, offers, accepted>>
autoVars     == <<vars, endpointVars>>

AutoInit == Init /\ told = {} /\ offers = {} /\ accepted = {}

\* The relay sends its response and then lets the upgrade end.
SuccessSent(s) == IsDial(s) /\ inbound[s] \in {"responding", "ok"}

\* dial_upgrade reads the response.  When it reads a failure, or nothing before
\* the stream ends or the swarm gives up, the dial is not told of success.
ReceiveSuccess(s) ==
  /\ s \notin told
  /\ SuccessSent(s)
  /\ told' = told \cup {s}
  /\ UNCHANGED <<vars, offers, accepted>>

\* The handler that starts a connect upgrade opens the substream of an offer.
HandlerOffers(c) ==
  /\ HandlerPoll(c)
  /\ offers' = offers \cup upgrading'
  /\ UNCHANGED <<told, accepted>>

\* upgrade_inbound answers with success when the peer id is its own; whether
\* the address has a listener is seen later (EndpointBehaviour).  The relay may
\* have given up on the substream by then.
Accept(c, s) ==
  /\ <<c, s>> \in offers \ accepted
  /\ request[s].peer = conn_peer[c]
  /\ accepted' = accepted \cup {<<c, s>>}
  /\ UNCHANGED <<vars, told, offers>>

\* A plausible slip: any end of the upgrade counts as success.
AnyEnd(c, s) == TRUE

\* The relay hears of success when the endpoint has said so, and may give up
\* on it before and after.
OnlyIfAccepted(c, s) == <<c, s>> \notin accepted => Queue(c, "connect_failed", s)

ConnectAnswered(c, s) ==
  /\ ConnectEnds(c, s)
  /\ OnlyIfAccepted(c, s)
  /\ UNCHANGED endpointVars

AutoNext ==
  \/ \E s \in Streams : ReceiveSuccess(s)
  \/ \E c \in Conns, s \in Streams : Accept(c, s) \/ ConnectAnswered(c, s)
  \/ \E c \in Conns : HandlerOffers(c)
  \/ /\ \/ \E c \in Conns, p \in Peers : Establish(c, p)
        \/ \E c \in Conns : Close(c)
        \/ \E s \in Streams, r \in Request : Open(s, r)
        \/ \E s \in Streams : \/ ReceiveDialRequest(s)
                              \/ ReceiveListenRequest(s)
                              \/ ResumeDial(s)
                              \/ Respond(s)
                              \/ UpgradeFails(s)
        \/ Poll
        \/ PollPending
     /\ UNCHANGED endpointVars

AutoSpec == AutoInit /\ [][AutoNext]_autoVars

-----------------------------------------------------------------------------
\* A dial that is told of success is joined to a stream of its own, which the
\* endpoint of the peer it named has accepted, however connections close,
\* upgrades time out and dials for one peer overtake each other on the way.
Named == INSTANCE Rendezvous WITH
  Dials   <- Streams,
  Offers  <- Conns \X Streams,
  target  <- [s \in Streams |-> IF IsDial(s) THEN request[s].peer ELSE None],
  offered <- [o \in Conns \X Streams |-> IF o \in accepted THEN conn_peer[o[1]] ELSE None],
  partner <- connection

ImplementsRendezvous == Named!Spec
=============================================================================
