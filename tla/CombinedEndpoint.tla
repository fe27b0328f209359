-------------------------- MODULE CombinedEndpoint --------------------------
(***************************************************************************)
(* The endpoint with its transport inside a CombineTransport (combine.rs), *)
(* the way the integration test builds it.  Every dial of the swarm is     *)
(* made twice, by the normal transport and through the relay, and the      *)
(* first connection wins.  That goes for the dial of the relay as well,    *)
(* whose second half is a request for the behaviour that asked for it.     *)
(*                                                                         *)
(* Nobody but the behaviour connects to the relay here.                    *)
(***************************************************************************)
EXTENDS EndpointBehaviour

CONSTANT RelayDials  \* what dials of the relay ask of the endpoint transport

ASSUME RelayDialsAreDials == RelayDials \subseteq Dials /\ None \notin RelayDials

VARIABLES
  dial1,  \* the normal transport's half of the dial of the relay
  dial2   \* the request that is the other half

combinedVars == <<vars, dial1, dial2>>

CombinedInit == Init /\ dial1 = "none" /\ dial2 = None

\* inner_dial, for the dial the behaviour asked for; the normal transport may
\* refuse the address at once.
InnerDial(r) ==
  /\ dialing
  /\ dial2 = None
  /\ Request(r)
  /\ dial1' \in {"pending", "err"}
  /\ dial2' = r

\* The bound on connections: without one left the relay cannot be reached.
NormalEnds ==
  /\ dial1 = "pending"
  /\ \/ dial1' = "err"
     \/ dial1' = "ok" /\ \E c \in Conns : c \notin live \cup closed
  /\ UNCHANGED <<vars, dial2>>

Over == dialing' = FALSE /\ dial1' = "none" /\ dial2' = None

\* A plausible slip: both halves are awaited (join for select).
BothConnected == dial2 # None /\ dial1 = "ok" /\ answer[dial2] # "open"

\* The first half that connects gives the connection; the other is dropped.
HalfConnected == dial2 # None /\ (dial1 = "ok" \/ answer[dial2] = "ok")

DialSucceeds(c) ==
  /\ HalfConnected
  /\ OnConnectionEstablished(c)
  /\ Over

\* That connection may still fail to be upgraded, and the dropped half is not
\* tried again.
ConnectionFails ==
  /\ HalfConnected
  /\ OnDialFailure
  /\ Over

\* A half that fails leaves the dial to the other one.
DialFails ==
  /\ dial2 # None
  /\ dial1 = "err" /\ answer[dial2] \in {"err", "canceled"}
  /\ OnDialFailure
  /\ Over

Dialing == NormalEnds \/ DialFails \/ ConnectionFails \/ \E c \in Conns : DialSucceeds(c)

Unrelated == UNCHANGED <<dial1, dial2>>

\* Somebody else's dial of the relay that the swarm refuses, say because there
\* is one under way: a DialFailure for the same peer.
RefusedDial == OnDialFailure /\ UNCHANGED dialing

CombinedNext ==
  \/ \E r \in RelayDials : InnerDial(r)
  \/ Dialing
  \/ Unrelated /\ \E r \in Requests \ RelayDials : Request(r)
  \/ Unrelated /\ \E l \in Listens : RemoveListener(l) \/ ListenerReceive(l)
  \/ Unrelated /\ TransportReceive
  \/ Unrelated /\ RefusedDial
  \/ Unrelated /\ Poll
  \/ Unrelated /\ \E c \in Conns :
       \/ OnConnectionClosed(c)
       \/ HandlerPoll(c)
       \/ \E r \in Requests : UpgradeEnds(c, r)
       \/ \E i \in Forwarded : Accept(c, i)

CombinedSpec == CombinedInit /\ [][CombinedNext]_combinedVars

\* As in EndpointBehaviour; of a dial, only that the normal transport ends it.
FairCombinedSpec ==
  /\ CombinedSpec
  /\ WF_combinedVars(\E r \in RelayDials : InnerDial(r))
  /\ WF_combinedVars(Dialing)
  /\ WF_combinedVars(Unrelated /\ PollRequest)
  /\ WF_combinedVars(Unrelated /\ PollOut)
  /\ WF_combinedVars(Unrelated /\ TransportReceive)
  /\ \A c \in Conns :
       /\ WF_combinedVars(Unrelated /\ HandlerPoll(c))
       /\ \A r \in Requests : WF_combinedVars(Unrelated /\ UpgradeEnds(c, r))

-----------------------------------------------------------------------------
\* What is left of the dial of the relay is a request parked for that dial, or
\* one that can only be parked.
WaitsForItself ==
  /\ dial1 = "err"
  /\ connecting
  /\ dial2 \in Range(waiting) \cup Range(from_transport)

\* A dial of the relay returns, unless it has come to wait for itself: the two
\* halves get in each other's way in no other manner.
ReturnsOrWaitsForItself == dialing ~> ~ dialing \/ WaitsForItself

\* A dial through the relay is answered, without any assumption that the
\* relay's own dial ends, unless the behaviour waits for a dial that is over
\* or for one that waits for itself.
AnsweredOrWaits ==
  \A r \in Dials : answer[r] = "open" ~> answer[r] # "open" \/ Stranded \/ WaitsForItself

\* "Also we hope dial an addr can dial through the normal transport and the
\* endpoint-transport, return the first successfully connection. This combine
\* transport can help us do this job" (combine.rs:17): the dial of the relay
\* returns.
DialReturns == dialing ~> ~ dialing
=============================================================================
