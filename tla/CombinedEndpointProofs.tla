----------------------- MODULE CombinedEndpointProofs -----------------------
(***************************************************************************)
(* The endpoint behind a CombineTransport is an endpoint: what is proved   *)
(* of EndpointBehaviour holds of it.                                       *)
(***************************************************************************)
EXTENDS CombinedEndpoint, EndpointOnceProofs

LEMMA CombinedStep == [CombinedNext]_combinedVars => [Next]_vars
<1> SUFFICES ASSUME [CombinedNext]_combinedVars
             PROVE  [Next]_vars
    OBVIOUS
<1>1. CASE UNCHANGED combinedVars
  BY <1>1 DEF combinedVars
<1>2. ASSUME NEW r \in RelayDials, InnerDial(r)
      PROVE  Next
  <2>1. r \in Requests
    BY RelayDialsAreDials DEF Requests
  <2> QED BY <2>1, <1>2 DEF InnerDial, Next
<1>3. CASE NormalEnds
  BY <1>3 DEF NormalEnds
<1>4. CASE DialFails \/ ConnectionFails
  BY <1>4 DEF DialFails, ConnectionFails, Next
<1>5. ASSUME NEW c \in Conns, DialSucceeds(c)
      PROVE  Next
  BY <1>5 DEF DialSucceeds, Next
<1>6. ASSUME NEW r \in Requests \ RelayDials, Request(r)
      PROVE  Next
  BY <1>6 DEF Next
<1>7. ASSUME NEW l \in Listens, RemoveListener(l) \/ ListenerReceive(l)
      PROVE  Next
  BY <1>7 DEF Next
<1>8. CASE TransportReceive
  BY <1>8 DEF Next
<1>9. CASE RefusedDial
  BY <1>9 DEF RefusedDial, Next
<1>10. CASE Poll
  BY <1>10 DEF Next
<1>11. ASSUME NEW c \in Conns,
              \/ OnConnectionClosed(c)
              \/ HandlerPoll(c)
              \/ \E r \in Requests : UpgradeEnds(c, r)
              \/ \E i \in Forwarded : Accept(c, i)
       PROVE  Next
  BY <1>11 DEF Next
<1> QED
  BY <1>1, <1>2, <1>3, <1>4, <1>5, <1>6, <1>7, <1>8, <1>9, <1>10, <1>11
  DEF CombinedNext, Dialing

\* Dialing the relay through itself shows the behaviour nothing it would not
\* see of a transport that knows no relay.
THEOREM CombinedImplementsEndpoint == CombinedSpec => Spec
<1>1. CombinedInit => Init
  BY DEF CombinedInit
<1> QED BY <1>1, CombinedStep, PTL DEF CombinedSpec, Spec

\* So a listener behind a CombineTransport only gets connections for its
\* address, though requests for the relay itself are queued with the others.
THEOREM CombinedListenersGetTheirOwn == CombinedSpec => []DeliveredToItsAddress
BY CombinedImplementsEndpoint, ListenersGetTheirOwn, PTL

\* No dial is lost or answered twice there, though one dials the relay through
\* the endpoint's own transport while others wait for that dial.
THEOREM CombinedDialsHeldOnce == CombinedSpec => []OneHolder
BY CombinedImplementsEndpoint, DialsHeldOnce, PTL

\* And the swarm that runs them both is promised what an endpoint promises.
THEOREM CombinedServes == CombinedSpec => ImplementsService
BY CombinedImplementsEndpoint, EndpointServes, PTL
=============================================================================
