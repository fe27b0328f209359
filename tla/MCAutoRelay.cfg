CONSTANTS
  Peers = {p1, p2}
  Addrs = {a1}
  Conns = {c1, c2}
  Streams = {s1, s2, s3}
  None = None
SPECIFICATION AutoSpec
SYMMETRY Symmetry
INVARIANTS TypeOK Routing OneSender SenderHasAttempt SplicedToRequestedPeer NoSharedStream OnlyListenersReached
PROPERTIES ImplementsRendezvous
CHECK_DEADLOCK FALSE
