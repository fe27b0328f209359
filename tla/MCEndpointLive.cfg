CONSTANTS
  a1 = a1  a2 = a2  l1 = l1  l2 = l2
  Dials = {d1}
  Listens = {l1}
  Addrs = {a1}
  LocalAddr <- SameLocalAddr
  Forwarded = {i1, i2, i3}
  ListenAddr <- SameListenAddr
  Conns = {c1}
  ListenerCap = 1
  TransportCap = 1
  None = None
SPECIFICATION FairSpec
INVARIANT InOnePlace
PROPERTIES ForwardedInTurn DialAnswered ListenAnswered ForwardedLeaves
CHECK_DEADLOCK FALSE
