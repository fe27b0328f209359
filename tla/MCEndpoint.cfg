CONSTANTS
  a1 = a1  a2 = a2  l1 = l1  l2 = l2
  Dials = {d1}
  Listens = {l1, l2}
  Addrs = {a1, a2}
  LocalAddr <- OwnLocalAddr
  Forwarded = {i1}
  ListenAddr <- SameListenAddr
  Conns = {c1, c2}
  ListenerCap = 1
  TransportCap = 1
  None = None
SPECIFICATION Spec
SYMMETRY Symmetry
INVARIANTS TypeOK OneHolder ParkedMeansConnecting EstablishedIsLive DeliveredToItsAddress
PROPERTIES ImplementsLine ImplementsService
CHECK_DEADLOCK FALSE
