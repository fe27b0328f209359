CONSTANTS
  a1 = a1  a2 = a2  l1 = l1  l2 = l2
  Dials = {d1}
  Listens = {l1}
  Addrs = {a1}
  LocalAddr <- SameLocalAddr
  Forwarded = {}
  ListenAddr <- SameListenAddr
  Conns = {}
  ListenerCap = 1
  TransportCap = 1
  None = None
SPECIFICATION Spec
INVARIANT ParkedMeansDialing
CHECK_DEADLOCK FALSE
