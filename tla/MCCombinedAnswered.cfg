CONSTANTS
  a1 = a1
  Dials = {d1, x1, x2}
  RelayDials = {x1, x2}
  Listens = {l1}
  Addrs = {a1}
  LocalAddr <- OnlyLocalAddr
  Forwarded = {i1}
  ListenAddr <- OnlyListenAddr
  Conns = {c1}
  ListenerCap = 1
  TransportCap = 1
  None = None
SPECIFICATION FairCombinedSpec
PROPERTIES ReturnsOrWaitsForItself AnsweredOrWaits
CHECK_DEADLOCK FALSE
