CONSTANTS
  a1 = a1
  Dials = {d1, x1}
  RelayDials = {x1}
  Listens = {l1}
  Addrs = {a1}
  LocalAddr <- OnlyLocalAddr
  Forwarded = {}
  ListenAddr <- OnlyListenAddr
  Conns = {}
  ListenerCap = 1
  TransportCap = 1
  None = None
SPECIFICATION FairCombinedSpec
PROPERTY DialReturns
CHECK_DEADLOCK FALSE
