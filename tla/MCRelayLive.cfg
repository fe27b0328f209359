CONSTANTS
  Peers = {p1}
  Addrs = {a1}
  Conns = {c1}
  Streams = {s1, s2, s3}
  None = None
SPECIFICATION FairSpec
PROPERTIES DialAnswered ListedEventually DialSpliced
CHECK_DEADLOCK FALSE
