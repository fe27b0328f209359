CONSTANTS
  Peers = {p1, p2}
  Addrs = {a1, a2}
  Conns = {c1, c2}
  Streams = {s1, s2, s3}
  None = None
SPECIFICATION Spec
SYMMETRY Symmetry
INVARIANT SplicedToRequestedAddr
CHECK_DEADLOCK FALSE
