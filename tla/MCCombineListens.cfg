CONSTANTS
  Dials = {d1}
  Listens = {l1, l2}
  Addrs = {a1, a2}
  Ids = {i1, i2}
  ToBehaviourCap = 1
  FromBehaviourCap = 1
  MaxNews = 2
  ListenerCap = 1
  None = None
SPECIFICATION Spec
INVARIANT ListensOnBoth
CHECK_DEADLOCK FALSE
