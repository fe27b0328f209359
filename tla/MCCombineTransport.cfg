CONSTANTS
  Dials = {d1}
  Listens = {l1, l2}
  Addrs = {a1}
  Ids = {i1, i2}
  ToBehaviourCap = 1
  FromBehaviourCap = 1
  MaxNews = 2
  ListenerCap = 1
  None = None
SPECIFICATION FairSpec
INVARIANTS TypeOK RequestsInOrder FirstRemovable
PROPERTIES ImplementsLine SharedListenerKept RequestsTaken FailedIsDropped
CHECK_DEADLOCK FALSE
