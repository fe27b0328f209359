CONSTANTS
  Pairs = {p1}
  MaxSent = 2
  Window = 1
  None = None
SPECIFICATION FairSpec
INVARIANTS TypeOK QueuedIfItCanMove VectoredReads
PROPERTIES ImplementsPipe MovesOrStalls LossPassedOnIfNotSilent
CHECK_DEADLOCK FALSE
