CONSTANTS
  Pairs = {p1}
  MaxSent = 1
  Window = 1
  None = None
SPECIFICATION FairSpec
PROPERTY CopiesMove
CHECK_DEADLOCK FALSE
