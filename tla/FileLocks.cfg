CONSTANTS
  Proc = {p1, p2}
  Worker = {w1}
  Service = {n1}
  None = None
SPECIFICATION FairSpec
PROPERTY ExitEnds
CHECK_DEADLOCK FALSE
