CONSTANTS
  p1 = p1
  p2 = p2
  Thread <- MCThread
  Byte = {0}
  Capacity = 1
  Waiters = 1
  MaxCount = 1
  Modes = {TRUE, FALSE}
  Signalled = {p1}
  NoThread = NoThread
SPECIFICATION FairSpec
INVARIANTS TypeOK CallersHoldPipe EndCounted NoLostWakeup
PROPERTY BlockedGetsWoken
