CONSTANTS
  init = init
  p1 = p1
  p2 = p2
  Proc <- MCProc
  Init1 = init
  NoProc = NoProc
  First <- MCFirst
  Calls = {"wait", "waitpid"}
  Catchers = {p1}
  Signalled = {p1}
  MaxCalls = 2
SPECIFICATION FairSpec
INVARIANTS TypeOK ParentCanWait FreedIsStopped WaiterIsParent NoLostWakeup
PROPERTIES OrphansReaped KillEnds
\* Pids are not used again: the system stops when all have been.
CHECK_DEADLOCK FALSE
