CONSTANTS
  Ap = {1, 2, 3}
  NoAp = 0
  s1 = s1
  s2 = s2
  f1 = f1
  f2 = f2
  Cpu = {0, 1, 2}
  Space <- MCSpace
  Frame <- MCFrame
  NoCpu = NoCpu
  Kernel = Kernel
  Empty = Empty
  MaxGen = 2
  MayPanic = {0, 1}
SPECIFICATION MCSpec
CONSTRAINT Scenario
INVARIANTS OnlineRuns AnswerIsRight TypeOK NoFreedTranslation Coherent
PROPERTIES SystemStarts ShootdownsEnd PanicStops
\* Every processor is stopped after a panic.
CHECK_DEADLOCK FALSE
