CONSTANTS
  Cpu = {0, 1, 2}
  Space = {s1}
  Frame = {f1}
  NoCpu = NoCpu
  Kernel = Kernel
  Empty = Empty
  MaxGen = 0
  MayPanic = {0, 1}
SPECIFICATION FairSpec
PROPERTY PanicStopsAll
\* Every processor is stopped after a panic.
CHECK_DEADLOCK FALSE
