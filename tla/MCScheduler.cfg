CONSTANTS
  u1 = u1
  k1 = k1
  Cpu <- MCCpu
  Thread <- MCThread
  UserThread <- MCUserThread
  Idle = Idle
  NoNode = NoNode
  MaxDepth = 1
SPECIFICATION Spec
INVARIANTS
  OneCpuPerThread
  StoppedIsGone
  KernelOnBootCpu
  DepthFollowsThread
  NoStaleTimeout
PROPERTIES
  PreemptionRespected
  ImplementsSleepWake
