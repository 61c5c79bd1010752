CONSTANTS
  u1 = u1
  k1 = k1
  Cpu = {0}
  Thread <- MCThread
  UserThread <- MCUserThread
  Idle = Idle
  NoNode = NoNode
  MaxDepth = 1
SPECIFICATION FairSpec
PROPERTIES
  SleepersWake
