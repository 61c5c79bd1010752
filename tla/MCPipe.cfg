CONSTANTS
  p1 = p1
  p2 = p2
  Thread <- MCThread
  Byte = {0, 1}
  Capacity = 2
  Waiters = 1
  MaxCount = 2
  Modes = {FALSE}
  Signalled = {}
  NoThread = NoThread
SYMMETRY Symmetry
SPECIFICATION Spec
PROPERTY ImplementsByteStream
