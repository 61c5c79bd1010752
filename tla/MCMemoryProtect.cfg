CONSTANTS
  s1 = s1 s2 = s2
  f1 = f1 f2 = f2 f3 = f3 f4 = f4
  Space <- MCSpace
  Page = {0}
  Frame <- MCFrame
  Slot = {}
  Value = {0, 1}
  Zero = 0
  NoPage = NoPage
  NoFrame = NoFrame
  MaxRefs = 1
  MaxSwapRefs = 2
  Prots = {"read", "write"}
SYMMETRY Symmetry
SPECIFICATION Spec
PROPERTY ImplementsPrivateMemory
