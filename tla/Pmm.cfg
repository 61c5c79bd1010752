CONSTANTS
  frame_limit = 7
  MaxRefs = 2
  MaxRun = 3
SPECIFICATION Spec
INVARIANTS TypeOK FreeCounted
PROPERTY ImplementsFrameStore
