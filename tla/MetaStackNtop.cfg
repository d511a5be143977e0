SPECIFICATION Spec
CONSTANTS
  Value = {0, 1}
  Zero = 0
  NTOP = 2
  FrameSize = 2
  SpillSize = 1
  CallWindow = 1
  CatchDepth = 1
  SnapTops = 2
  None = None
  Overflow = Overflow
INVARIANT TypeOK
PROPERTY IsDataStack
