SPECIFICATION Spec
CONSTANTS
  Value = {0, 1}
  Zero = 0
  FrameSize = 1
  SpillSize = 2
  CatchDepth = 1
  None = None
  Overflow = Overflow
INVARIANTS TypeOK SnapshotFaithful SpillUndisturbed
PROPERTY IsDataStack
