SPECIFICATION Spec
CONSTANTS
  CellBytes = 2
  AllocBase = 2
  AllocLimit = 12
  MaxInt = 31
  Byte = {0, 1}
  Size = {0, 1, 3}
INVARIANTS TypeOK BlocksSound RegionAccounted
PROPERTY IsAllocator
