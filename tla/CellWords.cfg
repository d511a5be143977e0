SPECIFICATION Spec
CONSTANTS
  Half = 2
  Decimal = 3
  Hex = 4
  CharSize = 8
  Dash = 7
  Blank = 6
  CellBytes = 4
  HeapSize = 16
  Programs <- MCPrograms
INVARIANTS TypeOK NumberShown Identities
PROPERTIES SumsExact QuotientsExact BlocksMoved StringsCompared
