SPECIFICATION Spec
CONSTANTS
  Word = {w}
  CodeLen = 2
  StackSize = 6
  LoopSize = 0
  RSize = 1
  CatchDepth = 2
  Limit = {0}
  Increment = {1}
  Code = {7}
  AbortCode = 1
  NestedAborts = FALSE
  Quit = Quit
  None = None
INVARIANTS TypeOK FramesMatchControl PortalsMatchControl
PROPERTY IsProtectedCalls
