SPECIFICATION Spec
CONSTANTS
  Word = {w}
  CodeLen = 3
  StackSize = 4
  LoopSize = 2
  RSize = 0
  CatchDepth = 1
  Limit = {0, 2}
  Increment = {1}
  Code = {7}
  AbortCode = 1
  NestedAborts = FALSE
  Quit = Quit
  None = None
PROPERTY ThrowRestoresLoops
