SPECIFICATION Spec
CONSTANTS
  Main = "main"
  File <- MCFile
  String <- MCString
  NoFile = "nofile"
  FileLen <- MCFileLen
  LineLen = 2
  Depth = 6
  CatchTexts = FALSE
  None = None
INVARIANT TypeOK
PROPERTIES IsInputSource IncludesOwnLines
