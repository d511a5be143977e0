SPECIFICATION Spec
CONSTANTS
  Main = "main"
  File <- MCFile
  String <- MCString
  NoFile = "nofile"
  FileLen <- MCFileLen
  LineLen = 2
  Depth = 7
  CatchTexts = TRUE
  None = None
PROPERTY IncludesOwnLines
