SPECIFICATION FairSpec
CONSTANTS
  Lessons <- MCLessons
  MaxInlineBody = 4
  MaxSplice = 6
  MaxSpliced = 16
  Leftover = 1
  CallDepth = 3
INVARIANTS TypeOK RunsAsWritten ControlStackRestored
PROPERTY RunArrives
\* A word that has been run has ended.
CHECK_DEADLOCK FALSE
