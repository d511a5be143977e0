SPECIFICATION Spec
CONSTANTS
    Names <- MCNames
    Values <- MCValues
    Lessons <- MCLessons
INVARIANT TypeOK
INVARIANT LookupIsSearch
INVARIANT CoreWordsReachable
INVARIANT WordsFilled
INVARIANT TablesFindWords
PROPERTY IsDefinitions
CHECK_DEADLOCK FALSE
