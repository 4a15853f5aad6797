SPECIFICATION Spec
CONSTANTS
    MaxNumeral = 2
    Code <- MCCode
    Scalars <- MCScalars
    Keys <- MCKeys
    MaxLen = 3
    MaxTotal = 3
    MaxIndex = 4
INVARIANT TypeOK
INVARIANT ComparesRight
INVARIANT NothingLost
CHECK_DEADLOCK FALSE
