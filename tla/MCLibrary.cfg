SPECIFICATION LibrarySpec
CONSTANTS
    MaxNumeral = 2
    Code <- MCCode
    UpperOf <- MCUpperOf
    Texts <- MCTexts
    Names <- MCNames
    Globs <- MCGlobs
    MaxText = 3
    Patterns <- MCPatterns
    Masks <- MCMasks
    Tokenised <- MCTokenised
    MaxLoops = 2
    Paths = {"p"}
    Openings <- MCOpenings
    Writes <- MCWrites
    Rows <- MCRows
    MaxFile = 4
    FeofChunk = 1
    LineChunk = 2
INVARIANT CallsAgree
INVARIANT TokensInOrder
INVARIANT ReadsInOrder
INVARIANT SeesTheRest
CHECK_DEADLOCK FALSE
