SPECIFICATION Spec
CONSTANTS
    Nil = Nil
    NamePrefixes <- MCPrefixes
    Programs <- MCPair
    Vars <- MCTwoVars
    MaxNest = 31
    MaxCompared = 40
    Objects <- MCObjectSet
    MaxFrames = 2
CHECK_DEADLOCK FALSE
INVARIANT ComparedEqual
