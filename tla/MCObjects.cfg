SPECIFICATION Spec
CONSTANTS
    Nil = Nil
    NamePrefixes <- MCPrefixes
    Programs <- MCPrograms
    Vars <- MCVars
    MaxNest = 31
    MaxCompared = 40
    Objects <- MCObjectSet
    MaxFrames = 3
CHECK_DEADLOCK FALSE
INVARIANT RefsCounted
INVARIANT ClassRestored
INVARIANT MethodsInherited
INVARIANT MembersAgree
INVARIANT KindsAgree
