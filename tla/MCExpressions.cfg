SPECIFICATION Spec
CONSTANTS
    Variables <- MCVariables
    Identifiers <- MCIdentifiers
    Texts <- MCTexts
    Literals <- MCLiterals
    ArrayLiterals <- MCArrayLiterals
    Templates <- MCTemplates
    TypeOfName <- MCTypeOfName
    HostCall <- MCHostCall
    Code <- MCCode
    Declarations <- MCDeclarations
    Sources <- MCSources
    MaxNumeral = 20
    Width = 8
INVARIANT ValueAsRead
CHECK_DEADLOCK FALSE
