SPECIFICATION Spec
CONSTANTS
  Programs <- MCPrograms
  MaxAsked = 4
INVARIANT TypeOK
INVARIANT FramesMatch
INVARIANT HandlersMatch
INVARIANT Conforms
PROPERTY Terminates
