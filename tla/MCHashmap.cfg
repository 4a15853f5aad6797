SPECIFICATION Spec
CONSTANTS
    a = a
    Nodes = {n1, n2, n3}
    IntKeys <- MCIntKeys
    BlobKeys = {a}
    Values = {0, 1}
    Hash <- MCHash
    FirstSize = 1
    FillFactor = 2
    Nil = Nil
SYMMETRY Symmetry
INVARIANT ListIntact
INVARIANT ChainsIntact
INVARIANT KeysUnique
PROPERTY ImplementsMap
