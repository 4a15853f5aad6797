SPECIFICATION Spec
CONSTANTS
    Names = {x, y}
    Slots = {s1, s2, s3}
    Nodes = {n1}
    Arrays = {a1}
    Instances = {}
    Blocks = {"loop", "exception", "catch"}
    MaxFrames = 3
    Nil = Nil
SYMMETRY Symmetry
CHECK_DEADLOCK FALSE
INVARIANT FreeListSound
INVARIANT SymbolsBacked
INVARIANT PureBindingsLive
PROPERTY PureLeaveKeepsOuter
