SPECIFICATION Spec
CONSTANTS
    Names = {x, y}
    Slots = {s1, s2, s3, s4}
    Nodes = {n1}
    Arrays = {a1, a2}
    Instances = {o1}
    Blocks = {}
    MaxFrames = 2
    Nil = Nil
SYMMETRY Symmetry
CHECK_DEADLOCK FALSE
INVARIANT NodesBacked
