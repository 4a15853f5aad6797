SPECIFICATION Spec
CONSTANTS
    Statements = {l1, l2}
    Arrays = {m1, m2}
    Elems = {e1, e2, e3}
    CursorOps = {"reset", "end", "next", "prev"}
    MaxLoops = 2
    MaxRef = 3
    Nil = Nil
CHECK_DEADLOCK FALSE
SYMMETRY Symmetry
INVARIANT TypeOK
INVARIANT OwnsArray
INVARIANT VisitsOnce
INVARIANT VisitsAll
