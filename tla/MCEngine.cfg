SPECIFICATION HostSpec
CONSTANTS
    Null = Null
    Engines = {e1, e2}
    Vms = {v1, v2, v3}
    MaxVm = 4
    Root = root
    Children = {c1}
    Blocks = {b1, b2, b3}
    NBuckets = 2
    BlockUnits = 1
    HeapUnits = 1
    Requests = {1, 2, 4}
    Limits = {0, 12}
    MaxUsage = 16
SYMMETRY Symmetry
INVARIANT ListsLinked
INVARIANT WalksEnd
INVARIANT OneOwner
INVARIANT BlocksTracked
PROPERTY LimitHonoured
CHECK_DEADLOCK FALSE
