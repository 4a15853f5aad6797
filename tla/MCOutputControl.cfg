SPECIFICATION Spec
CONSTANTS
    MaxPrint = 3
    MaxLevel = 2
    MaxNest = 2
    MaxShutdown = 2
    MaxExec = 2
    ObCapacity = 1
INVARIANT ConsumerHasBuffer
INVARIANT NothingLost
INVARIANT InOrder
INVARIANT ShutdownInOrder
CHECK_DEADLOCK FALSE
