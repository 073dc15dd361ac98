CONSTANTS
    NBuf = 2
    NBlocks = 3
    Values = {v0, v1}
    Zero = v0
    Procs = {p1}
    NoProc = NoProc
    Delayed = TRUE
    Faults = {"read", "write"}

SPECIFICATION Spec
INVARIANT OneUserIsApart
INVARIANT FreeListOK
INVARIANT Coherent
INVARIANT NothingLost
CHECK_DEADLOCK FALSE
