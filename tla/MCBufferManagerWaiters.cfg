CONSTANTS
    NBuf = 1
    NBlocks = 2
    Values = {v0}
    Zero = v0
    Procs = {p1, p2}
    NoProc = NoProc
    Delayed = FALSE
    Faults = {}

SPECIFICATION FairSpec
INVARIANT TypeOK
INVARIANT LocksHeld
PROPERTY WaitersProceed
CHECK_DEADLOCK FALSE
