CONSTANTS
    NBlocks = 2
    StackSize = 2
    Procs = {p1, p2}
    NoProc = NoProc
    FileData = FileData
    Faults = {}
    UpdateMayFail = TRUE

SPECIFICATION SyncSpec
SYMMETRY Symmetry
INVARIANT SyncTypeOK
INVARIANT CleanMeansListed
PROPERTY Implements
CHECK_DEADLOCK FALSE
