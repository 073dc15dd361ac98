CONSTANTS
    NBlocks = 4
    StackSize = 2
    Procs = {p1, p2}
    NoProc = NoProc
    FileData = FileData
    Faults = {}

SPECIFICATION FairSpec
INVARIANT ListedOnce
INVARIANT LoadsOnlyGroups
INVARIANT FsckAccepts
PROPERTY Implements
PROPERTY CallsReturn
CHECK_DEADLOCK FALSE
