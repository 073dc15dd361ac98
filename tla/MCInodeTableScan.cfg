CONSTANTS
    NInodes = 3
    TableSize = 2
    SectorPart = 1
    PerBlock = 2
    Procs = {p1, p2}
    NoProc = NoProc
    Remounts = FALSE

SPECIFICATION FairSpec
PROPERTY ScanEnds
CHECK_DEADLOCK FALSE
