CONSTANTS
    Procs = {p1, p2}
    NoProc = NoProc
    Modes = {m1, m2}
    Partial = Partial
    MaxSize = 2
    Faults = TRUE

SPECIFICATION FairSpec
INVARIANT TypeOK
INVARIANT KeepsAttributes
INVARIANT NothingUnsaved
PROPERTY CatchesUp
