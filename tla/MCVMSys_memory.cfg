\* kmalloc and thread_fork may fail.  Frames stay exclusive, only a failed
\* fork loses frames, and every step moves frames as AbstractMemory allows.
CONSTANTS
    Procs = {p1, p2}
    NoProc = NoProc
    NoAS = NoAS
    NF = 2
    PAGE_SIZE = 2
    WordBits = 4
    HEAPLIMIT = 2
    Deltas <- MCDeltas
    Programs <- MCPrograms
    KmallocMayFail = TRUE
SYMMETRY MCSymmetry
SPECIFICATION Spec
INVARIANT TypeOK
INVARIANT FrameExclusive
INVARIANT OnlyForkLeaks
PROPERTY MemorySpec
