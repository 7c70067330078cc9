\* sys_fork drops the copied space when kmalloc or thread_fork fails:
\* its frames stay valid with no page table mapping them.
CONSTANTS
    Procs = {p1, p2}
    NoProc = NoProc
    NoAS = NoAS
    NF = 2
    PAGE_SIZE = 2
    WordBits = 4
    HEAPLIMIT = 2
    Deltas <- MCDeltas
    Programs <- MCPrograms
    KmallocMayFail = TRUE
SYMMETRY MCSymmetry
SPECIFICATION Spec
INVARIANT FrameAccounting
