\* sys_sbrk frees heap frames without invalidating their TLB entries; a
\* fork can hand such a frame to the child while the parent still reaches it.
CONSTANTS
    Procs = {p1, p2}
    NoProc = NoProc
    NoAS = NoAS
    NF = 2
    PAGE_SIZE = 2
    WordBits = 4
    HEAPLIMIT = 2
    Deltas <- MCDeltas
    Programs <- MCPrograms
    KmallocMayFail = FALSE
SYMMETRY MCSymmetry
SPECIFICATION Spec
INVARIANT TLBIsolation
