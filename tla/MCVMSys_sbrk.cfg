\* sys_sbrk with a negative change moves the break up, past the stack.
CONSTANTS
    Procs = {p1, p2}
    NoProc = NoProc
    NoAS = NoAS
    NF = 2
    PAGE_SIZE = 2
    WordBits = 4
    HEAPLIMIT = 2
    Deltas <- MCDeltas
    Programs <- MCPrograms
    KmallocMayFail = FALSE
SYMMETRY MCSymmetry
SPECIFICATION Spec
INVARIANT HeapWithinBounds
