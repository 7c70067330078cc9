\* Two user threads, two console calls each, of size 0 or 2.  The threads
\* stop calling after MaxCalls, so the console stops there; a thread stuck
\* in the kernel is a violation of CallsReturn, not reported as deadlock.
CONSTANTS
    Threads = {t1, t2}
    Sizes = {0, 2}
    MaxCalls = 2
    STDIN_FILENO = STDIN_FILENO
    STDOUT_FILENO = STDOUT_FILENO
    STDERR_FILENO = STDERR_FILENO
    EBADF = EBADF
    EFAULT = EFAULT
    ENOSPC = ENOSPC
SYMMETRY MCSymmetry
SPECIFICATION Spec
INVARIANT TypeOK
INVARIANT WholeWrites
INVARIANT SemsBalanced
PROPERTY CallsReturn
CHECK_DEADLOCK FALSE
