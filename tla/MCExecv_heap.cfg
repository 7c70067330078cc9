\* The kernel-heap accesses of sys_execv and the address-space calls it
\* makes: the progname copy, as_create, as_define_stack and kargs_addrs.
CONSTANTS
    MaxArgs = 2
    Lens = {0, 1, 2}
    NPTE = 2
    USERSTACK = 24
    EFAULT = EFAULT
    ENOMEM = ENOMEM
    EINVAL = EINVAL
    ENOENT = ENOENT
    ENOEXEC = ENOEXEC
SPECIFICATION Spec
CHECK_DEADLOCK FALSE
INVARIANT KernelMemorySafe
