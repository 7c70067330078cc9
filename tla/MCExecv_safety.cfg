\* sys_execv with every argument shape, bad pointer and failure of kmalloc,
\* copyin, vfs_open, load_elf and copyout: argv is laid out as the program
\* expects, and every copy the call made is freed however it ends.
CONSTANTS
    MaxArgs = 2
    Lens = {0, 1, 2}
    NPTE = 2
    USERSTACK = 24
    EFAULT = EFAULT
    ENOMEM = ENOMEM
    EINVAL = EINVAL
    ENOENT = ENOENT
    ENOEXEC = ENOEXEC
SPECIFICATION Spec
INVARIANT ArgvLayout
INVARIANT ExecvFreesTemporaries
CHECK_DEADLOCK FALSE
