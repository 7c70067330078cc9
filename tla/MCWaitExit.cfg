\* Under weak fairness of both threads: does a waitpid on the child that
\* passes its checks return the child's pid?  The program stops once the
\* parent has made its calls and the child has exited; a thread asleep
\* forever is a violation of the property, not reported as deadlock.
CONSTANTS
    ParentPid = ParentPid
    ChildPid = ChildPid
    OtherPid = OtherPid
    BadPid = BadPid
    EINVAL = EINVAL
    EFAULT = EFAULT
    ENOMEM = ENOMEM
    Codes = {1, 2}
    MaxCalls = 2
SPECIFICATION Spec
PROPERTY WaitpidReturnsPid
CHECK_DEADLOCK FALSE
