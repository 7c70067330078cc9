------------------------------ MODULE WaitExit ------------------------------
(***************************************************************************)
(* sys_waitpid and sys_exit (syscall.c), with the mips_syscall glue that  *)
(* turns their result into the user's v0.  One parent thread calls        *)
(* waitpid; its child thread runs and calls _exit.  The process table     *)
(* (find_process, the records) lives in thread.c, outside this directory: *)
(* a record is modelled as the fields syscall.c reads and writes.         *)
(*                                                                         *)
(* Synchronisation, after the OS161 primitives syscall.c calls:           *)
(*  - cv_wait(cv, lk) releases lk and puts the thread to sleep on cv in   *)
(*    one step (interrupts are off), and reacquires lk once woken;        *)
(*  - cv_broadcast(cv, lk) wakes every thread asleep on cv;               *)
(*  - the parent never takes procLL_sem in syscall.c, so the child's P/V  *)
(*    pair never blocks and only the order of its writes matters.         *)
(* One CPU: any thread may be preempted between two of these steps.       *)
(***************************************************************************)
EXTENDS Naturals

CONSTANTS ParentPid,  \* the waiting process
          ChildPid,   \* its child
          OtherPid,   \* a process that is not the caller's child
          BadPid,     \* a pid with no process
          Codes,      \* exit codes the child may pass to _exit
          MaxCalls    \* bound on the parent's waitpid calls

ASSUME ParentPid \notin {ChildPid, OtherPid, BadPid} /\ MaxCalls \in Nat

\* Error numbers, as model values of their own.
CONSTANTS EINVAL, EFAULT, ENOMEM

\* The pointer returncode as waitpid's checks see it.
Pointers == {"ok", "null", "misaligned", "unmapped"}

VARIABLES
    exit_code,      \* the child's record: exit_code
    has_exited,     \*   has_exited
    was_waited_on,  \*   was_waited_on
    ppc,            \* the parent's place in sys_waitpid
    cpc,            \* the child's place in sys_exit
    lock,           \* holder of waitpid_lock: "parent" or "none"
    sleepers,       \* threads asleep on waitpid_cv
    arg,            \* the pid of the parent's call in progress
    retval,         \* mips_syscall's retval, set to 0 before each call
    returncode,     \* the int the user passed to waitpid, or "unset"
    ret,            \* what the last call gave back: [err, v0]
    calls           \* waitpid calls made

vars == <<exit_code, has_exited, was_waited_on, ppc, cpc, lock, sleepers,
          arg, retval, returncode, ret, calls>>

NoResult == [err |-> 0, v0 |-> 0]

\* The parent_pid field of each record find_process can return.
parent_pid == [p \in {ChildPid, OtherPid} |-> IF p = ChildPid THEN ParentPid ELSE OtherPid]

Init ==
    /\ exit_code = 0
    /\ has_exited = 0
    /\ was_waited_on = 0
    /\ ppc = "user"
    /\ cpc = "running"
    /\ lock = "none"
    /\ sleepers = {}
    /\ arg = BadPid
    /\ retval = 0
    /\ returncode = "unset"
    /\ ret = NoResult
    /\ calls = 0

\* sys_waitpid returns err to mips_syscall, which puts err or retval in v0.
Return(err) ==
    /\ ppc' = "user"
    /\ ret' = [err |-> err, v0 |-> IF err # 0 THEN err ELSE retval']

\* The early returns of sys_waitpid, in the order the code tests them;
\* 0 when the call gets past all of them.
ArgError(pid, ptr, flags, kmallocFails) ==
    CASE flags # 0 \/ pid = ParentPid         -> EINVAL
      [] ptr \in {"null", "misaligned"}        -> EFAULT
      [] kmallocFails                          -> ENOMEM
      [] ptr = "unmapped"                      -> EFAULT
      [] pid \notin DOMAIN parent_pid          -> EINVAL
      [] parent_pid[pid] # ParentPid           -> EINVAL
      [] was_waited_on = 1                     -> EINVAL
      [] OTHER                                 -> 0

(***************************************************************************)
(* sys_waitpid(pid, returncode, flags, &retval) from the start up to the  *)
(* lock: the argument checks, kmalloc and copyin of returncode, the table *)
(* lookup, the parent and was_waited_on checks, and the unlocked fast     *)
(* path, which copies the exit code and returns 0 without setting retval. *)
(***************************************************************************)
WaitpidEnter(pid, ptr, flags, kmallocFails) ==
    LET err == ArgError(pid, ptr, flags, kmallocFails) IN
    /\ ppc = "user" /\ calls < MaxCalls
    /\ calls' = calls + 1
    /\ retval' = 0
    /\ arg' = pid
    /\ \/ /\ err # 0
          /\ Return(err)
          /\ UNCHANGED <<was_waited_on, returncode>>
       \/ /\ err = 0
          /\ was_waited_on' = 1
          /\ \/ /\ has_exited = 1
                /\ returncode' = exit_code
                /\ Return(0)
             \/ /\ has_exited = 0
                /\ ppc' = "acquire"
                /\ UNCHANGED <<returncode, ret>>
    /\ UNCHANGED <<exit_code, has_exited, cpc, lock, sleepers>>

\* lock_acquire(waitpid_lock); only the parent ever takes it.
LockAcquire ==
    /\ ppc = "acquire" /\ lock = "none"
    /\ lock' = "parent"
    /\ ppc' = "test"
    /\ UNCHANGED <<exit_code, has_exited, was_waited_on, cpc, sleepers, arg, retval, returncode, ret, calls>>

\* The test of while (waitee_process->has_exited == 0).
WhileTest ==
    /\ ppc = "test"
    /\ ppc' = IF has_exited = 0 THEN "cv_wait" ELSE "read"
    /\ UNCHANGED <<exit_code, has_exited, was_waited_on, cpc, lock, sleepers, arg, retval, returncode, ret, calls>>

\* cv_wait(waitpid_cv, waitpid_lock): release the lock and sleep, at once.
CvWait ==
    /\ ppc = "cv_wait"
    /\ lock' = "none"
    /\ sleepers' = sleepers \cup {"parent"}
    /\ ppc' = "asleep"
    /\ UNCHANGED <<exit_code, has_exited, was_waited_on, cpc, arg, retval, returncode, ret, calls>>

\* Woken, cv_wait reacquires waitpid_lock before it returns to the loop.
CvWaitReacquire ==
    /\ ppc = "asleep" /\ "parent" \notin sleepers /\ lock = "none"
    /\ lock' = "parent"
    /\ ppc' = "test"
    /\ UNCHANGED <<exit_code, has_exited, was_waited_on, cpc, sleepers, arg, retval, returncode, ret, calls>>

\* After the loop: *retval = pid; *returncode = exit_code; lock_release; return 0.
WaitpidFinish ==
    /\ ppc = "read"
    /\ retval' = arg
    /\ returncode' = exit_code
    /\ lock' = "none"
    /\ Return(0)
    /\ UNCHANGED <<exit_code, has_exited, was_waited_on, cpc, sleepers, arg, calls>>

(***************************************************************************)
(* sys_exit(code): under procLL_sem, exit_code then has_exited; after V,  *)
(* cv_broadcast(waitpid_cv, waitpid_lock) without holding waitpid_lock,   *)
(* then thread_exit.                                                       *)
(***************************************************************************)
ExitRecord(code) ==
    /\ cpc = "running"
    /\ exit_code' = code
    /\ has_exited' = 1
    /\ cpc' = "broadcast"
    /\ UNCHANGED <<was_waited_on, ppc, lock, sleepers, arg, retval, returncode, ret, calls>>

ExitBroadcast ==
    /\ cpc = "broadcast"
    /\ sleepers' = {}
    /\ cpc' = "exited"
    /\ UNCHANGED <<exit_code, has_exited, was_waited_on, ppc, lock, arg, retval, returncode, ret, calls>>

Parent ==
    \/ \E pid \in {ChildPid, OtherPid, BadPid, ParentPid}, ptr \in Pointers,
          flags \in {0, 1}, fails \in BOOLEAN : WaitpidEnter(pid, ptr, flags, fails)
    \/ LockAcquire \/ WhileTest \/ CvWait \/ CvWaitReacquire \/ WaitpidFinish

Child == \E code \in Codes : ExitRecord(code) \/ ExitBroadcast

Next == Parent \/ Child

\* The scheduler runs every runnable thread again: weak fairness of each.
Spec == Init /\ [][Next]_vars /\ WF_vars(Parent) /\ WF_vars(Child)

(***************************************************************************)
(* A waitpid on the caller's child that passes the checks (it sets        *)
(* was_waited_on) returns to the user, with the child's pid in v0:        *)
(* mips_syscall returns retval on success, and the blocking path sets     *)
(* *retval = pid.  Two behaviours of the code break it: the fast path for *)
(* a child that has already exited returns 0 without touching retval, and *)
(* the child can set has_exited and broadcast, without waitpid_lock,      *)
(* between the parent's loop test and its cv_wait, which then sleeps      *)
(* forever.                                                                *)
(***************************************************************************)
WaitpidReturnsPid ==
    <>(was_waited_on = 1) => <>(ppc = "user" /\ ret = [err |-> 0, v0 |-> ChildPid])
====
