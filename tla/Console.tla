------------------------------ MODULE Console ------------------------------
(***************************************************************************)
(* The console system calls of syscall.c, sys_write, sys_read and         *)
(* sys_time, made by several user threads on one CPU.                     *)
(*                                                                         *)
(* sys_write holds write_sem, and sys_read read_sem, from the first line  *)
(* to the return; both semaphores are created outside this directory and  *)
(* are used as mutexes, so they start at 1.  P sleeps while the count is *)
(* 0 (OS161's P), so it is one step enabled when the count is positive.   *)
(* A thread may be preempted between any two putch or getch calls, which *)
(* are one step each.  The checks, kmalloc and copyin before the loop    *)
(* touch only the caller's buffers and are one step.                       *)
(*                                                                         *)
(* A character is abstracted to where it came from: a written one is     *)
(* <<thread, call, index>>, a typed one its position in the input.        *)
(***************************************************************************)
EXTENDS Integers, Sequences, FiniteSets

CONSTANTS Threads,    \* the user threads
          Sizes,      \* buffer sizes a call may pass
          MaxCalls    \* console calls per thread

CONSTANTS STDIN_FILENO, STDOUT_FILENO, STDERR_FILENO,
          EBADF, EFAULT, ENOSPC

Handles == {STDIN_FILENO, STDOUT_FILENO, STDERR_FILENO}

\* A user pointer as the checks and copyin/copyout see it.
Pointers == {"ok", "null", "unmapped"}

VARIABLES
    sem,        \* counts of write_sem and read_sem
    pc,         \* each thread's place
    req,        \* each thread's call in progress: [size, buf, done]
    ncalls,     \* console calls each thread has made
    console,    \* characters putch has written, in order
    typed,      \* characters typed at the keyboard so far
    consumed,   \* characters getch has taken
    panicked    \* the kernel has panicked

vars == <<sem, pc, req, ncalls, console, typed, consumed, panicked>>

NoReq == [size |-> 0, buf |-> "null", done |-> 0]

Init ==
    /\ sem = [s \in {"write", "read"} |-> 1]
    /\ pc = [t \in Threads |-> "user"]
    /\ req = [t \in Threads |-> NoReq]
    /\ ncalls = [t \in Threads |-> 0]
    /\ console = <<>>
    /\ typed = 0 /\ consumed = 0
    /\ panicked = FALSE

\* Thread t returns to user mode.
Return(t) == pc' = [pc EXCEPT ![t] = "user"]

\* The start of a call: the thread is in the kernel and must P.
Call(t, sys, size, buf) ==
    /\ ~panicked /\ pc[t] = "user" /\ ncalls[t] < MaxCalls
    /\ ncalls' = [ncalls EXCEPT ![t] = @ + 1]
    /\ req' = [req EXCEPT ![t] = [size |-> size, buf |-> buf, done |-> 0]]
    /\ pc' = [pc EXCEPT ![t] = sys]
    /\ UNCHANGED <<sem, console, typed, consumed, panicked>>

\* Variant of P that does not wait for a positive count.
PNoWait(t, s) ==
    /\ ~panicked /\ pc[t] = s
    /\ sem' = [sem EXCEPT ![s] = @ - 1]
    /\ pc' = [pc EXCEPT ![t] = s \o "_checks"]
    /\ UNCHANGED <<req, ncalls, console, typed, consumed, panicked>>

\* P(write_sem) or P(read_sem).
P(t, s) ==
    /\ ~panicked /\ pc[t] = s /\ sem[s] > 0
    /\ sem' = [sem EXCEPT ![s] = @ - 1]
    /\ pc' = [pc EXCEPT ![t] = s \o "_checks"]
    /\ UNCHANGED <<req, ncalls, console, typed, consumed, panicked>>

\* V(s) and return: every exit of sys_write and sys_read.
VReturn(t, s) ==
    /\ sem' = [sem EXCEPT ![s] = @ + 1]
    /\ Return(t)

(***************************************************************************)
(* sys_write after P: the handle must be STDOUT or STDERR, the size       *)
(* nonzero, buf non-NULL; kmalloc(size) may fail (ENOSPC); copyin fails   *)
(* on an unmapped buffer (EFAULT).  Each error path does V and returns.   *)
(***************************************************************************)
WriteChecks(t, fh, kmallocFails) ==
    LET r == req[t] IN
    /\ ~panicked /\ pc[t] = "write_checks"
    /\ \/ /\ \/ fh \notin {STDOUT_FILENO, STDERR_FILENO}
             \/ r.size = 0 \/ r.buf = "null"
             \/ kmallocFails \/ r.buf = "unmapped"
          /\ VReturn(t, "write")
       \/ /\ fh \in {STDOUT_FILENO, STDERR_FILENO}
          /\ r.size > 0 /\ r.buf = "ok" /\ ~kmallocFails
          /\ pc' = [pc EXCEPT ![t] = "putch"]
          /\ UNCHANGED sem
    /\ UNCHANGED <<req, ncalls, console, typed, consumed, panicked>>

\* One iteration of for (i = 0; i < size; i++) putch(kbuf[i]).
Putch(t) ==
    LET r == req[t] IN
    /\ ~panicked /\ pc[t] = "putch" /\ r.done < r.size
    /\ console' = Append(console, <<t, ncalls[t], r.done + 1>>)
    /\ req' = [req EXCEPT ![t].done = @ + 1]
    /\ UNCHANGED <<sem, pc, ncalls, typed, consumed, panicked>>

\* Variant of the loop exit that waits for one character more than the loop writes.
WriteDoneOffByOne(t) ==
    /\ ~panicked /\ pc[t] = "putch" /\ req[t].done = req[t].size + 1
    /\ VReturn(t, "write")
    /\ UNCHANGED <<req, ncalls, console, typed, consumed, panicked>>

\* After the loop: *retval = size; kfree; V(write_sem); return 0.
WriteDone(t) ==
    /\ ~panicked /\ pc[t] = "putch" /\ req[t].done = req[t].size
    /\ VReturn(t, "write")
    /\ UNCHANGED <<req, ncalls, console, typed, consumed, panicked>>

\* Variant of the checks of sys_read whose EBADF return forgets V(read_sem).
ReadChecksNoV(t, fh, kmallocFails) ==
    LET r == req[t] IN
    /\ ~panicked /\ pc[t] = "read_checks"
    /\ \/ /\ fh # STDIN_FILENO
          /\ Return(t) /\ UNCHANGED sem
       \/ /\ fh = STDIN_FILENO /\ (r.size = 0 \/ r.buf = "null" \/ kmallocFails)
          /\ VReturn(t, "read")
       \/ /\ fh = STDIN_FILENO /\ r.size > 0 /\ r.buf # "null" /\ ~kmallocFails
          /\ pc' = [pc EXCEPT ![t] = "getch"]
          /\ UNCHANGED sem
    /\ UNCHANGED <<req, ncalls, console, typed, consumed, panicked>>

(***************************************************************************)
(* sys_read after P: the handle must be STDIN, the size nonzero, buf      *)
(* non-NULL, and kmalloc(size) must succeed (ENOSPC); each error path V's *)
(* and returns.                                                            *)
(***************************************************************************)
ReadChecks(t, fh, kmallocFails) ==
    LET r == req[t] IN
    /\ ~panicked /\ pc[t] = "read_checks"
    /\ \/ /\ fh # STDIN_FILENO \/ r.size = 0 \/ r.buf = "null" \/ kmallocFails
          /\ VReturn(t, "read")
       \/ /\ fh = STDIN_FILENO /\ r.size > 0 /\ r.buf # "null" /\ ~kmallocFails
          /\ pc' = [pc EXCEPT ![t] = "getch"]
          /\ UNCHANGED sem
    /\ UNCHANGED <<req, ncalls, console, typed, consumed, panicked>>

\* Variant of getch that does not wait for a typed character.
GetchNoWait(t) ==
    LET r == req[t] IN
    /\ ~panicked /\ pc[t] = "getch" /\ r.done < r.size
    /\ consumed' = consumed + 1
    /\ req' = [req EXCEPT ![t].done = @ + 1]
    /\ UNCHANGED <<sem, pc, ncalls, console, typed, panicked>>

\* One iteration of for (i = 0; i < size; i++) kbuf[i] = getch(); getch
\* sleeps until a character has been typed.
Getch(t) ==
    LET r == req[t] IN
    /\ ~panicked /\ pc[t] = "getch" /\ r.done < r.size /\ consumed < typed
    /\ consumed' = consumed + 1
    /\ req' = [req EXCEPT ![t].done = @ + 1]
    /\ UNCHANGED <<sem, pc, ncalls, console, typed, panicked>>

\* After the loop: copyout to buf (EFAULT when unmapped, the characters
\* already taken from the console are then lost), kfree, V(read_sem),
\* return.  Both outcomes leave the kernel in the same state.
ReadDone(t) ==
    /\ ~panicked /\ pc[t] = "getch" /\ req[t].done = req[t].size
    /\ VReturn(t, "read")
    /\ UNCHANGED <<req, ncalls, console, typed, consumed, panicked>>

\* The keyboard: a character is typed while a read waits for one.
Type ==
    /\ ~panicked
    /\ \E t \in Threads : pc[t] = "getch" /\ req[t].done < req[t].size
    /\ consumed = typed
    /\ typed' = typed + 1
    /\ UNCHANGED <<sem, pc, req, ncalls, console, consumed, panicked>>

(***************************************************************************)
(* sys_time: the two kmallocs are not checked, and gettime then stores    *)
(* through NULL, a kernel-mode fault at address 0 that panics.  Otherwise *)
(* the copyouts succeed or the call returns -1, which mips_syscall turns  *)
(* into EFAULT; either way only the caller's memory changes.               *)
(***************************************************************************)
sys_time(t, kmallocFails) ==
    /\ ~panicked /\ pc[t] = "user" /\ ncalls[t] < MaxCalls
    /\ ncalls' = [ncalls EXCEPT ![t] = @ + 1]
    /\ panicked' = kmallocFails
    /\ UNCHANGED <<sem, pc, req, console, typed, consumed>>

\* The steps of thread t once it is in a console call.
Step(t) ==
    \/ P(t, "write") \/ P(t, "read")
    \/ \E fh \in Handles, fails \in BOOLEAN : WriteChecks(t, fh, fails) \/ ReadChecks(t, fh, fails)
    \/ Putch(t) \/ WriteDone(t) \/ Getch(t) \/ ReadDone(t)

\* The calls mips_syscall dispatches: SYS_write, SYS_read, SYS___time.
Dispatch(t) ==
    \/ \E sys \in {"write", "read"}, size \in Sizes, buf \in Pointers : Call(t, sys, size, buf)
    \/ \E fails \in BOOLEAN : sys_time(t, fails)

Next == Type \/ \E t \in Threads : Dispatch(t) \/ Step(t)

\* The scheduler runs every runnable thread again, and the user types when
\* a read waits; a user program need not make another call.
Spec == Init /\ [][Next]_vars /\ \A t \in Threads : WF_vars(Step(t)) /\ WF_vars(Type)

\* Threads in sys_write (resp. sys_read) past its P.
Holders(s) == {t \in Threads : pc[t] \in
                 IF s = "write" THEN {"write_checks", "putch"} ELSE {"read_checks", "getch"}}

TypeOK ==
    /\ sem \in [{"write", "read"} -> Int]
    /\ pc \in [Threads -> {"user", "write", "read", "write_checks", "putch", "read_checks", "getch"}]
    /\ ncalls \in [Threads -> 0..MaxCalls]
    /\ consumed <= typed
    /\ panicked \in BOOLEAN

(***************************************************************************)
(* write_sem keeps each sys_write's characters together on the console:  *)
(* character i > 1 of a write comes right after character i - 1 of the    *)
(* same write, however the writers' putch loops are preempted.            *)
(***************************************************************************)
WholeWrites ==
    \A i \in 2 .. Len(console) :
        console[i][3] > 1 => console[i - 1] = <<console[i][1], console[i][2], console[i][3] - 1>>

(***************************************************************************)
(* Every return from sys_write and sys_read, the early error returns      *)
(* included, gives its semaphore back: each count plus its holders is 1.  *)
(***************************************************************************)
SemsBalanced ==
    \A s \in {"write", "read"} : sem[s] + Cardinality(Holders(s)) = 1

(***************************************************************************)
(* Every console call returns to user mode, unless the kernel panicked:  *)
(* no thread is left in P, in the putch or getch loop, or holding a       *)
(* semaphore another thread waits for.                                     *)
(***************************************************************************)
CallsReturn == \A t \in Threads : pc[t] # "user" ~> (pc[t] = "user" \/ panicked)
====
