-------------------------------- MODULE VMSys --------------------------------
(***************************************************************************)
(* The virtual-memory side of the kernel on its single processor: user     *)
(* processes each owning an address space (curthread->t_vmspace), the     *)
(* shared coremap, the TLB of the processor, and the system calls and      *)
(* traps that change them: sbrk, fork, execv, _exit, page faults and       *)
(* context switches.                                                       *)
(*                                                                         *)
(* Only the current thread (cur) executes.  None of these operations       *)
(* sleeps, and each frees or allocates a frame with a single store of the  *)
(* valid bit, so each system call is one atomic step; other processes run  *)
(* between system calls, after a context switch.                           *)
(*                                                                         *)
(* vm_fault, load_elf/runprogram, thread_exit and the as_activate call of  *)
(* the context switch are not under src/; they are modelled from the       *)
(* specification and marked so in the map.                                 *)
(***************************************************************************)
EXTENDS AddrSpace, SequencesExt

CONSTANTS Procs,          \* thread/process slots
          NoProc,         \* no user thread on the processor
          NoAS,           \* t_vmspace == NULL
          HEAPLIMIT,      \* heap size limit checked by sys_sbrk
          Deltas,         \* the sbrk(change) arguments tried
          Programs,       \* executables: sequences of [vaddr, sz] segments
          KmallocMayFail  \* whether kmalloc and thread_fork may fail

ASSUME /\ NoProc \notin Procs
       /\ HEAPLIMIT \in Nat
       /\ Deltas \subseteq -(Word \div 2) + 1 .. (Word \div 2) - 1
       /\ KmallocMayFail \in BOOLEAN

VARIABLES cur,       \* the thread on the processor, or NoProc
          running,   \* the user threads that exist
          space,     \* t_vmspace of each thread
          coremap,   \* valid bit of each frame
          tlb,       \* translations cached by the processor: <<vpn, frame>>
          corrupt,   \* out-of-bounds accesses that have happened
          panicked,  \* the kernel has panicked
          leaked     \* ghost: frames of the copies sys_fork dropped on an error

vars == <<cur, running, space, coremap, tlb, corrupt, panicked, leaked>>

\* Out-of-bounds accesses: a store to coremap[-1], a read one past the page table.
OOBKinds == {"coremap_minus1", "pagetable_overrun"}

Live == {p \in running : space[p] # NoAS}

-----------------------------------------------------------------------------
(***************************************************************************)
(* Pages an access may fault in: text, data, heap, and the top stack page. *)
(***************************************************************************)
InRegion(v, base, top) == base <= v * PAGE_SIZE /\ v * PAGE_SIZE < top

ValidVPNs(as) ==
    {v \in VPNs :
        \/ InRegion(v, as.vbase_text, as.vbase_text + as.npages_text * PAGE_SIZE)
        \/ InRegion(v, as.vbase_data, as.vbase_data + as.npages_data * PAGE_SIZE)
        \/ InRegion(v, as.vbase_heap, as.vtop_heap)
        \/ v = StackVPN /\ as.vbase_stack = USERTOP}

(***************************************************************************)
(* vm_fault on page v of a space, on a state st = [as, cm, tlb, err]: a    *)
(* page outside every region is EFAULT; a mapped page is reloaded into the *)
(* TLB; an unmapped one gets a frame from getppages(1) (ENOMEM when none   *)
(* is free) before its translation is loaded.                              *)
(***************************************************************************)
\* Variant of vm_fault that writes the TLB entry before checking that getppages succeeded.
vm_faultTLBFirst(st, v) ==
    IF v \notin ValidVPNs(st.as) THEN [st EXCEPT !.err = "EFAULT"]
    ELSE IF st.as.pt[v] # NoFrame
    THEN [st EXCEPT !.tlb = @ \cup {<<v, st.as.pt[v]>>}]
    ELSE LET g == getppages(st.cm)
         IN  IF g.frame = NoFrame
             THEN [st EXCEPT !.tlb = @ \cup {<<v, g.frame>>}, !.err = "ENOMEM"]
             ELSE [st EXCEPT !.as.pt[v] = g.frame, !.cm = g.cm,
                             !.tlb = @ \cup {<<v, g.frame>>}]

vm_fault(st, v) ==
    IF v \notin ValidVPNs(st.as) THEN [st EXCEPT !.err = "EFAULT"]
    ELSE IF st.as.pt[v] # NoFrame
    THEN [st EXCEPT !.tlb = @ \cup {<<v, st.as.pt[v]>>}]
    ELSE LET g == getppages(st.cm)
         IN  IF g.frame = NoFrame THEN [st EXCEPT !.err = "ENOMEM"]
             ELSE [st EXCEPT !.as.pt[v] = g.frame, !.cm = g.cm,
                             !.tlb = @ \cup {<<v, g.frame>>}]

RECURSIVE FaultAll(_, _)
FaultAll(st, vs) ==
    IF vs = <<>> \/ st.err # "OK" THEN st
    ELSE FaultAll(vm_fault(st, Head(vs)), Tail(vs))

SegPages(s) == IF s.sz = 0 THEN <<>>
               ELSE [i \in 1 .. ((s.vaddr + s.sz - 1) \div PAGE_SIZE)
                                 - (s.vaddr \div PAGE_SIZE) + 1
                       |-> (s.vaddr \div PAGE_SIZE) + i - 1]

RECURSIVE DefineAll(_, _)
DefineAll(r, segs) ==
    IF segs = <<>> \/ r.err # "OK" THEN r
    ELSE DefineAll(as_define_region(r.as, Head(segs).vaddr, Head(segs).sz),
                   Tail(segs))

(***************************************************************************)
(* load_elf into a freshly created and activated space: define a region    *)
(* per segment, as_prepare_load, then write every page of every segment,   *)
(* faulting it in, then as_complete_load (which does nothing).             *)
(***************************************************************************)
load_elf(as, cm, prog) ==
    LET d  == DefineAll([err |-> "OK", as |-> as], prog)
        st == [as |-> as_prepare_load(d.as), cm |-> cm, tlb |-> {}, err |-> "OK"]
    IN  IF d.err # "OK"
        THEN [as |-> d.as, cm |-> cm, tlb |-> {}, err |-> d.err]
        ELSE FaultAll(st, FlattenSeq([i \in DOMAIN prog |-> SegPages(prog[i])]))

-----------------------------------------------------------------------------
(***************************************************************************)
(* One iteration of the release loop of sys_sbrk(change < 0): the entry    *)
(* whose virt_frame_num * PAGE_SIZE equals vtop_heap - PAGE_SIZE (unsigned)*)
(* has its coremap entry and itself cleared; then vtop_heap -= change.     *)
(* An absent slot holds virt_frame_num -1, and matches when vtop_heap is 0:*)
(* its page_frame_num -1 then indexes coremap[-1].  The table has 2 *      *)
(* num_page_frames slots, more than there are frames, so an absent slot    *)
(* always exists.                                                          *)
(***************************************************************************)
\* Variant of ShrinkStep that frees the coremap entry but leaves the page-table entry present.
ShrinkStepKeepsEntry(r, change) ==
    LET t   == r.as.vtop_heap
        hit == {v \in Mapped(r.as) : v * PAGE_SIZE = U(t - PAGE_SIZE)}
        r1  == IF hit # {}
               THEN [r EXCEPT !.cm = FreeEntry(@, r.as.pt[CHOOSE v \in hit : TRUE])]
               ELSE r
    IN  [r1 EXCEPT !.as.vtop_heap = U(t - change)]

ShrinkStep(r, change) ==
    LET t   == r.as.vtop_heap
        hit == {v \in Mapped(r.as) : v * PAGE_SIZE = U(t - PAGE_SIZE)}
        r1  == IF hit # {}
               THEN LET v == CHOOSE v \in hit : TRUE
                    IN  [r EXCEPT !.cm = FreeEntry(@, r.as.pt[v]),
                                  !.as.pt[v] = NoFrame]
               ELSE IF U(t - PAGE_SIZE) = U(-PAGE_SIZE)
                    THEN [r EXCEPT !.oob = TRUE]
                    ELSE r
    IN  [r1 EXCEPT !.as.vtop_heap = U(t - change)]

RECURSIVE ShrinkLoop(_, _, _)
ShrinkLoop(r, change, n) ==
    IF n = 0 THEN r ELSE ShrinkLoop(ShrinkStep(r, change), change, n - 1)

-----------------------------------------------------------------------------
Init ==
    /\ cur = NoProc
    /\ running = {}
    /\ space = [p \in Procs |-> NoAS]
    /\ coremap = [f \in Frames |-> FALSE]
    /\ tlb = {}
    /\ corrupt = {}
    /\ panicked = FALSE
    /\ leaked = {}

\* The outcome o of as_define_stack: an overrun read, and a panic if its assert fails.
DefineStackEffect(o) ==
    /\ corrupt' = IF o = "found" THEN corrupt ELSE corrupt \cup {"pagetable_overrun"}
    /\ panicked' = (o = "overrun_panic")

(***************************************************************************)
(* runprogram from the kernel menu when no user thread exists: create and  *)
(* activate a space, load the program, define the stack, enter user mode.  *)
(* A program that fails to load leaves the menu as it was.                 *)
(***************************************************************************)
runprogram(p, prog) ==
    LET ld == load_elf(as_create, coremap, prog)
    IN  /\ ~panicked
        /\ cur = NoProc
        /\ ld.err = "OK"
        /\ \E o \in as_define_stack(ld.as) :
              /\ DefineStackEffect(o)
              /\ cur' = p
              /\ running' = {p}
              /\ space' = [space EXCEPT ![p] = ld.as]
              /\ coremap' = ld.cm
              /\ tlb' = ld.tlb

(***************************************************************************)
(* A TLB miss of the current thread on a page of one of its regions.       *)
(***************************************************************************)
VmFault(v) ==
    LET st == vm_fault([as |-> space[cur], cm |-> coremap, tlb |-> tlb,
                        err |-> "OK"], v)
    IN  /\ ~panicked
        /\ cur # NoProc
        /\ space[cur] # NoAS
        /\ v \in ValidVPNs(space[cur])
        /\ \A t \in tlb : t[1] # v
        /\ space' = [space EXCEPT ![cur] = st.as]
        /\ coremap' = st.cm
        /\ tlb' = st.tlb
        /\ UNCHANGED <<cur, running, corrupt, panicked>>

(***************************************************************************)
(* sys_sbrk(change) of the current thread.  The shrink check computes      *)
(* vtop_heap - change in unsigned arithmetic, and the release loop runs    *)
(* npages times, each time subtracting the (negative) change from the top. *)
(***************************************************************************)
sys_sbrk(change) ==
    LET as   == space[cur]
        top  == as.vtop_heap
        base == as.vbase_heap
        npg  == ((-change - 1) \div PAGE_SIZE) + 1
        r    == ShrinkLoop([as |-> as, cm |-> coremap, oob |-> FALSE], change, npg)
        Fail == UNCHANGED <<space, coremap, corrupt>>
    IN  /\ ~panicked
        /\ cur # NoProc
        /\ space[cur] # NoAS
        /\ \/ change = 0 /\ Fail
           \/ change < 0 /\ U(top - change) < base /\ Fail
           \/ /\ change < 0 /\ U(top - change) >= base
              /\ space' = [space EXCEPT ![cur] = r.as]
              /\ coremap' = r.cm
              /\ corrupt' = IF r.oob THEN corrupt \cup {"coremap_minus1"} ELSE corrupt
           \/ change > 0 /\ U(top + change) > as.vbase_stack /\ Fail
           \/ /\ change > 0 /\ U(top + change) <= as.vbase_stack
              /\ U(U(top + change) - base) > HEAPLIMIT
              /\ Fail
           \/ /\ change > 0 /\ U(top + change) <= as.vbase_stack
              /\ U(U(top + change) - base) <= HEAPLIMIT
              /\ space' = [space EXCEPT ![cur].vtop_heap = U(top + change)]
              /\ UNCHANGED <<coremap, corrupt>>
        /\ UNCHANGED <<cur, running, tlb, panicked>>

\* Variant of sys_fork that hands the child the parent's space instead of the copy.
sys_forkSharesSpace ==
    LET cp == as_copy(space[cur], coremap)
    IN  /\ ~panicked
        /\ cur # NoProc
        /\ space[cur] # NoAS
        /\ corrupt' = IF cp.oob THEN corrupt \cup {"coremap_minus1"} ELSE corrupt
        /\ coremap' = cp.cm
        /\ \/ ~cp.ok /\ UNCHANGED <<running, space, leaked>>
           \/ /\ cp.ok /\ KmallocMayFail
              /\ leaked' = leaked \cup FramesOf(cp.new)
              /\ UNCHANGED <<running, space>>
           \/ /\ cp.ok
              /\ \E c \in Procs \ running :
                    /\ running' = running \cup {c}
                    /\ space' = [space EXCEPT ![c] = space[cur]]
              /\ UNCHANGED leaked
        /\ UNCHANGED <<cur, tlb, panicked>>

(***************************************************************************)
(* sys_fork of the current thread: as_copy, then the child's trapframe is  *)
(* kmalloc'd and thread_fork is called.  When either of those fails, the   *)
(* error is returned and the copied space, already holding its frames, is *)
(* dropped.  On success the child thread exists with the copy;             *)
(* md_forkentry installs it as the child's t_vmspace and activates it when *)
(* the child first runs (a context switch below).  A failure of the        *)
(* as_create inside as_copy returns ENOMEM having changed nothing, a       *)
(* stuttering step.                                                        *)
(***************************************************************************)
sys_fork ==
    LET cp == as_copy(space[cur], coremap)
    IN  /\ ~panicked
        /\ cur # NoProc
        /\ space[cur] # NoAS
        /\ corrupt' = IF cp.oob THEN corrupt \cup {"coremap_minus1"} ELSE corrupt
        /\ coremap' = cp.cm
        /\ \/ ~cp.ok /\ UNCHANGED <<running, space, leaked>>
           \/ /\ cp.ok /\ KmallocMayFail
              /\ leaked' = leaked \cup FramesOf(cp.new)
              /\ UNCHANGED <<running, space>>
           \/ /\ cp.ok
              /\ \E c \in Procs \ running :
                    /\ running' = running \cup {c}
                    /\ space' = [space EXCEPT ![c] = cp.new]
              /\ UNCHANGED leaked
        /\ UNCHANGED <<cur, tlb, panicked>>

(***************************************************************************)
(* sys_execv of the current thread.  Argument checks, copyins and vfs_open *)
(* fail before the old space is touched (stuttering steps here).  Then the *)
(* old space is destroyed; as_create may fail, leaving the thread with no  *)
(* space and the TLB not flushed; otherwise the new space is activated and *)
(* loaded, and on a load error the thread keeps the half-loaded space.     *)
(* After as_define_stack the arguments are copied out onto the stack,      *)
(* faulting in its top page; if that fault fails copyout returns EFAULT    *)
(* and the space stays as loaded.                                          *)
(***************************************************************************)
sys_execv ==
    LET cm1 == as_destroy(space[cur], coremap)
        Install(st) == /\ space' = [space EXCEPT ![cur] = st.as]
                       /\ coremap' = st.cm
                       /\ tlb' = st.tlb
    IN  /\ ~panicked
        /\ cur # NoProc
        /\ space[cur] # NoAS
        /\ \/ /\ KmallocMayFail
              /\ space' = [space EXCEPT ![cur] = NoAS]
              /\ coremap' = cm1
              /\ UNCHANGED <<tlb, corrupt, panicked>>
           \/ \E prog \in Programs :
                 LET ld == load_elf(as_create, cm1, prog)
                 IN  \/ /\ ld.err # "OK"
                        /\ Install(ld)
                        /\ UNCHANGED <<corrupt, panicked>>
                     \/ /\ ld.err = "OK"
                        /\ \E o \in as_define_stack(ld.as) :
                              /\ DefineStackEffect(o)
                              /\ Install(vm_fault(ld, StackVPN))
        /\ UNCHANGED <<cur, running>>

(***************************************************************************)
(* _exit of the current thread: thread_exit destroys its space (when it    *)
(* has one) and the scheduler switches to another thread, activating its   *)
(* space, or to the idle kernel when none is left.                         *)
(***************************************************************************)
sys_exit ==
    /\ ~panicked
    /\ cur # NoProc
    /\ coremap' = IF space[cur] # NoAS THEN as_destroy(space[cur], coremap) ELSE coremap
    /\ running' = running \ {cur}
    /\ space' = [space EXCEPT ![cur] = NoAS]
    /\ \/ \E q \in running' : cur' = q
       \/ running' = {} /\ cur' = NoProc
    /\ tlb' = {}
    /\ UNCHANGED <<corrupt, panicked>>

(***************************************************************************)
(* A context switch to thread q: as_activate invalidates every TLB entry.  *)
(***************************************************************************)
as_activate == tlb' = {}

Switch(q) ==
    /\ ~panicked
    /\ cur # NoProc
    /\ q \in running \ {cur}
    /\ cur' = q
    /\ as_activate
    /\ UNCHANGED <<running, space, coremap, corrupt, panicked>>

\* After a panic the kernel stops.
Halted == panicked /\ UNCHANGED vars

\* The ghost leaked changes only in sys_fork.
Next ==
    \/ sys_fork
    \/ /\ \/ \E p \in Procs, prog \in Programs : runprogram(p, prog)
          \/ \E v \in VPNs : VmFault(v)
          \/ \E d \in Deltas : sys_sbrk(d)
          \/ sys_execv
          \/ sys_exit
          \/ \E q \in Procs : Switch(q)
          \/ Halted
       /\ UNCHANGED leaked

Spec == Init /\ [][Next]_vars

-----------------------------------------------------------------------------
TypeOK ==
    /\ cur \in Procs \cup {NoProc}
    /\ running \subseteq Procs
    /\ space \in [Procs -> AddrSpaces \cup {NoAS}]
    /\ coremap \in [Frames -> BOOLEAN]
    /\ tlb \subseteq VPNs \X Frames
    /\ corrupt \subseteq OOBKinds
    /\ panicked \in BOOLEAN
    /\ leaked \subseteq Frames

(***************************************************************************)
(* No physical frame is mapped twice: across the page tables of all live   *)
(* address spaces (as_copy gives the child fresh frames, vm_fault and the  *)
(* frees of as_destroy and sys_sbrk keep the coremap in step), no two      *)
(* present entries hold the same page_frame_num.                           *)
(***************************************************************************)
FrameExclusive ==
    \A p, q \in Live : \A v \in Mapped(space[p]), w \in Mapped(space[q]) :
        space[p].pt[v] = space[q].pt[w] => p = q /\ v = w

(***************************************************************************)
(* The coremap agrees with the page tables and nothing else writes it: a  *)
(* frame is valid exactly when some live space maps it (nothing leaked by *)
(* fork, exec, exit or sbrk, no page table points at a freed frame), and  *)
(* no free of as_destroy or sys_sbrk stores to coremap[-1] through an     *)
(* entry whose page_frame_num is -1.                                       *)
(***************************************************************************)
FrameAccounting ==
    /\ InUse(coremap) = UNION {FramesOf(space[p]) : p \in Live}
    /\ "coremap_minus1" \notin corrupt

(***************************************************************************)
(* Only a failed fork loses frames: the valid frames are exactly those     *)
(* some live space maps, plus the frames of the copies sys_fork dropped    *)
(* when kmalloc or thread_fork failed, which are never handed out again.   *)
(* So exec's and as_copy's error paths, exit and sbrk leak nothing, and no *)
(* live page table points at a freed frame.                                *)
(***************************************************************************)
OnlyForkLeaks ==
    /\ InUse(coremap) = UNION {FramesOf(space[p]) : p \in Live} \cup leaked
    /\ \A p \in Live : FramesOf(space[p]) \cap leaked = {}

(***************************************************************************)
(* The running thread cannot reach another process's memory: no TLB entry *)
(* of the processor translates to a frame mapped by another live space.    *)
(***************************************************************************)
TLBIsolation ==
    \A t \in tlb : \A q \in Live \ {cur} : t[2] \notin FramesOf(space[q])

(***************************************************************************)
(* sbrk keeps the break of every fully loaded space between the heap base *)
(* and the stack base, and within HEAPLIMIT of the base.                   *)
(***************************************************************************)
HeapWithinBounds ==
    \A p \in Live :
        LET as == space[p]
        IN  as.vbase_stack = USERTOP =>
               /\ as.vbase_heap <= as.vtop_heap
               /\ as.vtop_heap <= as.vbase_stack
               /\ as.vtop_heap - as.vbase_heap <= HEAPLIMIT

(***************************************************************************)
(* The frames of the page tables implement AbstractMemory: the owner of a *)
(* frame is the live process whose table maps it, a frame no live table   *)
(* maps (free, or dropped by a failed fork) is free, and the spaces are    *)
(* those of the live processes.  Every step                                *)
(* then moves frames only between one process and the free pool, or gives *)
(* a fork child as many fresh frames as its parent maps.                   *)
(***************************************************************************)
OwnerMap ==
    [f \in Frames |-> IF \E p \in Live : f \in FramesOf(space[p])
                      THEN CHOOSE p \in Live : f \in FramesOf(space[p])
                      ELSE NoProc]

Mem == INSTANCE AbstractMemory
           WITH Owners <- Procs, Free <- NoProc, owner <- OwnerMap, live <- Live

MemorySpec == Mem!Spec

=============================================================================
