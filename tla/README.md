# TLA+ models of the OS161 (ECE344) kernel code

This directory holds TLA+ models of the C sources under `src/` and the TLC
configurations that check them. The models are written from the source.
Where the source calls code that is not in the repository (`getppages`,
`vm_fault`, `load_elf`, `runprogram`, `thread_exit`, the scheduler), that
code is modelled from `spec.md` and marked `spec_modelled` in
`PROJECT.json`.

## The system

The repository holds four independent pieces of kernel code.

1. **The virtual-memory manager.** This is the piece `spec.md` describes.
   - `vm.h` declares the coremap, one `coremap_entry` per physical frame
     with its `valid` bit.
   - `addrspace.h` and `addrspace.c` hold the per-process `struct addrspace`:
     - text, data, heap and stack descriptors;
     - a flat page table of `2 * num_page_frames` `page_entry` slots;
     - the `as_*` operations.
   - `syscall.c` holds the system calls that use these:
     - `sys_sbrk` grows and shrinks the heap;
     - `sys_fork` copies the space with `as_copy`, and `md_forkentry`
       installs the copy in the child;
     - `sys_execv` destroys the old space and loads a new one;
     - `sys_exit` exits, and `thread_exit` then destroys the space.

   These pieces interact through three things:
   - every address space shares the coremap;
   - the processor's TLB caches translations of the current space;
   - `as_activate` flushes the TLB on every switch.
2. **Process wait/exit** (`sys_waitpid` and `sys_exit` in `syscall.c`).
   The parent sleeps on `waitpid_cv` under `waitpid_lock` until the child
   sets `has_exited`.
3. **Console system calls** (`sys_write`, `sys_read`, `sys_time`).
   `write_sem` and `read_sem` serialise the calls, and each is held across
   the `putch`/`getch` loop.
4. **The synchronisation exercises** `catlock.c` and `stoplight.c`.
   - In `catlock.c`, cats and mice share two dishes through
     `lockDishSelect`, two dish locks, the counters and the condition
     variable `isDishFree`.
   - In `stoplight.c`, cars cross a four-quadrant intersection. Each
     quadrant is a semaphore, and `intersectionSem` admits at most 3 cars.

## Modules

| Module | Models | State |
|---|---|---|
| `Coremap` | the `coremap_entry.valid` bits; `getppages(1)` (first-fit, from the spec); the inline frees of `as_destroy`/`sys_sbrk` | a coremap value: frame -> BOOLEAN |
| `AddrSpace` | `as_create`, `as_destroy`, `as_define_region`, `as_prepare_load`, `as_define_stack`, `as_copy` as pure operators on an address-space record | record of the descriptors and `pt`: vpn -> frame or -1 |
| `VMSys` | the kernel on its one processor: `runprogram`, page faults, `sys_sbrk`, `sys_fork`(+`md_forkentry`), `sys_execv`, `sys_exit`, context switches | `cur`, `running`, `space`, `coremap`, `tlb`, `corrupt`, `panicked`; the history variable `leaked` (frames of copies `sys_fork` dropped) |
| `AbstractMemory` | what `spec.md` promises of frame ownership, as a specification of its own (see *Refinement*) | `owner` (frame -> space or free), `live` (spaces that exist) |
| `MCVMSys` | the model-checking instance: geometry, programs, sbrk arguments, symmetry | |
| `Stoplight` | `stoplight.c`: `createcars`, and each car thread of `approachintersection` with `gostraight`/`turnleft`/`turnright` | `sem` (count of each semaphore), `prog`/`pc` (each car's operations and progress), `numThreadsRunningTraffic` |
| `MCStoplight` | four cars, symmetry over cars | |
| `CatLock` | `catlock.c`: `catmouselock`, and each thread of `catlock`/`mouselock` | `pc`, `iter`, `dish`, `reg` (the value loaded by a `++`/`--` in progress), `holder` (of each lock), `sleepers` (on `isDishFree`), `count` (the three counters), `numThreadsRunning` |
| `MCCatLock` | two cats and two mice, symmetry within each species | |
| `WaitExit` | `sys_waitpid`, `sys_exit` and the `retval`/`v0` glue of `mips_syscall`: one parent thread and its child | the child's record (`exit_code`, `has_exited`, `was_waited_on`), `ppc`/`cpc` (each thread's place), `lock` (holder of `waitpid_lock`), `sleepers` (on `waitpid_cv`), `arg`, `retval`, `returncode`, `ret`, `calls` |
| `MCWaitExit` | the model-checking instance of `WaitExit` | |
| `Console` | `sys_write`, `sys_read` (one step per `putch`/`getch`), `sys_time`, the keyboard | `sem`, `pc`, `req` (size, buffer, characters done), `ncalls`, `console`, `typed`, `consumed`, `panicked` |
| `MCConsole` | two threads, symmetry | |
| `Execv` | `sys_execv` step by step, with `as_create` and `as_define_stack`: the argument checks, each `kmalloc`'d copy and the frees on every error path, the space switch, `progname`, `load_elf`, and the two copyout loops that build `argv` on the user stack | `pc`, `i`, `heap` (block -> size), `access` (kernel accesses made, with the block's size at that point), `kargs_addrs`, `stack_index`, `mem` (the user stack, byte by byte), `err` |
| `MCExecv` | the model-checking instance of `Execv` | |

### How the VM model corresponds to the code

**Page table.** The flat table is abstracted to a function from virtual page
number to `page_frame_num`, with `-1` (`NoFrame`) for an absent entry.
- Every present entry has a distinct `virt_frame_num`.
- Every absent entry holds the `-1` sentinels.

So the slot a page occupies is never observable. The scans that match on
`virt_frame_num` are modelled on the vpn directly. This includes the
`sys_sbrk` scan, whose match of an *absent* slot when `vtop_heap = 0` is
kept.

**Addresses.** Addresses are unsigned words of `WordBits` bits, with
`U(x) == x % 2^WordBits`. `USERTOP` is half the space, as `0x80000000` is
on MIPS. The shrink test of `sys_sbrk` and the break update are computed
modulo the word, as the `vaddr_t` arithmetic of the code is.

**Atomicity.** Each system call is one step. Per `spec.md` §5, none of the
modelled operations sleeps. The kernel runs on one processor, and it is
not preempted inside these paths: each frees or allocates a frame with a
single store of `valid`. Other processes run only between calls, after a
`Switch`, which calls `as_activate` and flushes the TLB.

**Error returns.** An error return that changes nothing is a stuttering
step and is not written as an action. Examples:
- `sbrk(0)`;
- `sbrk` refused by a bound;
- `execv` failing before it destroys the old space.

Such returns appear only as disjuncts with `UNCHANGED` state, so that their
guards are still evaluated.

**Failures.** `KmallocMayFail` adds the failure paths of `kmalloc` and
`thread_fork`:
- the trapframe `kmalloc` and `thread_fork` in `sys_fork`;
- `as_create` in `sys_execv`.

**Undefined behaviour.** It is modelled as the outcomes the build can
produce:
- The store to `coremap[-1]` is recorded in `corrupt`. The table itself is
  unchanged.
- `as_define_stack`'s read one past the page table either passes its
  `assert` or panics. A panic stops the kernel (`Halted`).

**Demand paging.** `vm_fault` is not in `src/`. It is modelled on the
contract of `spec.md` §9:
- a fault on a page outside every region is `EFAULT`;
- a fault on a mapped page reloads its TLB entry;
- a fault on an unmapped page in a region gets a frame from `getppages`.

`load_elf` defines the segments' regions, calls `as_prepare_load`, and
faults in every page of every segment.

## Properties

The invariants of the VM model live in `VMSys`.

- `TypeOK`: the type of every variable.
- `FrameExclusive`: no physical frame is mapped twice, within one space or
  across live spaces.
- `OnlyForkLeaks`: the frames valid in the coremap are exactly those the
  live spaces map plus those of the copies `sys_fork` dropped on an error,
  and no live space maps a dropped frame. With `forkleak` it says the fork
  leak is the only leak, and that nothing points at a freed frame.
- `FrameAccounting`: a frame is valid in the coremap iff some live space
  maps it. This is the central invariant of `spec.md` §3. It rules out
  both leaks and dangling mappings. It also requires that nothing was
  stored to `coremap[-1]`.
- `TLBIsolation`: no TLB entry reaches a frame of another live process.
- `HeapWithinBounds`: `vbase_heap <= vtop_heap <= vbase_stack` and
  `vtop_heap - vbase_heap <= HEAPLIMIT` for every loaded space.
- `MemorySpec`: the behaviour of `VMSys`, seen through the ownership of
  frames, is a behaviour of `AbstractMemory` (see *Refinement*).

## Runs

The VM runs use `MCVMSys` with these bounds:
- 2 process slots, as model values, with symmetry;
- 2 frames;
- 2-byte pages;
- 4-bit words, so `USERTOP = 8`, user pages 0..3 and stack page 3;
- `HEAPLIMIT = 2`;
- sbrk changes of -2, 0 and +2;
- two programs. Both put text and data in page 1, so the heap starts at 4.
  The second adds a third segment, which `as_define_region` refuses with
  `EUNIMP`.

| Run (cfg) | Expect | What it shows |
|---|---|---|
| `memory` (`MCVMSys_memory.cfg`) | pass | With every `kmalloc`/`thread_fork` failure path enabled, frames stay exclusive, the fork's dropped copies are the only leak, and the system refines `AbstractMemory`. |
| `forkleak` | violation of `FrameAccounting` | Two defects break it. `sys_fork` leaks the copied space when the trapframe `kmalloc` or `thread_fork` fails (syscall.c:286, :304). Also, `as_copy` marks the entry present before `getppages`; when that fails, `as_destroy(new)` frees `coremap[-1]` (addrspace.c:374-381). The counterexample TLC prints is the fork leak. With that leak removed from a copy of the model, the same run ends in the `coremap[-1]` store. |
| `sbrk` | violation of `HeapWithinBounds` | The shrink loop does `*vtop_heap -= change` with `change < 0`: the break rises. On an empty heap it also frees the data page below it (syscall.c:737, :754). |
| `tlb` | violation of `TLBIsolation` | `sys_sbrk` frees a page without invalidating its TLB entry. A fork then gives the frame to the child, and the parent still reaches it. |

**Why the bounds are enough.** With 2 frames, all three outcomes are
reachable:
- a fork succeeds, when the parent has one mapped page and one frame is
  free;
- a fork fails part way, when the parent has two pages and no frame is
  free;
- a fault gets `ENOMEM`.

With 4-bit words, three more cases are reachable:
- repeated shrinks walk the break to 14;
- the next shrink is refused only by the unsigned wrap;
- a grow reaches the stack bound.

Larger frame counts give the same cases with more states. With 3 frames,
a run of the same invariants took over 8 minutes.

**Mutants.** Each property of the passing runs is broken by a plausible
bug. Each bug is a variant defined just before the definition it replaces:

| Property (run) | Variant | Bug |
|---|---|---|
| `TypeOK` | `vm_faultTLBFirst` | `vm_fault` loading the TLB before checking the allocation |
| `FrameExclusive` | `sys_forkSharesSpace` | `md_forkentry` installing the parent's space instead of the copy |
| `OnlyForkLeaks` | `as_destroyNoFree` | `as_destroy` not freeing coremap entries |
| `MemorySpec` | `CopyLoopOverNew` | `as_copy`'s loop walking the new (empty) table, so the child gets no frames |

**Fairness.** None is assumed. The VM properties are safety properties
(`MemorySpec` is a `[][Next]_vars` formula). Deadlock is checked: the system may always exit or switch
until no process is left, and then `runprogram` can start one again.

### Refinement: `AbstractMemory`

`AbstractMemory` states what `spec.md` promises of frames, without page
tables, TLBs or coremap layout:
- every frame is free or owned by one space;
- `Load(a)`: the first program starts when no space exists, with free
  frames;
- `Call(a)`: a step of a live space takes free frames or gives its own
  back. When the space is destroyed it keeps none;
- `Copy(a, b)`: a new space `b` gets exactly as many free frames as `a`
  owns, and nothing else changes. A failed copy is a step that changes
  nothing.

`VMSys` instantiates it with `Mem == INSTANCE AbstractMemory WITH ...`:
- `owner <- OwnerMap`: the live space that maps the frame, or free;
- `live <- Live`: the processes with a space.

`MemorySpec == Mem!Spec` is a `PROPERTY` of the `memory` run. A space can
appear only through `Load` or `Copy`. This holds because `runprogram` runs
only when no process is left. A fork whose child gets fewer frames than the
parent maps, or that moves a frame from one space to another, is caught.
Frames leaked by a failed fork map to free. The leak itself is what
`OnlyForkLeaks` and `forkleak` check.

## The Stoplight model

A car is a program: the list of semaphore operations its route performs.

- **Routes.** `gostraight`, `turnleft` and `turnright` all follow one
  cycle of quadrants, NW -> SW -> SE -> NE, from the quadrant of the
  car's direction. They cross 2, 3 and 1 quadrants respectively.
  `Route(d, t)` rebuilds the twelve hand-written cases. The crossing takes
  the next quadrant before it releases the current one, exactly as the
  code does.
- **Choosing a route.** `random()` picks the direction and the turn.
  The choice is invisible to other cars until the car enters, so `Enter`
  makes the choice and does `P(intersectionSem)` in one step.
- **Semaphores.** `P` is enabled only when the count is positive, and `V`
  increments it. That is the behaviour of OS161's sleeping semaphores with
  interrupts off.
- **The exit counter.** `countThreads` guards nothing but the decrement,
  so its `P`, the decrement and its `V` are one step.

| Run (cfg) | Expect | What it shows |
|---|---|---|
| `stoplight_safety` (`MCStoplight_safety.cfg`) | pass | With 4 cars on every route, `QuadrantExclusive` and `NoDeadlock` hold. `NoDeadlock` says: while some car has not left, some car can step. With 4 admitted cars it fails, because four left turns wait on each other around the cycle. `intersectionSem = 3` is what prevents that. |

**Bounds.** Four cars are the smallest number that fills the intersection
and can close the cycle.

**Fairness.** The OS161 scheduler is preemptive round robin, so a runnable
thread eventually runs: `Spec` has weak fairness of each car's step. No
separate liveness run is needed. A car's program is finite, and every step
advances some car. With weak fairness, `NoDeadlock` therefore already
implies that every car leaves and that `createcars`' spin ends.

**Mutants.**
- `ProgramDoubleV`, a second `V(intersectionSem)`, breaks `TypeOK`.
- `CrossingReleasesFirst`, the last `V` naming the first quadrant, breaks
  `QuadrantExclusive`.
- `InitFourAdmitted`, `sem_create(.., 4)`, breaks `NoDeadlock`.

## The CatLock model

`catlock` and `mouselock` are the same code with the species swapped, so
one set of actions serves both (`Own`/`Other` name the species' counters).
The map cites the `catlock` lines.

- **Steps.** `pc` is the statement a thread is at. Each lock operation,
  test, counter update and broadcast is a step; the kernel can switch
  threads between any two of them.
- **Counters.** `numDishesAvailable`, `numCatsEating` and `numMiceEating`
  are `volatile int`s changed with `++`/`--`: a load, then a store of the
  loaded value plus one. `Load` and `Store` are two steps, for every
  counter, as the code does them.
- **Locks and the condition variable.** `synch.c` is not in the
  repository, so the OS161 conventions are used. `lock_acquire` sleeps
  while the lock is held, also when the caller itself holds it.
  `cv_wait` releases the lock and joins `sleepers` in one step, since
  interrupts are off. A woken thread goes to `reacquire`. `cv_broadcast`
  wakes every sleeper and does not check who holds the lock.
- **Picking a dish.** Only holders of `lockDishSelect` take a dish lock,
  so the `isLocked` test and the `lock_acquire` are one step. When both
  dishes are held, neither branch runs and the thread goes straight to the
  broadcast at the end of the loop, still holding `lockDishSelect`, as the
  code does.

| Run (cfg) | Expect | What it shows |
|---|---|---|
| `catlock_safety` (`MCCatLock_safety.cfg`) | pass | The code as written (422,566 states). `DishExclusive`: no two threads eat at the same dish. The `numDishesAvailable++` after eating races the `--` under `lockDishSelect`, so the count can let more threads past the wait loop than there are free dishes. The `isLocked` tests under `lockDishSelect`, and each thread releasing the dish it took, still keep the dishes apart. Cats and mice are not kept apart (`catlock_race`). |
| `catlock_race` (`MCCatLock_race.cfg`) | violation | `CatsMiceExclusive`: a cat's unlocked `numCatsEating--` (line 122) straddles another cat's `++`, the count reads 0 while that cat eats, and a mouse eats beside it. |
| `catlock_hang` (`MCCatLock_hang.cfg`) | violation | `AllThreadsFinish` is broken by two defects. In the first, a thread passes the wait loop while both dish locks are held (a thread has done `numDishesAvailable++` but has not yet released its dish). It skips both branches and never releases `lockDishSelect`, so the others sleep in `lock_acquire` for ever. That is the counterexample TLC prints. In the second, even with that leak repaired and atomic counters in a copy of the model, a thread tests the counters under `lockDishSelect`. Before its `cv_wait`, the last eater makes its unlocked updates and its broadcast (line 136), so the thread sleeps for ever. |

**Bounds.** Two cats and two mice are the fewest that put both species in
contention for both dishes. One iteration per thread suffices for the race,
the leak and the safety run. The dish argument does not depend on the
iteration count. The lost wakeup needs no second iteration: one waiter
whose test falls before the last eater's broadcast suffices.

**Fairness.** Weak fairness of each thread's step, from the preemptive
scheduler. It is used only by `AllThreadsFinish`. A stuck thread has no
enabled step, so the CatLock runs set `CHECK_DEADLOCK FALSE`: the code
really can stop.

**Mutants.**
- `BroadcastEndOffByOne` (loop test `i <= NCATEATS`) breaks `TypeOK`.
- `DishLockCopied` (the dish-2 branch releasing `lockDish1`, as a copy of
  the dish-1 branch would) breaks `DishExclusive`.

## The WaitExit model

`WaitExit` models one parent thread that calls `waitpid` and its child,
which calls `_exit`.

- **The parent's call.** `WaitpidEnter` is the call up to the lock:
  - every early return, in the code's order: `flags`, own pid, `NULL`,
    misaligned, `kmalloc` failure, `copyin` failure, no such process, not
    the parent, already waited on (`ArgError`);
  - `was_waited_on = 1`;
  - the unlocked fast path, taken when `has_exited` is already 1.
- **Where the parent can be preempted.** These are separate actions:
  `LockAcquire`, the `while` test (`WhileTest`), `cv_wait`'s
  release-and-sleep (`CvWait`), its reacquire once woken
  (`CvWaitReacquire`), and the copy-out and release (`WaitpidFinish`).
- **The child's exit.** `sys_exit` is two steps:
  - `ExitRecord` writes `exit_code` and `has_exited` under `procLL_sem`;
  - `ExitBroadcast` does the unlocked `cv_broadcast` and `thread_exit`.
- **The user's result.** `Return` is `mips_syscall`'s glue. `retval` is
  set to 0 before each call, and `v0` is `err`, or `retval` on success.
- **Inputs.** The parent's pid argument ranges over the child, another
  process, a missing pid and its own pid. The `returncode` pointer is ok,
  `NULL`, misaligned or unmapped. There are two calls, so a second call on
  the same child is refused.

Fairness is weak fairness of each thread. The OS161 scheduler runs every
runnable thread again. A thread asleep on a condition variable is not
runnable and is owed nothing.

| Run (cfg) | Expect | What it shows |
|---|---|---|
| `waitexit` (`MCWaitExit.cfg`) | violation of `WaitpidReturnsPid` | A `waitpid` on the child that passes its checks (it sets `was_waited_on`) need not return the child's pid to the user. |

`WaitpidReturnsPid` is broken by two defects of the code:
- **Fast path (syscall.c:400).** The child exits before the parent's call.
  `waitpid` copies the exit code and returns 0 without setting `*retval`,
  so `v0` is 0, not the pid. This is TLC's counterexample for the code as
  written.
- **Lost wakeup (syscall.c:346).** The parent tests `has_exited == 0`
  under `waitpid_lock`. The child then sets it and broadcasts without the
  lock, to no sleeper. The parent's `cv_wait` then sleeps forever.

The second defect was checked on a copy of the model, not kept in this
directory:
- with the fast path setting `retval = pid`, the counterexample is the
  lost wakeup (the parent asleep on `waitpid_cv`, stuttering);
- with the child's `ExitRecord` and `ExitBroadcast` also done under
  `waitpid_lock`, the property holds (233 states).

The run stops once the parent has made its calls and the child has exited,
so deadlock is not checked. The lost wakeup's stopped state is a violation
of the property.

## The Console model

`Console` models the console system calls of `syscall.c`, made by a set of
user threads on the one CPU.

- **`sys_write` and `sys_read`.** Each is:
  - `P` of its semaphore (`write_sem`, `read_sem`);
  - one step for the checks (`WriteChecks`, `ReadChecks`). These are:
    - the handle: `STDOUT`/`STDERR` to write, `STDIN` to read;
    - size 0 gives `EFAULT`, and so does `NULL`;
    - a failing `kmalloc` gives `ENOSPC`;
    - an unmapped buffer makes `copyin` fail, which gives `EFAULT`;
    - each error path does `V` and returns (`VReturn`);
  - then one step per `putch` or `getch` call;
  - then the end (`WriteDone`, `ReadDone`): `V` and return. A failing
    `copyout` in `sys_read` leaves the kernel in the same state.
- **`getch`** waits for a typed character. The environment action `Type`
  types one while a read waits.
- **`sys_time`** is one step. Its two `kmalloc`s are not checked, and
  `gettime` then stores through NULL. That kernel-mode fault panics
  (`panicked`).
- **Characters** are abstracted to their origin: `<<thread, call, index>>`.
- **The semaphores** are created outside `src/` and are used as mutexes,
  so they start at 1. `P` is one step enabled when the count is positive
  (OS161's `P` sleeps while it is 0).
- **Fairness** is weak fairness of each thread's in-call steps, and of
  `Type`: the user types when a program reads. A user thread need not make
  another call, so no fairness is assumed for starting a call.

| Run (cfg) | Expect | What it shows |
|---|---|---|
| `console` (`MCConsole.cfg`) | pass | Two threads, two calls each, sizes 0 and 2, with every bad handle, pointer and `kmalloc` failure (16,665 states, about 6 s): |

- `WholeWrites`: the characters of each write stay together on the
  console, however the `putch` loops are preempted;
- `SemsBalanced`: every return, the error returns included, gives the
  semaphore back;
- `CallsReturn`: every call returns unless the kernel panicked.

The threads stop calling after `MaxCalls`, so the run checks no deadlock.
A thread stuck in `P` or in a loop is a violation of `CallsReturn`.

Each property is broken by a plausible bug:

| Property | Variant | Bug |
|---|---|---|
| `TypeOK` | `GetchNoWait` | `getch` not waiting for input |
| `WholeWrites` | `PNoWait` | `P` not waiting for a positive count |
| `SemsBalanced` | `ReadChecksNoV` | the `EBADF` return of `sys_read` forgetting `V` |
| `CallsReturn` | `WriteDoneOffByOne` | the loop exit waiting for `size + 1` characters |

## The Execv model

`Execv` follows one `sys_execv` call (syscall.c:417-647) from its argument
checks to `md_usermode`. It also models the two address-space calls whose
memory behaviour matters: `as_create` (addrspace.c:137-171) and
`as_define_stack` (addrspace.c:330-341). `VMSys` models the frame-level
effect of the whole call as one action. `Execv` keeps instead the control
of the call, its kernel-heap blocks and the user stack it builds.

- **Inputs.** `call` is chosen in `Init` from `Calls`: the `progname` and
  `args` pointers (`ok`, `NULL` or unmapped), the length of the program
  name, and up to `MaxArgs` argument strings. Each string has a length in
  `Lens` and a pointer that is either fine or into the kernel, which
  `copyin` refuses. Strings are abstracted to their lengths.
- **Kernel heap.** `heap` maps each allocation site (`kargs`, `kargs[j]`,
  `kargs_addrs`, `as`, `pagetable`, `progname`) to the size requested.
  `Kmalloc` and `Kfree` are from `kmalloc`/`kfree`, which are not under
  `src/`. A failed `kmalloc` returns `NULL`. `access` records each kernel
  load or store as its block, offset, length and the size the block had
  at that point (0 once freed, or for `NULL`). The sizes of
  `struct addrspace` and `struct page_entry` come from `addrspace.h`.
- **User stack.** `mem` holds the bytes below `USERSTACK`. The string loop
  lowers `stack_index` by `strlen + 1` and aligns it down, then copies each
  string out. The pointer loop writes `kargs_addrs[0..nargs]`. Every
  `copyout` may fail (`EFAULT`).
- **Steps.** One action per block of the code: `Checks`, `KargsAlloc`,
  `AllocArg`, `CopyinArg`, `Open`, `SwitchSpace`, `Progname`, `LoadElf`,
  `DefineStack`, `AllocAddrs`, `CopyoutString`, `CopyoutPointer` and
  `Finish`. Each error return frees exactly what the code frees there.
  `Panic` stands for a kernel-mode fault, such as a store through `NULL`
  or a failed `assert`.

| Run (cfg) | Expect | What it shows |
|---|---|---|
| `execv_safety` (`MCExecv_safety.cfg`) | pass | Over every input and failure (4,018 states), the run checks two properties. `ArgvLayout`: at `md_usermode`, `argv` is word-aligned, `argv[0..nargs-1]` point to the argument strings, each ending in NUL, and `argv[nargs]` is `NULL`. `ExecvFreesTemporaries`: once the call returns or enters user mode, only the new space's blocks are left on the heap. |
| `execv_heap` (`MCExecv_heap.cfg`) | violation | `KernelMemorySafe` says no kernel access falls outside a live block. Four defects break it, one after another. TLC's counterexample is the first. Each later one is what TLC finds once the defects before it are repaired in a copy of the model. 1) `as_create` reads `as->pagetable` after `kfree(as)` (addrspace.c:158). 2) `progname` is allocated with `strlen` bytes, and `strcpy` writes `strlen + 1`; the unchecked `kmalloc` also lets it write through `NULL` (syscall.c:552). 3) `as_define_stack` finds no stack page in the new table, and its `assert` reads the entry past the end (addrspace.c:338). 4) `kargs_addrs` is stored through without a `NULL` check (syscall.c:583). With all four repaired, the property holds. |

**Bounds.** `MaxArgs = 2` and `Lens = {0, 1, 2}` give empty strings,
strings that fill part of a word, and two strings whose alignment gaps
differ. `USERSTACK = 24` holds the largest layout: two strings of up to 4
bytes each with their padding, plus three pointers. `NPTE = 2` gives the
page table 32 bytes. The `CHECK_DEADLOCK FALSE` is right because the call
really ends, in `returned`, `panicked` or `usermode`.

**Mutants.**
- `AlignNone`, which drops the alignment of `stack_index`, breaks
  `ArgvLayout`.
- `TemporariesOffByOne`, where the free loops stop one argument short,
  breaks `ExecvFreesTemporaries`.

## Not modelled, and why

- **The process table** (`find_process`, `thread.c`) is not in the
  repository. `WaitExit` keeps only the fields `syscall.c` reads and
  writes.
- **`calling_waitpid_from_kern`** is set by kernel code outside `src/`.
  The modelled caller is a user process. The race on this global flag is
  listed as a hazard without a property.
- **`sys_getpid`:** it reads `curthread->pid` and changes nothing.
- **What `sys_read` and `sys_time` copy out:** user memory is not
  modelled. The input lost when `sys_read`'s `copyout` fails is listed as
  a hazard.
- **Trapframe decoding in `mips_syscall`:** only its dispatch is kept, as
  the disjunction `Next`.
- **Multi-frame kernel allocations (`alloc_kpages`):** out of scope in
  `spec.md`. The `kmalloc` heap is modelled only in `Execv`, as the
  blocks of one `sys_execv`. The blocks of the old space are outside that
  model, so the `progname` leak of `as_destroy` is a hazard without a
  property.
- **What `vm_fault` does for the user `progname` pointer** after the old
  space is destroyed: `vm_fault` is not under `src/`. This is listed as a
  hazard.
- **Page contents:** the `memmove` in `as_copy` and the `copyout` calls
  are not modelled. The properties are about which frames each page uses,
  not about the bytes in them.

## Plan

- **Done:**
  - `VMSys` with its refinement of `AbstractMemory`. It has one passing run
    and four violation runs.
  - `Stoplight`: one passing run.
  - `CatLock`: one passing run and three violation runs.
  - `WaitExit`: one violation run, broken by two defects.
  - `Console`: one passing run with liveness.
  - `Execv`: one passing run and one violation run, broken by four
    defects.
- The project has twelve runs. A new question must share a run or replace
  one.
- **Next:**
  - the region layout of `as_define_region`: text then data, the heap base,
    the refusal of a third region, and `vbase_text == 0` taken as
    "undefined";
  - a `WaitExit` instance with more than one child, where `waitpid_cv` is
    shared by all waits.
