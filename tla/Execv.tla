------------------------------- MODULE Execv -------------------------------
(***************************************************************************)
(* sys_execv (syscall.c) as the sequence of steps it takes on the kernel  *)
(* heap and on the new user stack: the argument checks, the kmalloc'd     *)
(* kernel copies of the arguments (kargs, kargs[i], kargs_addrs), the     *)
(* switch to a new address space (as_destroy, as_create), the progname    *)
(* copy, load_elf, as_define_stack, and the two copyout loops that build  *)
(* argv on the stack.  One thread runs it; nothing else touches these     *)
(* blocks, so the steps matter only for where each one can fail.          *)
(*                                                                         *)
(* The kernel heap is a partial function from allocation sites to the     *)
(* size kmalloc was asked for; every read or write the code makes of a    *)
(* block is recorded in access with the size the block has at that point  *)
(* of the program (0 once freed, and for NULL).  A user string is its     *)
(* length; a stack byte is the character, NUL or pointer byte stored in   *)
(* it.  vm_fault, load_elf and vfs_open are not under src/: their outcome *)
(* is a choice, and kmalloc may fail at every call.                       *)
(***************************************************************************)
EXTENDS Integers, Sequences, FiniteSets, Functions, TLC

CONSTANTS MaxArgs,    \* most arguments a call passes
          Lens,       \* lengths of progname and of each argument string
          NPTE,       \* entries of a page table: num_page_frames * 2
          USERSTACK   \* the stack pointer as_define_stack returns

CONSTANTS EFAULT, ENOMEM, EINVAL,
          ENOENT,     \* an error of vfs_open
          ENOEXEC     \* an error of load_elf

ASSUME /\ MaxArgs \in Nat /\ NPTE \in Nat \ {0}
       /\ USERSTACK \in Nat /\ USERSTACK % 4 = 0

\* Sizes on the MIPS build: pointers and vaddr_t, struct page_entry (four
\* ints), struct addrspace (thirteen words) and the offset of its pagetable.
PtrSize == 4
PageEntrySize == 16
AddrspaceSize == 52
PagetableOff == 40

\* Allocation sites.  NULL is no block.
KARGS == <<"kargs", 0>>
KARG(j) == <<"karg", j>>
ADDRS == <<"kargs_addrs", 0>>
AS == <<"as", 0>>
PT == <<"pagetable", 0>>
PROGNAME == <<"progname", 0>>
NULL == <<"NULL", 0>>

\* A user pointer as copyin and the kernel's own reads see it.
Pointers == {"ok", "null", "unmapped"}

\* An argument string: its length, and whether args[i] is a user pointer
\* or a kernel address (which strlen reads and copyin refuses).
ArgStrings == [len : Lens, ptr : {"ok", "kernel"}]

Calls == [pname_ptr : Pointers, pname_len : Lens, args_ptr : Pointers,
          args : UNION {[1 .. n -> ArgStrings] : n \in 0 .. MaxArgs}]

\* Stack byte values.  kargs_addrs entries not yet written hold -1.
Junk == [kind |-> "junk", a |-> 0, b |-> 0]
Nul == [kind |-> "nul", a |-> 0, b |-> 0]
Char(k, c) == [kind |-> "char", a |-> k, b |-> c]
PtrByte(v, j) == [kind |-> "ptr", a |-> v, b |-> j]

Addrs == 0 .. USERSTACK - 1

VARIABLES call,         \* the arguments of the call
          pc,           \* the place in sys_execv
          i,            \* the loop index
          heap,         \* live kernel blocks: site -> requested size
          access,       \* the block accesses of the last step
          kargs_addrs,  \* contents of kargs_addrs[0 .. MaxArgs]
          stack_index,  \* stack_index
          mem,          \* the bytes of the user stack below USERSTACK
          err           \* the error sys_execv returned

vars == <<call, pc, i, heap, access, kargs_addrs, stack_index, mem, err>>

nargs == Len(call.args)
ArgLen(k) == call.args[k + 1].len

\* An access of n bytes at offset off of block b, in heap h.
Access(h, b, off, n) ==
    [blk |-> b, off |-> off, n |-> n, size |-> IF b \in DOMAIN h THEN h[b] ELSE 0]

Kmalloc(h, b, sz) == (b :> sz) @@ h
Kfree(h, S) == Restrict(h, DOMAIN h \ S)

\* Variant of the free loops that stops one copy short: j < n - 1.
TemporariesOffByOne(n) == {KARGS} \cup {KARG(j) : j \in 0 .. n - 2}

\* for (j = 0; j < n; j++) kfree(kargs[j]); kfree(kargs); on the error paths.
Temporaries(n) == {KARGS} \cup {KARG(j) : j \in 0 .. n - 1}

\* Variant without the alignment loop.
AlignNone(a) == a

\* while ((int) stack_index % 4 != 0) stack_index--;  stack_index is below
\* 0x80000000 or equal to it, where (int) % 4 is 0, so the loop rounds down.
AlignDown(a) == a - (a % 4)

\* copyout of kargs[k], with its NUL, to address a.
WriteString(m, a, k) ==
    [x \in DOMAIN m |-> IF x \in a .. a + ArgLen(k) - 1 THEN Char(k, x - a)
                        ELSE IF x = a + ArgLen(k) THEN Nul ELSE m[x]]

\* copyout of the 4-byte word v to address a.
WriteWord(m, a, v) ==
    [x \in DOMAIN m |-> IF x \in a .. a + PtrSize - 1 THEN PtrByte(v, x - a) ELSE m[x]]

Init ==
    /\ call \in Calls
    /\ pc = "start"
    /\ i = 0
    /\ heap = <<>>
    /\ access = {}
    /\ kargs_addrs = [k \in 0 .. MaxArgs |-> -1]
    /\ stack_index = USERSTACK
    /\ mem = [x \in Addrs |-> Junk]
    /\ err = 0

Return(e) == pc' = "returned" /\ err' = e
Panic == pc' = "panicked" /\ UNCHANGED err

(***************************************************************************)
(* The checks before anything is kept, in the code's order: NULL args or  *)
(* progname; kmalloc of a scratch word and copyin of progname, then of    *)
(* args (each frees its word); progname "".  The loops that count the     *)
(* arguments and their characters read args[i] directly and change        *)
(* nothing.                                                                *)
(***************************************************************************)
Checks(km1, km2) ==
    LET c == call
        e == CASE c.args_ptr = "null" \/ c.pname_ptr = "null" -> EFAULT
                [] km1                                          -> ENOMEM
                [] c.pname_ptr = "unmapped"                     -> EFAULT
                [] km2                                          -> ENOMEM
                [] c.args_ptr = "unmapped"                      -> EFAULT
                [] c.pname_len = 0                              -> EINVAL
                [] OTHER                                        -> 0
    IN  /\ pc = "start"
        /\ \/ e # 0 /\ Return(e)
           \/ e = 0 /\ pc' = "kargs" /\ UNCHANGED err
        /\ access' = {}
        /\ UNCHANGED <<call, i, heap, kargs_addrs, stack_index, mem>>

\* kargs = kmalloc(sizeof(char *) * nargs), ENOMEM when it fails.
KargsAlloc(fails) ==
    /\ pc = "kargs"
    /\ \/ fails /\ Return(ENOMEM) /\ UNCHANGED <<heap, i>>
       \/ /\ ~fails
          /\ heap' = Kmalloc(heap, KARGS, PtrSize * nargs)
          /\ pc' = "alloc" /\ i' = 0
          /\ UNCHANGED err
    /\ access' = {}
    /\ UNCHANGED <<call, kargs_addrs, stack_index, mem>>

(***************************************************************************)
(* One iteration of the loop kargs[i] = kmalloc(sizeof(args[i]) *         *)
(* strlen(args[i]) + 1); on failure kargs[0 .. i-1] and kargs are freed.  *)
(***************************************************************************)
AllocArg(fails) ==
    /\ pc = "alloc"
    /\ \/ /\ i = nargs
          /\ pc' = "copyin" /\ i' = 0
          /\ access' = {}
          /\ UNCHANGED <<heap, err>>
       \/ /\ i < nargs /\ fails
          /\ heap' = Kfree(heap, Temporaries(i))
          /\ Return(ENOMEM)
          /\ access' = {}
          /\ UNCHANGED i
       \/ /\ i < nargs /\ ~fails
          /\ heap' = Kmalloc(heap, KARG(i), PtrSize * ArgLen(i) + 1)
          /\ access' = {Access(heap, KARGS, PtrSize * i, PtrSize)}
          /\ i' = i + 1
          /\ UNCHANGED <<pc, err>>
    /\ UNCHANGED <<call, kargs_addrs, stack_index, mem>>

\* One iteration of copyin(args[i], kargs[i], strlen(args[i]) + 1); on an
\* error every kargs[j] and kargs are freed.
CopyinArg ==
    /\ pc = "copyin"
    /\ \/ /\ i = nargs
          /\ pc' = "open"
          /\ access' = {}
          /\ UNCHANGED <<heap, i, err>>
       \/ /\ i < nargs /\ call.args[i + 1].ptr = "kernel"
          /\ heap' = Kfree(heap, Temporaries(nargs))
          /\ Return(EFAULT)
          /\ access' = {}
          /\ UNCHANGED i
       \/ /\ i < nargs /\ call.args[i + 1].ptr = "ok"
          /\ access' = {Access(heap, KARG(i), 0, ArgLen(i) + 1)}
          /\ i' = i + 1
          /\ UNCHANGED <<heap, pc, err>>
    /\ UNCHANGED <<call, kargs_addrs, stack_index, mem>>

\* vfs_open(progname); on an error the argument copies are freed.
Open(fails) ==
    /\ pc = "open"
    /\ \/ fails /\ heap' = Kfree(heap, Temporaries(nargs)) /\ Return(ENOENT)
       \/ ~fails /\ pc' = "switch" /\ UNCHANGED <<heap, err>>
    /\ access' = {}
    /\ UNCHANGED <<call, i, kargs_addrs, stack_index, mem>>

(***************************************************************************)
(* as_create on heap h, as the set of its outcomes.  When the page-table  *)
(* kmalloc fails it does kfree(as) and then kfree(as->pagetable): a read  *)
(* of the freed struct, which finds NULL (kfree does nothing) or a value  *)
(* the allocator left there (kfree panics).                               *)
(***************************************************************************)
as_create(h) ==
    LET h1 == Kmalloc(h, AS, AddrspaceSize)
        h2 == Kmalloc(h1, PT, PageEntrySize * NPTE)
        h3 == Kfree(h1, {AS})
    IN  {[heap |-> h2, ok |-> TRUE, panic |-> FALSE,
          access |-> {Access(h2, PT, 0, PageEntrySize * NPTE)}],
         [heap |-> h, ok |-> FALSE, panic |-> FALSE, access |-> {}]}
        \cup {[heap |-> h3, ok |-> FALSE, panic |-> p,
               access |-> {Access(h3, AS, PagetableOff, PtrSize)}] : p \in BOOLEAN}

(***************************************************************************)
(* as_destroy of the old space, then as_create; when it returns NULL the  *)
(* copies are freed, the file closed and ENOMEM returned.  Otherwise      *)
(* as_activate.                                                            *)
(***************************************************************************)
SwitchSpace(r) ==
    /\ pc = "switch"
    /\ access' = r.access
    /\ \/ r.panic /\ Panic /\ UNCHANGED heap
       \/ /\ ~r.panic /\ ~r.ok
          /\ heap' = Kfree(r.heap, Temporaries(nargs))
          /\ Return(ENOMEM)
       \/ r.ok /\ heap' = r.heap /\ pc' = "progname" /\ UNCHANGED err
    /\ UNCHANGED <<call, i, kargs_addrs, stack_index, mem>>

(***************************************************************************)
(* progname = kmalloc(sizeof(char) * strlen(progname)), not checked, then *)
(* strcpy, which writes strlen + 1 bytes; a NULL block faults in the      *)
(* kernel, which panics.                                                   *)
(***************************************************************************)
Progname(fails) ==
    LET h1 == Kmalloc(heap, PROGNAME, call.pname_len)
    IN  /\ pc = "progname"
        /\ \/ /\ fails
              /\ access' = {Access(heap, NULL, 0, call.pname_len + 1)}
              /\ Panic /\ UNCHANGED heap
           \/ /\ ~fails
              /\ heap' = h1
              /\ access' = {Access(h1, PROGNAME, 0, call.pname_len + 1)}
              /\ pc' = "load" /\ UNCHANGED err
        /\ UNCHANGED <<call, i, kargs_addrs, stack_index, mem>>

\* load_elf; on an error kargs[j] and kargs are freed (the space, with its
\* progname, is left to thread_exit).
LoadElf(fails) ==
    /\ pc = "load"
    /\ \/ fails /\ heap' = Kfree(heap, Temporaries(nargs)) /\ Return(ENOEXEC)
       \/ ~fails /\ pc' = "stack" /\ UNCHANGED <<heap, err>>
    /\ access' = {}
    /\ UNCHANGED <<call, i, kargs_addrs, stack_index, mem>>

(***************************************************************************)
(* as_define_stack on heap h: the scan reads virt_frame_num of every      *)
(* entry; none is the top stack page (a new table holds only the pages    *)
(* load_elf faulted in), so the loop ends with i = num_page_frames * 2    *)
(* and the assert reads page_frame_num of the entry past the table.  The  *)
(* value read is whatever follows the table: the assert holds or panics.  *)
(***************************************************************************)
as_define_stack(h) ==
    {[panic |-> p,
      access |-> {Access(h, PT, 0, PageEntrySize * NPTE),
                  Access(h, PT, PageEntrySize * NPTE + 8, 4)}] : p \in BOOLEAN}

\* as_define_stack(curthread->t_vmspace, &stackptr); it never returns an
\* error, so the error path after it is not taken.
DefineStack(r) ==
    /\ pc = "stack"
    /\ access' = r.access
    /\ \/ r.panic /\ Panic /\ UNCHANGED stack_index
       \/ ~r.panic /\ pc' = "addrs" /\ stack_index' = USERSTACK /\ UNCHANGED err
    /\ UNCHANGED <<call, i, heap, kargs_addrs, mem>>

(***************************************************************************)
(* kargs_addrs = kmalloc(sizeof(vaddr_t) * (nargs + 1)), not checked, and *)
(* kargs_addrs[nargs] = NULL (a store through NULL faults in the kernel); *)
(* stack_index = stackptr, aligned down.                                  *)
(***************************************************************************)
AllocAddrs(fails) ==
    LET h1 == Kmalloc(heap, ADDRS, PtrSize * (nargs + 1))
    IN  /\ pc = "addrs"
        /\ \/ /\ fails
              /\ access' = {Access(heap, NULL, PtrSize * nargs, PtrSize)}
              /\ Panic
              /\ UNCHANGED <<heap, kargs_addrs, stack_index, i>>
           \/ /\ ~fails
              /\ heap' = h1
              /\ access' = {Access(h1, ADDRS, PtrSize * nargs, PtrSize)}
              /\ kargs_addrs' = [kargs_addrs EXCEPT ![nargs] = 0]
              /\ stack_index' = AlignDown(stack_index)
              /\ i' = nargs - 1
              /\ pc' = "strings" /\ UNCHANGED err
        /\ UNCHANGED <<call, mem>>

(***************************************************************************)
(* One iteration of the loop from i = nargs - 1 down to 0: stack_index    *)
(* -= strlen(kargs[i]) + 1, aligned down; copyout of kargs[i]; on an      *)
(* error everything is freed and the error returned; else                 *)
(* kargs_addrs[i] = stack_index.  After the loop stack_index is aligned.  *)
(***************************************************************************)
CopyoutString(fails) ==
    LET si == AlignDown(stack_index - (ArgLen(i) + 1))
        rd == Access(heap, KARG(i), 0, ArgLen(i) + 1)
    IN  /\ pc = "strings"
        /\ \/ /\ i < 0
              /\ stack_index' = AlignDown(stack_index)
              /\ i' = nargs /\ pc' = "pointers"
              /\ access' = {}
              /\ UNCHANGED <<heap, kargs_addrs, mem, err>>
           \/ /\ i >= 0 /\ fails
              /\ heap' = Kfree(heap, Temporaries(nargs) \cup {ADDRS})
              /\ access' = {rd}
              /\ Return(EFAULT)
              /\ UNCHANGED <<i, kargs_addrs, stack_index, mem>>
           \/ /\ i >= 0 /\ ~fails
              /\ mem' = WriteString(mem, si, i)
              /\ kargs_addrs' = [kargs_addrs EXCEPT ![i] = si]
              /\ access' = {rd, Access(heap, ADDRS, PtrSize * i, PtrSize)}
              /\ stack_index' = si
              /\ i' = i - 1
              /\ UNCHANGED <<heap, pc, err>>
        /\ UNCHANGED call

(***************************************************************************)
(* One iteration of the loop from i = nargs down to 0: stack_index -= 4,  *)
(* copyout of kargs_addrs[i]; on an error everything is freed and the     *)
(* error returned.                                                         *)
(***************************************************************************)
CopyoutPointer(fails) ==
    LET si == stack_index - PtrSize
    IN  /\ pc = "pointers" /\ i >= 0
        /\ access' = {Access(heap, ADDRS, PtrSize * i, PtrSize)}
        /\ \/ /\ fails
              /\ heap' = Kfree(heap, Temporaries(nargs) \cup {ADDRS})
              /\ Return(EFAULT)
              /\ UNCHANGED <<i, stack_index, mem>>
           \/ /\ ~fails
              /\ mem' = WriteWord(mem, si, kargs_addrs[i])
              /\ stack_index' = si /\ i' = i - 1
              /\ UNCHANGED <<heap, pc, err>>
        /\ UNCHANGED <<call, kargs_addrs>>

\* After the loop: every copy is freed and md_usermode(nargs, stack_index,
\* stack_index, entrypoint) enters the program with argv = stack_index.
Finish ==
    /\ pc = "pointers" /\ i < 0
    /\ heap' = Kfree(heap, Temporaries(nargs) \cup {ADDRS})
    /\ pc' = "usermode"
    /\ access' = {}
    /\ UNCHANGED <<call, i, kargs_addrs, stack_index, mem, err>>

Next ==
    \/ \E km1, km2 \in BOOLEAN : Checks(km1, km2)
    \/ \E f \in BOOLEAN : \/ KargsAlloc(f) \/ AllocArg(f) \/ Open(f)
                          \/ Progname(f) \/ LoadElf(f) \/ AllocAddrs(f)
                          \/ CopyoutString(f) \/ CopyoutPointer(f)
    \/ CopyinArg
    \/ \E r \in as_create(heap) : SwitchSpace(r)
    \/ \E r \in as_define_stack(heap) : DefineStack(r)
    \/ Finish

Spec == Init /\ [][Next]_vars

-----------------------------------------------------------------------------
(***************************************************************************)
(* The program starts with the argv its C runtime expects: argv is word   *)
(* aligned; argv[0 .. nargs-1] are words on the stack that point at       *)
(* copies of the argument strings, each followed by its NUL, and          *)
(* argv[nargs] is NULL.  The strings are copied first, downwards from the *)
(* stack pointer, and the pointer array below them, so a wrong decrement, *)
(* alignment or loop bound makes a later copy overwrite an earlier one.   *)
(***************************************************************************)
WordAt(a) ==
    /\ a \in Addrs /\ a + PtrSize - 1 \in Addrs
    /\ \A j \in 0 .. PtrSize - 1 : mem[a + j] = PtrByte(mem[a].a, j)

StringAt(a, k) ==
    /\ a \in Addrs /\ a + ArgLen(k) \in Addrs
    /\ \A c \in 0 .. ArgLen(k) - 1 : mem[a + c] = Char(k, c)
    /\ mem[a + ArgLen(k)] = Nul

ArgvLayout ==
    pc = "usermode" =>
        LET argv == stack_index
        IN  /\ argv % 4 = 0
            /\ \A k \in 0 .. nargs : WordAt(argv + PtrSize * k)
            /\ mem[argv + PtrSize * nargs].a = 0
            /\ \A k \in 0 .. nargs - 1 : StringAt(mem[argv + PtrSize * k].a, k)

(***************************************************************************)
(* Whatever way sys_execv ends, returning an error or entering the new    *)
(* program, it has freed every copy it made: kargs, each kargs[i] and     *)
(* kargs_addrs.  Only the new space and its progname stay allocated.      *)
(***************************************************************************)
ExecvFreesTemporaries ==
    pc \in {"returned", "usermode"} => DOMAIN heap \subseteq {AS, PT, PROGNAME}

(***************************************************************************)
(* Every read and write sys_execv and the address-space calls it makes    *)
(* perform on the kernel heap falls inside a block that is allocated at   *)
(* that point, within the size kmalloc was asked for: no NULL block, no   *)
(* freed block, no byte past the end.                                      *)
(***************************************************************************)
KernelMemorySafe ==
    \A a \in access : a.off + a.n <= a.size

=============================================================================
