------------------------------ MODULE AddrSpace ------------------------------
(***************************************************************************)
(* The per-process address space of addrspace.c: its region descriptors    *)
(* and its flat page table, and the as_* operations on them.               *)
(*                                                                         *)
(* Addresses are unsigned words of WordBits bits (vaddr_t is 32 bits on    *)
(* MIPS); USERTOP is half the address space, as 0x80000000 is on MIPS.     *)
(* The flat table of 2*num_page_frames page_entry slots is abstracted to   *)
(* a function from virtual page number to page_frame_num: every present    *)
(* entry has a distinct virt_frame_num and every absent one holds the -1   *)
(* sentinels, so the slot a page sits in is never observable except        *)
(* through the scans that match on virt_frame_num, which are modelled on   *)
(* the vpn directly (sys_sbrk's match of an absent slot included).         *)
(* as_npages_stack, as_sizeof_*, num_pt_entries and in_valid_region are   *)
(* written but never read by the code under src/ and are left out.        *)
(***************************************************************************)
EXTENDS Coremap

CONSTANTS PAGE_SIZE,   \* bytes per page
          WordBits     \* width of vaddr_t

ASSUME PAGE_SIZE \in Nat \ {0} /\ WordBits \in Nat \ {0}

Word == 2 ^ WordBits

\* Unsigned (vaddr_t / size_t) arithmetic wraps modulo 2^WordBits.
U(x) == x % Word

USERTOP == Word \div 2
USERSTACK == USERTOP

VPNs == 0 .. (USERTOP \div PAGE_SIZE) - 1

\* The page as_define_stack looks for: (USERTOP / PAGE_SIZE) - 1.
StackVPN == (USERTOP \div PAGE_SIZE) - 1

AddrSpaces ==
    [vbase_text : 0 .. Word - 1, npages_text : 0 .. Word - 1,
     vbase_data : 0 .. Word - 1, npages_data : 0 .. Word - 1,
     vbase_stack : 0 .. Word - 1,
     vbase_heap : 0 .. Word - 1, vtop_heap : 0 .. Word - 1,
     pt : [VPNs -> Frames \cup {NoFrame}]]

Mapped(as) == {v \in VPNs : as.pt[v] # NoFrame}

FramesOf(as) == {as.pt[v] : v \in Mapped(as)}

(***************************************************************************)
(* as_create: every descriptor zero, every page-table entry absent.  The   *)
(* two kmalloc failures are decided by the caller.                         *)
(***************************************************************************)
as_create ==
    [vbase_text |-> 0, npages_text |-> 0, vbase_data |-> 0, npages_data |-> 0,
     vbase_stack |-> 0, vbase_heap |-> 0, vtop_heap |-> 0,
     pt |-> [v \in VPNs |-> NoFrame]]

(***************************************************************************)
(* as_destroy: free the coremap entry of every present page-table entry;   *)
(* the table and the record then go back to kmalloc.                       *)
(***************************************************************************)
\* Variant of as_destroy that frees the page table but not the coremap entries.
as_destroyNoFree(as, cm) == cm

as_destroy(as, cm) == FreeEntries(cm, FramesOf(as))

(***************************************************************************)
(* as_define_region: align the base down and the length up to pages; the  *)
(* first call whose as_vbase_text is still 0 defines text, the next whose  *)
(* as_vbase_data is still 0 defines data and puts the empty heap right     *)
(* after it; any further call fails with EUNIMP.  The permission flags are *)
(* ignored.  "Undefined" is the value 0, so a text region that aligns to   *)
(* address 0 still reads as undefined.                                     *)
(***************************************************************************)
as_define_region(as, vaddr, sz) ==
    LET off    == vaddr % PAGE_SIZE
        base   == vaddr - off
        npages == (U(sz + off + PAGE_SIZE - 1) \div PAGE_SIZE)
    IN  CASE as.vbase_text = 0 ->
               [err |-> "OK",
                as  |-> [as EXCEPT !.vbase_text = base, !.npages_text = npages]]
          [] as.vbase_data = 0 ->
               [err |-> "OK",
                as  |-> [as EXCEPT !.vbase_data = base, !.npages_data = npages,
                                   !.vbase_heap = U(base + npages * PAGE_SIZE),
                                   !.vtop_heap  = U(base + npages * PAGE_SIZE)]]
          [] OTHER -> [err |-> "EUNIMP", as |-> as]

\* as_prepare_load: the stack starts, empty, at USERTOP.
as_prepare_load(as) == [as EXCEPT !.vbase_stack = USERTOP]

(***************************************************************************)
(* as_define_stack: scan the table for the entry of the top stack page and *)
(* assert its frame address is non-zero.  When no entry matches, the loop  *)
(* ends with i = 2*num_page_frames and reads the slot one past the table;  *)
(* the assertion then tests whatever lies there and may pass or panic.     *)
(* The result is the set of outcomes the build can produce.                *)
(***************************************************************************)
as_define_stack(as) ==
    IF as.pt[StackVPN] # NoFrame
    THEN {"found"}
    ELSE {"overrun", "overrun_panic"}

(***************************************************************************)
(* The copy loop of as_copy, over the present pages of the old space in    *)
(* table order: each page is marked present in the new table before        *)
(* getppages(1) is called; on failure as_destroy(new) runs over a table    *)
(* holding that present entry with page_frame_num -1, and frees            *)
(* coremap[-1] besides the frames already copied.                          *)
(***************************************************************************)
\* Variant of the copy loop that walks the new table, whose entries are all absent.
CopyLoopOverNew(new, cm, todo) == [ok |-> TRUE, new |-> new, cm |-> cm, oob |-> FALSE]

RECURSIVE CopyLoop(_, _, _)
CopyLoop(new, cm, todo) ==
    IF todo = {} THEN [ok |-> TRUE, new |-> new, cm |-> cm, oob |-> FALSE]
    ELSE LET v == Min(todo)
             g == getppages(cm)
         IN  IF g.frame = NoFrame
             THEN [ok |-> FALSE, new |-> new, cm |-> as_destroy(new, cm),
                   oob |-> TRUE]
             ELSE CopyLoop([new EXCEPT !.pt[v] = g.frame], g.cm, todo \ {v})

\* Variant of as_copy that copies page_frame_num from the old table instead of allocating.
as_copyShares(old, cm) ==
    [ok |-> TRUE, cm |-> cm, oob |-> FALSE,
     new |-> old]

(***************************************************************************)
(* as_copy: a fresh space with the old one's descriptors, then the copy    *)
(* loop.  The page contents are copied with memmove and are not modelled.  *)
(***************************************************************************)
as_copy(old, cm) ==
    CopyLoop([as_create EXCEPT !.vbase_text  = old.vbase_text,
                               !.npages_text = old.npages_text,
                               !.vbase_data  = old.vbase_data,
                               !.npages_data = old.npages_data,
                               !.vbase_stack = old.vbase_stack,
                               !.vbase_heap  = old.vbase_heap,
                               !.vtop_heap   = old.vtop_heap],
             cm, Mapped(old))

=============================================================================
