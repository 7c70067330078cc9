------------------------------- MODULE MCVMSys -------------------------------
(***************************************************************************)
(* Model-checking instance of VMSys: 16-byte words (USERTOP = 8), 2-byte   *)
(* pages: user pages 0..3, page 3 being the stack page.  Two executables:  *)
(*   - text at 2 and data at 3, both in page 1, so the heap starts at 4;   *)
(*   - the same with a third segment, which as_define_region refuses.      *)
(***************************************************************************)
EXTENDS VMSys, TLC

MCPrograms ==
    { << [vaddr |-> 2, sz |-> 1], [vaddr |-> 3, sz |-> 1] >>,
      << [vaddr |-> 2, sz |-> 1], [vaddr |-> 3, sz |-> 1],
         [vaddr |-> 4, sz |-> 1] >> }

MCDeltas == {-2, 0, 2}
MCDeltasGrow == {0, 2}

MCSymmetry == Permutations(Procs)

=============================================================================
