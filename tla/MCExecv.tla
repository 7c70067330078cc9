------------------------------ MODULE MCExecv ------------------------------
(***************************************************************************)
(* Model-checking instance of Execv: calls with up to two arguments of up *)
(* to two characters, a page table of two entries, and a stack of 24      *)
(* bytes below the stack pointer, room for the largest argv.  The error   *)
(* numbers are model values.                                               *)
(***************************************************************************)
EXTENDS Execv

=============================================================================
