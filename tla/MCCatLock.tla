------------------------------ MODULE MCCatLock ------------------------------
(***************************************************************************)
(* Model-checking instance of CatLock: two cats and two mice (as many     *)
(* threads of each species as there are dishes), as model values.         *)
(***************************************************************************)
EXTENDS CatLock, TLC

MCSymmetry == Permutations(Cats) \cup Permutations(Mice)

=============================================================================
