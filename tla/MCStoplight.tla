----------------------------- MODULE MCStoplight -----------------------------
(***************************************************************************)
(* Model-checking instance of Stoplight.  Four cars: one more than         *)
(* intersectionSem admits, and as many as there are quadrants, so the      *)
(* cycle of four waiting cars is the case the limit has to rule out.       *)
(* Cars are interchangeable (the car number is only printed).              *)
(***************************************************************************)
EXTENDS Stoplight, TLC

MCSymmetry == Permutations(Cars)

=============================================================================
