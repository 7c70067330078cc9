----------------------------- MODULE MCConsole -----------------------------
EXTENDS Console, TLC

MCSymmetry == Permutations(Threads)
============================================================================
