-------------------------- MODULE MCFencedFileLock --------------------------
(* Small instances of FencedFileLock.  Processes are interchangeable: no      *)
(* action tells one from another.                                             *)
EXTENDS FencedFileLock, TLC

CONSTANTS p1, p2, p3

LockSymmetry == Permutations(Procs)

=============================================================================
