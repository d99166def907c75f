------------------------- MODULE MCTaskReservation -------------------------
(* Small instances of TaskReservation for TLC.                             *)
EXTENDS TaskReservation, TLC

\* Callers are interchangeable.
CallerSymmetry == Permutations(Callers)
=============================================================================
