---------------------- MODULE MCDecompositionJournal ----------------------
(* Model checking of DecompositionJournal. *)
EXTENDS DecompositionJournal, TLC
=============================================================================
