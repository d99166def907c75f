--------------------------- MODULE MCFederatedJob ---------------------------
EXTENDS FederatedJob, TLC
JobSymmetry == Permutations(Hosts)
=============================================================================
