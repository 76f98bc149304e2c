---------------------------- MODULE MCVpsAccess ----------------------------
EXTENDS VpsAccessProofs, TLC

\* The clients are alike.
Symmetry == Permutations(Clients)
=============================================================================
