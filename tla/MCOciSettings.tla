--------------------------- MODULE MCOciSettings ---------------------------
EXTENDS OciSettingsProofs, TLC

\* Administrators, callers and regions are alike.
Symmetry == Permutations(Admins) \cup Permutations(Callers) \cup Permutations(Regions)
=============================================================================
