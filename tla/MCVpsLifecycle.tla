--------------------------- MODULE MCVpsLifecycle ---------------------------
(* Model checking of VpsLifecycle: the users are interchangeable.          *)
EXTENDS VpsLifecycleProofs, TLC

Symmetry == Permutations(Users)
=============================================================================
