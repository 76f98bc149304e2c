------------------------- MODULE MCNetworkLifecycle -------------------------
(***************************************************************************)
(* Model values of NetworkLifecycle for TLC.  Clients may be declared      *)
(* symmetric: they are told apart by nothing but the state of their call.  *)
(***************************************************************************)
EXTENDS NetworkLifecycleProofs

Symmetry == Permutations(Clients)

=============================================================================
