--------------------------- MODULE MCEventBroker ----------------------------
(* Model checking of EventBroker: publishers and clients are alike.        *)
EXTENDS EventBrokerProofs, TLC

Symmetry == Permutations(Publishers) \cup Permutations(Clients)
=============================================================================
