------------------------ MODULE MCNetworkAllocation ------------------------
(* Instances of NetworkAllocation for TLC: clients are alike.              *)
EXTENDS NetworkAllocationProofs, TLC

MCSymmetry == Permutations(Clients)
=============================================================================
