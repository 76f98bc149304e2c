--------------------------- MODULE MCRateLimiter ---------------------------
(* Instances of RateLimiter for TLC: callers and keys are alike.           *)
EXTENDS RateLimiter, TLC

MCSymmetry == Permutations(Callers) \cup Permutations(Keys)
=============================================================================
