-------------------------- MODULE MCAuthentication --------------------------
(* Instances of Authentication for TLC: clients and emails are alike.      *)
EXTENDS Authentication, TLC

MCSymmetry == Permutations(Clients) \cup Permutations(Emails)
=============================================================================
