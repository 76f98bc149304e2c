----------------------------- MODULE MCJobQueue -----------------------------
(* Instances of JobQueue for TLC: three jobs, the code's three attempts.    *)
EXTENDS JobQueueProofs


=============================================================================
