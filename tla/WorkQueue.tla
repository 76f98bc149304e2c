----------------------------- MODULE WorkQueue ------------------------------
(***************************************************************************)
(* What a client of the job queue may rely on: a job handed in waits, is   *)
(* worked on by one worker at a time and never together with another job,  *)
(* may go back to waiting when an attempt does not finish it, and once     *)
(* done stays done.  Nothing is lost and nothing is worked on unasked.     *)
(***************************************************************************)

CONSTANTS
  Job,    \* the jobs there may ever be
  NoJob   \* not a job

VARIABLES
  waiting,  \* jobs handed in and not being worked on
  active,   \* the job being worked on, or NoJob
  done      \* jobs that are finished, for better or worse

vars == <<waiting, active, done>>

Init ==
  /\ waiting = {}
  /\ active = NoJob
  /\ done = {}

Submit(j) ==
  /\ j \in Job \ (waiting \cup done \cup {active})
  /\ waiting' = waiting \cup {j}
  /\ UNCHANGED <<active, done>>

Begin(j) ==
  /\ active = NoJob
  /\ j \in waiting
  /\ waiting' = waiting \ {j}
  /\ active' = j
  /\ UNCHANGED done

Finish ==
  /\ active # NoJob
  /\ done' = done \cup {active}
  /\ active' = NoJob
  /\ UNCHANGED waiting

GiveBack ==
  /\ active # NoJob
  /\ waiting' = waiting \cup {active}
  /\ active' = NoJob
  /\ UNCHANGED done

Next ==
  \/ \E j \in Job : Submit(j) \/ Begin(j)
  \/ Finish
  \/ GiveBack

Spec == Init /\ [][Next]_vars

=============================================================================
