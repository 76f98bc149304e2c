------------------------------ MODULE JobQueue ------------------------------
(***************************************************************************)
(* The durable job queue of internal/service/jobqueue.go: the jobs table,  *)
(* the single worker goroutine that claims and runs one job at a time, the *)
(* retry and rollback bookkeeping of markFailed, and the process around    *)
(* them (start-up order of cmd/api/main.go, graceful Stop, crashes).       *)
(*                                                                         *)
(* What a job does is abstracted to how it ends: it returns nil, returns   *)
(* an error, or panics.  A panic is possible only where the services       *)
(* dereference a row that is gone, so the one fact kept about the target   *)
(* of a job is whether its row has been deleted.                           *)
(*                                                                         *)
(* A definition marked "mutant" is a wrong variant of the one after it.    *)
(* Spec does not use it; it shows that a property can fail.                *)
(***************************************************************************)
EXTENDS Naturals

CONSTANTS
  MaxJobs,      \* bound: rows ever inserted into the jobs table
  MaxAttempts,  \* markFailed's limit (3 in the code)
  MaxFaults,    \* bound: crashes, shutdowns and failed writes, altogether
  Faults        \* the kinds of faults the environment may inject

JobID   == 1..MaxJobs
NoJob   == 0
Kind    == {"provision_network", "provision_vps", "terminate_vps"}
Status  == {"absent", "pending", "running", "complete", "failed"}
Fault   == {"crash", "store", "delete"}

ASSUME QueueAssumption ==
  /\ MaxJobs \in Nat
  /\ MaxAttempts \in Nat \ {0}
  /\ MaxFaults \in Nat
  /\ Faults \subseteq Fault

VARIABLES
  \* the jobs table, one function per column; id is the domain
  kind,         \* type
  status,       \* status ("absent": not inserted yet)
  attempts,     \* attempts
  due,          \* updated_at <= now: the back-off of the row has elapsed
  enqueued,     \* the AUTOINCREMENT counter: rows 1..enqueued exist
  gone,         \* jobs whose network or vps row has been deleted
  \* the process
  phase,        \* "down", "boot" (reconciling), "serving", "stopping"
  pc,           \* worker goroutine: "off", "idle", "running", "rollback", "dead"
  job,          \* the job the worker executes
  found,        \* the run of job loaded its target row at the start
  recovering,   \* the worker is inside the deferred recover of the run
  \* history, read by the properties only
  runs,         \* how many times each job has been started
  interrupted,  \* how many of these runs ended without their result stored
  rolledBack,   \* jobs whose triggerRollback has returned
  faults        \* faults injected so far

table   == <<kind, status, attempts, due, enqueued>>
worker  == <<pc, job, found, recovering>>
history == <<runs, interrupted, rolledBack>>
vars    == <<table, gone, phase, worker, history, faults>>

TableOK ==
  /\ kind \in [JobID -> Kind \cup {"none"}]
  /\ status \in [JobID -> Status]
  /\ attempts \in [JobID -> Nat]
  /\ due \in [JobID -> BOOLEAN]
  /\ enqueued \in 0..MaxJobs

ProcessOK ==
  /\ gone \subseteq JobID
  /\ phase \in {"down", "boot", "serving", "stopping"}
  /\ pc \in {"off", "idle", "running", "rollback", "dead"}
  /\ job \in JobID \cup {NoJob}
  /\ found \in BOOLEAN
  /\ recovering \in BOOLEAN

HistoryOK ==
  /\ runs \in [JobID -> Nat]
  /\ interrupted \in [JobID -> Nat]
  /\ rolledBack \subseteq JobID
  /\ faults \in 0..MaxFaults

\* Every column, the process and the history have the values they may have.
TypeOK == TableOK /\ ProcessOK /\ HistoryOK

Init ==
  /\ kind = [j \in JobID |-> "none"]
  /\ status = [j \in JobID |-> "absent"]
  /\ attempts = [j \in JobID |-> 0]
  /\ due = [j \in JobID |-> FALSE]
  /\ enqueued = 0
  /\ gone = {}
  /\ phase = "boot"
  /\ pc = "off"
  /\ job = NoJob
  /\ found = FALSE
  /\ recovering = FALSE
  /\ runs = [j \in JobID |-> 0]
  /\ interrupted = [j \in JobID |-> 0]
  /\ rolledBack = {}
  /\ faults = 0

Executing == pc \in {"running", "rollback"}

ExecutingJob == IF Executing THEN job ELSE NoJob

-----------------------------------------------------------------------------
(* The HTTP handlers and the clock.                                        *)

\* Enqueue: one INSERT, status 'pending', updated_at = now; no deduplication.
\* A request in flight may still enqueue while the server drains.
Enqueue(k) ==
  /\ phase \in {"serving", "stopping"}
  /\ enqueued < MaxJobs
  /\ LET j == enqueued + 1 IN
       /\ enqueued' = j
       /\ kind' = [kind EXCEPT ![j] = k]
       /\ status' = [status EXCEPT ![j] = "pending"]
       /\ due' = [due EXCEPT ![j] = TRUE]
  /\ UNCHANGED <<attempts, gone, phase, worker, history, faults>>

\* HandleDeleteVPS and HandleDeleteNetwork delete the row a job is about; the
\* jobs of that row stay in the table.
DeleteTarget(j) ==
  /\ "delete" \in Faults
  /\ phase \in {"serving", "stopping"}
  /\ j \in 1..enqueued
  /\ j \notin gone
  /\ gone' = gone \cup {j}
  /\ UNCHANGED <<table, phase, worker, history, faults>>

\* The back-off written by markFailed (1, then 5 minutes) elapses.
BackoffElapses(j) ==
  /\ status[j] = "pending"
  /\ ~due[j]
  /\ due' = [due EXCEPT ![j] = TRUE]
  /\ UNCHANGED <<kind, status, attempts, enqueued, gone, phase, worker,
                 history, faults>>

-----------------------------------------------------------------------------
(* The worker goroutine.                                                   *)

Claimable(j) == status[j] = "pending" /\ due[j]

\* mutant: ORDER BY id DESC
Newest == {j \in JobID : Claimable(j) /\ \A i \in JobID : Claimable(i) => i <= j}

\* The row processOneJob selects: the oldest one (ORDER BY id ASC LIMIT 1).
Oldest == {j \in JobID : Claimable(j) /\ \A i \in JobID : Claimable(i) => j <= i}

\* processOneJob, up to the commit: the selected row becomes 'running'.  Stop()
\* does not prevent a last claim: workerLoop's select may take the ticker
\* although stopCh is closed.
Claim ==
  /\ pc = "idle"
  /\ \E j \in Oldest :
       /\ status' = [status EXCEPT ![j] = "running"]
       /\ job' = j
       /\ found' = (j \notin gone)
       /\ runs' = [runs EXCEPT ![j] = @ + 1]
  /\ pc' = "running"
  /\ recovering' = FALSE
  /\ UNCHANGED <<kind, attempts, due, enqueued, gone, phase, interrupted,
                 rolledBack, faults>>

\* The worker returns to its select with nothing claimed.
Release ==
  /\ pc' = "idle"
  /\ job' = NoJob
  /\ found' = FALSE
  /\ recovering' = FALSE

\* The UPDATE that ends a run is stored ...
Stored(s, a, d) ==
  /\ status' = [status EXCEPT ![job] = s]
  /\ attempts' = [attempts EXCEPT ![job] = a]
  /\ due' = [due EXCEPT ![job] = d]
  /\ UNCHANGED <<interrupted, faults>>

\* ... or fails: markComplete and markFailed only log the error, and the row
\* stays 'running' with nobody working on it.
NotStored ==
  /\ "store" \in Faults
  /\ faults < MaxFaults
  /\ faults' = faults + 1
  /\ interrupted' = [interrupted EXCEPT ![job] = @ + 1]
  /\ UNCHANGED <<status, attempts, due>>

\* The service call returns nil: markComplete.
RunSucceeds ==
  /\ pc = "running"
  /\ found
  /\ kind[job] = "terminate_vps" => job \notin gone
  /\ Stored("complete", attempts[job], due[job]) \/ NotStored
  /\ Release
  /\ UNCHANGED <<kind, enqueued, gone, phase, runs, rolledBack>>

\* mutant: the attempt is not counted
AttemptsAsRead == attempts[job]

\* runJobWithRecovery hands attempts + 1, as read by the claim, to markFailed.
NewAttempts == attempts[job] + 1

\* markFailed below the limit: back to 'pending', with a back-off.
Retry ==
  /\ NewAttempts < MaxAttempts
  /\ Stored("pending", NewAttempts, FALSE) \/ NotStored
  /\ Release

\* mutant: 'failed' is written first, the rollback runs afterwards
FailThenRollback(inRecover) ==
  /\ NewAttempts >= MaxAttempts
  /\ pc' = "rollback"
  /\ recovering' = inRecover
  /\ Stored("failed", NewAttempts, due[job])
  /\ UNCHANGED <<job, found>>

\* markFailed at the limit: the rollback runs before anything is written.
GiveUp(inRecover) ==
  /\ NewAttempts >= MaxAttempts
  /\ pc' = "rollback"
  /\ recovering' = inRecover
  /\ UNCHANGED <<status, attempts, due, job, found, interrupted, faults>>

\* The service call returns an error.
RunFails ==
  /\ pc = "running"
  /\ Retry \/ GiveUp(FALSE)
  /\ UNCHANGED <<kind, enqueued, gone, phase, runs, rolledBack>>

\* The service call panics: TerminateInstance and RollbackVPS dereference the
\* vps they load, nil when the row is gone.  The deferred recover of
\* runJobWithRecovery calls markFailed.
RunPanics ==
  /\ pc = "running"
  /\ job \in gone
  /\ \/ kind[job] = "terminate_vps"
     \/ kind[job] = "provision_vps" /\ found
  /\ Retry \/ GiveUp(TRUE)
  /\ UNCHANGED <<kind, enqueued, gone, phase, runs, rolledBack>>

\* triggerRollback dereferences the vps row of a provision_vps job unchecked.
RollbackCrashes == kind[job] = "provision_vps" /\ job \in gone

\* triggerRollback returns; only then does markFailed write 'failed'.
RollbackReturns ==
  /\ pc = "rollback"
  /\ ~RollbackCrashes
  /\ rolledBack' = rolledBack \cup {job}
  /\ Stored("failed", NewAttempts, due[job]) \/ NotStored
  /\ Release
  /\ UNCHANGED <<kind, enqueued, gone, phase, runs>>

\* triggerRollback panics.  In the body of the run the deferred recover calls
\* markFailed, which rolls back again; a panic inside that recover escapes to
\* workerLoop, whose own recover ends the goroutine.
RollbackPanics ==
  /\ pc = "rollback"
  /\ RollbackCrashes
  /\ \/ /\ ~recovering
        /\ recovering' = TRUE
        /\ UNCHANGED <<pc, job, found, interrupted>>
     \/ /\ recovering
        /\ pc' = "dead"
        /\ job' = NoJob
        /\ found' = FALSE
        /\ recovering' = FALSE
        /\ interrupted' = [interrupted EXCEPT ![job] = @ + 1]
  /\ UNCHANGED <<table, gone, phase, runs, rolledBack, faults>>

-----------------------------------------------------------------------------
(* The process: main.go starts reconciliation, ResumeOnStartup, the worker *)
(* and then the HTTP server; on SIGTERM the server first, then the queue.  *)

\* mutants: no row is reset, or every row is
NoRow    == {}
EveryRow == {j \in JobID : status[j] # "absent"}

\* The rows of runs that a crash or a failed write cut short
\* (WHERE status='running').
InterruptedRows == {j \in JobID : status[j] = "running"}

\* ResumeOnStartup and Start.  A failing UPDATE is logged and start-up goes on.
ResumeOnStartup ==
  /\ phase = "boot"
  /\ \/ /\ status' = [j \in JobID |->
                        IF j \in InterruptedRows THEN "pending" ELSE status[j]]
        /\ due' = [j \in JobID |-> j \in InterruptedRows \/ due[j]]
        /\ UNCHANGED faults
     \/ /\ "store" \in Faults
        /\ faults < MaxFaults
        /\ faults' = faults + 1
        /\ UNCHANGED <<status, due>>
  /\ phase' = "serving"
  /\ pc' = "idle"
  /\ UNCHANGED <<kind, attempts, enqueued, gone, job, found, recovering,
                 history>>

\* SIGTERM: the HTTP server stops accepting requests, Stop closes stopCh.
Shutdown ==
  /\ "crash" \in Faults
  /\ phase = "serving"
  /\ faults < MaxFaults
  /\ faults' = faults + 1
  /\ phase' = "stopping"
  /\ UNCHANGED <<table, gone, worker, history>>

\* The process is gone: the run in progress leaves no trace in the table.
ProcessEnds ==
  /\ phase' = "down"
  /\ pc' = "off"
  /\ job' = NoJob
  /\ found' = FALSE
  /\ recovering' = FALSE
  /\ interrupted' = IF Executing
                      THEN [interrupted EXCEPT ![job] = @ + 1]
                      ELSE interrupted
  /\ UNCHANGED <<table, gone, runs, rolledBack>>

\* workerLoop returns (or had died), Stop sees the WaitGroup drained and main
\* returns; or Stop gives up after 60 seconds with a run in progress.
StopReturns ==
  /\ phase = "stopping"
  /\ ProcessEnds
  /\ UNCHANGED faults

Crash ==
  /\ "crash" \in Faults
  /\ phase # "down"
  /\ faults < MaxFaults
  /\ faults' = faults + 1
  /\ ProcessEnds

Restart ==
  /\ phase = "down"
  /\ phase' = "boot"
  /\ UNCHANGED <<table, gone, worker, history, faults>>

\* A tick of the worker with nothing to claim: an empty transaction.
Poll ==
  /\ pc = "idle"
  /\ \A j \in JobID : ~Claimable(j)
  /\ UNCHANGED vars

Next ==
  \/ \E k \in Kind : Enqueue(k)
  \/ \E j \in JobID : DeleteTarget(j)
  \/ \E j \in JobID : BackoffElapses(j)
  \/ Claim
  \/ RunSucceeds
  \/ RunFails
  \/ RunPanics
  \/ RollbackReturns
  \/ RollbackPanics
  \/ ResumeOnStartup
  \/ Shutdown
  \/ StopReturns
  \/ Crash
  \/ Restart
  \/ Poll

Spec == Init /\ [][Next]_vars

\* The worker keeps polling, a run and a rollback end (every wait in the
\* services has a deadline), back-offs elapse, and the supervisor restarts the
\* process.  Users, shutdowns and faults owe nothing.
Fairness ==
  /\ WF_vars(Claim)
  /\ WF_vars(RunSucceeds \/ RunFails \/ RunPanics)
  /\ WF_vars(RollbackReturns \/ RollbackPanics)
  /\ \A j \in JobID : WF_vars(BackoffElapses(j))
  /\ WF_vars(ResumeOnStartup)
  /\ WF_vars(StopReturns)
  /\ WF_vars(Restart)

FairSpec == Spec /\ Fairness

-----------------------------------------------------------------------------
(* Properties.                                                             *)

\* The row of the job being executed says 'running' until its result is
\* written, whatever resumes, crashes and failed writes happened before: no
\* row can be claimed a second time while it is being worked on.
ExecutingIsClaimed == Executing => status[job] = "running"

\* Every start of a job is accounted for: it is the run in progress, it is
\* the one that completed, it was counted in the attempts column, or its
\* result never reached the table.  ResumeOnStartup does not count the run it
\* resets, so only faults make a job exceed its attempts.
RunsAccounted ==
  \A j \in JobID :
    runs[j] = attempts[j] + interrupted[j]
                + (IF ExecutingJob = j THEN 1 ELSE 0)
                + (IF status[j] = "complete" THEN 1 ELSE 0)

\* A job is never started more often than the attempts it is allowed plus the
\* runs that faults cut short.
RunBudget == \A j \in JobID : runs[j] <= MaxAttempts + interrupted[j]

\* 'failed' is written only after the rollback of that job has returned, and
\* only once the attempts are used up.
FailedIsRolledBack ==
  \A j \in JobID :
    status[j] = "failed" => j \in rolledBack /\ attempts[j] = MaxAttempts

\* First runs happen in the order the jobs were enqueued, across retries,
\* crashes and restarts: a job that has been started has no older job that
\* never was.
FirstRunsInOrder ==
  \A i, j \in JobID : i < j /\ runs[j] > 0 => runs[i] > 0

\* A finished job is never resurrected: not by a resume, not by a late write.
FinishedIsFinal ==
  [][\A j \in JobID :
       status[j] \in {"complete", "failed"} => status'[j] = status[j]]_vars

\* Nobody is going to work on j before the next start-up, although its row says
\* otherwise: the write that should have ended its run failed, the UPDATE of
\* ResumeOnStartup did, or the worker is dead.
Stranded(j) ==
  pc = "dead" \/ (pc # "off" /\ status[j] = "running" /\ ExecutingJob # j)

Finished(j) == status[j] \in {"complete", "failed"}

\* Under fairness every enqueued job completes or is rolled back and marked
\* failed, whatever crashes, unless a failed write or the death of the worker
\* strands it; and a start-up after the last fault recovers the stranded ones.
JobsFinish ==
  \A j \in JobID :
    /\ status[j] = "pending" ~> Finished(j) \/ Stranded(j)
    /\ phase = "down" /\ faults = MaxFaults /\ status[j] # "absent"
         ~> Finished(j) \/ pc = "dead"

\* "each job runs with panic recovery" (jobqueue.go:180): no job ends the
\* worker.  The code breaks this for a vps row deleted before its provision
\* job ran out of attempts.
WorkerSurvives == pc # "dead"

-----------------------------------------------------------------------------
(* What the queue promises: WorkQueue, an abstract one-at-a-time queue.    *)

Promise == INSTANCE WorkQueue WITH
  Job     <- JobID,
  NoJob   <- NoJob,
  waiting <- {j \in JobID : status[j] \in {"pending", "running"}} \ {ExecutingJob},
  active  <- ExecutingJob,
  done    <- {j \in JobID : status[j] \in {"complete", "failed"}}

\* The jobs table and its worker implement the abstract queue.
ImplementsWorkQueue == Promise!Spec

=============================================================================
