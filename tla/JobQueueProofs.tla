--------------------------- MODULE JobQueueProofs ---------------------------
(***************************************************************************)
(* What holds of JobQueue for every number of jobs, attempts and faults.   *)
(* The inductive invariant is TypeOK together with five facts about the    *)
(* table and the worker; each safety property of JobQueue is one of them   *)
(* or follows from them.                                                   *)
(***************************************************************************)
EXTENDS JobQueue, TLAPS

\* Where the process and its worker can be: a worker exists only while the
\* process serves, and it holds a job exactly while it executes one.
WorkerShape ==
  /\ phase \in {"down", "boot"} => pc = "off"
  /\ phase \in {"serving", "stopping"} => pc # "off"
  /\ Executing <=> job \in JobID
  /\ ~Executing => job = NoJob

\* The table is filled from the front, and a row not yet inserted has no past.
RowsInserted ==
  \A j \in JobID :
    /\ status[j] = "absent" <=> j > enqueued
    /\ status[j] = "absent" =>
         runs[j] = 0 /\ attempts[j] = 0 /\ interrupted[j] = 0

\* A row that was never started is pending and has no back-off to wait for:
\* this is what makes first runs happen in order.
NeverStartedIsDue ==
  \A j \in JobID :
    runs[j] = 0 /\ status[j] # "absent" => status[j] = "pending" /\ due[j]

\* Only a failed row has used up its attempts, and a rollback is under way
\* only for the last attempt.
AttemptsLeft ==
  /\ \A j \in JobID : status[j] # "failed" => attempts[j] < MaxAttempts
  /\ pc = "rollback" => attempts[job] + 1 = MaxAttempts

IInv ==
  /\ TypeOK
  /\ WorkerShape
  /\ ExecutingIsClaimed
  /\ RowsInserted
  /\ NeverStartedIsDue
  /\ AttemptsLeft
  /\ RunsAccounted
  /\ FailedIsRolledBack
  /\ FirstRunsInOrder

\* Job ids are positive numbers, so that 0 can stand for no job.
LEMMA JobIDs == JobID \subseteq Nat /\ NoJob \notin JobID /\ 0 \notin JobID
BY QueueAssumption DEF JobID, NoJob

\* An empty table and a worker that is not there yet.
LEMMA InitIInv == Init => IInv
<1> SUFFICES ASSUME Init PROVE IInv
  OBVIOUS
<1> USE JobIDs, QueueAssumption DEF Init
<1>1. TypeOK
  <2>1. TableOK
    BY DEF TableOK, Status
  <2>2. ProcessOK
    BY DEF ProcessOK
  <2>3. HistoryOK
    BY DEF HistoryOK
  <2> QED BY <2>1, <2>2, <2>3 DEF TypeOK
<1>2. WorkerShape /\ ExecutingIsClaimed
  BY DEF WorkerShape, ExecutingIsClaimed, Executing
<1>3. RowsInserted /\ NeverStartedIsDue /\ AttemptsLeft
  BY DEF RowsInserted, NeverStartedIsDue, AttemptsLeft, JobID
<1>4. RunsAccounted
  BY DEF RunsAccounted, Executing, ExecutingJob
<1>5. FailedIsRolledBack /\ FirstRunsInOrder
  BY DEF FailedIsRolledBack, FirstRunsInOrder
<1> QED BY <1>1, <1>2, <1>3, <1>4, <1>5 DEF IInv

\* A new row is pending, due and without a past.
LEMMA EnqueueIInv ==
  ASSUME NEW k \in Kind
  PROVE  IInv /\ Enqueue(k) => IInv'
<1> SUFFICES ASSUME IInv, Enqueue(k) PROVE IInv'
  OBVIOUS
<1> USE JobIDs, QueueAssumption DEF IInv, TypeOK, Enqueue, worker, history
<1>1. TypeOK'
  <2>1. TableOK'
    BY DEF TableOK, Status, JobID
  <2>2. ProcessOK'
    BY DEF ProcessOK
  <2>3. HistoryOK'
    BY DEF HistoryOK, ProcessOK, WorkerShape, Executing
  <2> QED BY <2>1, <2>2, <2>3
<1>2. WorkerShape'
  BY DEF ProcessOK, WorkerShape, Executing
<1>3. ExecutingIsClaimed'
  BY DEF TableOK, ProcessOK, WorkerShape, ExecutingIsClaimed, Executing, RowsInserted
<1>4. RowsInserted'
  BY DEF TableOK, HistoryOK, RowsInserted, JobID
<1>5. NeverStartedIsDue'
  BY DEF TableOK, HistoryOK, NeverStartedIsDue
<1>6. AttemptsLeft'
  BY DEF TableOK, AttemptsLeft, RowsInserted
<1>7. RunsAccounted'
  BY DEF TableOK, HistoryOK, RunsAccounted, RowsInserted, ExecutingJob, Executing
<1>8. FailedIsRolledBack'
  BY DEF TableOK, FailedIsRolledBack
<1>9. FirstRunsInOrder'
  BY DEF TableOK, HistoryOK, FirstRunsInOrder
<1> QED BY <1>1, <1>2, <1>3, <1>4, <1>5, <1>6, <1>7, <1>8, <1>9

\* Deleting a target changes no row of the table.
LEMMA DeleteTargetIInv ==
  ASSUME NEW j \in JobID
  PROVE  IInv /\ DeleteTarget(j) => IInv'
<1> SUFFICES ASSUME IInv, DeleteTarget(j) PROVE IInv'
  OBVIOUS
<1> USE JobIDs, QueueAssumption DEF IInv, TypeOK, DeleteTarget, table, worker, history
<1>1. TypeOK'
  <2>1. TableOK'
    BY DEF TableOK, ProcessOK, Status, WorkerShape, Executing
  <2>2. ProcessOK'
    BY DEF ProcessOK
  <2>3. HistoryOK'
    BY DEF HistoryOK, ProcessOK, WorkerShape, Executing
  <2> QED BY <2>1, <2>2, <2>3
<1>2. WorkerShape'
  BY DEF ProcessOK, WorkerShape, Executing
<1>3. ExecutingIsClaimed'
  BY DEF TableOK, ProcessOK, WorkerShape, ExecutingIsClaimed, Executing
<1>4. RowsInserted'
  BY DEF TableOK, ProcessOK, HistoryOK, WorkerShape, ExecutingIsClaimed, Executing, RowsInserted
<1>5. NeverStartedIsDue'
  BY DEF TableOK, ProcessOK, HistoryOK, WorkerShape, RunsAccounted, Executing, ExecutingJob, NeverStartedIsDue
<1>6. AttemptsLeft'
  BY DEF TableOK, ProcessOK, WorkerShape, ExecutingIsClaimed, Executing, AttemptsLeft
<1>7. RunsAccounted'
  BY DEF TableOK, ProcessOK, HistoryOK, WorkerShape, ExecutingIsClaimed, Executing, ExecutingJob, RunsAccounted
<1>8. FailedIsRolledBack'
  BY DEF TableOK, ProcessOK, HistoryOK, WorkerShape, ExecutingIsClaimed, AttemptsLeft, Executing, FailedIsRolledBack
<1>9. FirstRunsInOrder'
  BY DEF TableOK, HistoryOK, FirstRunsInOrder
<1> QED BY <1>1, <1>2, <1>3, <1>4, <1>5, <1>6, <1>7, <1>8, <1>9

\* An elapsed back-off only makes a row due.
LEMMA BackoffElapsesIInv ==
  ASSUME NEW j \in JobID
  PROVE  IInv /\ BackoffElapses(j) => IInv'
<1> SUFFICES ASSUME IInv, BackoffElapses(j) PROVE IInv'
  OBVIOUS
<1> USE JobIDs, QueueAssumption DEF IInv, TypeOK, BackoffElapses, worker, history
<1>1. TypeOK'
  <2>1. TableOK'
    BY DEF TableOK, ProcessOK, Status, WorkerShape, Executing
  <2>2. ProcessOK'
    BY DEF ProcessOK
  <2>3. HistoryOK'
    BY DEF HistoryOK, ProcessOK, WorkerShape, Executing
  <2> QED BY <2>1, <2>2, <2>3
<1>2. WorkerShape'
  BY DEF ProcessOK, WorkerShape, Executing
<1>3. ExecutingIsClaimed'
  BY DEF TableOK, ProcessOK, WorkerShape, ExecutingIsClaimed, Executing
<1>4. RowsInserted'
  BY DEF TableOK, ProcessOK, HistoryOK, WorkerShape, ExecutingIsClaimed, Executing, RowsInserted
<1>5. NeverStartedIsDue'
  BY DEF TableOK, ProcessOK, HistoryOK, WorkerShape, RunsAccounted, Executing, ExecutingJob, NeverStartedIsDue
<1>6. AttemptsLeft'
  BY DEF TableOK, ProcessOK, WorkerShape, ExecutingIsClaimed, Executing, AttemptsLeft
<1>7. RunsAccounted'
  BY DEF TableOK, ProcessOK, HistoryOK, WorkerShape, ExecutingIsClaimed, Executing, ExecutingJob, RunsAccounted
<1>8. FailedIsRolledBack'
  BY DEF TableOK, ProcessOK, HistoryOK, WorkerShape, ExecutingIsClaimed, AttemptsLeft, Executing, FailedIsRolledBack
<1>9. FirstRunsInOrder'
  BY DEF TableOK, HistoryOK, FirstRunsInOrder
<1> QED BY <1>1, <1>2, <1>3, <1>4, <1>5, <1>6, <1>7, <1>8, <1>9

\* The oldest due row is claimed; older rows that were never started would be due.
LEMMA ClaimIInv ==
  IInv /\ Claim => IInv'
<1> SUFFICES ASSUME IInv, Claim PROVE IInv'
  OBVIOUS
<1> USE JobIDs, QueueAssumption DEF IInv, TypeOK, Claim, Oldest, Claimable
<1>0. PICK j \in JobID :
       /\ Claimable(j)
       /\ \A i \in JobID : Claimable(i) => j <= i
       /\ status' = [status EXCEPT ![j] = "running"]
       /\ job' = j
       /\ runs' = [runs EXCEPT ![j] = @ + 1]
  BY DEF Claim, Oldest
<1>1. TypeOK'
  <2>1. TableOK'
    BY DEF TableOK, ProcessOK, Status, WorkerShape, Executing
  <2>2. ProcessOK'
    BY DEF ProcessOK
  <2>3. HistoryOK'
    BY DEF HistoryOK, ProcessOK, WorkerShape, Executing
  <2> QED BY <2>1, <2>2, <2>3
<1>2. WorkerShape'
  BY DEF ProcessOK, WorkerShape, Executing
<1>3. ExecutingIsClaimed'
  BY DEF TableOK, ProcessOK, WorkerShape, ExecutingIsClaimed, Executing
<1>4. RowsInserted'
  BY DEF TableOK, ProcessOK, HistoryOK, WorkerShape, ExecutingIsClaimed, Executing, RowsInserted
<1>5. NeverStartedIsDue'
  <2>1. ASSUME NEW i \in JobID, runs'[i] = 0, status'[i] # "absent"
        PROVE  status'[i] = "pending" /\ due'[i]
    <3>1. i # j /\ runs[i] = 0 /\ status'[i] = status[i]
      BY <1>0, <2>1 DEF TableOK, HistoryOK
    <3> QED BY <2>1, <3>1 DEF NeverStartedIsDue
  <2> QED BY <2>1 DEF NeverStartedIsDue
<1>6. AttemptsLeft'
  BY DEF TableOK, ProcessOK, WorkerShape, ExecutingIsClaimed, Executing, AttemptsLeft
<1>7. RunsAccounted'
  <2>1. ExecutingJob = NoJob /\ ExecutingJob' = j
    BY <1>0 DEF Executing, ExecutingJob
  <2> QED
    BY <1>0, <2>1 DEF TableOK, HistoryOK, RunsAccounted
<1>8. FailedIsRolledBack'
  BY DEF TableOK, ProcessOK, HistoryOK, WorkerShape, ExecutingIsClaimed, AttemptsLeft, Executing, FailedIsRolledBack
<1>9. FirstRunsInOrder'
  <2>1. ASSUME NEW i \in JobID, i < j, runs[i] = 0 PROVE FALSE
    <3>1. status[j] # "absent" /\ status[i] # "absent"
      BY <1>0, <2>1 DEF RowsInserted, TableOK, JobID
    <3> QED BY <1>0, <2>1, <3>1 DEF NeverStartedIsDue
  <2>2. \A i \in JobID : i < j => runs[i] > 0
    BY <2>1 DEF HistoryOK
  <2> QED BY <1>0, <2>2 DEF FirstRunsInOrder, HistoryOK
<1> QED BY <1>1, <1>2, <1>3, <1>4, <1>5, <1>6, <1>7, <1>8, <1>9

\* A run that returns nil ends as 'complete' or loses its write.
LEMMA RunSucceedsIInv ==
  IInv /\ RunSucceeds => IInv'
<1> SUFFICES ASSUME IInv, RunSucceeds PROVE IInv'
  OBVIOUS
<1> USE JobIDs, QueueAssumption DEF IInv, TypeOK, RunSucceeds, Stored, NotStored, Release
<1>1. TypeOK'
  <2>1. TableOK'
    BY DEF TableOK, ProcessOK, Status, WorkerShape, Executing
  <2>2. ProcessOK'
    BY DEF ProcessOK
  <2>3. HistoryOK'
    BY DEF HistoryOK, ProcessOK, WorkerShape, Executing
  <2> QED BY <2>1, <2>2, <2>3
<1>2. WorkerShape'
  BY DEF ProcessOK, WorkerShape, Executing
<1>3. ExecutingIsClaimed'
  BY DEF TableOK, ProcessOK, WorkerShape, ExecutingIsClaimed, Executing
<1>4. RowsInserted'
  BY DEF TableOK, ProcessOK, HistoryOK, WorkerShape, ExecutingIsClaimed, Executing, RowsInserted
<1>5. NeverStartedIsDue'
  BY DEF TableOK, ProcessOK, HistoryOK, WorkerShape, RunsAccounted, Executing, ExecutingJob, NeverStartedIsDue
<1>6. AttemptsLeft'
  BY DEF TableOK, ProcessOK, WorkerShape, ExecutingIsClaimed, Executing, AttemptsLeft
<1>7. RunsAccounted'
  BY DEF TableOK, ProcessOK, HistoryOK, WorkerShape, ExecutingIsClaimed, Executing, ExecutingJob, RunsAccounted
<1>8. FailedIsRolledBack'
  BY DEF TableOK, ProcessOK, HistoryOK, WorkerShape, ExecutingIsClaimed, AttemptsLeft, Executing, FailedIsRolledBack
<1>9. FirstRunsInOrder'
  BY DEF TableOK, HistoryOK, FirstRunsInOrder
<1> QED BY <1>1, <1>2, <1>3, <1>4, <1>5, <1>6, <1>7, <1>8, <1>9

\* A run that returns an error is retried, rolled back, or loses its write.
LEMMA RunFailsIInv ==
  IInv /\ RunFails => IInv'
<1> SUFFICES ASSUME IInv, RunFails PROVE IInv'
  OBVIOUS
<1> USE JobIDs, QueueAssumption DEF IInv, TypeOK, RunFails, NewAttempts, Retry, GiveUp, Stored, NotStored, Release
<1>1. TypeOK'
  <2>1. TableOK'
    <3>1. CASE UNCHANGED <<status, attempts, due>>
      BY <3>1 DEF TableOK
    <3>2. CASE Stored("pending", NewAttempts, FALSE)
      <4>1. job \in JobID
        BY DEF WorkerShape, Executing
      <4> QED BY <3>2, <4>1 DEF TableOK, Status
    <3> QED BY <3>1, <3>2
  <2>2. ProcessOK'
    BY DEF ProcessOK
  <2>3. HistoryOK'
    BY DEF HistoryOK, ProcessOK, WorkerShape, Executing
  <2> QED BY <2>1, <2>2, <2>3
<1>2. WorkerShape'
  BY DEF ProcessOK, WorkerShape, Executing
<1>3. ExecutingIsClaimed'
  BY DEF TableOK, ProcessOK, WorkerShape, ExecutingIsClaimed, Executing
<1>4. RowsInserted'
  BY DEF TableOK, ProcessOK, HistoryOK, WorkerShape, ExecutingIsClaimed, Executing, RowsInserted
<1>5. NeverStartedIsDue'
  BY DEF TableOK, ProcessOK, HistoryOK, WorkerShape, RunsAccounted, Executing, ExecutingJob, NeverStartedIsDue
<1>6. AttemptsLeft'
  BY DEF TableOK, ProcessOK, WorkerShape, ExecutingIsClaimed, Executing, AttemptsLeft
<1>7. RunsAccounted'
  BY DEF TableOK, ProcessOK, HistoryOK, WorkerShape, ExecutingIsClaimed, Executing, ExecutingJob, RunsAccounted
<1>8. FailedIsRolledBack'
  BY DEF TableOK, ProcessOK, HistoryOK, WorkerShape, ExecutingIsClaimed, AttemptsLeft, Executing, FailedIsRolledBack
<1>9. FirstRunsInOrder'
  BY DEF TableOK, HistoryOK, FirstRunsInOrder
<1> QED BY <1>1, <1>2, <1>3, <1>4, <1>5, <1>6, <1>7, <1>8, <1>9

\* A run that panics ends like one that returns an error.
LEMMA RunPanicsIInv ==
  IInv /\ RunPanics => IInv'
<1> SUFFICES ASSUME IInv, RunPanics PROVE IInv'
  OBVIOUS
<1> USE JobIDs, QueueAssumption DEF IInv, TypeOK, RunPanics, NewAttempts, Retry, GiveUp, Stored, NotStored, Release
<1>1. TypeOK'
  <2>1. TableOK'
    <3>1. CASE UNCHANGED <<status, attempts, due>>
      BY <3>1 DEF TableOK
    <3>2. CASE Stored("pending", NewAttempts, FALSE)
      <4>1. job \in JobID
        BY DEF WorkerShape, Executing
      <4> QED BY <3>2, <4>1 DEF TableOK, Status
    <3> QED BY <3>1, <3>2
  <2>2. ProcessOK'
    BY DEF ProcessOK
  <2>3. HistoryOK'
    BY DEF HistoryOK, ProcessOK, WorkerShape, Executing
  <2> QED BY <2>1, <2>2, <2>3
<1>2. WorkerShape'
  BY DEF ProcessOK, WorkerShape, Executing
<1>3. ExecutingIsClaimed'
  BY DEF TableOK, ProcessOK, WorkerShape, ExecutingIsClaimed, Executing
<1>4. RowsInserted'
  BY DEF TableOK, ProcessOK, HistoryOK, WorkerShape, ExecutingIsClaimed, Executing, RowsInserted
<1>5. NeverStartedIsDue'
  BY DEF TableOK, ProcessOK, HistoryOK, WorkerShape, RunsAccounted, Executing, ExecutingJob, NeverStartedIsDue
<1>6. AttemptsLeft'
  BY DEF TableOK, ProcessOK, WorkerShape, ExecutingIsClaimed, Executing, AttemptsLeft
<1>7. RunsAccounted'
  BY DEF TableOK, ProcessOK, HistoryOK, WorkerShape, ExecutingIsClaimed, Executing, ExecutingJob, RunsAccounted
<1>8. FailedIsRolledBack'
  BY DEF TableOK, ProcessOK, HistoryOK, WorkerShape, ExecutingIsClaimed, AttemptsLeft, Executing, FailedIsRolledBack
<1>9. FirstRunsInOrder'
  BY DEF TableOK, HistoryOK, FirstRunsInOrder
<1> QED BY <1>1, <1>2, <1>3, <1>4, <1>5, <1>6, <1>7, <1>8, <1>9

\* A rollback that returns is recorded before 'failed' is written.
LEMMA RollbackReturnsIInv ==
  IInv /\ RollbackReturns => IInv'
<1> SUFFICES ASSUME IInv, RollbackReturns PROVE IInv'
  OBVIOUS
<1> USE JobIDs, QueueAssumption DEF IInv, TypeOK, RollbackReturns, NewAttempts, Stored, NotStored, Release
<1>1. TypeOK'
  <2>1. TableOK'
    BY DEF TableOK, ProcessOK, Status, WorkerShape, Executing
  <2>2. ProcessOK'
    BY DEF ProcessOK
  <2>3. HistoryOK'
    BY DEF HistoryOK, ProcessOK, WorkerShape, Executing
  <2> QED BY <2>1, <2>2, <2>3
<1>2. WorkerShape'
  BY DEF ProcessOK, WorkerShape, Executing
<1>3. ExecutingIsClaimed'
  BY DEF TableOK, ProcessOK, WorkerShape, ExecutingIsClaimed, Executing
<1>4. RowsInserted'
  BY DEF TableOK, ProcessOK, HistoryOK, WorkerShape, ExecutingIsClaimed, Executing, RowsInserted
<1>5. NeverStartedIsDue'
  BY DEF TableOK, ProcessOK, HistoryOK, WorkerShape, RunsAccounted, Executing, ExecutingJob, NeverStartedIsDue
<1>6. AttemptsLeft'
  BY DEF TableOK, ProcessOK, WorkerShape, ExecutingIsClaimed, Executing, AttemptsLeft
<1>7. RunsAccounted'
  BY DEF TableOK, ProcessOK, HistoryOK, WorkerShape, ExecutingIsClaimed, Executing, ExecutingJob, RunsAccounted
<1>8. FailedIsRolledBack'
  BY DEF TableOK, ProcessOK, HistoryOK, WorkerShape, ExecutingIsClaimed, AttemptsLeft, Executing, FailedIsRolledBack
<1>9. FirstRunsInOrder'
  BY DEF TableOK, HistoryOK, FirstRunsInOrder
<1> QED BY <1>1, <1>2, <1>3, <1>4, <1>5, <1>6, <1>7, <1>8, <1>9

\* A rollback that panics is repeated once, then ends the worker.
LEMMA RollbackPanicsIInv ==
  IInv /\ RollbackPanics => IInv'
<1> SUFFICES ASSUME IInv, RollbackPanics PROVE IInv'
  OBVIOUS
<1> USE JobIDs, QueueAssumption DEF IInv, TypeOK, RollbackPanics, RollbackCrashes, table
<1>1. TypeOK'
  <2>1. TableOK'
    BY DEF TableOK, ProcessOK, Status, WorkerShape, Executing
  <2>2. ProcessOK'
    BY DEF ProcessOK
  <2>3. HistoryOK'
    BY DEF HistoryOK, ProcessOK, WorkerShape, Executing
  <2> QED BY <2>1, <2>2, <2>3
<1>2. WorkerShape'
  BY DEF ProcessOK, WorkerShape, Executing
<1>3. ExecutingIsClaimed'
  BY DEF TableOK, ProcessOK, WorkerShape, ExecutingIsClaimed, Executing
<1>4. RowsInserted'
  BY DEF TableOK, ProcessOK, HistoryOK, WorkerShape, ExecutingIsClaimed, Executing, RowsInserted
<1>5. NeverStartedIsDue'
  BY DEF TableOK, ProcessOK, HistoryOK, WorkerShape, RunsAccounted, Executing, ExecutingJob, NeverStartedIsDue
<1>6. AttemptsLeft'
  BY DEF TableOK, ProcessOK, WorkerShape, ExecutingIsClaimed, Executing, AttemptsLeft
<1>7. RunsAccounted'
  BY DEF TableOK, ProcessOK, HistoryOK, WorkerShape, ExecutingIsClaimed, Executing, ExecutingJob, RunsAccounted
<1>8. FailedIsRolledBack'
  BY DEF TableOK, ProcessOK, HistoryOK, WorkerShape, ExecutingIsClaimed, AttemptsLeft, Executing, FailedIsRolledBack
<1>9. FirstRunsInOrder'
  BY DEF TableOK, HistoryOK, FirstRunsInOrder
<1> QED BY <1>1, <1>2, <1>3, <1>4, <1>5, <1>6, <1>7, <1>8, <1>9

\* No run is in progress when start-up resets the running rows.
LEMMA ResumeOnStartupIInv ==
  IInv /\ ResumeOnStartup => IInv'
<1> SUFFICES ASSUME IInv, ResumeOnStartup PROVE IInv'
  OBVIOUS
<1> USE JobIDs, QueueAssumption DEF IInv, TypeOK, ResumeOnStartup, InterruptedRows, history
<1>1. TypeOK'
  <2>1. TableOK'
    BY DEF TableOK, ProcessOK, Status, WorkerShape, Executing
  <2>2. ProcessOK'
    BY DEF ProcessOK
  <2>3. HistoryOK'
    BY DEF HistoryOK, ProcessOK, WorkerShape, Executing
  <2> QED BY <2>1, <2>2, <2>3
<1>2. WorkerShape'
  BY DEF ProcessOK, WorkerShape, Executing
<1>3. ExecutingIsClaimed'
  BY DEF TableOK, ProcessOK, WorkerShape, ExecutingIsClaimed, Executing
<1>4. RowsInserted'
  BY DEF TableOK, ProcessOK, HistoryOK, WorkerShape, ExecutingIsClaimed, Executing, RowsInserted
<1>5. NeverStartedIsDue'
  BY DEF TableOK, ProcessOK, HistoryOK, WorkerShape, RunsAccounted, Executing, ExecutingJob, NeverStartedIsDue
<1>6. AttemptsLeft'
  BY DEF TableOK, ProcessOK, WorkerShape, ExecutingIsClaimed, Executing, AttemptsLeft
<1>7. RunsAccounted'
  BY DEF TableOK, ProcessOK, HistoryOK, WorkerShape, ExecutingIsClaimed, Executing, ExecutingJob, RunsAccounted
<1>8. FailedIsRolledBack'
  BY DEF TableOK, ProcessOK, HistoryOK, WorkerShape, ExecutingIsClaimed, AttemptsLeft, Executing, FailedIsRolledBack
<1>9. FirstRunsInOrder'
  BY DEF TableOK, HistoryOK, FirstRunsInOrder
<1> QED BY <1>1, <1>2, <1>3, <1>4, <1>5, <1>6, <1>7, <1>8, <1>9

\* A run cut short stays 'running' in the table and is counted as interrupted.
LEMMA ProcessEndsIInv ==
  IInv /\ (StopReturns \/ Crash) => IInv'
<1> SUFFICES ASSUME IInv, (StopReturns \/ Crash) PROVE IInv'
  OBVIOUS
<1> USE JobIDs, QueueAssumption DEF IInv, TypeOK, StopReturns, Crash, ProcessEnds, table
<1>1. TypeOK'
  <2>1. TableOK'
    BY DEF TableOK, ProcessOK, Status, WorkerShape, Executing
  <2>2. ProcessOK'
    BY DEF ProcessOK
  <2>3. HistoryOK'
    <3>1. interrupted' \in [JobID -> Nat]
      BY DEF HistoryOK, WorkerShape
    <3>2. faults' \in 0..MaxFaults
      <4>1. CASE StopReturns
        BY <4>1 DEF HistoryOK
      <4>2. CASE Crash
        BY <4>2 DEF HistoryOK
      <4> QED BY <4>1, <4>2
    <3> QED BY <3>1, <3>2 DEF HistoryOK
  <2> QED BY <2>1, <2>2, <2>3
<1>2. WorkerShape'
  BY DEF ProcessOK, WorkerShape, Executing
<1>3. ExecutingIsClaimed'
  BY DEF TableOK, ProcessOK, WorkerShape, ExecutingIsClaimed, Executing
<1>4. RowsInserted'
  BY DEF TableOK, ProcessOK, HistoryOK, WorkerShape, ExecutingIsClaimed, Executing, RowsInserted
<1>5. NeverStartedIsDue'
  BY DEF TableOK, ProcessOK, HistoryOK, WorkerShape, RunsAccounted, Executing, ExecutingJob, NeverStartedIsDue
<1>6. AttemptsLeft'
  BY DEF TableOK, ProcessOK, WorkerShape, ExecutingIsClaimed, Executing, AttemptsLeft
<1>7. RunsAccounted'
  BY DEF TableOK, ProcessOK, HistoryOK, WorkerShape, ExecutingIsClaimed, Executing, ExecutingJob, RunsAccounted
<1>8. FailedIsRolledBack'
  BY DEF TableOK, ProcessOK, HistoryOK, WorkerShape, ExecutingIsClaimed, AttemptsLeft, Executing, FailedIsRolledBack
<1>9. FirstRunsInOrder'
  BY DEF TableOK, HistoryOK, FirstRunsInOrder
<1> QED BY <1>1, <1>2, <1>3, <1>4, <1>5, <1>6, <1>7, <1>8, <1>9

\* A shutdown signal or a restart touches neither table nor worker.
LEMMA SupervisorIInv ==
  IInv /\ (Shutdown \/ Restart) => IInv'
<1> SUFFICES ASSUME IInv, (Shutdown \/ Restart) PROVE IInv'
  OBVIOUS
<1> USE JobIDs, QueueAssumption DEF IInv, TypeOK, Shutdown, Restart, table, worker, history
<1>1. TypeOK'
  <2>1. TableOK'
    BY DEF TableOK, ProcessOK, Status, WorkerShape, Executing
  <2>2. ProcessOK'
    BY DEF ProcessOK
  <2>3. HistoryOK'
    <3>1. CASE Shutdown
      BY <3>1 DEF HistoryOK
    <3>2. CASE Restart
      BY <3>2 DEF HistoryOK
    <3> QED BY <3>1, <3>2
  <2> QED BY <2>1, <2>2, <2>3
<1>2. WorkerShape'
  BY DEF ProcessOK, WorkerShape, Executing
<1>3. ExecutingIsClaimed'
  BY DEF TableOK, ProcessOK, WorkerShape, ExecutingIsClaimed, Executing
<1>4. RowsInserted'
  BY DEF TableOK, ProcessOK, HistoryOK, WorkerShape, ExecutingIsClaimed, Executing, RowsInserted
<1>5. NeverStartedIsDue'
  BY DEF TableOK, ProcessOK, HistoryOK, WorkerShape, RunsAccounted, Executing, ExecutingJob, NeverStartedIsDue
<1>6. AttemptsLeft'
  BY DEF TableOK, ProcessOK, WorkerShape, ExecutingIsClaimed, Executing, AttemptsLeft
<1>7. RunsAccounted'
  BY DEF TableOK, ProcessOK, HistoryOK, WorkerShape, ExecutingIsClaimed, Executing, ExecutingJob, RunsAccounted
<1>8. FailedIsRolledBack'
  BY DEF TableOK, ProcessOK, HistoryOK, WorkerShape, ExecutingIsClaimed, AttemptsLeft, Executing, FailedIsRolledBack
<1>9. FirstRunsInOrder'
  BY DEF TableOK, HistoryOK, FirstRunsInOrder
<1> QED BY <1>1, <1>2, <1>3, <1>4, <1>5, <1>6, <1>7, <1>8, <1>9

\* Every handler, worker step and fault preserves the invariant.
LEMMA NextIInv == IInv /\ [Next]_vars => IInv'
<1> SUFFICES ASSUME IInv, [Next]_vars PROVE IInv'
  OBVIOUS
<1>1. CASE UNCHANGED vars
  BY <1>1 DEF vars, table, worker, history, IInv, TypeOK, TableOK, ProcessOK, HistoryOK, WorkerShape,
    ExecutingIsClaimed, RowsInserted, NeverStartedIsDue, AttemptsLeft, RunsAccounted,
    FailedIsRolledBack, FirstRunsInOrder, Executing, ExecutingJob
<1>2. CASE Poll
  BY <1>1, <1>2 DEF Poll
<1>3. CASE \E k \in Kind : Enqueue(k)
  BY <1>3, EnqueueIInv
<1>4. CASE \E j \in JobID : DeleteTarget(j) \/ BackoffElapses(j)
  BY <1>4, DeleteTargetIInv, BackoffElapsesIInv
<1>5. CASE Claim \/ RunSucceeds \/ RunFails \/ RunPanics
  BY <1>5, ClaimIInv, RunSucceedsIInv, RunFailsIInv, RunPanicsIInv
<1>6. CASE RollbackReturns \/ RollbackPanics
  BY <1>6, RollbackReturnsIInv, RollbackPanicsIInv
<1>7. CASE ResumeOnStartup \/ Shutdown \/ StopReturns \/ Crash \/ Restart
  BY <1>7, ResumeOnStartupIInv, ProcessEndsIInv, SupervisorIInv
<1> QED BY <1>1, <1>2, <1>3, <1>4, <1>5, <1>6, <1>7 DEF Next

-----------------------------------------------------------------------------
(* The invariant holds in every reachable state, and with it the safety    *)
(* properties of the queue, whatever the number of jobs and of faults.     *)

\* The strengthened invariant of the queue is an invariant.
THEOREM Inductive == Spec => []IInv
<1>1. Init => IInv
  BY InitIInv
<1>2. IInv /\ [Next]_vars => IInv'
  BY NextIInv
<1> QED BY <1>1, <1>2, PTL DEF Spec

\* Every column, the process and the history keep their types.
THEOREM TypeCorrect == Spec => []TypeOK
<1>1. IInv => TypeOK
  BY DEF IInv
<1> QED BY <1>1, Inductive, PTL

\* No row can be claimed a second time while it is being executed.
THEOREM Exclusive == Spec => []ExecutingIsClaimed
<1>1. IInv => ExecutingIsClaimed
  BY DEF IInv
<1> QED BY <1>1, Inductive, PTL

\* Every start of a job is accounted for in the table or by a fault.
THEOREM Accounting == Spec => []RunsAccounted
<1>1. IInv => RunsAccounted
  BY DEF IInv
<1> QED BY <1>1, Inductive, PTL

\* A job is started at most MaxAttempts times plus once per interrupted run.
THEOREM Budget == Spec => []RunBudget
<1>1. IInv => RunBudget
  <2> SUFFICES ASSUME IInv, NEW j \in JobID
               PROVE  runs[j] <= MaxAttempts + interrupted[j]
    BY DEF RunBudget
  <2> USE JobIDs, QueueAssumption DEF IInv, TypeOK, TableOK, HistoryOK
  <2>1. CASE status[j] = "failed"
    <3>1. ExecutingJob # j
      BY <2>1 DEF ExecutingJob, ExecutingIsClaimed
    <3> QED BY <2>1, <3>1 DEF FailedIsRolledBack, RunsAccounted
  <2>2. CASE status[j] # "failed"
    <3>1. attempts[j] + 1 <= MaxAttempts
      BY <2>2 DEF AttemptsLeft
    <3>2. ~(ExecutingJob = j /\ status[j] = "complete")
      BY DEF ExecutingJob, ExecutingIsClaimed
    <3> QED BY <3>1, <3>2 DEF RunsAccounted
  <2> QED BY <2>1, <2>2
<1> QED BY <1>1, Inductive, PTL

\* 'failed' is only ever seen on a job whose rollback has returned.
THEOREM RolledBackFirst == Spec => []FailedIsRolledBack
<1>1. IInv => FailedIsRolledBack
  BY DEF IInv
<1> QED BY <1>1, Inductive, PTL

\* Jobs are started for the first time in the order they were enqueued.
THEOREM FirstInFirstStarted == Spec => []FirstRunsInOrder
<1>1. IInv => FirstRunsInOrder
  BY DEF IInv
<1> QED BY <1>1, Inductive, PTL

-----------------------------------------------------------------------------
(* Action properties: what a step may not do, and the abstract queue.      *)

\* Only the worker and the resume at start-up rewrite the row of a job, and
\* neither touches a row that has ended.
LEMMA FinalStep ==
  IInv /\ [Next]_vars =>
    \A j \in JobID : status[j] \in {"complete", "failed"} => status'[j] = status[j]
<1> SUFFICES ASSUME IInv, [Next]_vars, NEW j \in JobID, status[j] \in {"complete", "failed"}
             PROVE  status'[j] = status[j]
  OBVIOUS
<1> USE JobIDs, QueueAssumption DEF IInv, TypeOK, TableOK
<1>1. CASE UNCHANGED status
  BY <1>1
<1>2. CASE \E k \in Kind : Enqueue(k)
  <2>1. j # enqueued + 1
    BY <1>2 DEF RowsInserted, Enqueue, JobID
  <2> QED BY <1>2, <2>1 DEF Enqueue
<1>3. CASE Claim
  BY <1>3 DEF Claim, Oldest, Claimable
<1>4. CASE RunSucceeds \/ RunFails \/ RunPanics \/ RollbackReturns
  <2>1. job # j
    BY <1>4 DEF RunSucceeds, RunFails, RunPanics, RollbackReturns, ExecutingIsClaimed, Executing
  <2>2. CASE UNCHANGED status
    BY <2>2
  <2>3. CASE \E t \in Status : status' = [status EXCEPT ![job] = t]
    BY <2>1, <2>3
  <2>4. UNCHANGED status \/ \E t \in Status : status' = [status EXCEPT ![job] = t]
    BY <1>4 DEF RunSucceeds, RunFails, RunPanics, RollbackReturns, NewAttempts, Retry, GiveUp, Stored, NotStored, Status
  <2> QED BY <2>2, <2>3, <2>4
<1>5. CASE ResumeOnStartup
  BY <1>5 DEF ResumeOnStartup, InterruptedRows
<1>6. CASE \E i \in JobID : DeleteTarget(i) \/ BackoffElapses(i)
  BY <1>6, <1>1 DEF DeleteTarget, BackoffElapses, table
<1>7. CASE RollbackPanics \/ Shutdown \/ StopReturns \/ Crash \/ Restart \/ Poll
  BY <1>7, <1>1 DEF RollbackPanics, Shutdown, StopReturns, Crash, ProcessEnds, Restart, Poll, vars, table
<1>8. CASE UNCHANGED vars
  BY <1>8, <1>1 DEF vars, table
<1> QED BY <1>2, <1>3, <1>4, <1>5, <1>6, <1>7, <1>8 DEF Next

\* A finished job is never resurrected, neither by a resume nor by a late write.
THEOREM Final == Spec => FinishedIsFinal
<1>1. IInv /\ [Next]_vars =>
        [\A j \in JobID :
           status[j] \in {"complete", "failed"} => status'[j] = status[j]]_vars
  BY FinalStep
<1> QED BY <1>1, Inductive, PTL DEF Spec, FinishedIsFinal

Waiting == {j \in JobID : status[j] \in {"pending", "running"}} \ {ExecutingJob}
Done    == {j \in JobID : status[j] \in {"complete", "failed"}}

\* The empty table is the empty queue.
LEMMA InitPromise == Init => Promise!Init
BY JobIDs DEF Init, Promise!Init, Executing, ExecutingJob

\* The run in progress ends without finishing its job: the job waits again.
LEMMA RunGivenBack ==
  ASSUME IInv, IInv', Executing, ~Executing',
         \/ UNCHANGED status
         \/ status' = [status EXCEPT ![job] = "pending"]
  PROVE  Promise!GiveBack
<1> USE JobIDs DEF IInv, TypeOK, TableOK
<1>1. job \in JobID /\ status[job] = "running" /\ ExecutingJob = job /\ ExecutingJob' = NoJob
  BY DEF WorkerShape, ExecutingIsClaimed, ExecutingJob
<1>2. /\ status'[job] \in {"pending", "running"}
      /\ \A i \in JobID \ {job} : status'[i] = status[i]
  BY <1>1
<1>3. Waiting' = Waiting \cup {job}
  BY <1>1, <1>2, ZenonT(60) DEF Waiting
<1>4. Done' = Done
  BY <1>1, <1>2, ZenonT(60) DEF Done
<1> QED BY <1>1, <1>3, <1>4 DEF Promise!GiveBack, Waiting, Done

\* The run in progress ends with 'complete' or 'failed': the job is done.
LEMMA RunFinished ==
  ASSUME IInv, IInv', Executing, ~Executing',
         \/ status' = [status EXCEPT ![job] = "complete"]
         \/ status' = [status EXCEPT ![job] = "failed"]
  PROVE  Promise!Finish
<1> USE JobIDs DEF IInv, TypeOK, TableOK
<1>1. job \in JobID /\ status[job] = "running" /\ ExecutingJob = job /\ ExecutingJob' = NoJob
  BY DEF WorkerShape, ExecutingIsClaimed, ExecutingJob
<1>2. \/ status' = [status EXCEPT ![job] = "complete"]
      \/ status' = [status EXCEPT ![job] = "failed"]
  OBVIOUS
<1>3. /\ status'[job] \in {"complete", "failed"}
      /\ \A i \in JobID \ {job} : status'[i] = status[i]
  BY <1>1, <1>2
<1>4. Waiting' = Waiting
  BY <1>1, <1>3, ZenonT(60) DEF Waiting
<1>5. Done' = Done \cup {job}
  BY <1>1, <1>3 DEF Done
<1> QED BY <1>1, <1>4, <1>5 DEF Promise!Finish, Waiting, Done

\* Every step of table and worker is a step of the queue or leaves it alone.
LEMMA StepPromise == IInv /\ IInv' /\ [Next]_vars => [Promise!Next]_(Promise!vars)
<1> SUFFICES ASSUME IInv, IInv', [Next]_vars
             PROVE  Promise!Next \/ UNCHANGED <<Waiting, ExecutingJob, Done>>
  BY DEF Promise!vars, Waiting, Done
<1> USE JobIDs, QueueAssumption DEF IInv, TypeOK, TableOK
<1>1. CASE UNCHANGED <<status, pc, job>>
  BY <1>1 DEF Waiting, Done, Executing, ExecutingJob
<1>2. CASE \E k \in Kind : Enqueue(k)
  <2>1. PICK n \in JobID : status[n] = "absent" /\ status' = [status EXCEPT ![n] = "pending"]
    <3>1. enqueued + 1 \in JobID /\ status[enqueued + 1] = "absent"
      BY <1>2 DEF Enqueue, RowsInserted, JobID
    <3>2. status' = [status EXCEPT ![enqueued + 1] = "pending"]
      BY <1>2 DEF Enqueue
    <3> QED BY <3>1, <3>2
  <2>2. ExecutingJob' = ExecutingJob /\ ExecutingJob # n
    BY <1>2, <2>1 DEF Enqueue, worker, Executing, ExecutingJob, ExecutingIsClaimed
  <2>3. Waiting' = Waiting \cup {n} /\ Done' = Done /\ n \notin Waiting \cup Done
    BY <2>1, <2>2 DEF Waiting, Done
  <2>4. Promise!Submit(n)
    BY <2>1, <2>2, <2>3 DEF Promise!Submit, Waiting, Done
  <2> QED BY <2>1, <2>4 DEF Promise!Next
<1>3. CASE Claim
  <2>1. PICK j \in JobID : Claimable(j) /\ status' = [status EXCEPT ![j] = "running"] /\ job' = j
    BY <1>3 DEF Claim, Oldest
  <2>2. ExecutingJob = NoJob /\ ExecutingJob' = j
    BY <1>3, <2>1 DEF Claim, Executing, ExecutingJob
  <2>3. Waiting' = Waiting \ {j} /\ Done' = Done /\ j \in Waiting
    BY <2>1, <2>2 DEF Waiting, Done, Claimable
  <2>4. Promise!Begin(j)
    BY <2>2, <2>3 DEF Promise!Begin, Waiting, Done
  <2> QED BY <2>4 DEF Promise!Next
<1>4. CASE RunSucceeds \/ RunFails \/ RunPanics \/ RollbackReturns
  <2>1. Executing
    BY <1>4 DEF RunSucceeds, RunFails, RunPanics, RollbackReturns, Executing
  <2>2. CASE pc' = "rollback"
    <3>1. UNCHANGED <<status, job>>
      BY <1>4, <2>2 DEF RunSucceeds, RunFails, RunPanics, RollbackReturns, Retry, GiveUp, Release
    <3>2. ExecutingJob' = ExecutingJob
      BY <2>1, <2>2, <3>1 DEF Executing, ExecutingJob
    <3> QED BY <3>1, <3>2 DEF Waiting, Done
  <2>3. CASE pc' = "idle"
    <3>1. ~Executing'
      BY <2>3 DEF Executing
    <3>2. \/ UNCHANGED status
          \/ \E t \in {"pending", "complete", "failed"} : status' = [status EXCEPT ![job] = t]
      BY <1>4 DEF RunSucceeds, RunFails, RunPanics, RollbackReturns, NewAttempts, Retry, GiveUp, Stored, NotStored
    <3>3. Promise!GiveBack \/ Promise!Finish
      BY <2>1, <3>1, <3>2, RunGivenBack, RunFinished
    <3> QED BY <3>3 DEF Promise!Next
  <2>4. pc' = "idle" \/ pc' = "rollback"
    BY <1>4 DEF RunSucceeds, RunFails, RunPanics, RollbackReturns, Retry, GiveUp, Release
  <2> QED BY <2>2, <2>3, <2>4
<1>5. CASE RollbackPanics
  <2>1. Executing /\ UNCHANGED status
    BY <1>5 DEF RollbackPanics, Executing, table
  <2>2. CASE UNCHANGED <<pc, job>>
    BY <1>1, <2>1, <2>2
  <2>3. CASE pc' = "dead"
    <3>1. Promise!GiveBack
      BY <2>1, <2>3, RunGivenBack DEF Executing
    <3> QED BY <3>1 DEF Promise!Next
  <2> QED BY <1>5, <2>2, <2>3 DEF RollbackPanics
<1>6. CASE ResumeOnStartup
  <2>1. ~Executing /\ ~Executing'
    BY <1>6 DEF ResumeOnStartup, WorkerShape, Executing
  <2> QED BY <1>6, <2>1 DEF ResumeOnStartup, InterruptedRows, ExecutingJob, Waiting, Done
<1>7. CASE StopReturns \/ Crash
  <2>1. UNCHANGED status /\ ~Executing' /\ job' = NoJob
    BY <1>7 DEF StopReturns, Crash, ProcessEnds, Executing, table
  <2>2. CASE Executing
    <3>1. Promise!GiveBack
      BY <2>1, <2>2, RunGivenBack
    <3> QED BY <3>1 DEF Promise!Next
  <2>3. CASE ~Executing
    BY <2>1, <2>3 DEF ExecutingJob, Waiting, Done
  <2> QED BY <2>2, <2>3
<1>8. CASE \E i \in JobID : DeleteTarget(i) \/ BackoffElapses(i)
  BY <1>8, <1>1 DEF DeleteTarget, BackoffElapses, table, worker
<1>9. CASE Shutdown \/ Restart \/ Poll \/ UNCHANGED vars
  BY <1>9, <1>1 DEF Shutdown, Restart, Poll, vars, table, worker
<1> QED BY <1>2, <1>3, <1>4, <1>5, <1>6, <1>7, <1>8, <1>9 DEF Next

\* The jobs table and its worker implement the abstract one-at-a-time queue:
\* nothing is lost, worked on twice at once, or taken up again once done.
THEOREM Refinement == Spec => ImplementsWorkQueue
<1>1. Init => Promise!Init
  BY InitPromise
<1>2. IInv /\ IInv' /\ [Next]_vars => [Promise!Next]_(Promise!vars)
  BY StepPromise
<1> QED BY <1>1, <1>2, Inductive, PTL DEF Spec, ImplementsWorkQueue, Promise!Spec

=============================================================================
