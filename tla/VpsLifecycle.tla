---------------------------- MODULE VpsLifecycle ----------------------------
(***************************************************************************)
(* One VPS from its creation to its deletion: its row                      *)
(* (internal/repository/vps.go), the worker that provisions, rolls back    *)
(* and terminates it (ProvisionVPS, RollbackVPS and TerminateInstance of   *)
(* internal/service/provision.go, as called by the job queue and, at       *)
(* start-up, by reconcile.go), the HTTP requests of its users and the      *)
(* goroutines that restart and reset it, all working on the same row and   *)
(* the same cloud.                                                         *)
(*                                                                         *)
(* Of the row status, oci_instance_id, nsg_id and whether there is an      *)
(* ssh_private_key are kept; its vps_resources rows are left out: they are *)
(* written and never read.                                                 *)
(* Two writes in a row are one step when nothing but the second failing,   *)
(* or a crash, can come between them to any effect: the step then has an   *)
(* alternative in which the second is lost.                                *)
(* A definition marked "mutant" is a wrong variant of the one after it,    *)
(* which Spec does not use.                                                *)
(***************************************************************************)
EXTENDS Naturals, FiniteSets, FiniteSetsExt

CONSTANTS
  Users,          \* HTTP requests, and goroutines they leave, at one time
  Ops,            \* what the users may ask for: see Op
  MaxTerminates,  \* bound: termination jobs ever enqueued
  MaxAttempts,    \* the job queue's limit (3 in the code)
  Events,         \* what may go wrong: see Event
  MaxFaults       \* bound: faults, altogether

Op == {"terminate", "delete", "start", "stop", "restart", "reset", "refresh"}

\* "oci": a cloud or SSH call fails or times out; "db": a database call fails,
\* or the client it serves has gone; "crash": the process dies or is stopped.
Event == {"oci", "db", "crash"}

ASSUME VpsAssumption ==
  /\ IsFiniteSet(Users)
  /\ Ops \subseteq Op
  /\ MaxTerminates \in Nat
  /\ MaxAttempts \in Nat \ {0}
  /\ Events \subseteq Event
  /\ MaxFaults \in Nat

\* Job 1 provisions the VPS, every other one terminates it.
Job == 1..(1 + MaxTerminates)

\* Every run of job 1 launches one instance at most, and is the last one,
\* costs an attempt or is cut short by a fault.
Id == 1..(MaxAttempts + MaxFaults)

None == 0

VARIABLES
  row,        \* the vps row: exists, status, inst, nsg, key
  instances,  \* the cloud's instances: state, and the NSG of their VNIC
  nsgs,       \* the cloud's network security groups
  jobs,       \* state, attempts and, of a termination, the instance
  phase,      \* "boot" (reconciling), "serving"
  w,          \* the worker (at start-up: the goroutine that reconciles)
  op,         \* the request, or goroutine, of each user
  faults      \* faults so far

cloud == <<instances, nsgs>>
vars  == <<row, instances, nsgs, jobs, phase, w, op, faults>>

Status == {"pending", "provisioning", "running", "failed", "terminating",
           "terminated", "stopped", "restarting", "resetting"}

InstanceState == {"none", "booting", "running", "stopped", "terminating",
                  "terminated"}

Idle == [pc |-> "idle", job |-> 1, inst |-> None, nsg |-> None,
         key |-> FALSE, after |-> "none"]

Off == [pc |-> "off", kind |-> "start", inst |-> None, prev |-> "pending",
        nsg |-> None, key |-> FALSE]

\* The row once it is deleted, of which only exists is ever looked at.
NoRow == [exists |-> FALSE, status |-> "terminated", inst |-> None,
          nsg |-> None, key |-> FALSE]

\* Every column, the cloud, the worker and the users have the values they may.
TypeOK ==
  /\ row \in [exists : BOOLEAN, status : Status,
              inst : Id \cup {None}, nsg : Id \cup {None}, key : BOOLEAN]
  /\ instances \in [Id -> [state : InstanceState, nsg : Id \cup {None}]]
  /\ nsgs \in [Id -> {"none", "live", "gone"}]
  /\ jobs \in [Job -> [state : {"absent", "pending", "running", "complete",
                                "failed"},
                       attempts : 0..MaxAttempts, inst : Id \cup {None}]]
  /\ phase \in {"boot", "serving"}
  /\ w \in [pc : {"idle", "begin", "create_nsg", "save_nsg", "rules",
                  "drop_nsg", "clear_nsg", "mark_failed", "launch", "save_instance", "wait", "finish",
                  "terminate", "gone", "unhook", "terminated", "unhook_again",
                  "rolled_back", "error", "given_up", "complete", "resume",
                  "dead"},
            job : Job, inst : Id \cup {None}, nsg : Id \cup {None},
            key : BOOLEAN,
            after : {"none", "complete", "error", "give_up", "serve"}]
  /\ op \in [Users ->
              [pc : {"off", "mark", "enqueue", "act", "wait", "settle",
                     "erase", "enqueue_first", "ips", "write_back"},
               kind : Op, inst : Id \cup {None}, prev : Status,
               nsg : Id \cup {None}, key : BOOLEAN]]
  /\ faults \in 0..MaxFaults

\* HandleCreateVPS has inserted the row and is about to enqueue its job.
Init ==
  /\ row = [exists |-> TRUE, status |-> "pending", inst |-> None,
            nsg |-> None, key |-> FALSE]
  /\ instances = [i \in Id |-> [state |-> "none", nsg |-> None]]
  /\ nsgs = [n \in Id |-> "none"]
  /\ jobs = [j \in Job |-> [state |-> "absent", attempts |-> 0, inst |-> None]]
  /\ phase = "serving"
  /\ w = Idle
  /\ \E u \in Users :
       op = [v \in Users |-> IF v = u THEN [Off EXCEPT !.pc = "enqueue_first"]
                                      ELSE Off]
  /\ faults = 0

Fault(e) ==
  /\ e \in Events
  /\ faults < MaxFaults
  /\ faults' = faults + 1

NoFault == UNCHANGED faults

-----------------------------------------------------------------------------
(* The row.  An UPDATE changes nothing once the row is deleted.            *)

Written(r) == row' = IF row.exists THEN r ELSE row

\* UpdateStatus.
StatusSet(s) == Written([row EXCEPT !.status = s])

-----------------------------------------------------------------------------
(* The cloud, which the code reaches through the OCI SDK.                  *)

Fresh(f) == Min({i \in Id : f[i] = "none"})

FreshInstance == Fresh([i \in Id |-> instances[i].state])

Launched(n) ==
  instances' = [instances EXCEPT ![FreshInstance] =
                  [state |-> "booting", nsg |-> n]]

InState(i, s) == i # None /\ instances[i].state \in s

Dead == {"terminating", "terminated"}

\* An instance that exists and that nobody has asked to terminate.
Alive == {i \in Id : instances[i].state \notin Dead \cup {"none"}}

\* An NSG is refused its deletion while an instance has a VNIC in it.
Deletable(n) ==
  /\ nsgs[n] = "live"
  /\ \A i \in Id : instances[i].nsg = n =>
                     instances[i].state \in {"none", "terminated"}

\* The states an instance accepts an InstanceAction in, and the state the
\* action leads to.
Accepts(k) == CASE k = "start" -> {"stopped"}
                [] k = "reset" -> {"booting", "running", "stopped"}
                [] OTHER -> {"booting", "running"}

Leads(k) == IF k = "stop" THEN "stopped" ELSE "booting"

\* An instance boots, a terminating one ends.
CloudStep(from, to) ==
  /\ \E i \in Id : /\ instances[i].state = from
                   /\ instances' = [instances EXCEPT ![i].state = to]
  /\ UNCHANGED <<row, nsgs, jobs, phase, w, op, faults>>

Boots == CloudStep("booting", "running")
Ends  == CloudStep("terminating", "terminated")

-----------------------------------------------------------------------------
(* The worker: ProvisionVPS.                                               *)

\* processOneJob takes the oldest pending job that is not backing off.  When a
\* backoff ends is not modelled: a retried job may be due or not.
Due(j) == \A i \in Job : i < j /\ jobs[i].state = "pending" =>
                           jobs[i].attempts > 0

JobSet(s, a) ==
  jobs' = [jobs EXCEPT ![w.job].state = s, ![w.job].attempts = a]

Goto(pc) == w' = [w EXCEPT !.pc = pc]

Claim ==
  /\ phase = "serving"
  /\ w.pc = "idle"
  /\ \E j \in Job :
       /\ jobs[j].state = "pending"
       /\ Due(j)
       /\ jobs' = [jobs EXCEPT ![j].state = "running"]
       /\ w' = IF j = 1
                 THEN [Idle EXCEPT !.pc = "begin"]
                 ELSE [Idle EXCEPT !.pc = "terminate", !.job = j,
                         !.inst = jobs[j].inst, !.after = "complete"]
  /\ UNCHANGED <<row, cloud, phase, op, faults>>

\* Up to the creation of the NSG.  A failure leaves the row as it is or marks
\* it 'failed'.
Begin ==
  /\ w.pc = "begin"
  /\ \/ ~row.exists /\ Goto("error") /\ NoFault /\ UNCHANGED row
     \/ /\ row.exists
        /\ StatusSet("provisioning")
        /\ w' = [w EXCEPT !.pc = "create_nsg", !.key = row.key]
        /\ NoFault
     \/ Fault("db") /\ Goto("error") /\ UNCHANGED row
     \/ /\ row.exists
        /\ Fault("db")
        /\ StatusSet("failed")
        /\ Goto("error")
  /\ UNCHANGED <<cloud, jobs, phase, op>>

\* CreateNSG; its failure may hide an NSG that was created.
CreateNSG ==
  LET n == Fresh(nsgs)
      Created == nsgs' = [nsgs EXCEPT ![n] = "live"]
  IN
  /\ w.pc = "create_nsg"
  /\ \/ /\ Created
        /\ w' = [w EXCEPT !.pc = "save_nsg", !.nsg = n]
        /\ NoFault
        /\ UNCHANGED row
     \/ /\ Fault("oci")
        /\ Created \/ UNCHANGED nsgs
        /\ StatusSet("failed")
        /\ Goto("error")
  /\ UNCHANGED <<instances, jobs, phase, op>>

\* UpdateNSGID, whose failure is logged.
SaveNSG ==
  /\ w.pc = "save_nsg"
  /\ Goto("rules")
  /\ \/ Written([row EXCEPT !.nsg = w.nsg]) /\ NoFault
     \/ Fault("db") /\ UNCHANGED row
  /\ UNCHANGED <<cloud, jobs, phase, op>>

\* AddNSGRules.
AddRules ==
  /\ w.pc = "rules"
  /\ \/ Goto("launch") /\ NoFault
     \/ Goto("drop_nsg") /\ Fault("oci")
  /\ UNCHANGED <<row, cloud, jobs, phase, op>>

\* It failed: DeleteNSG, UpdateNSGID and UpdateStatus, none of them checked.
DropNSG ==
  /\ w.pc = "drop_nsg"
  /\ \/ nsgs' = [nsgs EXCEPT ![w.nsg] = "gone"] /\ NoFault
     \/ Fault("oci") /\ UNCHANGED nsgs
  /\ Goto("clear_nsg")
  /\ UNCHANGED <<row, instances, jobs, phase, op>>

ClearNSG ==
  /\ w.pc = "clear_nsg"
  /\ \/ Written([row EXCEPT !.nsg = None]) /\ NoFault
     \/ Fault("db") /\ UNCHANGED row
  /\ Goto("mark_failed")
  /\ UNCHANGED <<cloud, jobs, phase, op>>

MarkVPSFailed ==
  /\ w.pc = "mark_failed"
  /\ \/ StatusSet("failed") /\ NoFault
     \/ Fault("db") /\ UNCHANGED row
  /\ Goto("error")
  /\ UNCHANGED <<cloud, jobs, phase, op>>

\* mutant: the instance is left to itself
UnhookOnly(i, after) ==
  w' = [w EXCEPT !.pc = "unhook_again", !.inst = i, !.after = after]

\* RollbackVPS(i) begins; what follows it is "after".
RollbackBegins(i, after) ==
  w' = [w EXCEPT !.pc = IF i = None THEN "unhook_again" ELSE "terminate",
                 !.inst = i, !.after = after]

\* LaunchInstance; its failure may hide an instance that was launched.
Launch ==
  /\ w.pc = "launch"
  /\ \/ /\ Launched(w.nsg)
        /\ w' = [w EXCEPT !.pc = "save_instance", !.inst = FreshInstance]
        /\ NoFault
     \/ /\ Fault("oci")
        /\ Launched(w.nsg) \/ UNCHANGED instances
        /\ RollbackBegins(None, "error")
  /\ UNCHANGED <<row, nsgs, jobs, phase, op>>

\* mutant: the copy was read before the NSG was created
RowUpdateStale(st, key) ==
  Written([row EXCEPT !.inst = w.inst, !.nsg = None, !.key = key, !.status = st])

\* mutant: the new instance is not copied
RowUpdateStatus(st, key) == Written([row EXCEPT !.key = key, !.status = st])

\* Update writes every column of the row from the copy the worker has kept
\* since it read it.
RowUpdate(st, key) ==
  Written([row EXCEPT !.inst = w.inst, !.nsg = w.nsg, !.key = key, !.status = st])

\* The instance is recorded.  A failure ends the run without a rollback.
SaveInstance ==
  /\ w.pc = "save_instance"
  /\ \/ RowUpdate("provisioning", w.key) /\ Goto("wait") /\ NoFault
     \/ Fault("db") /\ Goto("error") /\ UNCHANGED row
  /\ UNCHANGED <<cloud, jobs, phase, op>>

\* The failure of a run that has an instance.
FailRun == RollbackBegins(w.inst, "error")

\* waitForRunning, the IP addresses and the SSH user (20 attempts).
WaitRunning ==
  /\ w.pc = "wait"
  /\ \/ InState(w.inst, {"running"}) /\ Goto("finish") /\ NoFault
     \/ InState(w.inst, Dead \cup {"stopped"}) /\ FailRun /\ NoFault
     \/ Fault("oci") /\ FailRun
  /\ UNCHANGED <<row, cloud, jobs, phase, op>>

\* The last Update, with the credentials.  Its failure, too, ends the run without a rollback.
Finish ==
  /\ w.pc = "finish"
  /\ \/ RowUpdate("running", TRUE) /\ Goto("complete") /\ NoFault
     \/ Fault("db") /\ Goto("error") /\ UNCHANGED row
  /\ UNCHANGED <<cloud, jobs, phase, op>>

-----------------------------------------------------------------------------
(* The worker: TerminateInstance and RollbackVPS, which calls it.          *)

\* What follows TerminateInstance: of a termination job, the end of the run;
\* in RollbackVPS, a second try at the NSG.
ThenGoto(pc) == Goto(IF w.after = "complete" THEN pc ELSE "unhook_again")

\* OCI's TerminateInstance.  When it fails the row says 'running', whatever it
\* said before.
Terminate ==
  /\ w.pc = "terminate"
  /\ \/ /\ instances' = [instances EXCEPT ![w.inst].state =
                           IF @ = "terminated" THEN @ ELSE "terminating"]
        /\ Goto("gone")
        /\ NoFault
        /\ UNCHANGED row
     \/ /\ Fault("oci")
        /\ StatusSet("running")
        /\ ThenGoto("error")
        /\ UNCHANGED instances
  /\ UNCHANGED <<nsgs, jobs, phase, op>>

\* waitForInstanceTerminated: giving up is only logged.
WaitTerminated ==
  /\ w.pc = "gone"
  /\ \/ InState(w.inst, {"terminated"}) /\ NoFault
     \/ Fault("oci")
  /\ Goto("unhook")
  /\ UNCHANGED <<row, cloud, jobs, phase, op>>

\* The row is read again and its NSG deleted; a failure is logged.
TryDeleteNSG ==
  \/ /\ Deletable(row.nsg)
     /\ nsgs' = [nsgs EXCEPT ![row.nsg] = "gone"]
     /\ \/ Written([row EXCEPT !.nsg = None]) /\ NoFault
        \/ Fault("db") /\ UNCHANGED row
  \/ ~Deletable(row.nsg) /\ NoFault /\ UNCHANGED <<row, nsgs>>
  \/ Deletable(row.nsg) /\ Fault("oci") /\ UNCHANGED <<row, nsgs>>
  \/ Deletable(row.nsg) /\ Fault("db") /\ UNCHANGED <<row, nsgs>>

\* In TerminateInstance, and again at the end of RollbackVPS.  The deleted row
\* is a nil pointer: the panic is an error of the run or, when the run was over
\* and its job given up, kills the worker.
Unhook ==
  /\ w.pc \in {"unhook", "unhook_again"}
  /\ \/ /\ row.exists
        /\ row.nsg # None
        /\ TryDeleteNSG
        /\ Goto(IF w.pc = "unhook" THEN "terminated" ELSE "rolled_back")
     \/ /\ row.exists
        /\ row.nsg = None
        /\ Goto(IF w.pc = "unhook" THEN "terminated" ELSE "rolled_back")
        /\ NoFault
        /\ UNCHANGED <<row, nsgs>>
     \/ /\ ~row.exists
        /\ Goto(IF w.after = "give_up" THEN "dead" ELSE "error")
        /\ NoFault
        /\ UNCHANGED <<row, nsgs>>
  /\ UNCHANGED <<instances, jobs, phase, op>>

\* TerminateInstance ends; a failure to write is logged.
Terminated ==
  /\ w.pc = "terminated"
  /\ \/ StatusSet("terminated") /\ NoFault
     \/ Fault("db") /\ UNCHANGED row
  /\ ThenGoto("complete")
  /\ UNCHANGED <<cloud, jobs, phase, op>>

\* RollbackVPS ends, and with it the run, the job or the reconciliation.
RolledBack ==
  /\ w.pc = "rolled_back"
  /\ \/ StatusSet("failed") /\ NoFault
     \/ Fault("db") /\ UNCHANGED row
  /\ Goto(CASE w.after = "error" -> "error"
            [] w.after = "give_up" -> "given_up"
            [] w.after = "serve" -> "resume")
  /\ UNCHANGED <<cloud, jobs, phase, op>>

-----------------------------------------------------------------------------
(* The worker: the end of a run.                                           *)

\* markComplete, whose failure is logged.
MarkComplete ==
  /\ w.pc = "complete"
  /\ \/ JobSet("complete", jobs[w.job].attempts) /\ NoFault
     \/ Fault("db") /\ UNCHANGED jobs
  /\ w' = Idle
  /\ UNCHANGED <<row, cloud, phase, op>>

\* triggerRollback of a termination only logs; of a VPS with no instance, too.
NoRollback == w.job # 1 \/ (row.exists /\ row.inst = None)

\* markFailed and triggerRollback, which dereferences a deleted row's nil: the
\* second panic is not recovered by the job but by the worker, which ends.
MarkFailed ==
  LET a == jobs[w.job].attempts + 1 IN
  /\ w.pc = "error"
  /\ \/ a < MaxAttempts /\ JobSet("pending", a) /\ w' = Idle /\ NoFault
     \/ a < MaxAttempts /\ Fault("db") /\ w' = Idle /\ UNCHANGED jobs
     \/ /\ a >= MaxAttempts
        /\ CASE NoRollback -> Goto("given_up")
             [] ~NoRollback /\ row.exists -> RollbackBegins(row.inst, "give_up")
             [] ~NoRollback /\ ~row.exists -> Goto("dead")
        /\ NoFault
        /\ UNCHANGED jobs
     \/ a >= MaxAttempts /\ Fault("db") /\ Goto("given_up") /\ UNCHANGED jobs
  /\ UNCHANGED <<row, cloud, phase, op>>

\* The job is marked 'failed'; a failure to is logged.
GiveUp ==
  /\ w.pc = "given_up"
  /\ \/ JobSet("failed", MaxAttempts) /\ NoFault
     \/ Fault("db") /\ UNCHANGED jobs
  /\ w' = Idle
  /\ UNCHANGED <<row, cloud, phase, op>>

Worker ==
  \/ Claim \/ Begin \/ CreateNSG \/ SaveNSG \/ AddRules \/ DropNSG
  \/ ClearNSG \/ MarkVPSFailed \/ Launch \/ SaveInstance \/ WaitRunning
  \/ Finish \/ Terminate \/ WaitTerminated \/ Unhook \/ Terminated
  \/ RolledBack \/ MarkComplete \/ MarkFailed \/ GiveUp

-----------------------------------------------------------------------------
(* The process dies, starts again and reconciles the VPS.                  *)

\* Instances boot and end without it.
Crash ==
  /\ Fault("crash")
  /\ phase' = "boot"
  /\ w' = Idle
  /\ op' = [u \in Users |-> Off]
  /\ UNCHANGED <<row, cloud, jobs>>

\* ReconcileOnStartup lists the VPSs that are pending or provisioning.
Stuck == row.exists /\ row.status \in {"pending", "provisioning"}

\* reconcileVPS, for what it finds of the instance.  An instance that boots is
\* left alone; a failing GetInstance, for whatever reason, rolls it back.
Reconcile ==
  /\ phase = "boot"
  /\ w.pc = "idle"
  /\ \/ /\ Stuck
        /\ CASE row.inst = None -> StatusSet("pending")
             [] InState(row.inst, {"running"}) -> StatusSet("running")
             [] InState(row.inst, Dead) -> StatusSet("terminated")
             [] InState(row.inst, {"booting", "stopped"}) -> UNCHANGED row
        /\ Goto("resume")
        /\ NoFault
     \/ /\ Stuck
        /\ row.inst # None
        /\ Fault("oci")
        /\ RollbackBegins(row.inst, "serve")
        /\ UNCHANGED row
     \/ ~Stuck /\ Goto("resume") /\ NoFault /\ UNCHANGED row
     \/ Stuck /\ Fault("db") /\ Goto("resume") /\ UNCHANGED row
  /\ UNCHANGED <<cloud, jobs, phase, op>>

\* mutant: interrupted jobs stay 'running'
LeftRunning == jobs

\* mutant: a status the queue does not know
ResumedQueued ==
  [j \in Job |-> IF jobs[j].state = "running"
                   THEN [jobs[j] EXCEPT !.state = "queued"] ELSE jobs[j]]

\* ResumeOnStartup: interrupted jobs are due again.
Resumed ==
  [j \in Job |-> IF jobs[j].state = "running"
                   THEN [jobs[j] EXCEPT !.state = "pending"] ELSE jobs[j]]

\* ResumeOnStartup, whose failure is logged, then the queue and the server.
Serve ==
  /\ phase = "boot"
  /\ w.pc = "resume"
  /\ \/ jobs' = Resumed /\ NoFault
     \/ Fault("db") /\ UNCHANGED jobs
  /\ phase' = "serving"
  /\ w' = Idle
  /\ UNCHANGED <<row, cloud, op>>

-----------------------------------------------------------------------------
(* The requests of the users.                                              *)

OpSet(u, o) == op' = [op EXCEPT ![u] = o]

OpGoto(u, pc) == op' = [op EXCEPT ![u].pc = pc]

Done(u) == OpSet(u, Off)

\* HandleCreateVPS: a failing Enqueue is only logged.
EnqueueFirst(u) ==
  /\ op[u].pc = "enqueue_first"
  /\ \/ jobs' = [jobs EXCEPT ![1].state = "pending"] /\ NoFault
     \/ Fault("db") /\ UNCHANGED jobs
  /\ Done(u)
  /\ UNCHANGED <<row, cloud, phase, w>>

\* The statuses in which the handler, or the service, accepts a request.
Accepted(k) ==
  CASE k = "terminate" -> Status \ {"terminating", "terminated"}
    [] k = "delete" -> {"terminated"}
    [] k = "start" -> {"stopped"}
    [] k \in {"stop", "restart"} -> {"running"}
    [] k = "reset" -> {"running", "stopped"}
    [] k = "refresh" -> Status

FirstPc(k) == CASE k = "delete" -> "erase"
                [] k \in {"start", "stop"} -> "act"
                [] k = "refresh" -> "ips"
                [] OTHER -> "mark"

\* The bound on terminations, the requests under way counted.
MayTerminate ==
  Cardinality({u \in Users : op[u].pc # "off" /\ op[u].kind = "terminate"})
    < Cardinality({j \in Job \ {1} : jobs[j].state = "absent"})

\* The request reads the row and decides from it.
Ask(u) ==
  /\ phase = "serving"
  /\ op[u].pc = "off"
  /\ row.exists
  /\ \E k \in Ops :
       /\ row.status \in Accepted(k)
       /\ k \in {"terminate", "delete"} \/ row.inst # None
       /\ k = "terminate" => MayTerminate
       /\ OpSet(u, [pc |-> FirstPc(k), kind |-> k, inst |-> row.inst,
                    prev |-> row.status,
                    nsg |-> IF k = "refresh" THEN row.nsg ELSE None,
                    key |-> k = "refresh" /\ row.key])
  /\ UNCHANGED <<row, cloud, jobs, phase, w, faults>>

\* The status of work in progress.
Mark(u) ==
  /\ op[u].pc = "mark"
  /\ \/ /\ StatusSet(CASE op[u].kind = "terminate" -> "terminating"
                       [] op[u].kind = "restart" -> "restarting"
                       [] op[u].kind = "reset" -> "resetting")
        /\ OpGoto(u, IF op[u].kind = "terminate" THEN "enqueue" ELSE "act")
        /\ NoFault
     \/ Fault("db") /\ Done(u) /\ UNCHANGED row
  /\ UNCHANGED <<cloud, jobs, phase, w>>

\* mutant: nothing to terminate, nothing to write
StillTerminating == UNCHANGED row

\* There is no instance to terminate.
EndedAtOnce == StatusSet("terminated")

\* HandleTerminateVPS: a job for the instance it has read or, if it has read
\* none, 'terminated' at once.  The status goes back if there is to be no job.
Enqueue(u) ==
  LET j == Min({i \in Job \ {1} : jobs[i].state = "absent"}) IN
  /\ op[u].pc = "enqueue"
  /\ \/ /\ op[u].inst # None
        /\ row.exists
        /\ jobs' = [jobs EXCEPT ![j] = [state |-> "pending", attempts |-> 0,
                                        inst |-> op[u].inst]]
        /\ NoFault
        /\ UNCHANGED row
     \/ op[u].inst # None /\ ~row.exists /\ NoFault /\ UNCHANGED <<row, jobs>>
     \/ /\ op[u].inst # None
        /\ Fault("db")
        /\ StatusSet(op[u].prev) \/ UNCHANGED row
        /\ UNCHANGED jobs
     \/ /\ op[u].inst = None
        /\ \/ EndedAtOnce /\ NoFault
           \/ Fault("db") /\ UNCHANGED row
        /\ UNCHANGED jobs
  /\ Done(u)
  /\ UNCHANGED <<cloud, phase, w>>

\* mutant: the goroutine returns the error to nobody
NoOpRollback(u) == Done(u)

\* doRestartRollback, doResetRollback: the status goes back.
OpRollback(u) == OpGoto(u, "settle")

\* InstanceAction.  Start and stop then write the new status, if it was
\* accepted; the goroutine of a restart or a reset waits for the instance or, if
\* it was refused, writes the status it found.
Act(u) ==
  LET k == op[u].kind
      Takes == InState(op[u].inst, Accepts(k))
      Waits == k \in {"restart", "reset"}
  IN
  /\ op[u].pc = "act"
  /\ \/ /\ Takes
        /\ instances' = [instances EXCEPT ![op[u].inst].state = Leads(k)]
        /\ IF Waits
             THEN OpGoto(u, "wait")
             ELSE OpSet(u, [op[u] EXCEPT !.pc = "settle",
                              !.prev = IF k = "stop" THEN "stopped"
                                                     ELSE "running"])
        /\ NoFault
     \/ /\ \/ ~Takes /\ NoFault
           \/ Takes /\ Fault("oci")
        /\ IF Waits THEN OpRollback(u) ELSE Done(u)
        /\ UNCHANGED instances
  /\ UNCHANGED <<row, nsgs, jobs, phase, w>>

\* waitForRestartRunning, waitForResetRunning: until the instance runs, is
\* terminated, or the deadline passes.
WaitBack(u) ==
  /\ op[u].pc = "wait"
  /\ \/ /\ InState(op[u].inst, {"running"})
        /\ OpSet(u, [op[u] EXCEPT !.pc = "settle", !.prev = "running"])
        /\ NoFault
     \/ /\ \/ InState(op[u].inst, Dead \cup {"stopped"}) /\ NoFault
           \/ InState(op[u].inst, {"booting"}) /\ Fault("oci")
        /\ OpRollback(u)
  /\ UNCHANGED <<row, cloud, jobs, phase, w>>

\* The status at the end; a failure to write it is not handled.
Settle(u) ==
  /\ op[u].pc = "settle"
  /\ \/ StatusSet(op[u].prev) /\ NoFault
     \/ Fault("db") /\ UNCHANGED row
  /\ Done(u)
  /\ UNCHANGED <<cloud, jobs, phase, w>>

\* HandleDeleteVPS.
Erase(u) ==
  /\ op[u].pc = "erase"
  /\ \/ row' = NoRow /\ NoFault
     \/ Fault("db") /\ UNCHANGED row
  /\ Done(u)
  /\ UNCHANGED <<cloud, jobs, phase, w>>

\* RefreshInstanceIPs: the addresses of the instance have changed, or the row
\* has none yet, or there is nothing to write.  One that is terminating still has
\* its network interface.
RefreshIPs(u) ==
  /\ op[u].pc = "ips"
  /\ \/ ~InState(op[u].inst, {"none", "terminated"}) /\ OpGoto(u, "write_back")
     \/ Done(u)
  /\ UNCHANGED <<row, cloud, jobs, phase, w, faults>>

\* Update writes them, with every other column as it was when it was read.
WriteBack(u) ==
  /\ op[u].pc = "write_back"
  /\ \/ /\ Written([row EXCEPT !.status = op[u].prev, !.inst = op[u].inst,
                                !.nsg = op[u].nsg, !.key = op[u].key])
        /\ NoFault
     \/ Fault("db") /\ UNCHANGED row
  /\ Done(u)
  /\ UNCHANGED <<cloud, jobs, phase, w>>

OpStep(u) ==
  \/ EnqueueFirst(u) \/ Mark(u) \/ Enqueue(u) \/ Act(u) \/ WaitBack(u)
  \/ Settle(u) \/ Erase(u) \/ RefreshIPs(u) \/ WriteBack(u)

Next ==
  \/ Worker \/ Crash \/ Reconcile \/ Serve \/ Boots \/ Ends
  \/ \E u \in Users : Ask(u) \/ OpStep(u)

Spec == Init /\ [][Next]_vars

\* The worker and the goroutines run on, the process starts, and every wait for
\* the cloud ends: it answers, or the wait's deadline passes, which is a fault.
\* waitForRunning polls until its deadline and so ends even if requests keep
\* changing the instance's state between two polls.
FairSpec ==
  /\ Spec
  /\ WF_vars(Worker)
  /\ SF_vars(WaitRunning)
  /\ WF_vars(Reconcile \/ Serve)
  /\ WF_vars(Boots)
  /\ WF_vars(Ends)
  /\ \A u \in Users : WF_vars(OpStep(u))

-----------------------------------------------------------------------------
(* What should hold.                                                       *)

\* The worker that has an instance in hand, from its launch to the end of the
\* run, and the instance.
InHand ==
  IF w.pc \in {"save_instance", "wait", "finish", "terminate"}
    THEN {w.inst} ELSE {}

\* A termination that is yet to be done names its instance.
ToTerminate == {jobs[j].inst : j \in {i \in Job : jobs[i].state \in {"pending", "running"}}}

RowHas == IF row.exists THEN {row.inst} ELSE {}

\* An instance is paid for until it is terminated, and can be terminated from
\* the dashboard only if the row, the worker or a termination job knows it.
\* Every instance that nobody knows was lost to a fault of its own: retries and
\* rollbacks (ProvisionVPS, RollbackVPS, triggerRollback) add none.  That is so
\* without requests to delete, and to stop: a VPS can be deleted under the run that
\* launches its instance, and a run that a stop makes fail costs no fault, so that a
\* refresh may write an earlier instance back for nothing.
OrphanNeedsFault ==
  Cardinality(Alive \ (InHand \cup ToTerminate \cup RowHas)) <= faults

\* The same of the network security groups, which count against a quota and
\* keep their VCN from being deleted: one that neither the row nor the worker
\* knows was lost to a fault of its own, with the same exceptions.
NSGLeakNeedsFault ==
  LET Known == {w.nsg} \cup (IF row.exists THEN {row.nsg} ELSE {}) IN
  Cardinality({n \in Id \ Known : nsgs[n] = "live"}) <= faults

Unfinished(j) == jobs[j].state \in {"pending", "running"}

Pursues(k) ==
  \E u \in Users : op[u].kind = k /\ op[u].pc \in {"enqueue", "act", "wait", "settle"}

\* Somebody will bring the work in progress to its end.
HasOwner ==
  /\ row.status \in {"pending", "provisioning"} =>
       Unfinished(1) \/ \E u \in Users : op[u].pc = "enqueue_first"
  /\ row.status = "terminating" =>
       Pursues("terminate") \/ \E j \in Job \ {1} : Unfinished(j)
  /\ row.status = "restarting" => Pursues("restart")
  /\ row.status = "resetting" => Pursues("reset")

\* As long as the process lives and its database answers, a status of work in
\* progress is the status of work that somebody will bring to an end, whatever
\* the cloud does and however the requests interleave: the dashboard never
\* polls a VPS that nobody is working on.
InProgressHasOwner == row.exists => HasOwner

\* Work in progress ends, as long as somebody has it and the process lives.
InProgressEnds ==
  \A s \in {"pending", "provisioning", "terminating", "restarting", "resetting"} :
    row.status = s /\ HasOwner ~> row.status # s \/ phase = "boot"

\* A termination that was enqueued is carried out, or has failed MaxAttempts
\* times, also after crashes.
TerminationEnds ==
  \A j \in Job \ {1} :
    jobs[j].state = "pending" ~>
      InState(jobs[j].inst, Dead) \/ jobs[j].state = "failed"

\* Nobody is working on the VPS.
Quiet ==
  /\ phase = "serving"
  /\ w.pc = "idle"
  /\ \A j \in Job : ~Unfinished(j)
  /\ \A u \in Users : op[u].pc = "off"

\* An instance that the final rollback was to terminate.
Survivor ==
  row.exists /\ row.status = "failed" /\ Quiet /\ row.inst \in Alive

\* A VPS that ends as 'failed' has its instance terminated, by the rollback of
\* an attempt or by that of triggerRollback, whatever its users ask for in the
\* meantime, unless the cloud failed each attempt and a rollback besides.
SurvivorNeedsFaults == Survivor => faults > MaxAttempts

-----------------------------------------------------------------------------
(* What the code says, and does not keep.                                  *)

\* "VPS must be terminated before deleting" (HandleDeleteVPS): when its row is
\* gone and the queue has nothing left to do, no instance is left.
DeletedHasNoInstance ==
  ~row.exists /\ Quiet => Alive = {}

\* "VPS instance terminated" (TerminateInstance), "VPS is already terminated"
\* (HandleTerminateVPS): a VPS that was terminated is not reported running.
TerminatedIsFinal ==
  [][row.status = "terminated" => row'.status # "running"]_row

\* "VPS termination is already in progress" (HandleTerminateVPS refuses a
\* request for this reason): somebody is terminating it.
TerminatingHasOwner ==
  phase = "serving" /\ row.exists /\ row.status = "terminating" =>
    Pursues("terminate") \/ \E j \in Job \ {1} : Unfinished(j)

\* "VPS provisioning failed and was rolled back" (RollbackVPS): once it has
\* said so for good, the instance it was to roll back is not left running.
RolledBackIsGone == ~Survivor

\* "The API server holds the SSH private key for emergency recovery" (README.md):
\* the key of a VPS is not lost as long as its row is there.
KeyIsKept == [][row.key => row'.key \/ ~row'.exists]_row

\* "vps must be in stopped state to start, current: running" (StartInstance), and
\* the same of stopping it: a VPS that nobody is working on is what its status,
\* from which the services decide, says it is.
StatusIsTrue ==
  row.exists /\ Quiet =>
    /\ row.status = "running" => InState(row.inst, {"booting", "running"})
    /\ row.status = "stopped" => InState(row.inst, {"stopped"})
=============================================================================
