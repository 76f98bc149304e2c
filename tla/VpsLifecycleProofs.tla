------------------------- MODULE VpsLifecycleProofs -------------------------
(***************************************************************************)
(* What holds of VpsLifecycle for every number of users, jobs, attempts    *)
(* and faults.                                                             *)
(***************************************************************************)
EXTENDS VpsLifecycle, FiniteSetTheorems, WellFoundedInduction, TLAPS

-----------------------------------------------------------------------------
(* The inductive invariant.                                                *)

Provisioning == {"begin", "create_nsg", "save_nsg", "rules", "drop_nsg", "clear_nsg",
                 "mark_failed", "launch", "save_instance", "wait", "finish"}

\* TerminateInstance and RollbackVPS.
Rolling == {"terminate", "gone", "unhook", "terminated", "unhook_again", "rolled_back"}

\* Where the worker can be, and for which job.
WorkerShape ==
  /\ w.pc = "idle" => w = Idle
  /\ w.pc \in Provisioning => w.job = 1
  /\ w.pc \in Rolling => /\ w.after # "none"
                         /\ w.after = "complete" <=> w.job # 1
  /\ w.pc \in {"unhook_again", "rolled_back"} => w.after # "complete"
  /\ w.pc = "terminate" => w.inst # None
  /\ phase = "serving" => /\ w.pc # "resume"
                          /\ w.pc \in Rolling => w.after # "serve"
                          /\ w.pc # "idle" => jobs[w.job].state = "running"
  /\ phase = "boot" =>
       /\ \A u \in Users : op[u].pc = "off"
       /\ \/ w.pc \in {"idle", "resume"}
          \/ w.pc \in Rolling /\ w.after = "serve" /\ row.exists

\* A job that is not over has attempts left; a termination names its instance.
JobsShape ==
  /\ \A j \in Job :
       jobs[j].state \in {"absent", "pending", "running"} =>
         jobs[j].attempts < MaxAttempts
  /\ \A j \in Job \ {1} : jobs[j].state # "absent" => jobs[j].inst # None

\* Where a request can be, by its kind.
RequestShape ==
  \A u \in Users :
    /\ op[u].pc \notin {"off", "enqueue_first"} => op[u].kind \in Ops
    /\ op[u].pc \in {"mark", "act", "wait", "settle", "ips", "write_back"} =>
         op[u].kind = "terminate" \/ op[u].inst # None
    /\ op[u].pc = "mark" => op[u].kind \in {"terminate", "restart", "reset"}
    /\ op[u].pc = "enqueue" => op[u].kind = "terminate"
    /\ op[u].pc \in {"act", "settle"} => op[u].kind \in {"start", "stop", "restart", "reset"}
    /\ op[u].pc = "wait" => op[u].kind \in {"restart", "reset"}
    /\ op[u].pc = "erase" => op[u].kind = "delete"
    /\ op[u].pc \in {"ips", "write_back"} => op[u].kind = "refresh"
    /\ op[u].pc = "enqueue_first" =>
         /\ op[u].kind # "terminate"
         /\ jobs[1].state = "absent"
         /\ \A v \in Users \ {u} : op[v].pc # "enqueue_first"

Terminations == {u \in Users : op[u].pc # "off" /\ op[u].kind = "terminate"}

Absent == {j \in Job \ {1} : jobs[j].state = "absent"}

\* There is a job for every termination asked for.
RoomLeft == Cardinality(Terminations) <= Cardinality(Absent)

UsedInstances == {i \in Id : instances[i].state # "none"}
UsedNSGs == {n \in Id : nsgs[n] # "none"}

\* Who names an instance or an NSG names one that was made.
NamesAreUsed ==
  /\ {row.inst, w.inst} \subseteq UsedInstances \cup {None}
  /\ \A j \in Job : jobs[j].inst \in UsedInstances \cup {None}
  /\ \A u \in Users : op[u].inst \in UsedInstances \cup {None}
  /\ {row.nsg, w.nsg} \subseteq UsedNSGs \cup {None}
  /\ \A u \in Users : op[u].nsg \in UsedNSGs \cup {None}

One(b) == IF b THEN 1 ELSE 0

BeforeNSG == {"idle", "begin", "create_nsg"}
BeforeLaunch == BeforeNSG \cup {"save_nsg", "rules", "drop_nsg", "clear_nsg",
                                "mark_failed", "launch"}

\* Job 1 has come past these steps in the run that it is in, or that was its last.
Past(before) ==
  \/ jobs[1].state = "complete"
  \/ phase = "serving" /\ w.job = 1 /\ w.pc \notin before

\* Every run makes one NSG and one instance at most, and is the last one, costs an
\* attempt or is cut short by a fault.
MadeByRuns ==
  /\ Cardinality(UsedNSGs) <= jobs[1].attempts + faults + One(Past(BeforeNSG))
  /\ Cardinality(UsedInstances) <= jobs[1].attempts + faults + One(Past(BeforeLaunch))

\* The run of job 1 has an instance that its rollback has not attempted.
Holding ==
  /\ w.job = 1
  /\ \/ w.pc \in {"save_instance", "wait", "finish", "complete"}
     \/ w.pc = "terminate" /\ w.after = "error"

\* Instances that live without a fault: the one in hand, or that of a job that
\* is complete.
AlivePaid ==
  IF Holding
    THEN Cardinality(Alive \ {w.inst}) <= faults
    ELSE Cardinality(Alive) <= faults + One(jobs[1].state = "complete")

\* As many instances as faults, and one, can live at a time.
AliveBound == Cardinality(Alive) <= faults + 1

-----------------------------------------------------------------------------
(* Without requests to stop.                                               *)

\* The instance of a run lives until the run ends.
NeverStopped ==
  /\ \A i \in Id : instances[i].state # "stopped"
  /\ w.pc \in {"save_instance", "wait", "finish"} =>
       InState(w.inst, {"booting", "running"})

WithInstance == {"save_instance", "wait", "finish", "complete"}
WithNSG == {"save_nsg", "rules", "launch"} \cup WithInstance

\* The run of job 1 is in one of these places, or the job is complete.
Now(places) == jobs[1].state = "complete" \/ (w.job = 1 /\ w.pc \in places)

FirstIsDone ==
  jobs[1].state = "complete" \/ (w.job = 1 /\ w.pc = "complete")

\* One NSG is not leaked: it is gone, or a fault has been spent for nothing.
Spare ==
  \/ \E n \in Id : nsgs[n] = "gone"
  \/ Cardinality(UsedNSGs) < faults + One(Now(WithNSG))

Copying(u) == op[u].pc \in {"ips", "write_back"}

\* Every run but the last has cost a fault.
EveryRunCosts ==
  /\ row.exists
  /\ Cardinality(UsedInstances) <= faults + One(Now(WithInstance))
  /\ Cardinality(UsedNSGs) <= faults + One(Now(WithNSG))
  /\ FirstIsDone => row.inst # None
  /\ row.inst # None /\ row.nsg = None => Spare
  /\ w.job = 1 /\ w.pc \in WithNSG \cup {"drop_nsg"} => w.nsg # None
  /\ w.pc = "clear_nsg" => Spare
  /\ \A u \in Users :
       Copying(u) /\ op[u].nsg = None => Spare

Steady == Ops \cap {"stop", "delete"} = {}

-----------------------------------------------------------------------------
(* Without failures of the process and its database, and refreshes.        *)

Prompt == Events \subseteq {"oci"} /\ "refresh" \notin Ops

\* The status that ends a request is none of work in progress.
GoesBack ==
  \A u \in Users :
    \/ /\ op[u].pc \in {"mark", "act", "wait", "settle"}
       /\ op[u].kind \in {"restart", "reset"}
    \/ op[u].pc = "settle"
    => op[u].prev \in {"running", "stopped"}

\* The worker, if it has the job, is still to write the status.
WritesFirst ==
  w.job = 1 => \/ w.pc \in Provisioning \cup {"idle"}
               \/ w.pc \in Rolling /\ w.after = "error"

WritesTermination(j) == w.job = j => w.pc \in {"terminate", "gone", "unhook", "terminated"}

FirstOwned ==
  \/ \E u \in Users : op[u].pc = "enqueue_first"
  \/ Unfinished(1) /\ WritesFirst

TerminationOwned ==
  \/ Pursues("terminate")
  \/ \E j \in Job \ {1} : Unfinished(j) /\ WritesTermination(j)

\* Whoever owns the work in progress is going to write another status.
OwnerWrites ==
  /\ phase = "serving"
  /\ GoesBack
  /\ row.exists =>
       /\ row.status \in {"pending", "provisioning"} => FirstOwned
       /\ row.status = "terminating" => TerminationOwned
       /\ row.status = "restarting" => Pursues("restart")
       /\ row.status = "resetting" => Pursues("reset")

\* The run of job 1 is on its way to fail.
Failing ==
  /\ w.job = 1
  /\ \/ w.pc \in {"drop_nsg", "clear_nsg", "mark_failed", "error", "given_up"}
     \/ w.pc \in Rolling

\* The last run of job 1 has failed, and triggerRollback has begun.
LastRollback ==
  /\ w.job = 1
  /\ \/ w.pc = "given_up"
     \/ w.pc \in Rolling /\ w.after = "give_up"

\* That rollback has tried to terminate the instance of the row.
GivingUp ==
  \/ jobs[1].state = "failed"
  \/ LastRollback /\ w.pc # "terminate"

\* Every attempt has cost a fault, and an instance that outlives the last
\* rollback one more.
AttemptsCost ==
  row.exists =>
    /\ faults >= jobs[1].attempts + One(Failing)
    /\ LastRollback => jobs[1].attempts + 1 = MaxAttempts
    /\ LastRollback /\ w.pc = "terminate" => w.inst = row.inst
    /\ GivingUp /\ row.inst \in Alive => faults > MaxAttempts
    /\ row.status = "failed" =>
         jobs[1].state \in {"pending", "running", "failed"} /\ ~(w.job = 1 /\ w.pc = "complete")

Patient == Prompt /\ "stop" \notin Ops

IInv ==
  /\ TypeOK /\ WorkerShape /\ JobsShape /\ RequestShape
  /\ RoomLeft /\ NamesAreUsed /\ MadeByRuns /\ AlivePaid
  /\ "stop" \notin Ops => NeverStopped
  /\ Steady => EveryRunCosts
  /\ Prompt => OwnerWrites
  /\ Patient => AttemptsCost

-----------------------------------------------------------------------------
(* Types.                                                                  *)

\* A set of natural numbers that is not empty has a least element.
LEMMA MinInSet ==
  ASSUME NEW S \in SUBSET Nat, S # {}
  PROVE  Min(S) \in S /\ \A y \in S : Min(S) <= y
<1> DEFINE R == OpToRel(<, Nat)
<1>1. IsWellFoundedOn(R, Nat)
  BY NatLessThanWellFounded
<1>2. \E x \in S : \A y \in S : <<y, x>> \notin R
  <2> HIDE DEF R
  <2> QED BY <1>1, WFMin
<1>3. \E x \in S : \A y \in S : x <= y
  <2>1. PICK x \in S : \A y \in S : <<y, x>> \notin R
    BY <1>2
  <2>2. \A y \in S : ~(y < x)
    <3>1. \A y \in S : <<y, x>> \in Nat \X Nat
      OBVIOUS
    <3> QED BY <2>1, <3>1 DEF OpToRel
  <2> QED BY <2>2
<1> QED BY <1>3 DEF Min

MaybeId == Id \cup {None}

WorkerPc == Provisioning \cup Rolling \cup
            {"idle", "error", "given_up", "complete", "resume", "dead"}

After == {"none", "complete", "error", "give_up", "serve"}

RequestPc == {"off", "mark", "enqueue", "act", "wait", "settle", "erase", "enqueue_first",
              "ips", "write_back"}

RowRecord == [exists : BOOLEAN, status : Status, inst : MaybeId, nsg : MaybeId, key : BOOLEAN]

JobRecord == [state : {"absent", "pending", "running", "complete", "failed"},
              attempts : 0..MaxAttempts, inst : MaybeId]

WorkerRecord == [pc : WorkerPc, job : Job, inst : MaybeId, nsg : MaybeId, key : BOOLEAN,
                 after : After]

RequestRecord == [pc : RequestPc, kind : Op, inst : MaybeId, prev : Status, nsg : MaybeId,
                  key : BOOLEAN]

InstanceRecord == [state : InstanceState, nsg : MaybeId]

Typed ==
  /\ row \in RowRecord
  /\ instances \in [Id -> InstanceRecord]
  /\ nsgs \in [Id -> {"none", "live", "gone"}]
  /\ jobs \in [Job -> JobRecord]
  /\ phase \in {"boot", "serving"}
  /\ w \in WorkerRecord
  /\ op \in [Users -> RequestRecord]
  /\ faults \in 0..MaxFaults

\* The type invariant, variable by variable.
LEMMA TypeParts == TypeOK <=> Typed
<1>1. WorkerPc = {"idle", "begin", "create_nsg", "save_nsg", "rules",
                  "drop_nsg", "clear_nsg", "mark_failed", "launch", "save_instance", "wait",
                  "finish", "terminate", "gone", "unhook", "terminated", "unhook_again",
                  "rolled_back", "error", "given_up", "complete", "resume", "dead"}
  BY DEF WorkerPc, Provisioning, Rolling
<1> QED BY <1>1 DEF TypeOK, Typed, RowRecord, InstanceRecord, JobRecord, WorkerRecord, RequestRecord,
           RequestPc, MaybeId, After

\* Ids, jobs and bounds are numbers, and no id is 'none'.
LEMMA Numbers ==
  /\ Id \subseteq Nat \ {0} /\ None \notin Id /\ None \in MaybeId /\ Id \subseteq MaybeId
  /\ Job \subseteq Nat \ {0} /\ 1 \in Job
  /\ MaxAttempts \in Nat \ {0} /\ MaxFaults \in Nat
BY VpsAssumption DEF Id, Job, None, MaybeId

\* The records of an idle worker, of no request and of a deleted row.
LEMMA Constants ==
  /\ Idle \in WorkerRecord /\ Off \in RequestRecord /\ NoRow \in RowRecord
  /\ Idle.pc = "idle" /\ Idle.job = 1 /\ Idle.inst = None /\ Idle.nsg = None
  /\ Idle.after = "none"
  /\ Off.pc = "off" /\ Off.kind = "start"
  /\ ~NoRow.exists /\ NoRow.inst = None /\ NoRow.nsg = None
  /\ Off.inst = None /\ Off.nsg = None
<1>1. Idle \in WorkerRecord
  BY Numbers DEF Idle, WorkerRecord, WorkerPc, After
<1>2. Off \in RequestRecord /\ NoRow \in RowRecord
  BY Numbers DEF Off, NoRow, RequestRecord, RequestPc, RowRecord, Op, Status
<1> QED BY <1>1, <1>2 DEF Idle, Off, NoRow

-----------------------------------------------------------------------------
(* What the writes of the steps do.                                        *)

\* The worker goes elsewhere with what it has.
Keeps == w'.job = w.job /\ w'.inst = w.inst /\ w'.nsg = w.nsg /\ w'.after = w.after

\* The worker goes on with what it has; a rollback begins with the instance it is given.
LEMMA WorkerWrites ==
  ASSUME Typed
  PROVE  /\ \A pc : Goto(pc) => /\ w'.pc = pc /\ Keeps
                                /\ pc \in WorkerPc => w' \in WorkerRecord
         /\ \A i, after : RollbackBegins(i, after) =>
              /\ w'.pc = IF i = None THEN "unhook_again" ELSE "terminate"
              /\ w'.job = w.job /\ w'.inst = i /\ w'.nsg = w.nsg /\ w'.after = after
              /\ i \in MaybeId /\ after \in After => w' \in WorkerRecord
<1>1. w \in WorkerRecord
  BY DEF Typed
<1>2. ASSUME NEW pc, Goto(pc)
      PROVE  /\ w'.pc = pc /\ Keeps
             /\ pc \in WorkerPc => w' \in WorkerRecord
  BY <1>1, <1>2 DEF Goto, WorkerRecord, Keeps
<1>3. ASSUME NEW i, NEW after, RollbackBegins(i, after)
      PROVE  /\ w'.pc = IF i = None THEN "unhook_again" ELSE "terminate"
             /\ w'.job = w.job /\ w'.inst = i /\ w'.nsg = w.nsg /\ w'.after = after
             /\ i \in MaybeId /\ after \in After => w' \in WorkerRecord
  <2>1. "unhook_again" \in WorkerPc /\ "terminate" \in WorkerPc
    BY DEF WorkerPc, Rolling
  <2> QED BY <1>1, <1>3, <2>1 DEF RollbackBegins, WorkerRecord
<1> QED BY <1>2, <1>3

\* UpdateStatus changes the status of a row that is there.
RowGets(s) ==
  /\ row'.exists = row.exists /\ row'.inst = row.inst /\ row'.nsg = row.nsg
  /\ row.exists => row'.status = s
  /\ ~row.exists => row' = row

\* UpdateStatus writes the status only, Update also the instance and the NSG of the worker.
LEMMA RowWrites ==
  ASSUME Typed
  PROVE  /\ \A s : StatusSet(s) => RowGets(s) /\ (s \in Status => row' \in RowRecord)
         /\ \A s, key : RowUpdate(s, key) =>
              /\ row'.exists = row.exists
              /\ row.exists => row'.inst = w.inst /\ row'.nsg = w.nsg /\ row'.status = s
              /\ s \in Status /\ key \in BOOLEAN => row' \in RowRecord
         /\ \A n : Written([row EXCEPT !.nsg = n]) =>
              /\ row'.exists = row.exists /\ row'.inst = row.inst /\ row'.status = row.status
              /\ row.exists => row'.nsg = n
              /\ n \in MaybeId => row' \in RowRecord
<1>1. row \in RowRecord /\ w.inst \in MaybeId /\ w.nsg \in MaybeId
  BY DEF Typed, WorkerRecord
<1>2. ASSUME NEW s, StatusSet(s) PROVE RowGets(s) /\ (s \in Status => row' \in RowRecord)
  <2>1. CASE row.exists
    BY <1>1, <1>2, <2>1 DEF StatusSet, Written, RowGets, RowRecord
  <2>2. CASE ~row.exists
    BY <1>1, <1>2, <2>2 DEF StatusSet, Written, RowGets
  <2> QED BY <2>1, <2>2
<1>3. ASSUME NEW s, NEW key, RowUpdate(s, key)
      PROVE  /\ row'.exists = row.exists
             /\ row.exists => row'.inst = w.inst /\ row'.nsg = w.nsg /\ row'.status = s
             /\ s \in Status /\ key \in BOOLEAN => row' \in RowRecord
  <2>1. CASE row.exists
    BY <1>1, <1>3, <2>1 DEF RowUpdate, Written, RowRecord
  <2>2. CASE ~row.exists
    BY <1>1, <1>3, <2>2 DEF RowUpdate, Written
  <2> QED BY <2>1, <2>2
<1>4. ASSUME NEW n, Written([row EXCEPT !.nsg = n])
      PROVE  /\ row'.exists = row.exists /\ row'.inst = row.inst /\ row'.status = row.status
             /\ row.exists => row'.nsg = n
             /\ n \in MaybeId => row' \in RowRecord
  <2>1. CASE row.exists
    BY <1>1, <1>4, <2>1 DEF Written, RowRecord
  <2>2. CASE ~row.exists
    BY <1>1, <1>4, <2>2 DEF Written
  <2> QED BY <2>1, <2>2
<1> QED BY <1>2, <1>3, <1>4

\* A fault is counted, within the bound.
LEMMA FaultCounts ==
  ASSUME Typed
  PROVE  /\ \A e : Fault(e) => faults' = faults + 1 /\ faults' \in 0..MaxFaults /\ e \in Events
         /\ NoFault => faults' = faults /\ faults' \in 0..MaxFaults
         /\ faults \in Nat
BY Numbers DEF Typed, Fault, NoFault

\* A job's row is written alone.
LEMMA JobWrites ==
  ASSUME Typed
  PROVE  \A s, a : JobSet(s, a) =>
           /\ jobs'[w.job].state = s /\ jobs'[w.job].attempts = a
           /\ jobs'[w.job].inst = jobs[w.job].inst
           /\ \A j \in Job : j # w.job => jobs'[j] = jobs[j]
           /\ /\ s \in {"absent", "pending", "running", "complete", "failed"}
              /\ a \in 0..MaxAttempts
              => jobs' \in [Job -> JobRecord]
<1>1. jobs \in [Job -> JobRecord] /\ w.job \in Job /\ jobs[w.job] \in JobRecord
  BY DEF Typed, WorkerRecord
<1>2. ASSUME NEW s, NEW a, JobSet(s, a)
      PROVE  /\ jobs'[w.job].state = s /\ jobs'[w.job].attempts = a
             /\ jobs'[w.job].inst = jobs[w.job].inst
             /\ \A j \in Job : j # w.job => jobs'[j] = jobs[j]
             /\ /\ s \in {"absent", "pending", "running", "complete", "failed"}
                /\ a \in 0..MaxAttempts
                => jobs' \in [Job -> JobRecord]
  <2>1. jobs' = [jobs EXCEPT ![w.job] = [jobs[w.job] EXCEPT !.state = s, !.attempts = a]]
    BY <1>1, <1>2 DEF JobSet
  <2>2. /\ [jobs[w.job] EXCEPT !.state = s, !.attempts = a].state = s
        /\ [jobs[w.job] EXCEPT !.state = s, !.attempts = a].attempts = a
        /\ [jobs[w.job] EXCEPT !.state = s, !.attempts = a].inst = jobs[w.job].inst
        /\ /\ s \in {"absent", "pending", "running", "complete", "failed"}
           /\ a \in 0..MaxAttempts
           => [jobs[w.job] EXCEPT !.state = s, !.attempts = a] \in JobRecord
    BY <1>1 DEF JobRecord
  <2> QED BY <1>1, <2>1, <2>2
<1> QED BY <1>2

\* A request's record is written alone.
LEMMA RequestWrites ==
  ASSUME Typed, NEW u \in Users
  PROVE  /\ \A o : OpSet(u, o) =>
              /\ op'[u] = o /\ \A v \in Users \ {u} : op'[v] = op[v]
              /\ o \in RequestRecord => op' \in [Users -> RequestRecord]
         /\ \A pc : OpGoto(u, pc) =>
              /\ op'[u].pc = pc /\ op'[u].kind = op[u].kind /\ op'[u].inst = op[u].inst
              /\ op'[u].prev = op[u].prev /\ op'[u].nsg = op[u].nsg
              /\ \A v \in Users \ {u} : op'[v] = op[v]
              /\ pc \in RequestPc => op' \in [Users -> RequestRecord]
         /\ Done(u) => /\ op'[u] = Off /\ \A v \in Users \ {u} : op'[v] = op[v]
                       /\ op' \in [Users -> RequestRecord]
         /\ \A s \in Status : \A pc \in RequestPc :
              LET o == [op[u] EXCEPT !.pc = pc, !.prev = s] IN
              /\ o \in RequestRecord
              /\ o.pc = pc /\ o.kind = op[u].kind /\ o.inst = op[u].inst /\ o.prev = s
              /\ o.nsg = op[u].nsg
         /\ op[u] \in RequestRecord
<1>1. op \in [Users -> RequestRecord] /\ op[u] \in RequestRecord
  BY DEF Typed
<1>2. ASSUME NEW o, OpSet(u, o)
      PROVE  /\ op'[u] = o /\ \A v \in Users \ {u} : op'[v] = op[v]
             /\ o \in RequestRecord => op' \in [Users -> RequestRecord]
  BY <1>1, <1>2 DEF OpSet
<1>3. ASSUME NEW pc, OpGoto(u, pc)
      PROVE  /\ op'[u].pc = pc /\ op'[u].kind = op[u].kind /\ op'[u].inst = op[u].inst
             /\ op'[u].prev = op[u].prev /\ op'[u].nsg = op[u].nsg
             /\ \A v \in Users \ {u} : op'[v] = op[v]
             /\ pc \in RequestPc => op' \in [Users -> RequestRecord]
  <2> DEFINE o == [op[u] EXCEPT !.pc = pc]
  <2>1. op' = [op EXCEPT ![u] = o]
    BY <1>1, <1>3 DEF OpGoto
  <2>2. /\ o.pc = pc /\ o.kind = op[u].kind /\ o.inst = op[u].inst
        /\ o.prev = op[u].prev /\ o.nsg = op[u].nsg
        /\ pc \in RequestPc => o \in RequestRecord
    BY <1>1 DEF RequestRecord
  <2> HIDE DEF o
  <2> QED BY <1>1, <2>1, <2>2
<1>4. Done(u) => /\ op'[u] = Off /\ \A v \in Users \ {u} : op'[v] = op[v]
                 /\ op' \in [Users -> RequestRecord]
  BY <1>2, Constants DEF Done
<1>5. ASSUME NEW s \in Status, NEW pc \in RequestPc
      PROVE  LET o == [op[u] EXCEPT !.pc = pc, !.prev = s] IN
             /\ o \in RequestRecord
             /\ o.pc = pc /\ o.kind = op[u].kind /\ o.inst = op[u].inst /\ o.prev = s
             /\ o.nsg = op[u].nsg
  BY <1>1 DEF RequestRecord
<1> QED BY <1>1, <1>2, <1>3, <1>4, <1>5

\* The fields of what is typed.
LEMMA Fields ==
  ASSUME Typed
  PROVE  /\ row.inst \in MaybeId /\ row.nsg \in MaybeId /\ row.status \in Status
         /\ row.exists \in BOOLEAN /\ row.key \in BOOLEAN
         /\ w.pc \in WorkerPc /\ w.job \in Job /\ w.inst \in MaybeId /\ w.nsg \in MaybeId
         /\ w.after \in After /\ w.key \in BOOLEAN
         /\ \A j \in Job : /\ jobs[j].inst \in MaybeId /\ jobs[j].attempts \in 0..MaxAttempts
                           /\ jobs[j].state \in {"absent", "pending", "running", "complete",
                                                 "failed"}
         /\ \A u \in Users : /\ op[u].pc \in RequestPc /\ op[u].kind \in Op
                             /\ op[u].inst \in MaybeId /\ op[u].nsg \in MaybeId
                             /\ op[u].prev \in Status /\ op[u].key \in BOOLEAN
         /\ \A i \in Id : /\ instances[i].state \in InstanceState
                          /\ instances[i].nsg \in MaybeId
<1>1. row \in RowRecord /\ w \in WorkerRecord
  BY DEF Typed
<1>2. \A j \in Job : jobs[j] \in JobRecord
  BY DEF Typed
<1>3. \A u \in Users : op[u] \in RequestRecord
  BY DEF Typed
<1>4. \A i \in Id : instances[i] \in InstanceRecord
  BY DEF Typed
<1>5. /\ row.inst \in MaybeId /\ row.nsg \in MaybeId /\ row.status \in Status
      /\ row.exists \in BOOLEAN /\ row.key \in BOOLEAN
  BY <1>1 DEF RowRecord
<1>6. /\ w.pc \in WorkerPc /\ w.job \in Job /\ w.inst \in MaybeId /\ w.nsg \in MaybeId
      /\ w.after \in After /\ w.key \in BOOLEAN
  BY <1>1 DEF WorkerRecord
<1>7. \A j \in Job : /\ jobs[j].inst \in MaybeId /\ jobs[j].attempts \in 0..MaxAttempts
                     /\ jobs[j].state \in {"absent", "pending", "running", "complete", "failed"}
  BY <1>2 DEF JobRecord
<1>8. \A u \in Users : /\ op[u].pc \in RequestPc /\ op[u].kind \in Op
                       /\ op[u].inst \in MaybeId /\ op[u].nsg \in MaybeId
                       /\ op[u].prev \in Status /\ op[u].key \in BOOLEAN
  BY <1>3 DEF RequestRecord
<1>9. \A i \in Id : /\ instances[i].state \in InstanceState /\ instances[i].nsg \in MaybeId
  BY <1>4 DEF InstanceRecord
<1> QED BY <1>5, <1>6, <1>7, <1>8, <1>9

-----------------------------------------------------------------------------
(* Counting.                                                               *)

\* There are finitely many instances and NSGs within the bound.
LEMMA IdIsFinite ==
  /\ IsFiniteSet(Id) /\ Cardinality(Id) = MaxAttempts + MaxFaults
  /\ IsFiniteSet(Job)
  /\ \A S : S \subseteq Id => IsFiniteSet(S) /\ Cardinality(S) \in Nat
<1>1. /\ IsFiniteSet(Id) /\ Cardinality(Id) = MaxAttempts + MaxFaults /\ IsFiniteSet(Job)
  <2>1. MaxAttempts + MaxFaults \in Nat \ {0} /\ 1 + MaxTerminates \in Nat
    BY VpsAssumption
  <2> QED BY <2>1, FS_Interval DEF Id, Job
<1>2. ASSUME NEW S, S \subseteq Id PROVE IsFiniteSet(S) /\ Cardinality(S) \in Nat
  BY <1>1, <1>2, FS_Subset, FS_CardinalityType
<1> QED BY <1>1, <1>2

\* Sets of ids: one more, one less, part of another.
LEMMA Counts ==
  ASSUME NEW S \in SUBSET Id
  PROVE  /\ Cardinality(S) \in Nat
         /\ \A T \in SUBSET S : Cardinality(T) <= Cardinality(S) /\ Cardinality(T) \in Nat
         /\ \A x : Cardinality(S) <= Cardinality(S \ {x}) + 1
         /\ \A x \in S : Cardinality(S \ {x}) = Cardinality(S) - 1
         /\ \A x \in Id \ S : Cardinality(S \cup {x}) = Cardinality(S) + 1
<1>0. IsFiniteSet(S) /\ Cardinality(S) \in Nat
  BY IdIsFinite
<1>1. ASSUME NEW T \in SUBSET S
      PROVE  Cardinality(T) <= Cardinality(S) /\ Cardinality(T) \in Nat
  BY <1>0, FS_Subset, FS_CardinalityType
<1>2. ASSUME NEW x \in S PROVE Cardinality(S \ {x}) = Cardinality(S) - 1
  BY <1>0, FS_RemoveElement
<1>3. ASSUME NEW x \in Id \ S PROVE Cardinality(S \cup {x}) = Cardinality(S) + 1
  BY <1>0, FS_AddElement
<1>4. ASSUME NEW x PROVE Cardinality(S) <= Cardinality(S \ {x}) + 1
  <2>1. CASE x \in S
    BY <1>0, <1>2, <2>1
  <2>2. CASE x \notin S
    <3>1. S \ {x} = S
      BY <2>2
    <3> QED BY <1>0, <3>1
  <2> QED BY <2>1, <2>2
<1> QED BY <1>0, <1>1, <1>2, <1>3, <1>4

\* While fewer were made than the bound has, there is a new one, never used before.
LEMMA FreshExists ==
  ASSUME NEW f, Cardinality({i \in Id : f[i] # "none"}) < MaxAttempts + MaxFaults
  PROVE  Fresh(f) \in Id /\ f[Fresh(f)] = "none"
<1> DEFINE S == {i \in Id : f[i] = "none"}
<1>1. S # {}
  <2> SUFFICES ASSUME S = {} PROVE FALSE
    OBVIOUS
  <2>1. {i \in Id : f[i] # "none"} = Id
    OBVIOUS
  <2> QED BY <2>1, IdIsFinite, Numbers
<1>2. S \in SUBSET Nat
  BY Numbers
<1>3. Min(S) \in S
  <2> HIDE DEF S
  <2> QED BY <1>1, <1>2, MinInSet
<1> QED BY <1>3 DEF Fresh

\* There is a number for the NSG and the instance of every run.
LEMMA FreshNumbers ==
  ASSUME Typed, WorkerShape, JobsShape, MadeByRuns
  PROVE  /\ w.pc = "create_nsg" => Fresh(nsgs) \in Id /\ nsgs[Fresh(nsgs)] = "none"
         /\ w.pc = "launch" =>
              FreshInstance \in Id /\ instances[FreshInstance].state = "none"
<1>1. ASSUME w.pc \in {"create_nsg", "launch"}
      PROVE  /\ phase = "serving" /\ w.job = 1 /\ jobs[1].state = "running"
             /\ jobs[1].attempts < MaxAttempts /\ jobs[1].attempts \in Nat
             /\ faults <= MaxFaults /\ faults \in Nat
  <2>1. w.job = 1 /\ phase = "serving"
    BY <1>1 DEF WorkerShape, Provisioning, Rolling, Typed
  <2>2. jobs[1].state = "running"
    BY <1>1, <2>1 DEF WorkerShape
  <2> QED BY <2>1, <2>2, Fields, Numbers DEF JobsShape, Typed
<1>2. CASE w.pc = "create_nsg"
  <2>1. ~Past(BeforeNSG)
    BY <1>1, <1>2 DEF Past, BeforeNSG
  <2>2. Cardinality(UsedNSGs) < MaxAttempts + MaxFaults
    <3>1. Cardinality(UsedNSGs) \in Nat
      BY IdIsFinite DEF UsedNSGs
    <3> QED BY <1>1, <1>2, <2>1, <3>1, Numbers DEF MadeByRuns, One
  <2> QED BY <1>2, <2>2, FreshExists DEF UsedNSGs
<1>3. CASE w.pc = "launch"
  <2> DEFINE f == [i \in Id |-> instances[i].state]
  <2>1. ~Past(BeforeLaunch)
    BY <1>1, <1>3 DEF Past, BeforeLaunch
  <2>2. Cardinality(UsedInstances) < MaxAttempts + MaxFaults
    <3>1. Cardinality(UsedInstances) \in Nat
      BY IdIsFinite DEF UsedInstances
    <3> QED BY <1>1, <1>3, <2>1, <3>1, Numbers DEF MadeByRuns, One
  <2>3. {i \in Id : f[i] # "none"} = UsedInstances
    BY DEF UsedInstances
  <2>4. Fresh(f) \in Id /\ f[Fresh(f)] = "none"
    <3> HIDE DEF f
    <3> QED BY <2>2, <2>3, FreshExists
  <2> QED BY <1>3, <2>4 DEF FreshInstance
<1> QED BY <1>2, <1>3

-----------------------------------------------------------------------------
(* What each step leaves alone.                                            *)

\* The worker leaves the requests alone, requests the worker and the NSGs, and a step
\* costs one fault at most.
LEMMA Frames ==
  ASSUME Typed
  PROVE  /\ Worker => UNCHANGED <<phase, op>>
         /\ (Boots \/ Ends) => UNCHANGED <<row, nsgs, jobs, phase, w, op, faults>>
         /\ \A u \in Users : OpStep(u) => UNCHANGED <<nsgs, phase, w>>
         /\ Next => /\ faults' \in 0..MaxFaults
                    /\ faults' >= faults /\ faults' <= faults + 1
<1>1. Worker => UNCHANGED <<phase, op>>
  <2>1. \/ Claim \/ Begin \/ CreateNSG \/ SaveNSG \/ AddRules \/ DropNSG \/ ClearNSG
        \/ MarkVPSFailed \/ Launch \/ SaveInstance
        => UNCHANGED <<phase, op>>
    BY Zenon DEF Claim, Begin, CreateNSG, SaveNSG, AddRules, DropNSG, ClearNSG, MarkVPSFailed,
                 Launch, SaveInstance
  <2>2. \/ WaitRunning \/ Finish \/ Terminate \/ WaitTerminated \/ Unhook \/ Terminated
        \/ RolledBack
        => UNCHANGED <<phase, op>>
    BY DEF WaitRunning, Finish, Terminate, WaitTerminated, Unhook, Terminated, RolledBack
  <2>3. MarkComplete \/ MarkFailed \/ GiveUp => UNCHANGED <<phase, op>>
    BY Zenon DEF MarkComplete, MarkFailed, GiveUp
  <2> QED BY <2>1, <2>2, <2>3 DEF Worker
<1>2. (Boots \/ Ends) => UNCHANGED <<row, nsgs, jobs, phase, w, op, faults>>
  BY DEF Boots, Ends, CloudStep
<1>3. ASSUME NEW u \in Users, OpStep(u) PROVE UNCHANGED <<nsgs, phase, w>>
  BY <1>3 DEF OpStep, EnqueueFirst, Mark, Enqueue, Act, WaitBack, Settle, Erase, RefreshIPs,
              WriteBack, cloud
<1>4. ASSUME Next PROVE NoFault \/ \E e : Fault(e)
  <2>1. CASE Worker
    <3>1. \/ Claim \/ Begin \/ CreateNSG \/ SaveNSG \/ AddRules \/ DropNSG \/ ClearNSG
          \/ MarkVPSFailed \/ Launch \/ SaveInstance
          => NoFault \/ \E e : Fault(e)
      BY Zenon DEF Claim, Begin, CreateNSG, SaveNSG, AddRules, DropNSG, ClearNSG, MarkVPSFailed,
                   Launch, SaveInstance, NoFault
    <3>2. \/ WaitRunning \/ Finish \/ Terminate \/ WaitTerminated \/ Unhook \/ Terminated
          \/ RolledBack
          => NoFault \/ \E e : Fault(e)
      BY DEF WaitRunning, Finish, Terminate, WaitTerminated, Unhook, TryDeleteNSG, Terminated,
             RolledBack
    <3>3. MarkComplete \/ MarkFailed \/ GiveUp => NoFault \/ \E e : Fault(e)
      BY Zenon DEF MarkComplete, MarkFailed, GiveUp
    <3> QED BY <2>1, <3>1, <3>2, <3>3 DEF Worker
  <2>2. CASE Crash \/ Reconcile \/ Serve \/ Boots \/ Ends
    BY <2>2 DEF Crash, Reconcile, Serve, Boots, Ends, CloudStep, NoFault
  <2>3. ASSUME NEW u \in Users, Ask(u) \/ OpStep(u) PROVE NoFault \/ \E e : Fault(e)
    BY <2>3 DEF Ask, OpStep, EnqueueFirst, Mark, Enqueue, Act, WaitBack, Settle, Erase,
                RefreshIPs, WriteBack, NoFault
  <2> QED BY <1>4, <2>1, <2>2, <2>3 DEF Next
<1>5. Next => /\ faults' \in 0..MaxFaults
              /\ faults' >= faults /\ faults' <= faults + 1
  BY <1>4, FaultCounts, Numbers
<1> QED BY <1>1, <1>2, <1>3, <1>5

-----------------------------------------------------------------------------
(* Every step keeps the types.                                             *)

\* Every step keeps the row a row.
LEMMA RowTyped ==
  ASSUME Typed, RequestShape, NamesAreUsed, Next
  PROVE  row' \in RowRecord
<1> USE RowWrites, Fields, Numbers
<1>0. row \in RowRecord
  BY DEF Typed
<1>1. {"pending", "provisioning", "running", "failed", "terminating", "terminated",
       "restarting", "resetting"} \subseteq Status
  BY DEF Status
<1>2. CASE Worker
  <2>1. CASE Begin
    BY <1>0, <1>1, <2>1 DEF Begin
  <2>2. CASE CreateNSG
    BY <1>0, <1>1, <2>2 DEF CreateNSG
  <2>3. CASE SaveNSG \/ ClearNSG
    BY <1>0, <2>3 DEF SaveNSG, ClearNSG
  <2>4. CASE MarkVPSFailed \/ Terminated \/ RolledBack
    BY <1>0, <1>1, <2>4 DEF MarkVPSFailed, Terminated, RolledBack
  <2>5. CASE SaveInstance \/ Finish
    BY <1>0, <1>1, <2>5 DEF SaveInstance, Finish
  <2>6. CASE Terminate
    BY <1>0, <1>1, <2>6 DEF Terminate
  <2>7. CASE Unhook
    BY <1>0, <2>7 DEF Unhook, TryDeleteNSG
  <2>8. CASE \/ Claim \/ AddRules \/ DropNSG \/ Launch \/ WaitRunning \/ WaitTerminated
             \/ MarkComplete \/ MarkFailed \/ GiveUp
    <3>1. UNCHANGED row
      BY <2>8, Zenon DEF Claim, AddRules, DropNSG, Launch, WaitRunning, WaitTerminated,
                         MarkComplete, MarkFailed, GiveUp
    <3> QED BY <1>0, <3>1
  <2> QED BY <1>2, <2>1, <2>2, <2>3, <2>4, <2>5, <2>6, <2>7, <2>8 DEF Worker
<1>3. CASE Reconcile
  <2>1. CASE UNCHANGED row
    BY <1>0, <2>1
  <2>2. ASSUME Stuck, ~UNCHANGED row PROVE \E s \in Status : StatusSet(s)
    <3>1. \/ row.inst = None \/ InState(row.inst, {"running"}) \/ InState(row.inst, Dead)
          \/ InState(row.inst, {"booting", "stopped"})
      BY DEF NamesAreUsed, UsedInstances, InState, Dead, InstanceState
    <3>2. CASE row.inst # None /\ InState(row.inst, {"booting", "stopped"})
      <4>1. ~InState(row.inst, {"running"}) /\ ~InState(row.inst, Dead)
        BY <3>2 DEF InState, Dead
      <4> QED BY <1>3, <2>2, <3>2, <4>1 DEF Reconcile
    <3> QED BY <1>1, <1>3, <2>2, <3>1, <3>2, Zenon DEF Reconcile
  <2> QED BY <1>3, <2>1, <2>2 DEF Reconcile
<1>4. CASE Crash \/ Serve \/ Boots \/ Ends
  BY <1>0, <1>4 DEF Crash, Serve, Boots, Ends, CloudStep
<1>5. ASSUME NEW u \in Users, Ask(u) \/ OpStep(u) PROVE row' \in RowRecord
  <2>1. CASE Mark(u)
    <3>1. op[u].kind \in {"terminate", "restart", "reset"}
      BY <2>1 DEF Mark, RequestShape
    <3>2. CASE UNCHANGED row
      BY <1>0, <3>2
    <3>3. CASE StatusSet(CASE op[u].kind = "terminate" -> "terminating"
                           [] op[u].kind = "restart" -> "restarting"
                           [] op[u].kind = "reset" -> "resetting")
      BY <1>1, <3>1, <3>3
    <3> QED BY <2>1, <3>2, <3>3 DEF Mark
  <2>2. CASE Enqueue(u)
    BY <1>0, <1>1, <2>2 DEF Enqueue, EndedAtOnce
  <2>3. CASE Settle(u)
    BY <1>0, <2>3 DEF Settle
  <2>4. CASE Erase(u)
    BY <1>0, <2>4, Constants DEF Erase
  <2>5. CASE WriteBack(u)
    <3>1. [row EXCEPT !.status = op[u].prev, !.inst = op[u].inst, !.nsg = op[u].nsg,
                      !.key = op[u].key] \in RowRecord
      BY <1>0 DEF RowRecord
    <3> QED BY <1>0, <2>5, <3>1 DEF WriteBack, Written
  <2>6. CASE \/ Ask(u) \/ EnqueueFirst(u) \/ Act(u) \/ WaitBack(u) \/ RefreshIPs(u)
    BY <1>0, <2>6 DEF Ask, EnqueueFirst, Act, WaitBack, RefreshIPs
  <2> QED BY <1>5, <2>1, <2>2, <2>3, <2>4, <2>5, <2>6 DEF OpStep
<1> QED BY <1>2, <1>3, <1>4, <1>5 DEF Next

\* Every step keeps the worker's record one; a new instance or NSG has a number.
LEMMA WorkerTyped ==
  ASSUME Typed, WorkerShape, JobsShape, MadeByRuns, Next
  PROVE  w' \in WorkerRecord
<1> USE WorkerWrites, Fields, Numbers
<1>0. w \in WorkerRecord /\ Idle \in WorkerRecord
  BY Constants DEF Typed
<1>1. /\ Provisioning \subseteq WorkerPc /\ Rolling \subseteq WorkerPc
      /\ {"idle", "error", "given_up", "complete", "resume", "dead"} \subseteq WorkerPc
      /\ {"error", "complete", "give_up", "serve"} \subseteq After
  BY DEF WorkerPc, After
<1>2. CASE Worker
  <2>1. CASE Claim
    <3>1. PICK j \in Job :
            w' = IF j = 1
                   THEN [Idle EXCEPT !.pc = "begin"]
                   ELSE [Idle EXCEPT !.pc = "terminate", !.job = j,
                           !.inst = jobs[j].inst, !.after = "complete"]
      BY <2>1, Zenon DEF Claim
    <3>2. [Idle EXCEPT !.pc = "begin"] \in WorkerRecord
      BY <1>0, <1>1 DEF WorkerRecord, Provisioning
    <3>3. [Idle EXCEPT !.pc = "terminate", !.job = j, !.inst = jobs[j].inst,
                       !.after = "complete"] \in WorkerRecord
      BY <1>0, <1>1 DEF WorkerRecord, Rolling
    <3> QED BY <3>1, <3>2, <3>3
  <2>2. CASE Begin
    <3>1. [w EXCEPT !.pc = "create_nsg", !.key = row.key] \in WorkerRecord
      BY <1>0, <1>1 DEF WorkerRecord, Provisioning
    <3> QED BY <1>1, <2>2, <3>1 DEF Begin
  <2>3. CASE CreateNSG
    <3>1. Fresh(nsgs) \in Id
      BY <2>3, FreshNumbers DEF CreateNSG
    <3>2. [w EXCEPT !.pc = "save_nsg", !.nsg = Fresh(nsgs)] \in WorkerRecord
      BY <1>0, <1>1, <3>1 DEF WorkerRecord, Provisioning
    <3> QED BY <1>1, <2>3, <3>2 DEF CreateNSG
  <2>4. CASE SaveNSG \/ AddRules \/ DropNSG \/ ClearNSG \/ MarkVPSFailed
    BY <1>1, <2>4 DEF SaveNSG, AddRules, DropNSG, ClearNSG, MarkVPSFailed, Provisioning
  <2>5. CASE Launch
    <3>1. FreshInstance \in Id
      BY <2>5, FreshNumbers DEF Launch
    <3>2. [w EXCEPT !.pc = "save_instance", !.inst = FreshInstance] \in WorkerRecord
      BY <1>0, <1>1, <3>1 DEF WorkerRecord, Provisioning
    <3> QED BY <1>1, <2>5, <3>2 DEF Launch
  <2>6. CASE SaveInstance \/ WaitRunning \/ Finish
    BY <1>1, <2>6 DEF SaveInstance, WaitRunning, Finish, FailRun, Provisioning
  <2>7. CASE Terminate \/ WaitTerminated \/ Terminated
    BY <1>1, <2>7 DEF Terminate, WaitTerminated, Terminated, ThenGoto, Rolling
  <2>8. CASE Unhook
    BY <1>1, <2>8 DEF Unhook, Rolling
  <2>9. CASE RolledBack
    <3>1. w.after \in {"error", "give_up", "serve"}
      BY <2>9 DEF RolledBack, WorkerShape, Rolling, After
    <3> QED BY <1>1, <2>9, <3>1 DEF RolledBack
  <2>10. CASE MarkComplete \/ GiveUp
    BY <1>0, <2>10 DEF MarkComplete, GiveUp
  <2>11. CASE MarkFailed
    <3>1. \/ w' = Idle \/ Goto("given_up") \/ Goto("dead") \/ RollbackBegins(row.inst, "give_up")
      BY <2>11, Zenon DEF MarkFailed
    <3> QED BY <1>0, <1>1, <3>1
  <2> QED BY <1>2, <2>1, <2>2, <2>3, <2>4, <2>5, <2>6, <2>7, <2>8, <2>9, <2>10, <2>11 DEF Worker
<1>3. CASE Reconcile
  BY <1>1, <1>3 DEF Reconcile
<1>4. CASE Crash \/ Serve
  BY <1>0, <1>4 DEF Crash, Serve
<1>5. ASSUME UNCHANGED w PROVE w' \in WorkerRecord
  BY <1>0, <1>5
<1>6. ASSUME NEW u \in Users, Ask(u) PROVE UNCHANGED w
  BY <1>6 DEF Ask
<1> QED BY <1>2, <1>3, <1>4, <1>5, <1>6, Frames DEF Next

\* Every NSG and every instance stays made.
LEMMA CloudTyped ==
  ASSUME Typed, WorkerShape, JobsShape, RequestShape, MadeByRuns, Next
  PROVE  /\ instances' \in [Id -> InstanceRecord]
         /\ nsgs' \in [Id -> {"none", "live", "gone"}]
         /\ \A i \in Id : /\ instances[i].state # "none" => instances'[i].state # "none"
                          /\ nsgs[i] # "none" => nsgs'[i] # "none"
<1> DEFINE Keep == \A i \in Id : instances[i].state # "none" => instances'[i].state # "none"
           KeepNSGs == \A n \in Id : nsgs[n] # "none" => nsgs'[n] # "none"
<1>0. instances \in [Id -> InstanceRecord] /\ nsgs \in [Id -> {"none", "live", "gone"}]
  BY DEF Typed
<1>1. ASSUME NEW i, NEW s \in InstanceState \ {"none"},
             instances' = [instances EXCEPT ![i].state = s]
      PROVE  instances' \in [Id -> InstanceRecord] /\ Keep
  BY <1>0, <1>1 DEF InstanceRecord
<1>2. ASSUME NEW i, NEW s \in {"live", "gone"}, nsgs' = [nsgs EXCEPT ![i] = s]
      PROVE  nsgs' \in [Id -> {"none", "live", "gone"}] /\ KeepNSGs
  BY <1>0, <1>2
<1>3. ASSUME UNCHANGED instances PROVE instances' \in [Id -> InstanceRecord] /\ Keep
  BY <1>0, <1>3
<1>4. ASSUME UNCHANGED nsgs PROVE nsgs' \in [Id -> {"none", "live", "gone"}] /\ KeepNSGs
  BY <1>0, <1>4
<1>5. CASE Worker
  <2>1. CASE CreateNSG
    <3>1. \/ UNCHANGED nsgs
          \/ nsgs' = [nsgs EXCEPT ![Fresh(nsgs)] = "live"]
      BY <2>1, Zenon DEF CreateNSG
    <3> QED BY <1>2, <1>3, <1>4, <2>1, <3>1 DEF CreateNSG
  <2>2. CASE DropNSG \/ Unhook
    <3>1. UNCHANGED instances
      BY <2>2 DEF DropNSG, Unhook
    <3>2. \/ UNCHANGED nsgs
          \/ \E n : nsgs' = [nsgs EXCEPT ![n] = "gone"]
      BY <2>2, Zenon DEF DropNSG, Unhook, TryDeleteNSG
    <3> QED BY <1>2, <1>3, <1>4, <3>1, <3>2
  <2>3. CASE Launch
    <3>1. UNCHANGED nsgs /\ (UNCHANGED instances \/ Launched(w.nsg))
      BY <2>3 DEF Launch
    <3>2. [state |-> "booting", nsg |-> w.nsg] \in InstanceRecord
      BY Fields DEF InstanceRecord, InstanceState
    <3>3. ASSUME NEW r \in InstanceRecord, NEW i, r.state # "none",
                 instances' = [instances EXCEPT ![i] = r]
          PROVE  instances' \in [Id -> InstanceRecord] /\ Keep
      BY <1>0, <3>3
    <3>4. Launched(w.nsg) => instances' \in [Id -> InstanceRecord] /\ Keep
      BY <3>2, <3>3 DEF Launched
    <3> QED BY <1>3, <1>4, <3>1, <3>4
  <2>4. CASE Terminate
    <3>1. UNCHANGED nsgs
      BY <2>4 DEF Terminate
    <3>2. instances' = [instances EXCEPT ![w.inst].state =
                          IF @ = "terminated" THEN @ ELSE "terminating"]
          => \/ instances' = [instances EXCEPT ![w.inst].state = "terminated"]
             \/ instances' = [instances EXCEPT ![w.inst].state = "terminating"]
      OBVIOUS
    <3>3. {"terminated", "terminating"} \subseteq InstanceState \ {"none"}
      BY DEF InstanceState
    <3> QED BY <1>1, <1>3, <1>4, <2>4, <3>1, <3>2, <3>3 DEF Terminate
  <2>5. CASE \/ Claim \/ Begin \/ SaveNSG \/ AddRules \/ ClearNSG \/ MarkVPSFailed \/ SaveInstance
             \/ WaitRunning \/ Finish \/ WaitTerminated \/ Terminated \/ RolledBack
             \/ MarkComplete \/ MarkFailed \/ GiveUp
    <3>1. UNCHANGED cloud
      BY <2>5, Zenon DEF Claim, Begin, SaveNSG, AddRules, ClearNSG, MarkVPSFailed, SaveInstance,
         WaitRunning, Finish, WaitTerminated, Terminated, RolledBack, MarkComplete, MarkFailed, GiveUp
    <3> QED BY <1>3, <1>4, <3>1 DEF cloud
  <2> QED BY <1>5, <2>1, <2>2, <2>3, <2>4, <2>5 DEF Worker
<1>6. CASE Crash \/ Reconcile \/ Serve
  BY <1>3, <1>4, <1>6 DEF Crash, Reconcile, Serve, cloud
<1>7. CASE Boots \/ Ends
  BY <1>1, <1>4, <1>7 DEF Boots, Ends, CloudStep, InstanceState
<1>8. ASSUME NEW u \in Users, Ask(u) \/ OpStep(u)
      PROVE  UNCHANGED nsgs /\ instances' \in [Id -> InstanceRecord] /\ Keep
  <2>1. CASE Act(u)
    <3>1. Leads(op[u].kind) \in InstanceState \ {"none"}
      BY DEF Leads, InstanceState
    <3>2. \/ UNCHANGED instances
          \/ instances' = [instances EXCEPT ![op[u].inst].state = Leads(op[u].kind)]
      BY <2>1, Zenon DEF Act
    <3> QED BY <1>1, <1>3, <2>1, <3>1, <3>2 DEF Act
  <2>2. CASE ~Act(u)
    BY <1>3, <1>8, <2>2 DEF OpStep, Ask, EnqueueFirst, Mark, Enqueue, WaitBack, Settle, Erase,
                            RefreshIPs, WriteBack, cloud
  <2> QED BY <2>1, <2>2
<1> QED BY <1>4, <1>5, <1>6, <1>7, <1>8 DEF Next

\* There is a job for the termination that is asked for.
LEMMA NextJob ==
  ASSUME Typed, RequestShape, RoomLeft, NEW u \in Users, op[u].pc = "enqueue"
  PROVE  Min({i \in Job \ {1} : jobs[i].state = "absent"}) \in Absent
<1>1. u \in Terminations
  BY DEF RequestShape, Terminations
<1>2. IsFiniteSet(Terminations) /\ IsFiniteSet(Absent)
  BY VpsAssumption, IdIsFinite, FS_Subset DEF Terminations, Absent
<1>3. Absent # {}
  <2>1. Cardinality(Terminations) \in Nat \ {0}
    BY <1>1, <1>2, FS_CardinalityType, FS_EmptySet
  <2>2. Cardinality(Absent) # 0
    BY <1>2, <2>1, FS_CardinalityType DEF RoomLeft
  <2> QED BY <2>2, FS_EmptySet
<1>4. Absent \in SUBSET Nat
  BY Numbers DEF Absent
<1> QED BY <1>3, <1>4, MinInSet DEF Absent

\* Every step keeps the jobs; a termination that is asked for finds a number.
LEMMA JobsTyped ==
  ASSUME Typed, WorkerShape, JobsShape, RequestShape, RoomLeft, Next
  PROVE  jobs' \in [Job -> JobRecord]
<1> USE JobWrites, Fields, Numbers
<1>0. jobs \in [Job -> JobRecord]
  BY DEF Typed
<1>1. ASSUME UNCHANGED jobs PROVE jobs' \in [Job -> JobRecord]
  BY <1>0, <1>1
<1>2. CASE Worker
  <2>1. CASE Claim
    <3>1. PICK j \in Job : jobs' = [jobs EXCEPT ![j].state = "running"]
      BY <2>1, Zenon DEF Claim
    <3>2. jobs' = [jobs EXCEPT ![j] = [jobs[j] EXCEPT !.state = "running"]]
      BY <1>0, <3>1
    <3> QED BY <1>0, <3>2 DEF JobRecord
  <2>2. CASE MarkComplete \/ GiveUp
    <3>1. \/ UNCHANGED jobs \/ JobSet("complete", jobs[w.job].attempts)
          \/ JobSet("failed", MaxAttempts)
      BY <2>2, Zenon DEF MarkComplete, GiveUp
    <3>2. jobs[w.job].attempts \in 0..MaxAttempts
      OBVIOUS
    <3>3. MaxAttempts \in 0..MaxAttempts
      BY VpsAssumption
    <3> QED BY <1>1, <3>1, <3>2, <3>3
  <2>3. CASE MarkFailed
    <3>1. \/ UNCHANGED jobs
          \/ /\ jobs[w.job].attempts + 1 < MaxAttempts
             /\ JobSet("pending", jobs[w.job].attempts + 1)
      BY <2>3, Zenon DEF MarkFailed
    <3>2. jobs[w.job].attempts \in 0..MaxAttempts
      OBVIOUS
    <3> QED BY <1>1, <3>1, <3>2
  <2>4. CASE \/ Begin \/ CreateNSG \/ SaveNSG \/ AddRules \/ DropNSG \/ ClearNSG \/ MarkVPSFailed
             \/ Launch \/ SaveInstance \/ WaitRunning \/ Finish \/ Terminate \/ WaitTerminated
             \/ Unhook \/ Terminated \/ RolledBack
    <3>1. UNCHANGED jobs
      BY <2>4, Zenon DEF Begin, CreateNSG, SaveNSG, AddRules, DropNSG, ClearNSG, MarkVPSFailed,
         Launch, SaveInstance, WaitRunning, Finish, Terminate, WaitTerminated, Unhook, Terminated,
         RolledBack
    <3> QED BY <1>1, <3>1
  <2> QED BY <1>2, <2>1, <2>2, <2>3, <2>4 DEF Worker
<1>3. CASE Serve
  <2>1. \A j \in Job : Resumed[j] \in JobRecord
    BY <1>0 DEF Resumed, JobRecord
  <2>2. Resumed = [j \in Job |-> Resumed[j]]
    BY DEF Resumed
  <2> QED BY <1>1, <1>3, <2>1, <2>2 DEF Serve
<1>4. CASE Crash \/ Reconcile \/ Boots \/ Ends
  BY <1>1, <1>4, Frames DEF Crash, Reconcile
<1>5. ASSUME NEW u \in Users, Ask(u) \/ OpStep(u) PROVE jobs' \in [Job -> JobRecord]
  <2>1. CASE EnqueueFirst(u)
    <3>1. jobs' = [jobs EXCEPT ![1].state = "pending"]
          => jobs' = [jobs EXCEPT ![1] = [jobs[1] EXCEPT !.state = "pending"]]
      BY <1>0
    <3>2. [jobs[1] EXCEPT !.state = "pending"] \in JobRecord
      BY <1>0 DEF JobRecord
    <3> QED BY <1>0, <1>1, <2>1, <3>1, <3>2 DEF EnqueueFirst
  <2>2. CASE Enqueue(u)
    <3>1. [state |-> "pending", attempts |-> 0, inst |-> op[u].inst] \in JobRecord
      BY DEF JobRecord
    <3>2. \/ UNCHANGED jobs
          \/ \E j : jobs' = [jobs EXCEPT ![j] = [state |-> "pending", attempts |-> 0,
                                                 inst |-> op[u].inst]]
      BY <2>2, Zenon DEF Enqueue
    <3> QED BY <1>0, <1>1, <3>1, <3>2
  <2>3. CASE \/ Ask(u) \/ Mark(u) \/ Act(u) \/ WaitBack(u) \/ Settle(u) \/ Erase(u)
             \/ RefreshIPs(u) \/ WriteBack(u)
    <3>1. UNCHANGED jobs
      BY <2>3, Zenon DEF Ask, Mark, Act, WaitBack, Settle, Erase, RefreshIPs, WriteBack
    <3> QED BY <1>1, <3>1
  <2> QED BY <1>5, <2>1, <2>2, <2>3 DEF OpStep
<1> QED BY <1>2, <1>3, <1>4, <1>5 DEF Next

\* Every step keeps the requests' records.
LEMMA RequestsTyped ==
  ASSUME Typed, RequestShape, Next
  PROVE  op' \in [Users -> RequestRecord]
<1>0. op \in [Users -> RequestRecord]
  BY DEF Typed
<1>1. CASE \/ Worker \/ Reconcile \/ Serve \/ Boots \/ Ends
  BY <1>0, <1>1, Frames DEF Reconcile, Serve
<1>2. CASE Crash
  BY <1>2, Constants DEF Crash
<1>3. ASSUME NEW u \in Users, Ask(u) \/ OpStep(u) PROVE op' \in [Users -> RequestRecord]
  <2>0. /\ \A o \in RequestRecord : OpSet(u, o) => op' \in [Users -> RequestRecord]
        /\ \A pc \in RequestPc : OpGoto(u, pc) => op' \in [Users -> RequestRecord]
        /\ Done(u) => op' \in [Users -> RequestRecord]
    BY RequestWrites
  <2>7. \A s \in Status : \A pc \in RequestPc :
          [op[u] EXCEPT !.pc = pc, !.prev = s] \in RequestRecord
    BY RequestWrites
  <2>8. {"settle", "wait", "act", "enqueue", "write_back"} \subseteq RequestPc
    BY DEF RequestPc
  <2>1. CASE Ask(u)
    <3>1. PICK k \in Ops :
            OpSet(u, [pc |-> FirstPc(k), kind |-> k, inst |-> row.inst, prev |-> row.status,
                      nsg |-> IF k = "refresh" THEN row.nsg ELSE None,
                      key |-> k = "refresh" /\ row.key])
      BY <2>1, Zenon DEF Ask
    <3>2. FirstPc(k) \in RequestPc /\ k \in Op
      BY VpsAssumption DEF FirstPc, RequestPc
    <3>3. (k = "refresh" /\ row.key) \in BOOLEAN
      OBVIOUS
    <3>4. /\ (IF k = "refresh" THEN row.nsg ELSE None) \in MaybeId
          /\ row.inst \in MaybeId /\ row.status \in Status
      BY Fields, Numbers
    <3>5. [pc |-> FirstPc(k), kind |-> k, inst |-> row.inst, prev |-> row.status,
           nsg |-> IF k = "refresh" THEN row.nsg ELSE None,
           key |-> k = "refresh" /\ row.key] \in RequestRecord
      BY <3>2, <3>3, <3>4, Zenon DEF RequestRecord
    <3> QED BY <2>0, <3>1, <3>5
  <2>2. CASE Act(u)
    <3>1. \/ OpGoto(u, "wait") \/ OpRollback(u) \/ Done(u)
          \/ OpSet(u, [op[u] EXCEPT !.pc = "settle",
                         !.prev = IF op[u].kind = "stop" THEN "stopped" ELSE "running"])
      BY <2>2, Zenon DEF Act
    <3>2. (IF op[u].kind = "stop" THEN "stopped" ELSE "running") \in Status
      BY DEF Status
    <3> QED BY <2>0, <2>7, <2>8, <3>1, <3>2, Zenon DEF OpRollback
  <2>3. CASE WaitBack(u)
    <3>1. \/ OpRollback(u)
          \/ OpSet(u, [op[u] EXCEPT !.pc = "settle", !.prev = "running"])
      BY <2>3, Zenon DEF WaitBack
    <3>2. "running" \in Status
      BY DEF Status
    <3> QED BY <2>0, <2>7, <2>8, <3>1, <3>2, Zenon DEF OpRollback
  <2>4. CASE Mark(u)
    <3>1. OpGoto(u, "enqueue") \/ OpGoto(u, "act") \/ Done(u)
      BY <2>4, Zenon DEF Mark
    <3> QED BY <2>0, <2>8, <3>1
  <2>5. CASE RefreshIPs(u)
    BY <2>0, <2>5, <2>8 DEF RefreshIPs
  <2>6. CASE EnqueueFirst(u) \/ Enqueue(u) \/ Settle(u) \/ Erase(u) \/ WriteBack(u)
    BY <2>0, <2>6, Zenon DEF EnqueueFirst, Enqueue, Settle, Erase, WriteBack
  <2> QED BY <1>3, <2>1, <2>2, <2>3, <2>4, <2>5, <2>6 DEF OpStep
<1> QED BY <1>1, <1>2, <1>3 DEF Next

\* Every step keeps the types.
LEMMA TypeStep ==
  ASSUME Typed, WorkerShape, JobsShape, RequestShape, RoomLeft, NamesAreUsed, MadeByRuns,
         Next
  PROVE  Typed'
<1>1. phase' \in {"boot", "serving"}
  <2>1. CASE Crash \/ Serve
    BY <2>1 DEF Crash, Serve
  <2>2. CASE \/ Worker \/ Boots \/ Ends \/ Reconcile \/ \E u \in Users : OpStep(u)
    BY <2>2, Frames DEF Reconcile, Typed
  <2>3. ASSUME NEW u \in Users, Ask(u) PROVE phase' \in {"boot", "serving"}
    BY <2>3 DEF Ask, Typed
  <2> QED BY <2>1, <2>2, <2>3 DEF Next
<1> QED BY <1>1, RowTyped, WorkerTyped, CloudTyped, JobsTyped, RequestsTyped, Frames DEF Typed

-----------------------------------------------------------------------------
(* Who writes what.                                                        *)

\* Which steps write which variable.
LEMMA Writers ==
  ASSUME Typed, Next
  PROVE  /\ \/ UNCHANGED jobs \/ Claim \/ MarkComplete \/ GiveUp \/ MarkFailed \/ Serve
            \/ \E u \in Users : EnqueueFirst(u) \/ Enqueue(u)
         /\ \/ UNCHANGED instances \/ Launch \/ Terminate \/ Boots \/ Ends
            \/ \E u \in Users : Act(u)
         /\ UNCHANGED nsgs \/ CreateNSG \/ DropNSG \/ Unhook
         /\ UNCHANGED w \/ Worker \/ Crash \/ Reconcile \/ Serve
         /\ UNCHANGED phase \/ Crash \/ Serve
         /\ UNCHANGED op \/ Crash \/ \E u \in Users : Ask(u) \/ OpStep(u)
<1>1. CASE \/ Begin \/ SaveNSG \/ AddRules \/ ClearNSG \/ MarkVPSFailed \/ SaveInstance
           \/ WaitRunning \/ Finish \/ WaitTerminated \/ Terminated \/ RolledBack
  <2>1. UNCHANGED <<instances, nsgs, jobs>>
    BY <1>1, Zenon DEF Begin, SaveNSG, AddRules, ClearNSG, MarkVPSFailed, SaveInstance, WaitRunning,
       Finish, WaitTerminated, Terminated, RolledBack, cloud
  <2> QED BY <1>1, <2>1, Frames DEF Worker
<1>2. CASE Claim \/ MarkComplete \/ GiveUp \/ MarkFailed
  <2>1. UNCHANGED <<instances, nsgs>>
    BY <1>2, Zenon DEF Claim, MarkComplete, GiveUp, MarkFailed, cloud
  <2> QED BY <1>2, <2>1, Frames DEF Worker
<1>3. CASE CreateNSG \/ DropNSG \/ Unhook
  <2>1. UNCHANGED <<instances, jobs>>
    BY <1>3, Zenon DEF CreateNSG, DropNSG, Unhook
  <2> QED BY <1>3, <2>1, Frames DEF Worker
<1>4. CASE Launch \/ Terminate
  <2>1. UNCHANGED <<nsgs, jobs>>
    BY <1>4, Zenon DEF Launch, Terminate
  <2> QED BY <1>4, <2>1, Frames DEF Worker
<1>5. CASE Crash \/ Reconcile \/ Serve \/ Boots \/ Ends
  <2>1. CASE Crash
    BY <2>1 DEF Crash, cloud
  <2>2. CASE Reconcile
    <3>1. UNCHANGED <<cloud, jobs, phase, op>>
      BY <2>2, Zenon DEF Reconcile
    <3> QED BY <2>2, <3>1 DEF cloud
  <2>3. CASE Serve
    BY <2>3 DEF Serve, cloud
  <2> QED BY <1>5, <2>1, <2>2, <2>3, Frames
<1>6. ASSUME NEW u \in Users, Ask(u) \/ OpStep(u)
      PROVE  /\ UNCHANGED <<nsgs, phase, w>>
             /\ UNCHANGED jobs \/ EnqueueFirst(u) \/ Enqueue(u)
             /\ UNCHANGED instances \/ Act(u)
  BY <1>6, Zenon DEF Ask, OpStep, EnqueueFirst, Mark, Enqueue, Act, WaitBack, Settle, Erase,
     RefreshIPs, WriteBack, cloud
<1> QED BY <1>1, <1>2, <1>3, <1>4, <1>5, <1>6 DEF Next, Worker

\* A busy worker has a job that runs, or reconciles.
LEMMA Busy ==
  ASSUME Typed, WorkerShape
  PROVE  /\ w.pc \in {"error", "given_up", "complete", "dead"} =>
              phase = "serving" /\ jobs[w.job].state = "running"
         /\ w.pc \in Provisioning =>
              phase = "serving" /\ w.job = 1 /\ jobs[1].state = "running"
         /\ w.pc \in Rolling =>
              \/ phase = "serving" /\ jobs[w.job].state = "running"
              \/ phase = "boot" /\ w.after = "serve" /\ row.exists
<1>1. phase \in {"boot", "serving"}
  BY DEF Typed
<1> QED BY <1>1 DEF WorkerShape, Rolling, Provisioning

-----------------------------------------------------------------------------
(* Every step keeps the shape of the jobs.                                 *)

\* Every step keeps attempts for a job that is not over, and an instance for a termination.
LEMMA JobsStep ==
  ASSUME Typed, WorkerShape, JobsShape, RequestShape, RoomLeft, NamesAreUsed, MadeByRuns,
         Next
  PROVE  JobsShape'
<1> DEFINE Shape(j) == /\ jobs[j].state \in {"absent", "pending", "running"} =>
                            jobs[j].attempts < MaxAttempts
                       /\ j # 1 /\ jobs[j].state # "absent" => jobs[j].inst # None
<1>0. jobs \in [Job -> JobRecord] /\ jobs' \in [Job -> JobRecord]
  BY TypeStep DEF Typed
<1>1. \A j \in Job : Shape(j)
  BY DEF JobsShape
<1>2. ASSUME \A j \in Job : Shape(j)' PROVE JobsShape'
  BY <1>2 DEF JobsShape
<1>3. ASSUME UNCHANGED jobs PROVE \A j \in Job : Shape(j)'
  BY <1>1, <1>3
<1>4. CASE Claim
  <2>1. PICK j \in Job : /\ jobs[j].state = "pending"
                         /\ jobs' = [jobs EXCEPT ![j].state = "running"]
    BY <1>4, Zenon DEF Claim
  <2>2. jobs' = [jobs EXCEPT ![j] = [jobs[j] EXCEPT !.state = "running"]]
    BY <1>0, <2>1
  <2> QED BY <1>0, <1>1, <1>2, <2>1, <2>2 DEF JobRecord
<1>5. CASE MarkComplete \/ GiveUp \/ MarkFailed
  <2>1. w.pc \in {"complete", "given_up", "error"}
    BY <1>5, Zenon DEF MarkComplete, GiveUp, MarkFailed
  <2>2. jobs[w.job].state = "running"
    BY <2>1, Busy
  <2>3. \/ UNCHANGED jobs \/ JobSet("complete", jobs[w.job].attempts)
        \/ JobSet("failed", MaxAttempts)
        \/ /\ jobs[w.job].attempts + 1 < MaxAttempts
           /\ JobSet("pending", jobs[w.job].attempts + 1)
    BY <1>5, Zenon DEF MarkComplete, GiveUp, MarkFailed
  <2>4. CASE UNCHANGED jobs
    BY <1>2, <1>3, <2>4
  <2>5. ASSUME NEW s \in {"complete", "failed", "pending"}, NEW a, JobSet(s, a),
               s = "pending" => a < MaxAttempts
        PROVE  JobsShape'
    <3>1. /\ jobs'[w.job].state = s /\ jobs'[w.job].attempts = a
          /\ jobs'[w.job].inst = jobs[w.job].inst
          /\ \A j \in Job : j # w.job => jobs'[j] = jobs[j]
      BY <2>5, JobWrites
    <3>2. ASSUME NEW j \in Job, j = w.job PROVE Shape(j)'
      BY <1>1, <2>2, <2>5, <3>1, <3>2, Fields
    <3> QED BY <1>1, <1>2, <3>1, <3>2
  <2> QED BY <2>3, <2>4, <2>5
<1>6. CASE Serve
  <2>1. CASE jobs' = Resumed
    <3>1. \A j \in Job : /\ jobs'[j].attempts = jobs[j].attempts /\ jobs'[j].inst = jobs[j].inst
                         /\ \/ jobs'[j].state = jobs[j].state
                            \/ jobs[j].state = "running" /\ jobs'[j].state = "pending"
      BY <1>0, <2>1 DEF Resumed, JobRecord
    <3> QED BY <1>1, <1>2, <3>1
  <2> QED BY <1>2, <1>3, <1>6, <2>1 DEF Serve
<1>7. ASSUME NEW u \in Users, EnqueueFirst(u) PROVE JobsShape'
  <2>1. jobs[1].state = "absent"
    BY <1>7 DEF EnqueueFirst, RequestShape
  <2>2. CASE jobs' = [jobs EXCEPT ![1].state = "pending"]
    <3>1. jobs' = [jobs EXCEPT ![1] = [jobs[1] EXCEPT !.state = "pending"]]
      BY <1>0, <2>2
    <3> QED BY <1>0, <1>1, <1>2, <2>1, <3>1, Numbers DEF JobRecord
  <2> QED BY <1>2, <1>3, <1>7, <2>2 DEF EnqueueFirst
<1>8. ASSUME NEW u \in Users, Enqueue(u) PROVE JobsShape'
  <2>1. \/ UNCHANGED jobs
        \/ \E j : /\ jobs' = [jobs EXCEPT ![j] = [state |-> "pending", attempts |-> 0,
                                                  inst |-> op[u].inst]]
                  /\ op[u].inst # None
    BY <1>8, Zenon DEF Enqueue
  <2> QED BY <1>0, <1>1, <1>2, <1>3, <2>1, Numbers
<1> QED BY <1>2, <1>3, <1>4, <1>5, <1>6, <1>7, <1>8, Writers

-----------------------------------------------------------------------------
(* Every step keeps the shape of the requests.                             *)

\* A job is absent until it is enqueued.
LEMMA StaysAbsent ==
  ASSUME Typed, WorkerShape, RequestShape, RoomLeft, Next, NEW j \in Job,
         jobs[j].state = "absent"
  PROVE  \/ jobs'[j].state = "absent"
         \/ j = 1 /\ \E u \in Users : EnqueueFirst(u)
         \/ /\ \E u \in Users : Enqueue(u)
            /\ j \in Absent /\ j = Min({i \in Job \ {1} : jobs[i].state = "absent"})
<1>0. jobs \in [Job -> JobRecord]
  BY DEF Typed
<1>1. CASE UNCHANGED jobs
  BY <1>1
<1>2. CASE Claim
  BY <1>0, <1>2 DEF Claim
<1>3. CASE MarkComplete \/ GiveUp \/ MarkFailed
  <2>1. w.pc \in {"complete", "given_up", "error"}
    BY <1>3, Zenon DEF MarkComplete, GiveUp, MarkFailed
  <2>2. w.job # j
    BY <2>1, Busy
  <2>3. UNCHANGED jobs \/ \E s, a : JobSet(s, a)
    BY <1>3, Zenon DEF MarkComplete, GiveUp, MarkFailed
  <2> QED BY <1>0, <2>2, <2>3, JobWrites
<1>4. CASE Serve
  BY <1>0, <1>4 DEF Serve, Resumed
<1>5. ASSUME NEW u \in Users, Enqueue(u)
      PROVE  \/ jobs'[j].state = "absent"
             \/ j \in Absent /\ j = Min({i \in Job \ {1} : jobs[i].state = "absent"})
  <2>1. Min({i \in Job \ {1} : jobs[i].state = "absent"}) \in Absent
    BY <1>5, NextJob DEF Enqueue
  <2> QED BY <1>0, <1>5, <2>1 DEF Enqueue
<1>6. ASSUME NEW u \in Users, EnqueueFirst(u) PROVE jobs'[j].state = "absent" \/ j = 1
  BY <1>0, <1>6 DEF EnqueueFirst
<1> QED BY <1>1, <1>2, <1>3, <1>4, <1>5, <1>6, Writers

\* Where a request goes.
RequestMoves(u) ==
  /\ \A v \in Users \ {u} : op'[v] = op[v]
  /\ \/ op'[u] = Off
     \/ /\ op[u].pc = "off"
        /\ op'[u].kind \in Ops
        /\ op'[u].pc = FirstPc(op'[u].kind)
        /\ op'[u].kind \in {"terminate", "delete"} \/ op'[u].inst # None
        /\ op'[u].inst = row.inst /\ op'[u].prev = row.status
        /\ op'[u].nsg = IF op'[u].kind = "refresh" THEN row.nsg ELSE None
     \/ /\ op'[u].kind = op[u].kind /\ op'[u].inst = op[u].inst /\ op'[u].nsg = op[u].nsg
        /\ \/ /\ op'[u].prev = op[u].prev
              /\ \/ op[u].pc = "mark" /\ op[u].kind = "terminate" /\ op'[u].pc = "enqueue"
                 \/ op[u].pc = "mark" /\ op[u].kind # "terminate" /\ op'[u].pc = "act"
                 \/ op[u].pc = "ips" /\ op'[u].pc = "write_back"
                 \/ /\ op[u].pc = "act" /\ op'[u].pc \in {"wait", "settle"}
                    /\ op[u].kind \in {"restart", "reset"}
                 \/ op[u].pc = "wait" /\ op'[u].pc = "settle"
           \/ /\ op[u].pc \in {"act", "wait"} /\ op'[u].pc = "settle"
              /\ op'[u].prev \in {"running", "stopped"}

\* Every step of a request is one of the moves above.
LEMMA Requests ==
  ASSUME Typed, NEW u \in Users, Ask(u) \/ OpStep(u)
  PROVE  RequestMoves(u)
<1>0. /\ \A o : OpSet(u, o) => op'[u] = o /\ \A v \in Users \ {u} : op'[v] = op[v]
      /\ \A pc : OpGoto(u, pc) =>
           /\ op'[u].pc = pc /\ op'[u].kind = op[u].kind /\ op'[u].inst = op[u].inst
           /\ op'[u].prev = op[u].prev /\ op'[u].nsg = op[u].nsg
           /\ \A v \in Users \ {u} : op'[v] = op[v]
      /\ Done(u) => op'[u] = Off /\ \A v \in Users \ {u} : op'[v] = op[v]
  BY RequestWrites, ZenonT(60)
<1>1. ASSUME NEW s \in {"running", "stopped"},
             OpSet(u, [op[u] EXCEPT !.pc = "settle", !.prev = s])
      PROVE  /\ op'[u].pc = "settle" /\ op'[u].kind = op[u].kind /\ op'[u].inst = op[u].inst
             /\ op'[u].prev = s /\ op'[u].nsg = op[u].nsg
             /\ \A v \in Users \ {u} : op'[v] = op[v]
  <2>1. op[u] \in RequestRecord
    BY DEF Typed
  <2>2. op'[u] = [op[u] EXCEPT !.pc = "settle", !.prev = s]
        /\ \A v \in Users \ {u} : op'[v] = op[v]
    BY <1>0, <1>1
  <2> QED BY <2>1, <2>2 DEF RequestRecord
<1>2. CASE Ask(u)
  <2>1. PICK k \in Ops :
          /\ k \in {"terminate", "delete"} \/ row.inst # None
          /\ OpSet(u, [pc |-> FirstPc(k), kind |-> k, inst |-> row.inst, prev |-> row.status,
                       nsg |-> IF k = "refresh" THEN row.nsg ELSE None,
                       key |-> k = "refresh" /\ row.key])
    BY <1>2, Zenon DEF Ask
  <2> DEFINE o == [pc |-> FirstPc(k), kind |-> k, inst |-> row.inst, prev |-> row.status,
                   nsg |-> IF k = "refresh" THEN row.nsg ELSE None,
                   key |-> k = "refresh" /\ row.key]
  <2>2. /\ o.pc = FirstPc(k) /\ o.kind = k /\ o.inst = row.inst /\ o.prev = row.status
        /\ o.nsg = IF k = "refresh" THEN row.nsg ELSE None
    OBVIOUS
  <2>3. op[u].pc = "off"
    BY <1>2 DEF Ask
  <2>4. op'[u] = o /\ \A v \in Users \ {u} : op'[v] = op[v]
    BY <1>0, <2>1
  <2> HIDE DEF o
  <2> QED BY <2>1, <2>2, <2>3, <2>4, Zenon DEF RequestMoves
<1>3. CASE Mark(u)
  <2>1. /\ op[u].pc = "mark"
        /\ \/ Done(u)
           \/ op[u].kind = "terminate" /\ OpGoto(u, "enqueue")
           \/ op[u].kind # "terminate" /\ OpGoto(u, "act")
    BY <1>3, Zenon DEF Mark
  <2> QED BY <1>0, <2>1, Zenon DEF RequestMoves
<1>4. CASE Act(u)
  <2>1. /\ op[u].pc = "act"
        /\ \/ Done(u)
           \/ op[u].kind \in {"restart", "reset"} /\ OpGoto(u, "wait")
           \/ op[u].kind \in {"restart", "reset"} /\ OpGoto(u, "settle")
           \/ OpSet(u, [op[u] EXCEPT !.pc = "settle", !.prev = "stopped"])
           \/ OpSet(u, [op[u] EXCEPT !.pc = "settle", !.prev = "running"])
    BY <1>4, Zenon DEF Act, OpRollback
  <2> QED BY <1>0, <1>1, <2>1, Zenon DEF RequestMoves
<1>5. CASE WaitBack(u)
  <2>1. /\ op[u].pc = "wait"
        /\ \/ OpGoto(u, "settle")
           \/ OpSet(u, [op[u] EXCEPT !.pc = "settle", !.prev = "running"])
    BY <1>5, Zenon DEF WaitBack, OpRollback
  <2> QED BY <1>0, <1>1, <2>1, Zenon DEF RequestMoves
<1>6. CASE RefreshIPs(u)
  BY <1>0, <1>6, Zenon DEF RefreshIPs, RequestMoves
<1>7. CASE EnqueueFirst(u) \/ Enqueue(u) \/ Settle(u) \/ Erase(u) \/ WriteBack(u)
  BY <1>0, <1>7, Zenon DEF EnqueueFirst, Enqueue, Settle, Erase, WriteBack, RequestMoves
<1> QED BY <1>2, <1>3, <1>4, <1>5, <1>6, <1>7 DEF OpStep

\* Every step leaves a request at a step of its kind.
LEMMA RequestStep ==
  ASSUME Typed, WorkerShape, RequestShape, RoomLeft, Next
  PROVE  RequestShape'
<1> DEFINE Shape(o) ==
      /\ o.pc \notin {"off", "enqueue_first"} => o.kind \in Ops
      /\ o.pc \in {"mark", "act", "wait", "settle", "ips", "write_back"} =>
           o.kind = "terminate" \/ o.inst # None
      /\ o.pc = "mark" => o.kind \in {"terminate", "restart", "reset"}
      /\ o.pc = "enqueue" => o.kind = "terminate"
      /\ o.pc \in {"act", "settle"} => o.kind \in {"start", "stop", "restart", "reset"}
      /\ o.pc = "wait" => o.kind \in {"restart", "reset"}
      /\ o.pc = "erase" => o.kind = "delete"
      /\ o.pc \in {"ips", "write_back"} => o.kind = "refresh"
    First(u) ==
      op[u].pc = "enqueue_first" =>
         /\ op[u].kind # "terminate"
         /\ jobs[1].state = "absent"
         /\ \A v \in Users \ {u} : op[v].pc # "enqueue_first"
<1>1. \A u \in Users : Shape(op[u]) /\ First(u)
  BY DEF RequestShape
<1>2. ASSUME \A u \in Users : Shape(op'[u]) /\ First(u)' PROVE RequestShape'
  BY <1>2 DEF RequestShape
<1>3. Shape(Off) /\ Off.pc # "enqueue_first"
  BY Constants
<1>4. CASE UNCHANGED op
  <2>1. \A u \in Users : ~EnqueueFirst(u)
    BY <1>4, RequestWrites, Constants DEF EnqueueFirst
  <2>2. jobs[1].state = "absent" => jobs'[1].state = "absent"
    BY <2>1, StaysAbsent, Numbers DEF Absent
  <2> QED BY <1>1, <1>2, <1>4, <2>2
<1>5. CASE Crash
  <2>1. \A u \in Users : op'[u] = Off
    BY <1>5 DEF Crash
  <2> QED BY <1>2, <1>3, <2>1
<1>6. ASSUME NEW u \in Users, Ask(u) \/ OpStep(u) PROVE RequestShape'
  <2>1. RequestMoves(u)
    BY <1>6, Requests
  <2>2. Shape(op'[u]) /\ op'[u].pc # "enqueue_first"
    <3>1. CASE op'[u] = Off
      BY <1>3, <3>1
    <3>2. CASE op[u].pc = "off" /\ op'[u] # Off
      <4>1. /\ op'[u].kind \in Ops /\ op'[u].pc = FirstPc(op'[u].kind)
            /\ op'[u].kind \in {"terminate", "delete"} \/ op'[u].inst # None
        BY <2>1, <3>2 DEF RequestMoves
      <4>2. op'[u].kind \in Op
        BY <4>1, VpsAssumption
      <4> QED BY <4>1, <4>2 DEF FirstPc, Op
    <3>3. CASE op[u].pc # "off" /\ op'[u] # Off
      BY <1>1, <2>1, <3>3 DEF RequestMoves
    <3> QED BY <3>1, <3>2, <3>3
  <2>3. ASSUME NEW v \in Users \ {u}, op[v].pc = "enqueue_first" PROVE jobs'[1].state = "absent"
    <3>1. jobs[1].state = "absent" /\ \A x \in Users \ {v} : op[x].pc # "enqueue_first"
      BY <1>1, <2>3
    <3>2. ASSUME NEW x \in Users, EnqueueFirst(x) PROVE FALSE
      <4>1. op[x].pc = "enqueue_first" /\ op'[x].pc = "off"
        BY <3>2, RequestWrites, Constants DEF EnqueueFirst
      <4>2. x = v /\ op'[v] = op[v]
        BY <2>1, <3>1, <4>1 DEF RequestMoves
      <4> QED BY <4>1, <4>2
    <3> QED BY <3>1, <3>2, StaysAbsent, Numbers DEF Absent
  <2> QED BY <1>1, <1>2, <2>1, <2>2, <2>3 DEF RequestMoves
<1> QED BY <1>4, <1>5, <1>6, Writers

\* Every step keeps a job for each termination asked for.
LEMMA RoomStep ==
  ASSUME Typed, WorkerShape, RequestShape, RoomLeft, Next
  PROVE  RoomLeft'
<1>0. /\ IsFiniteSet(Terminations) /\ IsFiniteSet(Absent)
      /\ IsFiniteSet(Terminations') /\ IsFiniteSet(Absent')
      /\ Cardinality(Terminations) \in Nat /\ Cardinality(Absent) \in Nat
      /\ Cardinality(Terminations') \in Nat /\ Cardinality(Absent') \in Nat
  BY VpsAssumption, IdIsFinite, FS_Subset, FS_CardinalityType DEF Terminations, Absent
<1>1. ASSUME Terminations' \subseteq Terminations, Absent \subseteq Absent' PROVE RoomLeft'
  <2>1. Cardinality(Terminations') <= Cardinality(Terminations)
    BY <1>0, <1>1, FS_Subset
  <2>2. Cardinality(Absent) <= Cardinality(Absent')
    BY <1>0, <1>1, FS_Subset
  <2> QED BY <1>0, <2>1, <2>2 DEF RoomLeft
<1>2. ASSUME \A u \in Users : ~Enqueue(u) PROVE Absent \subseteq Absent'
  <2>1. ASSUME NEW j \in Absent PROVE j \in Absent'
    BY <1>2, <2>1, StaysAbsent DEF Absent
  <2> QED BY <2>1
<1>3. CASE UNCHANGED op
  <2>1. \A u \in Users : ~Enqueue(u)
    BY <1>3, RequestWrites, Constants DEF Enqueue
  <2> QED BY <1>1, <1>2, <1>3, <2>1 DEF Terminations
<1>4. CASE Crash
  <2>1. \A u \in Users : op'[u].pc = "off"
    BY <1>4, Constants DEF Crash
  <2>2. Absent' = Absent
    BY <1>4 DEF Crash, Absent
  <2> QED BY <1>1, <2>1, <2>2 DEF Terminations
<1>5. ASSUME NEW u \in Users, Ask(u) \/ OpStep(u) PROVE RoomLeft'
  <2>1. RequestMoves(u)
    BY <1>5, Requests
  <2>2. CASE Enqueue(u)
    <3> DEFINE j == Min({i \in Job \ {1} : jobs[i].state = "absent"})
    <3>1. op[u].pc = "enqueue" /\ op'[u].pc = "off"
      BY <2>2, RequestWrites, Constants DEF Enqueue
    <3>2. u \in Terminations
      BY <3>1 DEF RequestShape, Terminations
    <3>3. Terminations' \subseteq Terminations \ {u}
      BY <2>1, <3>1 DEF Terminations, RequestMoves
    <3>4. Cardinality(Terminations') <= Cardinality(Terminations) - 1
      <4>1. Cardinality(Terminations \ {u}) = Cardinality(Terminations) - 1
        BY <1>0, <3>2, FS_RemoveElement
      <4>2. IsFiniteSet(Terminations \ {u})
        BY <1>0, FS_RemoveElement
      <4>3. Cardinality(Terminations') <= Cardinality(Terminations \ {u})
        BY <3>3, <4>2, FS_Subset
      <4> QED BY <4>1, <4>3
    <3>5. Absent \ {j} \subseteq Absent' /\ j \in Absent
      <4>1. j \in Absent
        BY <3>1, NextJob
      <4>2. ASSUME NEW i \in Absent \ {j} PROVE i \in Absent'
        BY <4>2, StaysAbsent DEF Absent
      <4> HIDE DEF j
      <4> QED BY <4>1, <4>2
    <3>6. Cardinality(Absent) - 1 <= Cardinality(Absent')
      <4> HIDE DEF j
      <4>1. Cardinality(Absent \ {j}) = Cardinality(Absent) - 1
        BY <1>0, <3>5, FS_RemoveElement
      <4>2. Cardinality(Absent \ {j}) <= Cardinality(Absent')
        BY <1>0, <3>5, FS_Subset
      <4> QED BY <4>1, <4>2
    <3> QED BY <1>0, <3>4, <3>6 DEF RoomLeft
  <2>3. CASE ~Enqueue(u)
    <3>1. \A v \in Users : ~Enqueue(v)
      <4>1. ASSUME NEW v \in Users, Enqueue(v), v # u PROVE FALSE
        <5>1. op[v].pc = "enqueue" /\ op'[v].pc = "off"
          BY <4>1, RequestWrites, Constants DEF Enqueue
        <5> QED BY <2>1, <4>1, <5>1 DEF RequestMoves
      <4> QED BY <2>3, <4>1
    <3>2. Absent \subseteq Absent'
      BY <1>2, <3>1
    <3>3. CASE op[u].pc # "off" \/ op'[u].kind # "terminate"
      <4>1. Terminations' \subseteq Terminations
        BY <2>1, <3>3, Constants DEF Terminations, RequestMoves
      <4> QED BY <1>1, <3>2, <4>1
    <3>4. CASE op[u].pc = "off" /\ op'[u].kind = "terminate"
      <4>1. MayTerminate
        <5>1. Ask(u)
          BY <1>5, <3>4, Zenon DEF OpStep, EnqueueFirst, Mark, Enqueue, Act, WaitBack, Settle,
             Erase, RefreshIPs, WriteBack
        <5>2. PICK k \in Ops :
                /\ k = "terminate" => MayTerminate
                /\ OpSet(u, [pc |-> FirstPc(k), kind |-> k, inst |-> row.inst,
                             prev |-> row.status,
                             nsg |-> IF k = "refresh" THEN row.nsg ELSE None,
                             key |-> k = "refresh" /\ row.key])
          BY <5>1, Zenon DEF Ask
        <5>3. op'[u] = [pc |-> FirstPc(k), kind |-> k, inst |-> row.inst, prev |-> row.status,
                        nsg |-> IF k = "refresh" THEN row.nsg ELSE None,
                        key |-> k = "refresh" /\ row.key]
          <6>1. \A o : OpSet(u, o) => op'[u] = o
            BY RequestWrites, ZenonT(60)
          <6> QED BY <5>2, <6>1, Zenon
        <5>4. op'[u].kind = k
          BY <5>3
        <5> QED BY <3>4, <5>2, <5>4
      <4>2. Cardinality(Terminations) < Cardinality(Absent)
        BY <4>1 DEF MayTerminate, Terminations, Absent
      <4>3. Terminations' \subseteq Terminations \cup {u}
        BY <2>1 DEF Terminations, RequestMoves
      <4>4. Cardinality(Terminations') <= Cardinality(Terminations) + 1
        <5>1. u \notin Terminations
          BY <3>4 DEF Terminations
        <5>2. /\ IsFiniteSet(Terminations \cup {u})
              /\ Cardinality(Terminations \cup {u}) = Cardinality(Terminations) + 1
          BY <1>0, <5>1, FS_AddElement
        <5> QED BY <4>3, <5>2, FS_Subset
      <4>5. Cardinality(Absent) <= Cardinality(Absent')
        BY <1>0, <3>2, FS_Subset
      <4> QED BY <1>0, <4>2, <4>4, <4>5 DEF RoomLeft
    <3> QED BY <3>3, <3>4
  <2> QED BY <2>2, <2>3
<1> QED BY <1>3, <1>4, <1>5, Writers

-----------------------------------------------------------------------------
(* Every step names what was made.                                         *)

\* Where the instance and the NSG of the row come from.
LEMMA RowMoves ==
  ASSUME Typed, RequestShape, NamesAreUsed, Next
  PROVE  \/ UNCHANGED row
         \/ row'.exists = row.exists /\ row'.inst = row.inst /\ row'.nsg = row.nsg
         \/ /\ SaveInstance \/ Finish
            /\ row.exists /\ row'.exists /\ row'.inst = w.inst /\ row'.nsg = w.nsg
         \/ /\ SaveNSG
            /\ row.exists /\ row'.exists /\ row'.inst = row.inst /\ row'.nsg = w.nsg
         \/ /\ ClearNSG \/ (Unhook /\ nsgs[row.nsg] = "live" /\ nsgs'[row.nsg] = "gone")
            /\ row.exists /\ row'.exists /\ row'.inst = row.inst /\ row'.nsg = None
         \/ \E u \in Users : Erase(u) /\ row' = NoRow
         \/ \E u \in Users : /\ WriteBack(u)
                             /\ row.exists /\ row'.exists /\ row'.status = op[u].prev
                             /\ row'.inst = op[u].inst /\ row'.nsg = op[u].nsg
<1> DEFINE Same == row'.exists = row.exists /\ row'.inst = row.inst /\ row'.nsg = row.nsg
<1>0. row \in RowRecord /\ nsgs \in [Id -> {"none", "live", "gone"}]
  BY DEF Typed
<1>1. \A s : StatusSet(s) => Same
  BY RowWrites DEF RowGets
<1>2. CASE Worker
  <2>1. CASE \/ Begin \/ CreateNSG \/ MarkVPSFailed \/ Terminated \/ RolledBack \/ Terminate
    <3>1. UNCHANGED row \/ \E s : StatusSet(s)
      BY <2>1, Zenon DEF Begin, CreateNSG, MarkVPSFailed, Terminated, RolledBack, Terminate
    <3> QED BY <1>1, <3>1
  <2>2. CASE SaveInstance \/ Finish
    <3>1. UNCHANGED row \/ \E s, key : RowUpdate(s, key)
      BY <2>2, Zenon DEF SaveInstance, Finish
    <3>2. CASE row.exists
      BY <2>2, <3>1, <3>2, RowWrites
    <3>3. CASE ~row.exists
      BY <3>1, <3>3 DEF RowUpdate, Written
    <3> QED BY <3>2, <3>3
  <2>3. CASE SaveNSG
    <3>1. UNCHANGED row \/ Written([row EXCEPT !.nsg = w.nsg])
      BY <2>3, Zenon DEF SaveNSG
    <3>2. CASE row.exists
      BY <2>3, <3>1, <3>2, RowWrites
    <3>3. CASE ~row.exists
      BY <3>1, <3>3 DEF Written
    <3> QED BY <3>2, <3>3
  <2>4. CASE ClearNSG
    <3>1. UNCHANGED row \/ Written([row EXCEPT !.nsg = None])
      BY <2>4, Zenon DEF ClearNSG
    <3>2. CASE row.exists
      BY <2>4, <3>1, <3>2, RowWrites
    <3>3. CASE ~row.exists
      BY <3>1, <3>3 DEF Written
    <3> QED BY <3>2, <3>3
  <2>5. CASE Unhook
    <3>1. \/ UNCHANGED row
          \/ /\ row.exists /\ row.nsg # None
             /\ Deletable(row.nsg) /\ nsgs' = [nsgs EXCEPT ![row.nsg] = "gone"]
             /\ Written([row EXCEPT !.nsg = None])
      BY <2>5, Zenon DEF Unhook, TryDeleteNSG
    <3>2. row.nsg # None => row.nsg \in Id
      BY Fields DEF MaybeId
    <3> QED BY <1>0, <2>5, <3>1, <3>2, RowWrites DEF Deletable
  <2>6. CASE \/ Claim \/ AddRules \/ DropNSG \/ Launch \/ WaitRunning \/ WaitTerminated
             \/ MarkComplete \/ MarkFailed \/ GiveUp
    BY <2>6, Zenon DEF Claim, AddRules, DropNSG, Launch, WaitRunning, WaitTerminated,
       MarkComplete, MarkFailed, GiveUp
  <2> QED BY <1>2, <2>1, <2>2, <2>3, <2>4, <2>5, <2>6 DEF Worker
<1>3. CASE Reconcile
  <2>1. ASSUME Stuck, ~UNCHANGED row PROVE \E s : StatusSet(s)
    <3>1. \/ row.inst = None \/ InState(row.inst, {"running"}) \/ InState(row.inst, Dead)
          \/ InState(row.inst, {"booting", "stopped"})
      BY Fields DEF NamesAreUsed, UsedInstances, InState, Dead, InstanceState
    <3>2. CASE row.inst # None /\ InState(row.inst, {"booting", "stopped"})
      <4>1. ~InState(row.inst, {"running"}) /\ ~InState(row.inst, Dead)
        BY <3>2 DEF InState, Dead
      <4> QED BY <1>3, <2>1, <3>2, <4>1, Zenon DEF Reconcile
    <3> QED BY <1>3, <2>1, <3>1, <3>2, Zenon DEF Reconcile
  <2> QED BY <1>1, <1>3, <2>1 DEF Reconcile
<1>4. CASE Crash \/ Serve \/ Boots \/ Ends
  BY <1>4, Frames DEF Crash, Serve
<1>5. ASSUME NEW u \in Users, Ask(u) \/ OpStep(u)
      PROVE  \/ UNCHANGED row \/ Same
             \/ Erase(u) /\ row' = NoRow
             \/ /\ WriteBack(u)
                /\ row.exists /\ row'.exists /\ row'.status = op[u].prev
                /\ row'.inst = op[u].inst /\ row'.nsg = op[u].nsg
  <2>1. CASE Mark(u) \/ Enqueue(u) \/ Settle(u)
    <3>1. UNCHANGED row \/ \E s : StatusSet(s)
      BY <2>1, Zenon DEF Mark, Enqueue, EndedAtOnce, Settle
    <3> QED BY <1>1, <3>1
  <2>2. CASE Erase(u)
    BY <2>2 DEF Erase
  <2>3. CASE WriteBack(u)
    <3> DEFINE r == [row EXCEPT !.status = op[u].prev, !.inst = op[u].inst, !.nsg = op[u].nsg,
                                !.key = op[u].key]
    <3>1. /\ r.exists = row.exists /\ r.status = op[u].prev /\ r.inst = op[u].inst
          /\ r.nsg = op[u].nsg
      BY <1>0 DEF RowRecord
    <3>2. UNCHANGED row \/ (row.exists /\ row' = r)
      BY <2>3, Zenon DEF WriteBack, Written
    <3> HIDE DEF r
    <3> QED BY <2>3, <3>1, <3>2
  <2>4. CASE Ask(u) \/ EnqueueFirst(u) \/ Act(u) \/ WaitBack(u) \/ RefreshIPs(u)
    BY <2>4, Zenon DEF Ask, EnqueueFirst, Act, WaitBack, RefreshIPs
  <2> QED BY <1>5, <2>1, <2>2, <2>3, <2>4 DEF OpStep
<1> QED BY <1>2, <1>3, <1>4, <1>5 DEF Next

\* Where the worker goes, and with what.
LEMMA WorkerMoves ==
  ASSUME Typed, WorkerShape, JobsShape, MadeByRuns, Next
  PROVE  \/ UNCHANGED w
         \/ w'.inst = None /\ w'.nsg = None
         \/ Keeps
         \/ \E j \in Job \ {1} : w'.job = j /\ w'.inst = jobs[j].inst /\ w'.nsg = None
         \/ /\ w'.nsg = w.nsg
            /\ \/ w'.inst \in {None, row.inst, w.inst}
               \/ Launched(w.nsg) /\ w'.inst = FreshInstance /\ FreshInstance \in Id
         \/ /\ w'.inst = w.inst /\ w'.nsg = Fresh(nsgs) /\ Fresh(nsgs) \in Id
            /\ nsgs' = [nsgs EXCEPT ![Fresh(nsgs)] = "live"]
<1>0. w \in WorkerRecord /\ Idle \in WorkerRecord
  BY Constants DEF Typed
<1>1. \A pc : Goto(pc) => Keeps
  BY WorkerWrites
<1>2. \A i, after : RollbackBegins(i, after) => w'.inst = i /\ w'.nsg = w.nsg
  BY WorkerWrites
<1>3. CASE Worker
  <2>1. CASE Claim
    <3>1. PICK j \in Job :
            w' = IF j = 1
                   THEN [Idle EXCEPT !.pc = "begin"]
                   ELSE [Idle EXCEPT !.pc = "terminate", !.job = j,
                           !.inst = jobs[j].inst, !.after = "complete"]
      BY <2>1, Zenon DEF Claim
    <3>2. CASE j = 1
      BY <1>0, <3>1, <3>2, Constants DEF WorkerRecord
    <3>3. CASE j # 1
      BY <1>0, <3>1, <3>3, Constants DEF WorkerRecord
    <3> QED BY <3>2, <3>3
  <2>2. CASE Begin
    <3>1. Keeps
      BY <1>0, <1>1, <2>2 DEF Begin, Keeps, WorkerRecord
    <3> QED BY <3>1
  <2>3. CASE CreateNSG
    <3>1. Fresh(nsgs) \in Id
      BY <2>3, FreshNumbers DEF CreateNSG
    <3>2. [w EXCEPT !.pc = "save_nsg", !.nsg = Fresh(nsgs)].nsg = Fresh(nsgs)
          /\ [w EXCEPT !.pc = "save_nsg", !.nsg = Fresh(nsgs)].inst = w.inst
      BY <1>0 DEF WorkerRecord
    <3> QED BY <1>1, <2>3, <3>1, <3>2, Zenon DEF CreateNSG
  <2>4. CASE Launch
    <3>1. FreshInstance \in Id
      BY <2>4, FreshNumbers DEF Launch
    <3>2. [w EXCEPT !.pc = "save_instance", !.inst = FreshInstance].inst = FreshInstance
          /\ [w EXCEPT !.pc = "save_instance", !.inst = FreshInstance].nsg = w.nsg
      BY <1>0 DEF WorkerRecord
    <3> QED BY <1>2, <2>4, <3>1, <3>2 DEF Launch
  <2>5. CASE \/ SaveNSG \/ AddRules \/ DropNSG \/ ClearNSG \/ MarkVPSFailed \/ SaveInstance
             \/ Finish \/ Terminate \/ WaitTerminated \/ Terminated \/ Unhook \/ RolledBack
    <3>1. \E pc : Goto(pc)
      BY <2>5, Zenon DEF SaveNSG, AddRules, DropNSG, ClearNSG, MarkVPSFailed, SaveInstance,
         Finish, Terminate, WaitTerminated, Terminated, ThenGoto, Unhook, RolledBack
    <3> QED BY <1>1, <3>1
  <2>6. CASE WaitRunning
    <3>1. Goto("finish") \/ RollbackBegins(w.inst, "error")
      BY <2>6, Zenon DEF WaitRunning, FailRun
    <3> QED BY <1>1, <1>2, <3>1
  <2>7. CASE MarkComplete \/ GiveUp
    BY <2>7, Constants, Zenon DEF MarkComplete, GiveUp
  <2>8. CASE MarkFailed
    <3>1. \/ w' = Idle \/ Goto("given_up") \/ Goto("dead") \/ RollbackBegins(row.inst, "give_up")
      BY <2>8, Zenon DEF MarkFailed
    <3> QED BY <1>1, <1>2, <3>1, Constants
  <2> QED BY <1>3, <2>1, <2>2, <2>3, <2>4, <2>5, <2>6, <2>7, <2>8 DEF Worker
<1>4. CASE Reconcile
  <2>1. Goto("resume") \/ RollbackBegins(row.inst, "serve")
    BY <1>4, Zenon DEF Reconcile
  <2> QED BY <1>1, <1>2, <2>1
<1>5. CASE Crash \/ Serve
  BY <1>5, Constants DEF Crash, Serve
<1> QED BY <1>3, <1>4, <1>5, Writers

\* No step names an instance or an NSG that was not made.
LEMMA NamesStep ==
  ASSUME Typed, WorkerShape, JobsShape, RequestShape, RoomLeft, NamesAreUsed, MadeByRuns,
         Next
  PROVE  NamesAreUsed'
<1> DEFINE I == UsedInstances \cup {None}
           N == UsedNSGs \cup {None}
<1>0. I \subseteq I' /\ N \subseteq N'
  BY CloudTyped DEF UsedInstances, UsedNSGs
<1>1. /\ row.inst \in I' /\ w.inst \in I' /\ \A j \in Job : jobs[j].inst \in I'
      /\ \A u \in Users : op[u].inst \in I'
      /\ row.nsg \in N' /\ w.nsg \in N' /\ \A u \in Users : op[u].nsg \in N'
      /\ None \in I' /\ None \in N'
  <2> HIDE DEF I, N
  <2>1. /\ row.inst \in I /\ w.inst \in I /\ \A j \in Job : jobs[j].inst \in I
        /\ \A u \in Users : op[u].inst \in I
        /\ row.nsg \in N /\ w.nsg \in N /\ \A u \in Users : op[u].nsg \in N
        /\ None \in I /\ None \in N
    BY DEF NamesAreUsed, I, N
  <2> QED BY <1>0, <2>1
<1>2. row'.inst \in I' /\ row'.nsg \in N'
  <2> HIDE DEF I, N
  <2> QED BY <1>1, RowMoves, Constants
<1>3. w'.inst \in I' /\ w'.nsg \in N'
  <2>1. Launched(w.nsg) /\ FreshInstance \in Id => FreshInstance \in I'
    BY DEF Launched, UsedInstances, Typed
  <2>2. /\ nsgs' = [nsgs EXCEPT ![Fresh(nsgs)] = "live"] /\ Fresh(nsgs) \in Id
        => Fresh(nsgs) \in N'
    BY DEF UsedNSGs, Typed
  <2> HIDE DEF I, N
  <2> QED BY <1>1, <2>1, <2>2, WorkerMoves, Constants DEF Keeps
<1>4. ASSUME NEW j \in Job PROVE jobs'[j].inst \in I'
  <2> HIDE DEF I, N
  <2>0. jobs \in [Job -> JobRecord]
    BY DEF Typed
  <2>1. CASE \/ Claim \/ Serve \/ UNCHANGED jobs \/ \E u \in Users : EnqueueFirst(u)
    <3>1. \/ UNCHANGED jobs \/ jobs' = Resumed
          \/ \E k \in Job : \E s : jobs' = [jobs EXCEPT ![k].state = s]
      BY <2>1, Numbers, Zenon DEF Claim, Serve, EnqueueFirst
    <3>2. jobs' = Resumed => jobs'[j].inst = jobs[j].inst
      BY <2>0 DEF Resumed, JobRecord
    <3>3. ASSUME NEW k \in Job, NEW s, jobs' = [jobs EXCEPT ![k].state = s]
          PROVE  jobs'[j].inst = jobs[j].inst
      BY <2>0, <3>3 DEF JobRecord
    <3> QED BY <1>1, <3>1, <3>2, <3>3
  <2>2. CASE MarkComplete \/ GiveUp \/ MarkFailed
    <3>1. UNCHANGED jobs \/ \E s, a : JobSet(s, a)
      BY <2>2, Zenon DEF MarkComplete, GiveUp, MarkFailed
    <3>2. jobs'[j].inst = jobs[j].inst
      BY <3>1, JobWrites
    <3> QED BY <1>1, <3>2
  <2>3. ASSUME NEW u \in Users, Enqueue(u) PROVE jobs'[j].inst \in I'
    <3>1. \/ UNCHANGED jobs
          \/ \E k : jobs' = [jobs EXCEPT ![k] = [state |-> "pending", attempts |-> 0,
                                                 inst |-> op[u].inst]]
      BY <2>3, Zenon DEF Enqueue
    <3>2. jobs'[j].inst \in {jobs[j].inst, op[u].inst}
      BY <2>0, <3>1
    <3> QED BY <1>1, <3>2
  <2> QED BY <2>1, <2>2, <2>3, Writers
<1>5. ASSUME NEW v \in Users PROVE op'[v].inst \in I' /\ op'[v].nsg \in N'
  <2> HIDE DEF I, N
  <2>1. CASE UNCHANGED op
    BY <1>1, <2>1
  <2>2. CASE Crash
    BY <1>1, <2>2, Constants DEF Crash
  <2>3. ASSUME NEW u \in Users, Ask(u) \/ OpStep(u) PROVE op'[v].inst \in I' /\ op'[v].nsg \in N'
    <3>1. RequestMoves(u)
      BY <2>3, Requests
    <3>2. op'[v].inst \in {op[v].inst, row.inst, None} /\ op'[v].nsg \in {op[v].nsg, row.nsg, None}
      BY <3>1, Constants DEF RequestMoves
    <3> QED BY <1>1, <3>2
  <2> QED BY <2>1, <2>2, <2>3, Writers
<1> QED BY <1>2, <1>3, <1>4, <1>5 DEF NamesAreUsed

-----------------------------------------------------------------------------
(* Every step leaves the worker where it can be.                           *)

\* The shape of a worker that serves, and of one that reconciles.
Serving ==
  /\ phase = "serving"
  /\ w.pc # "resume"
  /\ w.pc = "idle" => w = Idle
  /\ w.pc \in Provisioning => w.job = 1
  /\ w.pc \in Rolling => /\ w.after \in {"complete", "error", "give_up"}
                         /\ w.after = "complete" <=> w.job # 1
  /\ w.pc \in {"unhook_again", "rolled_back"} => w.after # "complete"
  /\ w.pc = "terminate" => w.inst # None
  /\ w.pc # "idle" => jobs[w.job].state = "running"

Booting ==
  /\ phase = "boot"
  /\ \A u \in Users : op[u].pc = "off"
  /\ w.pc = "idle" => w = Idle
  /\ \/ w.pc \in {"idle", "resume"}
     \/ w.pc \in Rolling /\ w.after = "serve" /\ row.exists /\ w.job = 1
  /\ w.pc = "terminate" => w.inst # None

\* The worker serves or reconciles.
LEMMA ShapeParts ==
  ASSUME Typed
  PROVE  WorkerShape <=> Serving \/ Booting
<1>1. phase \in {"boot", "serving"} /\ w.after \in After /\ w.job \in Job
  BY Fields DEF Typed
<1> QED BY <1>1 DEF WorkerShape, Serving, Booting, Provisioning, Rolling, After

\* The worker serves, and what it does leaves the jobs alone.
LEMMA WorkerServes ==
  ASSUME Typed, JobsShape, RequestShape, NamesAreUsed, MadeByRuns, Serving,
         Begin \/ CreateNSG \/ SaveNSG \/ AddRules \/ DropNSG \/ ClearNSG \/ MarkVPSFailed
         \/ Launch \/ SaveInstance \/ WaitRunning \/ Finish \/ Terminate \/ WaitTerminated
         \/ Unhook \/ Terminated \/ RolledBack
  PROVE  Serving'
<1>1. UNCHANGED <<jobs, phase>> /\ w.pc # "idle"
  BY Zenon DEF Begin, CreateNSG, SaveNSG, AddRules, DropNSG, ClearNSG, MarkVPSFailed,
     Launch, SaveInstance, WaitRunning, Finish, Terminate, WaitTerminated, Unhook, Terminated,
     RolledBack
<1>2. jobs'[w.job].state = "running" /\ phase' = "serving"
  BY <1>1 DEF Serving
<1>3. ASSUME w'.job = w.job, w.job = 1, w'.pc \in Provisioning \cup {"error", "complete"}
      PROVE  Serving'
  BY <1>2, <1>3 DEF Serving, Provisioning, Rolling
<1>4. ASSUME w'.job = w.job, w.job = 1, w'.pc = "unhook_again" \/ (w'.pc = "terminate" /\ w'.inst # None),
             w'.after = "error"
      PROVE  Serving'
  BY <1>2, <1>4 DEF Serving, Provisioning, Rolling
<1>5. CASE \/ Begin \/ CreateNSG \/ SaveNSG \/ AddRules \/ DropNSG \/ ClearNSG \/ MarkVPSFailed
           \/ SaveInstance \/ Finish
  <2>1. w.job = 1
    BY <1>5, Zenon DEF Begin, CreateNSG, SaveNSG, AddRules, DropNSG, ClearNSG, MarkVPSFailed,
       SaveInstance, Finish, Serving, Provisioning
  <2>2. \/ \E pc \in Provisioning \cup {"error", "complete"} : Goto(pc)
        \/ w' = [w EXCEPT !.pc = "create_nsg", !.key = row.key]
        \/ w' = [w EXCEPT !.pc = "save_nsg", !.nsg = Fresh(nsgs)]
    <3>1. Provisioning \cup {"error", "complete"} =
            {"begin", "create_nsg", "save_nsg", "rules", "drop_nsg", "clear_nsg",
             "mark_failed", "launch", "save_instance", "wait", "finish", "error", "complete"}
      BY DEF Provisioning
    <3>2. CASE Begin
      BY <3>1, <3>2, Zenon DEF Begin
    <3>3. CASE CreateNSG
      BY <3>1, <3>3, Zenon DEF CreateNSG
    <3>4. CASE \/ SaveNSG \/ AddRules \/ DropNSG \/ ClearNSG \/ MarkVPSFailed \/ SaveInstance
               \/ Finish
      BY <3>1, <3>4, Zenon DEF SaveNSG, AddRules, DropNSG, ClearNSG, MarkVPSFailed,
         SaveInstance, Finish
    <3> QED BY <1>5, <3>2, <3>3, <3>4
  <2>3. w'.job = w.job /\ w'.pc \in Provisioning \cup {"error", "complete"}
    <3>1. w \in WorkerRecord
      BY DEF Typed
    <3>2. CASE \E pc \in Provisioning \cup {"error", "complete"} : Goto(pc)
      BY <3>2, WorkerWrites DEF Keeps
    <3>3. CASE ~\E pc \in Provisioning \cup {"error", "complete"} : Goto(pc)
      BY <2>2, <3>1, <3>3 DEF WorkerRecord, Provisioning
    <3> QED BY <3>2, <3>3
  <2> QED BY <1>3, <2>1, <2>3
<1>6. CASE Launch \/ WaitRunning
  <2>1. w.job = 1 /\ w.pc \in {"launch", "wait"}
    BY <1>6, Zenon DEF Launch, WaitRunning, Serving, Provisioning
  <2>2. \/ w' = [w EXCEPT !.pc = "save_instance", !.inst = FreshInstance]
        \/ Goto("finish") \/ \E i : RollbackBegins(i, "error")
    BY <1>6, Zenon DEF Launch, WaitRunning, FailRun
  <2>3. CASE w' = [w EXCEPT !.pc = "save_instance", !.inst = FreshInstance]
    <3>1. w'.pc = "save_instance" /\ w'.job = w.job
      BY <2>3 DEF Typed, WorkerRecord
    <3> QED BY <1>3, <2>1, <3>1 DEF Provisioning
  <2>4. CASE Goto("finish")
    BY <1>3, <2>1, <2>4, WorkerWrites DEF Provisioning, Keeps
  <2>5. ASSUME NEW i, RollbackBegins(i, "error") PROVE Serving'
    BY <1>4, <2>1, <2>5, WorkerWrites
  <2> QED BY <2>2, <2>3, <2>4, <2>5
<1>7. CASE Terminate \/ WaitTerminated \/ Unhook \/ Terminated \/ RolledBack
  <2>1. /\ w.pc \in Rolling /\ w.after \in {"complete", "error", "give_up"}
        /\ w.after = "complete" <=> w.job # 1
        /\ w.pc \in {"unhook_again", "rolled_back"} => w.after # "complete"
    <3>1. w.pc \in Rolling
      BY <1>7, Zenon DEF Terminate, WaitTerminated, Unhook, Terminated, RolledBack, Rolling
    <3> QED BY <3>1 DEF Serving
  <2>2. PICK pc : /\ Goto(pc)
                  /\ pc \in {"gone", "unhook", "terminated", "error", "dead", "complete", "given_up",
                             "unhook_again", "rolled_back"}
                  /\ pc \in {"unhook_again", "rolled_back"} => w.after # "complete"
    <3>1. CASE Terminate \/ WaitTerminated \/ Terminated
      <4>1. ASSUME NEW s \in {"error", "complete"}, ThenGoto(s)
            PROVE  Goto(s) \/ (Goto("unhook_again") /\ w.after # "complete")
        BY <4>1 DEF ThenGoto
      <4>2. \/ Goto("gone") \/ Goto("unhook") \/ ThenGoto("error") \/ ThenGoto("complete")
        BY <3>1, Zenon DEF Terminate, WaitTerminated, Terminated
      <4> QED BY <4>1, <4>2
    <3>2. CASE Unhook
      <4>1. \/ Goto(IF w.pc = "unhook" THEN "terminated" ELSE "rolled_back")
            \/ Goto(IF w.after = "give_up" THEN "dead" ELSE "error")
        BY <3>2, Zenon DEF Unhook
      <4>2. w.pc # "unhook" => w.after # "complete"
        BY <2>1, <3>2 DEF Unhook
      <4> QED BY <4>1, <4>2
    <3>3. CASE RolledBack
      BY <2>1, <3>3, Zenon DEF RolledBack
    <3> QED BY <1>7, <3>1, <3>2, <3>3
  <2>3. w'.pc = pc /\ w'.job = w.job /\ w'.after = w.after
    BY <2>2, WorkerWrites DEF Keeps
  <2> QED BY <1>2, <2>1, <2>2, <2>3 DEF Serving, Provisioning, Rolling
<1> QED BY <1>5, <1>6, <1>7

\* Every step leaves the worker where it can be for its job.
LEMMA WorkerStep ==
  ASSUME Typed, WorkerShape, JobsShape, RequestShape, RoomLeft, NamesAreUsed, MadeByRuns,
         Next
  PROVE  WorkerShape'
<1>0. Typed' /\ (Serving \/ Booting)
  BY TypeStep, ShapeParts
<1>1. (Serving' \/ Booting') => WorkerShape'
  BY DEF Serving, Booting, WorkerShape, Provisioning, Rolling
<1>2. CASE Crash
  <2>1. phase' = "boot" /\ w' = Idle /\ \A u \in Users : op'[u] = Off
    BY <1>2 DEF Crash
  <2> QED BY <1>1, <2>1, Constants DEF Booting
<1>3. CASE Serving /\ ~Crash
  <2>1. CASE \/ Begin \/ CreateNSG \/ SaveNSG \/ AddRules \/ DropNSG \/ ClearNSG
             \/ MarkVPSFailed \/ Launch \/ SaveInstance \/ WaitRunning \/ Finish \/ Terminate
             \/ WaitTerminated \/ Unhook \/ Terminated \/ RolledBack
    BY <1>1, <1>3, <2>1, WorkerServes
  <2>2. CASE Claim
    <3>1. PICK j \in Job :
            /\ jobs[j].state = "pending"
            /\ jobs' = [jobs EXCEPT ![j].state = "running"]
            /\ w' = IF j = 1
                      THEN [Idle EXCEPT !.pc = "begin"]
                      ELSE [Idle EXCEPT !.pc = "terminate", !.job = j,
                              !.inst = jobs[j].inst, !.after = "complete"]
      BY <2>2, Zenon DEF Claim
    <3>2. jobs'[j].state = "running"
      BY <3>1 DEF Typed, JobRecord
    <3>3. phase' = "serving"
      BY <2>2 DEF Claim
    <3>4. CASE j = 1
      <4>1. w'.pc = "begin" /\ w'.job = 1
        BY <3>1, <3>4, Constants DEF WorkerRecord
      <4> QED BY <1>1, <3>2, <3>3, <3>4, <4>1 DEF Serving, Provisioning, Rolling
    <3>5. CASE j # 1
      <4>1. w'.pc = "terminate" /\ w'.job = j /\ w'.inst = jobs[j].inst /\ w'.after = "complete"
        BY <3>1, <3>5, Constants DEF WorkerRecord
      <4>2. jobs[j].inst # None
        BY <3>1, <3>5 DEF JobsShape
      <4> QED BY <1>1, <3>2, <3>3, <3>5, <4>1, <4>2 DEF Serving, Provisioning, Rolling
    <3> QED BY <3>4, <3>5
  <2>3. CASE MarkComplete \/ GiveUp
    <3>1. w' = Idle /\ UNCHANGED phase
      BY <2>3, Zenon DEF MarkComplete, GiveUp
    <3> QED BY <1>1, <1>3, <3>1, Constants DEF Serving, Provisioning, Rolling
  <2>4. CASE MarkFailed
    <3>1. UNCHANGED phase /\ w.pc = "error"
      BY <2>4, Zenon DEF MarkFailed
    <3>2. \/ w' = Idle
          \/ /\ UNCHANGED jobs
             /\ \/ Goto("given_up") \/ Goto("dead")
                \/ w.job = 1 /\ RollbackBegins(row.inst, "give_up")
      BY <2>4, Zenon DEF MarkFailed, NoRollback
    <3>3. CASE w' = Idle
      BY <1>1, <1>3, <3>1, <3>3, Constants DEF Serving, Provisioning, Rolling
    <3>4. ASSUME UNCHANGED jobs, NEW pc \in {"given_up", "dead"}, Goto(pc) PROVE WorkerShape'
      <4>1. w'.pc = pc /\ w'.job = w.job
        BY <3>4, WorkerWrites DEF Keeps
      <4> QED BY <1>1, <1>3, <3>1, <3>4, <4>1 DEF Serving, Provisioning, Rolling
    <3>5. ASSUME UNCHANGED jobs, w.job = 1, RollbackBegins(row.inst, "give_up")
          PROVE  WorkerShape'
      <4>1. /\ w'.pc = IF row.inst = None THEN "unhook_again" ELSE "terminate"
            /\ w'.job = w.job /\ w'.inst = row.inst /\ w'.after = "give_up"
        BY <3>5, WorkerWrites
      <4> QED BY <1>1, <1>3, <3>1, <3>5, <4>1 DEF Serving, Provisioning, Rolling
    <3> QED BY <3>2, <3>3, <3>4, <3>5
  <2>5. ASSUME UNCHANGED <<w, phase>> PROVE WorkerShape'
    <3>1. w.pc # "idle" => jobs'[w.job].state = "running"
      <4>1. ASSUME w.pc # "idle" PROVE jobs'[w.job].state = "running"
        <5>1. jobs[w.job].state = "running" /\ w.job \in Job
          BY <1>3, <4>1, Fields DEF Serving
        <5>2. CASE UNCHANGED jobs
          BY <5>1, <5>2
        <5>3. CASE Claim \/ MarkComplete \/ GiveUp \/ MarkFailed
          <6>1. w' # w
            <7>1. CASE Claim \/ MarkComplete \/ GiveUp
              BY <1>3, <4>1, <7>1, Constants, Zenon DEF Claim, MarkComplete, GiveUp
            <7>2. CASE MarkFailed
              <8>1. /\ w.pc = "error"
                    /\ w' = Idle \/ Goto("given_up") \/ Goto("dead") \/ RollbackBegins(row.inst, "give_up")
                BY <7>2, Zenon DEF MarkFailed
              <8> QED BY <8>1, WorkerWrites, Constants
            <7> QED BY <5>3, <7>1, <7>2
          <6> QED BY <2>5, <6>1
        <5>4. CASE Serve
          BY <1>3, <5>4 DEF Serving, Serve
        <5>5. ASSUME NEW u \in Users, EnqueueFirst(u) \/ Enqueue(u)
              PROVE  jobs'[w.job].state = "running"
          <6>1. \/ UNCHANGED jobs
                \/ \E k \in Job : jobs[k].state = "absent" /\ \A j \in Job \ {k} : jobs'[j] = jobs[j]
            <7>1. CASE EnqueueFirst(u)
              BY <7>1, Numbers DEF EnqueueFirst, RequestShape, Typed
            <7>2. CASE Enqueue(u)
              <8>1. Min({i \in Job \ {1} : jobs[i].state = "absent"}) \in Absent
                BY <7>2, NextJob DEF Enqueue
              <8>2. \/ UNCHANGED jobs
                    \/ \E r : jobs' = [jobs EXCEPT ![Min({i \in Job \ {1} : jobs[i].state = "absent"})] = r]
                BY <7>2, Zenon DEF Enqueue
              <8> QED BY <8>1, <8>2 DEF Absent, Typed
            <7> QED BY <5>5, <7>1, <7>2
          <6> QED BY <5>1, <6>1
        <5> QED BY <5>2, <5>3, <5>4, <5>5, Writers
      <4> QED BY <4>1
    <3> QED BY <1>1, <1>3, <2>5, <3>1 DEF Serving
  <2>6. ~Reconcile /\ ~Serve
    BY <1>3 DEF Serving, Reconcile, Serve
  <2>7. Boots \/ Ends => UNCHANGED <<w, phase>>
    BY Frames
  <2>8. ASSUME NEW u \in Users, Ask(u) \/ OpStep(u) PROVE UNCHANGED <<w, phase>>
    BY <2>8, Frames DEF Ask
  <2> QED BY <1>3, <2>1, <2>2, <2>3, <2>4, <2>5, <2>6, <2>7, <2>8 DEF Next, Worker
<1>4. CASE Booting /\ ~Crash
  <2>1. ASSUME NEW u \in Users, Ask(u) \/ OpStep(u) PROVE FALSE
    BY <1>4, <2>1, Zenon DEF Booting, Ask, OpStep, EnqueueFirst, Mark, Enqueue, Act, WaitBack,
       Settle, Erase, RefreshIPs, WriteBack
  <2>2. UNCHANGED op
    BY <1>4, <2>1, Writers
  <2>3. ASSUME UNCHANGED phase, w'.pc = "resume" PROVE WorkerShape'
    BY <1>1, <1>4, <2>2, <2>3 DEF Booting
  <2>4. row.exists => row'.exists
    <3>1. ASSUME NEW u \in Users, Erase(u) PROVE FALSE
      BY <2>1, <3>1 DEF OpStep
    <3> QED BY <3>1, RowMoves
  <2>5. CASE Terminate \/ WaitTerminated \/ Unhook \/ Terminated \/ RolledBack
    <3>0. UNCHANGED phase
      BY <2>5, Zenon DEF Terminate, WaitTerminated, Unhook, Terminated, RolledBack
    <3>1. w.pc \in Rolling /\ w.after = "serve" /\ row.exists /\ w.job = 1
      <4>1. w.pc \notin {"idle", "resume"}
        BY <2>5, Zenon DEF Terminate, WaitTerminated, Unhook, Terminated, RolledBack
      <4> QED BY <1>4, <4>1 DEF Booting
    <3>2. PICK pc : Goto(pc) /\ pc \in {"gone", "unhook", "terminated", "resume", "unhook_again",
                                         "rolled_back"}
      <4>1. CASE Terminate \/ WaitTerminated \/ Terminated
        <5>1. ASSUME NEW s, ThenGoto(s) PROVE Goto("unhook_again")
          BY <3>1, <5>1 DEF ThenGoto
        <5>2. Goto("gone") \/ Goto("unhook") \/ ThenGoto("error") \/ ThenGoto("complete")
          BY <4>1, Zenon DEF Terminate, WaitTerminated, Terminated
        <5> QED BY <5>1, <5>2
      <4>2. CASE Unhook
        <5>1. Goto(IF w.pc = "unhook" THEN "terminated" ELSE "rolled_back")
          BY <3>1, <4>2, Zenon DEF Unhook
        <5> QED BY <5>1
      <4>3. CASE RolledBack
        BY <3>1, <4>3 DEF RolledBack
      <4> QED BY <2>5, <4>1, <4>2, <4>3
    <3>3. w'.pc = pc /\ w'.job = w.job /\ w'.after = w.after
      BY <3>2, WorkerWrites DEF Keeps
    <3> QED BY <1>1, <1>4, <2>2, <2>4, <3>0, <3>1, <3>2, <3>3 DEF Booting, Rolling
  <2>6. CASE Reconcile
    <3>1. UNCHANGED <<phase, row>> \/ Goto("resume")
      BY <2>6, Zenon DEF Reconcile
    <3>2. \/ Goto("resume")
          \/ Stuck /\ row.inst # None /\ RollbackBegins(row.inst, "serve")
      BY <2>6, Zenon DEF Reconcile
    <3>3. UNCHANGED phase /\ w.pc = "idle"
      BY <2>6, Zenon DEF Reconcile
    <3>4. CASE Goto("resume")
      BY <2>3, <3>3, <3>4, WorkerWrites
    <3>5. CASE Stuck /\ row.inst # None /\ RollbackBegins(row.inst, "serve")
      <4>1. w'.pc = "terminate" /\ w'.job = w.job /\ w'.inst = row.inst /\ w'.after = "serve"
        BY <3>5, WorkerWrites
      <4>2. w.job = 1
        BY <1>4, <3>3, Constants DEF Booting
      <4>3. row'.exists
        BY <2>4, <3>5 DEF Stuck
      <4> QED BY <1>1, <1>4, <2>2, <3>3, <3>5, <4>1, <4>2, <4>3 DEF Booting, Rolling
    <3> QED BY <3>2, <3>4, <3>5
  <2>7. CASE Serve
    <3>1. phase' = "serving" /\ w' = Idle
      BY <2>7 DEF Serve
    <3> QED BY <1>1, <3>1, Constants DEF Serving, Provisioning, Rolling
  <2>8. CASE Boots \/ Ends
    BY <1>1, <1>4, <2>2, <2>4, <2>8, Frames DEF Booting
  <2>9. CASE \/ Claim \/ Begin \/ CreateNSG \/ SaveNSG \/ AddRules \/ DropNSG \/ ClearNSG
             \/ MarkVPSFailed \/ Launch \/ SaveInstance \/ WaitRunning \/ Finish \/ MarkComplete
             \/ MarkFailed \/ GiveUp
    <3>1. \/ phase = "serving"
          \/ w.pc \in Provisioning \cup {"complete", "error", "given_up"}
      BY <2>9, Zenon DEF Claim, Begin, CreateNSG, SaveNSG, AddRules, DropNSG, ClearNSG,
         MarkVPSFailed, Launch, SaveInstance, WaitRunning, Finish, MarkComplete, MarkFailed, GiveUp,
         Provisioning
    <3> QED BY <1>4, <3>1 DEF Booting, Provisioning, Rolling
  <2> QED BY <1>4, <2>1, <2>5, <2>6, <2>7, <2>8, <2>9 DEF Next, Worker
<1> QED BY <1>0, <1>2, <1>3, <1>4

-----------------------------------------------------------------------------
(* Every run makes one NSG and one instance at most.                       *)

\* The life of job 1.
LEMMA FirstJob ==
  ASSUME Typed, WorkerShape, JobsShape, RequestShape, RoomLeft, Next
  PROVE  \/ jobs'[1] = jobs[1]
         \/ /\ Claim /\ jobs[1].state = "pending" /\ jobs'[1].state = "running"
            /\ jobs'[1].attempts = jobs[1].attempts
         \/ /\ MarkComplete /\ w.job = 1 /\ NoFault
            /\ jobs[1].state = "running" /\ jobs'[1].state = "complete"
            /\ jobs'[1].attempts = jobs[1].attempts
         \/ /\ MarkFailed /\ w.job = 1 /\ w' = Idle /\ NoFault
            /\ jobs[1].state = "running" /\ jobs'[1].state = "pending"
            /\ jobs'[1].attempts = jobs[1].attempts + 1
            /\ jobs'[1].attempts < MaxAttempts
         \/ /\ GiveUp /\ w.job = 1 /\ NoFault
            /\ jobs[1].state = "running" /\ jobs'[1].state = "failed"
            /\ jobs[1].attempts < MaxAttempts /\ jobs'[1].attempts = MaxAttempts
         \/ /\ Serve /\ jobs[1].state = "running" /\ jobs'[1].state = "pending"
            /\ jobs'[1].attempts = jobs[1].attempts
         \/ /\ \E u \in Users : EnqueueFirst(u)
            /\ jobs[1].state = "absent" /\ jobs'[1].state = "pending"
            /\ jobs'[1].attempts = jobs[1].attempts
<1>0. jobs \in [Job -> JobRecord] /\ jobs[1] \in JobRecord
  BY Numbers DEF Typed
<1>1. CASE Claim
  <2>1. PICK j \in Job : /\ jobs[j].state = "pending"
                         /\ jobs' = [jobs EXCEPT ![j].state = "running"]
    BY <1>1, Zenon DEF Claim
  <2>2. jobs' = [jobs EXCEPT ![j] = [jobs[j] EXCEPT !.state = "running"]]
    BY <1>0, <2>1
  <2> QED BY <1>0, <1>1, <2>1, <2>2 DEF JobRecord
<1>2. CASE MarkComplete
  <2>1. w.pc = "complete" /\ (UNCHANGED jobs \/ (JobSet("complete", jobs[w.job].attempts) /\ NoFault))
    BY <1>2, Zenon DEF MarkComplete
  <2> QED BY <1>2, <2>1, JobWrites, Busy, Numbers
<1>3. CASE GiveUp
  <2>1. w.pc = "given_up" /\ (UNCHANGED jobs \/ (JobSet("failed", MaxAttempts) /\ NoFault))
    BY <1>3, Zenon DEF GiveUp
  <2>2. w.job = 1 => jobs[1].state = "running" /\ jobs[1].attempts < MaxAttempts
    BY <2>1, Busy, Numbers DEF JobsShape
  <2> QED BY <1>3, <2>1, <2>2, JobWrites, Numbers
<1>4. CASE MarkFailed
  <2>1. /\ w.pc = "error"
        /\ \/ UNCHANGED jobs
           \/ /\ JobSet("pending", jobs[w.job].attempts + 1) /\ NoFault /\ w' = Idle
              /\ jobs[w.job].attempts + 1 < MaxAttempts
    BY <1>4, Zenon DEF MarkFailed
  <2> QED BY <1>4, <2>1, JobWrites, Busy, Numbers
<1>5. CASE Serve
  <2>1. UNCHANGED jobs \/ jobs' = Resumed
    BY <1>5 DEF Serve
  <2>2. CASE jobs' = Resumed
    BY <1>0, <1>5, <2>2, Numbers DEF Resumed, JobRecord
  <2> QED BY <2>1, <2>2
<1>6. ASSUME NEW u \in Users, EnqueueFirst(u)
      PROVE  \/ jobs'[1] = jobs[1]
             \/ /\ jobs[1].state = "absent" /\ jobs'[1].state = "pending"
                /\ jobs'[1].attempts = jobs[1].attempts
  <2>1. jobs[1].state = "absent"
    BY <1>6 DEF EnqueueFirst, RequestShape
  <2>2. UNCHANGED jobs \/ jobs' = [jobs EXCEPT ![1] = [jobs[1] EXCEPT !.state = "pending"]]
    BY <1>0, <1>6 DEF EnqueueFirst
  <2> QED BY <1>0, <2>1, <2>2, Numbers DEF JobRecord
<1>7. ASSUME NEW u \in Users, Enqueue(u) PROVE jobs'[1] = jobs[1]
  <2> DEFINE j == Min({i \in Job \ {1} : jobs[i].state = "absent"})
  <2>1. j \in Absent
    BY <1>7, NextJob DEF Enqueue
  <2>2. \/ UNCHANGED jobs
        \/ \E r : jobs' = [jobs EXCEPT ![j] = r]
    BY <1>7, Zenon DEF Enqueue
  <2> HIDE DEF j
  <2> QED BY <1>0, <2>1, <2>2, Numbers DEF Absent
<1> QED BY <1>1, <1>2, <1>3, <1>4, <1>5, <1>6, <1>7, Writers

\* The attempts of job 1 are never taken back, nor its completion.
LEMMA AttemptsGrow ==
  ASSUME Typed, WorkerShape, JobsShape, RequestShape, RoomLeft, Next
  PROVE  /\ jobs[1].attempts \in Nat /\ jobs'[1].attempts \in Nat
         /\ jobs'[1].attempts >= jobs[1].attempts
         /\ jobs[1].state = "complete" => jobs'[1].state = "complete"
<1>1. jobs[1].attempts \in 0..MaxAttempts /\ MaxAttempts \in Nat
  BY Fields, Numbers
<1> QED BY <1>1, FirstJob

\* Where the worker goes from a place.
Onward(pc) ==
  CASE pc = "begin" -> {"create_nsg", "error"}
    [] pc = "create_nsg" -> {"save_nsg", "error"}
    [] pc = "save_nsg" -> {"rules"}
    [] pc = "rules" -> {"launch", "drop_nsg"}
    [] pc = "drop_nsg" -> {"clear_nsg"}
    [] pc = "clear_nsg" -> {"mark_failed"}
    [] pc = "mark_failed" -> {"error"}
    [] pc = "launch" -> {"save_instance", "unhook_again"}
    [] pc = "save_instance" -> {"wait", "error"}
    [] pc = "wait" -> {"finish", "terminate", "unhook_again"}
    [] pc = "finish" -> {"complete", "error"}
    [] pc = "terminate" -> {"gone", "error", "unhook_again"}
    [] pc = "gone" -> {"unhook"}
    [] pc = "unhook" -> {"terminated", "error", "dead"}
    [] pc = "terminated" -> {"complete", "unhook_again"}
    [] pc = "unhook_again" -> {"rolled_back", "error", "dead"}
    [] pc = "rolled_back" -> {"error", "given_up", "resume"}
    [] pc = "error" -> {"given_up", "dead", "unhook_again", "terminate"}
    [] OTHER -> {}

\* The worker goes on in its run, or ends the job.
LEMMA WorkerGoesOn ==
  ASSUME Typed, WorkerShape, Worker, ~Claim
  PROVE  \/ w' = Idle /\ (MarkComplete \/ GiveUp \/ MarkFailed)
         \/ w'.job = w.job /\ w'.pc \in Onward(w.pc)
<1>0. w \in WorkerRecord
  BY DEF Typed
<1>1. ASSUME NEW pc \in Onward(w.pc), Goto(pc) PROVE w'.job = w.job /\ w'.pc \in Onward(w.pc)
  BY <1>1, WorkerWrites DEF Keeps
<1>2. ASSUME NEW i, NEW after, RollbackBegins(i, after)
      PROVE  w'.job = w.job /\ w'.pc \in {"unhook_again", "terminate"}
  BY <1>2, WorkerWrites
<1>3. CASE Begin
  <2>1. w.pc = "begin" /\ (Goto("error") \/ w' = [w EXCEPT !.pc = "create_nsg", !.key = row.key])
    BY <1>3, Zenon DEF Begin
  <2>2. CASE w' = [w EXCEPT !.pc = "create_nsg", !.key = row.key]
    BY <1>0, <2>1, <2>2 DEF WorkerRecord, Onward
  <2> QED BY <1>1, <2>1, <2>2 DEF Onward
<1>4. CASE CreateNSG
  <2>1. /\ w.pc = "create_nsg"
        /\ Goto("error") \/ w' = [w EXCEPT !.pc = "save_nsg", !.nsg = Fresh(nsgs)]
    BY <1>4, Zenon DEF CreateNSG
  <2>2. CASE w' = [w EXCEPT !.pc = "save_nsg", !.nsg = Fresh(nsgs)]
    BY <1>0, <2>1, <2>2 DEF WorkerRecord, Onward
  <2> QED BY <1>1, <2>1, <2>2 DEF Onward
<1>5. CASE Launch
  <2>1. /\ w.pc = "launch"
        /\ \/ RollbackBegins(None, "error")
           \/ w' = [w EXCEPT !.pc = "save_instance", !.inst = FreshInstance]
    BY <1>5, Zenon DEF Launch
  <2>2. CASE w' = [w EXCEPT !.pc = "save_instance", !.inst = FreshInstance]
    BY <1>0, <2>1, <2>2 DEF WorkerRecord, Onward
  <2>3. CASE RollbackBegins(None, "error")
    BY <2>1, <2>3, WorkerWrites DEF Onward
  <2> QED BY <2>1, <2>2, <2>3
<1>6. CASE SaveNSG \/ AddRules \/ DropNSG \/ ClearNSG \/ MarkVPSFailed \/ SaveInstance \/ Finish
  BY <1>1, <1>6 DEF SaveNSG, AddRules, DropNSG, ClearNSG, MarkVPSFailed, SaveInstance, Finish,
                    Onward
<1>7. CASE WaitRunning
  BY <1>1, <1>2, <1>7 DEF WaitRunning, FailRun, Onward
<1>8. CASE Terminate \/ WaitTerminated \/ Terminated
  BY <1>1, <1>8 DEF Terminate, WaitTerminated, Terminated, ThenGoto, Onward
<1>9. CASE Unhook
  BY <1>1, <1>9 DEF Unhook, Onward
<1>10. CASE RolledBack
  <2>1. w.after \in {"error", "give_up", "serve"}
    BY <1>10, Fields DEF RolledBack, WorkerShape, Rolling, After
  <2> QED BY <1>1, <1>10, <2>1 DEF RolledBack, Onward
<1>11. CASE MarkFailed
  <2>1. /\ w.pc = "error"
        /\ w' = Idle \/ Goto("given_up") \/ Goto("dead") \/ RollbackBegins(row.inst, "give_up")
    BY <1>11, Zenon DEF MarkFailed
  <2> QED BY <1>1, <1>2, <1>11, <2>1 DEF Onward
<1>12. CASE MarkComplete \/ GiveUp
  BY <1>12, Zenon DEF MarkComplete, GiveUp
<1> QED BY <1>3, <1>4, <1>5, <1>6, <1>7, <1>8, <1>9, <1>10, <1>11, <1>12 DEF Worker

\* The run that job 1 is in ends when it is over, has cost an attempt or a fault.
LEMMA RunsCost ==
  ASSUME Typed, WorkerShape, JobsShape, RequestShape, RoomLeft, Next,
         NEW before \in {BeforeNSG, BeforeLaunch}
  PROVE  jobs'[1].attempts + faults' + One(Past(before)')
           >= jobs[1].attempts + faults + One(Past(before))
<1>0. /\ jobs[1].attempts \in Nat /\ jobs'[1].attempts \in Nat
      /\ jobs'[1].attempts >= jobs[1].attempts
      /\ jobs[1].state = "complete" => jobs'[1].state = "complete"
      /\ faults \in Nat /\ faults' \in Nat /\ faults' >= faults
  BY AttemptsGrow, Frames, FaultCounts
<1>1. ASSUME phase = "serving", w.job = 1, w.pc \notin before, jobs[1].state # "complete"
      PROVE  \/ Past(before)' \/ jobs'[1].attempts > jobs[1].attempts \/ faults' > faults
  <2>1. w.pc # "idle" /\ jobs[1].state = "running"
    BY <1>1 DEF BeforeNSG, BeforeLaunch, WorkerShape
  <2>2. CASE Crash
    BY <2>2, FaultCounts DEF Crash
  <2>3. ~Serve /\ ~Reconcile /\ ~Claim
    BY <1>1, <2>1 DEF Serve, Reconcile, Claim
  <2>4. CASE UNCHANGED w /\ ~Crash
    <3>1. UNCHANGED phase
      BY <2>3, <2>4, Writers
    <3> QED BY <1>1, <2>4, <3>1 DEF Past
  <2>5. CASE Worker
    <3>1. phase' = "serving"
      BY <1>1, <2>5, Frames
    <3>2. CASE w'.job = w.job /\ w'.pc \in Onward(w.pc)
      <4>1. w'.pc \notin before
        BY <1>1, <3>2, Fields DEF Onward, BeforeNSG, BeforeLaunch, WorkerPc, Provisioning, Rolling
      <4> QED BY <1>1, <3>1, <3>2, <4>1 DEF Past
    <3>3. CASE w' = Idle /\ MarkComplete
      <4>1. (NoFault /\ JobSet("complete", jobs[w.job].attempts)) \/ \E e : Fault(e)
        BY <3>3, Zenon DEF MarkComplete
      <4>2. CASE JobSet("complete", jobs[w.job].attempts)
        BY <1>1, <4>2, JobWrites DEF Past
      <4> QED BY <1>0, <4>1, <4>2, FaultCounts
    <3>4. CASE w' = Idle /\ GiveUp
      <4>1. (NoFault /\ JobSet("failed", MaxAttempts)) \/ \E e : Fault(e)
        BY <3>4, Zenon DEF GiveUp
      <4>2. CASE JobSet("failed", MaxAttempts)
        BY <1>1, <2>1, <4>2, JobWrites, Numbers DEF JobsShape
      <4> QED BY <1>0, <4>1, <4>2, FaultCounts
    <3>5. CASE w' = Idle /\ MarkFailed
      <4>1. \/ JobSet("pending", jobs[w.job].attempts + 1)
            \/ Goto("given_up") \/ Goto("dead") \/ RollbackBegins(row.inst, "give_up")
            \/ \E e : Fault(e)
        BY <3>5, Zenon DEF MarkFailed
      <4>2. CASE JobSet("pending", jobs[w.job].attempts + 1)
        BY <1>0, <1>1, <4>2, JobWrites
      <4>3. ~Goto("given_up") /\ ~Goto("dead") /\ ~RollbackBegins(row.inst, "give_up")
        BY <3>5, WorkerWrites, Constants
      <4> QED BY <1>0, <4>1, <4>2, <4>3, FaultCounts
    <3> QED BY <2>3, <2>5, <3>2, <3>3, <3>4, <3>5, WorkerGoesOn
  <2> QED BY <2>2, <2>3, <2>4, <2>5, Writers
<1>2. One(Past(before)) \in {0, 1} /\ One(Past(before)') \in {0, 1}
  BY DEF One
<1>3. CASE ~Past(before)
  BY <1>0, <1>2, <1>3 DEF One
<1>4. CASE jobs[1].state = "complete"
  BY <1>0, <1>2, <1>4 DEF Past, One
<1>5. CASE phase = "serving" /\ w.job = 1 /\ w.pc \notin before /\ jobs[1].state # "complete"
  <2>1. One(Past(before)) = 1
    BY <1>5 DEF One, Past
  <2>2. Past(before)' => One(Past(before)') = 1
    BY DEF One
  <2> QED BY <1>0, <1>1, <1>2, <1>5, <2>1, <2>2
<1> QED BY <1>3, <1>4, <1>5 DEF Past

\* Nobody but CreateNSG makes an NSG.
LEMMA OnlyCreateNSG ==
  ASSUME Typed, RequestShape, NamesAreUsed, Next, ~CreateNSG
  PROVE  UsedNSGs' = UsedNSGs
<1>0. nsgs \in [Id -> {"none", "live", "gone"}]
  BY DEF Typed
<1>1. CASE UNCHANGED nsgs
  BY <1>1 DEF UsedNSGs
<1>2. CASE DropNSG \/ Unhook
  <2>1. UNCHANGED nsgs \/ \E n \in UsedNSGs \cup {None} : nsgs' = [nsgs EXCEPT ![n] = "gone"]
    BY <1>2, Zenon DEF DropNSG, Unhook, TryDeleteNSG, NamesAreUsed
  <2> QED BY <1>0, <1>1, <2>1, Numbers DEF UsedNSGs
<1> QED BY <1>1, <1>2, Writers

\* A step changes the state of an instance that is there.
LEMMA OnlyLaunch ==
  ASSUME Typed, RequestShape, NamesAreUsed, Next, ~Launch
  PROVE  /\ UsedInstances' = UsedInstances
         /\ \A i \in Id : instances'[i].nsg = instances[i].nsg
<1> DEFINE Goal == UsedInstances' = UsedInstances
                  /\ \A i \in Id : instances'[i].nsg = instances[i].nsg
<1>0. instances \in [Id -> InstanceRecord]
  BY DEF Typed
<1>1. CASE UNCHANGED instances
  BY <1>1 DEF UsedInstances
<1>2. ASSUME NEW i \in UsedInstances \cup {None}, NEW s, s # "none",
             instances' = [instances EXCEPT ![i].state = s]
      PROVE  Goal
  BY <1>0, <1>2, Numbers DEF UsedInstances, InstanceRecord
<1>3. CASE Terminate
  <2>1. \/ UNCHANGED instances
        \/ instances' = [instances EXCEPT ![w.inst].state = "terminating"]
        \/ instances' = [instances EXCEPT ![w.inst].state = "terminated"]
    <3>1. \/ UNCHANGED instances
          \/ instances' = [instances EXCEPT ![w.inst].state =
                             IF @ = "terminated" THEN @ ELSE "terminating"]
      BY <1>3, Zenon DEF Terminate
    <3> QED BY <3>1
  <2>2. w.inst \in UsedInstances \cup {None}
    BY DEF NamesAreUsed
  <2> HIDE DEF Goal
  <2> QED BY <1>1, <1>2, <2>1, <2>2 DEF Goal
<1>4. CASE Boots \/ Ends
  <2>1. \E i \in UsedInstances, s \in {"running", "terminated"} :
           instances' = [instances EXCEPT ![i].state = s]
    BY <1>4 DEF Boots, Ends, CloudStep, UsedInstances
  <2> QED BY <1>2, <2>1
<1>5. ASSUME NEW u \in Users, Act(u) PROVE Goal
  <2>1. \/ UNCHANGED instances
        \/ instances' = [instances EXCEPT ![op[u].inst].state = Leads(op[u].kind)]
    BY <1>5, Zenon DEF Act
  <2>2. Leads(op[u].kind) # "none"
    BY DEF Leads
  <2>3. op[u].inst \in UsedInstances \cup {None}
    BY DEF NamesAreUsed
  <2> QED BY <1>1, <1>2, <2>1, <2>2, <2>3
<1> QED BY <1>1, <1>3, <1>4, <1>5, Writers

\* CreateNSG makes one NSG, and Launch one instance, or none.
LEMMA OneMore ==
  ASSUME Typed, WorkerShape, JobsShape, MadeByRuns
  PROVE  /\ CreateNSG => Cardinality(UsedNSGs') <= Cardinality(UsedNSGs) + 1
         /\ Launch => Cardinality(UsedInstances') <= Cardinality(UsedInstances) + 1
<1>1. ASSUME CreateNSG PROVE Cardinality(UsedNSGs') <= Cardinality(UsedNSGs) + 1
  <2>1. Fresh(nsgs) \in Id /\ nsgs[Fresh(nsgs)] = "none"
      BY <1>1, FreshNumbers DEF CreateNSG
  <2>2. UNCHANGED nsgs \/ nsgs' = [nsgs EXCEPT ![Fresh(nsgs)] = "live"]
      BY <1>1, Zenon DEF CreateNSG
  <2>3. UsedNSGs' \subseteq UsedNSGs \cup {Fresh(nsgs)} /\ Fresh(nsgs) \in Id \ UsedNSGs
      BY <2>1, <2>2 DEF UsedNSGs, Typed
  <2>4. Cardinality(UsedNSGs \cup {Fresh(nsgs)}) = Cardinality(UsedNSGs) + 1
      BY <2>3, Counts DEF UsedNSGs
  <2>5. UsedNSGs \cup {Fresh(nsgs)} \in SUBSET Id
      BY <2>1 DEF UsedNSGs
  <2> QED BY <2>3, <2>4, <2>5, Counts
<1>2. ASSUME Launch PROVE Cardinality(UsedInstances') <= Cardinality(UsedInstances) + 1
  <2>1. FreshInstance \in Id /\ instances[FreshInstance].state = "none"
      BY <1>2, FreshNumbers DEF Launch
  <2>2. UNCHANGED instances \/ \E r : instances' = [instances EXCEPT ![FreshInstance] = r]
      BY <1>2, Zenon DEF Launch, Launched
  <2>3. /\ UsedInstances' \subseteq UsedInstances \cup {FreshInstance}
        /\ FreshInstance \in Id \ UsedInstances
      BY <2>1, <2>2 DEF UsedInstances, Typed
  <2>4. Cardinality(UsedInstances \cup {FreshInstance}) = Cardinality(UsedInstances) + 1
      BY <2>3, Counts DEF UsedInstances
  <2>5. UsedInstances \cup {FreshInstance} \in SUBSET Id
      BY <2>1 DEF UsedInstances
  <2> QED BY <2>3, <2>4, <2>5, Counts
<1> QED BY <1>1, <1>2

\* What Launch and CreateNSG make costs the run.
LEMMA MadeStep ==
  ASSUME Typed, WorkerShape, JobsShape, RequestShape, RoomLeft, NamesAreUsed, MadeByRuns,
         Next
  PROVE  MadeByRuns'
<1> DEFINE M(b) == jobs[1].attempts + faults + One(Past(b))
<1>0. /\ M(BeforeNSG)' >= M(BeforeNSG) /\ M(BeforeLaunch)' >= M(BeforeLaunch)
      /\ M(BeforeNSG) \in Nat /\ M(BeforeLaunch) \in Nat
      /\ M(BeforeNSG)' \in Nat /\ M(BeforeLaunch)' \in Nat
  BY RunsCost, AttemptsGrow, Frames, FaultCounts DEF One
<1>1. /\ Cardinality(UsedNSGs) <= M(BeforeNSG) /\ Cardinality(UsedInstances) <= M(BeforeLaunch)
      /\ Cardinality(UsedNSGs) \in Nat /\ Cardinality(UsedInstances) \in Nat
  BY IdIsFinite DEF MadeByRuns, UsedNSGs, UsedInstances
<1>2. ASSUME UsedNSGs' \subseteq UsedNSGs PROVE Cardinality(UsedNSGs') <= M(BeforeNSG)'
  <2>1. Cardinality(UsedNSGs') <= Cardinality(UsedNSGs) /\ Cardinality(UsedNSGs') \in Nat
    BY <1>2, Counts DEF UsedNSGs
  <2> HIDE DEF M
  <2> QED BY <1>0, <1>1, <2>1
<1>3. ASSUME UsedInstances' \subseteq UsedInstances
      PROVE  Cardinality(UsedInstances') <= M(BeforeLaunch)'
  <2>1. /\ Cardinality(UsedInstances') <= Cardinality(UsedInstances)
        /\ Cardinality(UsedInstances') \in Nat
    BY <1>3, Counts DEF UsedInstances
  <2> HIDE DEF M
  <2> QED BY <1>0, <1>1, <2>1
<1>4. ASSUME CreateNSG PROVE Cardinality(UsedNSGs') <= M(BeforeNSG)'
  <2>1. w.pc = "create_nsg" /\ UNCHANGED <<jobs, phase>>
    BY <1>4, Zenon DEF CreateNSG
  <2>2. phase = "serving" /\ w.job = 1 /\ jobs[1].state = "running"
    BY <2>1, Busy DEF Provisioning
  <2>3. M(BeforeNSG) = jobs[1].attempts + faults
    BY <2>1, <2>2, <1>0, AttemptsGrow, FaultCounts DEF Past, BeforeNSG, One
  <2>4. M(BeforeNSG)' >= M(BeforeNSG) + 1
    <3>1. (w' = [w EXCEPT !.pc = "save_nsg", !.nsg = Fresh(nsgs)] /\ NoFault) \/ \E e : Fault(e)
      BY <1>4, Zenon DEF CreateNSG
    <3>2. CASE w' = [w EXCEPT !.pc = "save_nsg", !.nsg = Fresh(nsgs)] /\ NoFault
      <4>1. w'.pc = "save_nsg" /\ w'.job = 1
        BY <2>2, <3>2 DEF Typed, WorkerRecord
      <4>2. One(Past(BeforeNSG)') = 1
        BY <2>1, <2>2, <4>1 DEF Past, BeforeNSG, One
      <4> QED BY <2>1, <2>3, <3>2, <4>2, AttemptsGrow, FaultCounts
    <3>3. CASE \E e : Fault(e)
      <4>1. One(Past(BeforeNSG)') \in {0, 1}
        BY DEF One
      <4> QED BY <2>1, <2>3, <3>3, <4>1, AttemptsGrow, FaultCounts
    <3> QED BY <3>1, <3>2, <3>3
  <2>5. Cardinality(UsedNSGs') <= Cardinality(UsedNSGs) + 1
    BY <1>4, OneMore
  <2> HIDE DEF M
  <2>6. Cardinality(UsedNSGs') \in Nat
    BY IdIsFinite DEF UsedNSGs
  <2> QED BY <1>0, <1>1, <2>4, <2>5, <2>6
<1>5. ASSUME Launch PROVE Cardinality(UsedInstances') <= M(BeforeLaunch)'
  <2>1. w.pc = "launch" /\ UNCHANGED <<jobs, phase>>
    BY <1>5, Zenon DEF Launch
  <2>2. phase = "serving" /\ w.job = 1 /\ jobs[1].state = "running"
    BY <2>1, Busy DEF Provisioning
  <2>3. M(BeforeLaunch) = jobs[1].attempts + faults
    BY <2>1, <2>2, <1>0, AttemptsGrow, FaultCounts DEF Past, BeforeLaunch, One
  <2>4. M(BeforeLaunch)' >= M(BeforeLaunch) + 1
    <3>1. \/ w' = [w EXCEPT !.pc = "save_instance", !.inst = FreshInstance] /\ NoFault
          \/ \E e : Fault(e)
      BY <1>5, Zenon DEF Launch
    <3>2. CASE w' = [w EXCEPT !.pc = "save_instance", !.inst = FreshInstance] /\ NoFault
      <4>1. w'.pc = "save_instance" /\ w'.job = 1
        BY <2>2, <3>2 DEF Typed, WorkerRecord
      <4>2. One(Past(BeforeLaunch)') = 1
        BY <2>1, <2>2, <4>1 DEF Past, BeforeLaunch, BeforeNSG, One
      <4> QED BY <2>1, <2>3, <3>2, <4>2, AttemptsGrow, FaultCounts
    <3>3. CASE \E e : Fault(e)
      <4>1. One(Past(BeforeLaunch)') \in {0, 1}
        BY DEF One
      <4> QED BY <2>1, <2>3, <3>3, <4>1, AttemptsGrow, FaultCounts
    <3> QED BY <3>1, <3>2, <3>3
  <2>5. Cardinality(UsedInstances') <= Cardinality(UsedInstances) + 1
    BY <1>5, OneMore
  <2> HIDE DEF M
  <2>6. Cardinality(UsedInstances') \in Nat
    BY IdIsFinite DEF UsedInstances
  <2> QED BY <1>0, <1>1, <2>4, <2>5, <2>6
<1>6. ASSUME ~CreateNSG PROVE UsedNSGs' \subseteq UsedNSGs
  BY <1>6, OnlyCreateNSG
<1>7. ASSUME ~Launch PROVE UsedInstances' \subseteq UsedInstances
  BY <1>7, OnlyLaunch
<1> QED
  <2> HIDE DEF M
  <2>1. Cardinality(UsedNSGs') <= M(BeforeNSG)'
    BY <1>2, <1>4, <1>6
  <2>2. Cardinality(UsedInstances') <= M(BeforeLaunch)'
    BY <1>3, <1>5, <1>7
  <2> QED BY <2>1, <2>2 DEF M, MadeByRuns

-----------------------------------------------------------------------------
(* Every instance that lives is paid for.                                  *)

Core == Typed /\ WorkerShape /\ JobsShape /\ RequestShape /\ RoomLeft /\ NamesAreUsed
        /\ MadeByRuns

\* Nothing comes to life but what is launched.
LEMMA OnlyLaunched ==
  ASSUME Typed, Next, ~Launch
  PROVE  Alive' \subseteq Alive
<1>0. instances \in [Id -> InstanceRecord]
  BY DEF Typed
<1>1. CASE UNCHANGED instances
  BY <1>1 DEF Alive, Dead
<1>2. CASE Terminate
  <2>1. \/ UNCHANGED instances
        \/ instances' = [instances EXCEPT ![w.inst].state =
                           IF @ = "terminated" THEN @ ELSE "terminating"]
    BY <1>2, Zenon DEF Terminate
  <2> QED BY <1>0, <2>1 DEF Alive, Dead, InstanceRecord
<1>3. CASE Boots \/ Ends
  BY <1>0, <1>3 DEF Boots, Ends, CloudStep, Alive, Dead, InstanceRecord
<1>4. ASSUME NEW u \in Users, Act(u) PROVE Alive' \subseteq Alive
  <2>1. \/ UNCHANGED instances
        \/ /\ InState(op[u].inst, Accepts(op[u].kind))
           /\ instances' = [instances EXCEPT ![op[u].inst].state = Leads(op[u].kind)]
    BY <1>4, Zenon DEF Act
  <2>2. Accepts(op[u].kind) \subseteq {"booting", "running", "stopped"}
    BY DEF Accepts
  <2> QED BY <1>0, <2>1, <2>2 DEF Alive, Dead, InState, InstanceRecord
<1> QED BY <1>1, <1>2, <1>3, <1>4, Writers

\* The run of job 1 that holds an instance holds on to it, or it is over.
LEMMA HoldsOn ==
  ASSUME Core, Next, ~Launch
  PROVE  /\ Holding' => Holding /\ w'.inst = w.inst
         /\ Holding /\ ~Holding' =>
              \/ faults' = faults + 1
              \/ jobs'[1].state = "complete"
              \/ w.inst \notin Alive'
<1>0. Typed /\ WorkerShape /\ w \in WorkerRecord /\ w.job \in Job
  BY Fields DEF Core, Typed
<1>1. CASE UNCHANGED w
  BY <1>1 DEF Holding
<1>2. CASE Crash
  <2>1. ~Holding'
    BY <1>2, Constants DEF Crash, Holding
  <2> QED BY <1>0, <1>2, <2>1, FaultCounts DEF Crash
<1>3. CASE Reconcile \/ Serve
  <2>1. ~Holding
    BY <1>0, <1>3 DEF Reconcile, Serve, Holding
  <2>2. \/ Goto("resume") \/ RollbackBegins(row.inst, "serve") \/ w' = Idle
    BY <1>3, Zenon DEF Reconcile, Serve
  <2>3. ~Holding'
    BY <1>0, <2>2, WorkerWrites, Constants DEF Holding
  <2> QED BY <2>1, <2>3
<1>4. CASE Claim
  <2>1. PICK j \in Job :
          w' = IF j = 1
                 THEN [Idle EXCEPT !.pc = "begin"]
                 ELSE [Idle EXCEPT !.pc = "terminate", !.job = j,
                         !.inst = jobs[j].inst, !.after = "complete"]
    BY <1>4, Zenon DEF Claim
  <2>2. ~Holding'
    BY <2>1, Constants DEF Holding, WorkerRecord
  <2>3. ~Holding
    BY <1>4 DEF Claim, Holding
  <2> QED BY <2>2, <2>3
<1>5. CASE SaveInstance \/ Finish
  <2>1. /\ w.pc \in {"save_instance", "finish"}
        /\ \/ Goto("wait") \/ Goto("complete")
           \/ Goto("error") /\ \E e : Fault(e)
    BY <1>5, Zenon DEF SaveInstance, Finish
  <2>2. w.job = 1
    BY <1>0, <2>1, Busy DEF Provisioning
  <2>3. CASE Goto("wait") \/ Goto("complete")
    BY <1>0, <2>1, <2>2, <2>3, WorkerWrites DEF Holding, Keeps
  <2>4. CASE Goto("error") /\ \E e : Fault(e)
    BY <1>0, <2>4, WorkerWrites, FaultCounts DEF Holding
  <2> QED BY <2>1, <2>3, <2>4
<1>6. CASE WaitRunning
  <2>1. w.pc = "wait" /\ (Goto("finish") \/ RollbackBegins(w.inst, "error"))
    BY <1>6, Zenon DEF WaitRunning, FailRun
  <2>2. w.job = 1
    BY <1>0, <2>1, Busy DEF Provisioning
  <2>3. CASE Goto("finish")
    BY <1>0, <2>1, <2>2, <2>3, WorkerWrites DEF Holding, Keeps
  <2>4. CASE RollbackBegins(w.inst, "error") /\ w.inst # None
    BY <1>0, <2>1, <2>2, <2>4, WorkerWrites DEF Holding
  <2>5. CASE RollbackBegins(w.inst, "error") /\ w.inst = None
    <3>1. w.inst \notin Alive'
      BY <2>5, Numbers DEF Alive
    <3> QED BY <1>0, <2>1, <2>2, <2>5, <3>1, WorkerWrites DEF Holding
  <2> QED BY <2>1, <2>3, <2>4, <2>5
<1>7. CASE Terminate
  <2>1. w.pc = "terminate" /\ w.inst # None
    BY <1>0, <1>7 DEF Terminate, WorkerShape
  <2>2. w'.pc \in {"gone", "error", "unhook_again"} /\ w'.job = w.job
    <3>1. Goto("gone") \/ Goto("error") \/ Goto("unhook_again")
      BY <1>7 DEF Terminate, ThenGoto
    <3> QED BY <1>0, <3>1, WorkerWrites DEF Keeps
  <2>3. ~Holding'
    BY <2>2 DEF Holding
  <2>4. \/ \E e : Fault(e)
        \/ instances' = [instances EXCEPT ![w.inst].state =
                           IF @ = "terminated" THEN @ ELSE "terminating"]
    BY <1>7, Zenon DEF Terminate
  <2>5. CASE instances' = [instances EXCEPT ![w.inst].state =
                             IF @ = "terminated" THEN @ ELSE "terminating"]
    <3>1. w.inst \notin Alive'
      BY <1>0, <2>5 DEF Alive, Dead, Typed, InstanceRecord
    <3> QED BY <2>3, <3>1
  <2> QED BY <1>0, <2>3, <2>4, <2>5, FaultCounts
<1>8. CASE MarkComplete
  <2>1. w.pc = "complete" /\ w' = Idle
        /\ (JobSet("complete", jobs[w.job].attempts) \/ \E e : Fault(e))
    BY <1>8, Zenon DEF MarkComplete
  <2>2. ~Holding'
    BY <2>1, Constants DEF Holding
  <2>3. w.job = 1 /\ JobSet("complete", jobs[w.job].attempts) => jobs'[1].state = "complete"
    BY <1>0, JobWrites
  <2> QED BY <1>0, <2>1, <2>2, <2>3, FaultCounts DEF Holding
<1>9. CASE \/ Begin \/ CreateNSG \/ SaveNSG \/ AddRules \/ DropNSG \/ ClearNSG \/ MarkVPSFailed
           \/ WaitTerminated \/ Unhook \/ Terminated \/ RolledBack \/ MarkFailed \/ GiveUp
  <2>1. w.pc \in {"begin", "create_nsg", "save_nsg", "rules", "drop_nsg", "clear_nsg",
                  "mark_failed", "gone", "unhook", "unhook_again", "terminated", "rolled_back",
                  "error", "given_up"}
    BY <1>9, Zenon DEF Begin, CreateNSG, SaveNSG, AddRules, DropNSG, ClearNSG, MarkVPSFailed,
       WaitTerminated, Unhook, Terminated, RolledBack, MarkFailed, GiveUp
  <2>2. ~Holding
    BY <2>1 DEF Holding
  <2>3. ~Holding'
    <3>1. CASE Terminated
      <4>1. w.after = "complete" => w.job # 1
        BY <1>0, <3>1 DEF Terminated, WorkerShape, Rolling
      <4>2. IF w.after = "complete" THEN Goto("complete") ELSE Goto("unhook_again")
        BY <3>1 DEF Terminated, ThenGoto
      <4> QED BY <1>0, <4>1, <4>2, WorkerWrites DEF Holding, Keeps
    <3>2. CASE MarkFailed
      <4>1. \/ w' = Idle \/ Goto("given_up") \/ Goto("dead") \/ RollbackBegins(row.inst, "give_up")
        BY <3>2, Zenon DEF MarkFailed
      <4> QED BY <1>0, <4>1, WorkerWrites, Constants DEF Holding
    <3>3. CASE ~Terminated /\ ~MarkFailed
      <4>1. \/ w' = Idle
            \/ w'.pc \in Onward(w.pc)
        BY <1>0, <1>9, <2>1, WorkerGoesOn DEF Worker, Claim
      <4>2. w.pc # "terminated" /\ w.pc # "error"
        BY <1>9, <3>3, Zenon DEF Begin, CreateNSG, SaveNSG, AddRules, DropNSG, ClearNSG,
           MarkVPSFailed, WaitTerminated, Unhook, RolledBack, GiveUp
      <4> QED BY <2>1, <4>1, <4>2, Constants DEF Onward, Holding
    <3> QED BY <3>1, <3>2, <3>3
  <2> QED BY <2>2, <2>3
<1> QED BY <1>0, <1>1, <1>2, <1>3, <1>4, <1>5, <1>6, <1>7, <1>8, <1>9, Writers DEF Worker

\* Every step keeps the living instances at most as many as the faults, and the one
\* that is in hand or done.
LEMMA AliveStep ==
  ASSUME Core, AlivePaid, Next
  PROVE  AlivePaid'
<1>0. /\ Typed /\ Typed' /\ WorkerShape /\ JobsShape /\ RequestShape /\ RoomLeft
      /\ jobs[1].state = "complete" => jobs'[1].state = "complete"
      /\ faults \in Nat /\ faults' \in Nat /\ faults' >= faults
  BY TypeStep, AttemptsGrow, Frames, FaultCounts DEF Core
<1>1. Holding => jobs[1].state # "complete"
  <2>1. Holding => w.pc # "idle" /\ w.pc # "resume"
    BY DEF Holding
  <2>2. Holding => jobs[1].state = "running"
    BY <1>0, <2>1, Busy DEF Holding, WorkerShape, Provisioning, Rolling
  <2> QED BY <2>2
<1>2. Alive \in SUBSET Id /\ Alive' \in SUBSET Id
  BY DEF Alive
<1>3. /\ One(jobs[1].state = "complete") \in {0, 1}
      /\ One(jobs[1].state = "complete") <= One(jobs'[1].state = "complete")
      /\ One(jobs'[1].state = "complete") \in {0, 1}
  BY <1>0 DEF One
<1>4. CASE ~Launch
  <2>1. Alive' \subseteq Alive
    BY <1>0, <1>4, OnlyLaunched
  <2>2. CASE Holding'
    <3>1. Holding /\ w'.inst = w.inst
      BY <1>4, <2>2, HoldsOn
    <3>2. Cardinality(Alive' \ {w.inst}) <= Cardinality(Alive \ {w.inst})
          /\ Cardinality(Alive' \ {w.inst}) \in Nat /\ Cardinality(Alive \ {w.inst}) \in Nat
      <4>1. Alive' \ {w.inst} \in SUBSET (Alive \ {w.inst}) /\ Alive \ {w.inst} \in SUBSET Id
        BY <1>2, <2>1
      <4> QED BY <4>1, Counts
    <3> QED BY <1>0, <2>2, <3>1, <3>2 DEF AlivePaid
  <2>3. CASE ~Holding' /\ ~Holding
    <3>1. Cardinality(Alive') <= Cardinality(Alive)
          /\ Cardinality(Alive') \in Nat /\ Cardinality(Alive) \in Nat
      BY <1>2, <2>1, Counts
    <3> QED BY <1>0, <1>3, <2>3, <3>1 DEF AlivePaid
  <2>4. CASE ~Holding' /\ Holding
    <3>1. Cardinality(Alive \ {w.inst}) <= faults
      BY <2>4 DEF AlivePaid
    <3>2. /\ Cardinality(Alive' \ {w.inst}) <= Cardinality(Alive \ {w.inst})
          /\ Cardinality(Alive' \ {w.inst}) \in Nat /\ Cardinality(Alive \ {w.inst}) \in Nat
          /\ Cardinality(Alive') \in Nat
          /\ Cardinality(Alive') <= Cardinality(Alive' \ {w.inst}) + 1
      <4>1. Alive' \ {w.inst} \in SUBSET (Alive \ {w.inst}) /\ Alive \ {w.inst} \in SUBSET Id
        BY <1>2, <2>1
      <4> QED BY <1>2, <4>1, Counts
    <3>3. CASE w.inst \notin Alive'
      <4>1. Alive' \ {w.inst} = Alive'
        BY <3>3
      <4>2. Cardinality(Alive' \ {w.inst}) = Cardinality(Alive')
        BY <4>1
      <4>3. Cardinality(Alive') <= faults
        BY <1>0, <3>1, <3>2, <4>2
      <4>4. Cardinality(Alive') <= faults' + One(jobs'[1].state = "complete")
        BY <1>0, <1>3, <3>2, <4>3
      <4> QED BY <2>4, <4>4 DEF AlivePaid
    <3>4. CASE faults' = faults + 1
      BY <1>0, <1>3, <2>4, <3>1, <3>2, <3>4 DEF AlivePaid
    <3>5. CASE jobs'[1].state = "complete"
      <4>1. One(jobs'[1].state = "complete") = 1
        BY <3>5 DEF One
      <4> QED BY <1>0, <2>4, <3>1, <3>2, <4>1 DEF AlivePaid
    <3> QED BY <1>4, <2>4, <3>3, <3>4, <3>5, HoldsOn
  <2> QED BY <2>2, <2>3, <2>4
<1>5. CASE Launch
  <2>1. w.pc = "launch" /\ UNCHANGED jobs
    BY <1>5, Zenon DEF Launch
  <2>2. w.job = 1 /\ jobs[1].state = "running"
    BY <1>0, <2>1, Busy DEF Provisioning
  <2>3. ~Holding
    BY <2>1 DEF Holding
  <2>4. Cardinality(Alive) <= faults /\ Cardinality(Alive) \in Nat
    <3>1. One(jobs[1].state = "complete") = 0
      BY <2>2 DEF One
    <3> QED BY <1>0, <1>2, <2>3, <3>1, Counts DEF AlivePaid
  <2>5. FreshInstance \in Id /\ instances[FreshInstance].state = "none"
    BY <2>1, FreshNumbers DEF Core
  <2>6. Alive' \subseteq Alive \cup {FreshInstance}
    <3>1. UNCHANGED instances \/ \E r : instances' = [instances EXCEPT ![FreshInstance] = r]
      BY <1>5, Zenon DEF Launch, Launched
    <3> QED BY <1>0, <2>5, <3>1 DEF Alive, Dead, Typed
  <2>7. CASE w' = [w EXCEPT !.pc = "save_instance", !.inst = FreshInstance]
    <3>1. w'.pc = "save_instance" /\ w'.job = 1 /\ w'.inst = FreshInstance
      BY <1>0, <2>2, <2>7 DEF Typed, WorkerRecord
    <3>2. Holding'
      BY <3>1 DEF Holding
    <3>3. Cardinality(Alive' \ {w'.inst}) <= Cardinality(Alive)
          /\ Cardinality(Alive' \ {w'.inst}) \in Nat
      <4>1. Alive' \ {w'.inst} \in SUBSET Alive
        BY <2>6, <3>1
      <4> QED BY <1>2, <4>1, Counts
    <3> QED BY <1>0, <2>4, <3>2, <3>3 DEF AlivePaid
  <2>8. CASE Fault("oci") /\ RollbackBegins(None, "error")
    <3>1. w'.pc = "unhook_again"
      BY <1>0, <2>8, WorkerWrites
    <3>2. ~Holding'
      BY <3>1 DEF Holding
    <3>3. faults' = faults + 1
      BY <1>0, <2>8, FaultCounts
    <3>4. Cardinality(Alive') <= Cardinality(Alive) + 1 /\ Cardinality(Alive') \in Nat
      <4>1. Alive' \ {FreshInstance} \in SUBSET Alive
        BY <2>6
      <4>2. /\ Cardinality(Alive' \ {FreshInstance}) <= Cardinality(Alive)
            /\ Cardinality(Alive' \ {FreshInstance}) \in Nat
        BY <1>2, <4>1, Counts
      <4>3. Cardinality(Alive') <= Cardinality(Alive' \ {FreshInstance}) + 1
            /\ Cardinality(Alive') \in Nat
        BY <1>2, Counts
      <4> QED BY <2>4, <4>2, <4>3
    <3> QED BY <1>0, <1>3, <2>4, <3>2, <3>3, <3>4 DEF AlivePaid
  <2> QED BY <1>5, <2>7, <2>8, Zenon DEF Launch
<1> QED BY <1>4, <1>5

-----------------------------------------------------------------------------
(* Without requests to stop, the instance of a run lives until it ends.    *)

\* A request to stop is the only one that stops an instance.
LEMMA NobodyStops ==
  ASSUME Core, "stop" \notin Ops, NEW u \in Users, Act(u)
  PROVE  \/ UNCHANGED instances
         \/ /\ op[u].inst \in UsedInstances
            /\ instances' = [instances EXCEPT ![op[u].inst].state = "booting"]
<1>1. op[u].kind # "stop" /\ op[u].inst \in UsedInstances
  BY DEF Core, RequestShape, NamesAreUsed, Act
<1>2. Leads(op[u].kind) = "booting"
  BY <1>1 DEF Leads
<1> QED BY <1>1, <1>2, Zenon DEF Act

\* Without requests to stop, every step keeps the instance of the run alive.
LEMMA StopStep ==
  ASSUME Core, NeverStopped, "stop" \notin Ops, Next
  PROVE  NeverStopped'
<1>0. Typed /\ WorkerShape /\ instances \in [Id -> InstanceRecord] /\ w \in WorkerRecord
  BY DEF Core, Typed
<1>1. \A i \in Id : instances'[i].state # "stopped"
  <2>1. CASE UNCHANGED instances
    BY <2>1 DEF NeverStopped
  <2>2. CASE Launch
    <3>1. UNCHANGED instances \/ Launched(w.nsg)
      BY <2>2 DEF Launch
    <3> QED BY <1>0, <3>1 DEF Launched, NeverStopped
  <2>3. CASE Terminate
    <3>1. \/ UNCHANGED instances
          \/ instances' = [instances EXCEPT ![w.inst].state =
                             IF @ = "terminated" THEN @ ELSE "terminating"]
      BY <2>3, Zenon DEF Terminate
    <3> QED BY <1>0, <3>1 DEF NeverStopped, InstanceRecord
  <2>4. CASE Boots \/ Ends
    BY <1>0, <2>4 DEF Boots, Ends, CloudStep, NeverStopped, InstanceRecord
  <2>5. ASSUME NEW u \in Users, Act(u) PROVE \A i \in Id : instances'[i].state # "stopped"
    BY <1>0, <2>5, NobodyStops, ZenonT(60) DEF NeverStopped, InstanceRecord
  <2> QED BY <1>0, <2>1, <2>2, <2>3, <2>4, <2>5, Writers
<1>2. ASSUME w'.pc \in {"save_instance", "wait", "finish"}
      PROVE  w'.inst # None /\ instances'[w'.inst].state \in {"booting", "running"}
  <2>1. CASE Launch
    <3>1. w.pc = "launch"
      BY <2>1 DEF Launch
    <3>2. FreshInstance \in Id
      BY <3>1, FreshNumbers DEF Core
    <3>3. \/ w' = [w EXCEPT !.pc = "save_instance", !.inst = FreshInstance] /\ Launched(w.nsg)
          \/ RollbackBegins(None, "error")
      BY <2>1, Zenon DEF Launch
    <3>4. w' = [w EXCEPT !.pc = "save_instance", !.inst = FreshInstance] /\ Launched(w.nsg)
      BY <1>0, <1>2, <3>3, WorkerWrites
    <3>5. w'.inst = FreshInstance /\ instances'[FreshInstance].state = "booting"
      BY <1>0, <3>2, <3>4 DEF WorkerRecord, Launched
    <3> QED BY <3>2, <3>5, Numbers
  <2>2. CASE ~Launch
    <3>1. w.pc \in {"save_instance", "wait", "finish"} /\ w'.inst = w.inst /\ ~Terminate
      <4>1. CASE UNCHANGED w
        BY <1>2, <4>1 DEF Terminate
      <4>2. CASE Crash \/ Reconcile \/ Serve
        <5>1. w' = Idle \/ Goto("resume") \/ RollbackBegins(row.inst, "serve")
          BY <4>2, Zenon DEF Crash, Reconcile, Serve
        <5> QED BY <1>0, <1>2, <5>1, WorkerWrites, Constants
      <4>3. CASE SaveInstance \/ WaitRunning
        <5>1. /\ w.pc \in {"save_instance", "wait"}
              /\ Goto("wait") \/ Goto("error") \/ Goto("finish") \/ RollbackBegins(w.inst, "error")
          BY <4>3, Zenon DEF SaveInstance, WaitRunning, FailRun
        <5> QED BY <1>0, <1>2, <5>1, WorkerWrites DEF Keeps, Terminate
      <4>4. CASE Claim
        <5>1. \E j \in Job :
                w' = IF j = 1
                       THEN [Idle EXCEPT !.pc = "begin"]
                       ELSE [Idle EXCEPT !.pc = "terminate", !.job = j,
                               !.inst = jobs[j].inst, !.after = "complete"]
          BY <4>4, Zenon DEF Claim
        <5>2. w'.pc \in {"begin", "terminate"}
          BY <5>1, Constants DEF WorkerRecord
        <5> QED BY <1>2, <5>2
      <4>5. CASE Worker /\ ~Claim /\ ~SaveInstance /\ ~WaitRunning
        <5>1. w' # Idle
          BY <1>2, Constants
        <5>2. w'.pc \in Onward(w.pc)
          BY <1>0, <4>5, <5>1, WorkerGoesOn
        <5>3. w.pc \in {"save_instance", "wait", "launch"}
          BY <1>0, <1>2, <5>2, Fields DEF Onward, WorkerPc, Provisioning, Rolling
        <5>4. w.pc \notin {"save_instance", "wait", "launch"}
          BY <2>2, <4>5, Zenon DEF Worker, Begin, CreateNSG, SaveNSG, AddRules, DropNSG, ClearNSG,
             MarkVPSFailed, Finish, Terminate, WaitTerminated, Unhook, Terminated, RolledBack,
             MarkComplete, MarkFailed, GiveUp
        <5> QED BY <5>3, <5>4
      <4> QED BY <1>0, <4>1, <4>2, <4>3, <4>4, <4>5, Writers
    <3>2. w.inst \in Id /\ instances[w.inst].state \in {"booting", "running"}
      <4>1. InState(w.inst, {"booting", "running"}) /\ w.inst \in MaybeId
        BY <1>0, <3>1, Fields DEF NeverStopped
      <4> QED BY <4>1 DEF InState, MaybeId
    <3>3. instances'[w.inst].state \in {"booting", "running"}
      <4>1. CASE UNCHANGED instances
        BY <3>2, <4>1
      <4>2. CASE Boots \/ Ends
        BY <1>0, <3>2, <4>2 DEF Boots, Ends, CloudStep, InstanceRecord
      <4>3. ASSUME NEW u \in Users, Act(u)
            PROVE  instances'[w.inst].state \in {"booting", "running"}
        BY <1>0, <3>2, <4>3, NobodyStops, ZenonT(60) DEF InstanceRecord
      <4> QED BY <1>0, <2>2, <3>1, <4>1, <4>2, <4>3, Writers
    <3> QED BY <3>1, <3>2, <3>3, Numbers
  <2> QED BY <2>1, <2>2
<1>3. (w.pc \in {"save_instance", "wait", "finish"} => InState(w.inst, {"booting", "running"}))'
  BY <1>2 DEF InState
<1> QED BY <1>1, <1>3 DEF NeverStopped

-----------------------------------------------------------------------------
(* Without requests to stop or delete, a run that fails costs a fault.     *)

\* A run that has come to its NSG or instance goes on with it, completes or costs a fault.
LEMMA NowGoesOn ==
  ASSUME Core, NeverStopped, Next, w.job = 1, w.pc \in WithNSG
  PROVE  \/ /\ w'.job = 1 /\ w'.pc \in WithNSG /\ w'.nsg = w.nsg
            /\ w.pc \in WithInstance => w'.pc \in WithInstance
         \/ faults' = faults + 1
         \/ jobs'[1].state = "complete"
<1>0. Typed /\ WorkerShape
  BY DEF Core
<1>1. phase = "serving" /\ w.pc # "idle"
  BY <1>0, Busy DEF WithNSG, WithInstance, Provisioning
<1>2. CASE UNCHANGED w
  BY <1>2
<1>3. CASE Crash
  BY <1>0, <1>3, FaultCounts DEF Crash
<1>4. CASE \/ Claim \/ Serve \/ Reconcile \/ Begin \/ CreateNSG \/ DropNSG \/ ClearNSG
           \/ MarkVPSFailed \/ Terminate \/ WaitTerminated \/ Unhook \/ Terminated \/ RolledBack
           \/ MarkFailed \/ GiveUp
  <2>1. \/ phase = "boot"
        \/ w.pc \in {"idle", "begin", "create_nsg", "drop_nsg", "clear_nsg", "mark_failed",
                     "terminate", "gone", "unhook", "unhook_again", "terminated", "rolled_back",
                     "error", "given_up"}
    BY <1>4, Zenon DEF Claim, Serve, Reconcile, Begin, CreateNSG, DropNSG, ClearNSG, MarkVPSFailed,
       Terminate, WaitTerminated, Unhook, Terminated, RolledBack, MarkFailed, GiveUp
  <2> QED BY <1>1, <2>1 DEF WithNSG, WithInstance
<1>5. ASSUME NEW pc \in WithNSG, Goto(pc), w.pc \in WithInstance => pc \in WithInstance
      PROVE  /\ w'.job = 1 /\ w'.pc \in WithNSG /\ w'.nsg = w.nsg
             /\ w.pc \in WithInstance => w'.pc \in WithInstance
  BY <1>0, <1>5, WorkerWrites DEF Keeps
<1>6. CASE SaveNSG \/ AddRules \/ SaveInstance \/ Finish
  <2>1. \/ \E e : Fault(e)
        \/ w.pc = "save_nsg" /\ Goto("rules")
        \/ w.pc = "rules" /\ Goto("launch")
        \/ w.pc = "save_instance" /\ Goto("wait")
        \/ w.pc = "finish" /\ Goto("complete")
    BY <1>6, Zenon DEF SaveNSG, AddRules, SaveInstance, Finish
  <2> QED BY <1>0, <1>5, <2>1, FaultCounts DEF WithNSG, WithInstance
<1>7. CASE Launch
  <2>1. /\ w.pc = "launch"
        /\ \/ \E e : Fault(e)
           \/ w' = [w EXCEPT !.pc = "save_instance", !.inst = FreshInstance]
    BY <1>7, Zenon DEF Launch
  <2>2. CASE w' = [w EXCEPT !.pc = "save_instance", !.inst = FreshInstance]
    <3>1. w'.pc = "save_instance" /\ w'.job = 1 /\ w'.nsg = w.nsg
      BY <1>0, <2>2 DEF Typed, WorkerRecord
    <3> QED BY <3>1 DEF WithNSG, WithInstance
  <2> QED BY <1>0, <2>1, <2>2, FaultCounts
<1>8. CASE WaitRunning
  <2>1. /\ w.pc = "wait"
        /\ \/ \E e : Fault(e)
           \/ Goto("finish")
           \/ InState(w.inst, Dead \cup {"stopped"})
    BY <1>8, Zenon DEF WaitRunning
  <2>2. ~InState(w.inst, Dead \cup {"stopped"})
    BY <2>1 DEF NeverStopped, InState, Dead
  <2> QED BY <1>0, <1>5, <2>1, <2>2, FaultCounts DEF WithNSG, WithInstance
<1>9. CASE MarkComplete
  <2>1. JobSet("complete", jobs[w.job].attempts) \/ \E e : Fault(e)
    BY <1>9, Zenon DEF MarkComplete
  <2> QED BY <1>0, <2>1, JobWrites, FaultCounts
<1> QED BY <1>0, <1>2, <1>3, <1>4, <1>6, <1>7, <1>8, <1>9, Writers DEF Worker

\* So what a run in these places is worth is paid by a fault when it leaves them.
LEMMA NowCosts ==
  ASSUME Core, NeverStopped, Next, NEW places \in {WithNSG, WithInstance}
  PROVE  faults' + One(Now(places)') >= faults + One(Now(places))
<1>0. /\ Typed /\ WorkerShape /\ JobsShape /\ RequestShape /\ RoomLeft
      /\ jobs[1].state = "complete" => jobs'[1].state = "complete"
      /\ faults \in Nat /\ faults' \in Nat /\ faults' >= faults
  BY AttemptsGrow, Frames, FaultCounts DEF Core
<1>1. One(Now(places)) \in {0, 1} /\ One(Now(places)') \in {0, 1}
  BY DEF One
<1>2. CASE ~Now(places)
  BY <1>0, <1>1, <1>2 DEF One
<1>3. CASE jobs[1].state = "complete"
  <2>1. One(Now(places)') = 1
    BY <1>0, <1>3 DEF One, Now
  <2> QED BY <1>0, <1>1, <2>1
<1>4. CASE w.job = 1 /\ w.pc \in places
  <2>1. w.pc \in WithNSG
    BY <1>4 DEF WithNSG
  <2>2. Now(places)' \/ faults' = faults + 1
    BY <1>4, <2>1, NowGoesOn DEF Now
  <2>3. Now(places)' => One(Now(places)') = 1
    BY DEF One
  <2> QED BY <1>0, <1>1, <2>2, <2>3
<1> QED BY <1>2, <1>3, <1>4 DEF Now

\* What a run makes is in its hand, unless a fault has cost it.
LEMMA MakingCosts ==
  ASSUME Core, Next
  PROVE  /\ CreateNSG => faults' + One(Now(WithNSG)') >= faults + One(Now(WithNSG)) + 1
         /\ Launch => faults' + One(Now(WithInstance)') >= faults + One(Now(WithInstance)) + 1
<1>0. Typed /\ WorkerShape /\ w \in WorkerRecord /\ faults \in Nat
  BY FaultCounts DEF Core, Typed
<1>1. ASSUME CreateNSG
      PROVE  faults' + One(Now(WithNSG)') >= faults + One(Now(WithNSG)) + 1
  <2>1. w.pc = "create_nsg" /\ UNCHANGED jobs
    BY <1>1, Zenon DEF CreateNSG
  <2>2. w.job = 1 /\ jobs[1].state = "running"
    BY <1>0, <2>1, Busy DEF Provisioning
  <2>3. One(Now(WithNSG)) = 0 /\ One(Now(WithNSG)') \in {0, 1}
    BY <2>1, <2>2 DEF Now, WithNSG, WithInstance, One
  <2>4. \/ w' = [w EXCEPT !.pc = "save_nsg", !.nsg = Fresh(nsgs)] /\ NoFault
        \/ \E e : Fault(e)
    BY <1>1, Zenon DEF CreateNSG
  <2>5. CASE w' = [w EXCEPT !.pc = "save_nsg", !.nsg = Fresh(nsgs)] /\ NoFault
    <3>1. w'.pc = "save_nsg" /\ w'.job = 1
      BY <1>0, <2>2, <2>5 DEF WorkerRecord
    <3>2. One(Now(WithNSG)') = 1
      BY <3>1 DEF One, Now, WithNSG
    <3> QED BY <1>0, <2>3, <2>5, <3>2, FaultCounts
  <2> QED BY <1>0, <2>3, <2>4, <2>5, FaultCounts
<1>2. ASSUME Launch
      PROVE  faults' + One(Now(WithInstance)') >= faults + One(Now(WithInstance)) + 1
  <2>1. w.pc = "launch" /\ UNCHANGED jobs
    BY <1>2, Zenon DEF Launch
  <2>2. w.job = 1 /\ jobs[1].state = "running"
    BY <1>0, <2>1, Busy DEF Provisioning
  <2>3. One(Now(WithInstance)) = 0 /\ One(Now(WithInstance)') \in {0, 1}
    BY <2>1, <2>2 DEF Now, WithInstance, One
  <2>4. \/ w' = [w EXCEPT !.pc = "save_instance", !.inst = FreshInstance] /\ NoFault
        \/ \E e : Fault(e)
    BY <1>2, Zenon DEF Launch
  <2>5. CASE w' = [w EXCEPT !.pc = "save_instance", !.inst = FreshInstance] /\ NoFault
    <3>1. w'.pc = "save_instance" /\ w'.job = 1
      BY <1>0, <2>2, <2>5 DEF WorkerRecord
    <3>2. One(Now(WithInstance)') = 1
      BY <3>1 DEF One, Now, WithInstance
    <3> QED BY <1>0, <2>3, <2>5, <3>2, FaultCounts
  <2> QED BY <1>0, <2>3, <2>4, <2>5, FaultCounts
<1> QED BY <1>1, <1>2

\* What is made costs a fault or belongs to the run that is under way.
LEMMA CostStep ==
  ASSUME Core, NeverStopped, EveryRunCosts, Next
  PROVE  /\ Cardinality(UsedInstances') <= faults' + One(Now(WithInstance)')
         /\ Cardinality(UsedNSGs') <= faults' + One(Now(WithNSG)')
         /\ Spare => Spare'
<1> DEFINE P == faults + One(Now(WithNSG))
           Q == faults + One(Now(WithInstance))
<1>0. /\ Typed /\ WorkerShape /\ JobsShape /\ RequestShape /\ NamesAreUsed /\ MadeByRuns
      /\ nsgs \in [Id -> {"none", "live", "gone"}]
  BY DEF Core, Typed
<1>1. /\ Cardinality(UsedInstances) \in Nat /\ Cardinality(UsedInstances') \in Nat
      /\ Cardinality(UsedNSGs) \in Nat /\ Cardinality(UsedNSGs') \in Nat
  BY IdIsFinite DEF UsedInstances, UsedNSGs
<1>2. P \in Nat /\ P' \in Nat /\ Q \in Nat /\ Q' \in Nat
  BY <1>0, FaultCounts, Frames DEF One
<1>3. P' >= P /\ Q' >= Q
  BY NowCosts
<1>4. (CreateNSG => P' >= P + 1) /\ (Launch => Q' >= Q + 1)
  <2>1. faults \in Nat /\ faults' \in Nat
    BY <1>0, FaultCounts, Frames
  <2>2. One(Now(WithNSG)) \in {0, 1} /\ One(Now(WithInstance)) \in {0, 1}
    BY DEF One
  <2> QED BY <2>1, <2>2, MakingCosts
<1>5. /\ \/ UsedInstances' = UsedInstances
         \/ Launch /\ Cardinality(UsedInstances') <= Cardinality(UsedInstances) + 1
      /\ \/ UsedNSGs' = UsedNSGs
         \/ CreateNSG /\ Cardinality(UsedNSGs') <= Cardinality(UsedNSGs) + 1
  BY <1>0, OneMore, OnlyLaunch, OnlyCreateNSG
<1>6. Cardinality(UsedInstances) <= Q /\ Cardinality(UsedNSGs) <= P
  BY DEF EveryRunCosts
<1>7. Cardinality(UsedInstances') <= Q' /\ Cardinality(UsedNSGs') <= P'
  <2> HIDE DEF P, Q
  <2> QED BY <1>1, <1>2, <1>3, <1>4, <1>5, <1>6
<1>8. Cardinality(UsedNSGs) < P => Cardinality(UsedNSGs') < P'
  <2> HIDE DEF P, Q
  <2> QED BY <1>1, <1>2, <1>3, <1>4, <1>5, <1>6
<1>9. (\E n \in Id : nsgs[n] = "gone") => \E n \in Id : nsgs'[n] = "gone"
  <2>1. ASSUME NEW n \in Id, nsgs[n] = "gone" PROVE nsgs'[n] = "gone"
    <3>1. CASE UNCHANGED nsgs
      BY <2>1, <3>1
    <3>2. CASE DropNSG \/ Unhook
      <4>1. UNCHANGED nsgs \/ \E m : nsgs' = [nsgs EXCEPT ![m] = "gone"]
        BY <3>2, Zenon DEF DropNSG, Unhook, TryDeleteNSG
      <4> QED BY <1>0, <2>1, <4>1
    <3>3. CASE CreateNSG
      <4>1. UNCHANGED nsgs \/ nsgs' = [nsgs EXCEPT ![Fresh(nsgs)] = "live"]
        BY <3>3, Zenon DEF CreateNSG
      <4>2. nsgs[Fresh(nsgs)] = "none"
        BY <1>0, <3>3, FreshNumbers DEF CreateNSG
      <4> QED BY <1>0, <2>1, <4>1, <4>2
    <3> QED BY <1>0, <3>1, <3>2, <3>3, Writers
  <2> QED BY <2>1
<1> QED BY <1>7, <1>8, <1>9 DEF Spare

\* The row is there and keeps an instance.
LEMMA RowKeeps ==
  ASSUME Core, NeverStopped, Steady, row.exists, Next
  PROVE  /\ row'.exists
         /\ row.inst # None => row'.inst # None
<1>0. Typed /\ WorkerShape /\ RequestShape /\ NamesAreUsed
  BY DEF Core
<1>1. ASSUME NEW u \in Users, Erase(u) PROVE FALSE
  BY <1>0, <1>1 DEF Erase, RequestShape, Steady
<1>2. ASSUME NEW u \in Users, WriteBack(u) PROVE op[u].inst # None
  BY <1>0, <1>2 DEF WriteBack, RequestShape
<1>3. SaveInstance \/ Finish => w.inst # None
  BY DEF SaveInstance, Finish, NeverStopped, InState
<1> QED BY <1>0, <1>1, <1>2, <1>3, RowMoves

\* A run that is done has recorded its instance.
LEMMA DoneStep ==
  ASSUME Core, NeverStopped, Steady, EveryRunCosts, Next
  PROVE  FirstIsDone' => row'.inst # None
<1>0. /\ Typed /\ WorkerShape /\ JobsShape /\ RequestShape /\ RoomLeft /\ w \in WorkerRecord
      /\ row.exists
  BY DEF Core, Typed, EveryRunCosts
<1>1. CASE FirstIsDone
  BY <1>0, <1>1, RowKeeps DEF EveryRunCosts
<1>2. CASE ~FirstIsDone /\ Finish
  <2>1. \/ RowUpdate("running", TRUE)
        \/ Goto("error") /\ UNCHANGED jobs
    BY <1>2, Zenon DEF Finish
  <2>2. CASE RowUpdate("running", TRUE)
    <3>1. w.inst # None
      BY <1>2 DEF Finish, NeverStopped, InState
    <3> QED BY <1>0, <2>2, <3>1, RowWrites
  <2>3. CASE Goto("error") /\ UNCHANGED jobs
    BY <1>0, <1>2, <2>3, WorkerWrites DEF FirstIsDone
  <2> QED BY <2>1, <2>2, <2>3
<1>3. CASE ~FirstIsDone /\ ~Finish
  <2>1. jobs'[1].state # "complete"
    <3>1. ~(MarkComplete /\ w.job = 1)
      BY <1>3 DEF MarkComplete, FirstIsDone
    <3>2. jobs[1].state # "complete"
      BY <1>3 DEF FirstIsDone
    <3> QED BY <1>0, <3>1, <3>2, FirstJob
  <2>2. ~(w'.job = 1 /\ w'.pc = "complete")
    <3>1. CASE UNCHANGED w
      BY <1>3, <3>1 DEF FirstIsDone
    <3>2. CASE Crash \/ Serve \/ Reconcile
      <4>1. w' = Idle \/ Goto("resume") \/ RollbackBegins(row.inst, "serve")
        BY <3>2, Zenon DEF Crash, Reconcile, Serve
      <4> QED BY <1>0, <4>1, WorkerWrites, Constants
    <3>3. CASE Claim
      <4>1. \E j \in Job :
              w' = IF j = 1
                     THEN [Idle EXCEPT !.pc = "begin"]
                     ELSE [Idle EXCEPT !.pc = "terminate", !.job = j,
                             !.inst = jobs[j].inst, !.after = "complete"]
        BY <3>3, Zenon DEF Claim
      <4> QED BY <4>1, Constants DEF WorkerRecord
    <3>4. CASE Terminated
      <4>1. w.after = "complete" => w.job # 1
        BY <1>0, <3>4 DEF Terminated, WorkerShape, Rolling
      <4>2. IF w.after = "complete" THEN Goto("complete") ELSE Goto("unhook_again")
        BY <3>4 DEF Terminated, ThenGoto
      <4> QED BY <1>0, <4>1, <4>2, WorkerWrites DEF Keeps
    <3>5. CASE Worker /\ ~Claim /\ ~Terminated
      <4>1. w' = Idle \/ w'.pc \in Onward(w.pc)
        BY <1>0, <3>5, WorkerGoesOn
      <4>2. w'.pc = "complete" => w.pc \in {"finish", "terminated"}
        BY <1>0, <4>1, Fields, Constants DEF Onward, WorkerPc, Provisioning, Rolling
      <4>3. w.pc \notin {"finish", "terminated"}
        BY <1>3, <3>5, Zenon DEF Worker, Begin, CreateNSG, SaveNSG, AddRules, DropNSG, ClearNSG,
             MarkVPSFailed, Launch, SaveInstance, WaitRunning, Terminate, WaitTerminated, Unhook,
             RolledBack, MarkComplete, MarkFailed, GiveUp
      <4> QED BY <4>2, <4>3
    <3> QED BY <1>0, <3>1, <3>2, <3>3, <3>4, <3>5, Writers
  <2> QED BY <2>1, <2>2 DEF FirstIsDone
<1> QED BY <1>1, <1>2, <1>3

\* A run has an NSG in hand from its creation on.
LEMMA InHandStep ==
  ASSUME Core, NeverStopped, Steady, EveryRunCosts, Next
  PROVE  /\ w'.job = 1 /\ w'.pc \in WithNSG \cup {"drop_nsg"} => w'.nsg # None
         /\ w'.pc = "clear_nsg" => Spare'
<1>0. /\ Typed /\ WorkerShape /\ JobsShape /\ RequestShape /\ RoomLeft /\ w \in WorkerRecord
      /\ MadeByRuns
  BY DEF Core, Typed
<1>1. CASE UNCHANGED w
  BY <1>1, CostStep DEF EveryRunCosts
<1>2. CASE Crash \/ Serve \/ Reconcile
  <2>1. w' = Idle \/ Goto("resume") \/ RollbackBegins(row.inst, "serve")
    BY <1>2, Zenon DEF Crash, Reconcile, Serve
  <2> QED BY <1>0, <2>1, WorkerWrites, Constants DEF WithNSG, WithInstance
<1>3. CASE Claim
  <2>1. \E j \in Job :
          w' = IF j = 1
                 THEN [Idle EXCEPT !.pc = "begin"]
                 ELSE [Idle EXCEPT !.pc = "terminate", !.job = j,
                         !.inst = jobs[j].inst, !.after = "complete"]
    BY <1>3, Zenon DEF Claim
  <2>2. w'.pc \in {"begin", "terminate"}
    BY <2>1, Constants DEF WorkerRecord
  <2> QED BY <2>2 DEF WithNSG, WithInstance
<1>4. CASE CreateNSG
  <2>1. \/ w' = [w EXCEPT !.pc = "save_nsg", !.nsg = Fresh(nsgs)]
        \/ Goto("error")
    BY <1>4, Zenon DEF CreateNSG
  <2>2. Fresh(nsgs) \in Id
    BY <1>0, <1>4, FreshNumbers DEF CreateNSG
  <2>3. CASE w' = [w EXCEPT !.pc = "save_nsg", !.nsg = Fresh(nsgs)]
    BY <1>0, <2>2, <2>3, Numbers DEF WorkerRecord
  <2> QED BY <1>0, <2>1, <2>3, WorkerWrites DEF WithNSG, WithInstance
<1>5. CASE DropNSG
  <2>1. Goto("clear_nsg") /\ w.pc = "drop_nsg"
    BY <1>5 DEF DropNSG
  <2>2. w.job = 1 /\ jobs[1].state = "running"
    BY <1>0, <2>1, Busy DEF Provisioning
  <2>3. w'.pc = "clear_nsg"
    BY <1>0, <2>1, WorkerWrites
  <2>4. w.nsg \in Id
    BY <1>0, <2>1, <2>2, Fields DEF EveryRunCosts, MaybeId
  <2>5. CASE nsgs' = [nsgs EXCEPT ![w.nsg] = "gone"]
    <3>1. nsgs'[w.nsg] = "gone"
      BY <1>0, <2>4, <2>5 DEF Typed
    <3>2. Spare'
      BY <2>4, <3>1 DEF Spare
    <3> QED BY <2>3, <3>2 DEF WithNSG, WithInstance
  <2>6. CASE Fault("oci") /\ UNCHANGED nsgs
    <3>1. Cardinality(UsedNSGs) <= faults + One(Now(WithNSG))
      BY DEF EveryRunCosts
    <3>2. One(Now(WithNSG)) = 0
      BY <2>1, <2>2 DEF One, Now, WithNSG, WithInstance
    <3>3. Cardinality(UsedNSGs') = Cardinality(UsedNSGs) /\ Cardinality(UsedNSGs) \in Nat
      <4>1. UsedNSGs' = UsedNSGs
        BY <2>6 DEF UsedNSGs
      <4> QED BY <4>1, IdIsFinite DEF UsedNSGs
    <3>4. faults \in Nat /\ faults' = faults + 1
      BY <1>0, <2>6, FaultCounts
    <3>5. One(Now(WithNSG)') \in {0, 1}
      BY DEF One
    <3>6. Cardinality(UsedNSGs') < faults' + One(Now(WithNSG)')
      BY <3>1, <3>2, <3>3, <3>4, <3>5
    <3> QED BY <2>3, <3>6 DEF Spare, WithNSG, WithInstance
  <2> QED BY <1>5, <2>5, <2>6, Zenon DEF DropNSG
<1>6. CASE Launch
  <2>1. \/ w' = [w EXCEPT !.pc = "save_instance", !.inst = FreshInstance]
        \/ RollbackBegins(None, "error")
    BY <1>6, Zenon DEF Launch
  <2>2. w.pc = "launch"
    BY <1>6 DEF Launch
  <2>3. CASE w' = [w EXCEPT !.pc = "save_instance", !.inst = FreshInstance]
    BY <1>0, <2>2, <2>3, Numbers DEF WorkerRecord, EveryRunCosts, WithNSG
  <2> QED BY <1>0, <2>1, <2>3, WorkerWrites DEF WithNSG, WithInstance
<1>7. CASE Worker /\ ~Claim /\ ~CreateNSG /\ ~DropNSG /\ ~Launch
  <2>1. \/ w' = Idle
        \/ w'.job = w.job /\ w'.pc \in Onward(w.pc)
    BY <1>0, <1>7, WorkerGoesOn
  <2>2. w.pc \notin {"create_nsg", "drop_nsg", "launch"}
    BY <1>7, Zenon DEF Worker, Begin, SaveNSG, AddRules, ClearNSG, MarkVPSFailed, SaveInstance,
       WaitRunning, Finish, Terminate, WaitTerminated, Unhook, Terminated, RolledBack,
       MarkComplete, MarkFailed, GiveUp
  <2>3. w'.pc # "clear_nsg"
    BY <1>0, <2>1, <2>2, Fields, Constants DEF Onward, WorkerPc, Provisioning, Rolling
  <2>4. ASSUME w'.job = 1, w'.pc \in WithNSG \cup {"drop_nsg"} PROVE w'.nsg # None
    <3>1. w' # Idle
      BY <2>4, Constants DEF WithNSG, WithInstance
    <3>2. (w.job = 1 /\ w.pc \in WithNSG) \/ w.pc = "terminated"
      BY <1>0, <2>1, <2>2, <2>4, <3>1, Fields
         DEF Onward, WorkerPc, Provisioning, Rolling, WithNSG, WithInstance
    <3>3. w'.nsg = w.nsg
      <4>1. w.pc # "begin" /\ ~Begin
        BY <3>2 DEF WithNSG, WithInstance, Begin
      <4>2. \/ \E pc : Goto(pc)
            \/ \E i, after : RollbackBegins(i, after)
            \/ w' = Idle
        BY <1>7, <4>1, Zenon DEF Worker, SaveNSG, AddRules, ClearNSG, MarkVPSFailed, SaveInstance,
           WaitRunning, FailRun, Finish, Terminate, ThenGoto, WaitTerminated, Unhook, Terminated,
           RolledBack, MarkComplete, MarkFailed, GiveUp
      <4> QED BY <1>0, <3>1, <4>2, WorkerWrites DEF Keeps
    <3>4. CASE w.job = 1 /\ w.pc \in WithNSG
      BY <3>3, <3>4 DEF EveryRunCosts
    <3>5. CASE w.pc = "terminated"
      <4>1. w.after = "complete" => w.job # 1
        BY <1>0, <3>5 DEF WorkerShape, Rolling
      <4>2. Terminated
        BY <1>7, <3>5, Zenon DEF Worker, Begin, SaveNSG, AddRules, ClearNSG, MarkVPSFailed,
           SaveInstance, WaitRunning, Finish, Terminate, WaitTerminated, Unhook, RolledBack,
           MarkComplete, MarkFailed, GiveUp
      <4>3. IF w.after = "complete" THEN Goto("complete") ELSE Goto("unhook_again")
        BY <4>2 DEF Terminated, ThenGoto
      <4> QED BY <1>0, <2>4, <4>1, <4>3, WorkerWrites DEF Keeps, WithNSG, WithInstance
    <3> QED BY <3>2, <3>4, <3>5
  <2> QED BY <2>3, <2>4
<1> QED BY <1>0, <1>1, <1>2, <1>3, <1>4, <1>5, <1>6, <1>7, Writers

\* Every step keeps the NSGs and instances made at most one more than the faults, and a
\* spare fault for what a refresh might write back.
LEMMA RunsStep ==
  ASSUME Core, NeverStopped, Steady, EveryRunCosts, Next
  PROVE  EveryRunCosts'
<1>0. /\ Typed /\ WorkerShape /\ RequestShape /\ NamesAreUsed /\ row.exists
      /\ nsgs \in [Id -> {"none", "live", "gone"}]
  BY DEF Core, Typed, EveryRunCosts
<1>1. row'.exists /\ (Spare => Spare')
  BY <1>0, RowKeeps, CostStep
<1>2. ASSUME row'.inst # None, row'.nsg = None PROVE Spare'
  <2>1. CASE row'.inst = row.inst /\ row'.nsg = row.nsg
    BY <1>1, <1>2, <2>1 DEF EveryRunCosts
  <2>2. CASE SaveInstance \/ Finish \/ SaveNSG
    <3>1. w.pc \in {"save_instance", "finish", "save_nsg"}
      BY <2>2 DEF SaveInstance, Finish, SaveNSG
    <3>2. w.job = 1
      BY <1>0, <3>1, Busy DEF Provisioning
    <3>3. w.nsg # None
      BY <3>1, <3>2 DEF EveryRunCosts, WithNSG, WithInstance
    <3>4. \/ row' = row \/ row'.nsg = w.nsg
      <4>1. \/ row' = row \/ Written([row EXCEPT !.nsg = w.nsg])
            \/ \E s, key : RowUpdate(s, key)
        BY <2>2, Zenon DEF SaveInstance, Finish, SaveNSG
      <4> QED BY <1>0, <4>1, RowWrites
    <3> QED BY <1>2, <2>1, <3>3, <3>4
  <2>3. CASE ClearNSG
    BY <1>1, <2>3 DEF ClearNSG, EveryRunCosts
  <2>4. CASE nsgs[row.nsg] = "live" /\ nsgs'[row.nsg] = "gone" /\ Unhook
    <3>1. row.nsg # None \/ UNCHANGED row
      BY <2>4, Zenon DEF Unhook
    <3>2. CASE row.nsg \in Id
      BY <2>4, <3>2 DEF Spare
    <3> QED BY <1>0, <2>1, <3>1, <3>2, Fields DEF MaybeId
  <2>5. ASSUME NEW u \in Users, WriteBack(u), row'.nsg = op[u].nsg PROVE Spare'
    <3>1. Copying(u) /\ op[u].nsg = None
      BY <1>2, <2>5 DEF WriteBack, Copying
    <3> QED BY <1>1, <3>1 DEF EveryRunCosts
  <2>6. ASSUME NEW u \in Users, Erase(u) PROVE FALSE
    BY <1>0, <2>6 DEF Erase, RequestShape, Steady
  <2> QED BY <1>0, <2>1, <2>2, <2>3, <2>4, <2>5, <2>6, RowMoves
<1>3. ASSUME NEW v \in Users, Copying(v)', op'[v].nsg = None PROVE Spare'
  <2>0. op'[v].pc \in {"ips", "write_back"}
    BY <1>3 DEF Copying
  <2>1. CASE op'[v] = op[v]
    BY <1>1, <1>3, <2>1 DEF EveryRunCosts, Copying
  <2>2. CASE Crash
    BY <2>0, <2>2, Constants DEF Crash
  <2>3. ASSUME NEW u \in Users, Ask(u) \/ OpStep(u) PROVE Spare'
    <3>1. RequestMoves(u)
      BY <1>0, <2>3, Requests
    <3>2. CASE v = u /\ op[u].pc = "off"
      <4>1. /\ op'[u].pc = FirstPc(op'[u].kind) /\ op'[u].kind \in Ops
            /\ op'[u].kind \in {"terminate", "delete"} \/ op'[u].inst # None
            /\ op'[u].inst = row.inst
            /\ op'[u].nsg = IF op'[u].kind = "refresh" THEN row.nsg ELSE None
        BY <2>0, <3>1, <3>2, Constants DEF RequestMoves
      <4>2. op'[u].kind = "refresh"
        BY <2>0, <3>2, <4>1, VpsAssumption DEF FirstPc, Op
      <4> QED BY <1>1, <1>3, <3>2, <4>1, <4>2 DEF EveryRunCosts
    <3>3. CASE v = u /\ op[u].pc # "off"
      <4>1. op[u].pc = "ips" /\ op'[u].nsg = op[u].nsg
        BY <2>0, <3>1, <3>3, Constants DEF RequestMoves
      <4> QED BY <1>1, <1>3, <3>3, <4>1 DEF EveryRunCosts, Copying
    <3>4. CASE v # u
      BY <2>1, <3>1, <3>4 DEF RequestMoves
    <3> QED BY <3>2, <3>3, <3>4
  <2> QED BY <1>0, <2>1, <2>2, <2>3, Writers
<1> QED BY <1>1, <1>2, <1>3, CostStep, DoneStep, InHandStep DEF EveryRunCosts

-----------------------------------------------------------------------------
(* Without failures of the process and its database, work has an owner.    *)

\* A status that says that nothing is in progress.
Settled == {"running", "failed", "terminated", "stopped"}

\* Where only the cloud fails, no write is lost and nothing crashes.
LEMMA OnlyTheCloudFails ==
  ASSUME Prompt
  PROVE  ~Fault("db") /\ ~Fault("crash") /\ ~Crash
BY DEF Prompt, Fault, Crash

\* A step of the worker that leaves the status alone, or settles it, and goes
\* on with its job.
LEMMA WorkerOwns ==
  ASSUME OwnerWrites, UNCHANGED <<op, jobs, phase>>,
         row'.exists => row.exists /\ (row'.status = row.status \/ row'.status \in Settled),
         \/ row'.exists => row'.status \in Settled
         \/ /\ WritesFirst => WritesFirst'
            /\ \A j \in Job \ {1} : WritesTermination(j) => WritesTermination(j)'
  PROVE  OwnerWrites'
<1>1. phase' = "serving" /\ GoesBack'
  BY DEF OwnerWrites, GoesBack
<1>2. (Pursues("terminate") => Pursues("terminate")') /\ (Pursues("restart") => Pursues("restart")')
      /\ (Pursues("reset") => Pursues("reset")') /\ (Unfinished(1) => Unfinished(1)')
      /\ \A j \in Job : Unfinished(j) => Unfinished(j)'
  BY DEF Pursues, Unfinished
<1>3. CASE row'.exists => row'.status \in Settled
  BY <1>1, <1>3 DEF OwnerWrites, Settled
<1>4. CASE /\ WritesFirst => WritesFirst'
           /\ \A j \in Job \ {1} : WritesTermination(j) => WritesTermination(j)'
  <2>1. (FirstOwned => FirstOwned') /\ (TerminationOwned => TerminationOwned')
    BY <1>2, <1>4 DEF FirstOwned, TerminationOwned
  <2> QED BY <1>1, <1>2, <2>1 DEF OwnerWrites, Settled
<1> QED BY <1>3, <1>4

\* ProvisionVPS keeps an owner for the work in progress.
LEMMA RunOwns ==
  ASSUME Core, OwnerWrites, Prompt,
         Begin \/ CreateNSG \/ SaveNSG \/ AddRules \/ DropNSG \/ ClearNSG \/ MarkVPSFailed
         \/ Launch \/ SaveInstance \/ WaitRunning \/ Finish
  PROVE  OwnerWrites'
<1>0. Typed /\ WorkerShape /\ w \in WorkerRecord /\ row \in RowRecord /\ ~Fault("db")
  BY OnlyTheCloudFails DEF Core, Typed
<1>1. UNCHANGED <<op, jobs, phase>> /\ w.pc \in Provisioning
  BY Zenon DEF Begin, CreateNSG, SaveNSG, AddRules, DropNSG, ClearNSG, MarkVPSFailed, Launch,
     SaveInstance, WaitRunning, Finish, Provisioning
<1>2. w.job = 1 /\ jobs[1].state = "running"
  BY <1>0, <1>1, Busy
<1>3. ASSUME \/ w'.pc \in Provisioning
             \/ w'.pc \in Rolling /\ w'.after = "error",
             w'.job = 1
      PROVE  WritesFirst' /\ \A j \in Job \ {1} : WritesTermination(j) => WritesTermination(j)'
  BY <1>3 DEF WritesFirst, WritesTermination
<1>4. ASSUME NEW s \in Settled, StatusSet(s) PROVE OwnerWrites'
  BY <1>0, <1>1, <1>4, RowWrites, WorkerOwns DEF RowGets
<1>5. ASSUME row'.exists = row.exists, row'.status = row.status, w'.job = 1,
             w'.pc \in Provisioning \/ (w'.pc \in Rolling /\ w'.after = "error")
      PROVE  OwnerWrites'
  BY <1>1, <1>3, <1>5, WorkerOwns
<1>6. ASSUME row'.exists, row'.status = "provisioning", w'.job = 1, w'.pc \in Provisioning
      PROVE  OwnerWrites'
  <2>1. FirstOwned'
    BY <1>1, <1>2, <1>3, <1>6 DEF FirstOwned, Unfinished
  <2>2. phase' = "serving" /\ GoesBack'
    BY <1>1 DEF OwnerWrites, GoesBack
  <2> QED BY <1>6, <2>1, <2>2 DEF OwnerWrites
<1>7. ASSUME ~row'.exists PROVE OwnerWrites'
  BY <1>1, <1>7 DEF OwnerWrites, GoesBack
<1>8. ASSUME NEW pc \in Provisioning, Goto(pc) PROVE w'.job = 1 /\ w'.pc \in Provisioning
  BY <1>0, <1>2, <1>8, WorkerWrites DEF Keeps
<1>9. CASE Begin
  <2>1. CASE ~row.exists
    <3>1. UNCHANGED row
      <4>1. UNCHANGED row \/ \E s : StatusSet(s)
        BY <1>9, Zenon DEF Begin
      <4> QED BY <1>0, <2>1, <4>1, RowWrites DEF RowGets
    <3> QED BY <1>7, <2>1, <3>1
  <2>2. CASE row.exists
    <3>1. StatusSet("provisioning") /\ w' = [w EXCEPT !.pc = "create_nsg", !.key = row.key]
      BY <1>0, <1>9, <2>2, Zenon DEF Begin
    <3>2. w'.job = 1 /\ w'.pc \in Provisioning
      BY <1>0, <1>2, <3>1 DEF WorkerRecord, Provisioning
    <3> QED BY <1>0, <1>6, <2>2, <3>1, <3>2, RowWrites DEF RowGets
  <2> QED BY <2>1, <2>2
<1>10. CASE CreateNSG
  <2>1. \/ UNCHANGED row /\ w' = [w EXCEPT !.pc = "save_nsg", !.nsg = Fresh(nsgs)]
        \/ StatusSet("failed")
    BY <1>10, Zenon DEF CreateNSG
  <2>2. CASE UNCHANGED row /\ w' = [w EXCEPT !.pc = "save_nsg", !.nsg = Fresh(nsgs)]
    <3>1. w'.job = 1 /\ w'.pc \in Provisioning
      BY <1>0, <1>2, <2>2 DEF WorkerRecord, Provisioning
    <3> QED BY <1>5, <2>2, <3>1
  <2> QED BY <1>4, <2>1, <2>2 DEF Settled
<1>11. CASE SaveNSG \/ ClearNSG
  <2>1. /\ Goto("rules") \/ Goto("mark_failed")
        /\ \E n : Written([row EXCEPT !.nsg = n])
    BY <1>0, <1>11, Zenon DEF SaveNSG, ClearNSG
  <2>2. row'.exists = row.exists /\ row'.status = row.status
    BY <1>0, <2>1, RowWrites
  <2> QED BY <1>5, <1>8, <2>1, <2>2 DEF Provisioning
<1>12. CASE AddRules \/ DropNSG
  <2>1. UNCHANGED row /\ (Goto("launch") \/ Goto("drop_nsg") \/ Goto("clear_nsg"))
    BY <1>12, Zenon DEF AddRules, DropNSG
  <2> QED BY <1>5, <1>8, <2>1 DEF Provisioning
<1>13. CASE MarkVPSFailed
  BY <1>0, <1>4, <1>13 DEF MarkVPSFailed, Settled
<1>14. CASE Launch
  <2>1. /\ UNCHANGED row
        /\ \/ w' = [w EXCEPT !.pc = "save_instance", !.inst = FreshInstance]
           \/ RollbackBegins(None, "error")
    BY <1>14, Zenon DEF Launch
  <2>2. CASE w' = [w EXCEPT !.pc = "save_instance", !.inst = FreshInstance]
    <3>1. w'.job = 1 /\ w'.pc \in Provisioning
      BY <1>0, <1>2, <2>2 DEF WorkerRecord, Provisioning
    <3> QED BY <1>5, <2>1, <3>1
  <2>3. CASE RollbackBegins(None, "error")
    <3>1. w'.job = 1 /\ w'.pc \in Rolling /\ w'.after = "error"
      BY <1>0, <1>2, <2>3, WorkerWrites DEF Rolling
    <3> QED BY <1>5, <2>1, <3>1
  <2> QED BY <2>1, <2>2, <2>3
<1>15. CASE SaveInstance
  <2>1. RowUpdate("provisioning", w.key) /\ Goto("wait")
    BY <1>0, <1>15, Zenon DEF SaveInstance
  <2>2. row'.exists => row'.status = "provisioning"
    BY <1>0, <2>1, RowWrites
  <2> QED BY <1>6, <1>7, <1>8, <2>1, <2>2 DEF Provisioning
<1>16. CASE WaitRunning
  <2>1. UNCHANGED row /\ (Goto("finish") \/ RollbackBegins(w.inst, "error"))
    BY <1>16, Zenon DEF WaitRunning, FailRun
  <2>2. CASE Goto("finish")
    BY <1>5, <1>8, <2>1, <2>2 DEF Provisioning
  <2>3. CASE RollbackBegins(w.inst, "error")
    <3>1. w'.job = 1 /\ w'.pc \in Rolling /\ w'.after = "error"
      BY <1>0, <1>2, <2>3, WorkerWrites DEF Rolling
    <3> QED BY <1>5, <2>1, <3>1
  <2> QED BY <2>1, <2>2, <2>3
<1>17. CASE Finish
  <2>1. RowUpdate("running", TRUE)
    BY <1>0, <1>17, Zenon DEF Finish
  <2>2. row'.exists => row.exists /\ row'.status = "running"
    BY <1>0, <2>1, RowWrites
  <2> QED BY <1>1, <2>2, WorkerOwns DEF Settled
<1> QED BY <1>9, <1>10, <1>11, <1>12, <1>13, <1>14, <1>15, <1>16, <1>17

\* RollbackVPS and TerminateInstance keep an owner for the work in progress.
LEMMA RollbackOwns ==
  ASSUME Core, OwnerWrites, Prompt,
         Terminate \/ WaitTerminated \/ Unhook \/ Terminated \/ RolledBack
  PROVE  OwnerWrites'
<1>0. Typed /\ WorkerShape /\ w \in WorkerRecord /\ row \in RowRecord /\ ~Fault("db")
  BY OnlyTheCloudFails DEF Core, Typed
<1>1. UNCHANGED <<op, jobs, phase>>
  BY Zenon DEF Terminate, WaitTerminated, Unhook, Terminated, RolledBack
<1>2. ASSUME NEW s \in Settled, StatusSet(s) PROVE OwnerWrites'
  BY <1>0, <1>1, <1>2, RowWrites, WorkerOwns DEF RowGets
<1>3. ASSUME NEW pc \in {"gone", "unhook", "terminated", "rolled_back"}, Goto(pc),
             pc = "rolled_back" => w.pc = "unhook_again", w.pc \in Rolling
      PROVE  /\ WritesFirst => WritesFirst'
             /\ \A j \in Job \ {1} : WritesTermination(j) => WritesTermination(j)'
  <2>1. w'.pc = pc /\ w'.job = w.job /\ w'.after = w.after
    BY <1>0, <1>3, WorkerWrites DEF Keeps
  <2> QED BY <1>3, <2>1 DEF WritesFirst, WritesTermination, Provisioning, Rolling
<1>4. CASE Terminate
  <2>1. \/ StatusSet("running")
        \/ UNCHANGED row /\ Goto("gone") /\ w.pc = "terminate"
    BY <1>4, Zenon DEF Terminate
  <2>2. CASE UNCHANGED row /\ Goto("gone") /\ w.pc = "terminate"
    <3>1. w.pc \in Rolling
      BY <2>2 DEF Rolling
    <3> QED BY <1>1, <1>3, <2>2, <3>1, WorkerOwns
  <2> QED BY <1>2, <2>1, <2>2 DEF Settled
<1>5. CASE WaitTerminated
  <2>1. UNCHANGED row /\ Goto("unhook") /\ w.pc = "gone"
    BY <1>5, Zenon DEF WaitTerminated
  <2>2. w.pc \in Rolling
    BY <2>1 DEF Rolling
  <2> QED BY <1>1, <1>3, <2>1, <2>2, WorkerOwns
<1>6. CASE Unhook
  <2>1. UNCHANGED row \/ \E n : Written([row EXCEPT !.nsg = n])
    BY <1>6, Zenon DEF Unhook, TryDeleteNSG
  <2>2. row'.exists = row.exists /\ row'.status = row.status
    BY <1>0, <2>1, RowWrites
  <2>3. CASE row.exists
    <3>1. /\ w.pc \in {"unhook", "unhook_again"}
          /\ Goto(IF w.pc = "unhook" THEN "terminated" ELSE "rolled_back")
      BY <1>6, <2>3, Zenon DEF Unhook
    <3>2. w.pc \in Rolling
      BY <3>1 DEF Rolling
    <3> QED BY <1>1, <1>3, <2>2, <3>1, <3>2, WorkerOwns
  <2>4. CASE ~row.exists
    BY <1>1, <2>2, <2>4, WorkerOwns
  <2> QED BY <2>3, <2>4
<1>7. CASE Terminated \/ RolledBack
  <2>1. StatusSet("terminated") \/ StatusSet("failed")
    BY <1>0, <1>7, Zenon DEF Terminated, RolledBack
  <2> QED BY <1>2, <2>1 DEF Settled
<1> QED BY <1>4, <1>5, <1>6, <1>7
\* A run ends: the status was another one before.
LEMMA EndOwns ==
  ASSUME Core, OwnerWrites, MarkComplete \/ MarkFailed \/ GiveUp
  PROVE  OwnerWrites'
<1>0. Typed /\ w.pc \in {"complete", "error", "given_up"} /\ UNCHANGED <<row, phase, op>>
  BY Zenon DEF Core, MarkComplete, MarkFailed, GiveUp
<1>1. w' = Idle \/ w'.job = w.job
  <2>1. w' = Idle \/ (\E pc : Goto(pc)) \/ (\E i, after : RollbackBegins(i, after))
    BY Zenon DEF MarkComplete, MarkFailed, GiveUp
  <2> QED BY <1>0, <2>1, WorkerWrites DEF Keeps
<1>2. ASSUME NEW j \in Job, j # w.job PROVE jobs'[j] = jobs[j]
  <2>1. UNCHANGED jobs \/ \E s, a : JobSet(s, a)
    BY Zenon DEF MarkComplete, MarkFailed, GiveUp
  <2> QED BY <1>0, <1>2, <2>1, JobWrites
<1>3. phase' = "serving" /\ GoesBack' /\ \A k : Pursues(k) => Pursues(k)'
  BY <1>0 DEF OwnerWrites, GoesBack, Pursues
<1>4. FirstOwned => FirstOwned'
  <2>1. CASE \E u \in Users : op[u].pc = "enqueue_first"
    BY <1>0, <2>1 DEF FirstOwned
  <2>2. CASE Unfinished(1) /\ WritesFirst
    <3>1. w.job # 1
      BY <1>0, <2>2 DEF WritesFirst, Provisioning, Rolling
    <3>2. Unfinished(1)'
      BY <1>2, <2>2, <3>1, Numbers DEF Unfinished
    <3>3. WritesFirst'
      BY <1>1, <3>1, Constants DEF WritesFirst
    <3> QED BY <3>2, <3>3 DEF FirstOwned
  <2> QED BY <2>1, <2>2 DEF FirstOwned
<1>5. TerminationOwned => TerminationOwned'
  <2>1. ASSUME NEW j \in Job \ {1}, Unfinished(j), WritesTermination(j) PROVE TerminationOwned'
    <3>1. w.job # j
      BY <1>0, <2>1 DEF WritesTermination
    <3>2. jobs'[j] = jobs[j] /\ w'.job # j
      BY <1>1, <1>2, <3>1, Constants
    <3>3. jobs'[j].state \in {"pending", "running"}
      BY <2>1, <3>2 DEF Unfinished
    <3> QED BY <3>2, <3>3 DEF TerminationOwned, Unfinished, WritesTermination
  <2> QED BY <1>3, <2>1 DEF TerminationOwned
<1> QED BY <1>0, <1>3, <1>4, <1>5 DEF OwnerWrites

\* A run begins.
LEMMA ClaimOwns ==
  ASSUME Core, OwnerWrites, Claim
  PROVE  OwnerWrites'
<1>0. Typed /\ WorkerShape /\ jobs \in [Job -> JobRecord] /\ UNCHANGED <<row, phase, op>>
  BY DEF Core, Typed, Claim
<1>1. phase' = "serving" /\ GoesBack' /\ \A k : Pursues(k) => Pursues(k)'
  BY <1>0 DEF OwnerWrites, GoesBack, Pursues
<1>2. PICK j \in Job :
        /\ jobs[j].state = "pending"
        /\ jobs' = [jobs EXCEPT ![j].state = "running"]
        /\ w' = IF j = 1
                  THEN [Idle EXCEPT !.pc = "begin"]
                  ELSE [Idle EXCEPT !.pc = "terminate", !.job = j,
                          !.inst = jobs[j].inst, !.after = "complete"]
  BY Zenon DEF Claim
<1>3. \A i \in Job : jobs[i].state \in {"pending", "running"}
                       => jobs'[i].state \in {"pending", "running"}
  BY <1>0, <1>2 DEF JobRecord
<1>4. \/ w'.job = 1 /\ w'.pc = "begin"
      \/ w'.job = j /\ w'.pc = "terminate" /\ j # 1
  BY <1>2, Constants DEF WorkerRecord
<1>5. FirstOwned => FirstOwned'
  BY <1>0, <1>3, <1>4, Numbers DEF FirstOwned, Unfinished, WritesFirst, Provisioning
<1>6. TerminationOwned => TerminationOwned'
  <2>1. ASSUME NEW i \in Job \ {1}, Unfinished(i) PROVE TerminationOwned'
    <3>1. jobs'[i].state \in {"pending", "running"}
      BY <1>3, <2>1 DEF Unfinished
    <3> QED BY <1>4, <3>1 DEF TerminationOwned, Unfinished, WritesTermination
  <2> QED BY <1>1, <2>1 DEF TerminationOwned
<1> QED BY <1>0, <1>1, <1>5, <1>6 DEF OwnerWrites

\* A request writes the status it has found running or stopped.
LEMMA GoesBackStep ==
  ASSUME Core, GoesBack, NEW u \in Users, Ask(u) \/ OpStep(u)
  PROVE  GoesBack'
<1>0. Typed /\ RequestShape /\ RequestMoves(u)
  BY Requests DEF Core
<1>1. ASSUME op[u].pc = "off", op'[u] # Off
      PROVE  op'[u].prev \in Accepted(op'[u].kind) /\ op'[u].pc = FirstPc(op'[u].kind)
  <2>1. Ask(u)
    BY <1>1, Zenon DEF OpStep, EnqueueFirst, Mark, Enqueue, Act, WaitBack, Settle, Erase,
       RefreshIPs, WriteBack
  <2>2. PICK k \in Ops :
          /\ row.status \in Accepted(k)
          /\ OpSet(u, [pc |-> FirstPc(k), kind |-> k, inst |-> row.inst, prev |-> row.status,
                       nsg |-> IF k = "refresh" THEN row.nsg ELSE None,
                       key |-> k = "refresh" /\ row.key])
    BY <2>1, Zenon DEF Ask
  <2> DEFINE o == [pc |-> FirstPc(k), kind |-> k, inst |-> row.inst, prev |-> row.status,
                   nsg |-> IF k = "refresh" THEN row.nsg ELSE None,
                   key |-> k = "refresh" /\ row.key]
  <2>3. o.pc = FirstPc(k) /\ o.kind = k /\ o.prev = row.status
    OBVIOUS
  <2>4. op'[u] = o
    <3>1. \A x : OpSet(u, x) => op'[u] = x
      BY <1>0, RequestWrites, ZenonT(60)
    <3> QED BY <2>2, <3>1
  <2> HIDE DEF o
  <2> QED BY <2>2, <2>3, <2>4
<1>2. \/ /\ op'[u].pc \in {"mark", "act", "wait", "settle"}
         /\ op'[u].kind \in {"restart", "reset"}
      \/ op'[u].pc = "settle"
      => op'[u].prev \in {"running", "stopped"}
  <2>1. CASE op'[u] = Off
    BY <2>1, Constants
  <2>2. CASE op[u].pc = "off" /\ op'[u] # Off
    <3>1. op'[u].kind \in Op
      BY <1>0, <2>2, VpsAssumption, Constants DEF RequestMoves
    <3> QED BY <1>1, <2>2, <3>1 DEF Accepted, FirstPc, Op
  <2>3. CASE op[u].pc # "off" /\ op'[u] # Off
    <3>1. op'[u].kind = op[u].kind
      BY <1>0, <2>3 DEF RequestMoves
    <3>2. CASE op'[u].prev \in {"running", "stopped"}
      BY <3>2
    <3>3. CASE op'[u].prev = op[u].prev /\ op[u].pc = "mark" /\ op'[u].pc \in {"enqueue", "act"}
      BY <1>0, <3>1, <3>3 DEF RequestShape, GoesBack
    <3>4. CASE op'[u].prev = op[u].prev /\ op[u].pc = "ips" /\ op'[u].pc = "write_back"
      BY <3>4
    <3>5. CASE op'[u].prev = op[u].prev /\ op[u].pc = "act" /\ op[u].kind \in {"restart", "reset"}
      BY <1>0, <3>5 DEF GoesBack
    <3>6. CASE op'[u].prev = op[u].prev /\ op[u].pc = "wait"
      BY <1>0, <3>6 DEF GoesBack, RequestShape
    <3> QED BY <1>0, <2>3, <3>2, <3>3, <3>4, <3>5, <3>6 DEF RequestMoves
  <2> QED BY <2>1, <2>2, <2>3
<1>3. \A v \in Users \ {u} : op'[v] = op[v]
  BY <1>0 DEF RequestMoves
<1> QED BY <1>2, <1>3 DEF GoesBack
\* A request goes on, or ends and settles the status.
LEMMA RequestOwns ==
  ASSUME Core, OwnerWrites, Prompt, NEW u \in Users, Ask(u) \/ OpStep(u)
  PROVE  OwnerWrites'
<1>0. /\ Typed /\ WorkerShape /\ RequestShape /\ RoomLeft /\ RequestMoves(u)
      /\ jobs \in [Job -> JobRecord] /\ op[u].pc \in RequestPc
      /\ ~Fault("db") /\ UNCHANGED <<phase, w>> /\ phase = "serving"
  BY Requests, OnlyTheCloudFails, Frames, Fields DEF Core, Typed, OwnerWrites, Ask
<1>1. phase' = "serving" /\ GoesBack'
  BY <1>0, GoesBackStep DEF OwnerWrites
<1>2. \A v \in Users \ {u} : op'[v] = op[v]
  BY <1>0 DEF RequestMoves
<1> DEFINE AtWork(o, k) == o.kind = k /\ o.pc \in {"enqueue", "act", "wait", "settle"}
<1>3. ASSUME NEW k, AtWork(op[u], k) => AtWork(op'[u], k) PROVE Pursues(k) => Pursues(k)'
  BY <1>2, <1>3 DEF Pursues
<1>4. ASSUME ~row'.exists PROVE OwnerWrites'
  BY <1>1, <1>4 DEF OwnerWrites
<1>5. ASSUME row'.exists, row'.status \in Settled PROVE OwnerWrites'
  BY <1>1, <1>5 DEF OwnerWrites, Settled
<1>6. ASSUME UNCHANGED <<row, jobs>>, op[u].pc # "enqueue_first",
             \A k \in {"terminate", "restart", "reset"} :
               AtWork(op[u], k) => AtWork(op'[u], k)
      PROVE  OwnerWrites'
  <2>1. \A k \in {"terminate", "restart", "reset"} : Pursues(k) => Pursues(k)'
    <3> HIDE DEF AtWork
    <3> QED BY <1>3, <1>6
  <2>2. FirstOwned => FirstOwned'
    BY <1>0, <1>2, <1>6 DEF FirstOwned, Unfinished, WritesFirst
  <2>3. TerminationOwned => TerminationOwned'
    BY <1>0, <1>6, <2>1 DEF TerminationOwned, Unfinished, WritesTermination
  <2> QED BY <1>1, <1>6, <2>1, <2>2, <2>3 DEF OwnerWrites
<1>7. CASE Ask(u)
  <2>1. UNCHANGED <<row, jobs>> /\ op[u].pc = "off"
    BY <1>7 DEF Ask
  <2> QED BY <1>6, <2>1
<1>8. CASE EnqueueFirst(u)
  <2>1. /\ op[u].pc = "enqueue_first" /\ UNCHANGED row
        /\ jobs' = [jobs EXCEPT ![1].state = "pending"]
    BY <1>0, <1>8, Zenon DEF EnqueueFirst
  <2>2. jobs[1].state = "absent"
    BY <1>0, <2>1 DEF RequestShape
  <2>3. jobs'[1].state = "pending" /\ \A j \in Job \ {1} : jobs'[j] = jobs[j]
    BY <1>0, <2>1, Numbers DEF JobRecord
  <2>4. WritesFirst'
    BY <1>0, <2>2 DEF WorkerShape, WritesFirst
  <2>5. \A k \in {"terminate", "restart", "reset"} : Pursues(k) => Pursues(k)'
    <3>1. \A k : ~AtWork(op[u], k)
      BY <2>1
    <3> HIDE DEF AtWork
    <3> QED BY <1>3, <3>1
  <2>6. TerminationOwned => TerminationOwned'
    BY <1>0, <2>3, <2>5 DEF TerminationOwned, Unfinished, WritesTermination
  <2>7. FirstOwned'
    BY <2>3, <2>4 DEF FirstOwned, Unfinished
  <2> QED BY <1>1, <2>1, <2>5, <2>6, <2>7 DEF OwnerWrites
<1>9. CASE Mark(u)
  <2>1. /\ op[u].pc = "mark" /\ UNCHANGED jobs
        /\ StatusSet(CASE op[u].kind = "terminate" -> "terminating"
                       [] op[u].kind = "restart" -> "restarting"
                       [] op[u].kind = "reset" -> "resetting")
        /\ OpGoto(u, IF op[u].kind = "terminate" THEN "enqueue" ELSE "act")
    BY <1>0, <1>9, Zenon DEF Mark
  <2>2. op[u].kind \in {"terminate", "restart", "reset"}
    BY <1>0, <2>1 DEF RequestShape
  <2>3. /\ op'[u].kind = op[u].kind
        /\ op'[u].pc = IF op[u].kind = "terminate" THEN "enqueue" ELSE "act"
    <3>1. \A pc : OpGoto(u, pc) => op'[u].pc = pc /\ op'[u].kind = op[u].kind
      BY <1>0, RequestWrites, ZenonT(60)
    <3> QED BY <2>1, <3>1
  <2>4. Pursues(op[u].kind)'
    BY <2>2, <2>3 DEF Pursues
  <2>5. \A s : StatusSet(s) => row'.exists = row.exists /\ (row.exists => row'.status = s)
    BY <1>0, RowWrites DEF RowGets
  <2>6. CASE op[u].kind = "terminate"
    <3>1. StatusSet("terminating")
      BY <2>1, <2>6
    <3>2. Pursues("terminate")'
      BY <2>3, <2>6 DEF Pursues
    <3> QED BY <1>1, <2>5, <3>1, <3>2 DEF OwnerWrites, TerminationOwned
  <2>7. CASE op[u].kind = "restart"
    <3>1. StatusSet("restarting")
      BY <2>1, <2>7
    <3>2. Pursues("restart")'
      BY <2>3, <2>7 DEF Pursues
    <3> QED BY <1>1, <2>5, <3>1, <3>2 DEF OwnerWrites
  <2>8. CASE op[u].kind = "reset"
    <3>1. StatusSet("resetting")
      BY <2>1, <2>8
    <3>2. Pursues("reset")'
      BY <2>3, <2>8 DEF Pursues
    <3> QED BY <1>1, <2>5, <3>1, <3>2 DEF OwnerWrites
  <2> QED BY <2>2, <2>6, <2>7, <2>8
<1>10. CASE Enqueue(u)
  <2> DEFINE j == Min({i \in Job \ {1} : jobs[i].state = "absent"})
  <2>1. op[u].pc = "enqueue" /\ op[u].kind = "terminate" /\ j \in Absent
    BY <1>0, <1>10, NextJob DEF Enqueue, RequestShape
  <2>2. \/ /\ jobs' = [jobs EXCEPT ![j] = [state |-> "pending", attempts |-> 0,
                                           inst |-> op[u].inst]]
           /\ UNCHANGED row
        \/ ~row.exists /\ UNCHANGED row
        \/ StatusSet("terminated")
    BY <1>0, <1>10, Zenon DEF Enqueue, EndedAtOnce
  <2>3. ASSUME jobs' = [jobs EXCEPT ![j] = [state |-> "pending", attempts |-> 0,
                                            inst |-> op[u].inst]],
               UNCHANGED row
        PROVE  OwnerWrites'
    <3> HIDE DEF j
    <3>1. j \in Job \ {1} /\ jobs[j].state = "absent"
      BY <2>1 DEF Absent
    <3>2. jobs'[j].state = "pending" /\ jobs'[1] = jobs[1]
      BY <1>0, <2>3, <3>1, Numbers
    <3>3. w.job # j
      BY <1>0, <3>1, Constants DEF WorkerShape
    <3>4. TerminationOwned'
      BY <1>0, <3>1, <3>2, <3>3 DEF TerminationOwned, Unfinished, WritesTermination
    <3>5. FirstOwned => FirstOwned'
      BY <1>0, <1>2, <2>1, <3>2 DEF FirstOwned, Unfinished, WritesFirst
    <3>6. (Pursues("restart") => Pursues("restart")') /\ (Pursues("reset") => Pursues("reset")')
      <4>1. ~AtWork(op[u], "restart") /\ ~AtWork(op[u], "reset")
        BY <2>1
      <4> HIDE DEF AtWork
      <4> QED BY <1>3, <4>1
    <3> QED BY <1>1, <2>3, <3>4, <3>5, <3>6 DEF OwnerWrites
  <2>4. CASE StatusSet("terminated")
    <3>1. row'.exists => row'.status = "terminated"
      BY <1>0, <2>4, RowWrites DEF RowGets
    <3> QED BY <1>4, <1>5, <3>1 DEF Settled
  <2> QED BY <1>4, <2>2, <2>3, <2>4
<1>11. CASE Act(u)
  <2>1. op[u].pc = "act" /\ UNCHANGED <<row, jobs>> /\ op[u].kind # "terminate"
    BY <1>0, <1>11 DEF Act, RequestShape
  <2>2. ASSUME op[u].kind \in {"restart", "reset"}
        PROVE  op'[u].kind = op[u].kind /\ op'[u].pc \in {"wait", "settle"}
    <3>1. OpGoto(u, "wait") \/ OpGoto(u, "settle")
      BY <1>11, <2>2, Zenon DEF Act, OpRollback
    <3>2. \A pc : OpGoto(u, pc) => op'[u].pc = pc /\ op'[u].kind = op[u].kind
      BY <1>0, RequestWrites
    <3> QED BY <3>1, <3>2
  <2> QED BY <1>6, <2>1, <2>2
<1>12. CASE WaitBack(u)
  <2>1. op[u].pc = "wait" /\ UNCHANGED <<row, jobs>>
    BY <1>12 DEF WaitBack
  <2>2. op'[u].kind = op[u].kind /\ op'[u].pc = "settle"
    <3>1. op'[u] # Off
      <4>1. \/ OpGoto(u, "settle")
            \/ OpSet(u, [op[u] EXCEPT !.pc = "settle", !.prev = "running"])
        BY <1>12, Zenon DEF WaitBack, OpRollback
      <4>2. \A pc : OpGoto(u, pc) => op'[u].pc = pc
        BY <1>0, RequestWrites, ZenonT(60)
      <4>3. \A o : OpSet(u, o) => op'[u] = o
        BY <1>0, RequestWrites, ZenonT(60)
      <4>4. op[u] \in RequestRecord
        BY <1>0, RequestWrites
      <4>5. [op[u] EXCEPT !.pc = "settle", !.prev = "running"].pc = "settle"
        BY <4>4 DEF RequestRecord
      <4> QED BY <4>1, <4>2, <4>3, <4>5, Constants
    <3> QED BY <1>0, <2>1, <3>1 DEF RequestMoves
  <2> QED BY <1>6, <2>1, <2>2
<1>13. CASE Settle(u)
  <2>1. op[u].pc = "settle" /\ StatusSet(op[u].prev)
    BY <1>0, <1>13, Zenon DEF Settle
  <2>2. op[u].prev \in Settled
    BY <2>1 DEF OwnerWrites, GoesBack, Settled
  <2>3. row'.exists => row'.status = op[u].prev
    BY <1>0, <2>1, RowWrites DEF RowGets
  <2> QED BY <1>4, <1>5, <2>2, <2>3
<1>14. CASE Erase(u)
  <2>1. row' = NoRow
    BY <1>0, <1>14, Zenon DEF Erase
  <2> QED BY <1>4, <2>1, Constants
<1>15. ASSUME RefreshIPs(u) \/ WriteBack(u) PROVE FALSE
  <2>1. op[u].pc \in {"ips", "write_back"}
    BY <1>15 DEF RefreshIPs, WriteBack
  <2> QED BY <1>0, <2>1 DEF RequestShape, Prompt
<1> QED BY <1>7, <1>8, <1>9, <1>10, <1>11, <1>12, <1>13, <1>14, <1>15 DEF OpStep

\* Every step keeps an owner for the work in progress, who is to write the status.
LEMMA OwnerStep ==
  ASSUME Core, OwnerWrites, Prompt, Next
  PROVE  OwnerWrites'
<1>1. CASE Boots \/ Ends
  <2>1. UNCHANGED <<row, jobs, phase, w, op>>
    BY <1>1, Frames DEF Core
  <2> QED BY <2>1 DEF OwnerWrites, GoesBack, FirstOwned, TerminationOwned, Pursues, Unfinished,
             WritesFirst, WritesTermination
<1>2. ~Crash /\ ~Reconcile /\ ~Serve
  BY OnlyTheCloudFails DEF Reconcile, Serve, OwnerWrites
<1> QED BY <1>1, <1>2, ClaimOwns, RunOwns, RollbackOwns, EndOwns, RequestOwns DEF Next, Worker
-----------------------------------------------------------------------------
(* Without requests to stop either, every attempt costs a fault.           *)

\* A run of job 1 begins to fail at a fault.
LEMMA FailureCosts ==
  ASSUME Core, NeverStopped, OwnerWrites, Patient, row.exists, Next, Failing', ~Failing
  PROVE  faults' = faults + 1
<1>0. /\ Typed /\ WorkerShape /\ w \in WorkerRecord /\ ~Fault("db")
      /\ ~Crash /\ ~Reconcile /\ ~Serve
      /\ \A e : Fault(e) => faults' = faults + 1
  BY OnlyTheCloudFails, FaultCounts DEF Core, Typed, Patient, OwnerWrites, Reconcile, Serve
<1>1. Worker
  <2>1. CASE UNCHANGED w
    BY <2>1 DEF Failing
  <2> QED BY <1>0, <2>1, Writers
<1>2. w'.job = 1 /\ w'.pc \in {"drop_nsg", "clear_nsg", "mark_failed", "error", "given_up"} \cup Rolling
  BY DEF Failing
<1>3. ~Claim
  <2>1. ASSUME Claim
        PROVE  \E j \in Job :
                 w' = IF j = 1
                        THEN [Idle EXCEPT !.pc = "begin"]
                        ELSE [Idle EXCEPT !.pc = "terminate", !.job = j,
                                !.inst = jobs[j].inst, !.after = "complete"]
    BY <2>1, Zenon DEF Claim
  <2>2. Claim => w'.pc = "begin" \/ w'.job # 1
    BY <2>1, Constants DEF WorkerRecord
  <2> QED BY <1>2, <2>2 DEF Rolling
<1>4. w.job = 1 /\ w'.pc \in Onward(w.pc)
  <2>1. w' # Idle
    BY <1>2, Constants DEF Rolling
  <2> QED BY <1>0, <1>1, <1>2, <1>3, <2>1, WorkerGoesOn
<1>5. w.pc \in {"begin", "create_nsg", "rules", "launch", "save_instance", "wait", "finish"}
  BY <1>0, <1>2, <1>4, Fields DEF Failing, Onward, WorkerPc, Provisioning, Rolling
<1>6. \/ Begin \/ CreateNSG \/ AddRules \/ Launch \/ SaveInstance \/ WaitRunning \/ Finish
  BY <1>1, <1>3, <1>5, Zenon DEF Worker, SaveNSG, DropNSG, ClearNSG, MarkVPSFailed, Terminate,
     WaitTerminated, Unhook, Terminated, RolledBack, MarkComplete, MarkFailed, GiveUp
<1>7. CASE Begin
  <2>1. w' = [w EXCEPT !.pc = "create_nsg", !.key = row.key]
    BY <1>0, <1>7, Zenon DEF Begin
  <2> QED BY <1>0, <1>2, <2>1 DEF WorkerRecord, Rolling
<1>8. CASE CreateNSG
  <2>1. w' = [w EXCEPT !.pc = "save_nsg", !.nsg = Fresh(nsgs)] \/ Fault("oci")
    BY <1>8, Zenon DEF CreateNSG
  <2>2. w' # [w EXCEPT !.pc = "save_nsg", !.nsg = Fresh(nsgs)]
    <3>1. [w EXCEPT !.pc = "save_nsg", !.nsg = Fresh(nsgs)].pc = "save_nsg"
      BY <1>0 DEF WorkerRecord
    <3> QED BY <1>2, <3>1 DEF Rolling
  <2> QED BY <1>0, <2>1, <2>2
<1>9. CASE AddRules
  <2>1. Goto("launch") \/ Fault("oci")
    BY <1>9, Zenon DEF AddRules
  <2>2. ~Goto("launch")
    BY <1>0, <1>2, WorkerWrites DEF Rolling
  <2> QED BY <1>0, <2>1, <2>2
<1>10. CASE Launch
  <2>1. w' = [w EXCEPT !.pc = "save_instance", !.inst = FreshInstance] \/ Fault("oci")
    BY <1>10, Zenon DEF Launch
  <2>2. w' # [w EXCEPT !.pc = "save_instance", !.inst = FreshInstance]
    <3>1. [w EXCEPT !.pc = "save_instance", !.inst = FreshInstance].pc = "save_instance"
      BY <1>0 DEF WorkerRecord
    <3> QED BY <1>2, <3>1 DEF Rolling
  <2> QED BY <1>0, <2>1, <2>2
<1>11. CASE SaveInstance
  <2>1. Goto("wait")
    BY <1>0, <1>11, Zenon DEF SaveInstance
  <2> QED BY <1>0, <1>2, <2>1, WorkerWrites DEF Rolling
<1>12. CASE WaitRunning
  <2>1. w.pc = "wait" /\ (Goto("finish") \/ InState(w.inst, Dead \cup {"stopped"}) \/ Fault("oci"))
    BY <1>12, Zenon DEF WaitRunning
  <2>2. ~InState(w.inst, Dead \cup {"stopped"})
    BY <2>1 DEF NeverStopped, InState, Dead
  <2>3. ~Goto("finish")
    BY <1>0, <1>2, WorkerWrites DEF Rolling
  <2> QED BY <1>0, <2>1, <2>2, <2>3
<1>13. CASE Finish
  <2>1. Goto("complete")
    BY <1>0, <1>13, Zenon DEF Finish
  <2> QED BY <1>0, <1>2, <2>1, WorkerWrites DEF Rolling
<1> QED BY <1>6, <1>7, <1>8, <1>9, <1>10, <1>11, <1>12, <1>13

\* The last rollback begins when the attempts are used up.
LEMMA LastRollbackBegins ==
  ASSUME Core, OwnerWrites, Patient, row.exists, Next, LastRollback'
  PROVE  \/ UNCHANGED w
         \/ LastRollback /\ w'.pc # "terminate" /\ Worker
         \/ /\ MarkFailed /\ w.job = 1 /\ jobs[1].attempts + 1 >= MaxAttempts
            /\ UNCHANGED <<row, jobs>>
            /\ IF w'.pc = "terminate" THEN w'.inst = row.inst ELSE row.inst = None
<1>0. /\ Typed /\ WorkerShape /\ w \in WorkerRecord /\ ~Fault("db")
      /\ ~Crash /\ ~Reconcile /\ ~Serve
  BY OnlyTheCloudFails DEF Core, Typed, Patient, OwnerWrites, Reconcile, Serve
<1>1. w'.job = 1 /\ (w'.pc = "given_up" \/ (w'.pc \in Rolling /\ w'.after = "give_up"))
  BY DEF LastRollback
<1>2. CASE Claim
  <2>1. \E j \in Job :
          w' = IF j = 1
                 THEN [Idle EXCEPT !.pc = "begin"]
                 ELSE [Idle EXCEPT !.pc = "terminate", !.job = j,
                         !.inst = jobs[j].inst, !.after = "complete"]
    BY <1>2, Zenon DEF Claim
  <2>2. w'.pc = "begin" \/ w'.job # 1
    BY <2>1, Constants DEF WorkerRecord
  <2> QED BY <1>1, <2>2 DEF Rolling
<1>3. CASE MarkFailed
  <2>1. w' # Idle
    BY <1>1, Constants DEF Rolling
  <2>2. w.job = 1
    BY <1>0, <1>1, <1>3, <2>1, WorkerGoesOn DEF Worker, Claim, MarkFailed
  <2>3. jobs[w.job].attempts + 1 >= MaxAttempts /\ UNCHANGED <<row, jobs>>
    BY <1>0, <1>3, <2>1, Zenon DEF MarkFailed
  <2>4. IF NoRollback THEN Goto("given_up") ELSE RollbackBegins(row.inst, "give_up")
    BY <1>0, <1>3, <2>1, Zenon DEF MarkFailed
  <2>5. CASE NoRollback
    <3>1. row.inst = None
      BY <2>2, <2>5 DEF NoRollback
    <3> QED BY <1>0, <1>3, <2>2, <2>3, <2>4, <2>5, <3>1, WorkerWrites
  <2>6. CASE ~NoRollback
    <3>1. row.inst # None
      BY <2>2, <2>6 DEF NoRollback
    <3>2. w'.pc = "terminate" /\ w'.inst = row.inst
      BY <1>0, <2>4, <2>6, <3>1, WorkerWrites
    <3> QED BY <1>3, <2>2, <2>3, <3>2
  <2> QED BY <2>5, <2>6
<1>4. CASE Worker /\ ~Claim /\ ~MarkFailed
  <2>1. w' # Idle
    BY <1>1, Constants DEF Rolling
  <2>2. w.job = 1 /\ w'.pc \in Onward(w.pc)
    BY <1>0, <1>1, <1>4, <2>1, WorkerGoesOn
  <2>3. w.pc # "error"
    BY <1>4, Zenon DEF Worker, Begin, CreateNSG, SaveNSG, AddRules, DropNSG, ClearNSG,
       MarkVPSFailed, Launch, SaveInstance, WaitRunning, Finish, Terminate, WaitTerminated, Unhook,
       Terminated, RolledBack, MarkComplete, GiveUp
  <2>4. w.pc \in Rolling \cup {"launch", "wait"}
    BY <1>0, <1>1, <2>2, <2>3, Fields DEF Onward, WorkerPc, Provisioning, Rolling
  <2>5. CASE w.pc \in {"launch", "wait"}
    <3>1. Launch \/ WaitRunning
      BY <1>4, <2>5, Zenon DEF Worker, Begin, CreateNSG, SaveNSG, AddRules, DropNSG, ClearNSG,
         MarkVPSFailed, SaveInstance, Finish, Terminate, WaitTerminated, Unhook, Terminated,
         RolledBack, MarkComplete, GiveUp
    <3>2. \/ w' = [w EXCEPT !.pc = "save_instance", !.inst = FreshInstance]
          \/ Goto("finish") \/ \E i : RollbackBegins(i, "error")
      BY <3>1, Zenon DEF Launch, WaitRunning, FailRun
    <3>3. w'.pc \in {"save_instance", "finish"} \/ (w'.after = "error" /\ w'.pc # "given_up")
      BY <1>0, <3>2, WorkerWrites DEF WorkerRecord
    <3> QED BY <1>1, <3>3 DEF Rolling
  <2>6. CASE w.pc \in Rolling
    <3>1. Terminate \/ WaitTerminated \/ Unhook \/ Terminated \/ RolledBack
      BY <1>4, <2>6, Zenon DEF Worker, Begin, CreateNSG, SaveNSG, AddRules, DropNSG, ClearNSG,
         MarkVPSFailed, Launch, SaveInstance, WaitRunning, Finish, MarkComplete, GiveUp, Rolling
    <3>2. \E pc : Goto(pc)
      BY <3>1, Zenon DEF Terminate, WaitTerminated, Unhook, Terminated, ThenGoto, RolledBack
    <3>3. w'.after = w.after
      BY <1>0, <3>2, WorkerWrites DEF Keeps
    <3>4. w.after = "give_up"
      <4>1. CASE RolledBack
        <5>1. Goto(CASE w.after = "error" -> "error"
                     [] w.after = "give_up" -> "given_up"
                     [] w.after = "serve" -> "resume")
          BY <4>1 DEF RolledBack
        <5>2. w.after \in {"error", "give_up", "serve"}
          BY <1>0, <2>6, <4>1, Fields DEF RolledBack, WorkerShape, After
        <5>3. w.after # "error" /\ w.after # "serve"
          <6>1. \A pc : Goto(pc) => w'.pc = pc
            BY <1>0, WorkerWrites
          <6>2. ~Goto("error") /\ ~Goto("resume")
            BY <1>1, <6>1 DEF Rolling
          <6> QED BY <5>1, <6>2
        <5> QED BY <5>2, <5>3
      <4>2. CASE ~RolledBack
        <5>1. w.pc # "rolled_back"
          BY <3>1, <4>2, Zenon DEF Terminate, WaitTerminated, Unhook, Terminated
        <5>2. w'.pc # "given_up"
          BY <2>2, <2>6, <5>1 DEF Onward, Rolling
        <5> QED BY <1>1, <3>3, <5>2
      <4> QED BY <4>1, <4>2
    <3>5. w'.pc # "terminate"
      BY <2>2, <2>6 DEF Onward, Rolling
    <3> QED BY <1>4, <2>2, <2>6, <3>4, <3>5 DEF LastRollback
  <2> QED BY <2>4, <2>5, <2>6
<1> QED BY <1>0, <1>2, <1>3, <1>4, Writers
\* Who says that the provisioning has failed.
LEMMA WhoMarksFailed ==
  ASSUME Core, OwnerWrites, Patient, Next, row'.exists, row'.status = "failed"
  PROVE  /\ row.exists
         /\ \/ row.status = "failed" /\ ~Finish
            \/ MarkVPSFailed
            \/ RolledBack
            \/ CreateNSG /\ w'.pc = "error"
<1>0. /\ Typed /\ RequestShape /\ ~Fault("db") /\ ~Crash /\ ~Reconcile /\ ~Serve
      /\ \A s : StatusSet(s) => /\ row'.exists = row.exists
                                /\ row.exists => row'.status = s
  BY OnlyTheCloudFails, RowWrites DEF Core, Patient, OwnerWrites, Reconcile, Serve, RowGets
<1>1. ASSUME NEW s, StatusSet(s), s # "failed" PROVE FALSE
  BY <1>0, <1>1
<1>2. CASE UNCHANGED row /\ ~Finish
  BY <1>2
<1>3. CASE Worker
  <2>1. CASE \/ Claim \/ AddRules \/ DropNSG \/ Launch \/ WaitRunning \/ WaitTerminated
             \/ MarkComplete \/ MarkFailed \/ GiveUp
    <3>1. UNCHANGED row /\ ~Finish
      BY <2>1, Zenon DEF Claim, AddRules, DropNSG, Launch, WaitRunning, WaitTerminated,
         MarkComplete, MarkFailed, GiveUp, Finish
    <3> QED BY <1>2, <3>1
  <2>2. CASE Begin
    <3>1. UNCHANGED row \/ StatusSet("provisioning")
      BY <1>0, <2>2, Zenon DEF Begin
    <3>2. ~Finish
      BY <2>2 DEF Begin, Finish
    <3> QED BY <1>1, <1>2, <3>1, <3>2
  <2>3. CASE CreateNSG
    <3>1. UNCHANGED row \/ (StatusSet("failed") /\ Goto("error"))
      BY <2>3, Zenon DEF CreateNSG
    <3>2. ~Finish
      BY <2>3 DEF CreateNSG, Finish
    <3>3. Goto("error") => w'.pc = "error"
      BY <1>0, WorkerWrites
    <3> QED BY <1>0, <1>2, <2>3, <3>1, <3>2, <3>3
  <2>4. CASE SaveNSG \/ ClearNSG \/ Unhook
    <3>1. UNCHANGED row \/ \E n : Written([row EXCEPT !.nsg = n])
      BY <2>4, Zenon DEF SaveNSG, ClearNSG, Unhook, TryDeleteNSG
    <3>2. row'.exists = row.exists /\ row'.status = row.status
      BY <1>0, <3>1, RowWrites
    <3>3. ~Finish
      BY <2>4 DEF SaveNSG, ClearNSG, Unhook, Finish
    <3> QED BY <3>2, <3>3
  <2>5. CASE MarkVPSFailed \/ RolledBack
    <3>1. StatusSet("failed")
      BY <1>0, <2>5, Zenon DEF MarkVPSFailed, RolledBack
    <3> QED BY <1>0, <2>5, <3>1
  <2>6. CASE SaveInstance \/ Finish
    <3>1. RowUpdate("provisioning", w.key) \/ RowUpdate("running", TRUE)
      BY <1>0, <2>6, Zenon DEF SaveInstance, Finish
    <3>2. \A s, key : RowUpdate(s, key) =>
            row'.exists = row.exists /\ (row.exists => row'.status = s)
      BY <1>0, RowWrites
    <3>3. row'.status # "provisioning" /\ row'.status # "running"
      OBVIOUS
    <3> QED BY <3>1, <3>2, <3>3, Zenon
  <2>7. CASE Terminate \/ Terminated
    <3>1. UNCHANGED row \/ StatusSet("running") \/ StatusSet("terminated")
      BY <2>7, Zenon DEF Terminate, Terminated
    <3>2. ~Finish
      BY <2>7 DEF Terminate, Terminated, Finish
    <3> QED BY <1>1, <1>2, <3>1, <3>2
  <2> QED BY <1>3, <2>1, <2>2, <2>3, <2>4, <2>5, <2>6, <2>7, Zenon DEF Worker
<1>4. CASE Boots \/ Ends
  <2>1. UNCHANGED <<row, w>>
    BY <1>0, <1>4, Frames
  <2>2. ~Finish
    <3>1. Finish => w'.pc # w.pc
      <4>1. Finish => w.pc = "finish" /\ (Goto("complete") \/ Goto("error"))
        BY Zenon DEF Finish
      <4> QED BY <1>0, <4>1, WorkerWrites
    <3> QED BY <2>1, <3>1
  <2> QED BY <1>2, <2>1, <2>2
<1>5. ASSUME NEW u \in Users, Ask(u) \/ OpStep(u)
      PROVE  row.exists /\ row.status = "failed" /\ ~Finish
  <2>1. ~Finish
    <3>1. Finish => w.pc = "finish" /\ (Goto("complete") \/ Goto("error"))
      BY Zenon DEF Finish
    <3>2. Finish => w'.pc # w.pc
      BY <1>0, <3>1, WorkerWrites
    <3>3. UNCHANGED w
      BY <1>0, <1>5, Frames, Zenon DEF Ask
    <3> QED BY <3>2, <3>3
  <2>2. CASE Ask(u) \/ EnqueueFirst(u) \/ Act(u) \/ WaitBack(u) \/ RefreshIPs(u)
    <3>1. UNCHANGED row
      BY <2>2, Zenon DEF Ask, EnqueueFirst, Act, WaitBack, RefreshIPs
    <3> QED BY <1>2, <2>1, <3>1
  <2>3. CASE Mark(u)
    <3>1. op[u].kind \in {"terminate", "restart", "reset"}
      BY <1>0, <2>3 DEF Mark, RequestShape
    <3>2. StatusSet(CASE op[u].kind = "terminate" -> "terminating"
                      [] op[u].kind = "restart" -> "restarting"
                      [] op[u].kind = "reset" -> "resetting")
      BY <1>0, <2>3, Zenon DEF Mark
    <3> QED BY <1>1, <3>1, <3>2
  <2>4. CASE Enqueue(u)
    <3>1. UNCHANGED row \/ StatusSet("terminated")
      BY <1>0, <2>4, Zenon DEF Enqueue, EndedAtOnce
    <3> QED BY <1>1, <1>2, <2>1, <3>1
  <2>5. CASE Settle(u)
    <3>1. StatusSet(op[u].prev) /\ op[u].prev \in {"running", "stopped"}
      BY <1>0, <2>5 DEF Settle, OwnerWrites, GoesBack
    <3> QED BY <1>1, <3>1
  <2>6. CASE Erase(u)
    BY <1>0, <2>6, Constants DEF Erase
  <2>7. CASE WriteBack(u)
    BY <1>0, <2>7 DEF WriteBack, RequestShape, Patient, Prompt
  <2> QED BY <1>5, <2>2, <2>3, <2>4, <2>5, <2>6, <2>7 DEF OpStep
<1> QED BY <1>0, <1>3, <1>4, <1>5 DEF Next
\* Every step keeps a fault spent for each attempt, and one more for an instance that
\* outlives the last rollback.
LEMMA AttemptsStep ==
  ASSUME Core, NeverStopped, OwnerWrites, Patient, AttemptsCost, Next
  PROVE  AttemptsCost'
<1> SUFFICES ASSUME row'.exists PROVE AttemptsCost'
  BY DEF AttemptsCost
<1>0. /\ Typed /\ WorkerShape /\ JobsShape /\ RequestShape /\ RoomLeft /\ NamesAreUsed
      /\ MaxAttempts \in Nat /\ faults \in Nat /\ faults' \in Nat /\ faults' >= faults
      /\ jobs[1].attempts \in Nat /\ jobs'[1].attempts \in Nat
  BY FaultCounts, Frames, Numbers, AttemptsGrow DEF Core
<1>1. row.exists /\ (row'.inst = row.inst \/ SaveInstance \/ Finish)
  <2>1. ~\E u \in Users : WriteBack(u)
    BY <1>0 DEF WriteBack, RequestShape, Patient, Prompt
  <2> QED BY <1>0, <2>1, RowMoves, Constants
<1>2. /\ faults >= jobs[1].attempts + One(Failing)
      /\ LastRollback => jobs[1].attempts + 1 = MaxAttempts
      /\ LastRollback /\ w.pc = "terminate" => w.inst = row.inst
      /\ GivingUp /\ row.inst \in Alive => faults > MaxAttempts
      /\ row.status = "failed" =>
           jobs[1].state \in {"pending", "running", "failed"} /\ ~(w.job = 1 /\ w.pc = "complete")
  BY <1>1 DEF AttemptsCost
<1>3. \/ jobs'[1].attempts = jobs[1].attempts
      \/ MarkFailed /\ w.job = 1 /\ w' = Idle /\ jobs'[1].attempts = jobs[1].attempts + 1
      \/ GiveUp /\ w.job = 1 /\ w' = Idle /\ jobs'[1].attempts = MaxAttempts
  <2>1. GiveUp => w' = Idle
    BY DEF GiveUp
  <2> QED BY <1>0, <2>1, FirstJob
<1>4. w' = Idle => ~Failing' /\ ~LastRollback'
  BY Constants DEF Failing, LastRollback, Rolling
<1>5. LastRollback => Failing
  BY DEF LastRollback, Failing
<1>6. faults' >= jobs'[1].attempts + One(Failing)'
  <2>1. CASE jobs'[1].attempts = jobs[1].attempts
    <3>1. Failing' /\ ~Failing => faults' = faults + 1
      BY <1>1, FailureCosts
    <3>2. One(Failing)' = (IF Failing' THEN 1 ELSE 0) /\ One(Failing) = (IF Failing THEN 1 ELSE 0)
      BY DEF One
    <3> QED BY <1>0, <1>2, <2>1, <3>1, <3>2
  <2>2. CASE MarkFailed /\ w.job = 1 /\ w' = Idle /\ jobs'[1].attempts = jobs[1].attempts + 1
    <3>1. Failing /\ ~Failing'
      BY <1>4, <2>2 DEF MarkFailed, Failing
    <3> QED BY <1>0, <1>2, <2>2, <3>1 DEF One
  <2>3. CASE GiveUp /\ w.job = 1 /\ w' = Idle /\ jobs'[1].attempts = MaxAttempts
    <3>1. LastRollback
      BY <2>3 DEF GiveUp, LastRollback
    <3>2. Failing /\ ~Failing'
      BY <1>4, <1>5, <2>3, <3>1
    <3> QED BY <1>0, <1>2, <2>3, <3>1, <3>2 DEF One
  <2> QED BY <1>3, <2>1, <2>2, <2>3
<1>7. ASSUME LastRollback'
      PROVE  /\ jobs'[1].attempts + 1 = MaxAttempts
             /\ w'.pc = "terminate" => w'.inst = row'.inst
  <2>1. jobs'[1].attempts = jobs[1].attempts
    BY <1>3, <1>4, <1>7
  <2>2. CASE UNCHANGED w
    <3>1. LastRollback
      BY <1>7, <2>2 DEF LastRollback
    <3>2. ~SaveInstance /\ ~Finish
      BY <3>1 DEF LastRollback, SaveInstance, Finish, Rolling
    <3> QED BY <1>1, <1>2, <2>1, <2>2, <3>1, <3>2
  <2>3. CASE LastRollback /\ w'.pc # "terminate"
    BY <1>2, <2>1, <2>3
  <2>4. CASE /\ MarkFailed /\ w.job = 1 /\ jobs[1].attempts + 1 >= MaxAttempts
             /\ UNCHANGED <<row, jobs>>
             /\ IF w'.pc = "terminate" THEN w'.inst = row.inst ELSE row.inst = None
    <3>1. jobs[1].attempts < MaxAttempts
      <4>1. w.pc = "error"
        BY <2>4 DEF MarkFailed
      <4>2. jobs[1].state = "running"
        BY <1>0, <2>4, <4>1, Busy
      <4> QED BY <4>2, Numbers, <1>0 DEF JobsShape
    <3> QED BY <1>0, <2>1, <2>4, <3>1
  <2> QED BY <1>1, <1>7, <2>2, <2>3, <2>4, LastRollbackBegins
<1>8. ASSUME GivingUp', row'.inst \in Alive'
      PROVE  faults' > MaxAttempts
  <2>1. CASE GivingUp
    <3>1. ~Launch /\ ~SaveInstance /\ ~Finish
      <4>1. Launch \/ SaveInstance \/ Finish => w.pc \in {"launch", "save_instance", "finish"}
        BY Zenon DEF Launch, SaveInstance, Finish
      <4>2. w.pc \in {"launch", "save_instance", "finish"} => jobs[1].state = "running"
        BY <1>0, Busy DEF Provisioning
      <4> QED BY <2>1, <4>1, <4>2 DEF GivingUp, LastRollback, Rolling
    <3>2. row.inst \in Alive
      BY <1>0, <1>1, <1>8, <3>1, OnlyLaunched
    <3> QED BY <1>0, <1>2, <2>1, <3>2
  <2>2. ASSUME ~GivingUp, jobs'[1].state = "failed" PROVE FALSE
    <3>1. GiveUp /\ w.job = 1
      BY <1>0, <2>2, FirstJob DEF GivingUp
    <3> QED BY <2>2, <3>1 DEF GiveUp, GivingUp, LastRollback
  <2>3. CASE ~GivingUp /\ LastRollback' /\ w'.pc # "terminate"
    <3>1. CASE UNCHANGED w
      BY <2>3, <3>1 DEF GivingUp, LastRollback
    <3>2. CASE LastRollback /\ Worker
      <4>1. w.pc = "terminate" /\ w.inst = row.inst
        BY <1>2, <2>3, <3>2 DEF GivingUp
      <4>2. Terminate
        BY <3>2, <4>1, Zenon DEF Worker, Claim, Begin, CreateNSG, SaveNSG, AddRules, DropNSG,
           ClearNSG, MarkVPSFailed, Launch, SaveInstance, WaitRunning, Finish, WaitTerminated,
           Unhook, Terminated, RolledBack, MarkComplete, MarkFailed, GiveUp
      <4>3. \/ instances' = [instances EXCEPT ![w.inst].state =
                               IF @ = "terminated" THEN @ ELSE "terminating"]
            \/ Fault("oci")
        BY <4>2, Zenon DEF Terminate
      <4>4. CASE instances' = [instances EXCEPT ![w.inst].state =
                                 IF @ = "terminated" THEN @ ELSE "terminating"]
        <5>1. row'.inst = w.inst
          BY <1>1, <4>1 DEF SaveInstance, Finish
        <5>2. w.inst \in Id
          BY <1>8, <5>1 DEF Alive
        <5>3. instances'[w.inst].state \in Dead
          BY <1>0, <4>4, <5>2 DEF Typed, InstanceRecord, Dead
        <5> QED BY <1>8, <5>1, <5>3 DEF Alive
      <4>5. CASE Fault("oci")
        <5>1. faults' = faults + 1
          BY <1>0, <4>5, FaultCounts
        <5> QED BY <1>0, <1>2, <1>5, <3>2, <5>1 DEF One
      <4> QED BY <4>3, <4>4, <4>5
    <3>3. CASE row.inst = None /\ UNCHANGED row
      BY <1>8, <3>3, Numbers DEF Alive
    <3> QED BY <1>1, <2>3, <3>1, <3>2, <3>3, LastRollbackBegins
  <2> QED BY <1>8, <2>1, <2>2, <2>3 DEF GivingUp
<1>9. ASSUME row'.status = "failed"
      PROVE  /\ jobs'[1].state \in {"pending", "running", "failed"}
             /\ ~(w'.job = 1 /\ w'.pc = "complete")
  <2>1. CASE row.status = "failed" /\ ~Finish
    <3>1. jobs'[1].state \in {"pending", "running", "failed"}
      <4>1. MarkComplete => w.pc = "complete"
        BY DEF MarkComplete
      <4> QED BY <1>0, <1>2, <2>1, <4>1, FirstJob
    <3>2. ASSUME w'.job = 1, w'.pc = "complete" PROVE FALSE
      <4>1. ~UNCHANGED w
        BY <1>2, <2>1, <3>2
      <4>2. w' # Idle
        BY <3>2, Constants
      <4>3. Worker /\ ~Claim
        <5>1. ~Crash /\ ~Reconcile /\ ~Serve
          BY OnlyTheCloudFails DEF Patient, OwnerWrites, Reconcile, Serve
        <5>2. Claim => \E j \in Job :
                         w' = IF j = 1
                                THEN [Idle EXCEPT !.pc = "begin"]
                                ELSE [Idle EXCEPT !.pc = "terminate", !.job = j,
                                        !.inst = jobs[j].inst, !.after = "complete"]
          BY Zenon DEF Claim
        <5>3. Claim => w'.pc \in {"begin", "terminate"}
          BY <5>2, Constants DEF WorkerRecord
        <5> QED BY <1>0, <3>2, <4>1, <5>1, <5>3, Writers
      <4>4. w.job = 1 /\ "complete" \in Onward(w.pc)
        BY <1>0, <3>2, <4>2, <4>3, WorkerGoesOn
      <4>5. w.pc \in {"finish", "terminated"}
        BY <1>0, <4>4, Fields DEF Onward, WorkerPc, Provisioning, Rolling
      <4>6. Terminated
        BY <2>1, <4>3, <4>5, Zenon DEF Worker, Begin, CreateNSG, SaveNSG, AddRules, DropNSG,
           ClearNSG, MarkVPSFailed, Launch, SaveInstance, WaitRunning, Terminate, WaitTerminated,
           Unhook, RolledBack, MarkComplete, MarkFailed, GiveUp
      <4>7. w.after # "complete"
        BY <1>0, <4>4, <4>6 DEF Terminated, WorkerShape, Rolling
      <4>8. Goto("unhook_again")
        BY <4>6, <4>7 DEF Terminated, ThenGoto
      <4> QED BY <1>0, <3>2, <4>8, WorkerWrites
    <3> QED BY <3>1, <3>2
  <2>2. CASE MarkVPSFailed \/ RolledBack \/ (CreateNSG /\ w'.pc = "error")
    <3>1. UNCHANGED jobs /\ w.pc \in {"mark_failed", "rolled_back", "create_nsg"}
      BY <2>2, Zenon DEF MarkVPSFailed, RolledBack, CreateNSG
    <3>2. w.job = 1
      BY <1>0, <3>1 DEF WorkerShape, Provisioning, Rolling
    <3>3. jobs[1].state = "running"
      BY <1>0, <3>1, <3>2, Busy DEF Provisioning, Rolling, OwnerWrites
    <3>4. w'.pc # "complete"
      <4>1. CASE CreateNSG /\ w'.pc = "error"
        BY <4>1
      <4>2. CASE MarkVPSFailed \/ RolledBack
        <5>1. w' = Idle \/ w'.pc \in Onward(w.pc)
          BY <1>0, <4>2, WorkerGoesOn, <3>1, Zenon DEF Worker, Claim
        <5> QED BY <3>1, <4>2, <5>1, Constants DEF Onward, MarkVPSFailed, RolledBack
      <4> QED BY <2>2, <4>1, <4>2
    <3> QED BY <3>1, <3>3, <3>4
  <2> QED BY <1>9, <2>1, <2>2, WhoMarksFailed
<1> QED BY <1>6, <1>7, <1>8, <1>9 DEF AttemptsCost
-----------------------------------------------------------------------------
(* The invariant.                                                          *)

\* HandleCreateVPS has inserted the row.
LEMMA Initial == Init => IInv
<1> SUFFICES ASSUME Init PROVE IInv
  OBVIOUS
<1>0. /\ row = [exists |-> TRUE, status |-> "pending", inst |-> None, nsg |-> None, key |-> FALSE]
      /\ instances = [i \in Id |-> [state |-> "none", nsg |-> None]]
      /\ nsgs = [n \in Id |-> "none"]
      /\ jobs = [j \in Job |-> [state |-> "absent", attempts |-> 0, inst |-> None]]
      /\ phase = "serving" /\ w = Idle /\ faults = 0
  BY DEF Init
<1>1. PICK u \in Users :
        op = [v \in Users |-> IF v = u THEN [Off EXCEPT !.pc = "enqueue_first"] ELSE Off]
  BY DEF Init
<1>2. /\ [Off EXCEPT !.pc = "enqueue_first"] \in RequestRecord
      /\ [Off EXCEPT !.pc = "enqueue_first"].pc = "enqueue_first"
      /\ [Off EXCEPT !.pc = "enqueue_first"].kind = "start"
      /\ [Off EXCEPT !.pc = "enqueue_first"].inst = None
      /\ [Off EXCEPT !.pc = "enqueue_first"].nsg = None
  BY Constants DEF RequestRecord, RequestPc
<1>3. op[u].pc = "enqueue_first" /\ \A v \in Users \ {u} : op[v].pc = "off"
  BY <1>1, <1>2, Constants
<1>4. \A v \in Users : op[v].kind = "start" /\ op[v].inst = None /\ op[v].nsg = None
  BY <1>1, <1>2, Constants
<1>5. Typed
  <2>1. row \in RowRecord
    BY <1>0, Numbers DEF RowRecord, Status
  <2>2. instances \in [Id -> InstanceRecord] /\ nsgs \in [Id -> {"none", "live", "gone"}]
    BY <1>0, Numbers DEF InstanceRecord, InstanceState
  <2>3. jobs \in [Job -> JobRecord]
    <3>1. [state |-> "absent", attempts |-> 0, inst |-> None] \in JobRecord
      BY Numbers DEF JobRecord
    <3> QED BY <1>0, <3>1
  <2>4. op \in [Users -> RequestRecord]
    BY <1>1, <1>2, Constants
  <2> QED BY <1>0, <2>1, <2>2, <2>3, <2>4, Constants, Numbers DEF Typed
<1>6. WorkerShape /\ RequestShape
  <2>1. WorkerShape
    BY <1>0, Constants DEF WorkerShape, Provisioning, Rolling
  <2>2. jobs[1].state = "absent"
    BY <1>0, Numbers
  <2> QED BY <1>3, <1>4, <2>1, <2>2 DEF RequestShape
<1>7. JobsShape
  BY <1>0, Numbers DEF JobsShape
<1>8. RoomLeft
  <2>1. Terminations = {}
    BY <1>4 DEF Terminations
  <2>2. Cardinality(Absent) \in Nat
    <3>1. IsFiniteSet(Absent)
      BY IdIsFinite, FS_Subset DEF Absent
    <3> QED BY <3>1, FS_CardinalityType
  <2> QED BY <2>1, <2>2, FS_EmptySet DEF RoomLeft
<1>9. NamesAreUsed
  BY <1>0, <1>4, Constants DEF NamesAreUsed
<1>10. UsedInstances = {} /\ UsedNSGs = {} /\ Alive = {} /\ Cardinality({}) = 0
  BY <1>0, FS_EmptySet DEF UsedInstances, UsedNSGs, Alive
<1>11. jobs[1].state = "absent" /\ jobs[1].attempts = 0 /\ w.pc = "idle"
  BY <1>0, Numbers, Constants
<1>12. MadeByRuns
  BY <1>0, <1>10, <1>11 DEF MadeByRuns, One
<1>13. AlivePaid
  BY <1>0, <1>10, <1>11 DEF AlivePaid, Holding, One
<1>14. NeverStopped
  BY <1>0, <1>11 DEF NeverStopped
<1>15. EveryRunCosts
  <2>1. \A v \in Users : ~Copying(v)
    BY <1>3 DEF Copying
  <2> QED BY <1>0, <1>10, <1>11, <2>1 DEF EveryRunCosts, One, FirstIsDone, WithNSG, WithInstance
<1>16. OwnerWrites
  <2>1. GoesBack
    BY <1>3 DEF GoesBack
  <2>2. FirstOwned
    BY <1>3 DEF FirstOwned
  <2> QED BY <1>0, <2>1, <2>2 DEF OwnerWrites
<1>17. AttemptsCost
  <2>1. ~Failing /\ ~LastRollback /\ ~GivingUp
    BY <1>11 DEF Failing, LastRollback, GivingUp, Rolling
  <2> QED BY <1>0, <1>11, <2>1, Numbers DEF AttemptsCost, One
<1> QED BY <1>5, <1>6, <1>7, <1>8, <1>9, <1>12, <1>13, <1>14, <1>15, <1>16, <1>17, TypeParts
        DEF IInv

\* Every step keeps the invariant.
LEMMA Stepwise == IInv /\ [Next]_vars => IInv'
<1> SUFFICES ASSUME IInv, [Next]_vars PROVE IInv'
  OBVIOUS
<1>0. Core
  BY TypeParts DEF IInv, Core
<1>1. CASE Next
  <2>1. Typed' /\ WorkerShape' /\ JobsShape' /\ RequestShape' /\ RoomLeft' /\ NamesAreUsed'
        /\ MadeByRuns'
    BY <1>0, <1>1, TypeStep, WorkerStep, JobsStep, RequestStep, RoomStep, NamesStep, MadeStep
       DEF Core
  <2>2. AlivePaid'
    BY <1>0, <1>1, AliveStep DEF IInv
  <2>3. "stop" \notin Ops => NeverStopped'
    BY <1>0, <1>1, StopStep DEF IInv
  <2>4. Steady => EveryRunCosts'
    BY <1>0, <1>1, RunsStep DEF IInv, Steady
  <2>5. Prompt => OwnerWrites'
    BY <1>0, <1>1, OwnerStep DEF IInv
  <2>6. Patient => AttemptsCost'
    BY <1>0, <1>1, AttemptsStep DEF IInv, Patient
  <2>7. TypeOK'
    <3>1. (TypeOK <=> Typed)'
      BY TypeParts, PTL
    <3> QED BY <2>1, <3>1
  <2>8. Steady' = Steady /\ Prompt' = Prompt /\ Patient' = Patient
    BY DEF Steady, Prompt, Patient
  <2> QED BY <2>1, <2>2, <2>3, <2>4, <2>5, <2>6, <2>7, <2>8 DEF IInv
<1>2. CASE UNCHANGED vars
  <2>1. /\ UNCHANGED <<row, instances, nsgs, jobs, phase, w, op, faults>>
    BY <1>2 DEF vars, cloud
  <2>2. TypeOK' /\ WorkerShape' /\ JobsShape' /\ RequestShape'
    BY <2>1 DEF IInv, TypeOK, WorkerShape, JobsShape, RequestShape
  <2>3. RoomLeft' /\ NamesAreUsed' /\ MadeByRuns' /\ AlivePaid'
    BY <2>1, ZenonT(60) DEF IInv, RoomLeft, Terminations, Absent, NamesAreUsed, MadeByRuns, UsedInstances,
       UsedNSGs, Past, AlivePaid, Holding, Alive
  <2>4. "stop" \notin Ops => NeverStopped'
    BY <2>1 DEF IInv, NeverStopped, InState
  <2>5. Steady => EveryRunCosts'
    BY <2>1 DEF IInv, EveryRunCosts, UsedInstances, UsedNSGs, Now, FirstIsDone, Spare, Copying
  <2>6. Prompt => OwnerWrites'
    BY <2>1 DEF IInv, OwnerWrites, GoesBack, FirstOwned, TerminationOwned, Pursues, Unfinished,
       WritesFirst, WritesTermination
  <2>7. Patient => AttemptsCost'
    BY <2>1 DEF IInv, AttemptsCost, Failing, LastRollback, GivingUp, Alive
  <2>8. Steady' = Steady /\ Prompt' = Prompt /\ Patient' = Patient
    BY DEF Steady, Prompt, Patient
  <2> QED BY <2>2, <2>3, <2>4, <2>5, <2>6, <2>7, <2>8 DEF IInv
<1> QED BY <1>1, <1>2

\* The invariant holds whatever the users ask for and whatever goes wrong.
THEOREM Inductive == Spec => []IInv
BY Initial, Stepwise, PTL DEF Spec

\* The columns of the row, the cloud, the jobs, the worker and the requests have the
\* values they may have.
THEOREM TypeCorrect == Spec => []TypeOK
<1>1. IInv => TypeOK
  BY DEF IInv
<1> QED BY <1>1, Inductive, PTL

\* However the runs of a provisioning, its rollbacks, terminations, crashes and
\* requests of any kind interleave, no more than one instance lives that no fault
\* has paid for: ProvisionVPS, its retries and triggerRollback leave none behind.
THEOREM AliveIsBounded == Spec => []AliveBound
<1>1. IInv => AliveBound
  <2> SUFFICES ASSUME IInv PROVE AliveBound
    OBVIOUS
  <2>1. Typed /\ faults \in Nat
    BY TypeParts, FaultCounts DEF IInv
  <2>2. Alive \in SUBSET Id
    BY DEF Alive
  <2>3. Cardinality(Alive) <= Cardinality(Alive \ {w.inst}) + 1 /\ Cardinality(Alive) \in Nat
        /\ Cardinality(Alive \ {w.inst}) \in Nat
    <3>1. (Alive \ {w.inst}) \in SUBSET Alive
      OBVIOUS
    <3> QED BY <2>2, <3>1, Counts
  <2> QED BY <2>1, <2>3 DEF IInv, AlivePaid, AliveBound, One
<1> QED BY <1>1, Inductive, PTL
\* Every instance that lives and that neither the row, nor the worker, nor a
\* termination knows was lost to a fault of its own.
THEOREM OrphansNeedFaults ==
  ASSUME Steady
  PROVE  Spec => []OrphanNeedsFault
<1>1. IInv => OrphanNeedsFault
  <2> SUFFICES ASSUME IInv PROVE OrphanNeedsFault
    OBVIOUS
  <2> DEFINE Orphans == Alive \ (InHand \cup ToTerminate \cup RowHas)
  <2>0. /\ Typed /\ NamesAreUsed /\ NeverStopped /\ EveryRunCosts /\ faults \in Nat
        /\ UsedInstances \in SUBSET Id /\ Orphans \in SUBSET UsedInstances
    BY TypeParts, FaultCounts DEF IInv, Steady, UsedInstances, Alive
  <2>1. /\ Cardinality(UsedInstances) <= faults + One(Now(WithInstance))
        /\ Cardinality(UsedInstances) \in Nat /\ Cardinality(Orphans) \in Nat
        /\ Cardinality(Orphans) <= Cardinality(UsedInstances)
        /\ \A x \in UsedInstances : Cardinality(UsedInstances \ {x}) = Cardinality(UsedInstances) - 1
    <3> HIDE DEF Orphans
    <3> QED BY <2>0, Counts DEF EveryRunCosts
  <2>2. CASE Now(WithInstance)
    <3>1. PICK x \in UsedInstances : x \in InHand \cup RowHas
      <4>1. CASE FirstIsDone
        <5>1. row.exists /\ row.inst \in UsedInstances
          BY <2>0, <4>1 DEF EveryRunCosts, NamesAreUsed
        <5> QED BY <5>1 DEF RowHas
      <4>2. CASE w.pc \in {"save_instance", "wait", "finish"}
        <5>1. w.inst \in UsedInstances
          BY <2>0, <4>2 DEF NeverStopped, InState, NamesAreUsed
        <5> QED BY <4>2, <5>1 DEF InHand
      <4> QED BY <2>2, <4>1, <4>2 DEF Now, WithInstance, FirstIsDone
    <3>2. Orphans \in SUBSET (UsedInstances \ {x}) /\ (UsedInstances \ {x}) \in SUBSET Id
      BY <2>0, <3>1
    <3>3. Cardinality(Orphans) <= Cardinality(UsedInstances \ {x})
      <4> HIDE DEF Orphans
      <4> QED BY <3>2, Counts
    <3> HIDE DEF Orphans
    <3>4. Cardinality(Orphans) <= faults
      BY <2>0, <2>1, <2>2, <3>3 DEF One
    <3> QED BY <3>4 DEF OrphanNeedsFault, Orphans
  <2>3. CASE ~Now(WithInstance)
    <3> HIDE DEF Orphans
    <3>1. Cardinality(Orphans) <= faults
      BY <2>0, <2>1, <2>3 DEF One
    <3> QED BY <3>1 DEF OrphanNeedsFault, Orphans
  <2> QED BY <2>2, <2>3
<1> QED BY <1>1, Inductive, PTL

\* Every NSG that lives and that neither the row nor the worker knows was lost to a
\* fault of its own.
THEOREM NSGLeaksNeedFaults ==
  ASSUME Steady
  PROVE  Spec => []NSGLeakNeedsFault
<1>1. IInv => NSGLeakNeedsFault
  <2> SUFFICES ASSUME IInv PROVE NSGLeakNeedsFault
    OBVIOUS
  <2> DEFINE Known == {w.nsg} \cup (IF row.exists THEN {row.nsg} ELSE {})
             Leaked == {n \in Id \ Known : nsgs[n] = "live"}
  <2>0. /\ Typed /\ NamesAreUsed /\ EveryRunCosts /\ faults \in Nat
        /\ UsedNSGs \in SUBSET Id /\ Leaked \in SUBSET UsedNSGs
    BY TypeParts, FaultCounts DEF IInv, Steady, UsedNSGs
  <2>1. /\ Cardinality(UsedNSGs) <= faults + One(Now(WithNSG))
        /\ Cardinality(UsedNSGs) \in Nat /\ Cardinality(Leaked) \in Nat
        /\ Cardinality(Leaked) <= Cardinality(UsedNSGs)
        /\ \A x \in UsedNSGs : Cardinality(UsedNSGs \ {x}) = Cardinality(UsedNSGs) - 1
    <3> HIDE DEF Leaked
    <3> QED BY <2>0, Counts DEF EveryRunCosts
  <2>2. ASSUME NEW x \in UsedNSGs, x \notin Leaked PROVE Cardinality(Leaked) <= faults
    <3>1. Leaked \in SUBSET (UsedNSGs \ {x}) /\ (UsedNSGs \ {x}) \in SUBSET Id
      BY <2>0, <2>2
    <3> HIDE DEF Leaked
    <3>2. Cardinality(Leaked) <= Cardinality(UsedNSGs \ {x})
      BY <3>1, Counts
    <3>3. One(Now(WithNSG)) \in {0, 1}
      BY DEF One
    <3> QED BY <2>0, <2>1, <2>2, <3>2, <3>3
  <2>3. Cardinality(Leaked) <= faults
    <3>1. CASE ~Now(WithNSG)
      <4> HIDE DEF Leaked
      <4> QED BY <2>0, <2>1, <3>1 DEF One
    <3>2. CASE w.job = 1 /\ w.pc \in WithNSG
      <4>1. w.nsg \in UsedNSGs
        BY <2>0, <3>2 DEF EveryRunCosts, NamesAreUsed
      <4> QED BY <2>2, <4>1
    <3>3. CASE jobs[1].state = "complete" /\ row.nsg # None
      <4>1. row.exists /\ row.nsg \in UsedNSGs
        BY <2>0, <3>3 DEF EveryRunCosts, NamesAreUsed
      <4> QED BY <2>2, <4>1
    <3>4. CASE jobs[1].state = "complete" /\ row.nsg = None
      <4>1. Spare
        BY <2>0, <3>4 DEF EveryRunCosts, FirstIsDone
      <4>2. ASSUME NEW n \in Id, nsgs[n] = "gone" PROVE Cardinality(Leaked) <= faults
        <5>1. n \in UsedNSGs /\ n \notin Leaked
          BY <4>2 DEF UsedNSGs
        <5> QED BY <2>2, <5>1
      <4>3. CASE Cardinality(UsedNSGs) < faults + One(Now(WithNSG))
        <5> HIDE DEF Leaked
        <5>1. One(Now(WithNSG)) \in {0, 1}
          BY DEF One
        <5> QED BY <2>0, <2>1, <4>3, <5>1
      <4> QED BY <4>1, <4>2, <4>3 DEF Spare
    <3> QED BY <3>1, <3>2, <3>3, <3>4 DEF Now
  <2> QED BY <2>3 DEF NSGLeakNeedsFault
<1> QED BY <1>1, Inductive, PTL

\* As long as the process lives and its database answers, whoever the status of
\* work in progress is about is still working on it.
THEOREM WorkHasOwner ==
  ASSUME Prompt
  PROVE  Spec => []InProgressHasOwner
<1>1. IInv => InProgressHasOwner
  BY DEF IInv, OwnerWrites, FirstOwned, TerminationOwned, InProgressHasOwner, HasOwner
<1> QED BY <1>1, Inductive, PTL

\* Without requests to stop the instance either, no instance outlives the last
\* rollback of a provisioning that failed for less than a fault in every attempt and
\* one more in a rollback.
THEOREM SurvivorsNeedFaults ==
  ASSUME Patient
  PROVE  Spec => []SurvivorNeedsFaults
<1>1. IInv => SurvivorNeedsFaults
  <2> SUFFICES ASSUME IInv, Survivor PROVE faults > MaxAttempts
    BY DEF SurvivorNeedsFaults
  <2>1. ~Unfinished(1)
    BY Numbers DEF Survivor, Quiet
  <2> QED BY <2>1 DEF IInv, AttemptsCost, GivingUp, Survivor, Unfinished
<1> QED BY <1>1, Inductive, PTL

=============================================================================
