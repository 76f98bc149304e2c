# Provessor in TLA+

Provessor is a Go server that provisions networks and virtual servers ("VPSs")
on Oracle Cloud (OCI). It keeps a SQLite database, a queue of jobs with one
worker, and a stream of progress events for the dashboard. This directory holds
TLA+ models of the parts of it where the order of events matters, the TLC
configurations that check them, and proofs checked by TLAPS.

Source paths below are relative to `src/`.

## 1. The system

| Component | Source | State | Operations |
| --- | --- | --- | --- |
| Job queue | `internal/service/jobqueue.go` | table `jobs` (type, status, attempts, updated_at), one worker goroutine | Enqueue, claim and run, markComplete, markFailed with back-off and rollback, ResumeOnStartup, Start, Stop |
| Network service | `internal/service/network.go`, `internal/handler/network.go` | tables `networks`, `network_resources`; VCN, gateway, route table, security list, subnet in OCI | create, ProvisionNetwork (worker), RollbackNetwork (worker, start-up), DestroyNetwork (in the request) |
| VPS service | `internal/service/provision.go`, `internal/handler/provision.go` | table `vps`; instance and network security group (NSG) in OCI | create, ProvisionVPS, TerminateInstance, RollbackVPS (worker), start and stop (in the request), restart and reset (goroutine), refresh of addresses, delete, password reset, firewall |
| Reconciliation | `internal/service/reconcile.go` | none | for each network or VPS found 'pending' or 'provisioning' at start-up: roll back, reset or correct its status |
| Process | `cmd/api/main.go`, `internal/server/server.go` | running or not | reconcile, ResumeOnStartup, worker, HTTP server; on SIGTERM the server, then the queue |
| Event stream | `internal/sse/broker.go`, `internal/handler/sse.go` | a history of 50 events and a set of buffered channels per network or VPS | Publish, Subscribe, History, Unsubscribe, Close, streamEvents |
| OCI wrapper | `internal/service/oci.go` | settings read once, clients per region | cloud calls with waits and deadlines, SSH with host key pinning |
| Records | `internal/repository/` | the tables | one statement or transaction each; CIDR slots, callback token, host key |
| Authentication | `internal/service/auth.go`, `internal/handler/auth.go` | table `users` (failed_attempts, locked_until), signed session tokens | signup of the only administrator, login with lockout |
| Middleware | `internal/server/middleware.go` | rate limiter buckets | rate limit, CSRF, sessions |
| Settings | `internal/handler/settings.go` | one row | read, read-modify-write |
| Templates, audit log, configuration, migrations, tools, dashboard, playbooks | `internal/...`, `cmd/`, `web/`, `ansible/` | | no behaviour that depends on an order of events |

How they interact. HTTP handlers write rows and insert jobs. The worker polls
every two seconds, runs the oldest job that is due, and calls the network or the
VPS service with a context that is never cancelled. The services call OCI and
write rows; they publish events, which the handlers of the stream forward.
DestroyNetwork, start and stop run in the goroutine of their request with its
context; restart and reset leave a goroutine behind. All of them read and write
the same rows without a lock, and a status is checked when a request arrives and
written when it ends. After a crash the process is started again, reconciles the
rows it finds in progress, makes interrupted jobs pending and serves.

What is hard. Several actors decide from copies of a row, and one of them writes
all of its columns back. A cloud resource and the row that names it are written
one after the other, and either write may fail or be cut off. Jobs are retried
and resumed over what an earlier run left. Rollbacks fail halfway. A client's
disconnection cancels the calls made for it. Events are published in two halves.
`PROJECT.json` lists these hazards, each at its line.

What makes each component correct:

- *Job queue*: one job at a time, none lost, none resurrected; attempts add up;
  rollback before 'failed'; first runs in order; every job ends.
- *Network*: what is created is tracked; rollback and deletion respect OCI's
  dependencies; 'ready' means usable; a deleted record leaves nothing behind; no
  status of work in progress without work.
- *VPS*: no instance and no security group that nobody knows; a final status is
  final; a status in progress has somebody working on it and ends; the SSH key
  survives.
- *Event stream*: a client misses nothing from the beginning of its copy of the
  history on, except what its channel had no room for.
- *Network records*: two networks share a CIDR block, and the limit on networks is
  passed, only by creations that overlap.
- *Authentication*: one administrator; a lock holds until it ends; how far the
  counter of failed logins can get.
- *Rate limiter*: what passes within the length of a window, whatever the clock
  readings; Retry-After is a promise.
- *Access to a VPS* (SSH key, password, host key, callback, firewall): what the row
  says opens the instance it names; the credentials of an instance arrive unless the
  row has those of an earlier one, which are never cleared; delivered ones are those of
  the attempt that was the latest then, and are kept; the rules are those last asked for.
- *Settings*: a key stays with its fingerprint; every client of the cloud has the
  same credentials.

## 2. The modules

| Module | Models | Runs |
| --- | --- | --- |
| `WorkQueue` | abstract: what the queue promises | |
| `JobQueue` | jobs table, worker, process | `jobqueue` |
| `OciNetwork` | OCI's networking, external | |
| `NetworkLifecycle` | one network, its worker, its deletions, start-up | `network_*` |
| `NetworkAllocation` | creations of networks: the limit and the CIDR blocks | `network_allocation` |
| `VpsLifecycle` | one VPS, its cloud, its worker, its requests, start-up | `vps_faults`, `vps_owners`, `vps_liveness` |
| `VpsAccess` | how one VPS is entered: keys, passwords, host key, callback, firewall | `vps_access` |
| `OciSettings` | the settings row, the OCI service and its clients | `oci_settings` |
| `EventBroker` | one event channel, publishers, streaming handlers, shutdown | `event_broker` |
| `Authentication` | signup and login | `login` |
| `RateLimiter` | one rate limiter | `rate_limiter` |
| `...Proofs` | the inductive invariant, lemmas and theorems of the module before `Proofs`; `AdmissionProofs` has those of `Authentication` and of `RateLimiter` | |
| `MC...` | the sets and symmetries of the runs | |

What composes what: `JobQueue` implements `WorkQueue`; `NetworkLifecycle` extends
`OciNetwork`. `NetworkLifecycle` and `VpsLifecycle` contain the jobs of their one
target, with the attempts, the back-off and the rollback of the last failure as
`JobQueue` has them. `VpsAccess` is a second view of the worker of `VpsLifecycle`:
it keeps the columns that the first abstracts from and leaves out the requests
that change the instance's power.

### JobQueue

The jobs table is one function per column over the ids `1..MaxJobs`; `due` says
whether `updated_at` has been reached. `pc` is where the worker is. Each action
is a handler, a database statement with what leads to it, or a step of the
process:

| Action | Code |
| --- | --- |
| `Enqueue`, `DeleteTarget` | `Enqueue`; the handlers that delete a row some job is about |
| `Claim`, `Poll` | `processOneJob` |
| `RunSucceeds`, `RunFails`, `RunPanics` | `runJobWithRecovery`, `markComplete`, `markFailed` |
| `RollbackReturns`, `RollbackPanics` | `triggerRollback`, the rest of `markFailed`, the two recovers |
| `BackoffElapses` | the passing of time |
| `ResumeOnStartup`, `Shutdown`, `StopReturns`, `Crash`, `Restart` | `main.go`, `Stop` |

A job's work is abstracted to its end: nil, an error, or a panic (possible only
where the services dereference a row that is gone). Any final write may fail
("store" fault), as the code only logs it.

`JobQueue` implements `WorkQueue`: pending and running rows nobody works on are
*waiting*, the job in the worker is *active*, completed and failed rows are *done*.

### OciNetwork and NetworkLifecycle

`OciNetwork` is OCI as the code relies on it: a resource is in use while
something depends on it, and a resource in use cannot be deleted. The deletion of a
subnet is only accepted: until `SubnetEnds` it is TERMINATING and still holds its VCN and
its security list. DestroyNetwork waits for that end (`SubnetWait`); RollbackNetwork does
not, so OCI may refuse it the list, which it marks deleted all the same. `NetworkLifecycle`
has the row (`net`), its `network_resources` rows in the order of their ids
(`rows`), the jobs, the worker `w` and a DestroyNetwork call `d[c]` for each
client. ProvisionNetwork is a loop of `Lookup`, `Create` (or `CreateFails`) and
`Track` for VCN, gateway, security list and subnet, with `RouteRead` and
`RouteWrite` after the gateway, and `Result` and the queue's `MarkComplete` at the end.
RollbackNetwork is
`RollbackStep` for each row from the newest to the oldest, then `RollbackEnds`;
the worker and start-up call it. DestroyNetwork is one action per cloud call.
Every cloud or database call is an action, so that everything can come in between.
`MaxActive` is a bound: the unfinished jobs and deletions at one time.

### NetworkAllocation

The rows are a function from ids to CIDR blocks. A creation is
`CountRows` (refused at the limit), `ListRows` with the choice of the first free
block (or `NoBlockLeft`) and `InsertRow`: three statements of
`NetworkRepository.Create` that other creations, and `DeleteRow`, come between;
`CreateFails` is a statement that fails. A block is its index in `cidrBlocks`.

### VpsLifecycle

The row keeps status, instance, NSG and whether there is an SSH key. The cloud
keeps the state of each instance (it boots and ends by itself) and of each NSG.
The worker's program counter walks through ProvisionVPS, RollbackVPS and
TerminateInstance, which share `Terminate`, `WaitTerminated` and `Unhook`; each
user of `Users` has one request or goroutine at a time (`op[u]`): `Ask` reads the
row and decides, and the later actions use what it read, as the code does. Full-row
updates (`RowUpdate`, `WriteBack`) write the columns from the copy.

### VpsAccess

Everything the worker makes carries the number of its attempt: key pair, password,
callback token, group, instance, and with the instance its host key and address.
So "the stored key opens the stored instance" is an equality of two columns. The
worker walks through ProvisionVPS (`Begin`, `MakeToken`, `CreateNSG`,
`AddDefaultRules`, `Launch`, `SaveInstance`, `WaitRunning`, `CreateUser`, `Finish`)
and RollbackVPS (`Terminate`, `Clean`), and each of its `Update`s writes the columns
of its copy, the ones that `Update` of `repository/vps.go` names. An instance boots
(`Boot`) and delivers its credentials (`Callback`), which cloud-init repeats until
it is answered. A request is a password reset (`Chpasswd`, `Verify`,
`StorePassword`), a refresh of the addresses (`ReadIPs`, `WriteIPs`) or a change of
the rules (`ListRules`, `RemoveRules`, `AddRules`).

### OciSettings

Save number *n* may bring the key *n*, whose fingerprint is *n*. The fields of the form
are independent: each is new or stays as it was shown (the key as a mask, for which the
handler fills in the key of the row). A form is opened, then saved with a read and a
write of the row. The service reads the row when it is first used (`init`, under its mutex), and makes and
keeps a client for each region as it is asked for.

### Authentication

Each SQL statement is a step; between them other requests come in, and the
clock moves. A login reads the row, refuses a locked account, resets the counter
where the code resets it, compares the password and increments or resets. A
signup counts the users and inserts. The deployment's limit on attempts is chosen
in `Init`.

### RateLimiter

A request reads the clock (`ReadClock`) and is decided later, under the mutex
(`Allow`, `Refuse`), with the reading it brought; the sweep of expired windows is part of
both. The history `passed` holds what passed within the last window's length, and of
each pass whether it opened a window, by the clock as it was or on an old reading.
Its definitions are prefixed (`LimiterInit`, `LimiterSpec`), so that `AdmissionProofs` can
extend it next to `Authentication`.

### EventBroker

An event is its number in the order of appends. `Record` and `Send` are the two
critical sections of Publish. A client goes through `Connect`, `Subscribe`,
`CopyHistory`, `Replay`, `ReplayEnds` and `Forward`, and may leave and come back.
`Close` is the broker's: it closes every channel there is, what is buffered can
still be read, and a stream whose channel is closed and empty ends (`StreamEnds`).
`Drain` is the rest of the server's shutdown, which waits for the handlers of all
requests. `ShutdownReturns` is its end when they have ended; `DeadlinePasses` (ten
seconds) may come at any time before, since any request, a client that reads slowly among
them, can take longer.

## 3. The runs

Every run passes: it states what the code guarantees.

| Run | Bounds | Shows |
| --- | --- | --- |
| `jobqueue` | 2 jobs, 3 attempts, 2 faults of any kind, targets deleted | the inductive invariant, rollback before failure, order, finality, the refinement of `WorkQueue`, every job ends |
| `network_provision` | 3 jobs of 2 attempts, at most 2 active at one time, 2 cloud faults or crashes | tracking, what a rollback gives up, what 'ready' means, what a dead subnet leaves behind, 'provisioning' ends |
| `network_clients` | 2 jobs of 1 attempt, 2 clients, at most 2 of these active at one time, a VPS that comes and goes, 1 failed cloud or database call or disconnection | the order of deletions, the record outlives its VCN, 'destroying' is reverted |
| `vps_faults` | 1 termination, 1 user who terminates and refreshes, 2 attempts, 3 faults of any kind | lost instances and NSGs are at most the faults |
| `vps_owners` | 2 users, all operations but refresh, 2 cloud faults | a status in progress has somebody working on it; what survives its rollback does so by a fault |
| `vps_liveness` | 1 user who terminates and resets, 2 cloud faults or crashes | a status in progress ends, an enqueued termination ends |
| `vps_access` | 2 clients, 2 requests (1 refresh), 2 attempts, 1 crash, 2 launches | credentials, keys, passwords and rules of one VPS |
| `event_broker` | 2 publishers, 1 client, history 2, buffer 2, 4 events, 1 shutdown | no gap, events arrive, streams end at shutdown unless its deadline passes |
| `network_allocation` | 3 creations at once, limit 3, 6 rows ever inserted | blocks are shared, and the limit is passed, only by overlap |
| `login` | 3 requests at once, 2 emails, limit of 1 or 2 attempts, lock of 2 ticks, 4 ticks | the administrator, the counter, the lock |
| `rate_limiter` | 3 requests at once, 2 keys, limit 1, window of 2 ticks, 6 ticks | the budget of a window, Retry-After |
| `oci_settings` | 2 administrators, 2 callers, 2 regions, 3 saves, 1 restart | key and fingerprint belong together, clients agree |

The invariants that section 5 proves inductive were found with TLC: each `IInv`, and
`AliveBound` of `VpsLifecycleProofs`, also holds under the bounds of its module's runs, for
which it takes the place of the properties in the run's configuration. (Each MC module
extends the proofs.) The parts of them that no run names, such as `OneHostKey`,
`HistoryIsNewest`, `PublisherOrder`, `LimiterTypeOK`, `ExpiredAreSwept`, `LockIsEarned` and
`LocksOnlyAtOne`, are checked in this way; so are the action properties `BlockWasThere`,
`KeptUntilRestart` and `ClosedSendsRest`. More configurations can be run by hand (`tlc -config X.cfg M`). These
hold:

| Configuration | Checks |
| --- | --- |
| `MCNetworkDestroy` | `IInv` of `NetworkLifecycleProofs`, one client's deletions with two attempts for each job, crashes among the faults |
| `MCVpsAccessFirewall` | `FirewallAsAsked`, with changes of the rules at any time |

The others each state a sentence of the code that the code does not keep (`MCVpsLost`:
where a property of `vps_faults` stops to hold), and TLC prints how:

| Configuration | Property | The sentence | What TLC shows |
| --- | --- | --- | --- |
| `MCJobQueueWorker` | `WorkerSurvives` | `jobqueue.go:180` "each job runs with panic recovery" | a VPS row deleted under its job kills the worker: the second panic is in the rollback, which nothing recovers |
| `MCNetworkSubnet` | `ReadyHasSubnet` | `network.go:312` "Network infrastructure provisioned" | a subnet that is tracked is trusted, also when a rollback had deleted it |
| `MCNetworkLeftovers` | `DestroyedLeavesNothing` | `network.go:568` "All OCI resources destroyed successfully" | a record without a VCN is deleted under a provisioning that goes on |
| `MCNetworkRollback` | `DeletedIsGone` | `network.go:342` deletes the gateway, then its row is marked 'deleted' | RollbackNetwork leaves the gateway that a route refers to, and marks it deleted |
| `MCNetworkOwner` | `DestroyingHasOwner` | `network.go:557` reverts the status | a client that disconnects leaves 'destroying' behind: the revert uses the cancelled context |
| `MCNetworkRetry` | `DestroyCanBeRetried` | `network.go:571` returns the error to retry | a VPS row inserted during the deletion makes the DELETE fail after the VCN went; the deletion cannot be repeated |
| `MCVpsDelete` | `DeletedHasNoInstance` | `handler/provision.go:287` "VPS must be terminated before deleting" | a VPS is deleted while the provisioning of it launches its instance |
| `MCVpsAccessCredentials` | `CredentialsOfInstance` | `README.md:127` "Once ready, copy the credentials and send them to your users" | the instance of a first attempt delivers and is rolled back; its credentials stay in the row (`vps.go:177` makes a new token only), so those of the instance that runs are refused for good (`vps.go:197`) |
| `MCVpsStuck` | `TerminatingHasOwner` | `handler/provision.go:238` sets the status for the job it inserts | a crash between the status and the job leaves 'terminating' behind |
| `MCVpsFinal` | `TerminatedIsFinal` | the status 'terminated' | a provisioning that ends writes 'running' over the 'terminated' that a request wrote meanwhile |
| `MCVpsRollback` | `RolledBackIsGone` | `provision.go:598` reports the rollback | a rollback whose termination fails says 'failed' and leaves the instance |
| `MCVpsStatus` | `StatusIsTrue` | the statuses 'running' and 'stopped' | a restart accepted before a stop has written its status fails and reports 'running' for the stopped instance |
| `MCVpsRefresh` | `KeyIsKept` | a refresh changes the addresses | a refresh that read the row early writes the SSH key away |
| `MCVpsLost` | `NSGLeakNeedsFault` | retries and rollbacks lose no NSG but by a fault | with requests to stop they do: a crash makes a resumed provisioning look 'running', so that its new instance can be stopped; the run then fails without a fault, and a refresh that read the row before writes the first instance and NSG back over the second |
| `MCAuthenticationLock` | `LocksAtMaximum` | `.env.example:18` "Maximum failed login attempts before account lockout" | wrong passwords one after another never lock: each attempt resets the counter that the one before has left. Section 5 proves that with a maximum above one nothing ever locks |
| `MCEventBrokerLog` | `FullLog` | `handler/sse.go:59` "so reconnecting clients see the full log" | they do not, once the history is full |

Why the bounds are enough. Two jobs are what order and exclusion relate, and
three attempts are the code's own limit; two attempts already contain a retry
and a last attempt, which is all that the services can tell apart. Two users or
clients give every pair of requests that can disturb each other, besides the
worker. Resources are numbered and a type can be created `MaxGen` times in
`OciNetwork`, as under a service limit (two: an original and the one a retry
creates; four in `network_provision`, where a network that a rollback has emptied is
provisioned again); instances and NSGs of a VPS have an id for every run that can create
one. Three faults suffice for a failure, the failure of its rollback and a crash.
The history and the buffer are both exceeded with four events. Of `vps_access`, two
launches give a host and the one that replaces it, and two requests the pair that
overlaps; `Early` keeps the changes of the firewall until the first provisioning has
ended; `MCVpsAccessFirewall` has them at any time, without the other requests. In `network_allocation` three creations fill the three blocks and can
overlap with one another; a fourth row reuses a freed block. Four ticks see a lock
begin and end, six see three windows. The proofs of section 5 do without bounds.

`CHECK_DEADLOCK FALSE` stands where the modelled system may stop: when every
request, save, event or row of the bound has been made (the VPS runs, `vps_access`,
`oci_settings`, `network_allocation`, `event_broker` after its shutdown), and in
`jobqueue`, where a deleted target may end the worker. The network runs, `login` and
`rate_limiter` check for deadlock.

Every property of a run has a mutant in `PROJECT.json`: a definition
marked "mutant" in its module which, put in the place of the next one, breaks
the property.

Some properties name their exception by a history variable that no action reads:
`excuse` of `VpsAccess` (two resets or two changes of the rules have overlapped, one
was cut off or failed half-way, a refresh has undone a write, an attempt has found the
credentials of an earlier one), `stale` and `halved` of `OciSettings` (a form was saved over
settings it did not show, or with half of a new pair), `forgone` of `NetworkLifecycle` (how
often a failing cloud call has kept a rollback, or start-up, from deleting), `late` of
`RateLimiter` (the key's window was opened on an old reading of the clock), `outdated`
of `Authentication`, `missed` of `NetworkAllocation`. They
mark exactly what the code does not guard against; everything
else, crashes and retries among it, is covered.

## 4. Fairness

Liveness is checked under weak fairness, with one exception. The worker loop has a ticker and a
context that main.go never cancels; every wait in `oci.go` and in the services
has a deadline, so a run ends (a deadline that passes is a fault of kind "oci");
back-offs are times; start-up is a sequence of calls; an instance that boots or
terminates gets there, or the wait for it gives up; a supervisor restarts the
process. Users, clients and faults owe nothing. In `EventBroker` publishers
finish what they started and handlers forward what they have; a client that does
not read is a client that leaves. Nothing is asked of the shutdown, whose deadline may
pass at any time.

The exception is `WaitRunning` of `VpsLifecycle`, which is strongly fair: the code
polls the instance until it runs or its deadline passes, so a wait that could
end again and again does end, although a crash disables it in between.

What is excepted is in the formulas. `JobsFinish` excepts a job whose final write
failed (the row is left alone until the next start-up) and every job once the
worker has died of a deleted target (`Stranded`); its second half says that a
start-up after the last fault brings also those jobs to their end. `InProgressEnds` speaks of a
status that somebody works on and excepts a crash, after which 'terminating',
'restarting' and 'resetting' are taken up by nobody (`MCVpsStuck.cfg`).
`TerminationEnds` and `ProvisioningEnds` hold across crashes. `StreamsEnd` excepts a
stream that the deadline of the shutdown cuts off, and a connection that subscribes after
the broker was closed.

## 5. What is proved

Each module but `OciNetwork` (part of `NetworkLifecycle`) and `WorkQueue` has a module
of proofs, `Authentication` and `RateLimiter` one together. They hold for every value of
the constants: any number of jobs, attempts, requests, users, clients, resources and
faults. The assumptions on the constants are named (`...Assumption`) in the module that
declares them: numbers are natural and a maximum of attempts, a limit, a window or a
buffer is at least one; sets of kinds are among the kinds there are; and where something is
counted per client (`NetworkAllocation`, `Authentication`, `VpsLifecycle`) there are
finitely many of them.

In every module the argument is the same. The properties are not inductive alone;
`IInv` adds what they rest on. `InitIInv` shows that it holds at the start, one lemma
for each of its parts that every step keeps it, with a case for each action, and
`Inductive` combines them. State properties follow from `IInv`, action properties
from a look at one step under it.

### JobQueue

| Theorem | Property |
| --- | --- |
| `Inductive` | `IInv` |
| `TypeCorrect`, `Exclusive`, `Accounting`, `Budget`, `RolledBackFirst`, `FirstInFirstStarted` | `TypeOK`, `ExecutingIsClaimed`, `RunsAccounted`, `RunBudget`, `FailedIsRolledBack`, `FirstRunsInOrder` |
| `Final` | `FinishedIsFinal` |
| `Refinement` | `ImplementsWorkQueue` |

`IInv` adds where the worker can be (`WorkerShape`: a worker exists only while the
process serves, and has a job exactly while it executes one), that rows are inserted
from the front and a row not inserted has no past (`RowsInserted`), that a row never
started is pending and due (`NeverStartedIsDue`, which is why the oldest due row is
also the oldest one never started), and that attempts are left while a row has not
failed (`AttemptsLeft`). `Budget` follows from the accounts and the attempts left.
`Final`: only the row of the running job and running rows are written. The
refinement maps each action to Submit, Begin, Finish, GiveBack or a stutter.

`jobqueue` checks `IInv`, which contains the state formulas but `RunBudget`, and the
others with TLC.

### NetworkLifecycle

| Theorem | Property | Under |
| --- | --- | --- |
| `TypeCorrect` | `TypeOK` | |
| `UntrackedByFault` | `UntrackedNeedsFault` | |
| `RollsBackInOrder` | `DependentsFirst` | |
| `RecordGoesLast` | `RecordOutlivesVCN` | |
| `DestroyingNeedsOverlap` | `DestroyingIsReverted` | |
| `ReadyMeansRouted`, `DeadSubnetTold` | `ReadyIsRouted`, `DeadSubnetIsMarked` | no deletions, no database failures |
| `GivesUpWhatIsHeld` | `AbandonedIsHeld` | no deletions, no database failures |

The two conditions of the last two lines are those of `network_provision`, and TLC finds
both needed: a deletion under a provisioning, or a lost write (a resource without its
row, a row without its mark), can leave a ready network without a routed gateway or with
a dead subnet that no row tells of. Everything
named by the row, the rows, the worker or a deletion was made (`AllKnown`), so that what
is created is new to all of them, and has the type of its place (`Kinds`). The row of
a VCN comes before those of what is in it (`RowsOrder`), so a rollback from the newest
row on comes to the VCN last. What lives without a row, the worker's own resource aside,
is at most one for each fault (`HiddenByFault`). `Progress` says what a worker has when it
comes to each step; `ReadyIsQuiet` and `DeadIsMarked` that a ready network is left alone and
that rollbacks mark what they delete. The case splits use a summary of each action
(`Outcome` for the worker and start-up, `Elsewhere` for everybody else), proved once.

`DestroyingNeedsOverlap` looks at the step that leaves 'destroying' behind: only a fault of
that step, or a revert to the 'destroying' that was read, ends a deletion without another
status. An earlier fault does not excuse it.

`GivesUpWhatIsHeld` needs a second inductive invariant on top of `IInv`, in two parts
(`RollbackInductive`). `RollbackInv` says what the rows tell over any number of attempts
and rollbacks: no resource has two (`RowsDiffer`); until a subnet is tracked, the rows
that are not marked are those of one run (`FirstRuns`); subnets were made, and are
TERMINATING, only where the gateway is routed (`SubnetsRouted`), and what is TERMINATING
is tracked (`EndingTracked`); a rollback has marked the rows it came past
(`RollbackShape`). `ChargesPaid` counts: the marked rows that stand for a failed deletion
(`Charged`) are at most `forgone`, the deletions that a failing cloud call has cut off.
The failures that make a provisioning roll back pay for nothing. A row is charged for
what lives although nothing held it when the rollback came by, or for what holds
something that such a failure kept alive; a gateway held by its route and a VCN with
something left inside cost nothing. Every step charges nothing, charges one row and is
such a failure, or replaces a charged row by another: the VCN's by that of the last thing
that stayed in it. The exception is the security list of a tracked subnet
(`ListOfSubnet`): the rollback does not wait for the subnet, so OCI may refuse to delete
the list, and soon nothing holds it, without any fault. TLC found no violation of
`RollbackInv` and `ChargesPaid` within the bounds of `network_provision`.

### VpsLifecycle

| Theorem | Property | Under |
| --- | --- | --- |
| `TypeCorrect` | `TypeOK` | |
| `AliveIsBounded` | `AliveBound`: no more instances live than faults have occurred, and one | |
| `OrphansNeedFaults`, `NSGLeaksNeedFaults` | `OrphanNeedsFault`, `NSGLeakNeedsFault` | `Steady`: no requests to stop, none to delete |
| `WorkHasOwner` | `InProgressHasOwner` | `Prompt`: faults of the cloud only, no refreshes |
| `SurvivorsNeedFaults` | `SurvivorNeedsFaults` | `Patient`: as `Prompt`, and no requests to stop |

`Steady` has the operations of `vps_faults` and more; `Prompt` is what `vps_owners`
checks. They are not there for the proof only: a VPS can be deleted under the run that
launches its instance (`MCVpsDelete`), `MCVpsLost` shows what a stop and a
refresh do together, `MCVpsStuck` what a crash does to a status in progress.

`IInv` adds where the worker and the requests can be (`WorkerShape`, `RequestShape`), that
a job that is not over has attempts left (`JobsShape`), that every termination asked for
has a job to be (`RoomLeft`), and that only what was made is named (`NamesAreUsed`).
`MadeByRuns` bounds what was made by the runs there have been, which is why every new
instance and NSG has a number. `AlivePaid` counts what lives: an instance whose run is over
was terminated, or a call for it has failed, and only a run in hand or a completed job has
one for nothing. Without stops, the instance of a run lives until the run ends
(`NeverStopped`), so that every run but the last has cost a fault (`EveryRunCosts`); a
refresh may write back an earlier group, for which a spare fault has been spent. For
`WorkHasOwner`, whoever owns the work in progress is still to write another status
(`OwnerWrites`): the worker on its way to its end, the request that marked it, the
termination job. `AttemptsCost` says the same in faults: each attempt has cost one, and an
instance that outlives the last rollback one more.

### VpsAccess

| Theorem | Property |
| --- | --- |
| `KeptOnceDelivered`, `DeliveredByLatest` | `CredentialsAreKept`, `CredentialsOfLatest` |
| `OnlyPinnedHost` | `OneHostKey` |
| `RowEnters`, `StoredIsInForce`, `RulesAsAsked`, `AnsweredMeansDelivered` | `EntryMatches`, `PasswordMatches`, `FirewallAsAsked`, `CredentialsArrive` |

Attempts are made one after the other (`WorkerShape`, `GroupsFirst`, `InstancesFirst`), so
the token is that of the latest (`TokenIsLatest`), and no copy of the row has other
credentials than the row (`CopiesAgree`), which is why full-row updates do not lose them.
`KeyIsPinned`: once a worker has finished, or its key is still in a copy, the host key is
pinned to its instance and no other attempt gets past the host key check.
`CallIsGood` says that an instance whose attempt found no credentials is the one that
delivers: the row has its credentials, or it still calls and its token is good. An attempt
that found those of an earlier instance is excepted (`MCVpsAccessCredentials`).
`RowIsWorkers`, `CopyIsWorkers` and `RowIsEntered` say what the worker has made of the row
unless a refresh has undone it, `PasswordFollows` and `RulesFollow` how far a single
reset or change of the rules has got.

### The smaller modules

| Module | Theorem | Property |
| --- | --- | --- |
| `EventBroker` | `NothingMissed`, `NewestKept`, `OrderOfOnePublisher`, `RestIsSent` | `NoGap`, `HistoryIsNewest`, `PublisherOrder`, `ClosedSendsRest` |
| `Authentication` | `SecondNeedsOverlap`, `CounterCountsOverlap`, `LockHoldsForReaders` | `OneAdmin`, `CounterForgets`, `LockIsKept` |
| | `NoLockAboveOne` | `LockIsEarned`, and that nothing locks unless the maximum is one |
| `RateLimiter` | `BudgetHolds`, `RetryAfterHolds`, `SweepHolds` | `WindowBudget`, `RetryHonoured`, `ExpiredAreSwept` |
| `NetworkAllocation` | `SharedNeedsOverlap`, `LimitNeedsOverlap`, `CountedFindsBlock` | `SharedOnlyByOverlap`, `LimitPassedOnlyByOverlap`, `BlockWasThere` |
| `OciSettings` | `OneSetOfCredentials`, `KeyStaysPaired`, `TakenOverOnce` | `ClientsAgree`, `RowIsPaired`, `KeptUntilRestart` |

*EventBroker*: a publisher between the halves of Publish has sent nothing newer
(`SendsInOrder`); no step but its own handler's touches what a closed stream has still to
send, and those only move it (`RestStep`). *Authentication*: a
login compares from a counter of zero, so rows and comparing logins together count no
more than the clients (`ComparesFromZero`), and the maximum is reached only if it is one
(`LocksOnlyAtOne`). *RateLimiter*: the budget of a
window's length is inductive only if it is stated of every part of it that reaches to the
present (`BudgetFromThen`): what passed since any time is at most what the windows
opened since let through, what the present one has let through, and a limit for the one
before. A window that was opened by the clock as it was outlasts the history it is in
(`OpenersAreCurrent`), so only openings on an old reading can follow each other within it.
How many these are depends on the requests in flight: with two there is at most one, which
is what an earlier form of `WindowBudget` said (three windows' worth); with three requests
TLC finds four windows' worth, and the present form counts the openings. *NetworkAllocation*: rows and creations in flight are fewer than
the limit and the clients (`RowsAndInFlight`); a chosen block is free but for rows inserted since
(`ChosenBlockIsFree`). *OciSettings*: the service and the row have an invariant each;
without stale saves, and without forms that bring half of a new pair, the key numbers in
row, forms and saves only grow (`KeysGrow`).

## 6. What is only model-checked

- All liveness: TLAPS here has no rules for ENABLED and so for fairness.
- Of `VpsLifecycle`, `SurvivorNeedsFaults` with requests to stop (`vps_owners`).
- What a recursive definition computes; the modules use folds, sets and functions
  instead.

## 7. Abstractions

- `provisioning_state` is written for display and read by no decision;
  `vps_resources` is written and never read.
- A graceful stop is a crash in the lifecycle modules: the queue waits 60 seconds
  and a provisioning can take longer. `JobQueue` has both.
- SQLite statements are atomic and may fail; the foreign keys hold. (`PRAGMA
  foreign_keys` is set on one of the pool's connections only. The models take the
  checks that the code makes itself, and the cascade to `network_resources`.)
- The settings are complete. OCI's stops are instantaneous, its terminations not.
- In `VpsLifecycle` two writes in a row are one step if only the loss of the
  second can be noticed; the step then has an alternative in which it is lost.
- A step meets one failure at most; two failures of calls that follow each other without
  a decision between them are two steps, or the second is left out.
- Which of several due retries has the shorter back-off is left open.
- The events published on the way are modelled in `EventBroker` alone.
- In `VpsAccess` an address is not given to a second instance, every instance has a
  host key of its own, and the worker's writes succeed (that they may fail is in
  `VpsLifecycle`). The expiry of a callback token and the limiter in front of its route
  are a call that is never answered.
- In `OciSettings` the fingerprint and the private key stand for all columns.
- `Authentication` leaves out passwords and session tokens; a comparison comes out
  one way or the other.

## 8. Not modelled

Templates, seeding, validation, configuration, logging, audit log, CSRF and
routes, session tokens, migrations, the command line tools: stateless or read by
nothing. `GetFirewallRules` and the lookups of shapes, images and availability
domains only read; `UpdateCredentials` of the VPS repository is never called. The
heartbeats of a stream change nothing. The dashboard and the playbooks are other
programs; the dashboard's requests are what the modules' users do.

## 9. Plan

1. `OrphanNeedsFault` and `NSGLeakNeedsFault` with requests to stop but none to
   refresh, where TLC finds no violation with two users: runs that a stop makes fail
   cost nothing, so the invariant has to count what lives and not what was made.
2. An abstract lifecycle (a resource is owned or gone, a status in progress has an
   owner) implemented by `NetworkLifecycle` and `VpsLifecycle`.
