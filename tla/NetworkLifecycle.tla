-------------------------- MODULE NetworkLifecycle --------------------------
(***************************************************************************)
(* One network from its creation to its deletion: the row and its tracked  *)
(* resources (internal/repository/network.go, network_resource.go), the    *)
(* worker that provisions and rolls it back (ProvisionNetwork and          *)
(* RollbackNetwork of internal/service/network.go, as called by the job    *)
(* queue and, at start-up, by reconcile.go), and the HTTP requests that    *)
(* destroy it in goroutines of their own (DestroyNetwork), all working on  *)
(* the same row and the same cloud (OciNetwork).                           *)
(*                                                                         *)
(* Of the row only status, vcn_ocid and subnet_ocid are kept:              *)
(* provisioning_state is written for display and no decision reads it.     *)
(* A definition marked "mutant" is a wrong variant of the one after it,    *)
(* which Spec does not use.                                                *)
(***************************************************************************)
EXTENDS OciNetwork, SequencesExt

CONSTANTS
  MaxRequests,   \* bound: provisioning jobs ever enqueued for the network
  MaxAttempts,   \* the job queue's limit (3 in the code)
  Clients,       \* HTTP clients that may ask for the deletion
  MaxActive,     \* bound: unfinished jobs and deletions at one time
  Events,        \* what else may happen: see Event
  MaxFaults      \* bound: faults (every event but "vps"), altogether

Request == 1..MaxRequests

\* "oci": a cloud call fails or times out; "db": a database call fails;
\* "crash": the process dies; "disconnect": a client drops its connection,
\* which cancels the request's context; "vps": VPSs are created and deleted.
Event == {"oci", "db", "crash", "disconnect", "vps"}

ASSUME NetworkAssumption ==
  /\ MaxRequests \in Nat
  /\ MaxAttempts \in Nat \ {0}
  /\ MaxActive \in Nat
  /\ Events \subseteq Event
  /\ MaxFaults \in Nat

VARIABLES
  net,      \* the networks row: exists, status, vcn, subnet
  rows,     \* its network_resources rows, ORDER BY id
  vps,      \* a vps row that refers to it: "none", "checked" (HandleCreateVPS
            \* has found the network ready and not yet inserted), "row"
  jobs,     \* the provision_network jobs: state and attempts
  phase,    \* "down", "boot" (reconciling), "serving"
  w,        \* the worker (at start-up: the goroutine that reconciles)
  d,        \* the DestroyNetwork call of each client
  faults,   \* faults so far
  forgone   \* history: those that kept a rollback, or start-up, from deleting

local == <<phase, faults, forgone>>
vars  == <<net, rows, vps, jobs, w, d, local, cloud>>

NetStatus == {"pending", "provisioning", "ready", "failed", "destroying"}

Idle == [pc |-> "idle", job |-> 0, step |-> "vcn", new |-> NoOCID,
         got |-> [t \in Type |-> NoOCID], rules |-> {}, todo |-> <<>>,
         after |-> "none"]

Off == [pc |-> "off", prev |-> "pending", vcn |-> NoOCID, subnet |-> NoOCID,
        rules |-> {}, todo |-> {}, errs |-> FALSE]

\* Every column, the worker and the callers have the values they may have.
TypeOK ==
  /\ CloudOK
  /\ net \in [exists : BOOLEAN, status : NetStatus,
              vcn : OCID \cup {NoOCID}, subnet : OCID \cup {NoOCID}]
  /\ \A i \in DOMAIN rows : rows[i] \in [ocid : OCID, deleted : BOOLEAN]
  /\ vps \in {"none", "checked", "row"}
  /\ jobs \in [Request -> [state : {"absent", "pending", "running",
                                    "complete", "failed"},
                           attempts : 0..MaxAttempts]]
  /\ phase \in {"down", "boot", "serving"}
  /\ w.pc \in {"idle", "begin", "lookup", "create", "track", "route_read",
               "route_write", "result", "complete", "rollback", "error"}
  /\ w.job \in Request \cup {0}
  /\ w.step \in Type
  /\ w.new \in OCID \cup {NoOCID}
  /\ w.got \in [Type -> OCID \cup {NoOCID}]
  /\ w.rules \subseteq OCID
  /\ \A i \in DOMAIN w.todo : w.todo[i] \in OCID
  /\ w.after \in {"none", "error", "give_up", "serve"}
  /\ d \in [Clients ->
             [pc : {"off", "mark", "route_read", "route_write", "route_wait",
                    "igw", "subnet", "subnet_wait", "lists", "list", "vcn",
                    "record", "revert"},
              prev : NetStatus, vcn : OCID \cup {NoOCID},
              subnet : OCID \cup {NoOCID}, rules : SUBSET OCID,
              todo : SUBSET OCID, errs : BOOLEAN]]
  /\ faults \in 0..MaxFaults
  /\ forgone \in 0..faults

\* HandleCreateNetwork inserts the row; nothing exists in the cloud yet.
Init ==
  /\ CloudInit
  /\ net = [exists |-> TRUE, status |-> "pending",
            vcn |-> NoOCID, subnet |-> NoOCID]
  /\ rows = <<>>
  /\ vps = "none"
  /\ jobs = [j \in Request |-> [state |-> "absent", attempts |-> 0]]
  /\ phase = "boot"
  /\ w = Idle
  /\ d = [c \in Clients |-> Off]
  /\ faults = 0
  /\ forgone = 0

Happens(e) ==
  /\ e \in Events
  /\ faults < MaxFaults
  /\ faults' = faults + 1

Fault(e) == Happens(e) /\ UNCHANGED forgone

\* The fault leaves behind a resource that should have been deleted.
Forgoes(e) == Happens(e) /\ forgone' = forgone + 1

NoFault == UNCHANGED <<faults, forgone>>

Tracked == {rows[i].ocid : i \in DOMAIN rows}

\* UPDATE networks SET status: changes nothing once the row is deleted.
StatusSet(s) == net' = IF net.exists THEN [net EXCEPT !.status = s] ELSE net

-----------------------------------------------------------------------------
(* The end of a run: markFailed and markComplete of the job queue.         *)

JobSet(s, a) == jobs' = [jobs EXCEPT ![w.job] = [state |-> s, attempts |-> a]]

\* mutant: oldest resource first
InOrder(s) == s

\* RollbackNetwork walks the tracked resources from the newest to the oldest.
RollbackOrder(s) == Reverse(s)

\* ListByNetwork.
Listed == [i \in DOMAIN rows |-> rows[i].ocid]

\* RollbackNetwork, up to its ListByNetwork: every row, the deleted ones too.
RollbackBegins(after) ==
  /\ w' = [w EXCEPT !.pc = "rollback", !.after = after, !.todo = RollbackOrder(Listed)]
  /\ UNCHANGED <<net, jobs>>

\* ProvisionNetwork returns an error.
RunFails == w' = [w EXCEPT !.pc = "error"] /\ UNCHANGED <<net, jobs>>

\* markFailed: the job goes back to the queue (unless the write, whose failure
\* is logged, leaves it "running") or, at the limit, triggerRollback rolls the
\* network back (again).  Without settings triggerRollback does nothing.
MarkFailed ==
  LET a == jobs[w.job].attempts + 1 IN
  /\ w.pc = "error"
  /\ \/ /\ a < MaxAttempts
        /\ JobSet("pending", a)
        /\ w' = Idle
        /\ NoFault
        /\ UNCHANGED net
     \/ a < MaxAttempts /\ Fault("db") /\ w' = Idle /\ UNCHANGED <<net, jobs>>
     \/ a >= MaxAttempts /\ RollbackBegins("give_up") /\ NoFault
     \/ /\ a >= MaxAttempts
        /\ Fault("db")
        /\ JobSet("failed", a)
        /\ w' = Idle
        /\ UNCHANGED net
  /\ UNCHANGED <<rows, vps, phase, d, cloud>>

-----------------------------------------------------------------------------
(* The worker: ProvisionNetwork.                                           *)

ClaimJob ==
  /\ phase = "serving"
  /\ w.pc = "idle"
  /\ \E j \in Request :
       /\ jobs[j].state = "pending"
       /\ jobs' = [jobs EXCEPT ![j].state = "running"]
       /\ w' = [Idle EXCEPT !.pc = "begin", !.job = j]
  /\ UNCHANGED <<net, rows, vps, d, local, cloud>>

\* The checks at the top of ProvisionNetwork, the write of 'provisioning' and
\* the settings.  Only 'provisioning' is refused: a ready network is
\* provisioned again.  A database failure leaves the row as it is or, once it
\* is marked, makes failNetwork mark it 'failed'.
Begin ==
  /\ w.pc = "begin"
  /\ \/ /\ ~net.exists \/ net.status = "provisioning"
        /\ RunFails
        /\ NoFault
     \/ /\ net.exists
        /\ net.status # "provisioning"
        /\ StatusSet("provisioning")
        /\ w' = [w EXCEPT !.pc = "lookup", !.step = "vcn"]
        /\ UNCHANGED jobs
        /\ NoFault
     \/ Fault("db") /\ RunFails
     \/ /\ Fault("db")
        /\ net.exists
        /\ net.status # "provisioning"
        /\ StatusSet("failed")
        /\ w' = [w EXCEPT !.pc = "error"]
        /\ UNCHANGED jobs
  /\ UNCHANGED <<rows, vps, phase, d, cloud>>

VCN == w.got["vcn"]

\* GetByNetworkAndType: the oldest row of the type, whatever its status.
Recorded(t) ==
  LET S == {i \in DOMAIN rows : rows[i].ocid.type = t}
  IN  IF S = {} THEN NoOCID ELSE rows[Min(S)].ocid

\* mutant: every resource is trusted if tracked
UsableIfTracked(t) == Recorded(t) # NoOCID

\* createOrGetX finds its recorded resource usable.  A subnet is "just
\* trusted if tracked".
Usable(t) ==
  LET o == Recorded(t) IN
  /\ o # NoOCID
  /\ \/ t = "subnet"
     \/ t = "vcn" /\ o \in live
     \/ t \in {"igw", "security_list"} /\ o \in Managed(t, VCN)

\* What ProvisionNetwork does once it has the resource of type t.
NextPc(t) == CASE t = "igw" -> "route_read"
               [] t = "subnet" -> "result"
               [] OTHER -> "lookup"

NextStep(t) == CASE t = "vcn" -> "igw"
                 [] t = "security_list" -> "subnet"
                 [] OTHER -> t

Obtained(o) ==
  w' = [w EXCEPT !.got[w.step] = o, !.pc = NextPc(w.step),
                 !.step = NextStep(w.step), !.new = NoOCID]

\* createOrGetX: is there one already?  A failing Get or List, of the row or of
\* the resource, counts as no.
Lookup ==
  /\ w.pc = "lookup"
  /\ \/ Usable(w.step) /\ Obtained(Recorded(w.step)) /\ NoFault
     \/ ~Usable(w.step) /\ w' = [w EXCEPT !.pc = "create"] /\ NoFault
     \/ /\ Usable(w.step)
        /\ (w.step # "subnet" /\ Fault("oci")) \/ Fault("db")
        /\ w' = [w EXCEPT !.pc = "create"]
  /\ UNCHANGED <<net, rows, vps, jobs, phase, d, cloud>>

\* CreateX returns the OCID of the new resource.
Create ==
  /\ w.pc = "create"
  /\ Creatable(w.step, VCN)
  /\ Created(Fresh(w.step, VCN))
  /\ w' = [w EXCEPT !.pc = "track", !.new = Fresh(w.step, VCN)]
  /\ UNCHANGED <<net, rows, vps, jobs, local, d>>

\* CreateX returns an error: nothing was created, or the resource was and
\* the wait for it failed.
CreateFails ==
  /\ w.pc = "create"
  /\ \/ ~Creatable(w.step, VCN) /\ NoFault /\ UNCHANGED cloud
     \/ Fault("oci") /\ UNCHANGED cloud
     \/ /\ w.step \in {"vcn", "subnet"}
        /\ Creatable(w.step, VCN)
        /\ Fault("oci")
        /\ Created(Fresh(w.step, VCN))
  /\ RollbackBegins("error")
  /\ UNCHANGED <<rows, vps, phase, d>>

\* networkResourceRepo.Create, then UpdateStatus.  The row of a network that
\* was deleted in the meantime is of no use to anybody.
Track ==
  /\ w.pc = "track"
  /\ \/ /\ rows' = IF net.exists
                     THEN Append(rows, [ocid |-> w.new, deleted |-> FALSE])
                     ELSE rows
        /\ NoFault
     \/ Fault("db") /\ UNCHANGED rows
  /\ Obtained(w.new)
  /\ UNCHANGED <<net, vps, jobs, phase, d, cloud>>

\* GetVCN, whose error is ignored, and GetRouteTable.
RouteRead ==
  /\ w.pc = "route_read"
  /\ \/ /\ VCN \in live
        /\ w' = [w EXCEPT !.pc = "route_write", !.rules = Rules(VCN)]
        /\ NoFault
        /\ UNCHANGED <<net, jobs>>
     \/ VCN \notin live /\ NoFault /\ RollbackBegins("error")
     \/ Fault("oci") /\ RollbackBegins("error")
  /\ UNCHANGED <<rows, vps, phase, d, cloud>>

\* The rules read before plus the default route, written back.  Whether OCI
\* accepts a second default route to the same gateway is left open.
RouteWrite ==
  LET igw   == w.got["igw"]
      rules == w.rules \cup {igw}
  IN
  /\ w.pc = "route_write"
  /\ \/ /\ VCN \in live
        /\ rules \subseteq live
        /\ RoutesSet(VCN, rules)
        /\ w' = [w EXCEPT !.pc = "lookup", !.step = "security_list",
                          !.rules = {}]
        /\ NoFault
        /\ UNCHANGED <<net, jobs>>
     \/ /\ VCN \notin live \/ ~(rules \subseteq live) \/ igw \in w.rules
        /\ NoFault
        /\ RollbackBegins("error")
        /\ UNCHANGED cloud
     \/ Fault("oci") /\ RollbackBegins("error") /\ UNCHANGED cloud
  /\ UNCHANGED <<rows, vps, phase, d>>

\* UpdateProvisionResult.  It is no error that the row is gone.  If it fails
\* nothing is rolled back and the row keeps 'provisioning'.
Result ==
  /\ w.pc = "result"
  /\ \/ /\ net' = IF net.exists
                    THEN [net EXCEPT !.status = "ready", !.vcn = VCN,
                                     !.subnet = w.got["subnet"]]
                    ELSE net
        /\ w' = [w EXCEPT !.pc = "complete"]
        /\ NoFault
        /\ UNCHANGED jobs
     \/ Fault("db") /\ RunFails
  /\ UNCHANGED <<rows, vps, phase, d, cloud>>

\* markComplete, whose failure is logged.
MarkComplete ==
  /\ w.pc = "complete"
  /\ \/ JobSet("complete", jobs[w.job].attempts) /\ NoFault
     \/ Fault("db") /\ UNCHANGED jobs
  /\ w' = Idle
  /\ UNCHANGED <<net, rows, vps, phase, d, cloud>>

-----------------------------------------------------------------------------
(* RollbackNetwork.                                                        *)

\* MarkDeleted: UPDATE ... WHERE resource_ocid.
Marked(o) == [i \in DOMAIN rows |->
                IF rows[i].ocid = o THEN [rows[i] EXCEPT !.deleted = TRUE]
                                    ELSE rows[i]]

\* mutant: the rows of deleted resources are removed
Removed(o) == SelectSeq(rows, LAMBDA r : r.ocid # o)

\* mutant: MarkDeleted is not called
Unmarked(o) == rows

\* What the tracked resources are after the deletion of o was attempted.
RowsAfter(o) == Marked(o)

\* One resource.  Its row is marked deleted whether or not OCI deleted it; that
\* the mark fails is only logged.
RollbackStep ==
  /\ w.pc = "rollback"
  /\ w.todo # <<>>
  /\ LET o == Head(w.todo) IN
       \/ /\ \/ Deletable(o) /\ Deleted(o) /\ NoFault
             \/ ~Deletable(o) /\ UNCHANGED cloud /\ NoFault
             \/ Deletable(o) /\ Forgoes("oci") /\ UNCHANGED cloud
          /\ rows' = RowsAfter(o)
       \/ /\ (Deletable(o) /\ Deleted(o)) \/ UNCHANGED cloud
          /\ Fault("db")
          /\ UNCHANGED rows
  /\ w' = [w EXCEPT !.todo = Tail(@)]
  /\ UNCHANGED <<net, vps, jobs, phase, d>>

\* ResumeOnStartup and the start of the worker and of the HTTP server.
Serve ==
  /\ phase' = "serving"
  /\ jobs' = [j \in Request |->
                IF jobs[j].state = "running"
                  THEN [jobs[j] EXCEPT !.state = "pending"] ELSE jobs[j]]
  /\ w' = Idle

\* mutants: the state's name is written to the status column; a network
\* without resources is left alone
StatusIsState == StatusSet("rolling_back")
FailedIfAny   == IF rows = <<>> THEN UNCHANGED net ELSE StatusSet("failed")

\* How RollbackNetwork leaves the row.
RolledBack == StatusSet("failed")

\* The network is marked 'failed' (a database failure is only logged) and
\* control returns to the caller: ProvisionNetwork, markFailed or
\* ReconcileOnStartup.  If the rows cannot be listed nothing is done at all.
RollbackEnds ==
  /\ w.pc = "rollback"
  /\ \/ w.todo = <<>> /\ RolledBack /\ NoFault
     \/ w.todo \in {<<>>, RollbackOrder(Listed)} /\ Fault("db") /\ UNCHANGED net
  /\ \/ /\ w.after = "error"
        /\ w' = [w EXCEPT !.pc = "error"]
        /\ UNCHANGED <<jobs, phase>>
     \/ /\ w.after = "give_up"
        /\ JobSet("failed", jobs[w.job].attempts + 1)
        /\ w' = Idle
        /\ UNCHANGED phase
     \/ w.after = "serve" /\ Serve
  /\ UNCHANGED <<rows, vps, d, cloud>>

-----------------------------------------------------------------------------
(* The process: ReconcileOnStartup, crashes.                               *)

Stuck == {"pending", "provisioning"}

\* reconcileNetwork's anyExists: every tracked resource but a VCN is assumed
\* to exist, a VCN does if GetVCN says so.
MayExist == \E i \in DOMAIN rows :
              rows[i].ocid.type # "vcn" \/ rows[i].ocid \in live

AllMarked == [i \in DOMAIN rows |-> [rows[i] EXCEPT !.deleted = TRUE]]

\* A write of these that fails is ignored: a mark or the status.
ResetPartly ==
  \/ rows' = AllMarked /\ UNCHANGED net
  \/ \E i \in DOMAIN rows : rows' = [AllMarked EXCEPT ![i] = rows[i]] /\ StatusSet("pending")

\* ReconcileOnStartup for this network, and the rest of the start-up unless a
\* rollback comes first.
Reconcile ==
  /\ phase = "boot"
  /\ w.pc = "idle"
  /\ \/ /\ ~(net.exists /\ net.status \in Stuck)
        /\ Serve
        /\ NoFault
        /\ UNCHANGED <<net, rows>>
     \/ /\ net.exists /\ net.status \in Stuck
        /\ MayExist
        /\ RollbackBegins("serve")
        /\ NoFault
        /\ UNCHANGED <<rows, phase>>
     \/ /\ net.exists /\ net.status \in Stuck
        /\ IF MayExist
             THEN /\ \A i \in DOMAIN rows : rows[i].ocid.type = "vcn"
                  /\ Forgoes("oci")
             ELSE NoFault
        /\ rows' = AllMarked
        /\ StatusSet("pending")
        /\ Serve
     \/ /\ net.exists /\ net.status \in Stuck
        /\ ~MayExist
        /\ ResetPartly
        /\ Fault("db")
        /\ Serve
     \/ Fault("db") /\ Serve /\ UNCHANGED <<net, rows>>
  /\ UNCHANGED <<vps, d, cloud>>

\* Every goroutine is gone; the tables and the cloud stay.
Crash ==
  /\ phase # "down"
  /\ Fault("crash")
  /\ phase' = "down"
  /\ w' = Idle
  /\ d' = [c \in Clients |-> Off]
  /\ vps' = IF vps = "checked" THEN "none" ELSE vps
  /\ UNCHANGED <<net, rows, jobs, cloud>>

Restart ==
  /\ phase = "down"
  /\ phase' = "boot"
  /\ UNCHANGED <<net, rows, vps, jobs, w, d, faults, forgone, cloud>>

-----------------------------------------------------------------------------
(* The HTTP handlers.                                                      *)

\* The bound MaxActive leaves room for one more request.
Room == Cardinality({j \in Request : jobs[j].state \in {"pending", "running"}})
          + Cardinality({c \in Clients : d[c].pc # "off"}) < MaxActive

\* HandleNetworkProvision enqueues without looking at the network.
RequestProvision ==
  /\ phase = "serving"
  /\ Room
  /\ \E j \in Request :
       /\ jobs[j].state = "absent"
       /\ \A i \in Request : i < j => jobs[i].state # "absent"
       /\ jobs' = [jobs EXCEPT ![j].state = "pending"]
  /\ UNCHANGED <<net, rows, vps, w, d, local, cloud>>

\* HandleCreateVPS, up to its check of the network ...
CheckForVPS ==
  /\ phase = "serving"
  /\ "vps" \in Events
  /\ vps = "none"
  /\ net.exists /\ net.status = "ready"
  /\ vps' = "checked"
  /\ UNCHANGED <<net, rows, jobs, w, d, local, cloud>>

\* ... and its INSERT, which the foreign key refuses if the network is gone.
InsertVPS ==
  /\ vps = "checked"
  /\ vps' = IF net.exists THEN "row" ELSE "none"
  /\ UNCHANGED <<net, rows, jobs, w, d, local, cloud>>

\* HandleDeleteVPS (of a VPS terminated before).
DeleteVPS ==
  /\ phase = "serving"
  /\ vps = "row"
  /\ vps' = "none"
  /\ UNCHANGED <<net, rows, jobs, w, d, local, cloud>>

-----------------------------------------------------------------------------
(* HandleDeleteNetwork and DestroyNetwork, in the goroutine of client c.   *)

\* The call of client c goes on at pc.
Goes(c, pc) == d' = [d EXCEPT ![c].pc = pc]

Here == <<net, rows, vps, jobs, phase, w>>

\* CountVPS, then Get: everything DestroyNetwork uses of the row is read here.
DestroyRequest(c) ==
  /\ phase = "serving"
  /\ Room
  /\ d[c].pc = "off"
  /\ net.exists
  /\ vps # "row"
  /\ d' = [d EXCEPT ![c] = [Off EXCEPT !.pc = "mark", !.prev = net.status,
                              !.vcn = net.vcn, !.subnet = net.subnet]]
  /\ UNCHANGED <<Here, faults, forgone, cloud>>

\* UpdateStatus 'destroying', whose error is ignored, and the settings.
DestroyMark(c) ==
  /\ d[c].pc = "mark"
  /\ \/ /\ (StatusSet("destroying") /\ NoFault) \/ (UNCHANGED net /\ Fault("db"))
        /\ Goes(c, IF d[c].vcn = NoOCID THEN "record" ELSE "route_read")
     \/ StatusSet("destroying") /\ Goes(c, "revert") /\ Fault("db")
  /\ UNCHANGED <<rows, vps, jobs, phase, w, cloud>>

\* GetVCN, GetRouteTable and the gateways managed by this program.  A failing
\* list of gateways counts as none; any other failure ends in "revert".
RouteClearRead(c) ==
  LET v == d[c].vcn
      m == Managed("igw", v)
  IN
  /\ d[c].pc = "route_read"
  /\ \/ /\ v \in live
        /\ IF Rules(v) \cap m = {}
             THEN Goes(c, "igw")
             ELSE d' = [d EXCEPT ![c].pc = "route_write", ![c].todo = m,
                                 ![c].rules = Rules(v) \ m]
        /\ NoFault
     \/ v \notin live /\ Goes(c, "revert") /\ NoFault
     \/ v \in live /\ Goes(c, "igw") /\ Fault("oci")
     \/ Goes(c, "revert") /\ Fault("oci")
  /\ UNCHANGED <<Here, cloud>>

RouteClearWrite(c) ==
  LET v == d[c].vcn IN
  /\ d[c].pc = "route_write"
  /\ \/ /\ v \in live
        /\ RoutesSet(v, d[c].rules)
        /\ Goes(c, "route_wait")
        /\ NoFault
     \/ v \notin live /\ Goes(c, "revert") /\ NoFault /\ UNCHANGED cloud
     \/ Goes(c, "revert") /\ Fault("oci") /\ UNCHANGED cloud
  /\ UNCHANGED Here

\* waitForRouteTableCleared, for 30 seconds.
RouteClearWait(c) ==
  LET v == d[c].vcn
      cleared == v \in live /\ Rules(v) \cap d[c].todo = {}
  IN
  /\ d[c].pc = "route_wait"
  /\ \/ cleared /\ Goes(c, "igw") /\ NoFault
     \/ ~cleared /\ Goes(c, "revert") /\ NoFault
     \/ Goes(c, "revert") /\ Fault("oci")
  /\ UNCHANGED <<Here, cloud>>

\* One deletion of DestroyNetwork's chain: it succeeds, or OCI refuses.
Deletes(c, o, next) ==
  \/ Deletable(o) /\ Deleted(o) /\ Goes(c, next) /\ NoFault
  \/ ~Deletable(o) /\ UNCHANGED cloud /\ Goes(c, "revert") /\ NoFault
  \/ UNCHANGED cloud /\ Goes(c, "revert") /\ Fault("oci")

DestroyIGW(c) ==
  /\ d[c].pc = "igw"
  /\ \/ \E o \in Managed("igw", d[c].vcn) : Deletes(c, o, "subnet")
     \/ /\ Managed("igw", d[c].vcn) = {}
        /\ Goes(c, "subnet")
        /\ NoFault
        /\ UNCHANGED cloud
  /\ UNCHANGED Here

\* DeleteSubnet, for which "not found" is no error.  What OCI says of a subnet
\* that is TERMINATING is left open.
DestroySubnet(c) ==
  LET s == d[c].subnet IN
  /\ d[c].pc = "subnet"
  /\ \/ s \in live /\ Deletes(c, s, "subnet_wait")
     \/ s \notin live /\ UNCHANGED cloud /\ Goes(c, "subnet_wait") /\ NoFault
     \/ s \in ending /\ UNCHANGED cloud /\ Goes(c, "revert") /\ NoFault
  /\ UNCHANGED Here

\* WaitForSubnetTerminated, which ends when the subnet has; the two minutes may
\* pass before.
SubnetWait(c) ==
  /\ d[c].pc = "subnet_wait"
  /\ \/ d[c].subnet \notin live \cup ending /\ Goes(c, "lists") /\ NoFault
     \/ Goes(c, "revert") /\ Fault("oci")
  /\ UNCHANGED <<Here, cloud>>

ListLists(c) ==
  /\ d[c].pc = "lists"
  /\ \/ /\ d' = [d EXCEPT ![c].pc = "list",
                          ![c].todo = Managed("security_list", d[c].vcn)]
        /\ NoFault
     \/ Goes(c, "revert") /\ Fault("oci")
  /\ UNCHANGED <<Here, cloud>>

\* The loop over the security lists goes on after an error.
DestroyList(c) ==
  /\ d[c].pc = "list"
  /\ \/ \E o \in d[c].todo :
          \/ /\ Deletable(o)
             /\ Deleted(o)
             /\ d' = [d EXCEPT ![c].todo = @ \ {o}]
             /\ NoFault
          \/ /\ IF Deletable(o) THEN Fault("oci") ELSE NoFault
             /\ d' = [d EXCEPT ![c].todo = @ \ {o}, ![c].errs = TRUE]
             /\ UNCHANGED cloud
     \/ /\ d[c].todo = {}
        /\ Goes(c, IF d[c].errs THEN "revert" ELSE "vcn")
        /\ NoFault
        /\ UNCHANGED cloud
  /\ UNCHANGED Here

\* mutant: the error of DeleteVCN is not appended to errs
VCNErrorDropped(c) ==
  /\ d[c].pc = "vcn"
  /\ \/ Deletable(d[c].vcn) /\ Deleted(d[c].vcn) /\ NoFault
     \/ ~Deletable(d[c].vcn) /\ UNCHANGED cloud /\ NoFault
     \/ UNCHANGED cloud /\ Fault("oci")
  /\ Goes(c, "record")
  /\ UNCHANGED Here

DestroyVCN(c) ==
  /\ d[c].pc = "vcn"
  /\ Deletes(c, d[c].vcn, "record")
  /\ UNCHANGED Here

\* mutant: DestroyNetwork returns without the revert if Delete finds a VPS
RecordNotReverted(c) ==
  /\ d[c].pc = "record"
  /\ IF vps # "row"
       THEN net' = [net EXCEPT !.exists = FALSE] /\ rows' = <<>>
       ELSE UNCHANGED <<net, rows>>
  /\ d' = [d EXCEPT ![c] = Off]
  /\ NoFault
  /\ UNCHANGED <<vps, jobs, phase, w, cloud>>

\* networkRepo.Delete counts the VPSs again; the resource rows cascade.
DestroyRecord(c) ==
  /\ d[c].pc = "record"
  /\ \/ /\ vps # "row"
        /\ net' = [net EXCEPT !.exists = FALSE]
        /\ rows' = <<>>
        /\ d' = [d EXCEPT ![c] = Off]
        /\ NoFault
     \/ /\ (vps = "row" /\ NoFault) \/ Fault("db")
        /\ Goes(c, "revert")
        /\ UNCHANGED <<net, rows>>
  /\ UNCHANGED <<vps, jobs, phase, w, cloud>>

\* UpdateStatus(prevStatus), on every error path.
DestroyRevert(c) ==
  /\ d[c].pc = "revert"
  /\ \/ StatusSet(d[c].prev) /\ NoFault
     \/ UNCHANGED net /\ Fault("db")
  /\ d' = [d EXCEPT ![c] = Off]
  /\ UNCHANGED <<rows, vps, jobs, phase, w, cloud>>

\* The client goes away: the request's context is cancelled, so every call
\* DestroyNetwork still makes fails, UpdateStatus(prevStatus) included.
Disconnect(c) ==
  /\ d[c].pc # "off"
  /\ Fault("disconnect")
  /\ d' = [d EXCEPT ![c] = Off]
  /\ UNCHANGED <<Here, cloud>>

-----------------------------------------------------------------------------
\* OCI's own step: nobody here is told.
SubnetEnds ==
  /\ \E o \in ending : SubnetEnded(o)
  /\ UNCHANGED <<Here, d, faults, forgone>>

\* The worker's ticker fires and finds no job.
Poll ==
  /\ phase = "serving"
  /\ w.pc = "idle"
  /\ \A j \in Request : jobs[j].state # "pending"
  /\ UNCHANGED vars

WorkerStep ==
  \/ Begin \/ Lookup \/ Create \/ CreateFails \/ Track
  \/ RouteRead \/ RouteWrite \/ Result \/ MarkComplete
  \/ RollbackStep \/ RollbackEnds \/ MarkFailed

DestroyStep(c) ==
  \/ DestroyMark(c)
  \/ RouteClearRead(c) \/ RouteClearWrite(c) \/ RouteClearWait(c)
  \/ DestroyIGW(c) \/ DestroySubnet(c) \/ SubnetWait(c)
  \/ ListLists(c) \/ DestroyList(c)
  \/ DestroyVCN(c) \/ DestroyRecord(c) \/ DestroyRevert(c)

Next ==
  \/ RequestProvision
  \/ ClaimJob \/ Poll
  \/ WorkerStep
  \/ \E c \in Clients : DestroyRequest(c) \/ DestroyStep(c) \/ Disconnect(c)
  \/ CheckForVPS \/ InsertVPS \/ DeleteVPS
  \/ SubnetEnds
  \/ Reconcile
  \/ Crash
  \/ Restart

Spec == Init /\ [][Next]_vars

\* The worker runs (every wait in oci.go has a deadline, and main.go hands it
\* context.Background(), so nothing cancels it), start-up completes and the
\* process is restarted.  Clients owe nothing.
Fairness ==
  /\ WF_vars(ClaimJob)
  /\ WF_vars(WorkerStep)
  /\ WF_vars(Reconcile)
  /\ WF_vars(Restart)

FairSpec == Spec /\ Fairness

-----------------------------------------------------------------------------
(* Properties.                                                             *)

Untracked == live \ Tracked

\* Nothing is created behind the database's back: while the network exists,
\* every live resource has a row, deleted or not, except the one being
\* tracked and those a fault hid (a crash or a failed INSERT after the
\* creation, a failed wait), at most one for each fault.
UntrackedNeedsFault ==
  net.exists =>
    Cardinality(Untracked) <= faults + (IF w.pc = "track" THEN 1 ELSE 0)

\* RollbackNetwork deletes dependents first: a VCN is attempted only when no
\* tracked resource inside it is still waiting for its turn, however many
\* attempts, reuses and earlier rollbacks the rows come from.
DependentsFirst ==
  \A i, j \in DOMAIN w.todo :
    /\ w.todo[i].type = "vcn"
    /\ w.todo[j].type # "vcn"
    /\ w.todo[i].vcn = w.todo[j].vcn
    => j < i

\* A network that says 'ready', and that no deletion or database failure has
\* touched, has its VCN, a gateway in it with a default route to it, and a
\* security list, across re-provisioning, rollbacks, crashes and resumes.
ReadyIsRouted ==
  net.status = "ready" =>
    /\ net.vcn \in live
    /\ Managed("igw", net.vcn) \cap routes # {}
    /\ Managed("security_list", net.vcn) # {}

\* DestroyNetwork deletes the record only when the VCN it read from it is gone
\* with everything inside, although rules may be rewritten, resources created
\* and other deletions run at the same time.
RecordOutlivesVCN ==
  \A c \in Clients :
    d[c].pc = "record" /\ d[c].vcn # NoOCID =>
      d[c].vcn \notin live /\ Children(d[c].vcn) = {}

\* A security list with a tracked subnet beside it.  RollbackNetwork does not
\* wait for the subnet's end before it goes on to the list, so OCI may refuse
\* to delete the list and soon nothing holds it: no fault is needed.
ListOfSubnet(o) ==
  /\ o.type = "security_list"
  /\ \E s \in Tracked : s.type = "subnet" /\ s.vcn = o.vcn

\* RollbackNetwork gives up only what OCI will not delete: of the resources it
\* has marked deleted and that live on, those that nothing holds any more (no
\* route names the gateway, no subnet uses the list, the VCN is empty) are at
\* most as many as the deletions (and at start-up the questions for a VCN) that
\* a failing call of the cloud has cut off, over any number of attempts and
\* rollbacks; the failures that made it roll back cost nothing.
\* The exception is the list that had a subnet beside it.
AbandonedIsHeld ==
  LET free == {i \in DOMAIN rows : /\ rows[i].deleted
                                   /\ Deletable(rows[i].ocid)
                                   /\ ~ListOfSubnet(rows[i].ocid)}
  IN  w.pc # "rollback" => Cardinality(free) <= forgone

\* Provisioning trusts a tracked subnet without asking OCI: a network comes to
\* be 'ready' with a dead one, but only with one whose row a rollback has
\* marked deleted, so that a look at the status of the row would have told.
DeadSubnetIsMarked ==
  net.exists /\ net.status = "ready" /\ net.subnet \notin live =>
    \E i \in DOMAIN rows : rows[i].ocid = net.subnet /\ rows[i].deleted

Ownerless ==
  net.exists /\ net.status = "destroying" /\ \A c \in Clients : d[c].pc = "off"

\* "revert the status and return an error ... The user can retry" (network.go
\* 554): a deletion that fails leaves 'destroying' behind only if a fault of
\* that very step (the write fails, the client goes, the process dies) kept it
\* from writing, or if 'destroying' is the status that it read and goes back
\* to: of a deletion it overlapped with, or of one that such a fault cut short.
DestroyingIsReverted ==
  [][~Ownerless /\ Ownerless' =>
       \/ faults' > faults
       \/ \E c \in Clients : d[c].pc = "revert" /\ d[c].prev = "destroying"]_vars

\* A network does not stay in 'provisioning': with crashes and cloud failures,
\* retries, rollback or reconciliation eventually take it out.
ProvisioningEnds ==
  net.status = "provisioning" ~> net.status # "provisioning"

\* The event "Network infrastructure provisioned" (network.go:312) and the
\* status 'ready' that HandleCreateVPS requires promise a usable subnet.
ReadyHasSubnet == net.exists /\ net.status = "ready" => net.subnet \in live

\* "All OCI resources destroyed successfully - now delete the DB record."
\* (network.go:568): the record goes only when nothing of the network is left.
DestroyedLeavesNothing == [][net.exists /\ ~net'.exists => live = {}]_vars

\* "OCI rejects IGW deletion (409 Conflict) if any route rule still references
\* the IGW" (network.go:415): a row that RollbackNetwork marks deleted should
\* then stand for a resource that is gone.
DeletedIsGone ==
  \A i \in DOMAIN rows : rows[i].deleted => rows[i].ocid \notin live

\* "revert the status and return an error ... The user can retry" (network.go
\* 554): a network is 'destroying' only while somebody is destroying it.
DestroyingHasOwner == ~Ownerless

\* The same comment: after a failed deletion a retry can succeed.  Since a
\* failing GetVCN is an error, it cannot once the recorded VCN is gone.
DestroyCanBeRetried ==
  (net.exists /\ net.vcn # NoOCID /\ \A c \in Clients : d[c].pc = "off")
    => net.vcn \in live

=============================================================================
