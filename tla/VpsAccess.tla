----------------------------- MODULE VpsAccess -----------------------------
(***************************************************************************)
(* How one VPS is entered: the SSH key, user password and host key that    *)
(* its row keeps (internal/repository/vps.go), the callback with which its *)
(* instance delivers its initial credentials, and the rules of its network *)
(* security group.  They are written by the worker that provisions it      *)
(* (ProvisionVPS and RollbackVPS of internal/service/provision.go), which  *)
(* the job queue repeats when it fails, by the instances themselves        *)
(* (cloud-init) and by requests that reset the password, refresh the       *)
(* addresses or replace the rules.                                         *)
(*                                                                         *)
(* Attempt a of the worker makes the key pair a, the callback token a, the *)
(* password a, the group a and the instance a, which has the host key a    *)
(* and the address a: addresses are not used again.  What a user does to   *)
(* the instance's power, and what an attempt may leak, is in VpsLifecycle. *)
(* A definition marked "mutant" is a wrong variant of the one after it,    *)
(* which Spec does not use.                                                *)
(***************************************************************************)
EXTENDS Naturals, FiniteSets, FiniteSetsExt

CONSTANTS
  Clients,      \* requests under way at one time
  Kinds,        \* what they may ask for: see Kind
  Early,        \* bound: those they may ask for while the worker is at work
  MaxRequests,  \* bound: requests, altogether
  MaxRefreshes, \* bound: requests to refresh the addresses at one time
  MaxAttempts,  \* the job queue's limit (3 in the code)
  MaxCrashes,   \* bound: deaths of the process
  MaxLaunches   \* bound: runs of the worker that make a group

Kind == {"reset", "refresh", "firewall"}

ASSUME VpsAccessAssumption ==
  /\ Kinds \subseteq Kind
  /\ Early \subseteq Kind
  /\ MaxRequests \in Nat
  /\ MaxRefreshes \in Nat
  /\ MaxAttempts \in Nat \ {0}
  /\ MaxCrashes \in Nat
  /\ MaxLaunches \in Nat \ {0}

Attempt == 1..MaxLaunches

Request == 1..MaxRequests

None == 0

\* The password and the rule that request r brings; 0 is the default rules.
Password(r) == MaxLaunches + r

VARIABLES
  row,        \* the vps row
  instances,  \* the cloud's instances
  login,      \* the password of the user on each instance
  calling,    \* instances that have not yet had an answer to their callback
  groups,     \* the network security groups
  rules,      \* and the rules of each
  job,        \* state and attempts
  w,          \* the worker
  op,         \* the request of each client
  made,       \* requests so far
  crashes,    \* deaths so far
  asked,      \* history: the rules last asked for
  excuse      \* history: what requests, or failures, have got in the way of

cloud   == <<instances, login, calling, groups, rules>>
history == <<asked, excuse>>
vars    == <<row, cloud, job, w, op, made, crashes, history>>

Maybe(S) == S \cup {None}

Row == [status : {"pending", "provisioning", "running", "failed", "terminated"},
        inst : Maybe(Attempt), ip : Maybe(Attempt), nsg : Maybe(Attempt),
        key : Maybe(Attempt), pass : 0..Password(MaxRequests),
        pin : Maybe(Attempt), token : Maybe(Attempt), creds : Maybe(Attempt)]

NoRow == [status |-> "pending", inst |-> None, ip |-> None, nsg |-> None,
          key |-> None, pass |-> None, pin |-> None, token |-> None,
          creds |-> None]

Idle == [pc |-> "idle", a |-> None, copy |-> NoRow, after |-> "error"]

Off == [pc |-> "off", r |-> None, copy |-> NoRow, ids |-> {}]

\* Every column, the cloud, the worker and the requests have the values they may.
TypeOK ==
  /\ row \in Row
  /\ instances \in [Attempt -> {"none", "booting", "running", "dead"}]
  /\ login \in [Attempt -> 0..Password(MaxRequests)]
  /\ calling \subseteq Attempt
  /\ groups \in [Attempt -> {"none", "live", "gone"}]
  /\ rules \in [Attempt -> SUBSET (0..MaxRequests)]
  /\ job \in [state : {"pending", "running", "complete", "failed"},
              attempts : 0..MaxAttempts]
  /\ w \in [pc : {"idle", "begin", "token", "nsg", "rules", "launch", "save",
                  "wait", "ssh", "finish", "complete", "terminate", "clean",
                  "error"},
            a : Maybe(Attempt), copy : Row, after : {"error", "give_up", "serve"}]
  /\ op \in [Clients ->
              [pc : {"off", "chpasswd", "verify", "store", "ips", "write",
                     "list", "remove", "add"},
               r : Maybe(Request), copy : Row, ids : SUBSET (0..MaxRequests)]]
  /\ made \in 0..MaxRequests
  /\ crashes \in 0..MaxCrashes
  /\ asked \subseteq 0..MaxRequests
  /\ excuse \subseteq {"password", "rules", "row", "callback", "earlier"}

\* HandleCreateVPS has inserted the row and enqueued its job.
Init ==
  /\ row = NoRow
  /\ instances = [a \in Attempt |-> "none"]
  /\ login = [a \in Attempt |-> None]
  /\ calling = {}
  /\ groups = [a \in Attempt |-> "none"]
  /\ rules = [a \in Attempt |-> {}]
  /\ job = [state |-> "pending", attempts |-> 0]
  /\ w = Idle
  /\ op = [c \in Clients |-> Off]
  /\ made = 0
  /\ crashes = 0
  /\ asked = {}
  /\ excuse = {}

Excused(S) == excuse' = excuse \cup S

-----------------------------------------------------------------------------
(* The row (internal/repository/vps.go).                                   *)

\* What a reader needs of the row: Update writes neither the host key nor the
\* token.
Copied == [row EXCEPT !.pin = None, !.token = None]

\* mutant: "initial_credentials=?"
UpdateAll(copy) ==
  row' = [copy EXCEPT !.pin = row.pin, !.token = row.token]

\* Update writes every column from the copy but the host key and the token, and
\* initial_credentials only if the copy has some.
Update(copy) ==
  row' = [copy EXCEPT !.pin = row.pin, !.token = row.token,
            !.creds = IF @ = None THEN row.creds ELSE @]

\* mutant: a token that is there is kept
SetTokenOnce(a) == row' = [row EXCEPT !.token = IF @ = None THEN a ELSE @]

\* SetCredentialsCallbackToken.
SetCredentialsCallbackToken(a) == row' = [row EXCEPT !.token = a]

\* mutant: only once the worker has finished
ConsumableRunning(a) ==
  row.token = a /\ row.creds = None /\ row.status = "running"

\* The WHERE clause of ConsumeCredentialsCallback.
Consumable(a) ==
  /\ row.token = a
  /\ row.creds = None
  /\ row.status \in {"provisioning", "running"}

-----------------------------------------------------------------------------
(* SSH (internal/service/oci.go).                                          *)

\* dialSSHWithHostKeyPin: the stored fingerprint is read, compared with the one
\* the host presents and, if there is none, set unless somebody else has.  The
\* first session of a VPS is always the worker's (a request needs the key that
\* only a finished worker stores), so this is one step.
HostKeyAccepted(a) == row.pin \in {None, a}

Pinned(r, a) == [r EXCEPT !.pin = IF @ = None THEN a ELSE @]

\* The host at an address answers, and knows the key.
Answers(ip, key) ==
  ip # None /\ ip = key /\ instances[ip] = "running" /\ HostKeyAccepted(ip)

-----------------------------------------------------------------------------
(* The instances and their callback.                                       *)

Boot ==
  /\ \E a \in Attempt : /\ instances[a] = "booting"
                        /\ instances' = [instances EXCEPT ![a] = "running"]
  /\ UNCHANGED <<row, login, calling, groups, rules, job, w, op, made, crashes, history>>

Serving == w.after # "serve"

\* The worker has nothing to do for the VPS.
Quiet == w.pc = "idle" /\ job.state \in {"complete", "failed"}

\* The loop of ansible/cloud-init/*.yaml repeats the call when there is no answer,
\* four times: any answer, also a refusal, ends it.  The answer may be lost after
\* HandleCredentialsCallback has stored the credentials, and the call come again.
Callback(a) ==
  /\ a \in calling
  /\ instances[a] = "running"
  /\ Serving
  /\ \/ /\ Consumable(a)
        /\ row' = [row EXCEPT !.creds = a, !.token = None]
        /\ calling' \in {calling, calling \ {a}}
        /\ UNCHANGED excuse
     \/ /\ ~Consumable(a)
        /\ calling' = calling \ {a}
        /\ UNCHANGED <<row, excuse>>
     \/ /\ calling' = calling \ {a}   \* never answered, the limiter, a database error, expired
        /\ Excused({"callback"})
        /\ UNCHANGED row
  /\ UNCHANGED <<instances, login, groups, rules, job, w, op, made, crashes, asked>>

-----------------------------------------------------------------------------
(* The worker.  A database call of its own that fails ends the run, or is  *)
(* logged; VpsLifecycle has what that may leave.                           *)

Goto(pc) == w' = [w EXCEPT !.pc = pc]

Fails == w' = [Idle EXCEPT !.pc = "error"]

Claim ==
  /\ w.pc = "idle"
  /\ job.state = "pending"
  /\ \E a \in Attempt : groups[a] = "none"
  /\ job' = [job EXCEPT !.state = "running"]
  /\ w' = [Idle EXCEPT !.pc = "begin"]
  /\ UNCHANGED <<row, cloud, op, made, crashes, history>>

\* The worker reads the row, and works on with what it has read.  The network,
\* the template and the compartment may fail it.
Begin ==
  /\ w.pc = "begin"
  /\ \/ /\ w' = [w EXCEPT !.pc = "token", !.copy = Copied,
                   !.a = Min({a \in Attempt : groups[a] = "none"})]
        /\ row' = [row EXCEPT !.status = "provisioning"]
     \/ row' = [row EXCEPT !.status = "failed"] /\ Fails
  /\ UNCHANGED <<cloud, job, op, made, crashes, history>>

\* The row may still have the credentials of an earlier attempt's instance.
MakeToken ==
  /\ w.pc = "token"
  /\ SetCredentialsCallbackToken(w.a)
  /\ Goto("nsg")
  /\ Excused(IF row.creds # None THEN {"earlier"} ELSE {})
  /\ UNCHANGED <<cloud, job, op, made, crashes, asked>>

\* CreateNSG and UpdateNSGID.
CreateNSG ==
  /\ w.pc = "nsg"
  /\ \/ /\ groups' = [groups EXCEPT ![w.a] = "live"]
        /\ row' = [row EXCEPT !.nsg = w.a]
        /\ w' = [w EXCEPT !.pc = "rules", !.copy.nsg = w.a]
     \/ row' = [row EXCEPT !.status = "failed"] /\ Fails /\ UNCHANGED groups
  /\ UNCHANGED <<instances, login, calling, rules, job, op, made, crashes, history>>

\* The requests that are changing the rules of a group.
Changing == {c \in Clients : op[c].pc \in {"list", "remove", "add"}}

\* AddNSGRules, or the group is deleted again, if it can be.
AddDefaultRules ==
  /\ w.pc = "rules"
  /\ \/ /\ rules' = [rules EXCEPT ![w.a] = @ \cup {0}]
        /\ Goto("launch")
        /\ asked' = {0}
        /\ Excused(IF rules[w.a] # {} \/ Changing # {} THEN {"rules"} ELSE {})
        /\ UNCHANGED <<row, groups>>
     \/ /\ \/ /\ groups' = [groups EXCEPT ![w.a] = "gone"]
              /\ rules' = [rules EXCEPT ![w.a] = {}]
           \/ UNCHANGED <<groups, rules>>
        /\ row' = [row EXCEPT !.nsg = None, !.status = "failed"]
        /\ Fails
        /\ UNCHANGED history
  /\ UNCHANGED <<instances, login, calling, job, op, made, crashes>>

RollbackBegins(i, after) ==
  w' = [Idle EXCEPT !.pc = IF i = None THEN "clean" ELSE "terminate",
                    !.a = i, !.after = after]

\* LaunchInstance, with the token in the instance's cloud-init.
Launch ==
  /\ w.pc = "launch"
  /\ \/ /\ instances' = [instances EXCEPT ![w.a] = "booting"]
        /\ calling' = calling \cup {w.a}
        /\ Goto("save")
     \/ RollbackBegins(None, "error") /\ UNCHANGED <<instances, calling>>
  /\ UNCHANGED <<row, login, groups, rules, job, op, made, crashes, history>>

\* The instance is recorded.
SaveInstance ==
  /\ w.pc = "save"
  /\ LET copy == [w.copy EXCEPT !.inst = w.a, !.status = "provisioning"] IN
     Update(copy) /\ w' = [w EXCEPT !.pc = "wait", !.copy = copy]
  /\ UNCHANGED <<cloud, job, op, made, crashes, history>>

\* waitForRunning and GetInstanceIPs.
WaitRunning ==
  /\ w.pc = "wait"
  /\ \/ instances[w.a] = "running" /\ Goto("ssh")
     \/ RollbackBegins(w.a, "error")
  /\ UNCHANGED <<row, cloud, job, op, made, crashes, history>>

\* SSHCreateUser, up to 20 times: a session may fail before or after the user has
\* the password, and the worker may give up.  SSHVerifyPasswordLogin is only
\* logged.
CreateUser ==
  /\ w.pc = "ssh"
  /\ \/ /\ Answers(w.a, w.a)
        /\ row' = Pinned(row, w.a)
        /\ \/ login' = [login EXCEPT ![w.a] = w.a] /\ w' \in {w, [w EXCEPT !.pc = "finish"]}
           \/ UNCHANGED <<login, w>>
     \/ RollbackBegins(w.a, "error") /\ UNCHANGED <<row, login>>
  /\ UNCHANGED <<instances, calling, groups, rules, job, op, made, crashes, history>>

\* mutant: an address that is there is kept
ProvisionedAtOld(copy) ==
  [copy EXCEPT !.ip = IF @ = None THEN w.a ELSE @, !.key = w.a, !.pass = w.a,
               !.status = "running"]

\* What the worker has found and made.
Provisioned(copy) == [copy EXCEPT !.ip = w.a, !.key = w.a, !.pass = w.a,
                                  !.status = "running"]

\* The last Update.
Finish ==
  /\ w.pc = "finish"
  /\ \/ Update(Provisioned(w.copy)) /\ w' = [Idle EXCEPT !.pc = "complete"]
     \/ Fails /\ UNCHANGED row
  /\ UNCHANGED <<cloud, job, op, made, crashes, history>>

Complete ==
  /\ w.pc = "complete"
  /\ job' = [job EXCEPT !.state = "complete"]
  /\ w' = Idle
  /\ UNCHANGED <<row, cloud, op, made, crashes, history>>

\* RollbackVPS: TerminateInstance, which says 'running' if it is refused.
Terminate ==
  /\ w.pc = "terminate"
  /\ \/ /\ instances' = [instances EXCEPT ![w.a] = "dead"]
        /\ login' = [login EXCEPT ![w.a] = None]
        /\ calling' = calling \ {w.a}
        /\ UNCHANGED row
     \/ row' = [row EXCEPT !.status = "running"] /\ UNCHANGED <<instances, login, calling>>
  /\ w' = [w EXCEPT !.pc = "clean", !.a = None]
  /\ UNCHANGED <<groups, rules, job, op, made, crashes, history>>

\* The group is deleted, if it can be, and the row says 'failed'.
Clean ==
  /\ w.pc = "clean"
  /\ \/ /\ row.nsg # None
        /\ instances[row.nsg] \in {"none", "dead"}
        /\ groups' = [groups EXCEPT ![row.nsg] = "gone"]
        /\ rules' = [rules EXCEPT ![row.nsg] = {}]
        /\ row' = [row EXCEPT !.nsg = None, !.status = "failed"]
     \/ row' = [row EXCEPT !.status = "failed"] /\ UNCHANGED <<groups, rules>>
  /\ \/ w.after = "error" /\ Fails /\ UNCHANGED job
     \/ w.after = "serve" /\ w' = Idle /\ UNCHANGED job
     \/ /\ w.after = "give_up"
        /\ w' = Idle
        /\ job' = [state |-> "failed", attempts |-> MaxAttempts]
  /\ UNCHANGED <<instances, login, calling, op, made, crashes, history>>

\* markFailed and triggerRollback.
MarkFailed ==
  /\ w.pc = "error"
  /\ IF job.attempts + 1 < MaxAttempts
       THEN /\ job' = [state |-> "pending", attempts |-> job.attempts + 1]
            /\ w' = Idle
       ELSE IF row.inst = None
              THEN /\ job' = [state |-> "failed", attempts |-> MaxAttempts]
                   /\ w' = Idle
              ELSE RollbackBegins(row.inst, "give_up") /\ UNCHANGED job
  /\ UNCHANGED <<row, cloud, op, made, crashes, history>>

Worker ==
  \/ Claim \/ Begin \/ MakeToken \/ CreateNSG \/ AddDefaultRules \/ Launch
  \/ SaveInstance \/ WaitRunning \/ CreateUser \/ Finish \/ Complete
  \/ Terminate \/ Clean \/ MarkFailed

\* A password that is being changed, or changed and not yet stored.
Resetting == {c \in Clients : op[c].pc \in {"chpasswd", "verify", "store"}}

\* The status that start-up gives the row, if it does not roll it back.
Reconciled ==
  IF row.status \notin {"pending", "provisioning"} THEN row.status
  ELSE IF row.inst = None THEN "pending"
  ELSE CASE instances[row.inst] = "running" -> "running"
         [] instances[row.inst] = "dead" -> "terminated"
         [] OTHER -> row.status

\* The process dies, starts, resumes its job and reconciles the row.
Crash ==
  /\ crashes < MaxCrashes
  /\ crashes' = crashes + 1
  /\ op' = [c \in Clients |-> Off]
  /\ job' = [job EXCEPT !.state = IF @ = "running" THEN "pending" ELSE @]
  /\ Excused((IF Resetting # {} THEN {"password"} ELSE {})
               \cup (IF Changing # {} \/ w.pc = "rules" THEN {"rules"} ELSE {}))
  /\ \/ row' = [row EXCEPT !.status = Reconciled] /\ w' = Idle
     \/ /\ row.status \in {"pending", "provisioning"}
        /\ row.inst # None
        /\ w' = [Idle EXCEPT !.pc = "terminate", !.a = row.inst, !.after = "serve"]
        /\ UNCHANGED row
  /\ UNCHANGED <<cloud, made, asked>>

-----------------------------------------------------------------------------
(* The requests.                                                           *)

OpGoto(c, pc) == op' = [op EXCEPT ![c].pc = pc]

Done(c) == op' = [op EXCEPT ![c] = Off]

\* A request reads the row, and works on with what it has read of it.
Asks(c, pc, copy) ==
  /\ Serving
  /\ op[c].pc = "off"
  /\ made < MaxRequests
  /\ made' = made + 1
  /\ op' = [op EXCEPT ![c] = [pc |-> pc, r |-> made + 1, copy |-> copy, ids |-> {}]]
  /\ UNCHANGED <<row, cloud, job, w, crashes>>

\* ResetPassword's conditions.
Resettable ==
  /\ row.inst # None
  /\ row.status = "running"
  /\ row.ip # None
  /\ row.key # None

AskReset(c) ==
  /\ "reset" \in Kinds
  /\ Quiet \/ "reset" \in Early
  /\ Resettable
  /\ Asks(c, "chpasswd", [NoRow EXCEPT !.ip = row.ip, !.key = row.key])
  /\ Excused(IF Resetting # {} THEN {"password"} ELSE {})
  /\ UNCHANGED asked

\* SSHResetPassword.  The session may fail after the password was changed.
Chpasswd(c) ==
  LET ip == op[c].copy.ip IN
  /\ op[c].pc = "chpasswd"
  /\ \/ /\ Answers(ip, op[c].copy.key)
        /\ login' = [login EXCEPT ![ip] = Password(op[c].r)]
        /\ \/ OpGoto(c, "verify") /\ UNCHANGED excuse
           \/ Done(c) /\ Excused({"password"})
     \/ Done(c) /\ UNCHANGED <<login, excuse>>
  /\ UNCHANGED <<row, instances, calling, groups, rules, job, w, made, crashes, asked>>

\* SSHVerifyPasswordLogin.
Verified(c) ==
  LET ip == op[c].copy.ip IN
  /\ instances[ip] = "running"
  /\ HostKeyAccepted(ip)
  /\ login[ip] = Password(op[c].r)

Verify(c) ==
  /\ op[c].pc = "verify"
  /\ \/ Verified(c) /\ OpGoto(c, "store") /\ UNCHANGED excuse
     \/ Done(c) /\ Excused({"password"})
  /\ UNCHANGED <<row, cloud, job, w, made, crashes, asked>>

\* mutant: nothing is stored
Kept(r) == row

\* UpdateSSHPassword.
Stored(r) == [row EXCEPT !.pass = Password(r)]

\* It fails if the client is gone.
StorePassword(c) ==
  /\ op[c].pc = "store"
  /\ \/ row' = Stored(op[c].r) /\ UNCHANGED excuse
     \/ Excused({"password"}) /\ UNCHANGED row
  /\ Done(c)
  /\ UNCHANGED <<cloud, job, w, made, crashes, asked>>

\* RefreshInstanceIPs.
AskRefresh(c) ==
  /\ "refresh" \in Kinds
  /\ Quiet \/ "refresh" \in Early
  /\ Cardinality({d \in Clients : op[d].pc \in {"ips", "write"}}) < MaxRefreshes
  /\ row.inst # None
  /\ Asks(c, "ips", Copied)
  /\ UNCHANGED history

\* It writes only if the address is not the one it read.  An instance that is
\* dead, here, may still be terminating and have its address.
ReadIPs(c) ==
  LET i == op[c].copy.inst IN
  /\ op[c].pc = "ips"
  /\ \/ /\ instances[i] # "none"
        /\ op[c].copy.ip # i
        /\ op' = [op EXCEPT ![c].pc = "write", ![c].copy.ip = i]
     \/ Done(c)
  /\ UNCHANGED <<row, cloud, job, w, made, crashes, history>>

\* What a copy says of the columns that Update writes.
Columns(r) == <<r.status, r.inst, r.nsg, r.key, r.pass>>

\* It writes its copy of the whole row, and so may undo what others have written
\* since.
WriteIPs(c) ==
  /\ op[c].pc = "write"
  /\ \/ /\ Update(op[c].copy)
        /\ Excused(IF Columns(op[c].copy) # Columns(row) THEN {"row"} ELSE {})
     \/ UNCHANGED <<row, excuse>>
  /\ Done(c)
  /\ UNCHANGED <<cloud, job, w, made, crashes, asked>>

\* UpdateFirewallRules.
AskFirewall(c) ==
  /\ "firewall" \in Kinds
  /\ Quiet \/ "firewall" \in Early
  /\ row.nsg # None
  /\ Asks(c, "list", [NoRow EXCEPT !.nsg = row.nsg])
  /\ Excused(IF Changing # {} \/ w.pc = "rules" THEN {"rules"} ELSE {})
  /\ UNCHANGED asked

Live(n) == groups[n] = "live"

\* ListNSGRules.
ListRules(c) ==
  LET n == op[c].copy.nsg IN
  /\ op[c].pc = "list"
  /\ \/ Live(n) /\ op' = [op EXCEPT ![c].pc = "remove", ![c].ids = rules[n]]
     \/ Done(c)
  /\ UNCHANGED <<row, cloud, job, w, made, crashes, history>>

\* mutant: the rules are added to those there are
NothingRemoved(R, ids) == R

Removed(R, ids) == R \ ids

\* RemoveNSGRules of what was listed; the cloud refuses the id of a rule that is
\* no longer there.  A list of no rules ends the request here.
RemoveRules(c) ==
  LET n == op[c].copy.nsg IN
  /\ op[c].pc = "remove"
  /\ \/ /\ Live(n)
        /\ op[c].ids \subseteq rules[n]
        /\ rules' = [rules EXCEPT ![n] = Removed(@, op[c].ids)]
        /\ \/ op' = [op EXCEPT ![c].pc = "add", ![c].ids = {}] /\ UNCHANGED asked
           \/ Done(c) /\ asked' = {}
     \/ Done(c) /\ UNCHANGED <<rules, asked>>
  /\ UNCHANGED <<row, instances, login, calling, groups, job, w, made, crashes, excuse>>

\* AddNSGRules: when it fails the old rules are gone and the new not there.
AddRules(c) ==
  LET n == op[c].copy.nsg IN
  /\ op[c].pc = "add"
  /\ \/ /\ Live(n)
        /\ rules' = [rules EXCEPT ![n] = @ \cup {op[c].r}]
        /\ asked' = {op[c].r}
        /\ UNCHANGED excuse
     \/ Excused({"rules"}) /\ UNCHANGED <<rules, asked>>
  /\ Done(c)
  /\ UNCHANGED <<row, instances, login, calling, groups, job, w, made, crashes>>

RequestStep(c) ==
  \/ AskReset(c) \/ Chpasswd(c) \/ Verify(c) \/ StorePassword(c)
  \/ AskRefresh(c) \/ ReadIPs(c) \/ WriteIPs(c)
  \/ AskFirewall(c) \/ ListRules(c) \/ RemoveRules(c) \/ AddRules(c)

Next ==
  \/ Worker \/ Crash \/ Boot
  \/ \E a \in Attempt : Callback(a)
  \/ \E c \in Clients : RequestStep(c)

Spec == Init /\ [][Next]_vars

-----------------------------------------------------------------------------
(* What should hold.                                                       *)

\* The initial credentials of a VPS are delivered once (ConsumeCredentialsCallback)
\* and then neither replaced nor lost, whatever copies of the row the worker and
\* the refreshes write over them while they arrive.
CredentialsAreKept == [][row.creds # None => row'.creds = row.creds]_row

\* They come from an instance of the latest attempt: an instance whose
\* termination was refused, or that a crash has left behind, cannot deliver its
\* credentials for the one that has replaced it.
CredentialsOfLatest ==
  [][row.creds = None /\ row'.creds # None =>
       \A a \in Attempt : a > row'.creds => instances[a] = "none"]_row

Usable == Quiet /\ row.status = "running" /\ "row" \notin excuse

\* The callback of the instance that runs is never refused for good: once it has
\* had its answer the row has its credentials, also when it called before the
\* worker was done, or before and after a crash.  The exception is a row that had
\* those of an earlier instance when the instance's token was made: they are never
\* cleared (SetCredentialsCallbackToken), and no others are then accepted.
CredentialsArrive ==
  Usable /\ row.inst \notin calling /\ {"callback", "earlier"} \cap excuse = {} =>
    row.creds = row.inst

\* "Once ready, copy the credentials and send them to your users" (README.md): they
\* are those of the instance that runs.
CredentialsOfInstance ==
  Usable /\ row.inst \notin calling /\ "callback" \notin excuse =>
    row.creds = row.inst

\* The key and passwords of a VPS are only ever used on one host, however many
\* instances its provisioning has launched: the one whose host key came first.
OneHostKey == \A a \in Attempt : login[a] # None => row.pin = a

\* The stored private key opens the instance the row names, at the address the
\* row names, under the host key that is pinned: only the copy of a refresh that
\* undoes a write can break this, no retry and no crash.
EntryMatches ==
  Usable => row.key = row.inst /\ row.ip = row.inst /\ row.pin = row.inst

\* The stored password is the one the instance has, unless two resets have
\* overlapped, or one has ended between the change and its record.
PasswordMatches ==
  Usable /\ Resetting = {} /\ "password" \notin excuse =>
    row.pass = login[row.inst]

\* The rules in force are those last asked for, unless two changes have overlapped
\* or one has failed between its removal and its addition.
FirewallAsAsked ==
  Usable /\ Changing = {} /\ "rules" \notin excuse /\ row.nsg # None =>
    rules[row.nsg] = asked
=============================================================================
