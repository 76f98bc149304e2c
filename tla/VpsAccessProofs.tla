-------------------------- MODULE VpsAccessProofs --------------------------
(***************************************************************************)
(* What holds of VpsAccess for every number of requests, attempts,         *)
(* launches and crashes.                                                   *)
(***************************************************************************)
EXTENDS VpsAccess, WellFoundedInduction, TLAPS

-----------------------------------------------------------------------------
(* The inductive invariant.                                                *)

Preparing == {"token", "nsg"}
Working   == {"rules", "launch", "save", "wait", "ssh", "finish"}
Launched  == {"save", "wait", "ssh", "finish"}
Recorded  == {"wait", "ssh", "finish"}

\* The worker's attempt is the latest: groups are made one after the other.
WorkerShape ==
  /\ w.pc = "begin" => \E a \in Attempt : groups[a] = "none"
  /\ w.pc \in Preparing =>
       /\ w.a \in Attempt
       /\ groups[w.a] = "none"
       /\ \A b \in Attempt : b < w.a => groups[b] # "none"
  /\ w.pc \in Working =>
       /\ w.a \in Attempt
       /\ groups[w.a] # "none"
       /\ \A b \in Attempt : b > w.a => groups[b] = "none"
  /\ w.pc = "terminate" => w.a \in Attempt /\ groups[w.a] # "none"
  /\ w.pc \in {"idle", "complete", "error"} => w = [Idle EXCEPT !.pc = w.pc]
  /\ w.after # "error" => w.pc \in {"terminate", "clean"}

\* Who works on the job, and what start-up does without one.
JobShape ==
  w.pc # "idle" /\ w.after # "serve" => job.state = "running"

\* What there is belongs to an attempt that has made its group.
GroupsFirst ==
  /\ \A a, b \in Attempt : a < b /\ groups[b] # "none" => groups[a] # "none"
  /\ \A a \in Attempt : instances[a] # "none" => groups[a] # "none"
  /\ \A n \in {row.nsg, row.inst, row.pin} : n # None => groups[n] # "none"
  /\ \A c \in Clients :
       \A n \in {op[c].copy.nsg, op[c].copy.inst} : n # None => groups[n] # "none"

\* An instance that the worker, the row or a request knows was launched.
InstancesFirst ==
  /\ w.pc \in Launched \cup {"terminate"} => instances[w.a] # "none"
  /\ row.inst # None => instances[row.inst] # "none"
  /\ \A c \in Clients : op[c].copy.inst # None => instances[op[c].copy.inst] # "none"

\* The requests, and what they work on with.
RequestShape ==
  \A c \in Clients :
    /\ op[c].pc # "off" => op[c].r \in Request
    /\ op[c].pc \in {"ips", "write"} => op[c].copy.inst # None
    /\ op[c].pc = "write" => op[c].copy.ip = op[c].copy.inst
    /\ c \in Resetting => op[c].copy.key # None
    /\ c \in Changing => op[c].copy.nsg # None

\* No copy of the row has other credentials than the row.
CopiesAgree ==
  /\ w.copy.creds \in {None, row.creds}
  /\ \A c \in Clients : op[c].copy.creds \in {None, row.creds}

\* The token is the latest attempt's.
TokenIsLatest ==
  /\ row.token # None => \A b \in Attempt : b > row.token => instances[b] = "none"
  /\ w.pc \in {"nsg", "rules", "launch"} =>
       row.token = w.a \/ (row.token = None /\ row.creds # None)

\* A worker has finished and stored its key, and the key may still be in a copy.
HasKey ==
  \/ row.key # None
  \/ w.copy.key # None
  \/ \E c \in Clients : op[c].copy.key # None

\* Once there is a key nobody else gets to the end: the host key is pinned.
KeyIsPinned ==
  /\ HasKey => /\ row.pin # None
               /\ w.pc # "finish"
               /\ w.pc \in Preparing \cup Working => w.a # row.pin
  /\ w.pc = "finish" => row.pin = w.a /\ login[w.a] = w.a

\* What the worker has made of the row, if no refresh has undone it.
RowIsWorkers ==
  "row" \notin excuse =>
    /\ w.pc \in Preparing \cup Working => row.status = "provisioning"
    /\ w.pc \in Working => row.nsg = w.a
    /\ w.pc = "error" /\ row.inst = None => row.status = "failed"
    /\ w.after = "serve" => job.state = "pending"
    /\ job.state = "failed" => w.pc = "idle" /\ row.status \in {"failed", "terminated"}
    /\ job.state = "complete" => w.pc = "idle"

CopyIsWorkers ==
  /\ w.pc \in Working => w.copy.nsg = w.a
  /\ w.pc \in Recorded => w.copy.inst = w.a /\ row.inst # None

Finished == w.pc = "complete" \/ job.state = "complete"

\* The row of a worker that has finished names one instance.
RowIsEntered ==
  "row" \notin excuse /\ Finished =>
    /\ row.inst \in Attempt
    /\ row.key = row.inst /\ row.ip = row.inst /\ row.pin = row.inst
    /\ row.status = "running"

\* At most one reset is under way, and it is known how far it has got.
PasswordFollows ==
  {"row", "password"} \cap excuse = {} /\ Finished =>
    /\ \A c, d \in Resetting : c = d
    /\ (\A c \in Resetting : op[c].pc = "chpasswd") => row.pass = login[row.inst]
    /\ \A c \in Resetting :
         /\ op[c].copy.ip = row.inst
         /\ op[c].pc # "chpasswd" => login[row.inst] = Password(op[c].r)

\* The same of the changes of the rules.
RulesFollow ==
  {"row", "rules"} \cap excuse = {} /\ (w.pc \in Working \ {"rules"} \/ Finished) =>
    /\ row.nsg # None
    /\ \A c, d \in Changing : c = d
    /\ (\A c \in Changing : op[c].pc # "add") => rules[row.nsg] = asked
    /\ \A c \in Changing :
         /\ op[c].copy.nsg = row.nsg
         /\ op[c].pc = "remove" => op[c].ids = rules[row.nsg]
         /\ op[c].pc = "add" => rules[row.nsg] = {}

\* The instance i has delivered, or it still calls and its token is still good.
Good(i) ==
  \/ row.creds = i
  \/ row.creds = None /\ i \in calling /\ row.token = i

\* An attempt finds no credentials, and its instance is the one that delivers.
CallIsGood ==
  {"row", "callback", "earlier"} \cap excuse = {} =>
    /\ w.pc \in {"nsg", "rules", "launch"} =>
         row.creds = None /\ instances[w.a] = "none"
    /\ w.pc \in Launched => Good(w.a)
    /\ Finished => Good(row.inst)

IInv ==
  /\ TypeOK /\ WorkerShape /\ JobShape /\ GroupsFirst /\ InstancesFirst /\ RequestShape
  /\ CopiesAgree /\ TokenIsLatest /\ KeyIsPinned /\ OneHostKey /\ RowIsWorkers
  /\ CopyIsWorkers /\ RowIsEntered /\ PasswordFollows /\ RulesFollow /\ CallIsGood

-----------------------------------------------------------------------------
(* Types.                                                                  *)

\* A set of natural numbers that is not empty has a least element.
LEMMA MinInSet ==
  ASSUME NEW S \in SUBSET Nat, S # {}
  PROVE  Min(S) \in S /\ \A y \in S : Min(S) <= y
<1> DEFINE R == OpToRel(<, Nat)
<1>1. IsWellFoundedOn(R, Nat)
  BY NatLessThanWellFounded
<1>2. \E x \in S : \A y \in S : <<y, x>> \notin R
  <2> HIDE DEF R
  <2> QED BY <1>1, WFMin
<1>3. \E x \in S : \A y \in S : x <= y
  <2>1. PICK x \in S : \A y \in S : <<y, x>> \notin R
    BY <1>2
  <2>2. \A y \in S : ~(y < x)
    <3>1. \A y \in S : <<y, x>> \in Nat \X Nat
      OBVIOUS
    <3> QED BY <2>1, <3>1 DEF OpToRel
  <2> QED BY <2>2
<1> QED BY <1>3 DEF Min

\* Attempts and requests are numbered from one, and every password has its number.
LEMMA Values ==
  /\ Attempt \subseteq Nat \ {0} /\ Request \subseteq Nat \ {0}
  /\ Attempt \subseteq 0..Password(MaxRequests)
  /\ 0 \in 0..Password(MaxRequests) /\ 0 \in 0..MaxRequests
  /\ \A r \in Request : Password(r) \in 0..Password(MaxRequests) /\ r \in 0..MaxRequests
BY VpsAccessAssumption DEF Attempt, Request, Password

WorkerPc ==
  {"idle", "begin", "token", "nsg", "rules", "launch", "save", "wait", "ssh", "finish",
   "complete", "terminate", "clean", "error"}

WorkerRecord ==
  [pc : WorkerPc, a : Maybe(Attempt), copy : Row, after : {"error", "give_up", "serve"}]

RequestRecord ==
  [pc : {"off", "chpasswd", "verify", "store", "ips", "write", "list", "remove", "add"},
   r : Maybe(Request), copy : Row, ids : SUBSET (0..MaxRequests)]

\* The records that a new or a finished worker, an absent row and no request have.
LEMMA Records ==
  /\ NoRow \in Row /\ Idle \in WorkerRecord /\ Off \in RequestRecord
  /\ \A pc \in {"error", "begin", "complete"} : [Idle EXCEPT !.pc = pc] \in WorkerRecord
<1>1. NoRow \in Row
  BY Values DEF NoRow, Row, Maybe, None
<1>2. Idle \in WorkerRecord
  BY <1>1 DEF Idle, WorkerRecord, WorkerPc, Maybe
<1>3. Off \in RequestRecord
  BY <1>1 DEF Off, RequestRecord, Maybe
<1> QED BY <1>1, <1>2, <1>3 DEF Idle, WorkerRecord, WorkerPc

Status == {"pending", "provisioning", "running", "failed", "terminated"}

\* A row that one column or two are written to.
LEMMA RowWrites ==
  /\ \A r \in Row, q \in Status : [r EXCEPT !.status = q] \in Row
  /\ \A r \in Row, a \in Maybe(Attempt) :
       /\ [r EXCEPT !.token = a] \in Row
       /\ [r EXCEPT !.nsg = a] \in Row
       /\ [r EXCEPT !.ip = a] \in Row
       /\ Pinned(r, a) \in Row
  /\ \A r \in Row, a \in Maybe(Attempt), q \in Status :
       /\ [r EXCEPT !.nsg = a, !.status = q] \in Row
       /\ [r EXCEPT !.inst = a, !.status = q] \in Row
  /\ \A r \in Row, a, b \in Maybe(Attempt) :
       /\ [r EXCEPT !.creds = a, !.token = b] \in Row
       /\ [r EXCEPT !.pin = a, !.token = b] \in Row
  /\ \A r \in Row, n \in 0..Password(MaxRequests) : [r EXCEPT !.pass = n] \in Row
  /\ \A a, b \in Maybe(Attempt) : [NoRow EXCEPT !.ip = a, !.key = b] \in Row
  /\ \A a \in Maybe(Attempt) : [NoRow EXCEPT !.nsg = a] \in Row
<1>1. \A r \in Row, a \in Maybe(Attempt) : Pinned(r, a) \in Row
  BY DEF Row, Pinned
<1>2. /\ \A a, b \in Maybe(Attempt) : [NoRow EXCEPT !.ip = a, !.key = b] \in Row
      /\ \A a \in Maybe(Attempt) : [NoRow EXCEPT !.nsg = a] \in Row
  BY Records DEF Row
<1>3. /\ \A r \in Row, q \in Status : [r EXCEPT !.status = q] \in Row
      /\ \A r \in Row, a \in Maybe(Attempt) :
           /\ [r EXCEPT !.token = a] \in Row
           /\ [r EXCEPT !.nsg = a] \in Row
           /\ [r EXCEPT !.ip = a] \in Row
      /\ \A r \in Row, n \in 0..Password(MaxRequests) : [r EXCEPT !.pass = n] \in Row
  BY DEF Row, Status
<1>4. /\ \A r \in Row, a \in Maybe(Attempt), q \in Status :
           /\ [r EXCEPT !.nsg = a, !.status = q] \in Row
           /\ [r EXCEPT !.inst = a, !.status = q] \in Row
      /\ \A r \in Row, a, b \in Maybe(Attempt) :
           /\ [r EXCEPT !.creds = a, !.token = b] \in Row
           /\ [r EXCEPT !.pin = a, !.token = b] \in Row
  BY ZenonT(60) DEF Row, Status
<1> QED BY <1>1, <1>2, <1>3, <1>4

\* A record of the worker with other values.
LEMMA WorkerWrites ==
  /\ \A v \in WorkerRecord, pc \in WorkerPc : [v EXCEPT !.pc = pc] \in WorkerRecord
  /\ \A v \in WorkerRecord, pc \in WorkerPc, copy \in Row :
       [v EXCEPT !.pc = pc, !.copy = copy] \in WorkerRecord
  /\ \A v \in WorkerRecord, pc \in WorkerPc, copy \in Row, a \in Maybe(Attempt) :
       [v EXCEPT !.pc = pc, !.copy = copy, !.a = a] \in WorkerRecord
  /\ \A v \in WorkerRecord, pc \in WorkerPc, a \in Maybe(Attempt) :
       [v EXCEPT !.pc = pc, !.a = a] \in WorkerRecord
  /\ \A v \in WorkerRecord, pc \in WorkerPc, a \in Maybe(Attempt) :
       [v.copy EXCEPT !.nsg = a] \in Row => [v EXCEPT !.pc = pc, !.copy.nsg = a] \in WorkerRecord
BY DEF WorkerRecord

\* Start-up changes the status of a row in progress only.
LEMMA ReconciledStatus ==
  row \in Row => /\ Reconciled \in Status
                 /\ row.status \notin {"pending", "provisioning"} => Reconciled = row.status
BY DEF Reconciled, Status, Row

\* Update writes a row, whichever copy of it is written back.
LEMMA UpdateType ==
  ASSUME row \in Row, NEW copy \in Row, Update(copy)
  PROVE  row' \in Row
BY DEF Update, Row

\* A row that has just been created satisfies the invariant.
LEMMA InitIInv == Init => IInv
<1> SUFFICES ASSUME Init PROVE IInv
  OBVIOUS
<1> USE DEF Init
<1>1. TypeOK
  <2>1. w \in WorkerRecord /\ op \in [Clients -> RequestRecord] /\ row \in Row
    BY Records
  <2>2. /\ login \in [Attempt -> 0..Password(MaxRequests)]
        /\ job \in [state : {"pending", "running", "complete", "failed"},
                    attempts : 0..MaxAttempts]
        /\ made \in 0..MaxRequests /\ crashes \in 0..MaxCrashes
    BY Values, VpsAccessAssumption DEF None
  <2> QED BY <2>1, <2>2 DEF TypeOK, WorkerRecord, WorkerPc, RequestRecord
<1>2. WorkerShape /\ JobShape /\ CopiesAgree /\ CopyIsWorkers
  BY DEF WorkerShape, JobShape, CopiesAgree, CopyIsWorkers, Idle, Preparing, Working,
         Recorded, NoRow, Off
<1>3. GroupsFirst /\ InstancesFirst /\ RequestShape
  BY DEF GroupsFirst, InstancesFirst, Launched, Idle, RequestShape, Resetting, Changing, NoRow, Off
<1>4. TokenIsLatest /\ KeyIsPinned /\ OneHostKey
  BY DEF TokenIsLatest, KeyIsPinned, OneHostKey, HasKey, NoRow, Idle, Off
<1>5. RowIsWorkers /\ RowIsEntered /\ PasswordFollows /\ RulesFollow /\ CallIsGood
  BY DEF RowIsWorkers, RowIsEntered, PasswordFollows, RulesFollow, CallIsGood, Good, Finished,
         Idle, Preparing, Working, Launched
<1> QED BY <1>1, <1>2, <1>3, <1>4, <1>5 DEF IInv

JobRecord == [state : {"pending", "running", "complete", "failed"}, attempts : 0..MaxAttempts]

\* TypeOK, part by part.
CloudType ==
  /\ instances \in [Attempt -> {"none", "booting", "running", "dead"}]
  /\ login \in [Attempt -> 0..Password(MaxRequests)]
  /\ calling \subseteq Attempt
  /\ groups \in [Attempt -> {"none", "live", "gone"}]
  /\ rules \in [Attempt -> SUBSET (0..MaxRequests)]

CountsType ==
  /\ made \in 0..MaxRequests /\ crashes \in 0..MaxCrashes
  /\ asked \subseteq 0..MaxRequests
  /\ excuse \subseteq {"password", "rules", "row", "callback", "earlier"}

\* The type invariant, variable by variable.
LEMMA TypeParts ==
  TypeOK <=> /\ row \in Row /\ w \in WorkerRecord /\ op \in [Clients -> RequestRecord]
             /\ job \in JobRecord /\ CloudType /\ CountsType
BY DEF TypeOK, CloudType, CountsType, WorkerRecord, WorkerPc, RequestRecord, JobRecord

\* What a type gives of its parts.
LEMMA TypeOfParts ==
  TypeOK => /\ w.a \in Maybe(Attempt) /\ w.copy \in Row
            /\ row.inst \in Maybe(Attempt) /\ row.nsg \in Maybe(Attempt)
            /\ row.pin \in Maybe(Attempt) /\ row.token \in Maybe(Attempt)
            /\ row.creds \in Maybe(Attempt) /\ 0 \in Maybe(Attempt)
            /\ \A c \in Clients : /\ op[c].copy \in Row
                                  /\ op[c].r \in Maybe(Request)
                                  /\ op[c].ids \subseteq 0..MaxRequests
<1> SUFFICES ASSUME TypeOK PROVE /\ w.a \in Maybe(Attempt) /\ w.copy \in Row
            /\ row.inst \in Maybe(Attempt) /\ row.nsg \in Maybe(Attempt)
            /\ row.pin \in Maybe(Attempt) /\ row.token \in Maybe(Attempt)
            /\ row.creds \in Maybe(Attempt) /\ 0 \in Maybe(Attempt)
            /\ \A c \in Clients : /\ op[c].copy \in Row
                                  /\ op[c].r \in Maybe(Request)
                                  /\ op[c].ids \subseteq 0..MaxRequests
  OBVIOUS
<1>1. w.a \in Maybe(Attempt) /\ w.copy \in Row
  BY TypeParts DEF WorkerRecord
<1>2. /\ row.inst \in Maybe(Attempt) /\ row.nsg \in Maybe(Attempt)
      /\ row.pin \in Maybe(Attempt) /\ row.token \in Maybe(Attempt)
      /\ row.creds \in Maybe(Attempt)
  BY TypeParts DEF Row
<1>3. ASSUME NEW c \in Clients
      PROVE  /\ op[c].copy \in Row /\ op[c].r \in Maybe(Request)
             /\ op[c].ids \subseteq 0..MaxRequests
  <2>1. op[c] \in RequestRecord
    BY TypeParts
  <2> QED BY <2>1 DEF RequestRecord
<1>4. 0 \in Maybe(Attempt)
  BY DEF Maybe, None
<1> QED BY <1>1, <1>2, <1>3, <1>4

\* The worker's steps.
LEMMA WorkerType == TypeOK /\ WorkerShape /\ Worker => TypeOK'
<1> SUFFICES ASSUME TypeOK, WorkerShape, Worker
             PROVE  /\ row' \in Row /\ w' \in WorkerRecord /\ op' \in [Clients -> RequestRecord]
                    /\ job' \in JobRecord /\ CloudType' /\ CountsType'
  BY TypeParts DEF TypeOK, CloudType, CountsType, WorkerRecord, WorkerPc, RequestRecord,
                   JobRecord
<1>0. /\ row \in Row /\ w \in WorkerRecord /\ op \in [Clients -> RequestRecord]
      /\ job \in JobRecord /\ CloudType /\ CountsType
      /\ w.a \in Maybe(Attempt) /\ w.copy \in Row /\ 0 \in Maybe(Attempt)
      /\ row.inst \in Maybe(Attempt) /\ row.nsg \in Maybe(Attempt)
  BY TypeParts, TypeOfParts
<1>1. op' \in [Clients -> RequestRecord]
  BY <1>0 DEF Worker, Claim, Begin, MakeToken, CreateNSG, AddDefaultRules, Launch, SaveInstance,
     WaitRunning, CreateUser, Finish, Complete, Terminate, Clean, MarkFailed
<1>2. job' \in JobRecord
  BY <1>0, VpsAccessAssumption DEF Worker, Claim, Begin, MakeToken, CreateNSG,
     AddDefaultRules, Launch, SaveInstance, WaitRunning, CreateUser, Finish, Complete,
     Terminate, Clean, MarkFailed, JobRecord, cloud
<1>3. CountsType'
  <2>1. CASE AddDefaultRules
    BY <1>0, <2>1, Values DEF AddDefaultRules, Excused, CountsType, history
  <2>2. CASE MakeToken
    BY <1>0, <2>2, Values DEF MakeToken, Excused, CountsType
  <2>3. CASE ~AddDefaultRules /\ ~MakeToken
    <3>1. UNCHANGED <<made, crashes, asked, excuse>>
      BY <2>3 DEF Worker, Claim, Begin, CreateNSG, Launch, SaveInstance,
         WaitRunning, CreateUser, Finish, Complete, Terminate, Clean, MarkFailed, history
    <3> QED BY <1>0, <3>1 DEF CountsType
  <2> QED BY <2>1, <2>2, <2>3
<1>4. CloudType'
  <2>1. CASE CreateNSG \/ AddDefaultRules
    BY <1>0, <2>1, Values DEF CreateNSG, AddDefaultRules, CloudType
  <2>2. CASE Launch
    BY <1>0, <2>2 DEF Launch, CloudType, WorkerShape, Working
  <2>3. CASE CreateUser
    BY <1>0, <2>3, Values DEF CreateUser, CloudType, WorkerShape, Working
  <2>4. CASE Terminate
    BY <1>0, <2>4, Values DEF Terminate, CloudType, None
  <2>5. CASE Clean
    BY <1>0, <2>5 DEF Clean, CloudType
  <2>6. CASE UNCHANGED cloud
    BY <1>0, <2>6 DEF CloudType, cloud
  <2> QED
    BY <2>1, <2>2, <2>3, <2>4, <2>5, <2>6 DEF Worker, Claim, Begin, MakeToken,
       SaveInstance, WaitRunning, Finish, Complete, MarkFailed
<1>5. /\ \A i \in Maybe(Attempt), after \in {"error", "give_up", "serve"} :
           RollbackBegins(i, after) => w' \in WorkerRecord
      /\ Fails => w' \in WorkerRecord
      /\ \A pc \in WorkerPc : Goto(pc) => w' \in WorkerRecord
  <2>1. ASSUME NEW i \in Maybe(Attempt), NEW after \in {"error", "give_up", "serve"},
               RollbackBegins(i, after)
        PROVE  w' \in WorkerRecord
    BY <2>1, Records DEF RollbackBegins, WorkerPc, WorkerRecord
  <2>2. Fails => w' \in WorkerRecord
    BY Records DEF Fails
  <2>3. ASSUME NEW pc \in WorkerPc, Goto(pc) PROVE w' \in WorkerRecord
    BY <1>0, <2>3, WorkerWrites DEF Goto
  <2> QED BY <2>1, <2>2, <2>3
<1>6. \A q \in Status : [row EXCEPT !.status = q] \in Row
  BY <1>0, RowWrites
<1> USE DEF Status, WorkerPc
<1>7. CASE Begin
  <2>1. row' \in Row
    BY <1>6, <1>7 DEF Begin
  <2>2. w' \in WorkerRecord
    <3>1. CASE w' = [w EXCEPT !.pc = "token", !.copy = Copied,
                       !.a = Min({a \in Attempt : groups[a] = "none"})]
      <4>1. Copied \in Row
        BY <1>0, RowWrites DEF Copied, None
      <4>2. Min({a \in Attempt : groups[a] = "none"}) \in Maybe(Attempt)
        <5>1. {a \in Attempt : groups[a] = "none"} # {}
          BY <1>7 DEF Begin, WorkerShape
        <5>2. {a \in Attempt : groups[a] = "none"} \in SUBSET Nat
          BY Values
        <5> QED BY <5>1, <5>2, MinInSet DEF Maybe
      <4> HIDE DEF WorkerPc
      <4>3. "token" \in WorkerPc
        BY DEF WorkerPc
      <4> QED BY <1>0, <3>1, <4>1, <4>2, <4>3, WorkerWrites
    <3> QED BY <1>5, <1>7, <3>1 DEF Begin
  <2> QED BY <1>0, <1>1, <1>2, <1>3, <1>4, <2>1, <2>2
<1>8. CASE MakeToken
  BY <1>0, <1>1, <1>2, <1>3, <1>4, <1>5, <1>8, RowWrites
     DEF MakeToken, SetCredentialsCallbackToken
<1>9. CASE CreateNSG
  <2>1. [w.copy EXCEPT !.nsg = w.a] \in Row /\ [row EXCEPT !.nsg = w.a] \in Row
    BY <1>0, RowWrites
  <2>2. row' \in Row
    BY <1>6, <1>9, <2>1 DEF CreateNSG
  <2>3. [w EXCEPT !.pc = "rules", !.copy.nsg = w.a] \in WorkerRecord
    BY <1>0, <2>1, WorkerWrites
  <2>4. w' \in WorkerRecord
    BY <1>5, <1>9, <2>3 DEF CreateNSG
  <2> QED BY <1>0, <1>1, <1>2, <1>3, <1>4, <2>2, <2>4
<1>10. CASE AddDefaultRules
  <2>1. [row EXCEPT !.nsg = None, !.status = "failed"] \in Row
    BY <1>0, RowWrites DEF None
  <2>2. row' \in Row /\ w' \in WorkerRecord
    BY <1>0, <1>5, <1>10, <2>1 DEF AddDefaultRules
  <2> QED BY <1>0, <1>1, <1>2, <1>3, <1>4, <2>2
<1>11. CASE Launch \/ WaitRunning
  <2>1. w' \in WorkerRecord /\ row' = row
    BY <1>0, <1>5, <1>11 DEF Launch, WaitRunning, None
  <2> QED BY <1>0, <1>1, <1>2, <1>3, <1>4, <2>1
<1>12. CASE SaveInstance
  <2>1. [w.copy EXCEPT !.inst = w.a, !.status = "provisioning"] \in Row
    BY <1>0, RowWrites
  <2>2. row' \in Row
    BY <1>0, <1>12, <2>1, UpdateType DEF SaveInstance
  <2>3. w' \in WorkerRecord
    BY <1>0, <1>12, <2>1, WorkerWrites DEF SaveInstance
  <2> QED BY <1>0, <1>1, <1>2, <1>3, <1>4, <2>2, <2>3
<1>13. CASE CreateUser
  <2>1. Pinned(row, w.a) \in Row
    BY <1>0, RowWrites
  <2>2. row' \in Row
    BY <1>0, <1>13, <2>1 DEF CreateUser
  <2>3. [w EXCEPT !.pc = "finish"] \in WorkerRecord
    BY <1>0, WorkerWrites
  <2>4. w' \in WorkerRecord
    BY <1>0, <1>5, <1>13, <2>3 DEF CreateUser
  <2> QED BY <1>0, <1>1, <1>2, <1>3, <1>4, <2>2, <2>4
<1>14. CASE Finish
  <2>1. w.a \in Attempt
    BY <1>14 DEF Finish, WorkerShape, Working
  <2>2. Provisioned(w.copy) \in Row
    BY <1>0, <2>1, Values, ZenonT(60) DEF Provisioned, Row, Maybe
  <2>3. row' \in Row
    BY <1>0, <1>14, <2>2, UpdateType DEF Finish
  <2>4. w' \in WorkerRecord
    BY <1>5, <1>14, Records DEF Finish
  <2> QED BY <1>0, <1>1, <1>2, <1>3, <1>4, <2>3, <2>4
<1>15. CASE Claim \/ Complete \/ MarkFailed
  <2>1. w' \in WorkerRecord /\ row' = row
    BY <1>0, <1>5, <1>15, Records DEF Claim, Complete, MarkFailed
  <2> QED BY <1>0, <1>1, <1>2, <1>3, <1>4, <2>1
<1>16. CASE Terminate
  <2>1. row' \in Row
    BY <1>0, <1>6, <1>16 DEF Terminate
  <2>2. w' \in WorkerRecord
    BY <1>0, <1>16, WorkerWrites DEF Terminate, None
  <2> QED BY <1>0, <1>1, <1>2, <1>3, <1>4, <2>1, <2>2
<1>17. CASE Clean
  <2>1. [row EXCEPT !.nsg = None, !.status = "failed"] \in Row
    BY <1>0, RowWrites DEF None
  <2>2. row' \in Row
    BY <1>6, <1>17, <2>1 DEF Clean
  <2>3. w' \in WorkerRecord
    BY <1>5, <1>17, Records DEF Clean
  <2> QED BY <1>0, <1>1, <1>2, <1>3, <1>4, <2>2, <2>3
<1> QED BY <1>7, <1>8, <1>9, <1>10, <1>11, <1>12, <1>13, <1>14, <1>15, <1>16, <1>17 DEF Worker

\* The callback, the death of the process and the start of an instance.
LEMMA OtherType ==
  TypeOK /\ (Boot \/ Crash \/ \E a \in Attempt : Callback(a)) => TypeOK'
<1> SUFFICES ASSUME TypeOK, Boot \/ Crash \/ \E a \in Attempt : Callback(a)
             PROVE  /\ row' \in Row /\ w' \in WorkerRecord /\ op' \in [Clients -> RequestRecord]
                    /\ job' \in JobRecord /\ CloudType' /\ CountsType'
  BY TypeParts DEF TypeOK, CloudType, CountsType, WorkerRecord, WorkerPc, RequestRecord,
                   JobRecord
<1>0. /\ row \in Row /\ w \in WorkerRecord /\ op \in [Clients -> RequestRecord]
      /\ job \in JobRecord /\ CloudType /\ CountsType
      /\ row.inst \in Maybe(Attempt) /\ 0 \in Maybe(Attempt)
  BY TypeParts, TypeOfParts
<1>1. CASE Boot
  <2>1. CloudType'
    BY <1>0, <1>1 DEF Boot, CloudType
  <2> QED BY <1>0, <1>1, <2>1 DEF Boot, CountsType, history
<1>2. ASSUME NEW a \in Attempt, Callback(a)
      PROVE  /\ row' \in Row /\ w' \in WorkerRecord /\ op' \in [Clients -> RequestRecord]
             /\ job' \in JobRecord /\ CloudType' /\ CountsType'
  <2>1. a \in Maybe(Attempt) /\ None \in Maybe(Attempt)
    BY DEF Maybe
  <2>2. [row EXCEPT !.creds = a, !.token = None] \in Row
    BY <1>0, <2>1, RowWrites
  <2>3. row' \in Row
    BY <1>0, <1>2, <2>2 DEF Callback
  <2>4. CloudType'
    <3>1. calling' \subseteq Attempt
      BY <1>0, <1>2 DEF Callback, CloudType
    <3> QED BY <1>0, <1>2, <3>1 DEF Callback, CloudType
  <2>5. CountsType'
    BY <1>0, <1>2 DEF Callback, CountsType, Excused
  <2> QED BY <1>0, <1>2, <2>3, <2>4, <2>5 DEF Callback
<1>3. CASE Crash
  <2>1. op' \in [Clients -> RequestRecord] /\ CloudType'
    BY <1>0, <1>3, Records DEF Crash, cloud, CloudType
  <2>2. job' \in JobRecord
    BY <1>0, <1>3 DEF Crash, JobRecord
  <2>3. CountsType'
    BY <1>0, <1>3, VpsAccessAssumption DEF Crash, CountsType, Excused
  <2>4. row' \in Row
    <3>1. row.status \in Status
      BY <1>0 DEF Row, Status
    <3>2. \A q \in Status : [row EXCEPT !.status = q] \in Row
      BY <1>0, RowWrites
    <3> QED BY <1>0, <1>3, <3>1, <3>2, ReconciledStatus DEF Crash
  <2>5. w' \in WorkerRecord
    BY <1>0, <1>3, Records, ZenonT(60) DEF Crash, WorkerRecord, WorkerPc
  <2> QED BY <2>1, <2>2, <2>3, <2>4, <2>5
<1> QED BY <1>1, <1>2, <1>3

RequestPc == {"off", "chpasswd", "verify", "store", "ips", "write", "list", "remove", "add"}

\* A record of a request with other values.
LEMMA RequestWrites ==
  \A c \in Clients, pc \in RequestPc : op \in [Clients -> RequestRecord] =>
    /\ [op EXCEPT ![c].pc = pc] \in [Clients -> RequestRecord]
    /\ [op EXCEPT ![c] = Off] \in [Clients -> RequestRecord]
    /\ \A a \in Maybe(Attempt) :
         [op EXCEPT ![c].pc = pc, ![c].copy.ip = a] \in [Clients -> RequestRecord]
    /\ \A ids \in SUBSET (0..MaxRequests) :
         [op EXCEPT ![c].pc = pc, ![c].ids = ids] \in [Clients -> RequestRecord]
    /\ \A r \in Maybe(Request), copy \in Row :
         [op EXCEPT ![c] = [pc |-> pc, r |-> r, copy |-> copy, ids |-> {}]]
           \in [Clients -> RequestRecord]
<1> SUFFICES ASSUME NEW c \in Clients, NEW pc \in RequestPc, op \in [Clients -> RequestRecord]
    PROVE
    /\ [op EXCEPT ![c].pc = pc] \in [Clients -> RequestRecord]
    /\ [op EXCEPT ![c] = Off] \in [Clients -> RequestRecord]
    /\ \A a \in Maybe(Attempt) :
         [op EXCEPT ![c].pc = pc, ![c].copy.ip = a] \in [Clients -> RequestRecord]
    /\ \A ids \in SUBSET (0..MaxRequests) :
         [op EXCEPT ![c].pc = pc, ![c].ids = ids] \in [Clients -> RequestRecord]
    /\ \A r \in Maybe(Request), copy \in Row :
         [op EXCEPT ![c] = [pc |-> pc, r |-> r, copy |-> copy, ids |-> {}]]
           \in [Clients -> RequestRecord]
  OBVIOUS
<1> USE DEF RequestPc
<1>1. [op EXCEPT ![c].pc = pc] \in [Clients -> RequestRecord]
  BY DEF RequestRecord
<1>2. [op EXCEPT ![c] = Off] \in [Clients -> RequestRecord]
  BY Records
<1>3. ASSUME NEW a \in Maybe(Attempt)
      PROVE  [op EXCEPT ![c].pc = pc, ![c].copy.ip = a] \in [Clients -> RequestRecord]
  <2>1. op[c].copy \in Row
    BY DEF RequestRecord
  <2>2. [op[c].copy EXCEPT !.ip = a] \in Row
    BY <2>1, RowWrites
  <2>3. [op[c] EXCEPT !.pc = pc, !.copy.ip = a] \in RequestRecord
    BY <2>2 DEF RequestRecord
  <2> QED BY <2>3
<1>4. ASSUME NEW ids \in SUBSET (0..MaxRequests)
      PROVE  [op EXCEPT ![c].pc = pc, ![c].ids = ids] \in [Clients -> RequestRecord]
  BY DEF RequestRecord
<1>5. ASSUME NEW r \in Maybe(Request), NEW copy \in Row
      PROVE  [op EXCEPT ![c] = [pc |-> pc, r |-> r, copy |-> copy, ids |-> {}]]
               \in [Clients -> RequestRecord]
  BY DEF RequestRecord
<1> QED BY <1>1, <1>2, <1>3, <1>4, <1>5

\* The steps of a request.
LEMMA RequestType ==
  ASSUME NEW c \in Clients, TypeOK, RequestShape, RequestStep(c)
  PROVE  TypeOK'
<1> SUFFICES /\ row' \in Row /\ w' \in WorkerRecord /\ op' \in [Clients -> RequestRecord]
             /\ job' \in JobRecord /\ CloudType' /\ CountsType'
  BY TypeParts DEF TypeOK, CloudType, CountsType, WorkerRecord, WorkerPc, RequestRecord,
                   JobRecord
<1>0. /\ row \in Row /\ w \in WorkerRecord /\ op \in [Clients -> RequestRecord]
      /\ job \in JobRecord /\ CloudType /\ CountsType
      /\ op[c].copy \in Row /\ op[c].r \in Maybe(Request) /\ op[c].ids \subseteq 0..MaxRequests
  BY TypeParts, TypeOfParts
<1>1. w' \in WorkerRecord /\ job' \in JobRecord
  BY <1>0 DEF RequestStep, AskReset, Chpasswd, Verify, StorePassword, AskRefresh, ReadIPs,
     WriteIPs, AskFirewall, ListRules, RemoveRules, AddRules, Asks
<1>2. row' \in Row
  <2>1. CASE StorePassword(c)
    <3>1. Password(op[c].r) \in 0..Password(MaxRequests)
      BY <2>1, Values DEF StorePassword, RequestShape
    <3>2. [row EXCEPT !.pass = Password(op[c].r)] \in Row
      BY <1>0, <3>1, RowWrites
    <3> QED BY <1>0, <2>1, <3>2 DEF StorePassword, Stored
  <2>2. CASE WriteIPs(c)
    BY <1>0, <2>2, UpdateType DEF WriteIPs
  <2>3. CASE row' = row
    BY <1>0, <2>3
  <2> QED
    BY <2>1, <2>2, <2>3, SMTT(60) DEF RequestStep, AskReset, Chpasswd, Verify, AskRefresh, ReadIPs,
       AskFirewall, ListRules, RemoveRules, AddRules, Asks
<1>3. CloudType'
  <2>1. CASE Chpasswd(c)
    <3>1. Password(op[c].r) \in 0..Password(MaxRequests)
      BY <2>1, Values DEF Chpasswd, RequestShape
    <3>2. login' \in [Attempt -> 0..Password(MaxRequests)]
      BY <1>0, <2>1, <3>1 DEF Chpasswd, CloudType
    <3> QED BY <1>0, <2>1, <3>2 DEF Chpasswd, CloudType
  <2>2. CASE RemoveRules(c)
    BY <1>0, <2>2 DEF RemoveRules, CloudType, Removed
  <2>3. CASE AddRules(c)
    <3>1. op[c].r \in 0..MaxRequests
      BY <2>3, Values DEF AddRules, RequestShape
    <3>2. rules' \in [Attempt -> SUBSET (0..MaxRequests)]
      BY <1>0, <2>3, <3>1 DEF AddRules, CloudType
    <3> QED BY <1>0, <2>3, <3>2 DEF AddRules, CloudType
  <2>4. CASE UNCHANGED cloud
    BY <1>0, <2>4 DEF CloudType, cloud
  <2> QED
    BY <2>1, <2>2, <2>3, <2>4 DEF RequestStep, AskReset, Verify, AskRefresh, ReadIPs,
       AskFirewall, ListRules, Asks, StorePassword, WriteIPs
<1>4. CountsType'
  <2>1. made' \in 0..MaxRequests /\ crashes' \in 0..MaxCrashes
    BY <1>0, VpsAccessAssumption DEF CountsType, RequestStep, AskReset, Chpasswd, Verify,
       StorePassword, AskRefresh, ReadIPs, WriteIPs, AskFirewall, ListRules, RemoveRules,
       AddRules, Asks
  <2>2. asked' \subseteq 0..MaxRequests
    <3>1. op[c].pc # "off" => op[c].r \in 0..MaxRequests
      BY Values DEF RequestShape
    <3> QED
      BY <1>0, <3>1 DEF CountsType, RequestStep, AskReset, Chpasswd, Verify,
         StorePassword, AskRefresh, ReadIPs, WriteIPs, AskFirewall, ListRules, RemoveRules,
         AddRules, history
  <2>3. excuse' \subseteq {"password", "rules", "row", "callback", "earlier"}
    BY <1>0 DEF CountsType, RequestStep, AskReset, Chpasswd, Verify,
       StorePassword, AskRefresh, ReadIPs, WriteIPs, AskFirewall, ListRules, RemoveRules,
       AddRules, history, Excused
  <2> QED BY <2>1, <2>2, <2>3 DEF CountsType
<1>5. op' \in [Clients -> RequestRecord]
  <2>0. \A pc \in RequestPc :
          /\ [op EXCEPT ![c].pc = pc] \in [Clients -> RequestRecord]
          /\ [op EXCEPT ![c] = Off] \in [Clients -> RequestRecord]
          /\ \A ids \in SUBSET (0..MaxRequests) :
               [op EXCEPT ![c].pc = pc, ![c].ids = ids] \in [Clients -> RequestRecord]
    BY <1>0, RequestWrites
  <2>1. ASSUME NEW pc \in RequestPc, NEW copy \in Row, Asks(c, pc, copy)
        PROVE  op' \in [Clients -> RequestRecord]
    <3>1. made + 1 \in Maybe(Request)
      BY <1>0, <2>1, VpsAccessAssumption DEF Asks, CountsType, Request, Maybe
    <3> QED BY <1>0, <2>1, <3>1, RequestWrites DEF Asks
  <2> USE DEF RequestPc
  <2>2. CASE AskReset(c)
    <3>1. [NoRow EXCEPT !.ip = row.ip, !.key = row.key] \in Row
      <4>1. row.ip \in Maybe(Attempt) /\ row.key \in Maybe(Attempt)
        BY <1>0 DEF Row
      <4> QED BY <4>1, RowWrites
    <3> QED BY <2>1, <2>2, <3>1 DEF AskReset
  <2>3. CASE AskRefresh(c)
    <3>1. Copied \in Row
      BY <1>0, RowWrites DEF Copied, None, Maybe
    <3> QED BY <2>1, <2>3, <3>1 DEF AskRefresh
  <2>4. CASE AskFirewall(c)
    <3>1. [NoRow EXCEPT !.nsg = row.nsg] \in Row
      <4>1. row.nsg \in Maybe(Attempt)
        BY <1>0 DEF Row
      <4> QED BY <4>1, RowWrites
    <3> QED BY <2>1, <2>4, <3>1 DEF AskFirewall
  <2>5. CASE ReadIPs(c)
    <3>1. op[c].copy.inst \in Maybe(Attempt)
      BY <1>0 DEF Row
    <3>2. [op EXCEPT ![c].pc = "write", ![c].copy.ip = op[c].copy.inst]
            \in [Clients -> RequestRecord]
      BY <1>0, <3>1, RequestWrites
    <3> QED BY <2>0, <2>5, <3>2 DEF ReadIPs, Done
  <2>6. CASE Chpasswd(c) \/ Verify(c) \/ StorePassword(c) \/ WriteIPs(c) \/ AddRules(c)
    BY <2>0, <2>6, ZenonT(60) DEF Chpasswd, Verify, StorePassword, WriteIPs, AddRules, Done, OpGoto
  <2>7. CASE ListRules(c)
    <3>1. op[c].copy.nsg \in Maybe(Attempt) /\ op[c].copy.nsg # None
      BY <1>0, <2>7 DEF ListRules, RequestShape, Changing, Row
    <3>2. rules[op[c].copy.nsg] \in SUBSET (0..MaxRequests)
      BY <1>0, <3>1 DEF CloudType, Maybe
    <3>3. [op EXCEPT ![c].pc = "remove", ![c].ids = rules[op[c].copy.nsg]]
            \in [Clients -> RequestRecord]
      BY <2>0, <3>2
    <3> QED BY <2>0, <2>7, <3>3 DEF ListRules, Done
  <2>8. CASE RemoveRules(c)
    <3>1. [op EXCEPT ![c].pc = "add", ![c].ids = {}] \in [Clients -> RequestRecord]
      BY <2>0
    <3> QED BY <2>0, <2>8, <3>1 DEF RemoveRules, Done
  <2> QED BY <2>2, <2>3, <2>4, <2>5, <2>6, <2>7, <2>8 DEF RequestStep
<1> QED BY <1>0, <1>1, <1>2, <1>3, <1>4, <1>5

\* Every step keeps the types.
LEMMA TypeStep == IInv /\ [Next]_vars => TypeOK'
<1> SUFFICES ASSUME IInv, [Next]_vars PROVE TypeOK'
  OBVIOUS
<1>1. TypeOK /\ WorkerShape /\ RequestShape
  BY DEF IInv
<1>2. CASE UNCHANGED vars
  BY <1>1, <1>2 DEF vars, cloud, history, TypeOK
<1> QED BY <1>1, <1>2, WorkerType, OtherType, RequestType DEF Next

-----------------------------------------------------------------------------
(* What the steps leave alone.                                             *)

\* A request changes the row, the passwords, the rules and its own record.
LEMMA RequestFrame ==
  ASSUME NEW c \in Clients, TypeOK, RequestStep(c)
  PROVE  /\ UNCHANGED <<w, job, groups, instances, calling, crashes>>
         /\ excuse \subseteq excuse'
         /\ \A d \in Clients \ {c} : op'[d] = op[d]
         /\ row' = row \/ StorePassword(c) \/ WriteIPs(c)
<1>1. UNCHANGED <<w, job, groups, instances, calling, crashes>> /\ excuse \subseteq excuse'
  BY SMTT(60) DEF RequestStep, AskReset, Chpasswd, Verify, StorePassword, AskRefresh, ReadIPs,
     WriteIPs, AskFirewall, ListRules, RemoveRules, AddRules, Asks, cloud, history, Excused
<1>2. \A d \in Clients \ {c} : op'[d] = op[d]
  <2>1. AskReset(c) \/ AskRefresh(c) \/ AskFirewall(c) => \A d \in Clients \ {c} : op'[d] = op[d]
    BY TypeParts DEF AskReset, AskRefresh, AskFirewall, Asks
  <2>2. Chpasswd(c) \/ Verify(c) \/ StorePassword(c) \/ ReadIPs(c) \/ WriteIPs(c)
          => \A d \in Clients \ {c} : op'[d] = op[d]
    BY TypeParts DEF Chpasswd, Verify, StorePassword, ReadIPs, WriteIPs, Done, OpGoto
  <2>3. ListRules(c) \/ RemoveRules(c) \/ AddRules(c) => \A d \in Clients \ {c} : op'[d] = op[d]
    BY TypeParts DEF ListRules, RemoveRules, AddRules, Done, OpGoto
  <2> QED BY <2>1, <2>2, <2>3 DEF RequestStep
<1>3. row' = row \/ StorePassword(c) \/ WriteIPs(c)
  BY DEF RequestStep, AskReset, Chpasswd, Verify, AskRefresh, ReadIPs, AskFirewall,
     ListRules, RemoveRules, AddRules, Asks
<1> QED BY <1>1, <1>2, <1>3

\* The worker leaves the requests alone.
LEMMA WorkerFrame ==
  Worker => UNCHANGED <<op, made, crashes>> /\ excuse \subseteq excuse'
BY DEF Worker, Claim, Begin, MakeToken, CreateNSG, AddDefaultRules, Launch, SaveInstance,
   WaitRunning, CreateUser, Finish, Complete, Terminate, Clean, MarkFailed, cloud, history,
   Excused

\* Update leaves the host key and the token alone, and the credentials too if the
\* copy has no others.
LEMMA UpdateEffect ==
  ASSUME row \in Row, NEW copy \in Row, Update(copy), copy.creds \in {None, row.creds}
  PROVE  /\ row'.pin = row.pin /\ row'.token = row.token /\ row'.creds = row.creds
         /\ row'.status = copy.status /\ row'.inst = copy.inst /\ row'.ip = copy.ip
         /\ row'.nsg = copy.nsg /\ row'.key = copy.key /\ row'.pass = copy.pass
BY DEF Update, Row

\* The steps that are not the worker's and not the death of the process.
Others ==
  Boot \/ (\E a \in Attempt : Callback(a)) \/ (\E c \in Clients : RequestStep(c))
    \/ UNCHANGED vars

\* Where the worker goes from where, and with which attempt.
LEMMA Moves ==
  ASSUME TypeOK, WorkerShape, [Next]_vars
  PROVE  \/ Others /\ UNCHANGED w
         \/ Claim /\ w.pc = "idle" /\ w'.pc = "begin"
         \/ Begin /\ w.pc = "begin" /\ w'.pc \in {"token", "error"}
         \/ MakeToken /\ w.pc = "token" /\ w'.pc = "nsg" /\ w'.a = w.a
         \/ CreateNSG /\ w.pc = "nsg" /\ (w'.pc = "error" \/ (w'.pc = "rules" /\ w'.a = w.a))
         \/ AddDefaultRules /\ w.pc = "rules"
              /\ (w'.pc = "error" \/ (w'.pc = "launch" /\ w'.a = w.a))
         \/ Launch /\ w.pc = "launch" /\ (w'.pc = "clean" \/ (w'.pc = "save" /\ w'.a = w.a))
         \/ SaveInstance /\ w.pc = "save" /\ w'.pc = "wait" /\ w'.a = w.a
         \/ WaitRunning /\ w.pc = "wait" /\ w'.pc \in {"ssh", "terminate"} /\ w'.a = w.a
         \/ CreateUser /\ w.pc = "ssh" /\ w'.pc \in {"ssh", "finish", "terminate"} /\ w'.a = w.a
         \/ Finish /\ w.pc = "finish" /\ w'.pc \in {"complete", "error"}
         \/ Complete /\ w.pc = "complete" /\ w'.pc = "idle"
         \/ Terminate /\ w.pc = "terminate" /\ w'.pc = "clean"
         \/ Clean /\ w.pc = "clean" /\ w'.pc \in {"idle", "error"}
         \/ MarkFailed /\ w.pc = "error"
              /\ (w'.pc = "idle" \/ (w'.pc = "terminate" /\ w'.a = row.inst /\ row.inst # None))
         \/ Crash /\ (w'.pc = "idle" \/ (w'.pc = "terminate" /\ w'.a = row.inst /\ row.inst # None))
<1>0. w \in WorkerRecord /\ TypeOK /\ (w.pc \in Working => w.a \in Attempt)
  BY TypeParts DEF WorkerShape
<1>1. /\ Fails => w'.pc = "error"
      /\ \A pc : Goto(pc) => w'.pc = pc /\ w'.a = w.a
      /\ \A after : RollbackBegins(None, after) => w'.pc = "clean"
      /\ \A i, after : RollbackBegins(i, after) /\ i # None => w'.pc = "terminate" /\ w'.a = i
      /\ Idle.pc = "idle" /\ \A pc : [Idle EXCEPT !.pc = pc].pc = pc
  BY <1>0 DEF Fails, Goto, RollbackBegins, Idle, WorkerRecord
<1>2. \A a \in Attempt : a # None
  BY Values DEF None
<1>3. CASE Claim
  BY <1>1, <1>3 DEF Claim
<1>4. CASE Begin
  BY <1>0, <1>1, <1>4, ZenonT(60) DEF Begin, WorkerRecord
<1>5. CASE MakeToken
  BY <1>1, <1>5 DEF MakeToken
<1>6. CASE CreateNSG
  BY <1>0, <1>1, <1>6, ZenonT(60) DEF CreateNSG, WorkerRecord
<1>7. CASE AddDefaultRules
  BY <1>1, <1>7 DEF AddDefaultRules
<1>8. CASE Launch
  BY <1>1, <1>8 DEF Launch
<1>9. CASE SaveInstance
  BY <1>0, <1>9 DEF SaveInstance, WorkerRecord
<1>10. CASE WaitRunning
  BY <1>0, <1>1, <1>2, <1>10 DEF WaitRunning, Working
<1>11. CASE CreateUser
  <2>1. w.a # None /\ w.pc = "ssh"
    BY <1>0, <1>2, <1>11 DEF CreateUser, Working
  <2>2. w' = w \/ w' = [w EXCEPT !.pc = "finish"] \/ RollbackBegins(w.a, "error")
    BY <1>11 DEF CreateUser
  <2>3. CASE w' = [w EXCEPT !.pc = "finish"]
    BY <1>0, <1>11, <2>1, <2>3 DEF WorkerRecord
  <2> QED BY <1>1, <1>11, <2>1, <2>2, <2>3
<1>12. CASE Finish
  BY <1>1, <1>12 DEF Finish
<1>13. CASE Complete
  BY <1>1, <1>13 DEF Complete
<1>14. CASE Terminate
  BY <1>0, <1>14 DEF Terminate, WorkerRecord
<1>15. CASE Clean
  BY <1>1, <1>15 DEF Clean
<1>16. CASE MarkFailed
  BY <1>1, <1>16 DEF MarkFailed
<1>17. CASE Crash
  BY <1>1, <1>17, ZenonT(60) DEF Crash, Idle
<1>18. CASE Others
  BY <1>0, <1>18, RequestFrame DEF Others, Boot, Callback, vars
<1>19. Worker \/ Crash \/ Others
  BY DEF Next, Others
<1> QED
  BY <1>3, <1>4, <1>5, <1>6, <1>7, <1>8, <1>9, <1>10, <1>11, <1>12, <1>13, <1>14, <1>15,
     <1>16, <1>17, <1>18, <1>19 DEF Worker

\* The copies of the requests come from the row.
LEMMA CopySources ==
  ASSUME TypeOK, [Next]_vars, NEW c \in Clients
  PROVE  /\ op'[c].copy.nsg \in {None, row.nsg, op[c].copy.nsg}
         /\ op'[c].copy.inst \in {None, row.inst, op[c].copy.inst}
         /\ op'[c].copy.key \in {None, row.key, op[c].copy.key}
         /\ op'[c].copy.creds \in {None, row.creds, op[c].copy.creds}
<1> DEFINE From(q, copy) == /\ q.nsg \in {None, row.nsg, copy.nsg}
                            /\ q.inst \in {None, row.inst, copy.inst}
                            /\ q.key \in {None, row.key, copy.key}
                            /\ q.creds \in {None, row.creds, copy.creds}
<1>0. op \in [Clients -> RequestRecord] /\ row \in Row /\ op[c].copy \in Row
  BY TypeParts, TypeOfParts
<1>1. From(op[c].copy, op[c].copy) /\ From(NoRow, op[c].copy) /\ From(Copied, op[c].copy)
  BY <1>0 DEF NoRow, Copied, Row
<1>2. ASSUME NEW pc \in RequestPc, NEW copy \in Row, From(copy, op[c].copy), Asks(c, pc, copy)
      PROVE  From(op'[c].copy, op[c].copy)
  <2>1. op'[c].copy = copy
    BY <1>0, <1>2 DEF Asks
  <2> HIDE DEF From
  <2> QED BY <1>2, <2>1
<1>3. CASE AskReset(c)
  <2>1. [NoRow EXCEPT !.ip = row.ip, !.key = row.key] \in Row
    <3>1. row.ip \in Maybe(Attempt) /\ row.key \in Maybe(Attempt)
      BY <1>0 DEF Row
    <3> QED BY <3>1, RowWrites
  <2>2. From([NoRow EXCEPT !.ip = row.ip, !.key = row.key], op[c].copy)
    BY DEF NoRow
  <2> HIDE DEF From
  <2>3. From(op'[c].copy, op[c].copy)
    BY <1>2, <1>3, <2>1, <2>2 DEF AskReset, RequestPc
  <2> QED BY <2>3 DEF From
<1>4. CASE AskRefresh(c)
  <2>1. Copied \in Row
    BY <1>0, RowWrites DEF Copied, None, Maybe
  <2> HIDE DEF From
  <2>2. From(op'[c].copy, op[c].copy)
    BY <1>1, <1>2, <1>4, <2>1 DEF AskRefresh, RequestPc
  <2> QED BY <2>2 DEF From
<1>5. CASE AskFirewall(c)
  <2>1. [NoRow EXCEPT !.nsg = row.nsg] \in Row
    <3>1. row.nsg \in Maybe(Attempt)
      BY <1>0 DEF Row
    <3> QED BY <3>1, RowWrites
  <2>2. From([NoRow EXCEPT !.nsg = row.nsg], op[c].copy)
    BY DEF NoRow
  <2> HIDE DEF From
  <2>3. From(op'[c].copy, op[c].copy)
    BY <1>2, <1>5, <2>1, <2>2 DEF AskFirewall, RequestPc
  <2> QED BY <2>3 DEF From
<1>6. CASE ReadIPs(c)
  <2>1. CASE Done(c)
    <3>1. op'[c].copy = NoRow
      BY <1>0, <2>1 DEF Done, Off
    <3> QED BY <1>1, <3>1
  <2>2. CASE op' = [op EXCEPT ![c].pc = "write", ![c].copy.ip = op[c].copy.inst]
    <3>1. op'[c].copy = [op[c].copy EXCEPT !.ip = op[c].copy.inst]
      BY <1>0, <2>2 DEF RequestRecord
    <3> QED BY <1>0, <3>1 DEF Row
  <2> QED BY <1>6, <2>1, <2>2 DEF ReadIPs
<1>7. CASE Chpasswd(c) \/ Verify(c) \/ StorePassword(c) \/ WriteIPs(c) \/ AddRules(c)
  <2>1. op'[c].copy \in {NoRow, op[c].copy}
    BY <1>0, <1>7 DEF Chpasswd, Verify, StorePassword, WriteIPs, AddRules, Done, OpGoto, Off,
       RequestRecord
  <2> QED BY <1>1, <2>1
<1>8. CASE ListRules(c) \/ RemoveRules(c)
  <2>1. op'[c].copy \in {NoRow, op[c].copy}
    BY <1>0, <1>8 DEF ListRules, RemoveRules, Done, Off, RequestRecord
  <2> QED BY <1>1, <2>1
<1>9. CASE Crash
  <2>1. op'[c].copy = NoRow
    BY <1>9 DEF Crash, Off
  <2> QED BY <1>1, <2>1
<1>10. CASE op'[c] = op[c]
  BY <1>1, <1>10
<1>11. ASSUME NEW d \in Clients \ {c}, RequestStep(d)
       PROVE  op'[c] = op[c]
  BY <1>11, RequestFrame
<1>12. Worker \/ Boot \/ (\E a \in Attempt : Callback(a)) \/ UNCHANGED vars => op'[c] = op[c]
  BY WorkerFrame DEF Boot, Callback, vars
<1> HIDE DEF From
<1> QED
  BY <1>3, <1>4, <1>5, <1>6, <1>7, <1>8, <1>9, <1>10, <1>11, <1>12, ZenonT(60) DEF Next, RequestStep

\* The instance, group and key that the row names come from where they did, or
\* from the worker.
LEMMA RowSources ==
  ASSUME TypeOK, WorkerShape, CopyIsWorkers, [Next]_vars
  PROVE  /\ row'.nsg \in {None, row.nsg} \cup {op[c].copy.nsg : c \in Clients}
             \/ (row'.nsg = w.a /\ w.pc \in Working \cup {"nsg"} /\ groups'[w.a] # "none")
         /\ \/ row'.inst = row.inst
            \/ \E c \in Clients : op[c].pc = "write" /\ row'.inst = op[c].copy.inst
            \/ row'.inst = w.a /\ w.pc \in Launched
         /\ row'.pin = row.pin \/ (row'.pin = w.a /\ w.pc = "ssh" /\ row.pin = None)
         /\ row'.key \in {row.key, w.copy.key} \cup {op[c].copy.key : c \in Clients}
             \/ (row'.key = w.a /\ w.pc = "finish" /\ w'.pc = "complete")
<1> USE DEF Working, Launched
<1>0. /\ row \in Row /\ w.copy \in Row /\ w.a \in Maybe(Attempt) /\ CloudType
      /\ \A c \in Clients : op[c].copy \in Row
  BY TypeParts, TypeOfParts
<1>1. CASE UNCHANGED row
  BY <1>0, <1>1
<1>2. ASSUME NEW a \in Attempt, Callback(a), row' = [row EXCEPT !.creds = a, !.token = None]
      PROVE  row'.nsg = row.nsg /\ row'.inst = row.inst /\ row'.pin = row.pin /\ row'.key = row.key
  BY <1>0, <1>2 DEF Row
<1>3. CASE \E q \in Status : row' = [row EXCEPT !.status = q]
  BY <1>0, <1>3 DEF Row
<1>4. CASE MakeToken
  BY <1>0, <1>4 DEF MakeToken, SetCredentialsCallbackToken, Row
<1>5. CASE CreateNSG /\ row' = [row EXCEPT !.nsg = w.a] /\ groups' = [groups EXCEPT ![w.a] = "live"]
  BY <1>0, <1>5 DEF CreateNSG, Row, CloudType, WorkerShape, Preparing
<1>6. CASE row' = [row EXCEPT !.nsg = None, !.status = "failed"]
  BY <1>0, <1>6 DEF Row
<1>7. CASE SaveInstance
  BY <1>0, <1>7 DEF SaveInstance, Update, Row, CopyIsWorkers, WorkerShape, cloud
<1>8. CASE CreateUser /\ row' = Pinned(row, w.a) /\ HostKeyAccepted(w.a)
  BY <1>0, <1>8 DEF CreateUser, Pinned, HostKeyAccepted, Row
<1>9. CASE Finish /\ Update(Provisioned(w.copy)) /\ w'.pc = "complete"
  BY <1>0, <1>9 DEF Finish, Update, Provisioned, Row, CopyIsWorkers, WorkerShape, Recorded, cloud
<1>10. ASSUME NEW c \in Clients, StorePassword(c), row' = Stored(op[c].r)
       PROVE  row'.nsg = row.nsg /\ row'.inst = row.inst /\ row'.pin = row.pin /\ row'.key = row.key
  BY <1>0, <1>10 DEF Stored, Row
<1>11. ASSUME NEW c \in Clients, WriteIPs(c), Update(op[c].copy)
       PROVE  /\ row'.nsg = op[c].copy.nsg /\ row'.inst = op[c].copy.inst
              /\ row'.pin = row.pin /\ row'.key = op[c].copy.key /\ op[c].pc = "write"
  BY <1>0, <1>11 DEF Update, Row, WriteIPs
<1>12. CASE Worker
  <2>1. \/ UNCHANGED row \/ MakeToken \/ SaveInstance
        \/ \E q \in Status : row' = [row EXCEPT !.status = q]
        \/ CreateNSG /\ row' = [row EXCEPT !.nsg = w.a] /\ groups' = [groups EXCEPT ![w.a] = "live"]
        \/ row' = [row EXCEPT !.nsg = None, !.status = "failed"]
        \/ CreateUser /\ row' = Pinned(row, w.a) /\ HostKeyAccepted(w.a)
        \/ Finish /\ Update(Provisioned(w.copy)) /\ w'.pc = "complete"
    BY <1>12 DEF Worker, Claim, Begin, CreateNSG, AddDefaultRules, Launch, WaitRunning,
       CreateUser, Finish, Complete, Terminate, Clean, MarkFailed, Status, Answers, Idle
  <2> QED BY <1>1, <1>3, <1>4, <1>5, <1>6, <1>7, <1>8, <1>9, <2>1
<1>13. CASE Crash
  <2>2. UNCHANGED row \/ \E q \in Status : row' = [row EXCEPT !.status = q]
    BY <1>0, <1>13, ReconciledStatus DEF Crash
  <2> QED BY <1>1, <1>3, <2>2
<1>14. ASSUME NEW a \in Attempt, Callback(a)
       PROVE  UNCHANGED row \/ row' = [row EXCEPT !.creds = a, !.token = None]
  BY <1>14 DEF Callback
<1>15. ASSUME NEW c \in Clients, RequestStep(c)
       PROVE  \/ UNCHANGED row
              \/ StorePassword(c) /\ row' = Stored(op[c].r)
              \/ WriteIPs(c) /\ Update(op[c].copy)
  <2>1. row' = row \/ StorePassword(c) \/ WriteIPs(c)
    BY <1>15, RequestFrame
  <2> QED BY <2>1 DEF StorePassword, WriteIPs
<1>16. Boot \/ UNCHANGED vars => UNCHANGED row
  BY DEF Boot, vars
<1>17. CASE \E a \in Attempt : Callback(a)
  BY <1>1, <1>2, <1>14, <1>17
<1>18. CASE \E c \in Clients : RequestStep(c)
  BY <1>1, <1>10, <1>11, <1>15, <1>18
<1> QED BY <1>1, <1>12, <1>13, <1>16, <1>17, <1>18 DEF Next

-----------------------------------------------------------------------------
(* The worker and its attempt.                                             *)

\* Every step leaves the worker at a step of its attempt, and the job with its owner.
LEMMA WorkerShapeStep == IInv /\ [Next]_vars => WorkerShape' /\ JobShape'
<1> SUFFICES ASSUME IInv, [Next]_vars PROVE WorkerShape' /\ JobShape'
  OBVIOUS
<1>0. /\ TypeOK /\ WorkerShape /\ JobShape /\ GroupsFirst
      /\ row \in Row /\ w \in WorkerRecord /\ job \in JobRecord
      /\ groups \in [Attempt -> {"none", "live", "gone"}]
      /\ row.inst \in Maybe(Attempt) /\ row.nsg \in Maybe(Attempt)
  BY TypeParts, TypeOfParts DEF IInv, CloudType
<1> USE DEF WorkerShape, JobShape, Preparing, Working
<1>1. CASE UNCHANGED <<w, job, groups>>
  BY <1>0, <1>1
<1>2. CASE Crash
  <2>1. UNCHANGED groups
    BY <1>2 DEF Crash, cloud
  <2>2. CASE w' = Idle
    BY <1>0, <1>2, <2>1, <2>2 DEF Crash, Idle
  <2>3. CASE w' = [Idle EXCEPT !.pc = "terminate", !.a = row.inst, !.after = "serve"] /\ row.inst # None
    <3>1. w'.pc = "terminate" /\ w'.a \in Attempt /\ w'.after = "serve" /\ w'.a = row.inst
      BY <1>0, <2>3 DEF Idle, Maybe
    <3> QED BY <1>0, <2>1, <2>3, <3>1 DEF GroupsFirst
  <2> QED BY <1>2, <2>2, <2>3 DEF Crash
<1>3. CASE Claim
  BY <1>0, <1>3 DEF Claim, Idle, cloud
<1>4. CASE Begin
  <2>1. CASE w' = [w EXCEPT !.pc = "token", !.copy = Copied,
                       !.a = Min({a \in Attempt : groups[a] = "none"})]
    <3> DEFINE S == {a \in Attempt : groups[a] = "none"}
    <3>1. S # {} /\ S \in SUBSET Nat
      BY <1>0, <1>4, Values DEF Begin
    <3>2. Min(S) \in S /\ \A y \in S : Min(S) <= y
      BY <3>1, MinInSet
    <3>3. w'.a = Min(S) /\ w'.pc = "token" /\ w'.after = w.after
      BY <1>0, <2>1 DEF WorkerRecord
    <3>4. w'.a \in Attempt /\ groups[w'.a] = "none"
      BY <3>2, <3>3
    <3>5. \A b \in Attempt : b < w'.a => groups[b] # "none"
      <4>1. ASSUME NEW b \in Attempt, b < w'.a PROVE groups[b] # "none"
        <5>1. b \in S => Min(S) <= b
          BY <3>2
        <5>2. b \in Nat /\ Min(S) \in Nat
          BY <3>1, <3>2, Values
        <5> HIDE DEF S
        <5>3. b \notin S
          BY <3>3, <4>1, <5>1, <5>2
        <5> QED BY <5>3 DEF S
      <4> QED BY <4>1
    <3> HIDE DEF S
    <3> QED BY <1>0, <1>4, <3>3, <3>4, <3>5 DEF Begin, cloud
  <2>2. CASE Fails
    BY <1>0, <1>4, <2>2 DEF Begin, Fails, Idle, cloud
  <2> QED BY <1>4, <2>1, <2>2 DEF Begin
<1>5. CASE MakeToken
  BY <1>0, <1>5 DEF MakeToken, cloud, Goto, WorkerRecord
<1>6. CASE CreateNSG
  <2>1. w.a \in Attempt /\ \A b \in Attempt : b > w.a => groups[b] = "none"
    BY <1>0, <1>6, Values DEF CreateNSG, GroupsFirst
  <2>2. CASE Fails
    BY <1>0, <1>6, <2>2 DEF CreateNSG, Fails, Idle
  <2>3. CASE w' = [w EXCEPT !.pc = "rules", !.copy.nsg = w.a] /\ groups' = [groups EXCEPT ![w.a] = "live"]
    <3>1. w'.a = w.a /\ w'.pc = "rules" /\ w'.after = w.after
      BY <1>0, <2>3 DEF WorkerRecord
    <3>2. groups'[w.a] = "live" /\ \A b \in Attempt : b > w.a => groups'[b] = "none"
      BY <1>0, <2>1, <2>3, Values
    <3> QED BY <1>0, <1>6, <2>1, <3>1, <3>2 DEF CreateNSG
  <2> QED BY <1>6, <2>2, <2>3 DEF CreateNSG
<1>7. CASE AddDefaultRules
  <2>1. UNCHANGED job
    BY <1>7 DEF AddDefaultRules
  <2>2. CASE Goto("launch") /\ UNCHANGED groups
    <3>1. w'.a = w.a /\ w'.pc = "launch" /\ w'.after = w.after
      BY <1>0, <2>2 DEF Goto, WorkerRecord
    <3> QED BY <1>0, <1>7, <2>1, <2>2, <3>1 DEF AddDefaultRules
  <2>3. CASE Fails
    BY <1>0, <1>7, <2>1, <2>3 DEF AddDefaultRules, Fails, Idle
  <2> QED BY <1>7, <2>2, <2>3 DEF AddDefaultRules
<1>8. CASE Launch \/ WaitRunning
  <2>1. UNCHANGED <<job, groups>>
    BY <1>8 DEF Launch, WaitRunning, cloud
  <2>2. CASE Goto("save") \/ Goto("ssh")
    BY <1>0, <1>8, <2>1, <2>2 DEF Launch, WaitRunning, Goto, WorkerRecord
  <2>3. CASE \/ RollbackBegins(None, "error")
             \/ RollbackBegins(w.a, "error") /\ w.a \in Attempt /\ groups[w.a] # "none"
    <3>1. /\ w'.pc \in {"clean", "terminate"} /\ w'.after = "error"
          /\ w'.pc = "terminate" => w'.a \in Attempt /\ groups[w'.a] # "none"
      BY <2>3 DEF RollbackBegins, Idle
    <3> QED BY <1>0, <1>8, <2>1, <3>1 DEF Launch, WaitRunning
  <2> QED BY <1>0, <1>8, <2>2, <2>3 DEF Launch, WaitRunning
<1>9. CASE SaveInstance \/ Finish
  <2>1. UNCHANGED <<job, groups>>
    BY <1>9 DEF SaveInstance, Finish, cloud
  <2>2. CASE SaveInstance
    <3>1. w'.a = w.a /\ w'.pc = "wait" /\ w'.after = w.after
      BY <1>0, <2>2 DEF SaveInstance, WorkerRecord
    <3> QED BY <1>0, <2>1, <2>2, <3>1 DEF SaveInstance
  <2>3. CASE Finish
    BY <1>0, <2>1, <2>3 DEF Finish, Fails, Idle
  <2> QED BY <1>9, <2>2, <2>3
<1>10. CASE CreateUser
  <2>1. UNCHANGED <<job, groups>> /\ w.pc = "ssh"
    BY <1>10 DEF CreateUser
  <2>2. CASE w' \in {w, [w EXCEPT !.pc = "finish"]}
    <3>1. w'.a = w.a /\ w'.pc \in {"ssh", "finish"} /\ w'.after = w.after
      BY <1>0, <2>1, <2>2 DEF WorkerRecord
    <3> QED BY <1>0, <2>1, <3>1
  <2>3. CASE RollbackBegins(w.a, "error")
    <3>1. w.a \in Attempt /\ groups[w.a] # "none"
      BY <1>0, <2>1
    <3>2. /\ w'.pc \in {"clean", "terminate"} /\ w'.after = "error"
          /\ w'.pc = "terminate" => w'.a = w.a
      BY <2>3 DEF RollbackBegins, Idle
    <3> QED BY <1>0, <2>1, <3>1, <3>2
  <2> QED BY <1>10, <2>2, <2>3 DEF CreateUser
<1>11. CASE Complete
  BY <1>0, <1>11 DEF Complete, Idle, cloud
<1>12. CASE Terminate
  BY <1>0, <1>12 DEF Terminate, Idle, WorkerRecord
<1>13. CASE Clean
  BY <1>0, <1>13 DEF Clean, Fails, Idle
<1>14. CASE MarkFailed
  <2>1. UNCHANGED groups
    BY <1>14 DEF MarkFailed, cloud
  <2>2. CASE w' = Idle
    BY <2>2 DEF Idle
  <2>3. CASE RollbackBegins(row.inst, "give_up") /\ row.inst # None /\ UNCHANGED job
    <3>1. w'.pc = "terminate" /\ w'.a \in Attempt /\ w'.after = "give_up" /\ w'.a = row.inst
      BY <1>0, <2>3 DEF RollbackBegins, Idle, Maybe
    <3> QED BY <1>0, <1>14, <2>1, <2>3, <3>1 DEF MarkFailed, GroupsFirst
  <2> QED BY <1>14, <2>2, <2>3 DEF MarkFailed
<1>15. Boot \/ (\E a \in Attempt : Callback(a)) \/ (\E c \in Clients : RequestStep(c))
         => UNCHANGED <<w, job, groups>>
  BY <1>0, RequestFrame DEF Boot, Callback
<1> QED
  BY <1>1, <1>2, <1>3, <1>4, <1>5, <1>6, <1>7, <1>8, <1>9, <1>10, <1>11, <1>12, <1>13,
     <1>14, <1>15 DEF Next, Worker, vars, cloud

\* No step makes anything of an attempt before its group.
LEMMA GroupsStep == IInv /\ [Next]_vars => GroupsFirst'
<1> SUFFICES ASSUME IInv, [Next]_vars PROVE GroupsFirst'
  OBVIOUS
<1>0. /\ TypeOK /\ WorkerShape /\ GroupsFirst /\ CopyIsWorkers /\ CopiesAgree
      /\ row \in Row /\ w \in WorkerRecord /\ op \in [Clients -> RequestRecord]
      /\ CloudType
      /\ row.inst \in Maybe(Attempt) /\ row.nsg \in Maybe(Attempt) /\ w.copy \in Row
      /\ \A c \in Clients : op[c].copy \in Row
  BY TypeParts, TypeOfParts DEF IInv
\* No step takes a group that was made back to 'none'.
<1>1. \A a \in Attempt : groups[a] # "none" => groups'[a] # "none"
  <2>1. CASE CreateNSG \/ AddDefaultRules \/ Clean
    BY <1>0, <2>1 DEF CreateNSG, AddDefaultRules, Clean, CloudType
  <2>2. UNCHANGED groups \/ CreateNSG \/ AddDefaultRules \/ Clean
    BY <1>0, RequestFrame DEF Next, Worker, Claim, Begin, MakeToken, Launch, SaveInstance,
       WaitRunning, CreateUser, Finish, Complete, Terminate, MarkFailed, Crash, Boot, Callback,
       vars, cloud
  <2> QED BY <2>1, <2>2
<1>2. \A a, b \in Attempt : a < b /\ groups'[b] # "none" => groups'[a] # "none"
  <2>1. CASE CreateNSG
    <3>1. w.a \in Attempt /\ \A b \in Attempt : b < w.a => groups[b] # "none"
      BY <1>0, <2>1 DEF CreateNSG, WorkerShape, Preparing
    <3>2. \A b \in Attempt : groups'[b] # "none" => groups[b] # "none" \/ b = w.a
      BY <1>0, <2>1 DEF CreateNSG, CloudType
    <3> QED BY <1>0, <1>1, <3>1, <3>2 DEF GroupsFirst
  <2>2. CASE AddDefaultRules
    BY <1>0, <1>1, <2>2 DEF AddDefaultRules, CloudType, GroupsFirst, WorkerShape, Working
  <2>3. CASE Clean
    <3>1. \A b \in Attempt : groups'[b] # "none" => groups[b] # "none" \/ b = row.nsg
      BY <1>0, <2>3 DEF Clean, CloudType
    <3>2. row.nsg # None => groups[row.nsg] # "none"
      BY <1>0 DEF GroupsFirst
    <3>3. row.nsg \in Attempt => row.nsg # None
      BY Values DEF None
    <3> QED BY <1>0, <1>1, <3>1, <3>2, <3>3 DEF GroupsFirst
  <2>4. UNCHANGED groups \/ CreateNSG \/ AddDefaultRules \/ Clean
    BY <1>0, RequestFrame DEF Next, Worker, Claim, Begin, MakeToken, Launch, SaveInstance,
       WaitRunning, CreateUser, Finish, Complete, Terminate, MarkFailed, Crash, Boot, Callback,
       vars, cloud
  <2>5. CASE UNCHANGED groups
    BY <1>0, <2>5 DEF GroupsFirst
  <2> QED BY <2>1, <2>2, <2>3, <2>4, <2>5
<1>3. \A a \in Attempt : instances'[a] # "none" => groups'[a] # "none"
  <2>1. \A a \in Attempt : instances'[a] # "none" => instances[a] # "none" \/ groups[a] # "none"
    <3>1. CASE Launch
      BY <1>0, <3>1 DEF Launch, CloudType, WorkerShape, Working
    <3>2. CASE Terminate
      BY <1>0, <3>2 DEF Terminate, CloudType, WorkerShape, GroupsFirst
    <3>3. CASE Boot
      BY <1>0, <3>3 DEF Boot, CloudType
    <3>4. UNCHANGED instances \/ Launch \/ Terminate \/ Boot
      BY <1>0, RequestFrame DEF Next, Worker, Claim, Begin, MakeToken, CreateNSG,
         AddDefaultRules, SaveInstance, WaitRunning, CreateUser, Finish, Complete, Clean,
         MarkFailed, Crash, Callback, vars, cloud
    <3> QED BY <3>1, <3>2, <3>3, <3>4
  <2> QED BY <1>0, <1>1, <2>1 DEF GroupsFirst
<1>4. \A n \in Maybe(Attempt) : n # None /\ groups[n] # "none" => groups'[n] # "none"
  BY <1>1 DEF Maybe
<1>5. ASSUME NEW c \in Clients, NEW n \in {op'[c].copy.nsg, op'[c].copy.inst}, n # None
      PROVE  groups'[n] # "none"
  <2>1. n \in {row.nsg, row.inst, op[c].copy.nsg, op[c].copy.inst}
    BY <1>0, <1>5, CopySources
  <2>2. n \in Maybe(Attempt)
    BY <1>0, <2>1 DEF Row
  <2> QED BY <1>0, <1>4, <1>5, <2>1, <2>2 DEF GroupsFirst
<1>6. w.pc \in Working => w.a \in Attempt /\ groups'[w.a] # "none"
  BY <1>0, <1>1 DEF WorkerShape
<1>7. ASSUME NEW n \in {row'.nsg, row'.inst, row'.pin}, n # None
      PROVE  groups'[n] # "none"
  <2>1. \/ n \in {row.nsg, row.inst, row.pin}
        \/ \E c \in Clients : n \in {op[c].copy.nsg, op[c].copy.inst}
        \/ n = w.a /\ groups'[w.a] # "none"
    BY <1>0, <1>6, <1>7, RowSources DEF Working, Launched
  <2>2. CASE n \in {row.nsg, row.inst, row.pin}
    BY <1>0, <1>4, <1>7, <2>2 DEF GroupsFirst, Row
  <2>3. CASE \E c \in Clients : n \in {op[c].copy.nsg, op[c].copy.inst}
    BY <1>0, <1>4, <1>7, <2>3 DEF GroupsFirst, Row
  <2> QED BY <2>1, <2>2, <2>3
<1> QED BY <1>2, <1>3, <1>5, <1>7 DEF GroupsFirst

-----------------------------------------------------------------------------
(* The requests, and the copies of the row.                                *)

\* Every step leaves a request with the copy that its kind works on.
LEMMA RequestShapeStep == IInv /\ [Next]_vars => RequestShape'
<1> SUFFICES ASSUME IInv, [Next]_vars, NEW c \in Clients
    PROVE  /\ op'[c].pc # "off" => op'[c].r \in Request
           /\ op'[c].pc \in {"ips", "write"} => op'[c].copy.inst # None
           /\ op'[c].pc = "write" => op'[c].copy.ip = op'[c].copy.inst
           /\ op'[c].pc \in {"chpasswd", "verify", "store"} => op'[c].copy.key # None
           /\ op'[c].pc \in {"list", "remove", "add"} => op'[c].copy.nsg # None
  BY DEF RequestShape, Resetting, Changing
<1>0. /\ op \in [Clients -> RequestRecord] /\ row \in Row /\ op[c].copy \in Row
      /\ made \in 0..MaxRequests /\ TypeOK
      /\ op[c].pc # "off" => op[c].r \in Request
      /\ op[c].pc \in {"ips", "write"} => op[c].copy.inst # None
      /\ op[c].pc = "write" => op[c].copy.ip = op[c].copy.inst
      /\ op[c].pc \in {"chpasswd", "verify", "store"} => op[c].copy.key # None
      /\ op[c].pc \in {"list", "remove", "add"} => op[c].copy.nsg # None
  BY TypeParts, TypeOfParts DEF IInv, RequestShape, Resetting, Changing, CountsType
<1>1. CASE op'[c] = op[c]
  BY <1>0, <1>1
<1>2. CASE op'[c] = Off
  BY <1>2 DEF Off
<1>3. CASE \E pc \in RequestPc, copy \in Row :
             /\ Asks(c, pc, copy)
             /\ \/ pc = "chpasswd" /\ copy.key # None
                \/ pc = "ips" /\ copy.inst # None
                \/ pc = "list" /\ copy.nsg # None
  <2>1. PICK pc \in RequestPc, copy \in Row :
             /\ Asks(c, pc, copy)
             /\ \/ pc = "chpasswd" /\ copy.key # None
                \/ pc = "ips" /\ copy.inst # None
                \/ pc = "list" /\ copy.nsg # None
    BY <1>3
  <2>2. op'[c] = [pc |-> pc, r |-> made + 1, copy |-> copy, ids |-> {}]
    BY <1>0, <2>1 DEF Asks
  <2>3. made + 1 \in Request
    BY <1>0, <2>1, VpsAccessAssumption DEF Asks, Request
  <2> QED BY <2>1, <2>2, <2>3
<1>4. CASE AskReset(c) \/ AskRefresh(c) \/ AskFirewall(c)
  <2>1. AskReset(c) => Asks(c, "chpasswd", [NoRow EXCEPT !.ip = row.ip, !.key = row.key]) /\ row.key # None
    BY DEF AskReset, Resettable
  <2>2. AskRefresh(c) => Asks(c, "ips", Copied) /\ Copied.inst # None
    BY <1>0 DEF AskRefresh, Copied, Row
  <2>3. AskFirewall(c) => Asks(c, "list", [NoRow EXCEPT !.nsg = row.nsg]) /\ row.nsg # None
    BY DEF AskFirewall
  <2>4. /\ row.ip \in Maybe(Attempt) /\ row.key \in Maybe(Attempt) /\ row.nsg \in Maybe(Attempt)
        /\ None \in Maybe(Attempt)
    BY <1>0 DEF Row, Maybe
  <2>5. /\ [NoRow EXCEPT !.ip = row.ip, !.key = row.key] \in Row
        /\ [NoRow EXCEPT !.nsg = row.nsg] \in Row /\ Copied \in Row
    BY <1>0, <2>4, RowWrites DEF Copied
  <2>6. /\ [NoRow EXCEPT !.ip = row.ip, !.key = row.key].key = row.key
        /\ [NoRow EXCEPT !.nsg = row.nsg].nsg = row.nsg
    BY DEF NoRow
  <2>7. {"chpasswd", "ips", "list"} \subseteq RequestPc
    BY DEF RequestPc
  <2> QED BY <1>3, <1>4, <2>1, <2>2, <2>3, <2>5, <2>6, <2>7
<1>5. CASE ReadIPs(c)
  <2>1. CASE op' = [op EXCEPT ![c].pc = "write", ![c].copy.ip = op[c].copy.inst]
    <3>1. /\ op'[c].pc = "write" /\ op'[c].r = op[c].r
          /\ op'[c].copy = [op[c].copy EXCEPT !.ip = op[c].copy.inst]
      BY <1>0, <2>1 DEF RequestRecord
    <3> QED BY <1>0, <1>5, <3>1 DEF ReadIPs, Row
  <2>2. CASE Done(c)
    BY <1>0, <1>2, <2>2 DEF Done
  <2> QED BY <1>5, <2>1, <2>2 DEF ReadIPs
<1>6. CASE Chpasswd(c) \/ Verify(c) \/ StorePassword(c) \/ WriteIPs(c) \/ AddRules(c)
  BY <1>0, <1>6 DEF Chpasswd, Verify, StorePassword, WriteIPs, AddRules, Done, OpGoto, Off,
     RequestRecord
<1>7. CASE ListRules(c) \/ RemoveRules(c)
  BY <1>0, <1>7 DEF ListRules, RemoveRules, Done, Off, RequestRecord
<1>8. CASE Crash
  BY <1>2, <1>8 DEF Crash
<1>9. ASSUME NEW d \in Clients \ {c}, RequestStep(d)
      PROVE  op'[c] = op[c]
  BY <1>0, <1>9, RequestFrame
<1>10. Worker \/ Boot \/ (\E a \in Attempt : Callback(a)) \/ UNCHANGED vars => op'[c] = op[c]
  BY WorkerFrame DEF Boot, Callback, vars
<1> QED BY <1>1, <1>4, <1>5, <1>6, <1>7, <1>8, <1>9, <1>10 DEF Next, RequestStep

\* Only the callback of the instance that has the token changes the credentials,
\* and only the worker makes a token.
LEMMA CredentialsEffect ==
  ASSUME IInv, [Next]_vars
  PROVE  /\ \/ row'.creds = row.creds /\ row'.token = row.token
            \/ row'.creds = row.creds /\ row'.token = w.a /\ MakeToken
            \/ \E a \in Attempt : /\ Callback(a) /\ row.creds = None /\ row.token = a
                                  /\ row'.creds = a /\ row'.token = None
<1>0. /\ row \in Row /\ w.copy \in Row /\ w.a \in Maybe(Attempt) /\ CopiesAgree
      /\ \A c \in Clients : op[c].copy \in Row
  BY TypeParts, TypeOfParts DEF IInv
<1>1. CASE UNCHANGED row
  BY <1>1
<1>2. ASSUME NEW a \in Attempt, Callback(a)
      PROVE  UNCHANGED row \/ (Consumable(a) /\ row' = [row EXCEPT !.creds = a, !.token = None])
  BY <1>2 DEF Callback
<1>3. CASE \E a \in Attempt : Callback(a)
  BY <1>0, <1>1, <1>2, <1>3 DEF Row, Consumable
<1>4. CASE \E q \in Status : row' = [row EXCEPT !.status = q]
  BY <1>0, <1>4 DEF Row
<1>5. CASE MakeToken
  BY <1>0, <1>5 DEF MakeToken, SetCredentialsCallbackToken, Row
<1>6. CASE row' = [row EXCEPT !.nsg = w.a] \/ row' = [row EXCEPT !.nsg = None, !.status = "failed"]
  BY <1>0, <1>6 DEF Row
<1>7. CASE SaveInstance
  BY <1>0, <1>7 DEF SaveInstance, Update, Row, CopiesAgree
<1>8. CASE row' = Pinned(row, w.a)
  BY <1>0, <1>8 DEF Pinned, Row
<1>9. CASE Update(Provisioned(w.copy))
  BY <1>0, <1>9 DEF Update, Provisioned, Row, CopiesAgree
<1>10. ASSUME NEW c \in Clients, row' = Stored(op[c].r)
       PROVE  row'.creds = row.creds /\ row'.token = row.token
  BY <1>0, <1>10 DEF Stored, Row
<1>11. ASSUME NEW c \in Clients, Update(op[c].copy)
       PROVE  row'.creds = row.creds /\ row'.token = row.token
  BY <1>0, <1>11 DEF Update, Row, CopiesAgree
<1>12. CASE Worker
  <2>1. \/ UNCHANGED row \/ MakeToken \/ SaveInstance
        \/ \E q \in Status : row' = [row EXCEPT !.status = q]
        \/ row' = [row EXCEPT !.nsg = w.a]
        \/ row' = [row EXCEPT !.nsg = None, !.status = "failed"]
        \/ row' = Pinned(row, w.a)
        \/ Update(Provisioned(w.copy))
    BY <1>12 DEF Worker, Claim, Begin, CreateNSG, AddDefaultRules, Launch, WaitRunning,
       CreateUser, Finish, Complete, Terminate, Clean, MarkFailed, Status
  <2> QED BY <1>1, <1>4, <1>5, <1>6, <1>7, <1>8, <1>9, <2>1
<1>13. CASE Crash
  <2>2. UNCHANGED row \/ \E q \in Status : row' = [row EXCEPT !.status = q]
    BY <1>0, <1>13, ReconciledStatus DEF Crash
  <2> QED BY <1>1, <1>4, <2>2
<1>14. CASE \E c \in Clients : RequestStep(c)
  <2>1. PICK c \in Clients : RequestStep(c)
    BY <1>14
  <2>2. row' = row \/ StorePassword(c) \/ WriteIPs(c)
    BY <2>1, RequestFrame DEF IInv
  <2> QED BY <1>1, <1>10, <1>11, <2>2 DEF StorePassword, WriteIPs
<1>15. Boot \/ UNCHANGED vars => UNCHANGED row
  BY DEF Boot, vars
<1> QED BY <1>1, <1>3, <1>12, <1>13, <1>14, <1>15 DEF Next

\* So does the copy of the worker, but for what it has made itself.
LEMMA WorkerCopy ==
  ASSUME TypeOK, [Next]_vars
  PROVE  /\ w'.copy.key \in {None, row.key, w.copy.key}
         /\ w'.copy.creds \in {None, row.creds, w.copy.creds}
<1> DEFINE From(q) == /\ q.key \in {None, row.key, w.copy.key}
                      /\ q.creds \in {None, row.creds, w.copy.creds}
<1>0. w \in WorkerRecord /\ row \in Row /\ w.copy \in Row
  BY TypeParts, TypeOfParts
<1>1. /\ From(NoRow) /\ From(w.copy) /\ From(Copied) /\ From([w.copy EXCEPT !.nsg = w.a])
      /\ From([w.copy EXCEPT !.inst = w.a, !.status = "provisioning"])
  BY <1>0 DEF NoRow, Copied, Row
<1>2. Fails => w'.copy = NoRow
  BY DEF Fails, Idle
<1>3. \A i, after : RollbackBegins(i, after) => w'.copy = NoRow
  BY DEF RollbackBegins, Idle
<1>4. \A pc : Goto(pc) => w'.copy = w.copy
  BY <1>0 DEF Goto, WorkerRecord
<1>5. CASE Begin
  <2>1. w'.copy \in {NoRow, Copied}
    BY <1>0, <1>2, <1>5 DEF Begin, WorkerRecord
  <2> QED BY <1>1, <2>1
<1>6. CASE CreateNSG
  <2>1. w'.copy \in {NoRow, [w.copy EXCEPT !.nsg = w.a]}
    BY <1>0, <1>2, <1>6 DEF CreateNSG, WorkerRecord
  <2> QED BY <1>1, <2>1
<1>7. CASE SaveInstance
  <2>1. w'.copy = [w.copy EXCEPT !.inst = w.a, !.status = "provisioning"]
    BY <1>0, <1>7 DEF SaveInstance, WorkerRecord
  <2> QED BY <1>1, <2>1
<1>8. CASE MakeToken \/ AddDefaultRules \/ Launch \/ WaitRunning \/ CreateUser \/ Terminate
  <2>1. w'.copy \in {NoRow, w.copy}
    BY <1>0, <1>2, <1>3, <1>4, <1>8 DEF MakeToken, AddDefaultRules, Launch, WaitRunning,
       CreateUser, Terminate, WorkerRecord
  <2> QED BY <1>1, <2>1
<1>9. CASE Claim \/ Finish \/ Complete \/ Clean \/ MarkFailed \/ Crash
  <2>1. Idle.copy = NoRow /\ \A pc : [Idle EXCEPT !.pc = pc].copy = NoRow
    BY DEF Idle
  <2>2. \A i : [Idle EXCEPT !.pc = "terminate", !.a = i, !.after = "serve"].copy = NoRow
    BY DEF Idle
  <2>3. Claim \/ Finish \/ Complete \/ Crash => w'.copy = NoRow
    BY <1>2, <2>1, <2>2, ZenonT(60) DEF Claim, Finish, Complete, Crash
  <2>4. Clean \/ MarkFailed => w'.copy = NoRow
    BY <1>2, <1>3, <2>1 DEF Clean, MarkFailed
  <2>5. w'.copy = NoRow
    BY <1>9, <2>3, <2>4
  <2> QED BY <1>1, <2>5
<1>10. Boot \/ (\E a \in Attempt : Callback(a)) \/ (\E c \in Clients : RequestStep(c))
         \/ UNCHANGED vars => UNCHANGED w
  BY RequestFrame DEF Boot, Callback, vars
<1>11. CASE UNCHANGED w
  BY <1>1, <1>11
<1> QED BY <1>5, <1>6, <1>7, <1>8, <1>9, <1>10, <1>11 DEF Next, Worker

\* No step leaves a copy with other credentials than the row has.
LEMMA CopiesStep == IInv /\ [Next]_vars => CopiesAgree'
<1> SUFFICES ASSUME IInv, [Next]_vars PROVE CopiesAgree'
  OBVIOUS
<1>0. TypeOK /\ CopiesAgree /\ row \in Row /\ w \in WorkerRecord /\ w.copy \in Row
  BY TypeParts, TypeOfParts DEF IInv
<1>1. row'.creds = row.creds \/ row.creds = None
  BY CredentialsEffect
<1>2. \A c \in Clients : op'[c].copy.creds \in {None, row.creds}
  BY <1>0, CopySources DEF CopiesAgree
<1>3. w'.copy.creds \in {None, row.creds}
  BY <1>0, WorkerCopy DEF CopiesAgree
<1> QED BY <1>1, <1>2, <1>3 DEF CopiesAgree

-----------------------------------------------------------------------------
(* The token.                                                              *)

\* An instance is launched by the worker, and stays.
LEMMA InstancesEffect ==
  ASSUME TypeOK, WorkerShape, InstancesFirst, [Next]_vars
  PROVE  /\ \A b \in Attempt : instances[b] # "none" => instances'[b] # "none"
         /\ \A b \in Attempt : instances'[b] # "none" =>
              instances[b] # "none" \/ (Launch /\ b = w.a)
<1>0. /\ TypeOK /\ WorkerShape /\ InstancesFirst /\ CloudType
  BY TypeParts
<1>1. CASE Launch
  BY <1>0, <1>1 DEF Launch, CloudType
<1>2. CASE Terminate
  BY <1>0, <1>2 DEF Terminate, CloudType, InstancesFirst
<1>3. CASE Boot
  BY <1>0, <1>3 DEF Boot, CloudType
<1>4. UNCHANGED instances \/ Launch \/ Terminate \/ Boot
  BY <1>0, RequestFrame DEF Next, Worker, Claim, Begin, MakeToken, CreateNSG,
     AddDefaultRules, SaveInstance, WaitRunning, CreateUser, Finish, Complete, Clean,
     MarkFailed, Crash, Callback, vars, cloud
<1> QED BY <1>1, <1>2, <1>3, <1>4

\* No step names an instance that was not launched.
LEMMA InstancesStep == IInv /\ [Next]_vars => InstancesFirst'
<1> SUFFICES ASSUME IInv, [Next]_vars PROVE InstancesFirst'
  OBVIOUS
<1>0. /\ TypeOK /\ WorkerShape /\ CopyIsWorkers /\ InstancesFirst /\ w \in WorkerRecord
      /\ row.inst \in Maybe(Attempt) /\ row \in Row /\ CloudType
      /\ \A c \in Clients : op[c].copy.inst \in Maybe(Attempt)
  <2>1. TypeOK /\ \A c \in Clients : op[c].copy \in Row
    BY TypeOfParts DEF IInv
  <2>2. \A c \in Clients : op[c].copy.inst \in Maybe(Attempt)
    BY <2>1 DEF Row
  <2> QED BY <2>1, <2>2, TypeParts, TypeOfParts DEF IInv
<1>1. \A n \in Maybe(Attempt) : n # None /\ instances[n] # "none" => instances'[n] # "none"
  BY <1>0, InstancesEffect DEF Maybe
<1>2. ASSUME NEW c \in Clients, op'[c].copy.inst # None
      PROVE  instances'[op'[c].copy.inst] # "none"
  BY <1>0, <1>1, <1>2, CopySources DEF InstancesFirst
<1>3. ASSUME row'.inst # None
      PROVE  instances'[row'.inst] # "none"
  <2>1. CASE row'.inst \in {row.inst} \cup {op[c].copy.inst : c \in Clients}
    BY <1>0, <1>1, <1>3, <2>1 DEF InstancesFirst
  <2>2. CASE row'.inst = w.a /\ w.pc \in Launched
    BY <1>0, <2>2, InstancesEffect DEF InstancesFirst, WorkerShape, Working, Launched
  <2> QED BY <1>0, <2>1, <2>2, RowSources
<1>4. ASSUME w'.pc \in Launched \cup {"terminate"}
      PROVE  instances'[w'.a] # "none"
  <2>1. \/ w'.a = w.a /\ w.pc \in Launched \cup {"terminate"}
        \/ Launch /\ w'.pc = "save" /\ w'.a = w.a
        \/ w'.a = row.inst /\ row.inst # None
    BY <1>0, <1>4, Moves DEF Launched
  <2>2. CASE w'.a = w.a /\ w.pc \in Launched \cup {"terminate"}
    BY <1>0, <2>2, InstancesEffect DEF InstancesFirst, WorkerShape, Working, Launched
  <2>3. CASE Launch /\ w'.pc = "save" /\ w'.a = w.a
    <3>1. instances' = [instances EXCEPT ![w.a] = "booting"]
      BY <2>3 DEF Launch, RollbackBegins, Idle
    <3> QED BY <1>0, <2>3, <3>1 DEF Launch, WorkerShape, Working, CloudType
  <2>4. CASE w'.a = row.inst /\ row.inst # None
    BY <1>0, <1>1, <2>4 DEF InstancesFirst
  <2> QED BY <2>1, <2>2, <2>3, <2>4
<1> QED BY <1>2, <1>3, <1>4 DEF InstancesFirst

\* Every step keeps the token that of the latest attempt.
LEMMA TokenStep == IInv /\ [Next]_vars => TokenIsLatest'
<1> SUFFICES ASSUME IInv, [Next]_vars PROVE TokenIsLatest'
  OBVIOUS
<1>0. /\ TypeOK /\ WorkerShape /\ GroupsFirst /\ InstancesFirst /\ TokenIsLatest /\ row \in Row
      /\ w \in WorkerRecord /\ CloudType /\ row.token \in Maybe(Attempt)
  BY TypeParts, TypeOfParts DEF IInv
<1>1. \A b \in Attempt : instances'[b] # "none" => instances[b] # "none" \/ (Launch /\ b = w.a)
  BY <1>0, InstancesEffect
<1>2. \/ row'.token = row.token /\ row'.creds = row.creds
      \/ row'.token = w.a /\ MakeToken
      \/ row'.token = None /\ row'.creds # None
  <2>1. ASSUME NEW a \in Attempt, row'.creds = a PROVE row'.creds # None
    BY <2>1, Values DEF None
  <2> QED BY <2>1, CredentialsEffect
<1>3. ASSUME row'.token # None, NEW b \in Attempt, b > row'.token
      PROVE  instances'[b] = "none"
  <2>1. CASE row'.token = row.token
    <3>1. instances[b] = "none"
      BY <1>0, <1>3, <2>1 DEF TokenIsLatest
    <3>2. CASE Launch /\ b = w.a
      BY <1>0, <1>3, <2>1, <3>2, Values DEF Launch, TokenIsLatest, WorkerShape, Working
    <3> QED BY <1>1, <3>1, <3>2
  <2>2. CASE row'.token = w.a /\ MakeToken
    <3>1. w.a \in Attempt /\ groups[w.a] = "none" /\ UNCHANGED instances
      BY <1>0, <2>2 DEF MakeToken, WorkerShape, Preparing, cloud
    <3>2. groups[b] = "none"
      BY <1>0, <1>3, <2>2, <3>1, Values DEF GroupsFirst
    <3> QED BY <1>0, <3>1, <3>2 DEF GroupsFirst
  <2> QED BY <1>2, <1>3, <2>1, <2>2
<1>4. ASSUME w'.pc \in {"nsg", "rules", "launch"}
      PROVE  row'.token = w'.a \/ (row'.token = None /\ row'.creds # None)
  <2>1. \/ UNCHANGED w
        \/ MakeToken /\ w'.a = w.a /\ row'.token = w.a
        \/ (CreateNSG \/ AddDefaultRules) /\ w'.a = w.a /\ w.pc \in {"nsg", "rules"}
    <3>1. MakeToken => row'.token = w.a
      BY <1>0 DEF MakeToken, SetCredentialsCallbackToken, Row
    <3> QED BY <1>0, <1>4, <3>1, Moves
  <2>2. w.pc \in {"nsg", "rules"} => ~MakeToken
    BY DEF MakeToken
  <2> QED BY <1>0, <1>2, <1>4, <2>1, <2>2 DEF TokenIsLatest, MakeToken
<1> QED BY <1>3, <1>4 DEF TokenIsLatest

-----------------------------------------------------------------------------
(* The host key.                                                           *)

\* Where a password is set, and where it stays.
LEMMA LoginEffect ==
  ASSUME IInv, [Next]_vars, NEW a \in Attempt, login'[a] # None
  PROVE  \/ login'[a] = login[a]
         \/ CreateUser /\ a = w.a /\ row' = Pinned(row, a) /\ HostKeyAccepted(a)
         \/ \E c \in Resetting : Chpasswd(c) /\ HostKeyAccepted(a)
<1>0. TypeOK /\ CloudType /\ WorkerShape
  BY TypeParts DEF IInv
<1>1. CASE CreateUser
  <2>1. w.a \in Attempt
    BY <1>0, <1>1 DEF CreateUser, WorkerShape, Working
  <2> QED BY <1>0, <1>1, <2>1 DEF CreateUser, CloudType, Answers
<1>2. CASE Terminate
  BY <1>0, <1>2 DEF Terminate, CloudType
<1>3. ASSUME NEW c \in Clients, Chpasswd(c)
      PROVE  login'[a] = login[a] \/ (c \in Resetting /\ HostKeyAccepted(a))
  BY <1>0, <1>3 DEF Chpasswd, CloudType, Answers, Resetting
<1>4. ASSUME NEW c \in Clients, RequestStep(c), ~Chpasswd(c)
      PROVE  UNCHANGED login
  BY <1>4, SMTT(60) DEF RequestStep, AskReset, Verify, StorePassword, AskRefresh, ReadIPs, WriteIPs,
     AskFirewall, ListRules, RemoveRules, AddRules, Asks, cloud
<1>5. CASE \E c \in Clients : RequestStep(c)
  BY <1>3, <1>4, <1>5
<1>6. UNCHANGED login \/ CreateUser \/ Terminate \/ \E c \in Clients : RequestStep(c)
  BY DEF Next, Worker, Claim, Begin, MakeToken, CreateNSG, AddDefaultRules, Launch,
     SaveInstance, WaitRunning, Finish, Complete, Clean, MarkFailed, Crash, Boot, Callback,
     vars, cloud
<1> QED BY <1>1, <1>2, <1>5, <1>6

\* No step but the last of the worker makes the first key.
LEMMA KeyEffect ==
  ASSUME IInv, [Next]_vars, HasKey'
  PROVE  HasKey \/ (w.pc = "finish" /\ w'.pc = "complete")
<1>0. TypeOK /\ WorkerShape /\ CopyIsWorkers
  BY DEF IInv
<1>1. CASE row'.key # None
  BY <1>0, <1>1, RowSources DEF HasKey
<1>2. CASE w'.copy.key # None
  BY <1>0, <1>2, WorkerCopy DEF HasKey
<1>3. CASE \E c \in Clients : op'[c].copy.key # None
  BY <1>0, <1>3, CopySources DEF HasKey
<1> QED BY <1>1, <1>2, <1>3 DEF HasKey

\* Every step keeps the host key pinned, and the passwords on the host that has it.
LEMMA KeyStep == IInv /\ [Next]_vars => KeyIsPinned' /\ OneHostKey'
<1> SUFFICES ASSUME IInv, [Next]_vars PROVE KeyIsPinned' /\ OneHostKey'
  OBVIOUS
<1>0. /\ TypeOK /\ WorkerShape /\ GroupsFirst /\ CopyIsWorkers /\ RequestShape /\ KeyIsPinned
      /\ OneHostKey /\ row \in Row /\ w \in WorkerRecord /\ CloudType
      /\ row.pin \in Maybe(Attempt)
  BY TypeParts, TypeOfParts DEF IInv
<1>1. row'.pin = row.pin \/ (row'.pin = w.a /\ w.pc = "ssh" /\ row.pin = None)
  BY <1>0, RowSources
<1>2. Resetting # {} => HasKey
  BY <1>0 DEF RequestShape, HasKey, Resetting
<1>3. \A a \in Attempt : a # None
  BY Values DEF None
<1>4. Pinned(row, w.a).pin = IF row.pin = None THEN w.a ELSE row.pin
  BY <1>0 DEF Pinned, Row
<1>5. ASSUME NEW a \in Attempt, login'[a] # None
      PROVE  row'.pin = a
  <2>1. CASE login'[a] = login[a]
    BY <1>0, <1>1, <1>3, <1>5, <2>1 DEF OneHostKey
  <2>2. CASE CreateUser /\ a = w.a /\ row' = Pinned(row, a) /\ HostKeyAccepted(a)
    BY <1>4, <2>2 DEF HostKeyAccepted
  <2>3. CASE \E c \in Resetting : Chpasswd(c) /\ HostKeyAccepted(a)
    <3>1. HasKey /\ row.pin # None /\ HostKeyAccepted(a)
      BY <1>0, <1>2, <2>3 DEF KeyIsPinned
    <3> QED BY <1>1, <3>1 DEF HostKeyAccepted
  <2> QED BY <1>5, <2>1, <2>2, <2>3, LoginEffect
<1>6. ASSUME w'.pc = "finish"
      PROVE  row'.pin = w'.a /\ login'[w'.a] = w'.a /\ ~HasKey'
  <2>1. CASE UNCHANGED w
    <3>1. row.pin = w.a /\ login[w.a] = w.a /\ w.a \in Attempt /\ ~HasKey
      BY <1>0, <1>6, <2>1 DEF KeyIsPinned, WorkerShape, Working
    <3>2. login' = login
      <4>1. ASSUME NEW c \in Clients PROVE ~(Chpasswd(c) /\ login' # login)
        BY <1>2, <3>1 DEF Chpasswd, Resetting
      <4>2. ~CreateUser /\ ~Terminate
        BY <1>6, <2>1 DEF CreateUser, Terminate
      <4> QED
        BY <4>1, <4>2, ZenonT(60) DEF Next, Worker, Claim, Begin, MakeToken, CreateNSG, AddDefaultRules,
           Launch, SaveInstance, WaitRunning, Finish, Complete, Clean, MarkFailed, Crash, Boot,
           Callback, vars, cloud, RequestStep, AskReset, Verify, StorePassword, AskRefresh,
           ReadIPs, WriteIPs, AskFirewall, ListRules, RemoveRules, AddRules, Asks
    <3>3. row'.pin = row.pin /\ ~HasKey'
      BY <1>1, <1>6, <2>1, <3>1, KeyEffect
    <3> QED BY <2>1, <3>1, <3>2, <3>3
  <2>2. CASE CreateUser /\ w.pc = "ssh" /\ w'.pc = "finish" /\ w'.a = w.a
    <3>1. /\ HostKeyAccepted(w.a) /\ row' = Pinned(row, w.a)
          /\ login' = [login EXCEPT ![w.a] = w.a]
      BY <1>0, <2>2 DEF CreateUser, RollbackBegins, Idle, Answers
    <3>2. w.a \in Attempt /\ w.pc \in Working
      BY <1>0, <2>2 DEF WorkerShape, Working
    <3>3. row'.pin = w.a /\ login'[w.a] = w.a
      BY <1>0, <1>4, <3>1, <3>2 DEF HostKeyAccepted, CloudType
    <3>4. ~HasKey
      BY <1>0, <3>1, <3>2 DEF KeyIsPinned, HostKeyAccepted
    <3>5. ~HasKey'
      BY <2>2, <3>4, KeyEffect
    <3> QED BY <2>2, <3>3, <3>5
  <2> QED BY <1>0, <1>6, <2>1, <2>2, Moves
<1>7. ASSUME HasKey'
      PROVE  /\ row'.pin # None
             /\ w'.pc \in Preparing \cup Working => w'.a # row'.pin
  <2>1. CASE HasKey
    <3>1. row.pin # None /\ row'.pin = row.pin /\ w.pc # "finish"
          /\ (w.pc \in Preparing \cup Working => w.a # row.pin)
      BY <1>0, <1>1, <2>1 DEF KeyIsPinned
    <3>2. ASSUME Begin, w'.pc = "token" PROVE w'.a # row.pin
      <4>1. w'.a = Min({a \in Attempt : groups[a] = "none"})
        BY <1>0, <3>2 DEF Begin, Fails, Idle, WorkerRecord
      <4>2. /\ {a \in Attempt : groups[a] = "none"} # {}
            /\ {a \in Attempt : groups[a] = "none"} \in SUBSET Nat
        BY <1>0, <3>2, Values DEF Begin, WorkerShape
      <4>3. groups[w'.a] = "none"
        BY <4>1, <4>2, MinInSet
      <4> QED BY <1>0, <3>1, <4>3 DEF GroupsFirst
    <3> QED BY <1>0, <3>1, <3>2, Moves DEF Preparing, Working
  <2>2. CASE w.pc = "finish" /\ w'.pc = "complete"
    BY <1>0, <1>1, <1>3, <2>2 DEF KeyIsPinned, WorkerShape, Preparing, Working
  <2> QED BY <1>7, <2>1, <2>2, KeyEffect
<1> QED BY <1>5, <1>6, <1>7 DEF KeyIsPinned, OneHostKey

-----------------------------------------------------------------------------
(* What the worker has made of the row.                                    *)

\* What got in the way once has always got in the way.
LEMMA ExcuseGrows == TypeOK /\ [Next]_vars => excuse \subseteq excuse'
BY RequestFrame, WorkerFrame DEF Next, Boot, Crash, Callback, Excused, vars, history

\* A request that does not undo what others wrote changes the password of the row,
\* or the address to that of its instance.
LEMMA RequestRow ==
  ASSUME IInv, NEW c \in Clients, RequestStep(c), "row" \notin excuse'
  PROVE  /\ row'.status = row.status /\ row'.inst = row.inst /\ row'.nsg = row.nsg
         /\ row'.key = row.key /\ row'.pin = row.pin
         /\ row'.token = row.token /\ row'.creds = row.creds
         /\ row'.ip \in {row.ip, row.inst}
         /\ row'.pass = row.pass \/ (StorePassword(c) /\ row'.pass = Password(op[c].r))
<1>0. /\ TypeOK /\ row \in Row /\ op[c].copy \in Row /\ CopiesAgree /\ RequestShape
  BY TypeParts, TypeOfParts DEF IInv
<1>1. CASE row' = row
  BY <1>1
<1>2. CASE StorePassword(c) /\ row' = Stored(op[c].r)
  BY <1>0, <1>2 DEF Stored, Row
<1>3. CASE WriteIPs(c) /\ Update(op[c].copy)
  <2>1. Columns(op[c].copy) = Columns(row) \/ row' = row
    BY <1>3 DEF WriteIPs, Excused
  <2>2. /\ row'.pin = row.pin /\ row'.token = row.token /\ row'.creds = row.creds
        /\ row'.status = op[c].copy.status /\ row'.inst = op[c].copy.inst
        /\ row'.ip = op[c].copy.ip /\ row'.nsg = op[c].copy.nsg
        /\ row'.key = op[c].copy.key /\ row'.pass = op[c].copy.pass
    BY <1>0, <1>3, UpdateEffect DEF CopiesAgree
  <2>3. op[c].copy.ip = op[c].copy.inst
    BY <1>0, <1>3 DEF WriteIPs, RequestShape
  <2> QED BY <1>1, <2>1, <2>2, <2>3 DEF Columns
<1> QED
  BY <1>0, <1>1, <1>2, <1>3, RequestFrame DEF StorePassword, WriteIPs

\* Every step keeps in the worker's copy what the worker has made.
LEMMA CopyStep == IInv /\ [Next]_vars => CopyIsWorkers'
<1> SUFFICES ASSUME IInv, [Next]_vars PROVE CopyIsWorkers'
  OBVIOUS
<1>0. /\ TypeOK /\ WorkerShape /\ CopyIsWorkers /\ RequestShape /\ CopiesAgree
      /\ w \in WorkerRecord /\ w.copy \in Row /\ row \in Row
      /\ \A c \in Clients : op[c].copy \in Row
  BY TypeParts, TypeOfParts DEF IInv
<1>1. \A a \in Attempt : a # None
  BY Values DEF None
<1>2. row.inst # None \/ SaveInstance => row'.inst # None
  <2>1. SaveInstance => row'.inst = w.a /\ w.a \in Attempt
    BY <1>0 DEF SaveInstance, Update, Row, WorkerShape, Working
  <2>2. w.pc \in Launched => w.a \in Attempt
    BY <1>0 DEF WorkerShape, Working, Launched
  <2> QED BY <1>0, <1>1, <2>1, <2>2, RowSources DEF RequestShape
<1>3. CASE UNCHANGED w
  BY <1>0, <1>2, <1>3 DEF CopyIsWorkers, Working, Recorded
<1>4. CASE CreateNSG
  <2>1. CASE Fails
    BY <2>1 DEF Fails, Idle, CopyIsWorkers, Working, Recorded
  <2>2. CASE w' = [w EXCEPT !.pc = "rules", !.copy.nsg = w.a]
    <3>1. w'.pc = "rules" /\ w'.a = w.a /\ w'.copy.nsg = w.a
      BY <1>0, <2>2 DEF WorkerRecord, Row
    <3> QED BY <3>1 DEF CopyIsWorkers, Recorded
  <2> QED BY <1>4, <2>1, <2>2 DEF CreateNSG
<1>5. CASE AddDefaultRules \/ Launch
  BY <1>0, <1>5, ZenonT(60) DEF AddDefaultRules, Launch, CopyIsWorkers, Working, Recorded, Fails, Idle,
     Goto, RollbackBegins, WorkerRecord
<1>6. CASE SaveInstance
  BY <1>0, <1>2, <1>6 DEF SaveInstance, CopyIsWorkers, Working, Recorded, WorkerRecord, Row
<1>7. CASE WaitRunning \/ CreateUser
  BY <1>0, <1>2, <1>7 DEF WaitRunning, CreateUser, CopyIsWorkers, Working, Recorded,
     Goto, RollbackBegins, Idle, WorkerRecord
<1> QED
  BY <1>0, <1>3, <1>4, <1>5, <1>6, <1>7, Moves DEF CopyIsWorkers, Working, Recorded

\* What the worker writes to the row.
LEMMA WorkerRow ==
  ASSUME IInv, [Next]_vars
  PROVE  /\ Begin => row'.inst = row.inst /\ row'.status = IF w'.pc = "token" THEN "provisioning" ELSE "failed"
         /\ MakeToken => row'.status = row.status
         /\ CreateNSG => /\ w'.pc = "rules" => row'.status = row.status /\ row'.nsg = w.a
                         /\ w'.pc = "error" => row'.status = "failed"
         /\ AddDefaultRules => /\ w'.pc = "launch" => UNCHANGED row
                               /\ w'.pc = "error" => row'.status = "failed"
         /\ SaveInstance => row'.status = "provisioning" /\ row'.nsg = w.a /\ row'.inst = w.a
         /\ CreateUser => /\ row'.status = row.status /\ row'.nsg = row.nsg
                          /\ row'.inst = row.inst
         /\ Finish => /\ w'.pc = "error" => UNCHANGED row
                      /\ w'.pc = "complete" =>
                           /\ row'.status = "running" /\ row'.inst = w.a /\ row'.ip = w.a
                           /\ row'.key = w.a /\ row'.pass = w.a /\ row'.pin = w.a
                           /\ row'.nsg = w.a
         /\ Clean => row'.status = "failed"
         /\ Claim \/ Launch \/ WaitRunning \/ Complete \/ MarkFailed \/ Boot => UNCHANGED row
<1>0. /\ TypeOK /\ row \in Row /\ w \in WorkerRecord /\ w.copy \in Row /\ CopiesAgree
      /\ CopyIsWorkers /\ KeyIsPinned
  BY TypeParts, TypeOfParts DEF IInv
<1>1. Fails => w'.pc = "error"
  BY DEF Fails, Idle
<1>2. /\ Begin => row'.inst = row.inst
                    /\ row'.status = IF w'.pc = "token" THEN "provisioning" ELSE "failed"
      /\ MakeToken => row'.status = row.status
  BY <1>0, <1>1, ZenonT(60) DEF Begin, MakeToken, SetCredentialsCallbackToken, Row, WorkerRecord
<1>3. CreateNSG => /\ w'.pc = "rules" => row'.status = row.status /\ row'.nsg = w.a
                   /\ w'.pc = "error" => row'.status = "failed"
  <2>1. w' = [w EXCEPT !.pc = "rules", !.copy.nsg = w.a] => w'.pc = "rules"
    BY <1>0 DEF WorkerRecord
  <2> QED BY <1>0, <1>1, <2>1 DEF CreateNSG, Row
<1>4. AddDefaultRules => /\ w'.pc = "launch" => UNCHANGED row
                         /\ w'.pc = "error" => row'.status = "failed"
  BY <1>0, <1>1 DEF AddDefaultRules, Goto, Row, WorkerRecord
<1>5. SaveInstance => row'.status = "provisioning" /\ row'.nsg = w.a /\ row'.inst = w.a
  BY <1>0 DEF SaveInstance, Update, Row, CopyIsWorkers, Working
<1>6. CreateUser => row'.status = row.status /\ row'.nsg = row.nsg /\ row'.inst = row.inst
  BY <1>0 DEF CreateUser, Pinned, Row
<1>7. Finish => /\ w'.pc = "error" => UNCHANGED row
                /\ w'.pc = "complete" =>
                     /\ row'.status = "running" /\ row'.inst = w.a /\ row'.ip = w.a
                     /\ row'.key = w.a /\ row'.pass = w.a /\ row'.pin = w.a
                     /\ row'.nsg = w.a
  <2>1. [Idle EXCEPT !.pc = "complete"].pc = "complete"
    BY DEF Idle
  <2>2. ASSUME Finish, Update(Provisioned(w.copy))
        PROVE  /\ row'.status = "running" /\ row'.inst = w.a /\ row'.ip = w.a
               /\ row'.key = w.a /\ row'.pass = w.a /\ row'.pin = w.a
               /\ row'.nsg = w.a
    BY <1>0, <2>2 DEF Finish, Update, Provisioned, Row, CopyIsWorkers, KeyIsPinned, Working,
       Recorded
  <2> QED BY <1>1, <2>1, <2>2 DEF Finish
<1>8. Clean => row'.status = "failed"
  BY <1>0 DEF Clean, Row
<1>9. Claim \/ Launch \/ WaitRunning \/ Complete \/ MarkFailed \/ Boot => UNCHANGED row
  BY DEF Claim, Launch, WaitRunning, Complete, MarkFailed, Boot
<1> QED BY <1>2, <1>3, <1>4, <1>5, <1>6, <1>7, <1>8, <1>9

\* What becomes of the job, and of what start-up has begun.
LEMMA JobMoves ==
  ASSUME IInv, [Next]_vars
  PROVE  /\ \/ UNCHANGED job
            \/ Claim /\ job.state = "pending" /\ job'.state = "running"
            \/ Complete /\ job'.state = "complete"
            \/ Clean /\ job'.state = "failed" /\ w'.pc = "idle"
            \/ MarkFailed /\ w'.pc = "idle"
                 /\ (job'.state = "pending" \/ (job'.state = "failed" /\ row.inst = None))
            \/ Crash /\ job'.state = IF job.state = "running" THEN "pending" ELSE job.state
         /\ w'.after = "serve" =>
              \/ (UNCHANGED w \/ Terminate) /\ UNCHANGED job /\ w.after = "serve"
              \/ /\ Crash /\ row.status \in {"pending", "provisioning"} /\ row.inst # None
                 /\ UNCHANGED row
         /\ Crash => /\ job'.state = IF job.state = "running" THEN "pending" ELSE job.state
                     /\ \/ w'.pc = "idle"
                        \/ /\ row.status \in {"pending", "provisioning"} /\ row.inst # None
                           /\ UNCHANGED row
<1>0. /\ TypeOK /\ job \in JobRecord /\ w \in WorkerRecord /\ WorkerShape
  BY TypeParts DEF IInv
<1>1. /\ Fails => w'.pc = "error" /\ w'.after = "error"
      /\ \A pc : Goto(pc) => w'.pc = pc /\ w'.after = w.after
      /\ \A i, after : RollbackBegins(i, after) => w'.after = after
      /\ Idle.pc = "idle" /\ Idle.after = "error"
      /\ \A pc : [Idle EXCEPT !.pc = pc].after = "error"
  BY <1>0 DEF Fails, Goto, RollbackBegins, Idle, WorkerRecord
<1>2. \/ UNCHANGED job
      \/ Claim /\ job.state = "pending" /\ job'.state = "running"
      \/ Complete /\ job'.state = "complete"
      \/ Clean /\ job'.state = "failed" /\ w'.pc = "idle"
      \/ MarkFailed /\ w'.pc = "idle"
           /\ (job'.state = "pending" \/ (job'.state = "failed" /\ row.inst = None))
      \/ Crash /\ job'.state = IF job.state = "running" THEN "pending" ELSE job.state
  <2>1. CASE Claim \/ Complete \/ Crash
    BY <1>0, <2>1 DEF Claim, Complete, Crash, JobRecord
  <2>2. CASE Clean \/ MarkFailed
    BY <1>1, <2>2 DEF Clean, MarkFailed
  <2>3. CASE \E c \in Clients : RequestStep(c)
    BY <1>0, <2>3, RequestFrame
  <2> QED
    BY <2>1, <2>2, <2>3 DEF Next, Worker, Begin, MakeToken, CreateNSG, AddDefaultRules,
       Launch, SaveInstance, WaitRunning, CreateUser, Finish, Terminate, Boot, Callback, vars
<1>3. ASSUME w'.after = "serve"
      PROVE  \/ (UNCHANGED w \/ Terminate) /\ UNCHANGED job /\ w.after = "serve"
             \/ /\ Crash /\ row.status \in {"pending", "provisioning"} /\ row.inst # None
                /\ UNCHANGED row
  <2>0. w.after = "serve" => w.pc \in {"terminate", "clean"}
    BY <1>0 DEF WorkerShape
  <2>1. CASE Claim \/ Begin \/ MakeToken \/ CreateNSG \/ AddDefaultRules
    BY <1>0, <1>1, <1>3, <2>0, <2>1 DEF Claim, Begin, MakeToken, CreateNSG, AddDefaultRules,
       WorkerRecord
  <2>2. CASE Launch \/ SaveInstance \/ WaitRunning \/ CreateUser
    BY <1>0, <1>1, <1>3, <2>0, <2>2 DEF Launch, SaveInstance, WaitRunning, CreateUser,
       WorkerRecord
  <2>3. CASE Finish \/ Complete \/ Clean \/ MarkFailed
    BY <1>0, <1>1, <1>3, <2>0, <2>3 DEF Finish, Complete, Clean, MarkFailed
  <2>4. CASE Terminate
    BY <1>0, <1>3, <2>4 DEF Terminate, WorkerRecord
  <2>5. CASE Crash
    BY <1>1, <1>3, <2>5 DEF Crash
  <2>6. CASE Boot \/ (\E a \in Attempt : Callback(a)) \/ UNCHANGED vars
    BY <1>3, <2>6 DEF Boot, Callback, vars
  <2>7. CASE \E c \in Clients : RequestStep(c)
    BY <1>0, <1>3, <2>7, RequestFrame
  <2> QED BY <2>1, <2>2, <2>3, <2>4, <2>5, <2>6, <2>7 DEF Next, Worker
<1>4. Crash => \/ w'.pc = "idle"
               \/ /\ row.status \in {"pending", "provisioning"} /\ row.inst # None
                  /\ UNCHANGED row
  BY <1>1 DEF Crash
<1>5. Crash => job'.state = IF job.state = "running" THEN "pending" ELSE job.state
  BY <1>0 DEF Crash, JobRecord
<1> QED BY <1>2, <1>3, <1>4, <1>5

\* What the others write to the row, but for a refresh that undoes what was written.
LEMMA OtherRow ==
  ASSUME IInv, [Next]_vars, "row" \notin excuse'
  PROVE  /\ Others =>
              /\ row'.status = row.status /\ row'.inst = row.inst /\ row'.nsg = row.nsg
              /\ row'.key = row.key /\ row'.pin = row.pin /\ row'.ip \in {row.ip, row.inst}
         /\ Crash =>
              /\ row'.inst = row.inst /\ row'.nsg = row.nsg /\ row'.key = row.key
              /\ row'.pin = row.pin /\ row'.ip = row.ip /\ row'.pass = row.pass
              /\ row'.token = row.token /\ row'.creds = row.creds
              /\ row.status \notin {"pending", "provisioning"} => row'.status = row.status
<1>0. row \in Row /\ TypeOK
  BY TypeParts DEF IInv
<1>1. ASSUME Crash
      PROVE  UNCHANGED row
             \/ \E q \in Status : /\ row' = [row EXCEPT !.status = q]
                                  /\ row.status \notin {"pending", "provisioning"} => q = row.status
  BY <1>0, <1>1, ReconciledStatus DEF Crash
<1>2. ASSUME NEW a \in Attempt, Callback(a)
      PROVE  /\ row'.status = row.status /\ row'.inst = row.inst /\ row'.nsg = row.nsg
             /\ row'.key = row.key /\ row'.pin = row.pin /\ row'.ip = row.ip
  BY <1>0, <1>2, ZenonT(60) DEF Callback, Row
<1>3. Boot \/ UNCHANGED vars => UNCHANGED row
  BY DEF Boot, vars
<1>4. Others =>
        /\ row'.status = row.status /\ row'.inst = row.inst /\ row'.nsg = row.nsg
        /\ row'.key = row.key /\ row'.pin = row.pin /\ row'.ip \in {row.ip, row.inst}
  BY <1>2, <1>3, RequestRow DEF Others
<1>5. Crash =>
        /\ row'.inst = row.inst /\ row'.nsg = row.nsg /\ row'.key = row.key
        /\ row'.pin = row.pin /\ row'.ip = row.ip /\ row'.pass = row.pass
        /\ row'.token = row.token /\ row'.creds = row.creds
        /\ row.status \notin {"pending", "provisioning"} => row'.status = row.status
  BY <1>0, <1>1 DEF Row
<1> QED BY <1>4, <1>5

\* Every step keeps in the row what the worker has made of it.
LEMMA RowStep == IInv /\ [Next]_vars => RowIsWorkers'
<1> SUFFICES ASSUME IInv, [Next]_vars, "row" \notin excuse'
             PROVE  /\ w'.pc \in Preparing \cup Working => row'.status = "provisioning"
                    /\ w'.pc \in Working => row'.nsg = w'.a
                    /\ w'.pc = "error" /\ row'.inst = None => row'.status = "failed"
                    /\ w'.after = "serve" => job'.state = "pending"
                    /\ job'.state = "failed" => w'.pc = "idle" /\ row'.status \in {"failed", "terminated"}
                    /\ job'.state = "complete" => w'.pc = "idle"
  BY DEF RowIsWorkers
<1>0. /\ TypeOK /\ WorkerShape /\ JobShape /\ CopyIsWorkers /\ RowIsEntered /\ "row" \notin excuse
      /\ job \in JobRecord /\ RowIsWorkers
  BY TypeParts, ExcuseGrows DEF IInv
<1>r. /\ w.pc \in Preparing \cup Working => row.status = "provisioning"
      /\ w.pc \in Working => row.nsg = w.a
      /\ w.pc = "error" /\ row.inst = None => row.status = "failed"
      /\ w.after = "serve" => job.state = "pending"
      /\ job.state = "failed" => w.pc = "idle" /\ row.status \in {"failed", "terminated"}
      /\ job.state = "complete" => w.pc = "idle"
  BY <1>0 DEF RowIsWorkers
<1>e. job.state = "complete" => row.status = "running"
  BY <1>0 DEF RowIsEntered, Finished
<1>1. w'.pc \in Preparing \cup Working => row'.status = "provisioning"
  BY <1>0, <1>r, Moves, WorkerRow, OtherRow DEF Preparing, Working
<1>2. w'.pc \in Working => row'.nsg = w'.a
  BY <1>0, <1>r, Moves, WorkerRow, OtherRow DEF Working
<1>3. w'.pc = "error" /\ row'.inst = None => row'.status = "failed"
  <2>1. w.pc = "finish" => row.inst # None
    BY <1>0 DEF CopyIsWorkers, Recorded
  <2> QED BY <1>0, <1>r, <2>1, Moves, WorkerRow, OtherRow
<1>s. job.state \in {"pending", "running", "complete", "failed"}
  BY <1>0 DEF JobRecord
<1>4. w'.after = "serve" => job'.state = "pending"
  <2>1. CASE UNCHANGED job /\ w.after = "serve"
    BY <1>r, <2>1
  <2>2. CASE Crash /\ row.status \in {"pending", "provisioning"}
    BY <1>r, <1>e, <1>s, <2>2, JobMoves
  <2> QED BY <2>1, <2>2, JobMoves
\* A job that has ended has no worker.
<1>5. ASSUME job.state \in {"complete", "failed"}
      PROVE  w'.pc = "idle" /\ (Others \/ Crash)
  <2>1. w.pc = "idle" /\ ~Claim /\ row.status \notin {"pending", "provisioning"}
    BY <1>r, <1>e, <1>5 DEF Claim
  <2>2. Crash => w'.pc = "idle"
    BY <2>1, JobMoves
  <2> QED BY <1>0, <2>1, <2>2, Moves
<1>6. job'.state = "complete" => w'.pc = "idle"
  <2>1. job'.state = "complete" => job.state = "complete" \/ Complete
    BY <1>s, JobMoves
  <2>2. Complete => w'.pc = "idle"
    BY DEF Complete, Idle
  <2> QED BY <1>5, <2>1, <2>2
<1>7. job'.state = "failed" => w'.pc = "idle" /\ row'.status \in {"failed", "terminated"}
  <2>1. job'.state = "failed" =>
          \/ job.state = "failed"
          \/ Clean /\ w'.pc = "idle"
          \/ MarkFailed /\ w'.pc = "idle" /\ row.inst = None
    BY <1>s, JobMoves
  <2>2. job.state = "failed" => row'.status \in {"failed", "terminated"}
    BY <1>r, <1>5, OtherRow
  <2>3. MarkFailed => w.pc = "error" /\ UNCHANGED row
    BY DEF MarkFailed
  <2> QED BY <1>r, <1>5, <2>1, <2>2, <2>3, WorkerRow
<1> QED BY <1>1, <1>2, <1>3, <1>4, <1>6, <1>7

\* How a worker comes to have finished, if nothing has undone its row.
LEMMA FinishedMoves ==
  ASSUME IInv, [Next]_vars, "row" \notin excuse', Finished'
  PROVE  \/ Finished /\ (Others \/ Crash \/ Complete)
         \/ Finish /\ w.pc = "finish" /\ w'.pc = "complete"
<1>0. /\ TypeOK /\ WorkerShape /\ RowIsWorkers /\ "row" \notin excuse
      /\ job.state \in {"pending", "running", "complete", "failed"}
  BY TypeParts, ExcuseGrows DEF IInv, JobRecord
<1>1. w'.pc = "complete" => (w.pc = "complete" /\ Others) \/ (Finish /\ w.pc = "finish" /\ w'.pc = "complete")
  BY <1>0, Moves
<1>2. job'.state = "complete" => job.state = "complete" \/ Complete
  BY <1>0, JobMoves
<1>3. Complete => w.pc = "complete"
  BY DEF Complete
<1>4. job.state = "complete" => w.pc = "idle" /\ ~Claim
  BY <1>0 DEF RowIsWorkers, Claim
<1>5. job.state = "complete" => Others \/ Crash
  BY <1>0, <1>4, Moves
<1> QED BY <1>1, <1>2, <1>3, <1>5 DEF Finished

\* Every step keeps the row of a worker that has finished to one instance.
LEMMA EnteredStep == IInv /\ [Next]_vars => RowIsEntered'
<1> SUFFICES ASSUME IInv, [Next]_vars, "row" \notin excuse', Finished'
             PROVE  /\ row'.inst \in Attempt
                    /\ row'.key = row'.inst /\ row'.ip = row'.inst /\ row'.pin = row'.inst
                    /\ row'.status = "running"
  BY DEF RowIsEntered
<1>0. TypeOK /\ WorkerShape /\ RowIsEntered /\ "row" \notin excuse
  BY ExcuseGrows DEF IInv
<1>1. CASE Finished /\ (Others \/ Crash)
  BY <1>0, <1>1, OtherRow DEF RowIsEntered
<1>2. CASE Finished /\ Complete
  BY <1>0, <1>2, WorkerRow DEF RowIsEntered
<1>3. CASE Finish /\ w'.pc = "complete"
  BY <1>0, <1>3, WorkerRow DEF Finish, WorkerShape, Working
<1> QED BY <1>1, <1>2, <1>3, FinishedMoves

-----------------------------------------------------------------------------
(* The password.                                                           *)

\* The requests that are not about the password leave alone those that are.
LEMMA ResetFrame ==
  ASSUME IInv, NEW c \in Clients, RequestStep(c),
         ~AskReset(c), ~Chpasswd(c), ~Verify(c), ~StorePassword(c)
  PROVE  /\ Resetting' = Resetting /\ UNCHANGED login
         /\ \A d \in Resetting : op'[d] = op[d]
<1>0. TypeOK /\ op \in [Clients -> RequestRecord]
  BY TypeParts DEF IInv
<1>1. op[c].pc \notin {"chpasswd", "verify", "store"} /\ op'[c].pc \notin {"chpasswd", "verify", "store"}
  <2>1. CASE AskRefresh(c) \/ AskFirewall(c)
    BY <1>0, <2>1 DEF AskRefresh, AskFirewall, Asks
  <2>2. CASE ReadIPs(c) \/ WriteIPs(c) \/ AddRules(c)
    BY <1>0, <2>2 DEF ReadIPs, WriteIPs, AddRules, Done, Off, RequestRecord
  <2>3. CASE ListRules(c) \/ RemoveRules(c)
    BY <1>0, <2>3 DEF ListRules, RemoveRules, Done, Off, RequestRecord
  <2> QED BY <2>1, <2>2, <2>3 DEF RequestStep
<1>2. \A d \in Clients \ {c} : op'[d] = op[d]
  BY <1>0, RequestFrame
<1>3. UNCHANGED login
  BY DEF RequestStep, AskRefresh, ReadIPs, WriteIPs, AskFirewall, ListRules, RemoveRules,
     AddRules, Asks, cloud
<1> QED BY <1>1, <1>2, <1>3 DEF Resetting

\* Every step keeps the password of the row the one in force, a reset under way aside.
LEMMA PasswordStep == IInv /\ [Next]_vars => PasswordFollows'
<1> SUFFICES ASSUME IInv, [Next]_vars, "row" \notin excuse', "password" \notin excuse', Finished'
             PROVE  /\ \A c, d \in Resetting' : c = d
                    /\ (\A c \in Resetting' : op'[c].pc = "chpasswd") => row'.pass = login'[row'.inst]
                    /\ \A c \in Resetting' :
                         /\ op'[c].copy.ip = row'.inst
                         /\ op'[c].pc # "chpasswd" => login'[row'.inst] = Password(op'[c].r)
  BY DEF PasswordFollows
<1>0. /\ TypeOK /\ WorkerShape /\ RowIsEntered /\ KeyIsPinned /\ RequestShape
      /\ "row" \notin excuse /\ "password" \notin excuse
      /\ op \in [Clients -> RequestRecord] /\ CloudType
  BY TypeParts, ExcuseGrows DEF IInv
<1>p. Finished =>
        /\ \A c, d \in Resetting : c = d
        /\ (\A c \in Resetting : op[c].pc = "chpasswd") => row.pass = login[row.inst]
        /\ \A c \in Resetting :
             /\ op[c].copy.ip = row.inst
             /\ op[c].pc # "chpasswd" => login[row.inst] = Password(op[c].r)
        /\ row.ip = row.inst /\ row.inst \in Attempt
  BY <1>0 DEF IInv, PasswordFollows, RowIsEntered
<1>1. CASE Finish /\ w.pc = "finish" /\ w'.pc = "complete"
  <2>1. UNCHANGED op /\ UNCHANGED login
    BY <1>1, WorkerFrame DEF Finish, cloud
  <2>2. Resetting = {}
    BY <1>0, <1>1 DEF KeyIsPinned, RequestShape, Resetting, HasKey
  <2>3. Resetting' = {}
    BY <2>1, <2>2 DEF Resetting
  <2>4. login[w.a] = w.a /\ row'.pass = w.a /\ row'.inst = w.a
    BY <1>0, <1>1, WorkerRow DEF KeyIsPinned
  <2> QED BY <2>1, <2>3, <2>4
<1>2. CASE Finished /\ UNCHANGED <<login, op>> /\ row'.pass = row.pass /\ row'.inst = row.inst
  BY <1>p, <1>2 DEF Resetting
<1>3. CASE Finished /\ Complete
  BY <1>2, <1>3 DEF Complete, cloud
<1>4. CASE Finished /\ Crash
  <2>1. Resetting' = {} /\ Resetting = {} /\ UNCHANGED login
    BY <1>4 DEF Crash, Resetting, Excused, Off, cloud
  <2> QED BY <1>p, <1>4, <2>1, OtherRow
<1>5. ASSUME Finished, NEW c \in Clients, RequestStep(c)
      PROVE  /\ \A e, d \in Resetting' : e = d
             /\ (\A d \in Resetting' : op'[d].pc = "chpasswd") => row'.pass = login'[row'.inst]
             /\ \A d \in Resetting' :
                  /\ op'[d].copy.ip = row'.inst
                  /\ op'[d].pc # "chpasswd" => login'[row'.inst] = Password(op'[d].r)
  <2>0. /\ row'.inst = row.inst
        /\ row'.pass = row.pass \/ (StorePassword(c) /\ row'.pass = Password(op[c].r))
        /\ \A d \in Clients \ {c} : op'[d] = op[d]
    BY <1>0, <1>5, RequestRow, RequestFrame
  <2>1. CASE ~AskReset(c) /\ ~Chpasswd(c) /\ ~Verify(c) /\ ~StorePassword(c)
    BY <1>p, <1>5, <2>0, <2>1, ResetFrame
  <2>2. CASE AskReset(c)
    <3>1. Resetting = {}
      BY <2>2 DEF AskReset, Excused
    <3>2. op'[c].pc = "chpasswd" /\ op'[c].copy.ip = row.ip
      BY <1>0, <2>2 DEF AskReset, Asks, NoRow
    <3>3. UNCHANGED login /\ UNCHANGED row
      BY <2>2 DEF AskReset, Asks, cloud
    <3>4. Resetting' = {c}
      BY <2>0, <3>1, <3>2 DEF Resetting
    <3> QED BY <1>p, <1>5, <3>1, <3>2, <3>3, <3>4
  <2>3. CASE Chpasswd(c) \/ Verify(c) \/ StorePassword(c)
    <3>1. Resetting = {c}
      BY <1>p, <1>5, <2>3 DEF Resetting, Chpasswd, Verify, StorePassword
    <3>2. Resetting' \in {{}, {c}}
      BY <2>0, <3>1 DEF Resetting
    <3>3. CASE Chpasswd(c)
      <4>1. CASE UNCHANGED login /\ Done(c)
        <5>1. Resetting' = {}
          BY <1>0, <3>2, <4>1 DEF Done, Off, Resetting
        <5> QED BY <1>p, <1>5, <2>0, <3>1, <3>3, <4>1, <5>1 DEF Chpasswd, StorePassword
      <4>2. CASE /\ login' = [login EXCEPT ![op[c].copy.ip] = Password(op[c].r)]
                 /\ OpGoto(c, "verify")
        <5>1. op'[c].pc = "verify" /\ op'[c].copy = op[c].copy /\ op'[c].r = op[c].r
          BY <1>0, <4>2 DEF OpGoto, RequestRecord
        <5>2. login'[row.inst] = Password(op[c].r) /\ op[c].copy.ip = row.inst
          BY <1>0, <1>p, <1>5, <3>1, <4>2 DEF CloudType
        <5>3. Resetting' = {c}
          BY <3>1, <3>2, <5>1 DEF Resetting
        <5> QED BY <2>0, <5>1, <5>2, <5>3
      <4> QED BY <3>3, <4>1, <4>2 DEF Chpasswd, Excused
    <3>4. CASE Verify(c)
      <4>1. OpGoto(c, "store") /\ UNCHANGED <<login, row>> /\ op[c].pc = "verify"
        BY <3>4 DEF Verify, Excused, cloud
      <4>2. op'[c].pc = "store" /\ op'[c].copy = op[c].copy /\ op'[c].r = op[c].r
        BY <1>0, <4>1 DEF OpGoto, RequestRecord
      <4>3. Resetting' = {c}
        BY <3>1, <3>2, <4>2 DEF Resetting
      <4> QED BY <1>p, <1>5, <3>1, <4>1, <4>2, <4>3
    <3>5. CASE StorePassword(c)
      <4>1. /\ row' = Stored(op[c].r) /\ Done(c) /\ UNCHANGED login /\ op[c].pc = "store"
        BY <3>5 DEF StorePassword, Excused, cloud
      <4>2. row'.pass = Password(op[c].r)
        BY <1>0, <4>1, TypeParts DEF Stored, Row
      <4>3. Resetting' = {}
        BY <1>0, <3>2, <4>1 DEF Done, Off, Resetting
      <4> QED BY <1>p, <1>5, <2>0, <3>1, <4>1, <4>2, <4>3
    <3> QED BY <2>3, <3>3, <3>4, <3>5
  <2> QED BY <2>1, <2>2, <2>3
<1>6. CASE Finished /\ Others
  <2>1. CASE Boot \/ UNCHANGED vars
    BY <1>2, <1>6, <2>1 DEF Boot, vars, cloud
  <2>2. CASE \E a \in Attempt : Callback(a)
    <3>1. UNCHANGED <<login, op>> /\ row'.pass = row.pass /\ row'.inst = row.inst
      BY <1>0, <2>2, TypeParts, ZenonT(60) DEF Callback, Row
    <3> QED BY <1>2, <1>6, <3>1
  <2> QED BY <1>5, <1>6, <2>1, <2>2 DEF Others
<1> QED BY <1>1, <1>3, <1>4, <1>6, FinishedMoves

-----------------------------------------------------------------------------
(* The rules.                                                              *)

\* The requests that are not about the rules leave alone those that are.
LEMMA ChangeFrame ==
  ASSUME IInv, NEW c \in Clients, RequestStep(c),
         ~AskFirewall(c), ~ListRules(c), ~RemoveRules(c), ~AddRules(c)
  PROVE  /\ Changing' = Changing /\ UNCHANGED <<rules, asked>>
         /\ \A d \in Changing : op'[d] = op[d]
<1>0. TypeOK /\ op \in [Clients -> RequestRecord]
  BY TypeParts DEF IInv
<1>1. op[c].pc \notin {"list", "remove", "add"} /\ op'[c].pc \notin {"list", "remove", "add"}
  <2>1. CASE AskRefresh(c) \/ AskReset(c)
    BY <1>0, <2>1 DEF AskRefresh, AskReset, Asks
  <2>2. CASE ReadIPs(c) \/ WriteIPs(c) \/ StorePassword(c)
    BY <1>0, <2>2 DEF ReadIPs, WriteIPs, StorePassword, Done, Off, RequestRecord
  <2>3. CASE Chpasswd(c) \/ Verify(c)
    BY <1>0, <2>3 DEF Chpasswd, Verify, OpGoto, Done, Off, RequestRecord
  <2> QED BY <2>1, <2>2, <2>3 DEF RequestStep
<1>2. \A d \in Clients \ {c} : op'[d] = op[d]
  BY <1>0, RequestFrame
<1>3. UNCHANGED <<rules, asked>>
  BY DEF RequestStep, AskReset, Chpasswd, Verify, StorePassword, AskRefresh, ReadIPs,
     WriteIPs, Asks, cloud, history
<1> QED BY <1>1, <1>2, <1>3 DEF Changing

\* Every step keeps the rules in force those of the row, a change under way aside.
LEMMA RulesStep == IInv /\ [Next]_vars => RulesFollow'
<1> DEFINE Ruled == w.pc \in Working \ {"rules"} \/ Finished
           Follow == /\ row.nsg # None
                     /\ \A c, d \in Changing : c = d
                     /\ (\A c \in Changing : op[c].pc # "add") => rules[row.nsg] = asked
                     /\ \A c \in Changing :
                          /\ op[c].copy.nsg = row.nsg
                          /\ op[c].pc = "remove" => op[c].ids = rules[row.nsg]
                          /\ op[c].pc = "add" => rules[row.nsg] = {}
<1> SUFFICES ASSUME IInv, [Next]_vars, "row" \notin excuse', "rules" \notin excuse', Ruled'
             PROVE  Follow'
  BY DEF RulesFollow
<1>0. /\ TypeOK /\ WorkerShape /\ RowIsWorkers /\ RequestShape
      /\ "row" \notin excuse /\ "rules" \notin excuse
      /\ op \in [Clients -> RequestRecord] /\ CloudType /\ row.nsg \in Maybe(Attempt)
      /\ row \in Row
  BY TypeParts, TypeOfParts, ExcuseGrows DEF IInv
<1>p. Ruled => Follow
  BY <1>0 DEF IInv, RulesFollow
<1>w. /\ w.pc \in Working => row.nsg = w.a /\ w.a \in Attempt
      /\ \A a \in Attempt : a # None
  BY <1>0, Values DEF RowIsWorkers, WorkerShape, None
<1>1. \/ AddDefaultRules /\ w.pc = "rules" /\ w'.pc = "launch" /\ w'.a = w.a
      \/ Ruled /\ Launch /\ w.pc = "launch"
      \/ Ruled /\ SaveInstance /\ w.pc = "save"
      \/ Ruled /\ WaitRunning /\ w.pc = "wait"
      \/ Ruled /\ CreateUser /\ w.pc = "ssh"
      \/ Ruled /\ Finish /\ w.pc = "finish" /\ w'.pc = "complete"
      \/ Ruled /\ (Complete \/ Crash \/ Others)
  <2>1. CASE Finished'
    BY <2>1, FinishedMoves DEF Working
  <2>2. CASE w'.pc \in Working \ {"rules"}
    BY <1>0, <2>2, Moves DEF Working
  <2> QED BY <2>1, <2>2
<1>2. CASE AddDefaultRules /\ w.pc = "rules" /\ w'.pc = "launch" /\ w'.a = w.a
  <2>1. /\ rules' = [rules EXCEPT ![w.a] = @ \cup {0}] /\ asked' = {0} /\ UNCHANGED <<row, op>>
        /\ rules[w.a] = {} /\ Changing = {}
    BY <1>2 DEF AddDefaultRules, Fails, Idle, Excused
  <2>2. row.nsg = w.a /\ w.a \in Attempt /\ w.a # None
    BY <1>2, <1>w DEF Working
  <2>3. rules'[w.a] = {0}
    BY <1>0, <2>1, <2>2 DEF CloudType
  <2>4. Changing' = {}
    BY <2>1 DEF Changing
  <2> QED BY <2>1, <2>2, <2>3, <2>4
<1>3. CASE Ruled /\ UNCHANGED <<op, rules, asked>> /\ row'.nsg = row.nsg
  <2>1. Changing' = Changing
    BY <1>3 DEF Changing
  <2> HIDE DEF Ruled
  <2> QED BY <1>p, <1>3, <2>1
<1>4. CASE Ruled /\ (Launch \/ WaitRunning \/ Complete)
  <2>1. UNCHANGED <<op, rules, asked, row>>
    BY <1>4 DEF Launch, WaitRunning, Complete, cloud, history
  <2> QED BY <1>3, <1>4, <2>1
<1>5. CASE Ruled /\ SaveInstance /\ w.pc = "save"
  <2>1. UNCHANGED <<op, rules, asked>>
    BY <1>5 DEF SaveInstance, cloud, history
  <2>2. row'.nsg = row.nsg
    BY <1>5, <1>w, WorkerRow DEF Working
  <2> QED BY <1>3, <1>5, <2>1, <2>2
<1>6. CASE Ruled /\ CreateUser
  <2>1. UNCHANGED <<op, rules, asked>>
    BY <1>6 DEF CreateUser, history
  <2> QED BY <1>3, <1>6, <2>1, WorkerRow
<1>7. CASE Ruled /\ Finish /\ w.pc = "finish" /\ w'.pc = "complete"
  <2>1. UNCHANGED <<op, rules, asked>>
    BY <1>7 DEF Finish, cloud, history
  <2>2. row'.nsg = row.nsg
    BY <1>7, <1>w, WorkerRow DEF Working
  <2> QED BY <1>3, <1>7, <2>1, <2>2
<1>8. CASE Ruled /\ Crash
  <2>1. Changing' = {} /\ Changing = {} /\ UNCHANGED <<rules, asked>>
    BY <1>8 DEF Crash, Changing, Excused, Off, cloud
  <2>2. row'.nsg = row.nsg
    BY <1>8, OtherRow
  <2> HIDE DEF Ruled
  <2> QED BY <1>p, <1>8, <2>1, <2>2
<1>9. ASSUME Ruled, NEW c \in Clients, RequestStep(c)
      PROVE  Follow'
  <2>0. row'.nsg = row.nsg /\ \A d \in Clients \ {c} : op'[d] = op[d]
    BY <1>0, <1>9, RequestRow, RequestFrame
  <2>p. Follow
    BY <1>p, <1>9
  <2> HIDE DEF Ruled
  <2>1. CASE ~AskFirewall(c) /\ ~ListRules(c) /\ ~RemoveRules(c) /\ ~AddRules(c)
    BY <1>9, <2>0, <2>1, <2>p, ChangeFrame
  <2>2. CASE AskFirewall(c)
    <3>1. Changing = {}
      BY <2>2 DEF AskFirewall, Excused
    <3>2. op'[c].pc = "list" /\ op'[c].copy.nsg = row.nsg
      BY <1>0, <2>2 DEF AskFirewall, Asks, NoRow
    <3>3. UNCHANGED <<rules, asked, row>>
      BY <2>2 DEF AskFirewall, Asks, cloud
    <3>4. Changing' = {c}
      BY <2>0, <3>1, <3>2 DEF Changing
    <3> QED BY <2>p, <3>1, <3>2, <3>3, <3>4
  <2>3. CASE ListRules(c) \/ RemoveRules(c) \/ AddRules(c)
    <3>1. Changing = {c}
      BY <2>3, <2>p DEF Changing, ListRules, RemoveRules, AddRules
    <3>2. Changing' \in {{}, {c}}
      BY <2>0, <3>1 DEF Changing
    <3>3. Done(c) => Changing' = {}
      BY <1>0, <3>2 DEF Changing, Done, Off
    <3>4. row.nsg \in Attempt /\ op[c].copy.nsg = row.nsg
      BY <1>0, <2>p, <3>1 DEF Maybe
    <3>5. CASE ListRules(c)
      <4>1. UNCHANGED <<rules, asked>> /\ op[c].pc = "list"
        BY <3>5 DEF ListRules, cloud, history
      <4>2. CASE Done(c)
        BY <2>0, <2>p, <3>1, <3>3, <4>1, <4>2
      <4>3. CASE op' = [op EXCEPT ![c].pc = "remove", ![c].ids = rules[op[c].copy.nsg]]
        <5>1. op'[c].pc = "remove" /\ op'[c].copy = op[c].copy /\ op'[c].ids = rules[row.nsg]
          BY <1>0, <3>4, <4>3 DEF RequestRecord
        <5>2. Changing' = {c}
          BY <3>1, <3>2, <5>1 DEF Changing
        <5> QED BY <2>0, <2>p, <3>1, <3>4, <4>1, <5>1, <5>2
      <4> QED BY <3>5, <4>2, <4>3 DEF ListRules
    <3>6. CASE RemoveRules(c)
      <4>1. op[c].pc = "remove" /\ op[c].ids = rules[row.nsg]
        BY <2>p, <3>1, <3>6 DEF RemoveRules
      <4>2. CASE Done(c) /\ UNCHANGED <<rules, asked>>
        BY <2>0, <2>p, <3>1, <3>3, <4>1, <4>2
      <4>3. CASE rules' = [rules EXCEPT ![op[c].copy.nsg] = Removed(@, op[c].ids)]
        <5>1. rules'[row.nsg] = {}
          BY <1>0, <3>4, <4>1, <4>3 DEF Removed, CloudType
        <5>2. CASE Done(c) /\ asked' = {}
          BY <2>0, <2>p, <3>3, <5>1, <5>2
        <5>3. CASE op' = [op EXCEPT ![c].pc = "add", ![c].ids = {}]
          <6>1. op'[c].pc = "add" /\ op'[c].copy = op[c].copy
            BY <1>0, <5>3 DEF RequestRecord
          <6>2. Changing' = {c}
            BY <3>1, <3>2, <6>1 DEF Changing
          <6> QED BY <2>0, <2>p, <3>4, <5>1, <6>1, <6>2
        <5>4. \/ Done(c) /\ asked' = {}
              \/ op' = [op EXCEPT ![c].pc = "add", ![c].ids = {}]
              \/ Done(c) /\ UNCHANGED <<rules, asked>>
          BY <3>6 DEF RemoveRules
        <5> QED BY <4>2, <5>2, <5>3, <5>4
      <4> QED BY <3>6, <4>2, <4>3 DEF RemoveRules
    <3>7. CASE AddRules(c)
      <4>1. /\ rules' = [rules EXCEPT ![op[c].copy.nsg] = @ \cup {op[c].r}]
            /\ asked' = {op[c].r} /\ Done(c) /\ op[c].pc = "add"
        BY <3>7 DEF AddRules, Excused
      <4>2. rules[row.nsg] = {}
        BY <2>p, <3>1, <4>1
      <4>3. rules'[row.nsg] = {op[c].r}
        BY <1>0, <3>4, <4>1, <4>2 DEF CloudType
      <4> QED BY <2>0, <2>p, <3>3, <4>1, <4>3
    <3> QED BY <2>3, <3>5, <3>6, <3>7
  <2> QED BY <2>1, <2>2, <2>3
<1>10. CASE Ruled /\ Others
  <2>1. CASE Boot \/ UNCHANGED vars
    BY <1>3, <1>10, <2>1 DEF Boot, vars, cloud, history
  <2>2. CASE \E a \in Attempt : Callback(a)
    <3>1. UNCHANGED <<op, rules, asked>> /\ row'.nsg = row.nsg
      BY <1>0, <2>2 DEF Callback, Row
    <3> QED BY <1>3, <1>10, <3>1
  <2> HIDE DEF Ruled, Follow
  <2> QED BY <1>9, <1>10, <2>1, <2>2 DEF Others
<1> HIDE DEF Ruled, Follow
<1> QED BY <1>1, <1>2, <1>4, <1>5, <1>6, <1>7, <1>8, <1>10

-----------------------------------------------------------------------------
(* The callback.                                                           *)

\* Every step but a callback and a new token leaves credentials and token alone.
LEMMA CredentialsStay ==
  ASSUME IInv, [Next]_vars, ~MakeToken, ~\E a \in Attempt : Callback(a)
  PROVE  row'.creds = row.creds /\ row'.token = row.token
BY CredentialsEffect

\* A callback gives the row the credentials of the instance that has the token, or
\* leaves the row alone.
LEMMA CallbackEffect ==
  ASSUME TypeOK, NEW a \in Attempt, Callback(a)
  PROVE  /\ UNCHANGED <<w, instances>>
         /\ \/ /\ Consumable(a)
               /\ row'.creds = a
            \/ /\ ~Consumable(a) \/ "callback" \in excuse'
               /\ UNCHANGED row
               /\ calling' = calling \ {a}
<1>0. row \in Row
  BY TypeParts
<1>1. CASE Consumable(a) /\ row' = [row EXCEPT !.creds = a, !.token = None]
  BY <1>0, <1>1 DEF Callback, Row
<1>2. CASE ~Consumable(a) /\ UNCHANGED row /\ calling' = calling \ {a}
  BY <1>2 DEF Callback
<1>3. CASE UNCHANGED row /\ calling' = calling \ {a} /\ "callback" \in excuse'
  BY <1>3 DEF Callback
<1> QED BY <1>1, <1>2, <1>3 DEF Callback, Excused

\* Every step keeps the token good for the instance that still calls.
LEMMA CallStep == IInv /\ [Next]_vars => CallIsGood'
<1> SUFFICES ASSUME IInv, [Next]_vars,
                    "row" \notin excuse', "callback" \notin excuse', "earlier" \notin excuse'
             PROVE  /\ w'.pc \in {"nsg", "rules", "launch"} =>
                         row'.creds = None /\ instances'[w'.a] = "none"
                    /\ w'.pc \in Launched => Good(w.a)'
                    /\ Finished' => Good(row.inst)'
  BY DEF CallIsGood
<1>0. /\ TypeOK /\ WorkerShape /\ RowIsWorkers /\ RowIsEntered /\ TokenIsLatest
      /\ GroupsFirst /\ CloudType
      /\ "row" \notin excuse /\ "callback" \notin excuse /\ "earlier" \notin excuse
      /\ row \in Row /\ w \in WorkerRecord
  BY TypeParts, TypeOfParts, ExcuseGrows DEF IInv
<1>p. /\ w.pc \in {"nsg", "rules", "launch"} =>
           row.creds = None /\ instances[w.a] = "none"
      /\ w.pc \in Launched => Good(w.a)
      /\ Finished => Good(row.inst)
  BY <1>0 DEF IInv, CallIsGood
<1>v. \A a \in Attempt : a # None
  BY Values DEF None
\* The instance that waits for its answer gets credentials or goes on waiting.
<1>3. ASSUME NEW i \in Attempt, Good(i), Others,
             row.status \in {"provisioning", "running"}
      PROVE  row'.creds = i \/ (row'.creds = None /\ i \in calling' /\ row'.token = i)
  <2>1. CASE \E a \in Attempt : Callback(a)
    <3>1. PICK a \in Attempt : Callback(a)
      BY <2>1
    <3>2. CASE Consumable(a) /\ row'.creds = a
      BY <1>3, <1>v, <3>2 DEF Good, Consumable
    <3>3. CASE ~Consumable(a) /\ UNCHANGED row /\ calling' = calling \ {a}
      BY <1>3, <3>3 DEF Good, Consumable
    <3> QED BY <1>0, <3>1, <3>2, <3>3, CallbackEffect
  <2>2. CASE ~\E a \in Attempt : Callback(a)
    <3>1. UNCHANGED calling /\ ~MakeToken
      <4>1. ASSUME NEW c \in Clients, RequestStep(c) PROVE UNCHANGED calling
        BY <1>0, <4>1, RequestFrame
      <4>2. Boot \/ UNCHANGED vars => UNCHANGED calling
        BY DEF Boot, vars, cloud
      <4>3. UNCHANGED w
        BY <1>0, <1>3, RequestFrame DEF Others, Boot, Callback, vars
      <4>4. ~MakeToken
        BY <1>0, <4>3 DEF MakeToken, Goto, WorkerRecord
      <4> QED BY <1>3, <2>2, <4>1, <4>2, <4>4 DEF Others
    <3> QED BY <1>3, <2>2, <3>1, CredentialsStay DEF Good
  <2> QED BY <2>1, <2>2
<1>4. ASSUME w'.pc \in Launched
      PROVE  \/ row'.creds = w'.a
             \/ row'.creds = None /\ w'.a \in calling' /\ row'.token = w'.a
  <2>1. CASE Launch /\ w'.pc = "save" /\ w'.a = w.a
    <3>1. calling' = calling \cup {w.a} /\ UNCHANGED row /\ w.pc = "launch"
      BY <2>1 DEF Launch, RollbackBegins, Idle
    <3> QED BY <1>0, <1>p, <2>1, <3>1 DEF TokenIsLatest
  <2>2. CASE w.pc \in Launched /\ UNCHANGED w /\ Others
    <3>1. w.a \in Attempt /\ row.status = "provisioning"
      BY <1>0, <2>2 DEF WorkerShape, RowIsWorkers, Launched, Working
    <3> QED BY <1>p, <1>3, <2>2, <3>1
  <2>3. CASE /\ w.pc \in Launched /\ w'.a = w.a
             /\ SaveInstance \/ WaitRunning \/ CreateUser
    <3>1. UNCHANGED calling /\ ~MakeToken
      BY <2>3 DEF SaveInstance, WaitRunning, CreateUser, MakeToken, cloud
    <3>2. CASE \E a \in Attempt : Callback(a)
      <4>1. Others /\ UNCHANGED w
        BY <3>2 DEF Others, Callback
      <4> QED BY <2>2, <2>3, <4>1
    <3>3. CASE ~\E a \in Attempt : Callback(a)
      BY <1>p, <2>3, <3>1, <3>3, CredentialsStay DEF Good
    <3> QED BY <3>2, <3>3
  <2> QED BY <1>0, <1>4, <2>1, <2>2, <2>3, Moves DEF Launched
<1>5. ASSUME Finished'
      PROVE  \/ row'.creds = row'.inst
             \/ row'.creds = None /\ row'.inst \in calling' /\ row'.token = row'.inst
  <2>1. CASE Finish /\ w.pc = "finish" /\ w'.pc = "complete"
    <3>1. UNCHANGED calling /\ ~MakeToken /\ row'.inst = w.a
      BY <2>1, WorkerRow DEF Finish, MakeToken, cloud
    <3>2. ~\E a \in Attempt : Callback(a)
      BY <2>1 DEF Callback
    <3> QED BY <1>p, <2>1, <3>1, <3>2, CredentialsStay DEF Launched, Good
  <2>2. CASE Finished /\ Complete
    BY <1>p, <2>2 DEF Complete, cloud, Good
  <2>3. CASE Finished /\ Crash
    <3>1. UNCHANGED calling
      BY <2>3 DEF Crash, cloud
    <3> QED BY <1>p, <2>3, <3>1, OtherRow DEF Good
  <2>4. CASE Finished /\ Others
    <3>1. row.inst \in Attempt /\ row.status = "running" /\ row'.inst = row.inst
      BY <1>0, <2>4, OtherRow DEF RowIsEntered
    <3> QED BY <1>p, <1>3, <2>4, <3>1
  <2> QED BY <1>5, <2>1, <2>2, <2>3, <2>4, FinishedMoves
\* A new token is made for a row without credentials, and nobody can use it yet.
<1>6. ASSUME w'.pc \in {"nsg", "rules", "launch"}
      PROVE  row'.creds = None /\ instances'[w'.a] = "none"
  <2>1. CASE MakeToken /\ w'.a = w.a
    <3>1. row.creds = None
      BY <1>0, <2>1 DEF MakeToken, Excused
    <3>2. row'.creds = row.creds
      BY <1>0, <2>1 DEF MakeToken, SetCredentialsCallbackToken, Row
    <3>3. w.a \in Attempt /\ groups[w.a] = "none" /\ UNCHANGED instances
      BY <1>0, <2>1 DEF MakeToken, WorkerShape, Preparing, cloud
    <3> QED BY <1>0, <2>1, <3>1, <3>2, <3>3 DEF GroupsFirst
  <2>2. CASE (CreateNSG \/ AddDefaultRules) /\ w'.a = w.a /\ w.pc \in {"nsg", "rules"}
    <3>1. UNCHANGED instances /\ row'.creds = row.creds
      BY <1>0, <2>2 DEF CreateNSG, AddDefaultRules, Row
    <3> QED BY <1>p, <2>2, <3>1
  <2>3. CASE UNCHANGED w /\ Others
    <3>0. w.pc \in {"nsg", "rules", "launch"}
      BY <1>6, <2>3
    <3>1. CASE \E a \in Attempt : Callback(a)
      <4>1. PICK a \in Attempt : Callback(a)
        BY <3>1
      <4>2. CASE Consumable(a)
        <5>1. a = w.a
          BY <1>0, <1>p, <1>v, <3>0, <4>2 DEF TokenIsLatest, Consumable
        <5> QED BY <1>p, <3>0, <4>1, <5>1 DEF Callback
      <4>3. CASE UNCHANGED <<row, instances>>
        BY <1>p, <2>3, <3>0, <4>3
      <4> QED BY <1>0, <4>1, <4>2, <4>3, CallbackEffect
    <3>2. CASE ~\E a \in Attempt : Callback(a)
      <4>1. ~MakeToken
        BY <1>0, <2>3 DEF MakeToken, Goto, WorkerRecord
      <4>2. row'.creds = row.creds
        BY <3>2, <4>1, CredentialsStay
      <4>3. instances'[w.a] = instances[w.a]
        <5>1. w.a \in Attempt
          BY <1>0, <3>0 DEF WorkerShape, Preparing, Working
        <5>2. CASE \E c \in Clients : RequestStep(c)
          BY <1>0, <5>2, RequestFrame
        <5>3. CASE UNCHANGED vars
          BY <5>3 DEF vars, cloud
        <5>4. CASE Boot
          BY <1>0, <1>p, <3>0, <5>1, <5>4 DEF Boot, CloudType
        <5> QED BY <2>3, <3>2, <5>2, <5>3, <5>4 DEF Others
      <4> QED BY <1>p, <2>3, <3>0, <4>2, <4>3
    <3> QED BY <3>1, <3>2
  <2> QED BY <1>0, <1>6, <2>1, <2>2, <2>3, Moves
<1> QED BY <1>4, <1>5, <1>6 DEF Good

-----------------------------------------------------------------------------
(* The theorems.                                                           *)

\* The invariant holds of every state that the worker, the instance, the requests
\* and start-up can reach.
THEOREM Inductive == Spec => []IInv
<1>1. IInv /\ [Next]_vars => IInv'
  BY TypeStep, WorkerShapeStep, GroupsStep, InstancesStep, RequestShapeStep, CopiesStep,
     TokenStep, KeyStep, RowStep, CopyStep, EnteredStep, PasswordStep, RulesStep, CallStep
     DEF IInv
<1> QED BY <1>1, InitIInv, PTL DEF Spec

\* ConsumeCredentialsCallback and Update: credentials that were delivered are neither
\* replaced nor lost, whatever copies of the row are written over them.
THEOREM KeptOnceDelivered == Spec => CredentialsAreKept
<1>1. IInv /\ [Next]_vars => [row.creds # None => row'.creds = row.creds]_row
  BY CredentialsEffect
<1> QED BY <1>1, Inductive, PTL DEF Spec, CredentialsAreKept

\* SetCredentialsCallbackToken: whoever delivers credentials has the token of the
\* latest attempt, and no later one has launched an instance.
THEOREM DeliveredByLatest == Spec => CredentialsOfLatest
<1>1. ASSUME IInv, [Next]_vars
      PROVE  [row.creds = None /\ row'.creds # None =>
                \A a \in Attempt : a > row'.creds => instances[a] = "none"]_row
  <2>1. \A a \in Attempt : a # None
    BY Values DEF None
  <2>2. TokenIsLatest
    BY <1>1 DEF IInv
  <2>3. ASSUME row.creds = None, row'.creds # None, NEW a \in Attempt, a > row'.creds
        PROVE  instances[a] = "none"
    BY <1>1, <2>1, <2>2, <2>3, CredentialsEffect DEF TokenIsLatest
  <2> QED BY <2>3
<1> QED BY <1>1, Inductive, PTL DEF Spec, CredentialsOfLatest

\* dialSSHWithHostKeyPin: the user gets a password on no host but the one whose key
\* is pinned.
THEOREM OnlyPinnedHost == Spec => []OneHostKey
<1>1. IInv => OneHostKey
  BY DEF IInv
<1> QED BY <1>1, Inductive, PTL

\* A VPS that may be used has a worker that finished.
LEMMA UsableIsFinished ==
  IInv /\ Usable => /\ Finished /\ "row" \notin excuse
                    /\ row.inst \in Attempt /\ row.key = row.inst
                    /\ row.ip = row.inst /\ row.pin = row.inst
BY DEF IInv, Usable, Quiet, Finished, RowIsWorkers, RowIsEntered

\* ProvisionVPS, repeated or not: the row of a VPS that is running names the instance
\* that its key opens, its address and its host key.
THEOREM RowEnters == Spec => []EntryMatches
<1>1. IInv => EntryMatches
  BY UsableIsFinished DEF EntryMatches
<1> QED BY <1>1, Inductive, PTL

\* ResetPassword: the stored password is the one in force, when no reset was cut
\* short or met another.
THEOREM StoredIsInForce == Spec => []PasswordMatches
<1>1. IInv => PasswordMatches
  BY UsableIsFinished DEF PasswordMatches, PasswordFollows, IInv
<1> QED BY <1>1, Inductive, PTL

\* UpdateFirewallRules: the rules in force are those last asked for, when no change
\* failed half way or met another.
THEOREM RulesAsAsked == Spec => []FirewallAsAsked
<1>1. IInv => FirewallAsAsked
  BY UsableIsFinished DEF FirewallAsAsked, RulesFollow, IInv
<1> QED BY <1>1, Inductive, PTL

\* HandleCredentialsCallback: when an instance that runs has had its answer, the
\* credentials of the row are its own, unless those of an earlier attempt were there
\* when its token was made.
THEOREM AnsweredMeansDelivered == Spec => []CredentialsArrive
<1>1. IInv => CredentialsArrive
  BY UsableIsFinished, Values DEF CredentialsArrive, CallIsGood, Good, IInv
<1> QED BY <1>1, Inductive, PTL
=============================================================================
