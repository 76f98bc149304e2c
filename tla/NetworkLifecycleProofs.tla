----------------------- MODULE NetworkLifecycleProofs -----------------------
(***************************************************************************)
(* What holds of NetworkLifecycle for every number of resources, jobs,     *)
(* attempts, clients and faults.                                           *)
(***************************************************************************)
EXTENDS NetworkLifecycle, FiniteSetTheorems, SequenceTheorems,
        WellFoundedInduction, TLAPS

-----------------------------------------------------------------------------
(* The inductive invariant.                                                *)

MaybeOCID == OCID \cup {NoOCID}

WorkerPc == {"idle", "begin", "lookup", "create", "track", "route_read",
             "route_write", "result", "complete", "rollback", "error"}

WorkerRecord == [pc : WorkerPc, job : Request \cup {0}, step : Type,
                 new : MaybeOCID, got : [Type -> MaybeOCID],
                 rules : SUBSET OCID, todo : Seq(OCID),
                 after : {"none", "error", "give_up", "serve"}]

Types ==
  /\ w \in WorkerRecord
  /\ rows \in Seq([ocid : OCID, deleted : BOOLEAN])

\* A resource known to somebody was made: the next ones have other numbers.
Known(o) == o.vcn <= made["vcn"] /\ (o \in OCID => o.n <= made[o.type])

AllKnown ==
  /\ \A o \in live : Known(o)
  /\ \A i \in DOMAIN rows : Known(rows[i].ocid)
  /\ Known(w.new) /\ \A t \in Type : Known(w.got[t])
  /\ Known(net.vcn) /\ \A c \in Clients : Known(d[c].vcn)

\* Who asks for a resource of some type has one of that type.
Is(t, o) == o = NoOCID \/ o.type = t

Kinds ==
  /\ \A t \in Type : Is(t, w.got[t])
  /\ w.pc = "track" => w.new \in OCID /\ w.new.type = w.step
  /\ Is("vcn", net.vcn)
  /\ \A c \in Clients : Is("vcn", d[c].vcn)

\* A job that is not over has attempts left, and the worker's is running.
JobsShape ==
  /\ \A j \in Request :
       jobs[j].state \in {"absent", "pending", "running"} =>
         jobs[j].attempts < MaxAttempts
  /\ w.pc # "idle" =>
       \/ w.job \in Request /\ jobs[w.job].state = "running"
       \/ w.pc = "rollback" /\ w.after = "serve"

\* The row of a VCN comes before those of what is in it.
RowsOrder ==
  /\ \A i, j \in DOMAIN rows :
       /\ rows[i].ocid.type = "vcn"
       /\ rows[j].ocid.type # "vcn"
       /\ rows[i].ocid.vcn = rows[j].ocid.vcn
       => i < j
  /\ w.pc = "track" /\ w.new.type = "vcn" =>
       \A i \in DOMAIN rows : rows[i].ocid.vcn # w.new.vcn

\* What a fault has hidden from the database.
Hidden == Untracked \ (IF w.pc = "track" THEN {w.new} ELSE {})

HiddenByFault == net.exists => Cardinality(Hidden) <= faults

-----------------------------------------------------------------------------
(* Without deletions and database failures.                                *)

Undisturbed == Clients = {} /\ "db" \notin Events

Past(steps) == w.pc \in {"lookup", "create", "track"} /\ w.step \in steps

\* What the worker has when it has come to a step.
Progress ==
  /\ w.pc = "track" => /\ w.new \in live
                       /\ w.step # "vcn" => w.new.vcn = VCN.vcn
  /\ \/ Past({"igw", "security_list", "subnet"})
     \/ w.pc \in {"route_read", "route_write", "result"}
     => VCN \in live
  /\ \/ Past({"security_list", "subnet"})
     \/ w.pc \in {"route_read", "route_write", "result"}
     => w.got["igw"] \in Managed("igw", VCN)
  /\ Past({"security_list", "subnet"}) \/ w.pc = "result" =>
       w.got["igw"] \in routes
  /\ Past({"subnet"}) \/ w.pc = "result" =>
       w.got["security_list"] \in Managed("security_list", VCN)
  /\ w.pc = "route_write" => w.rules = Rules(VCN)
  /\ w.pc = "result" =>
       /\ w.got["subnet"] \in OCID
       /\ \E i \in DOMAIN rows : rows[i].ocid = w.got["subnet"]

\* A network that is ready is left alone until a job begins.
ReadyIsQuiet ==
  /\ net.exists
  /\ net.status = "ready" =>
       /\ w.pc \in {"idle", "begin", "complete"}
       /\ \E i \in DOMAIN rows : rows[i].ocid = net.subnet

\* Whatever a rollback deletes, it marks.
DeadIsMarked ==
  \A i \in DOMAIN rows : rows[i].ocid \in live \/ rows[i].deleted

UndisturbedInv ==
  Undisturbed => Progress /\ ReadyIsQuiet /\ DeadIsMarked /\ ReadyIsRouted

IInv ==
  /\ TypeOK /\ Types /\ JobsShape /\ AllKnown /\ Kinds
  /\ RowsOrder /\ DependentsFirst
  /\ HiddenByFault
  /\ RecordOutlivesVCN
  /\ UndisturbedInv

-----------------------------------------------------------------------------
(* Types.                                                                  *)

NetRecord == [exists : BOOLEAN, status : NetStatus,
              vcn : MaybeOCID, subnet : MaybeOCID]

JobRecord == [state : {"absent", "pending", "running", "complete", "failed"},
              attempts : 0..MaxAttempts]

CallPc == {"off", "mark", "route_read", "route_write", "route_wait", "igw",
           "subnet", "subnet_wait", "lists", "list", "vcn", "record", "revert"}

CallRecord == [pc : CallPc, prev : NetStatus, vcn : MaybeOCID,
               subnet : MaybeOCID, rules : SUBSET OCID, todo : SUBSET OCID,
               errs : BOOLEAN]

RowRecord == [ocid : OCID, deleted : BOOLEAN]

Typed ==
  /\ CloudOK
  /\ net \in NetRecord
  /\ rows \in Seq(RowRecord)
  /\ vps \in {"none", "checked", "row"}
  /\ jobs \in [Request -> JobRecord]
  /\ phase \in {"down", "boot", "serving"}
  /\ w \in WorkerRecord
  /\ d \in [Clients -> CallRecord]
  /\ faults \in 0..MaxFaults
  /\ forgone \in 0..faults

\* The type invariant and what the proofs need besides it.
LEMMA TypeParts == TypeOK /\ Types <=> Typed
<1>1. ASSUME Typed PROVE TypeOK /\ Types
  <2>1. \A i \in DOMAIN rows : rows[i] \in RowRecord
    BY <1>1, ElementOfSeq, LenProperties DEF Typed
  <2>2. \A i \in DOMAIN w.todo : w.todo[i] \in OCID
    <3>1. w.todo \in Seq(OCID)
      BY <1>1 DEF Typed, WorkerRecord
    <3> QED BY <3>1, ElementOfSeq, LenProperties
  <2>3. /\ w.pc \in WorkerPc /\ w.job \in Request \cup {0} /\ w.step \in Type
        /\ w.new \in MaybeOCID /\ w.got \in [Type -> MaybeOCID]
        /\ w.rules \subseteq OCID
        /\ w.after \in {"none", "error", "give_up", "serve"}
    BY <1>1 DEF Typed, WorkerRecord
  <2> QED BY <1>1, <2>1, <2>2, <2>3
          DEF Typed, TypeOK, Types, MaybeOCID, NetRecord, JobRecord, CallRecord, CallPc,
              RowRecord, WorkerPc
<1>2. ASSUME TypeOK, Types PROVE Typed
  BY <1>2 DEF Typed, TypeOK, Types, MaybeOCID, NetRecord, JobRecord, CallRecord, CallPc,
              RowRecord
<1> QED BY <1>1, <1>2

\* A resource is known by its type, its number and its VCN.
LEMMA OCIDFacts ==
  /\ \A o \in OCID : /\ o.type \in Type /\ o.n \in 1..MaxGen /\ o.vcn \in 1..MaxGen
                     /\ o.type = "vcn" => o.vcn = o.n
                     /\ o.n \in Nat /\ o.vcn \in Nat
  /\ \A o, p \in OCID : o.type = p.type /\ o.n = p.n /\ o.vcn = p.vcn => o = p
  /\ NoOCID \notin OCID /\ NoOCID.vcn = 0 /\ NoOCID.type = "none"
  /\ {"vcn", "igw", "security_list", "subnet"} = Type
BY GenAssumption DEF OCID, NoOCID, Type

\* There are finitely many resources within the bound.
LEMMA OCIDsAreFinite == IsFiniteSet(OCID)
<1> DEFINE N == 1..MaxGen
           f == [p \in (Type \X N) \X N |->
                   [type |-> p[1][1], n |-> p[1][2], vcn |-> p[2]]]
           All == [type : Type, n : N, vcn : N]
<1>1. IsFiniteSet(N)
  BY GenAssumption, FS_Interval
<1>2. IsFiniteSet(Type)
  <2>1. Type = (({} \cup {"vcn"}) \cup {"igw"}) \cup {"security_list"} \cup {"subnet"}
    BY DEF Type
  <2> QED BY <2>1, FS_EmptySet, FS_AddElement, Zenon
<1>3. IsFiniteSet((Type \X N) \X N)
  <2> HIDE DEF N
  <2> QED BY <1>1, <1>2, FS_Product
<1>4. f \in Surjection((Type \X N) \X N, All)
  <2>1. ASSUME NEW r \in All PROVE \E p \in (Type \X N) \X N : f[p] = r
    <3>1. r.type \in Type /\ r.n \in N /\ r.vcn \in N
      OBVIOUS
    <3>2. <<<<r.type, r.n>>, r.vcn>> \in (Type \X N) \X N
      BY <3>1
    <3>3. f[<<<<r.type, r.n>>, r.vcn>>] = [type |-> r.type, n |-> r.n, vcn |-> r.vcn]
      BY <3>2
    <3>4. r = [type |-> r.type, n |-> r.n, vcn |-> r.vcn]
      OBVIOUS
    <3> QED BY <3>2, <3>3, <3>4
  <2>2. f \in [(Type \X N) \X N -> All]
    OBVIOUS
  <2> QED BY <2>1, <2>2, Zenon DEF Surjection
<1>5. IsFiniteSet(All)
  <2> HIDE DEF N, f, All
  <2> QED BY <1>3, <1>4, FS_Surjection
<1> QED BY <1>5, FS_Subset DEF OCID

\* So there are in the cloud.
LEMMA FiniteCloud == CloudOK => IsFiniteSet(live)
BY OCIDsAreFinite, FS_Subset DEF CloudOK

\* Min is the least element of a set of numbers that is not empty.
LEMMA MinInSet ==
  ASSUME NEW S \in SUBSET Nat, S # {}
  PROVE  Min(S) \in S /\ \A y \in S : Min(S) <= y
<1> DEFINE R == OpToRel(<, Nat)
<1>1. IsWellFoundedOn(R, Nat)
  BY NatLessThanWellFounded
<1>2. \E x \in S : \A y \in S : <<y, x>> \notin R
  <2> HIDE DEF R
  <2> QED BY <1>1, WFMin
<1>3. \E x \in S : \A y \in S : x <= y
  <2>1. PICK x \in S : \A y \in S : <<y, x>> \notin R
    BY <1>2
  <2>2. \A y \in S : ~(y < x)
    <3>1. \A y \in S : <<y, x>> \in Nat \X Nat
      OBVIOUS
    <3> QED BY <2>1, <3>1 DEF OpToRel
  <2> QED BY <2>2
<1> QED BY <1>3 DEF Min

\* The rows are a sequence: their numbers, and the OCID in each.
LEMMA RowsFacts ==
  ASSUME rows \in Seq(RowRecord)
  PROVE  /\ Len(rows) \in Nat /\ DOMAIN rows = 1..Len(rows)
         /\ DOMAIN rows \subseteq Nat
         /\ \A i \in DOMAIN rows : rows[i].ocid \in OCID
<1>1. Len(rows) \in Nat /\ DOMAIN rows = 1..Len(rows)
  BY LenProperties
<1>2. \A i \in DOMAIN rows : rows[i] \in RowRecord
  BY <1>1, ElementOfSeq
<1> QED BY <1>1, <1>2 DEF RowRecord

\* GetByNetworkAndType gives a resource of the type that has a row.
LEMMA RecordedFacts ==
  ASSUME rows \in Seq(RowRecord), NEW t \in Type
  PROVE  /\ Recorded(t) \in MaybeOCID /\ Is(t, Recorded(t))
         /\ Recorded(t) # NoOCID =>
              /\ Recorded(t) \in OCID
              /\ \E i \in DOMAIN rows : rows[i].ocid = Recorded(t)
<1> DEFINE S == {i \in DOMAIN rows : rows[i].ocid.type = t}
<1>1. Recorded(t) = IF S = {} THEN NoOCID ELSE rows[Min(S)].ocid
  BY DEF Recorded
<1>2. CASE S = {}
  BY <1>1, <1>2 DEF MaybeOCID, Is
<1>3. CASE S # {}
  <2>1. S \in SUBSET Nat
    BY RowsFacts
  <2>2. Min(S) \in S
    <3> HIDE DEF S
    <3> QED BY <1>3, <2>1, MinInSet
  <2>3. Min(S) \in DOMAIN rows /\ rows[Min(S)].ocid.type = t
    BY <2>2
  <2> HIDE DEF S
  <2> QED BY <1>1, <1>3, <2>3, RowsFacts DEF MaybeOCID, Is
<1> QED BY <1>2, <1>3

\* What a creation returns.
LEMMA FreshFacts ==
  ASSUME CloudOK, NEW t \in Type, NEW v \in MaybeOCID, Creatable(t, v)
  PROVE  /\ Fresh(t, v) \in OCID /\ Fresh(t, v).type = t
         /\ Fresh(t, v).n = made[t] + 1
         /\ t = "vcn" => Fresh(t, v).vcn = made["vcn"] + 1
         /\ t # "vcn" => Fresh(t, v).vcn = v.vcn /\ v \in live
         /\ made[t] \in Nat /\ made["vcn"] \in Nat
<1>1. made[t] \in 0..MaxGen /\ made[t] < MaxGen /\ made["vcn"] \in 0..MaxGen
  BY OCIDFacts DEF CloudOK, Creatable
<1>2. t # "vcn" => v \in live /\ v \in OCID
  BY DEF Creatable, CloudOK
<1>3. made[t] + 1 \in 1..MaxGen
  BY <1>1, GenAssumption
<1>4. CASE t = "vcn"
  BY <1>1, <1>3, <1>4 DEF Fresh, OCID
<1>5. CASE t # "vcn"
  BY <1>1, <1>2, <1>3, <1>5, OCIDFacts DEF Fresh, OCID
<1> QED BY <1>4, <1>5

-----------------------------------------------------------------------------
(* What the steps change.                                                  *)

\* What a deletion makes of its record is a record.
LEMMA CallWrites ==
  /\ Off \in CallRecord /\ Off.pc = "off" /\ Off.vcn = NoOCID
  /\ \A v \in CallRecord, pc \in CallPc :
       /\ [v EXCEPT !.pc = pc] \in CallRecord
       /\ \A s \in SUBSET OCID : /\ [v EXCEPT !.todo = s] \in CallRecord
                                 /\ [v EXCEPT !.pc = pc, !.todo = s] \in CallRecord
                                 /\ [v EXCEPT !.todo = s, !.errs = TRUE] \in CallRecord
       /\ \A s, r \in SUBSET OCID :
            [v EXCEPT !.pc = pc, !.todo = s, !.rules = r] \in CallRecord
  /\ \A s \in NetStatus, o, p \in MaybeOCID :
       [Off EXCEPT !.pc = "mark", !.prev = s, !.vcn = o, !.subnet = p] \in CallRecord
<1>1. Off \in CallRecord /\ Off.pc = "off" /\ Off.vcn = NoOCID
  BY DEF Off, CallRecord, CallPc, MaybeOCID, NetStatus
<1>2. ASSUME NEW v \in CallRecord, NEW pc \in CallPc
      PROVE  /\ [v EXCEPT !.pc = pc] \in CallRecord
             /\ \A s \in SUBSET OCID : /\ [v EXCEPT !.todo = s] \in CallRecord
                                       /\ [v EXCEPT !.pc = pc, !.todo = s] \in CallRecord
                                       /\ [v EXCEPT !.todo = s, !.errs = TRUE] \in CallRecord
             /\ \A s, r \in SUBSET OCID :
                  [v EXCEPT !.pc = pc, !.todo = s, !.rules = r] \in CallRecord
  BY DEF CallRecord
<1>3. ASSUME NEW s \in NetStatus, NEW o \in MaybeOCID, NEW p \in MaybeOCID
      PROVE  [Off EXCEPT !.pc = "mark", !.prev = s, !.vcn = o, !.subnet = p] \in CallRecord
  BY <1>1 DEF CallRecord, CallPc
<1> QED BY <1>1, <1>2, <1>3

\* Where a deletion goes next it has the VCN that it read.
LEMMA CallFields ==
  \A v \in CallRecord : \A pc, s, r :
    /\ [v EXCEPT !.pc = pc].pc = pc
    /\ [v EXCEPT !.pc = pc].vcn = v.vcn
    /\ [v EXCEPT !.pc = pc, !.todo = s].pc = pc
    /\ [v EXCEPT !.pc = pc, !.todo = s].vcn = v.vcn
    /\ [v EXCEPT !.todo = s].pc = v.pc
    /\ [v EXCEPT !.todo = s].vcn = v.vcn
    /\ [v EXCEPT !.todo = s, !.errs = TRUE].pc = v.pc
    /\ [v EXCEPT !.todo = s, !.errs = TRUE].vcn = v.vcn
    /\ [v EXCEPT !.pc = pc, !.todo = s, !.rules = r].pc = pc
    /\ [v EXCEPT !.pc = pc, !.todo = s, !.rules = r].vcn = v.vcn
BY DEF CallRecord

\* UpdateStatus changes the status of a record that is there, and nothing else.
LEMMA NetWrites ==
  ASSUME net \in NetRecord
  PROVE  /\ net.exists \in BOOLEAN /\ net.status \in NetStatus
         /\ net.vcn \in MaybeOCID /\ net.subnet \in MaybeOCID
         /\ \A s \in NetStatus : StatusSet(s) =>
              /\ net' \in NetRecord
              /\ net'.exists = net.exists /\ net'.vcn = net.vcn
              /\ net'.subnet = net.subnet
              /\ net'.status = IF net.exists THEN s ELSE net.status
BY DEF NetRecord, StatusSet

\* Faults are never taken back.
Counted ==
  /\ faults' \in 0..MaxFaults /\ faults' >= faults
  /\ forgone' \in 0..faults' /\ forgone' >= forgone

OneFault == faults' = faults + 1

OneForgone == OneFault /\ forgone' = forgone + 1

\* A fault is counted, within the bound.
LEMMA FaultCounts ==
  ASSUME faults \in 0..MaxFaults, forgone \in 0..faults
  PROVE  /\ \A e : Fault(e) \/ Forgoes(e) => Counted /\ OneFault /\ e \in Events
         /\ \A e : Forgoes(e) => OneForgone
         /\ UNCHANGED <<faults, forgone>> => Counted
         /\ NoFault => Counted /\ faults' = faults
         /\ faults \in Nat
BY NetworkAssumption DEF Fault, Forgoes, Happens, NoFault, Counted, OneFault, OneForgone

\* The cloud loses a resource or gets another route table.
Shrinks ==
  /\ live' \subseteq live /\ made' = made
  /\ routes' \in SUBSET OCID /\ ending' \in SUBSET OCID

\* A deletion and a change of the route table bring nothing into the cloud.
LEMMA CloudShrinks ==
  ASSUME CloudOK
  PROVE  /\ UNCHANGED cloud => Shrinks
         /\ UNCHANGED solid /\ ending' \subseteq ending => Shrinks
         /\ \A o \in live : Deleted(o) => Shrinks
         /\ \A v, r : RoutesSet(v, r) /\ r \subseteq OCID => Shrinks
BY DEF CloudOK, Shrinks, cloud, solid, Deleted, RoutesSet

\* A step of somebody who is not the worker.
Elsewhere ==
  /\ w' = w
  /\ \/ rows' = rows
     \/ rows' = <<>> /\ ~net'.exists
  /\ Shrinks
  /\ net' \in NetRecord /\ net'.vcn = net.vcn
  /\ net'.exists => net.exists
  /\ Counted

\* What the call of client c turns into.
Calls(c) ==
  /\ \/ d'[c].vcn = d[c].vcn
     \/ d'[c].vcn = NoOCID /\ d'[c].pc = "off"
     \/ d'[c].vcn = net.vcn /\ d'[c].pc = "mark"
  /\ d'[c].pc = "record" =>
       /\ d'[c].vcn = d[c].vcn
       /\ \/ d[c].pc = "record"
          \/ d[c].vcn = NoOCID
          \/ Deletable(d[c].vcn) /\ Deleted(d[c].vcn)

AllCall == d' \in [Clients -> CallRecord] /\ \A c \in Clients : Calls(c)

\* The fields of a deletion's record.
LEMMA CallTypes ==
  ASSUME Typed, NEW c \in Clients
  PROVE  /\ d[c] \in CallRecord
         /\ d[c].vcn \in MaybeOCID /\ d[c].subnet \in MaybeOCID
         /\ d[c].rules \subseteq OCID /\ d[c].todo \subseteq OCID
         /\ d[c].pc \in CallPc /\ d[c].prev \in NetStatus
<1>1. d[c] \in CallRecord
  BY DEF Typed
<1> QED BY <1>1 DEF CallRecord

\* The call goes on elsewhere, with the same values.
LEMMA GoesOn ==
  ASSUME Typed, NEW c \in Clients, NEW x \in CallRecord, d' = [d EXCEPT ![c] = x],
         \/ x.vcn = d[c].vcn
         \/ x.vcn = NoOCID /\ x.pc = "off"
         \/ x.vcn = net.vcn /\ x.pc = "mark",
         x.pc = "record" =>
           /\ x.vcn = d[c].vcn
           /\ \/ d[c].vcn = NoOCID
              \/ Deletable(d[c].vcn) /\ Deleted(d[c].vcn)
  PROVE  AllCall
<1>1. d'[c] = x /\ (\A e \in Clients \ {c} : d'[e] = d[e]) /\ d' \in [Clients -> CallRecord]
  BY DEF Typed
<1>2. Calls(c) /\ \A e \in Clients \ {c} : Calls(e)
  BY <1>1 DEF Calls
<1> QED BY <1>1, <1>2 DEF AllCall

\* A deletion that goes on, except to the record, is a call of its client.
LEMMA GoesSimply ==
  ASSUME Typed, NEW c \in Clients, NEW pc \in CallPc \ {"record"}, Goes(c, pc)
  PROVE  AllCall
<1> DEFINE x == [d[c] EXCEPT !.pc = pc]
<1>1. d' = [d EXCEPT ![c] = x]
  BY DEF Goes, Typed
<1>2. x \in CallRecord /\ x.pc = pc /\ x.vcn = d[c].vcn
  BY CallWrites, CallTypes, ZenonT(60) DEF CallRecord
<1> HIDE DEF x
<1> QED BY <1>1, <1>2, GoesOn

\* So is one that ends.
LEMMA Ends ==
  ASSUME Typed, NEW c \in Clients, d' = [d EXCEPT ![c] = Off]
  PROVE  AllCall
BY CallWrites, GoesOn

\* A step that leaves the worker, the rows and the record alone is elsewhere.
LEMMA Untouched ==
  ASSUME Typed, UNCHANGED Here, Shrinks, Counted
  PROVE  Elsewhere
<1>1. w' = w /\ rows' = rows /\ net' = net
  BY DEF Here
<1>2. net \in NetRecord
  BY DEF Typed
<1> QED BY <1>1, <1>2 DEF Elsewhere

\* Faults are never taken back.
LEMMA FaultsGrow ==
  ASSUME Typed, NoFault \/ \E e : Fault(e) \/ Forgoes(e)
  PROVE  Counted
<1>1. faults \in 0..MaxFaults /\ forgone \in 0..faults
  BY DEF Typed
<1> QED BY <1>1, FaultCounts

\* What DestroyNetwork finds in a VCN are resources.
LEMMA ManagedType == CloudOK => \A t, v : Managed(t, v) \in SUBSET OCID
BY DEF CloudOK, Managed, Children

\* Requests, and every step of a deletion, leave the worker and its record alone.
LEMMA DestroyEffect ==
  ASSUME Typed, NEW c \in Clients, DestroyRequest(c) \/ DestroyStep(c) \/ Disconnect(c)
  PROVE  Elsewhere /\ AllCall
<1>0. /\ CloudOK /\ net \in NetRecord /\ d[c] \in CallRecord
      /\ d[c].rules \subseteq OCID /\ d[c].todo \subseteq OCID /\ d[c].pc \in CallPc
      /\ d[c].vcn \in MaybeOCID /\ d[c].prev \in NetStatus
      /\ \A t, v : Managed(t, v) \in SUBSET OCID
  BY CallTypes, ManagedType DEF Typed
<1>1. CASE DestroyRequest(c)
  <2> DEFINE x == [Off EXCEPT !.pc = "mark", !.prev = net.status,
                              !.vcn = net.vcn, !.subnet = net.subnet]
  <2>1. d' = [d EXCEPT ![c] = x] /\ UNCHANGED <<Here, cloud>> /\ NoFault
    BY <1>1 DEF DestroyRequest, NoFault
  <2>2. x \in CallRecord /\ x.pc = "mark" /\ x.vcn = net.vcn
    <3>1. net.status \in NetStatus /\ net.vcn \in MaybeOCID /\ net.subnet \in MaybeOCID
      BY <1>0, NetWrites
    <3>2. x \in CallRecord
      BY <3>1, CallWrites
    <3> QED BY <3>1, <3>2 DEF Off
  <2> HIDE DEF x
  <2>3. AllCall
    BY <2>1, <2>2, GoesOn
  <2>4. Counted
    BY <2>1, FaultsGrow
  <2>5. Shrinks
    BY <2>1, <1>0, CloudShrinks
  <2> QED BY <2>1, <2>3, <2>4, <2>5, Untouched
<1>2. CASE DestroyMark(c)
  <2>1. /\ StatusSet("destroying") \/ UNCHANGED net
        /\ UNCHANGED <<rows, vps, jobs, phase, w, cloud>>
    BY <1>2 DEF DestroyMark
  <2>2. "destroying" \in NetStatus
    BY DEF NetStatus
  <2>3. /\ net' \in NetRecord /\ net'.vcn = net.vcn /\ net'.exists = net.exists
        /\ Shrinks /\ Counted
    BY <1>0, <2>1, <2>2, <1>2, NetWrites, CloudShrinks, FaultsGrow DEF DestroyMark
  <2>4. Elsewhere
    BY <2>1, <2>3 DEF Elsewhere
  <2>5. AllCall
    <3>1. CASE Goes(c, "record") /\ d[c].vcn = NoOCID
      <4> DEFINE x == [d[c] EXCEPT !.pc = "record"]
      <4>1. d' = [d EXCEPT ![c] = x] /\ x \in CallRecord /\ x.vcn = d[c].vcn
        BY <3>1, <1>0, CallWrites, CallFields, ZenonT(60) DEF Goes, CallPc, Typed
      <4> HIDE DEF x
      <4> QED BY <4>1, <3>1, GoesOn
    <3>2. CASE Goes(c, "route_read") \/ Goes(c, "revert")
      BY <3>2, GoesSimply DEF CallPc
    <3> QED BY <3>1, <3>2, <1>2 DEF DestroyMark
  <2> QED BY <2>4, <2>5
<1>3. CASE RouteClearRead(c)
  <2>1. /\ UNCHANGED <<Here, cloud>> /\ (NoFault \/ Fault("oci"))
    BY <1>3 DEF RouteClearRead
  <2>2. CASE Goes(c, "igw") \/ Goes(c, "revert")
    BY <2>1, <2>2, <1>0, GoesSimply, Untouched, CloudShrinks, FaultsGrow DEF CallPc
  <2>3. CASE \E m, r \in SUBSET OCID :
               d' = [d EXCEPT ![c].pc = "route_write", ![c].todo = m, ![c].rules = r]
    <3>1. PICK m, r \in SUBSET OCID :
               d' = [d EXCEPT ![c].pc = "route_write", ![c].todo = m, ![c].rules = r]
      BY <2>3
    <3> DEFINE x == [d[c] EXCEPT !.pc = "route_write", !.todo = m, !.rules = r]
    <3>2. d' = [d EXCEPT ![c] = x]
      BY <3>1 DEF Typed
    <3>3. x \in CallRecord
      BY <1>0, CallWrites DEF CallPc
    <3>4. x.pc = "route_write" /\ x.vcn = d[c].vcn
      BY <1>0, CallFields
    <3> HIDE DEF x
    <3> QED BY <3>2, <3>3, <3>4, <2>1, <1>0, GoesOn, Untouched, CloudShrinks, FaultsGrow
  <2>4. Managed("igw", d[c].vcn) \in SUBSET OCID
        /\ Rules(d[c].vcn) \ Managed("igw", d[c].vcn) \in SUBSET OCID
    BY <1>0 DEF CloudOK, Rules
  <2> QED BY <2>2, <2>3, <2>4, <1>3 DEF RouteClearRead
<1>4. CASE RouteClearWrite(c)
  <2>1. /\ UNCHANGED Here /\ (NoFault \/ Fault("oci"))
        /\ Goes(c, "route_wait") \/ Goes(c, "revert")
        /\ UNCHANGED cloud \/ RoutesSet(d[c].vcn, d[c].rules)
    BY <1>4 DEF RouteClearWrite
  <2> QED BY <2>1, <1>0, GoesSimply, Untouched, CloudShrinks, FaultsGrow DEF CallPc
<1>5. CASE RouteClearWait(c)
  <2>1. /\ UNCHANGED <<Here, cloud>> /\ (NoFault \/ Fault("oci"))
        /\ Goes(c, "igw") \/ Goes(c, "revert")
    BY <1>5 DEF RouteClearWait
  <2> QED BY <2>1, <1>0, GoesSimply, Untouched, CloudShrinks, FaultsGrow DEF CallPc
<1>6. CASE DestroyIGW(c)
  <2>1. /\ UNCHANGED Here /\ (NoFault \/ Fault("oci"))
        /\ Goes(c, "subnet") \/ Goes(c, "revert")
        /\ UNCHANGED cloud \/ \E o \in live : Deleted(o)
    BY <1>6 DEF DestroyIGW, Deletes, Deletable
  <2> QED BY <2>1, <1>0, GoesSimply, Untouched, CloudShrinks, FaultsGrow DEF CallPc
<1>7. CASE DestroySubnet(c)
  <2>1. /\ UNCHANGED Here /\ (NoFault \/ Fault("oci"))
        /\ Goes(c, "subnet_wait") \/ Goes(c, "revert")
        /\ UNCHANGED cloud \/ \E o \in live : Deleted(o)
    BY <1>7 DEF DestroySubnet, Deletes, Deletable
  <2> QED BY <2>1, <1>0, GoesSimply, Untouched, CloudShrinks, FaultsGrow DEF CallPc
<1>14. CASE SubnetWait(c)
  <2>1. /\ UNCHANGED <<Here, cloud>> /\ (NoFault \/ Fault("oci"))
        /\ Goes(c, "lists") \/ Goes(c, "revert")
    BY <1>14 DEF SubnetWait
  <2> QED BY <2>1, <1>0, GoesSimply, Untouched, CloudShrinks, FaultsGrow DEF CallPc
<1>8. CASE ListLists(c)
  <2>1. /\ UNCHANGED <<Here, cloud>> /\ (NoFault \/ Fault("oci"))
    BY <1>8 DEF ListLists
  <2>2. CASE Goes(c, "revert")
    BY <2>1, <2>2, <1>0, GoesSimply, Untouched, CloudShrinks, FaultsGrow DEF CallPc
  <2>3. CASE d' = [d EXCEPT ![c].pc = "list",
                            ![c].todo = Managed("security_list", d[c].vcn)]
    <3> DEFINE m == Managed("security_list", d[c].vcn)
               x == [d[c] EXCEPT !.pc = "list", !.todo = m]
    <3>1. m \in SUBSET OCID
      BY <1>0
    <3>2. d' = [d EXCEPT ![c] = x]
      BY <2>3 DEF Typed
    <3>3. x \in CallRecord
      <4> HIDE DEF m
      <4> QED BY <1>0, <3>1, CallWrites DEF CallPc
    <3>4. x.pc = "list" /\ x.vcn = d[c].vcn
      <4> HIDE DEF m
      <4> QED BY <1>0, CallFields
    <3> HIDE DEF x
    <3> QED BY <3>2, <3>3, <3>4, <2>1, <1>0, GoesOn, Untouched, CloudShrinks, FaultsGrow
  <2> QED BY <2>2, <2>3, <1>8 DEF ListLists
<1>9. CASE DestroyList(c)
  <2>1. /\ UNCHANGED Here /\ (NoFault \/ Fault("oci"))
        /\ UNCHANGED cloud \/ \E o \in live : Deleted(o)
    BY <1>9 DEF DestroyList, Deletable
  <2>2. CASE Goes(c, "revert") \/ Goes(c, "vcn")
    BY <2>1, <2>2, <1>0, GoesSimply, Untouched, CloudShrinks, FaultsGrow DEF CallPc
  <2>3. CASE d[c].pc = "list" /\ \E s \in SUBSET OCID :
                                   \/ d' = [d EXCEPT ![c].todo = s]
                                   \/ d' = [d EXCEPT ![c].todo = s, ![c].errs = TRUE]
    <3>1. PICK s \in SUBSET OCID : \/ d' = [d EXCEPT ![c].todo = s]
                                   \/ d' = [d EXCEPT ![c].todo = s, ![c].errs = TRUE]
      BY <2>3
    <3> DEFINE x == [d[c] EXCEPT !.todo = s]
               y == [d[c] EXCEPT !.todo = s, !.errs = TRUE]
    <3>2. d' = [d EXCEPT ![c] = x] \/ d' = [d EXCEPT ![c] = y]
      BY <3>1 DEF Typed
    <3>3. /\ x \in CallRecord /\ x.pc = "list" /\ x.vcn = d[c].vcn
          /\ y \in CallRecord /\ y.pc = "list" /\ y.vcn = d[c].vcn
      BY <1>0, <2>3, CallWrites, CallFields, ZenonT(60) DEF CallPc
    <3> HIDE DEF x, y
    <3> QED BY <3>2, <3>3, <2>1, <1>0, GoesOn, Untouched, CloudShrinks, FaultsGrow
  <2>4. ASSUME NEW o PROVE d[c].todo \ {o} \in SUBSET OCID
    BY <1>0
  <2> QED BY <2>2, <2>3, <2>4, <1>9 DEF DestroyList
<1>10. CASE DestroyVCN(c)
  <2>1. /\ UNCHANGED Here /\ (NoFault \/ Fault("oci"))
        /\ \/ UNCHANGED cloud /\ Goes(c, "revert")
           \/ Deletable(d[c].vcn) /\ Deleted(d[c].vcn) /\ Goes(c, "record")
    BY <1>10 DEF DestroyVCN, Deletes
  <2>2. Elsewhere
    BY <2>1, <1>0, Untouched, CloudShrinks, FaultsGrow DEF Deletable
  <2>3. CASE Deletable(d[c].vcn) /\ Deleted(d[c].vcn) /\ Goes(c, "record")
    <3> DEFINE x == [d[c] EXCEPT !.pc = "record"]
    <3>1. d[c] \in CallRecord /\ "record" \in CallPc
      BY <1>0 DEF Typed, CallPc
    <3>2. x \in CallRecord /\ x.vcn = d[c].vcn
      BY <3>1, CallWrites, CallFields
    <3>3. d' = [d EXCEPT ![c] = x]
      BY <2>3 DEF Goes
    <3> HIDE DEF x
    <3> QED BY <2>2, <3>2, <3>3, <2>3, GoesOn
  <2> QED BY <2>1, <2>2, <2>3, GoesSimply DEF CallPc
<1>11. CASE DestroyRecord(c)
  <2>1. w' = w /\ UNCHANGED cloud /\ (NoFault \/ Fault("db"))
    BY <1>11 DEF DestroyRecord
  <2>2. CASE Goes(c, "revert") /\ UNCHANGED <<net, rows>>
    BY <2>1, <2>2, <1>0, GoesSimply, CloudShrinks, FaultsGrow DEF CallPc, Elsewhere
  <2>3. CASE /\ net' = [net EXCEPT !.exists = FALSE] /\ rows' = <<>>
             /\ d' = [d EXCEPT ![c] = Off]
    <3>1. net' \in NetRecord /\ net'.vcn = net.vcn /\ ~net'.exists
      BY <2>3, <1>0 DEF NetRecord
    <3> QED BY <2>1, <2>3, <3>1, <1>0, Ends, CloudShrinks, FaultsGrow DEF Elsewhere
  <2> QED BY <2>2, <2>3, <1>11 DEF DestroyRecord
<1>12. CASE DestroyRevert(c)
  <2>1. /\ w' = w /\ rows' = rows /\ UNCHANGED cloud /\ (NoFault \/ Fault("db"))
        /\ d' = [d EXCEPT ![c] = Off]
        /\ StatusSet(d[c].prev) \/ UNCHANGED net
    BY <1>12 DEF DestroyRevert
  <2>2. net' \in NetRecord /\ net'.vcn = net.vcn /\ net'.exists = net.exists
    BY <2>1, <1>0, NetWrites
  <2> QED BY <2>1, <2>2, <1>0, Ends, CloudShrinks, FaultsGrow DEF Elsewhere
<1>13. CASE Disconnect(c)
  BY <1>13, <1>0, Ends, Untouched, CloudShrinks, FaultsGrow DEF Disconnect
<1> QED BY <1>1, <1>2, <1>3, <1>4, <1>5, <1>6, <1>7, <1>8, <1>9, <1>10, <1>11, <1>12,
           <1>13, <1>14 DEF DestroyStep

\* The other steps of the handlers, of the process and of OCI: only the jobs, a VPS,
\* the phase and what is TERMINATING change.
Aside ==
  \/ RequestProvision \/ Poll \/ UNCHANGED vars
  \/ CheckForVPS \/ InsertVPS \/ DeleteVPS
  \/ SubnetEnds \/ Restart

\* Nothing of the network happens, but that a subnet may be TERMINATED.
Still == UNCHANGED <<net, rows, w, faults, forgone, solid>> /\ ending' \subseteq ending

\* A VPS that comes or goes, a request, the end of a subnet and the start of the process
\* leave the network alone.
LEMMA AsideEffect ==
  ASSUME Typed, Aside
  PROVE  Still /\ Elsewhere /\ AllCall
<1>1. Still /\ d' = d
  BY DEF Aside, RequestProvision, Poll, vars, CheckForVPS, InsertVPS, DeleteVPS, Restart,
         SubnetEnds, SubnetEnded, Here, local, cloud, solid, Still
<1>2. net \in NetRecord /\ d \in [Clients -> CallRecord] /\ CloudOK /\ faults \in 0..MaxFaults /\ forgone \in 0..faults
  BY DEF Typed
<1>3. Elsewhere
  BY <1>1, <1>2, CloudShrinks, FaultCounts DEF Still, Elsewhere
<1>4. AllCall
  BY <1>1, <1>2 DEF Calls, AllCall
<1> QED BY <1>1, <1>3, <1>4

-----------------------------------------------------------------------------
(* What the worker's steps change.                                         *)

\* The worker's job stays, everything else of it is given.
Becomes(pc, step, new, got, rules, todo, after) ==
  /\ w' \in WorkerRecord
  /\ w'.pc = pc /\ w'.job = w.job /\ w'.step = step /\ w'.new = new
  /\ w'.got = got /\ w'.rules = rules /\ w'.todo = todo /\ w'.after = after

\* The fields of the worker's record.
LEMMA WorkerFields ==
  ASSUME w \in WorkerRecord
  PROVE  /\ w.pc \in WorkerPc /\ w.job \in Request \cup {0} /\ w.step \in Type
         /\ w.new \in MaybeOCID /\ w.got \in [Type -> MaybeOCID]
         /\ w.rules \subseteq OCID /\ w.todo \in Seq(OCID)
         /\ w.after \in {"none", "error", "give_up", "serve"}
         /\ VCN \in MaybeOCID
BY DEF WorkerRecord, VCN, Type

\* What each form of a write makes of the worker.
LEMMA WorkerWrites ==
  ASSUME w \in WorkerRecord, NEW pc \in WorkerPc
  PROVE  /\ w' = [w EXCEPT !.pc = pc] =>
              Becomes(pc, w.step, w.new, w.got, w.rules, w.todo, w.after)
         /\ \A s \in Type : w' = [w EXCEPT !.pc = pc, !.step = s] =>
              Becomes(pc, s, w.new, w.got, w.rules, w.todo, w.after)
         /\ \A o \in MaybeOCID : w' = [w EXCEPT !.pc = pc, !.new = o] =>
              Becomes(pc, w.step, o, w.got, w.rules, w.todo, w.after)
         /\ \A r \in SUBSET OCID : w' = [w EXCEPT !.pc = pc, !.rules = r] =>
              Becomes(pc, w.step, w.new, w.got, r, w.todo, w.after)
         /\ \A s \in Type, r \in SUBSET OCID :
              w' = [w EXCEPT !.pc = pc, !.step = s, !.rules = r] =>
                Becomes(pc, s, w.new, w.got, r, w.todo, w.after)
         /\ \A t \in Seq(OCID) : w' = [w EXCEPT !.todo = t] =>
              Becomes(w.pc, w.step, w.new, w.got, w.rules, t, w.after)
         /\ \A t \in Seq(OCID), a \in {"none", "error", "give_up", "serve"} :
              w' = [w EXCEPT !.pc = pc, !.after = a, !.todo = t] =>
                Becomes(pc, w.step, w.new, w.got, w.rules, t, a)
BY ZenonT(60) DEF WorkerRecord, Becomes

\* A worker that is idle, or has just claimed a job, holds nothing.
LEMMA IdleFacts ==
  /\ Idle \in WorkerRecord
  /\ Idle.pc = "idle" /\ Idle.job = 0 /\ Idle.step = "vcn" /\ Idle.new = NoOCID
  /\ Idle.got = [t \in Type |-> NoOCID] /\ Idle.rules = {} /\ Idle.todo = <<>>
  /\ Idle.after = "none"
  /\ \A j \in Request : LET v == [Idle EXCEPT !.pc = "begin", !.job = j]
                        IN  /\ v \in WorkerRecord
                            /\ v.pc = "begin" /\ v.job = j /\ v.step = "vcn"
                            /\ v.new = NoOCID /\ v.got = [t \in Type |-> NoOCID]
                            /\ v.rules = {} /\ v.todo = <<>> /\ v.after = "none"
<1>1. Idle \in WorkerRecord
  BY DEF Idle, WorkerRecord, WorkerPc, MaybeOCID, Type
<1>2. ASSUME NEW j \in Request
      PROVE  [Idle EXCEPT !.pc = "begin", !.job = j] \in WorkerRecord
  BY <1>1 DEF WorkerRecord, WorkerPc
<1> QED BY <1>1, <1>2 DEF Idle

RollbackTodo == RollbackOrder(Listed)

\* RollbackNetwork goes through the rows from the newest to the oldest.
LEMMA RollbackTodoFacts ==
  ASSUME rows \in Seq(RowRecord)
  PROVE  /\ RollbackTodo \in Seq(OCID)
         /\ Len(RollbackTodo) = Len(rows)
         /\ \A k \in 1..Len(rows) : RollbackTodo[k] = rows[Len(rows) + 1 - k].ocid
<1> DEFINE s == [i \in DOMAIN rows |-> rows[i].ocid]
<1>1. s \in Seq(OCID) /\ Len(s) = Len(rows) /\ \A i \in DOMAIN rows : s[i] = rows[i].ocid
  <2>1. Len(rows) \in Nat /\ DOMAIN rows = 1..Len(rows) /\ s \in [1..Len(rows) -> OCID]
    BY RowsFacts
  <2> QED BY <2>1
<1>2. RollbackTodo = [k \in 1..Len(rows) |-> s[Len(rows) - k + 1]]
  <2> HIDE DEF s
  <2>1. RollbackOrder(s) = [k \in 1..Len(rows) |-> s[Len(rows) - k + 1]]
    BY <1>1 DEF RollbackOrder, Reverse
  <2> QED BY <2>1 DEF RollbackTodo, Listed, s
<1>3. ASSUME NEW k \in 1..Len(rows)
      PROVE  /\ RollbackTodo[k] = rows[Len(rows) + 1 - k].ocid
             /\ RollbackTodo[k] \in OCID
  <2>1. Len(rows) \in Nat /\ Len(rows) - k + 1 \in DOMAIN rows
        /\ Len(rows) - k + 1 = Len(rows) + 1 - k
    BY RowsFacts
  <2> HIDE DEF s
  <2>2. RollbackTodo[k] = s[Len(rows) - k + 1]
    BY <1>2
  <2> QED BY <1>1, <2>1, <2>2, RowsFacts
<1>4. RollbackTodo \in [1..Len(rows) -> OCID] /\ Len(rows) \in Nat
  BY <1>2, <1>3, RowsFacts
<1> QED BY <1>3, <1>4

\* A step of ProvisionNetwork that has its resource goes on to the next.
LEMMA ObtainedFacts ==
  ASSUME w \in WorkerRecord, NEW o \in MaybeOCID, Obtained(o)
  PROVE  Becomes(NextPc(w.step), NextStep(w.step), NoOCID,
                 [w.got EXCEPT ![w.step] = o], w.rules, w.todo, w.after)
<1> DEFINE g == [w.got EXCEPT ![w.step] = o]
<1>1. w.got \in [Type -> MaybeOCID] /\ w.step \in Type
  BY WorkerFields
<1>2. g \in [Type -> MaybeOCID]
  BY <1>1
<1>3. NextPc(w.step) \in WorkerPc /\ NextStep(w.step) \in Type /\ NoOCID \in MaybeOCID
  BY <1>1 DEF NextPc, NextStep, WorkerPc, Type, MaybeOCID
<1>4. w' = [w EXCEPT !.got = g, !.pc = NextPc(w.step), !.step = NextStep(w.step),
                     !.new = NoOCID]
  BY DEF Obtained, WorkerRecord
<1> HIDE DEF g
<1>5. Becomes(NextPc(w.step), NextStep(w.step), NoOCID, g, w.rules, w.todo, w.after)
  <2> DEFINE pc == NextPc(w.step)
             st == NextStep(w.step)
  <2>1. pc \in WorkerPc /\ st \in Type
    BY <1>3
  <2>2. w' = [w EXCEPT !.got = g, !.pc = pc, !.step = st, !.new = NoOCID]
    BY <1>4
  <2> HIDE DEF pc, st
  <2>3. Becomes(pc, st, NoOCID, g, w.rules, w.todo, w.after)
    BY <1>2, <1>3, <2>1, <2>2 DEF Becomes, WorkerRecord
  <2> QED BY <2>3 DEF pc, st
<1> QED BY <1>5 DEF g

\* The worker starts over.
Anew(pc) ==
  /\ w' \in WorkerRecord
  /\ w'.pc = pc /\ w'.step = "vcn" /\ w'.new = NoOCID
  /\ w'.got = [t \in Type |-> NoOCID] /\ w'.rules = {} /\ w'.todo = <<>>
  /\ w'.after = "none"

Stays(pc) == Becomes(pc, w.step, w.new, w.got, w.rules, w.todo, w.after)

Gets(o) == Becomes(NextPc(w.step), NextStep(w.step), NoOCID,
                   [w.got EXCEPT ![w.step] = o], w.rules, w.todo, w.after)

\* Of the row, at most the status changes.
OnlyStatus ==
  /\ net' \in NetRecord /\ net'.exists = net.exists
  /\ net'.vcn = net.vcn /\ net'.subnet = net.subnet

Claims == w.pc = "idle" /\ Anew("begin") /\ UNCHANGED <<net, rows, cloud>>

Begins ==
  /\ w.pc = "begin"
  /\ net.exists /\ net.status # "provisioning"
  /\ Becomes("lookup", "vcn", w.new, w.got, w.rules, w.todo, w.after)
  /\ OnlyStatus /\ net'.status = "provisioning"
  /\ UNCHANGED <<rows, cloud>>

Fails ==
  /\ w.pc \in {"begin", "result", "rollback"}
  /\ Stays("error")
  /\ OnlyStatus /\ net'.status \in {net.status, "failed"}
  /\ Undisturbed /\ net.exists => w.pc # "result" /\ net'.status # "ready"
  /\ Undisturbed /\ w.pc = "begin" => net'.status = net.status
  /\ w.pc = "rollback" => w.todo = <<>> \/ (~Undisturbed /\ OneFault)
  /\ UNCHANGED <<rows, cloud>>

Finds ==
  /\ w.pc = "lookup"
  /\ Usable(w.step)
  /\ Gets(Recorded(w.step))
  /\ UNCHANGED <<net, rows, cloud>>

Misses ==
  /\ w.pc = "lookup"
  /\ Stays("create")
  /\ Undisturbed /\ w.step = "subnet" => ~Usable(w.step)
  /\ UNCHANGED <<net, rows, cloud>>

Makes ==
  /\ w.pc = "create"
  /\ Creatable(w.step, VCN)
  /\ Created(Fresh(w.step, VCN))
  /\ Becomes("track", w.step, Fresh(w.step, VCN), w.got, w.rules, w.todo, w.after)
  /\ UNCHANGED <<net, rows>>

Backs ==
  /\ w.pc \in {"create", "route_read", "route_write", "error", "idle"}
  /\ \E a \in {"error", "give_up", "serve"} :
       Becomes("rollback", w.step, w.new, w.got, w.rules, RollbackTodo, a)
  /\ w.pc = "idle" => net.status \in Stuck
  /\ \/ UNCHANGED cloud
     \/ w.pc = "create" /\ Creatable(w.step, VCN) /\ Created(Fresh(w.step, VCN))
        /\ OneFault
  /\ UNCHANGED <<net, rows>>

Tracks ==
  /\ w.pc = "track"
  /\ Gets(w.new)
  /\ \/ rows' = IF net.exists THEN Append(rows, [ocid |-> w.new, deleted |-> FALSE])
                              ELSE rows
     \/ ~Undisturbed /\ OneFault /\ rows' = rows
  /\ UNCHANGED <<net, cloud>>

Reads ==
  /\ w.pc = "route_read"
  /\ VCN \in live
  /\ Becomes("route_write", w.step, w.new, w.got, Rules(VCN), w.todo, w.after)
  /\ UNCHANGED <<net, rows, cloud>>

Writes ==
  /\ w.pc = "route_write"
  /\ VCN \in live
  /\ w.rules \cup {w.got["igw"]} \subseteq live
  /\ RoutesSet(VCN, w.rules \cup {w.got["igw"]})
  /\ Becomes("lookup", "security_list", w.new, w.got, {}, w.todo, w.after)
  /\ UNCHANGED <<net, rows>>

Completes ==
  /\ w.pc = "result"
  /\ Stays("complete")
  /\ net' \in NetRecord /\ net'.exists = net.exists
  /\ net.exists => /\ net'.status = "ready" /\ net'.vcn = VCN
                   /\ net'.subnet = w.got["subnet"]
  /\ ~net.exists => net' = net
  /\ UNCHANGED <<rows, cloud>>

Walks ==
  /\ w.pc = "rollback"
  /\ w.todo # <<>>
  /\ Becomes("rollback", w.step, w.new, w.got, w.rules, Tail(w.todo), w.after)
  /\ rows' = Marked(Head(w.todo)) \/ (~Undisturbed /\ OneFault /\ rows' = rows)
  /\ \/ Deletable(Head(w.todo)) /\ Deleted(Head(w.todo))
     \/ ~Deletable(Head(w.todo)) /\ UNCHANGED cloud
     \/ OneFault /\ (~Undisturbed \/ OneForgone) /\ UNCHANGED cloud
  /\ UNCHANGED net

\* A retry, the end of a rollback or of the start-up, a crash.
Rests ==
  /\ Anew("idle")
  /\ OnlyStatus /\ net'.status \in {net.status, "failed", "pending"}
  /\ Undisturbed /\ net'.status # net.status =>
       \/ w.pc = "rollback" /\ w.todo = <<>>
       \/ rows' = AllMarked
  /\ w.pc = "rollback" => w.todo = <<>> \/ OneFault
  /\ w.pc = "result" \/ w.pc = "track" => OneFault
  /\ \/ rows' = rows
     \/ /\ w.pc = "idle"
        /\ rows' = [i \in DOMAIN rows |-> [rows[i] EXCEPT !.deleted = TRUE]]
        /\ \A i \in DOMAIN rows : rows[i].ocid.type = "vcn"
        /\ OneForgone \/ \A i \in DOMAIN rows : rows[i].ocid \notin live
     \/ /\ w.pc = "idle" /\ ~Undisturbed /\ OneFault
        /\ \E i \in DOMAIN rows : rows' = [AllMarked EXCEPT ![i] = rows[i]]
  /\ UNCHANGED cloud

Outcome ==
  \/ Claims \/ Begins \/ Fails \/ Finds \/ Misses \/ Makes \/ Backs \/ Tracks
  \/ Reads \/ Writes \/ Completes \/ Walks \/ Rests

\* A record that is left alone keeps its status.
LEMMA Same == Typed /\ UNCHANGED net => OnlyStatus /\ net'.status = net.status
BY DEF Typed, OnlyStatus

\* UpdateStatus gives the status, if the record is there.
LEMMA StatusChanges ==
  ASSUME Typed, NEW s \in NetStatus, StatusSet(s)
  PROVE  OnlyStatus /\ net'.status \in {net.status, s} /\ (net.exists => net'.status = s)
BY NetWrites DEF Typed, OnlyStatus

\* Every step of the worker, of start-up and of a crash is one of the outcomes above.
LEMMA WorkerOutcome ==
  ASSUME Typed, ClaimJob \/ WorkerStep \/ Reconcile \/ Crash
  PROVE  Outcome /\ Counted
<1>0. /\ w \in WorkerRecord /\ rows \in Seq(RowRecord) /\ CloudOK
      /\ faults \in Nat
      /\ \A e : Fault(e) \/ Forgoes(e) => OneFault /\ e \in Events
      /\ \A e : Forgoes(e) => OneForgone
      /\ NoFault => faults' = faults
      /\ {"failed", "provisioning", "pending", "ready"} \subseteq NetStatus
  BY FaultCounts DEF Typed, NetStatus
<1>00. Counted
  <2>1. NoFault \/ \E e : Fault(e) \/ Forgoes(e)
    BY DEF ClaimJob, WorkerStep, Reconcile, Crash, NoFault, local, Begin, Lookup, Create,
           CreateFails, Track, RouteRead, RouteWrite, Result, MarkComplete, RollbackStep,
           RollbackEnds, MarkFailed
  <2> QED BY <2>1, FaultsGrow
<1>1. RunFails => Stays("error") /\ UNCHANGED net
  BY <1>0, WorkerWrites DEF RunFails, Stays, WorkerPc
<1>2. ASSUME NEW a \in {"error", "give_up", "serve"}, RollbackBegins(a)
      PROVE  /\ Becomes("rollback", w.step, w.new, w.got, w.rules, RollbackTodo, a)
             /\ UNCHANGED net
  <2>1. w' = [w EXCEPT !.pc = "rollback", !.after = a, !.todo = RollbackTodo]
    BY <1>2 DEF RollbackBegins, RollbackTodo
  <2> QED BY <2>1, <1>0, <1>2, WorkerWrites, RollbackTodoFacts DEF RollbackBegins, WorkerPc
<1>3. w' = Idle => Anew("idle")
  BY IdleFacts DEF Anew
<1>4. CASE ClaimJob
  <2>1. PICK j \in Request : w' = [Idle EXCEPT !.pc = "begin", !.job = j]
    BY <1>4 DEF ClaimJob
  <2>2. Anew("begin")
    BY <2>1, IdleFacts DEF Anew
  <2> QED BY <1>4, <2>2, <1>00 DEF ClaimJob, Claims, Outcome
<1>5. CASE Begin
  <2>1. CASE RunFails /\ NoFault /\ (~net.exists \/ net.status = "provisioning")
    BY <1>5, <2>1, <1>00, <1>1, Same DEF Begin, Fails, Outcome
  <2>2. CASE RunFails /\ Fault("db")
    BY <1>5, <2>2, <1>00, <1>0, <1>1, Same DEF Begin, Fails, Outcome, Undisturbed
  <2>3. CASE /\ net.exists /\ net.status # "provisioning" /\ StatusSet("provisioning")
             /\ w' = [w EXCEPT !.pc = "lookup", !.step = "vcn"]
    <3>1. Becomes("lookup", "vcn", w.new, w.got, w.rules, w.todo, w.after)
      BY <2>3, <1>0, WorkerWrites, OCIDFacts DEF WorkerPc
    <3> QED BY <1>5, <2>3, <3>1, <1>00, <1>0, StatusChanges DEF Begin, Begins, Outcome
  <2>4. CASE Fault("db") /\ StatusSet("failed") /\ w' = [w EXCEPT !.pc = "error"]
    BY <1>5, <2>4, <1>00, <1>0, WorkerWrites, StatusChanges
       DEF Begin, Fails, Outcome, Undisturbed, Stays, WorkerPc
  <2> QED BY <1>5, <1>00, <2>1, <2>2, <2>3, <2>4 DEF Begin
<1>6. CASE Lookup
  <2>1. CASE Usable(w.step) /\ Obtained(Recorded(w.step))
    BY <1>6, <2>1, <1>00, <1>0, ObtainedFacts, RecordedFacts, WorkerFields
       DEF Lookup, Finds, Gets, Outcome
  <2>2. CASE w' = [w EXCEPT !.pc = "create"]
    <3>1. Stays("create")
      BY <2>2, <1>0, WorkerWrites DEF Stays, WorkerPc
    <3>2. Undisturbed /\ w.step = "subnet" => ~Usable(w.step)
      <4>1. CASE Usable(w.step) /\ Obtained(Recorded(w.step))
        <5>1. w'.pc # "create"
          BY <4>1, <1>0, ObtainedFacts, RecordedFacts, WorkerFields DEF Becomes, NextPc
        <5> QED BY <5>1, <3>1 DEF Stays, Becomes
      <4> QED BY <1>6, <4>1, <1>0 DEF Lookup, Undisturbed
    <3> QED BY <1>6, <3>1, <3>2, <1>00 DEF Lookup, Misses, Outcome
  <2> QED BY <1>6, <1>00, <2>1, <2>2 DEF Lookup
<1>7. CASE Create
  <2>1. Fresh(w.step, VCN) \in MaybeOCID
    BY <1>7, <1>0, FreshFacts, WorkerFields DEF Create, MaybeOCID
  <2>2. Becomes("track", w.step, Fresh(w.step, VCN), w.got, w.rules, w.todo, w.after)
    BY <1>7, <2>1, <1>0, WorkerWrites DEF Create, WorkerPc
  <2> QED BY <1>7, <2>2, <1>00 DEF Create, Makes, Outcome
<1>8. CASE CreateFails
  BY <1>8, <1>00, <1>0, <1>2 DEF CreateFails, Backs, Outcome
<1>9. CASE Track
  <2>1. Gets(w.new)
    BY <1>9, <1>0, ObtainedFacts, WorkerFields DEF Track, Gets
  <2> QED BY <1>9, <2>1, <1>00, <1>0 DEF Track, Tracks, Outcome, Undisturbed
<1>10. CASE RouteRead
  <2>1. CASE RollbackBegins("error")
    BY <1>10, <2>1, <1>00, <1>2 DEF RouteRead, Backs, Outcome
  <2>2. CASE VCN \in live /\ w' = [w EXCEPT !.pc = "route_write", !.rules = Rules(VCN)]
    <3>1. Rules(VCN) \in SUBSET OCID
      BY <1>0 DEF CloudOK, Rules
    <3>2. Becomes("route_write", w.step, w.new, w.got, Rules(VCN), w.todo, w.after)
      BY <2>2, <3>1, <1>0, WorkerWrites DEF WorkerPc
    <3>3. w'.pc # "rollback"
      BY <3>2 DEF Becomes
    <3>4. ~RollbackBegins("error")
      BY <3>3, <1>2 DEF Becomes
    <3> QED BY <1>10, <2>2, <3>2, <3>4, <1>00 DEF RouteRead, Reads, Outcome
  <2> QED BY <1>10, <2>1, <2>2 DEF RouteRead
<1>11. CASE RouteWrite
  <2>1. CASE RollbackBegins("error") /\ UNCHANGED cloud
    BY <1>11, <2>1, <1>00, <1>2 DEF RouteWrite, Backs, Outcome
  <2>2. CASE w' = [w EXCEPT !.pc = "lookup", !.step = "security_list", !.rules = {}]
    <3>1. Becomes("lookup", "security_list", w.new, w.got, {}, w.todo, w.after)
      BY <2>2, <1>0, WorkerWrites, OCIDFacts DEF WorkerPc
    <3>2. w'.pc # "rollback"
      BY <3>1 DEF Becomes
    <3>3. ~RollbackBegins("error")
      BY <3>2, <1>2 DEF Becomes
    <3> QED BY <1>11, <3>1, <3>3, <1>00 DEF RouteWrite, Writes, Outcome
  <2> QED BY <1>11, <2>1, <2>2 DEF RouteWrite
<1>12. CASE Result
  <2>1. CASE Fault("db") /\ RunFails
    BY <1>12, <2>1, <1>00, <1>0, <1>1, Same DEF Result, Fails, Outcome, Undisturbed
  <2>2. CASE w' = [w EXCEPT !.pc = "complete"] /\ net' = IF net.exists
                    THEN [net EXCEPT !.status = "ready", !.vcn = VCN,
                                     !.subnet = w.got["subnet"]]
                    ELSE net
    <3>1. net \in NetRecord /\ VCN \in MaybeOCID /\ w.got["subnet"] \in MaybeOCID
      BY <1>0, WorkerFields, OCIDFacts DEF Typed
    <3>2. /\ net' \in NetRecord /\ net'.exists = net.exists
          /\ net.exists => /\ net'.status = "ready" /\ net'.vcn = VCN
                           /\ net'.subnet = w.got["subnet"]
          /\ ~net.exists => net' = net
      BY <3>1, <2>2 DEF NetRecord, NetStatus
    <3>3. Stays("complete")
      BY <2>2, <1>0, WorkerWrites DEF Stays, WorkerPc
    <3> QED BY <1>12, <2>2, <3>2, <3>3, <1>00 DEF Result, Completes, Outcome
  <2> QED BY <1>12, <2>1, <2>2 DEF Result
<1>18. CASE MarkComplete
  BY <1>18, <1>3, <1>00, Same DEF MarkComplete, Rests, Outcome
<1>13. CASE RollbackStep
  <2>1. w.todo \in Seq(OCID) /\ w.todo # <<>> /\ Tail(w.todo) \in Seq(OCID)
    BY <1>13, <1>0, WorkerFields, HeadTailProperties DEF RollbackStep
  <2>2. Becomes("rollback", w.step, w.new, w.got, w.rules, Tail(w.todo), w.after)
    BY <1>13, <2>1, <1>0, WorkerWrites DEF RollbackStep, WorkerPc
  <2>3. Fault("db") => ~Undisturbed /\ OneFault
    BY <1>0 DEF Undisturbed
  <2>4. \/ rows' = Marked(Head(w.todo))
        \/ ~Undisturbed /\ OneFault /\ rows' = rows
    BY <1>13, <2>3 DEF RollbackStep, RowsAfter
  <2>5. /\ \/ Deletable(Head(w.todo)) /\ Deleted(Head(w.todo))
           \/ ~Deletable(Head(w.todo)) /\ UNCHANGED cloud
           \/ OneFault /\ (~Undisturbed \/ OneForgone) /\ UNCHANGED cloud
        /\ w.pc = "rollback" /\ UNCHANGED net
    BY <1>13, <1>0, <2>3 DEF RollbackStep
  <2> QED BY <2>1, <2>2, <2>4, <2>5, <1>00 DEF Walks, Outcome
<1>14. CASE RollbackEnds
  <2>1. /\ OnlyStatus /\ net'.status \in {net.status, "failed"}
        /\ Undisturbed /\ net.exists => net'.status # "ready"
    BY <1>14, <1>0, Same, StatusChanges DEF RollbackEnds, RolledBack, Undisturbed
  <2>0. /\ w.pc = "rollback" /\ UNCHANGED <<rows, cloud>>
        /\ w.todo = <<>> \/ (~Undisturbed /\ OneFault)
    BY <1>14, <1>0 DEF RollbackEnds, Undisturbed
  <2>2. CASE w' = [w EXCEPT !.pc = "error"]
    <3>1. Stays("error")
      BY <2>2, <1>0, WorkerWrites DEF Stays, WorkerPc
    <3> QED BY <2>0, <2>1, <3>1, <1>00 DEF Fails, Outcome
  <2>3. CASE w' = Idle
    <3>1. Undisturbed => w.pc = "rollback" /\ w.todo = <<>>
      BY <2>0
    <3> QED BY <2>0, <2>1, <2>3, <3>1, <1>3, <1>00 DEF Rests, Outcome
  <2> QED BY <1>14, <2>2, <2>3 DEF RollbackEnds, Serve
<1>15. CASE MarkFailed
  <2>1. CASE RollbackBegins("give_up")
    BY <1>15, <2>1, <1>00, <1>2 DEF MarkFailed, Backs, Outcome
  <2>2. CASE w' = Idle /\ UNCHANGED net
    BY <1>15, <2>2, <1>3, <1>00, Same DEF MarkFailed, Rests, Outcome
  <2> QED BY <1>15, <2>1, <2>2 DEF MarkFailed
<1>16. CASE Reconcile
  <2>1. CASE RollbackBegins("serve") /\ UNCHANGED rows /\ net.status \in Stuck
    BY <1>16, <2>1, <1>00, <1>2 DEF Reconcile, Backs, Outcome
  <2>2. CASE Serve /\ UNCHANGED <<net, rows>>
    BY <1>16, <2>2, <1>3, <1>00, Same DEF Reconcile, Serve, Rests, Outcome
  <2>3. CASE /\ IF MayExist
                  THEN /\ \A i \in DOMAIN rows : rows[i].ocid.type = "vcn"
                       /\ Forgoes("oci")
                  ELSE NoFault
             /\ rows' = AllMarked
             /\ StatusSet("pending")
             /\ Serve
    <3>1. /\ \A i \in DOMAIN rows : rows[i].ocid.type = "vcn"
          /\ OneForgone \/ \A i \in DOMAIN rows : rows[i].ocid \notin live
      BY <2>3, <1>0 DEF MayExist
    <3>2. OnlyStatus /\ net'.status \in {net.status, "pending"}
      BY <2>3, <1>0, StatusChanges
    <3> QED BY <1>16, <2>3, <3>1, <3>2, <1>3, <1>00
            DEF Reconcile, Serve, Rests, Outcome, AllMarked
  <2>4. CASE ~MayExist /\ ResetPartly /\ Fault("db") /\ Serve
    <3>1. /\ OneFault /\ ~Undisturbed
          /\ \A i \in DOMAIN rows : rows[i].ocid.type = "vcn" /\ rows[i].ocid \notin live
      BY <2>4, <1>0 DEF MayExist, Undisturbed
    <3>2. OnlyStatus /\ net'.status \in {net.status, "pending"}
      BY <2>4, <1>0, StatusChanges, Same DEF ResetPartly
    <3>3. \/ rows' = [i \in DOMAIN rows |-> [rows[i] EXCEPT !.deleted = TRUE]]
          \/ \E i \in DOMAIN rows : rows' = [AllMarked EXCEPT ![i] = rows[i]]
      BY <2>4 DEF ResetPartly, AllMarked
    <3>4. w.pc = "idle" /\ UNCHANGED cloud /\ Anew("idle")
      BY <1>16, <2>4, <1>3 DEF Reconcile, Serve
    <3>5. Rests
      BY <3>1, <3>2, <3>3, <3>4 DEF Rests
    <3> QED BY <3>5, <1>00 DEF Outcome
  <2> QED BY <1>16, <2>1, <2>2, <2>3, <2>4 DEF Reconcile
<1>17. CASE Crash
  BY <1>17, <1>0, <1>3, <1>00, Same DEF Crash, Rests, Outcome
<1> QED BY <1>4, <1>5, <1>6, <1>7, <1>8, <1>9, <1>10, <1>11, <1>12, <1>13, <1>14, <1>15,
           <1>16, <1>17, <1>18 DEF WorkerStep

\* The worker leaves the deletions alone; a crash ends them.
LEMMA WorkerCalls ==
  ASSUME Typed, ClaimJob \/ WorkerStep \/ Reconcile \/ Crash
  PROVE  AllCall
<1>1. d \in [Clients -> CallRecord] /\ Off \in CallRecord /\ Off.pc = "off" /\ Off.vcn = NoOCID
  BY CallWrites DEF Typed
<1>2. d' = d \/ d' = [c \in Clients |-> Off]
  BY DEF ClaimJob, WorkerStep, Reconcile, Crash, Begin, Lookup, Create, CreateFails, Track,
         RouteRead, RouteWrite, Result, MarkComplete, RollbackStep, RollbackEnds, MarkFailed
<1>3. CASE d' = d
  BY <1>1, <1>3 DEF AllCall, Calls
<1>4. CASE d' = [c \in Clients |-> Off]
  BY <1>1, <1>4 DEF AllCall, Calls
<1> QED BY <1>2, <1>3, <1>4

\* Every step is the worker's, or leaves the worker alone.
LEMMA Steps ==
  ASSUME Typed, [Next]_vars
  PROVE  /\ Outcome \/ Elsewhere
         /\ Counted
         /\ AllCall
         /\ Clients = {} => Outcome \/ Still
<1>1. CASE ClaimJob \/ WorkerStep \/ Reconcile \/ Crash
  BY <1>1, WorkerOutcome, WorkerCalls
<1>2. CASE \E c \in Clients : DestroyRequest(c) \/ DestroyStep(c) \/ Disconnect(c)
  BY <1>2, DestroyEffect DEF Elsewhere
<1>3. CASE Aside
  BY <1>3, AsideEffect DEF Elsewhere
<1> QED BY <1>1, <1>2, <1>3 DEF Next, Aside

-----------------------------------------------------------------------------
(* The jobs.                                                               *)

\* The jobs after one of them was written to.
LEMMA JobWrites ==
  ASSUME jobs \in [Request -> JobRecord],
         \A j \in Request : jobs[j].state \in {"absent", "pending", "running"} =>
                              jobs[j].attempts < MaxAttempts,
         NEW j \in Request, NEW s \in {"absent", "pending", "running", "complete", "failed"},
         NEW a \in 0..MaxAttempts,
         jobs' = [jobs EXCEPT ![j] = [state |-> s, attempts |-> a]],
         s \in {"absent", "pending", "running"} => a < MaxAttempts
  PROVE  /\ jobs' \in [Request -> JobRecord]
         /\ jobs'[j].state = s
         /\ \A i \in Request : jobs'[i].state \in {"absent", "pending", "running"} =>
                                 jobs'[i].attempts < MaxAttempts
BY DEF JobRecord

\* Every step keeps the jobs: attempts are left and the worker's job runs.
LEMMA JobsStep ==
  ASSUME Typed, JobsShape, [Next]_vars
  PROVE  jobs' \in [Request -> JobRecord] /\ JobsShape'
<1>0. /\ jobs \in [Request -> JobRecord] /\ w \in WorkerRecord
      /\ \A j \in Request : /\ jobs[j] = [state |-> jobs[j].state, attempts |-> jobs[j].attempts]
                            /\ jobs[j].attempts \in 0..MaxAttempts
                            /\ jobs[j].attempts \in Nat
                            /\ jobs[j].state \in {"absent", "pending", "running", "complete", "failed"}
  BY NetworkAssumption DEF Typed, JobRecord
<1>1. \A j \in Request : jobs[j].state \in {"absent", "pending", "running"} =>
                           jobs[j].attempts < MaxAttempts
  BY DEF JobsShape
<1>2. CASE jobs' = jobs /\ w' = w
  BY <1>0, <1>2, <1>1 DEF JobsShape
<1>3. CASE jobs' = jobs /\ w' = Idle
  BY <1>0, <1>3, <1>1, IdleFacts DEF JobsShape
<1>4. CASE jobs' = jobs /\ w.pc \notin {"idle", "rollback"} /\ w'.job = w.job
  BY <1>0, <1>4, <1>1 DEF JobsShape
<1>5. CASE ClaimJob
  <2>1. PICK j \in Request : /\ jobs[j].state = "pending"
                             /\ jobs' = [jobs EXCEPT ![j].state = "running"]
                             /\ w' = [Idle EXCEPT !.pc = "begin", !.job = j]
    BY <1>5 DEF ClaimJob
  <2>2. jobs' = [jobs EXCEPT ![j] = [state |-> "running", attempts |-> jobs[j].attempts]]
    <3>1. [jobs[j] EXCEPT !.state = "running"] = [state |-> "running", attempts |-> jobs[j].attempts]
      <4>1. jobs[j] \in JobRecord
        BY <1>0
      <4> QED BY <4>1 DEF JobRecord
    <3>2. jobs' = [jobs EXCEPT ![j] = [jobs[j] EXCEPT !.state = "running"]]
      BY <2>1, Zenon
    <3> QED BY <3>1, <3>2
  <2>3. w'.job = j
    BY <2>1, IdleFacts
  <2> QED BY <2>1, <2>2, <2>3, <1>0, <1>1, JobWrites, ZenonT(60) DEF JobsShape
<1>6. CASE RequestProvision
  <2>1. PICK j \in Request : /\ jobs[j].state = "absent"
                             /\ jobs' = [jobs EXCEPT ![j].state = "pending"]
    BY <1>6 DEF RequestProvision
  <2>2. jobs' = [jobs EXCEPT ![j] = [state |-> "pending", attempts |-> jobs[j].attempts]]
    <3>1. [jobs[j] EXCEPT !.state = "pending"] = [state |-> "pending", attempts |-> jobs[j].attempts]
      <4>1. jobs[j] \in JobRecord
        BY <1>0
      <4> QED BY <4>1 DEF JobRecord
    <3>2. jobs' = [jobs EXCEPT ![j] = [jobs[j] EXCEPT !.state = "pending"]]
      BY <2>1, Zenon
    <3> QED BY <3>1, <3>2
  <2>3. w' = w /\ \A i \in Request : i # j => jobs'[i] = jobs[i]
    BY <2>2, <1>0, <1>6 DEF RequestProvision
  <2> QED BY <2>1, <2>2, <2>3, <1>0, <1>1, JobWrites, ZenonT(60) DEF JobsShape
<1>7. ASSUME NEW s \in {"complete", "failed", "pending"}, NEW a \in 0..MaxAttempts, JobSet(s, a), w' = Idle,
             s = "pending" => a < MaxAttempts
      PROVE  jobs' \in [Request -> JobRecord] /\ JobsShape'
  <2>1. w'.pc = "idle"
    BY <1>7, IdleFacts
  <2>2. CASE w.job \in Request
    BY <1>7, <2>1, <2>2, <1>0, <1>1, JobWrites DEF JobSet, JobsShape
  <2>3. CASE w.job \notin Request
    <3>1. jobs' = jobs
      BY <1>7, <2>3, <1>0 DEF JobSet
    <3> QED BY <3>1, <1>7, <1>3
  <2> QED BY <2>2, <2>3
<1>8. CASE Serve
  <2>1. ASSUME NEW j \in Request
        PROVE  /\ jobs'[j] \in JobRecord
               /\ jobs'[j].state \in {"absent", "pending", "running"} =>
                    jobs'[j].attempts < MaxAttempts
    <3>1. jobs'[j] = IF jobs[j].state = "running"
                       THEN [state |-> "pending", attempts |-> jobs[j].attempts] ELSE jobs[j]
      BY <1>8, <1>0 DEF Serve
    <3>2. jobs[j] \in JobRecord
      BY <1>0
    <3> QED BY <3>1, <3>2, <1>0, <1>1 DEF JobRecord
  <2>2. jobs' \in [Request -> JobRecord] /\ w'.pc = "idle"
    BY <2>1, <1>8, IdleFacts DEF Serve
  <2> QED BY <2>1, <2>2 DEF JobsShape
<1>9. CASE MarkFailed
  <2>0. w.pc = "error" /\ w.job \in Request /\ jobs[w.job].attempts + 1 \in 0..MaxAttempts
    <3>1. w.pc = "error" /\ w.job \in Request /\ jobs[w.job].state = "running"
      BY <1>9 DEF MarkFailed, JobsShape
    <3> QED BY <3>1, <1>0, <1>1, NetworkAssumption
  <2>1. CASE RollbackBegins("give_up")
    BY <2>0, <2>1, <1>4, <1>0 DEF RollbackBegins, WorkerRecord
  <2>2. CASE w' = Idle /\ \/ /\ jobs[w.job].attempts + 1 < MaxAttempts
                             /\ JobSet("pending", jobs[w.job].attempts + 1)
                          \/ JobSet("failed", jobs[w.job].attempts + 1)
    BY <2>0, <2>2, <1>7
  <2>3. CASE w' = Idle /\ jobs' = jobs
    BY <2>3, <1>3
  <2> QED BY <1>9, <2>1, <2>2, <2>3 DEF MarkFailed
<1>10. CASE Result
  <2>0. w.pc = "result" /\ w.job \in Request /\ jobs[w.job].attempts \in 0..MaxAttempts
    BY <1>10, <1>0 DEF Result, JobsShape
  <2>1. CASE RunFails
    BY <2>0, <2>1, <1>4, <1>0 DEF RunFails, WorkerRecord
  <2>2. CASE w' = [w EXCEPT !.pc = "complete"] /\ jobs' = jobs
    BY <2>0, <2>2, <1>4, <1>0 DEF WorkerRecord
  <2> QED BY <1>10, <2>1, <2>2 DEF Result
<1>18. CASE MarkComplete
  <2>0. w.pc = "complete" /\ w.job \in Request /\ jobs[w.job].attempts \in 0..MaxAttempts
    BY <1>18, <1>0 DEF MarkComplete, JobsShape
  <2>1. CASE w' = Idle /\ JobSet("complete", jobs[w.job].attempts)
    BY <2>0, <2>1, <1>7
  <2> QED BY <1>18, <2>1, <1>3 DEF MarkComplete
<1>11. CASE RollbackEnds
  <2>1. CASE w.after = "error" /\ w' = [w EXCEPT !.pc = "error"] /\ jobs' = jobs
    <3>1. w'.job = w.job /\ w'.pc = "error" /\ w.pc = "rollback"
      BY <2>1, <1>0, <1>11 DEF WorkerRecord, RollbackEnds
    <3>2. w.job \in Request /\ jobs[w.job].state = "running"
      BY <3>1, <2>1 DEF JobsShape
    <3> QED BY <3>1, <3>2, <2>1, <1>0, <1>1 DEF JobsShape
  <2>2. CASE w.after = "give_up" /\ JobSet("failed", jobs[w.job].attempts + 1) /\ w' = Idle
    <3>1. w.job \in Request /\ jobs[w.job].state = "running"
      BY <2>2, <1>11 DEF JobsShape, RollbackEnds
    <3>2. jobs[w.job].attempts + 1 \in 0..MaxAttempts
      BY <3>1, <1>0, <1>1, NetworkAssumption
    <3> QED BY <2>2, <3>2, <1>7
  <2> QED BY <1>11, <2>1, <2>2, <1>8 DEF RollbackEnds
<1>12. CASE RollbackStep
  <2>1. /\ jobs' = jobs /\ w.pc = "rollback"
        /\ w'.pc = w.pc /\ w'.job = w.job /\ w'.after = w.after
    BY <1>12, <1>0 DEF RollbackStep, WorkerRecord
  <2> QED BY <2>1, <1>0, <1>1 DEF JobsShape
<1>13. CASE Reconcile
  <2>1. CASE RollbackBegins("serve")
    <3>1. w'.pc = "rollback" /\ w'.after = "serve" /\ jobs' = jobs
      BY <2>1, <1>0 DEF RollbackBegins, WorkerRecord
    <3> QED BY <3>1, <1>0, <1>1 DEF JobsShape
  <2> QED BY <1>13, <2>1, <1>8 DEF Reconcile
<1>14. CASE Begin \/ Lookup \/ Create \/ CreateFails \/ Track \/ RouteRead \/ RouteWrite
  <2>1. jobs' = jobs
    BY <1>14 DEF Begin, Lookup, Create, CreateFails, Track, RouteRead, RouteWrite, RunFails,
       RollbackBegins
  <2>2. w.pc \notin {"idle", "rollback"}
    BY <1>14 DEF Begin, Lookup, Create, CreateFails, Track, RouteRead, RouteWrite
  <2>3. w'.job = w.job
    BY ZenonT(60), <1>14, <1>0 DEF Begin, Lookup, Create, CreateFails, Track, RouteRead, RouteWrite, RunFails,
       RollbackBegins, Obtained, WorkerRecord
  <2> QED BY <2>1, <2>2, <2>3, <1>4
<1>15. CASE Crash
  BY <1>15, <1>3 DEF Crash
<1>16. CASE \E c \in Clients : DestroyRequest(c) \/ DestroyStep(c) \/ Disconnect(c)
  <2>1. jobs' = jobs /\ w' = w
    BY <1>16 DEF DestroyRequest, DestroyStep, Disconnect, Here, DestroyMark, RouteClearRead,
       RouteClearWrite, RouteClearWait, DestroyIGW, DestroySubnet, SubnetWait, ListLists,
       DestroyList, DestroyVCN, DestroyRecord, DestroyRevert
  <2> QED BY <2>1, <1>2
<1>17. CASE \/ Poll \/ UNCHANGED vars \/ CheckForVPS \/ InsertVPS \/ DeleteVPS \/ Restart
            \/ SubnetEnds
  BY <1>17, <1>2 DEF Poll, vars, local, CheckForVPS, InsertVPS, DeleteVPS, Restart, SubnetEnds, Here
<1> QED BY <1>5, <1>6, <1>9, <1>10, <1>11, <1>12, <1>13, <1>14, <1>15, <1>16, <1>17, <1>18
        DEF Next, WorkerStep

-----------------------------------------------------------------------------
(* The cloud and the rows.                                                 *)

Grows == w.pc = "create" /\ Creatable(w.step, VCN) /\ Created(Fresh(w.step, VCN))

\* The cloud loses something or gets one resource, with a number never used before.
LEMMA CloudMoves ==
  ASSUME Typed, Outcome \/ Elsewhere
  PROVE  /\ Shrinks \/ Grows
         /\ CloudOK'
         /\ \A t \in Type : made'[t] >= made[t] /\ made[t] \in Nat /\ made'[t] \in Nat
<1>0. CloudOK /\ w \in WorkerRecord
  BY DEF Typed
<1>1. Shrinks \/ Grows
  <2>1. CASE Elsewhere
    BY <2>1 DEF Elsewhere
  <2>2. CASE Claims \/ Begins \/ Fails \/ Finds \/ Misses \/ Tracks \/ Reads \/ Completes \/ Rests
    BY <2>2, <1>0, CloudShrinks
       DEF Claims, Begins, Fails, Finds, Misses, Tracks, Reads, Completes, Rests
  <2>3. CASE Makes \/ Backs
    BY <2>3, <1>0, CloudShrinks DEF Makes, Backs, Grows
  <2>4. CASE Writes
    <3>1. w.rules \cup {w.got["igw"]} \subseteq OCID
      BY <2>4, <1>0 DEF Writes, CloudOK
    <3> QED BY <2>4, <3>1, <1>0, CloudShrinks DEF Writes
  <2>5. CASE Walks
    BY <2>5, <1>0, CloudShrinks DEF Walks, Deletable
  <2> QED BY <2>1, <2>2, <2>3, <2>4, <2>5 DEF Outcome
<1>2. CASE Shrinks
  BY <1>1, <1>2, <1>0, GenAssumption DEF Shrinks, CloudOK
<1>3. CASE Grows
  <2> DEFINE o == Fresh(w.step, VCN)
  <2>1. /\ w.step \in Type /\ o \in OCID /\ o.type = w.step
        /\ made[w.step] < MaxGen
    BY <1>3, <1>0, WorkerFields, FreshFacts DEF Grows, Creatable
  <2>2. live' = live \cup {o} /\ made' = [made EXCEPT ![w.step] = @ + 1]
        /\ routes' = routes /\ ending' = ending
    BY <1>3, <2>1 DEF Grows, Created
  <2> HIDE DEF o
  <2>3. \A t \in Type : made'[t] \in 0..MaxGen /\ made'[t] >= made[t] /\ made[t] \in Nat
    BY <2>1, <2>2, <1>0, GenAssumption DEF CloudOK
  <2> QED BY <1>1, <2>1, <2>2, <2>3, <1>0 DEF CloudOK
<1> QED BY <1>1, <1>2, <1>3

\* The rows stay the same but for the mark.
SameRows ==
  /\ Len(rows') = Len(rows) /\ DOMAIN rows' = DOMAIN rows
  /\ \A i \in DOMAIN rows : /\ rows'[i].ocid = rows[i].ocid
                            /\ rows[i].deleted => rows'[i].deleted

Cleared == rows' = <<>> /\ ~net'.exists

NewRow == [ocid |-> w.new, deleted |-> FALSE]

\* The worker's resource gets its row.
Added ==
  /\ w.pc = "track" /\ w'.pc # "track"
  /\ net.exists
  /\ rows' = Append(rows, NewRow)
  /\ DOMAIN rows' = 1..(Len(rows) + 1) /\ Len(rows') = Len(rows) + 1
  /\ \A i \in DOMAIN rows : rows'[i] = rows[i]
  /\ rows'[Len(rows) + 1] = NewRow

\* A write that keeps the OCIDs and the marks keeps the rows.
LEMMA SameRowsFacts ==
  ASSUME rows \in Seq(RowRecord), NEW f,
         rows' = [i \in DOMAIN rows |-> f[i]],
         \A i \in DOMAIN rows : /\ f[i] \in RowRecord
                                /\ f[i].ocid = rows[i].ocid
                                /\ rows[i].deleted => f[i].deleted
  PROVE  SameRows /\ rows' \in Seq(RowRecord)
<1>1. Len(rows) \in Nat /\ DOMAIN rows = 1..Len(rows)
  BY RowsFacts
<1>2. rows' \in [1..Len(rows) -> RowRecord] /\ DOMAIN rows' = 1..Len(rows)
  BY <1>1
<1>3. rows' \in Seq(RowRecord) /\ Len(rows') = Len(rows)
  BY <1>1, <1>2
<1> QED BY <1>1, <1>2, <1>3 DEF SameRows

\* A row that is marked deleted is the same otherwise.
LEMMA RowMark ==
  ASSUME NEW r \in RowRecord
  PROVE  /\ [r EXCEPT !.deleted = TRUE] \in RowRecord
         /\ [r EXCEPT !.deleted = TRUE].ocid = r.ocid
         /\ [r EXCEPT !.deleted = TRUE].deleted
BY DEF RowRecord

\* MarkDeletedByOCID marks the rows of one resource.
LEMMA MarkedFacts ==
  ASSUME rows \in Seq(RowRecord), NEW o, rows' = Marked(o)
  PROVE  /\ SameRows /\ rows' \in Seq(RowRecord)
         /\ \A i \in DOMAIN rows : rows'[i].deleted <=> rows[i].deleted \/ rows[i].ocid = o
<1> DEFINE f == [i \in DOMAIN rows |->
                  IF rows[i].ocid = o THEN [rows[i] EXCEPT !.deleted = TRUE] ELSE rows[i]]
<1>1. \A i \in DOMAIN rows : rows[i] \in RowRecord
  BY LenProperties, ElementOfSeq
<1>2. rows' = [i \in DOMAIN rows |-> f[i]]
  BY DEF Marked
<1>3. ASSUME NEW i \in DOMAIN rows
      PROVE  /\ f[i] \in RowRecord /\ f[i].ocid = rows[i].ocid
             /\ rows[i].deleted => f[i].deleted
             /\ f[i].deleted <=> rows[i].deleted \/ rows[i].ocid = o
  <2>1. f[i] = IF rows[i].ocid = o THEN [rows[i] EXCEPT !.deleted = TRUE] ELSE rows[i]
    OBVIOUS
  <2> HIDE DEF f
  <2>2. CASE rows[i].ocid = o
    BY <2>1, <2>2, <1>1, RowMark
  <2>3. CASE rows[i].ocid # o
    <3>1. f[i] = rows[i]
      BY <2>1, <2>3
    <3> QED BY <3>1, <2>3, <1>1
  <2> QED BY <2>2, <2>3
<1> HIDE DEF f
<1>4. SameRows /\ rows' \in Seq(RowRecord)
  BY <1>2, <1>3, SameRowsFacts
<1>5. \A i \in DOMAIN rows : rows'[i] = f[i]
  BY <1>2
<1> QED BY <1>3, <1>4, <1>5

\* The end of a rollback marks all rows.
LEMMA AllMarkedFacts ==
  ASSUME rows \in Seq(RowRecord),
         rows' = [i \in DOMAIN rows |-> [rows[i] EXCEPT !.deleted = TRUE]]
  PROVE  /\ SameRows /\ rows' \in Seq(RowRecord)
         /\ \A i \in DOMAIN rows : rows'[i].deleted
<1> DEFINE f == [i \in DOMAIN rows |-> [rows[i] EXCEPT !.deleted = TRUE]]
<1>1. \A i \in DOMAIN rows : rows[i] \in RowRecord
  BY LenProperties, ElementOfSeq
<1>2. rows' = [i \in DOMAIN rows |-> f[i]]
  OBVIOUS
<1>3. ASSUME NEW i \in DOMAIN rows
      PROVE  f[i] \in RowRecord /\ f[i].ocid = rows[i].ocid /\ f[i].deleted
  BY <1>1, RowMark
<1> HIDE DEF f
<1>4. SameRows /\ rows' \in Seq(RowRecord)
  BY <1>2, <1>3, SameRowsFacts
<1> QED BY <1>2, <1>3, <1>4

\* The start-up marks all rows but one.
LEMMA OneUnmarkedFacts ==
  ASSUME rows \in Seq(RowRecord),
         NEW k \in DOMAIN rows, rows' = [AllMarked EXCEPT ![k] = rows[k]]
  PROVE  SameRows /\ rows' \in Seq(RowRecord)
<1> DEFINE f == [i \in DOMAIN rows |->
                  IF i = k THEN rows[i] ELSE [rows[i] EXCEPT !.deleted = TRUE]]
<1>1. \A i \in DOMAIN rows : rows[i] \in RowRecord
  BY LenProperties, ElementOfSeq
<1>2. rows' = [i \in DOMAIN rows |-> f[i]]
  BY DEF AllMarked
<1>3. ASSUME NEW i \in DOMAIN rows
      PROVE  f[i] \in RowRecord /\ f[i].ocid = rows[i].ocid /\ (rows[i].deleted => f[i].deleted)
  BY <1>1, RowMark
<1> HIDE DEF f
<1> QED BY <1>2, <1>3, SameRowsFacts

\* The rows are marked, get one more, or go with their network.
LEMMA RowsMoves ==
  ASSUME Typed, Kinds, Outcome \/ Elsewhere
  PROVE  /\ SameRows \/ Cleared \/ Added
         /\ rows' \in Seq(RowRecord)
<1>0. rows \in Seq(RowRecord) /\ Len(rows) \in Nat /\ DOMAIN rows = 1..Len(rows)
  BY RowsFacts DEF Typed
<1>1. CASE rows' = rows
  BY <1>0, <1>1 DEF SameRows
<1>2. CASE Cleared
  <2>1. <<>> \in Seq(RowRecord)
    OBVIOUS
  <2> QED BY <2>1, <1>2 DEF Cleared
<1>3. CASE w.pc = "track" /\ net.exists /\ rows' = Append(rows, NewRow) /\ w'.pc # "track"
  <2>1. NewRow \in RowRecord
    BY <1>3 DEF Kinds, NewRow, RowRecord
  <2>2. /\ rows' \in Seq(RowRecord) /\ Len(rows') = Len(rows) + 1
        /\ \A i \in 1..Len(rows) : rows'[i] = rows[i]
        /\ rows'[Len(rows) + 1] = NewRow
    BY <2>1, <1>0, <1>3, AppendProperties
  <2>3. DOMAIN rows' = 1..(Len(rows) + 1)
    BY <2>2, LenProperties
  <2> QED BY <2>2, <2>3, <1>0, <1>3 DEF Added
<1>4. CASE Walks
  BY <1>4, <1>0, <1>1, MarkedFacts DEF Walks
<1>5. CASE Rests
  BY <1>5, <1>0, <1>1, AllMarkedFacts, OneUnmarkedFacts DEF Rests
<1>6. CASE Tracks
  <2>1. w'.pc # "track"
    BY <1>6 DEF Tracks, Gets, Becomes, NextPc
  <2> QED BY <1>6, <2>1, <1>1, <1>3 DEF Tracks, NewRow
<1>7. CASE Elsewhere
  BY <1>7, <1>1, <1>2 DEF Elsewhere, Cleared
<1>8. CASE Claims \/ Begins \/ Fails \/ Finds \/ Misses \/ Makes \/ Backs \/ Reads \/ Writes
           \/ Completes
  BY <1>8, <1>1 DEF Claims, Begins, Fails, Finds, Misses, Makes, Backs, Reads, Writes,
                    Completes
<1> QED BY <1>4, <1>5, <1>6, <1>7, <1>8 DEF Outcome

\* The record goes for good; its VCN is the one it has or the worker's.
LEMMA NetMoves ==
  ASSUME Typed, Outcome \/ Elsewhere
  PROVE  /\ net' \in NetRecord
         /\ net'.exists => net.exists
         /\ net'.vcn \in {net.vcn, VCN}
<1>0. net \in NetRecord
  BY DEF Typed
<1>1. CASE Elsewhere
  BY <1>1 DEF Elsewhere
<1>2. CASE UNCHANGED net \/ OnlyStatus \/ Completes
  BY <1>2, <1>0, NetWrites DEF OnlyStatus, Completes
<1> QED BY <1>1, <1>2 DEF Outcome, Claims, Begins, Fails, Finds, Misses, Makes, Backs,
        Tracks, Reads, Writes, Walks, Rests

\* Every step leaves the worker a record of its type.
LEMMA WorkerMoves ==
  ASSUME Typed, Outcome \/ Elsewhere
  PROVE  w' \in WorkerRecord
BY DEF Typed, Elsewhere, Outcome, Claims, Begins, Fails, Finds, Misses, Makes, Backs,
       Tracks, Reads, Writes, Completes, Walks, Rests, Becomes, Anew, Stays, Gets

\* Every step keeps the types and the shape of the jobs.
LEMMA TypeStep ==
  ASSUME Typed, JobsShape, Kinds, [Next]_vars
  PROVE  Typed' /\ JobsShape'
<1>1. vps' \in {"none", "checked", "row"} /\ phase' \in {"down", "boot", "serving"}
  <2>1. vps \in {"none", "checked", "row"} /\ phase \in {"down", "boot", "serving"}
    BY DEF Typed
  <2>2. CASE \E c \in Clients : DestroyRequest(c) \/ DestroyStep(c) \/ Disconnect(c)
    BY <2>1, <2>2 DEF DestroyRequest, DestroyStep, Disconnect, Here, DestroyMark,
       RouteClearRead, RouteClearWrite, RouteClearWait, DestroyIGW, DestroySubnet, SubnetWait,
       ListLists, DestroyList, DestroyVCN, DestroyRecord, DestroyRevert
  <2>3. CASE WorkerStep
    <3>1. vps' = vps
      BY <2>3 DEF WorkerStep, Begin, Lookup, Create, CreateFails, Track, RouteRead,
         RouteWrite, Result, MarkComplete, RollbackStep, RollbackEnds, MarkFailed
    <3>2. CASE RollbackEnds
      BY <2>1, <3>1, <3>2 DEF RollbackEnds, Serve
    <3>3. CASE ~RollbackEnds
      <4>1. phase' = phase
        BY <2>3, <3>3 DEF WorkerStep, Begin, Lookup, Create, CreateFails, Track, RouteRead,
           RouteWrite, Result, MarkComplete, RollbackStep, MarkFailed, local
      <4> QED BY <2>1, <3>1, <4>1
    <3> QED BY <3>2, <3>3
  <2> QED BY <2>1, <2>2, <2>3 DEF Next, vars, local, RequestProvision, ClaimJob, Poll,
      CheckForVPS, InsertVPS, DeleteVPS, SubnetEnds, Here, Reconcile, Crash, Restart, Serve
<1> QED BY <1>1, Steps, JobsStep, CloudMoves, RowsMoves, NetMoves, WorkerMoves
        DEF Typed, AllCall, Counted

-----------------------------------------------------------------------------
(* What is known, and of which type it is.                                 *)

\* The worker has what it had, what it has created or what a row records.
LEMMA WorkerHas ==
  ASSUME Typed, Outcome \/ Elsewhere
  PROVE  /\ w'.new \in {w.new, NoOCID} \/ (Grows /\ w'.new = Fresh(w.step, VCN))
         /\ \A t \in Type :
              \/ w'.got[t] \in {w.got[t], NoOCID}
              \/ t = w.step /\ w'.got[t] = w.new /\ w.pc = "track"
              \/ t = w.step /\ w'.got[t] = Recorded(t)
         /\ w'.pc = "track" => w' = w \/ Makes
<1>0. w.got \in [Type -> MaybeOCID] /\ w.step \in Type
  BY WorkerFields DEF Typed
<1>1. CASE Elsewhere
  BY <1>1 DEF Elsewhere
<1>2. CASE Claims \/ Rests
  BY <1>2 DEF Claims, Rests, Anew
<1>3. CASE Begins \/ Fails \/ Misses \/ Backs \/ Reads \/ Writes \/ Walks \/ Completes
  BY <1>3 DEF Begins, Fails, Misses, Backs, Reads, Writes, Walks, Completes, Becomes, Stays
<1>4. CASE Makes
  BY <1>4 DEF Makes, Becomes, Grows
<1>5. CASE Finds \/ Tracks
  <2>1. NextPc(w.step) # "track"
    BY DEF NextPc
  <2>2. PICK o : Gets(o) /\ ((w.pc = "track" /\ o = w.new) \/ o = Recorded(w.step))
    BY <1>5 DEF Finds, Tracks
  <2>3. w'.new = NoOCID /\ w'.got = [w.got EXCEPT ![w.step] = o] /\ w'.pc # "track"
    BY <2>1, <2>2 DEF Gets, Becomes
  <2> QED BY <2>2, <2>3, <1>0
<1> QED BY <1>1, <1>2, <1>3, <1>4, <1>5 DEF Outcome

\* What was known stays known, and what is created is.
KnownThen(o) == o.vcn <= made'["vcn"] /\ (o \in OCID => o.n <= made'[o.type])

\* Who was known stays known.
LEMMA KnownLater ==
  ASSUME Typed, Outcome \/ Elsewhere, NEW o \in MaybeOCID, Known(o)
  PROVE  KnownThen(o)
<1>1. "vcn" \in Type
  BY OCIDFacts
<1>2. o.vcn \in Nat /\ o.vcn <= made["vcn"]
  BY OCIDFacts DEF MaybeOCID, Known
<1>3. o \in OCID => o.type \in Type /\ o.n \in Nat /\ o.n <= made[o.type]
  BY OCIDFacts DEF Known
<1>4. \A t \in Type : made'[t] >= made[t] /\ made[t] \in Nat /\ made'[t] \in Nat
  BY CloudMoves
<1>5. o.vcn <= made'["vcn"]
  BY <1>1, <1>2, <1>4
<1>6. ASSUME o \in OCID PROVE o.n <= made'[o.type]
  <2>1. made'[o.type] >= made[o.type] /\ made[o.type] \in Nat /\ made'[o.type] \in Nat
    BY <1>3, <1>4, <1>6
  <2> QED BY <2>1, <1>3, <1>6
<1> QED BY <1>5, <1>6 DEF KnownThen

\* What is created was not known before, and is from then on.
LEMMA FreshIsKnown ==
  ASSUME Typed, AllKnown, Outcome \/ Elsewhere, Grows
  PROVE  /\ KnownThen(Fresh(w.step, VCN))
         /\ \A o \in MaybeOCID : Known(o) => o # Fresh(w.step, VCN)
         /\ w.step = "vcn" => \A o \in MaybeOCID :
                                Known(o) => o.vcn # Fresh(w.step, VCN).vcn
<1> DEFINE o == Fresh(w.step, VCN)
<1>0. CloudOK /\ w.step \in Type /\ VCN \in MaybeOCID
  BY WorkerFields DEF Typed
<1>1. /\ o \in OCID /\ o.type = w.step /\ o.n = made[w.step] + 1
      /\ w.step = "vcn" => o.vcn = made["vcn"] + 1
      /\ w.step # "vcn" => o.vcn = VCN.vcn /\ VCN \in live
      /\ made[w.step] \in Nat /\ made["vcn"] \in Nat
  BY <1>0, FreshFacts DEF Grows
<1>2. made' = [made EXCEPT ![w.step] = @ + 1]
  BY <1>1 DEF Grows, Created
<1> HIDE DEF o
<1>3. made'[w.step] = made[w.step] + 1 /\ made \in [Type -> 0..MaxGen]
  BY <1>0, <1>2 DEF CloudOK
<1>4. o.vcn <= made'["vcn"]
  <2>1. CASE w.step = "vcn"
    BY <2>1, <1>1, <1>3
  <2>2. CASE w.step # "vcn"
    BY <2>2, <1>1, <1>0, KnownLater DEF AllKnown, KnownThen
  <2> QED BY <2>1, <2>2
<1>5. KnownThen(o)
  BY <1>1, <1>3, <1>4 DEF KnownThen
<1>6. ASSUME NEW p \in MaybeOCID, Known(p)
      PROVE  p # o /\ (w.step = "vcn" => p.vcn # o.vcn)
  <2>1. p.vcn \in Nat /\ p.vcn <= made["vcn"]
    BY <1>6, OCIDFacts DEF MaybeOCID, Known
  <2>2. p \in OCID => p.n \in Nat /\ p.n <= made[p.type]
    BY <1>6, OCIDFacts DEF Known
  <2> QED BY <2>1, <2>2, <1>1
<1> QED BY <1>5, <1>6 DEF o

\* Every step keeps what the row, the rows and the callers name among what was made.
LEMMA KnownStep ==
  ASSUME Typed, Kinds, AllKnown, [Next]_vars
  PROVE  AllKnown'
<1>0. /\ Outcome \/ Elsewhere
      /\ w \in WorkerRecord /\ rows \in Seq(RowRecord) /\ CloudOK /\ net \in NetRecord
      /\ w.step \in Type /\ w.new \in MaybeOCID /\ VCN \in MaybeOCID /\ net.vcn \in MaybeOCID
      /\ \A t \in Type : w.got[t] \in MaybeOCID
  BY Steps, WorkerFields, NetWrites DEF Typed
<1>1. \A o \in MaybeOCID : Known(o) => KnownThen(o)
  BY <1>0, KnownLater
<1>2. KnownThen(NoOCID)
  <2>1. NoOCID \in MaybeOCID /\ NoOCID.vcn = 0 /\ NoOCID \notin OCID /\ made["vcn"] \in Nat
    BY <1>0, OCIDFacts DEF MaybeOCID, CloudOK
  <2>2. Known(NoOCID)
    BY <2>1 DEF Known
  <2> QED BY <1>1, <2>1, <2>2
<1>3. Grows => KnownThen(Fresh(w.step, VCN))
  BY <1>0, FreshIsKnown
<1>4. \A o \in live' : KnownThen(o)
  <2>1. \A o \in live : KnownThen(o)
    BY <1>0, <1>1 DEF CloudOK, AllKnown, MaybeOCID
  <2> QED BY <2>1, <1>0, <1>3, CloudMoves DEF Shrinks, Grows, Created
<1>5. KnownThen(w.new) /\ \A t \in Type : KnownThen(w.got[t])
  BY <1>0, <1>1 DEF AllKnown
<1>6. \A i \in DOMAIN rows' : KnownThen(rows'[i].ocid)
  <2>1. \A i \in DOMAIN rows : KnownThen(rows[i].ocid)
    BY <1>0, <1>1, RowsFacts DEF AllKnown, MaybeOCID
  <2>2. CASE SameRows
    BY <2>1, <2>2 DEF SameRows
  <2>3. CASE Cleared
    BY <2>3 DEF Cleared
  <2>4. CASE Added
    <3>1. \A i \in DOMAIN rows' : i \in DOMAIN rows \/ i = Len(rows) + 1
      BY <2>4, <1>0, RowsFacts DEF Added
    <3> QED BY <3>1, <2>1, <2>4, <1>5 DEF Added, NewRow
  <2> QED BY <2>2, <2>3, <2>4, <1>0, RowsMoves
<1>7. KnownThen(w'.new)
  BY <1>0, <1>2, <1>3, <1>5, WorkerHas
<1>8. ASSUME NEW t \in Type PROVE KnownThen(w'.got[t])
  <2>1. KnownThen(Recorded(t))
    <3>1. CASE Recorded(t) = NoOCID
      BY <3>1, <1>2
    <3>2. CASE Recorded(t) # NoOCID
      <4>1. PICK i \in DOMAIN rows : rows[i].ocid = Recorded(t)
        BY <3>2, <1>0, RecordedFacts
      <4>2. Known(Recorded(t)) /\ Recorded(t) \in MaybeOCID
        BY <4>1, <1>0, RowsFacts DEF AllKnown, MaybeOCID
      <4> QED BY <4>2, <1>1
    <3> QED BY <3>1, <3>2
  <2> QED BY <2>1, <1>0, <1>2, <1>5, WorkerHas
<1>9. KnownThen(net.vcn) /\ KnownThen(VCN) /\ KnownThen(net'.vcn)
  <2>1. KnownThen(net.vcn) /\ KnownThen(VCN)
    BY <1>0, <1>1, <1>5, OCIDFacts DEF AllKnown, VCN
  <2> QED BY <2>1, <1>0, NetMoves
<1>10. ASSUME NEW c \in Clients PROVE KnownThen(d'[c].vcn)
  <2>1. KnownThen(d[c].vcn)
    BY <1>1, CallTypes DEF AllKnown
  <2>2. Calls(c)
    BY Steps DEF AllCall
  <2> QED BY <2>1, <2>2, <1>2, <1>9 DEF Calls
<1> QED BY <1>4, <1>6, <1>7, <1>8, <1>9, <1>10 DEF AllKnown, Known, KnownThen

\* Every step keeps a resource of the right type in every place for one.
LEMMA KindsStep ==
  ASSUME Typed, Kinds, [Next]_vars
  PROVE  Kinds'
<1>0. /\ Outcome \/ Elsewhere
      /\ w \in WorkerRecord /\ rows \in Seq(RowRecord) /\ CloudOK
      /\ w.step \in Type
  BY Steps, WorkerFields DEF Typed
<1>1. ASSUME NEW t \in Type PROVE Is(t, w'.got[t])
  <2>1. Is(t, Recorded(t)) /\ Is(t, w.got[t]) /\ Is(t, NoOCID)
    BY <1>0, RecordedFacts DEF Kinds, Is
  <2>2. w.pc = "track" => Is(w.step, w.new)
    BY DEF Kinds, Is
  <2> QED BY <2>1, <2>2, <1>0, WorkerHas
<1>2. w'.pc = "track" => w'.new \in OCID /\ w'.new.type = w'.step
  <2>1. CASE w' = w
    BY <2>1 DEF Kinds
  <2>2. CASE Makes
    <3>1. w'.new = Fresh(w.step, VCN) /\ w'.step = w.step
      BY <2>2 DEF Makes, Becomes
    <3> QED BY <3>1, <2>2, <1>0, FreshFacts, WorkerFields DEF Makes
  <2> QED BY <2>1, <2>2, <1>0, WorkerHas
<1>3. Is("vcn", net'.vcn)
  <2>1. Is("vcn", net.vcn) /\ Is("vcn", VCN)
    BY OCIDFacts DEF Kinds, VCN
  <2> QED BY <2>1, <1>0, NetMoves
<1>4. ASSUME NEW c \in Clients PROVE Is("vcn", d'[c].vcn)
  <2>1. Is("vcn", net.vcn) /\ Is("vcn", d[c].vcn) /\ Is("vcn", NoOCID)
    BY DEF Kinds, Is
  <2>2. Calls(c)
    BY Steps DEF AllCall
  <2> QED BY <2>1, <2>2 DEF Calls
<1> QED BY <1>1, <1>2, <1>3, <1>4 DEF Kinds, Is

-----------------------------------------------------------------------------
(* The order of the rows and of a rollback.                                *)

\* Every step keeps the row of a VCN before the rows of what is in it.
LEMMA RowsOrderStep ==
  ASSUME Typed, Kinds, AllKnown, RowsOrder, [Next]_vars
  PROVE  RowsOrder'
<1>0. /\ Outcome \/ Elsewhere
      /\ rows \in Seq(RowRecord) /\ w.step \in Type
      /\ Len(rows) \in Nat /\ DOMAIN rows = 1..Len(rows)
  BY Steps, WorkerFields, RowsFacts DEF Typed
<1>1. ASSUME NEW i \in DOMAIN rows', NEW j \in DOMAIN rows',
             rows'[i].ocid.type = "vcn", rows'[j].ocid.type # "vcn",
             rows'[i].ocid.vcn = rows'[j].ocid.vcn
      PROVE  i < j
  <2>1. CASE SameRows
    BY <1>1, <2>1 DEF SameRows, RowsOrder
  <2>2. CASE Cleared
    BY <1>1, <2>2 DEF Cleared
  <2>3. CASE Added
    <3>1. /\ i \in DOMAIN rows \/ i = Len(rows) + 1
          /\ j \in DOMAIN rows \/ j = Len(rows) + 1
      BY <1>0, <2>3 DEF Added
    <3>2. CASE i \in DOMAIN rows /\ j \in DOMAIN rows
      BY <1>1, <2>3, <3>2 DEF Added, RowsOrder
    <3>3. CASE i \in DOMAIN rows /\ j = Len(rows) + 1
      BY <1>0, <3>3
    <3>4. CASE i = Len(rows) + 1 /\ j \in DOMAIN rows
      <4>1. rows'[i].ocid = w.new /\ rows'[j] = rows[j] /\ w.pc = "track"
        BY <2>3, <3>4 DEF Added, NewRow
      <4> QED BY <1>1, <3>4, <4>1 DEF RowsOrder
    <3>5. CASE i = Len(rows) + 1 /\ j = Len(rows) + 1
      BY <1>1, <3>5
    <3> QED BY <3>1, <3>2, <3>3, <3>4, <3>5
  <2> QED BY <2>1, <2>2, <2>3, <1>0, RowsMoves
<1>2. ASSUME w'.pc = "track", w'.new.type = "vcn", NEW i \in DOMAIN rows'
      PROVE  rows'[i].ocid.vcn # w'.new.vcn
  <2>1. CASE w' = w
    <3>1. SameRows \/ Cleared
      BY <1>0, <1>2, RowsMoves DEF Added
    <3> QED BY <1>2, <2>1, <3>1 DEF SameRows, Cleared, RowsOrder
  <2>2. CASE Makes
    <3>1. w'.new = Fresh(w.step, VCN) /\ rows' = rows /\ Grows
      BY <2>2 DEF Makes, Becomes, Grows
    <3>2. w.step = "vcn"
      BY <3>1, <1>2, <1>0, FreshFacts, WorkerFields DEF Grows, Typed
    <3>3. Known(rows[i].ocid) /\ rows[i].ocid \in MaybeOCID
      BY <3>1, <1>2, <1>0, RowsFacts DEF AllKnown, MaybeOCID
    <3> QED BY <1>0, <3>1, <3>2, <3>3, FreshIsKnown
  <2> QED BY <2>1, <2>2, <1>0, <1>2, WorkerHas
<1> QED BY <1>1, <1>2 DEF RowsOrder

\* A rollback begins with all rows, or goes on with the rest.
LEMMA TodoMoves ==
  ASSUME Outcome \/ Elsewhere
  PROVE  \/ w'.todo \in {w.todo, <<>>}
         \/ w.todo # <<>> /\ w'.todo = Tail(w.todo)
         \/ w'.todo = RollbackTodo
BY DEF Elsewhere, Outcome, Claims, Begins, Fails, Finds, Misses, Makes, Backs,
       Tracks, Reads, Writes, Completes, Walks, Rests, Becomes, Anew, Stays, Gets

\* Every step keeps a VCN in a rollback behind what was tracked inside it.
LEMMA DependentsStep ==
  ASSUME Typed, RowsOrder, DependentsFirst, [Next]_vars
  PROVE  DependentsFirst'
<1>0. /\ Outcome \/ Elsewhere
      /\ rows \in Seq(RowRecord) /\ w.todo \in Seq(OCID)
      /\ Len(rows) \in Nat /\ DOMAIN rows = 1..Len(rows)
  BY Steps, WorkerFields, RowsFacts DEF Typed
<1>1. CASE w'.todo \in {w.todo, <<>>}
  BY <1>1 DEF DependentsFirst
<1>2. CASE w.todo # <<>> /\ w'.todo = Tail(w.todo)
  <2>1. /\ Len(w.todo) \in Nat /\ DOMAIN w.todo = 1..Len(w.todo)
        /\ DOMAIN w'.todo = 1..(Len(w.todo) - 1)
        /\ \A i \in DOMAIN w'.todo : w'.todo[i] = w.todo[i + 1] /\ i + 1 \in DOMAIN w.todo
    BY <1>0, <1>2
  <2>2. ASSUME NEW i \in DOMAIN w'.todo, NEW j \in DOMAIN w'.todo,
               w'.todo[i].type = "vcn", w'.todo[j].type # "vcn",
               w'.todo[i].vcn = w'.todo[j].vcn
        PROVE  j < i
    <3>1. j + 1 < i + 1
      BY <2>1, <2>2 DEF DependentsFirst
    <3> QED BY <3>1, <2>1
  <2> QED BY <2>2 DEF DependentsFirst
<1>3. CASE w'.todo = RollbackTodo
  <2>1. /\ DOMAIN w'.todo = 1..Len(rows)
        /\ \A k \in 1..Len(rows) : w'.todo[k] = rows[Len(rows) + 1 - k].ocid
                                   /\ Len(rows) + 1 - k \in DOMAIN rows
    BY <1>0, <1>3, RollbackTodoFacts
  <2>2. ASSUME NEW i \in DOMAIN w'.todo, NEW j \in DOMAIN w'.todo,
               w'.todo[i].type = "vcn", w'.todo[j].type # "vcn",
               w'.todo[i].vcn = w'.todo[j].vcn
        PROVE  j < i
    <3>1. Len(rows) + 1 - i < Len(rows) + 1 - j
      BY <2>1, <2>2, ZenonT(60) DEF RowsOrder
    <3> QED BY <3>1, <2>1, <1>0
  <2> QED BY <2>2 DEF DependentsFirst
<1> QED BY <1>0, <1>1, <1>2, <1>3, TodoMoves

-----------------------------------------------------------------------------
(* What faults hide.                                                       *)

\* A step hides one resource at most, and only by a fault.
LEMMA HiddenMoves ==
  ASSUME Typed, Kinds, [Next]_vars, net'.exists
  PROVE  \/ Hidden' \subseteq Hidden
         \/ OneFault /\ \E o : Hidden' \subseteq Hidden \cup {o}
<1>0. /\ Outcome \/ Elsewhere
      /\ rows \in Seq(RowRecord) /\ w.step \in Type /\ CloudOK /\ VCN \in MaybeOCID
      /\ Len(rows) \in Nat /\ DOMAIN rows = 1..Len(rows)
      /\ net.exists
  BY Steps, WorkerFields, RowsFacts, NetMoves DEF Typed
<1>1. Tracked \subseteq Tracked'
  <2>1. SameRows \/ Added
    BY <1>0, RowsMoves DEF Cleared
  <2>2. DOMAIN rows \subseteq DOMAIN rows' /\ \A i \in DOMAIN rows : rows'[i].ocid = rows[i].ocid
    BY <2>1, <1>0 DEF SameRows, Added
  <2> QED BY <2>2 DEF Tracked
<1>2. CASE Shrinks /\ (w.pc # "track" \/ w' = w)
  BY <1>1, <1>2 DEF Hidden, Untracked, Shrinks
<1>3. CASE Makes
  <2>1. /\ live' = live \cup {w'.new} /\ w'.pc = "track" /\ w.pc = "create"
    BY <1>3, <1>0, FreshFacts DEF Makes, Becomes, Created
  <2> QED BY <1>1, <2>1 DEF Hidden, Untracked
<1>4. CASE Backs
  <2>1. w'.pc = "rollback" /\ w.pc # "track"
    BY <1>4 DEF Backs, Becomes
  <2>2. CASE UNCHANGED cloud
    BY <1>1, <2>1, <2>2 DEF Hidden, Untracked, cloud
  <2>3. CASE Created(Fresh(w.step, VCN)) /\ OneFault
    <3>1. live' = live \cup {Fresh(w.step, VCN)}
      BY <2>3 DEF Created
    <3>2. Hidden' \subseteq Hidden \cup {Fresh(w.step, VCN)}
      BY <1>1, <2>1, <3>1 DEF Hidden, Untracked
    <3> QED BY <2>3, <3>2
  <2> QED BY <1>4, <2>2, <2>3 DEF Backs
<1>5. CASE w.pc = "track" /\ ~(w' = w)
  <2>1. Tracks \/ Rests
    BY <1>0, <1>5 DEF Elsewhere, Outcome, Claims, Begins, Fails, Finds, Misses, Makes, Backs,
       Reads, Writes, Completes, Walks
  <2>2. live' = live /\ (OneFault \/ Tracks)
    BY <2>1, <1>5 DEF Tracks, Rests, cloud
  <2>3. Hidden' \subseteq Hidden \cup {w.new}
    BY <1>1, <2>2, <1>5 DEF Hidden, Untracked
  <2>4. CASE Tracks /\ ~OneFault
    <3>1. rows' = Append(rows, NewRow) /\ w'.pc # "track"
      BY <1>0, <2>4 DEF Tracks, NewRow, Gets, Becomes, NextPc
    <3>2. NewRow \in RowRecord
      BY <1>5 DEF Kinds, NewRow, RowRecord
    <3>3. Len(rows) + 1 \in DOMAIN rows' /\ rows'[Len(rows) + 1].ocid = w.new
      BY <1>0, <3>1, <3>2, AppendProperties, LenProperties DEF NewRow
    <3>4. w.new \in Tracked'
      BY <3>3 DEF Tracked
    <3> QED BY <2>3, <3>4 DEF Hidden, Untracked
  <2> QED BY <2>2, <2>3, <2>4
<1>6. Shrinks \/ Makes \/ Backs
  <2>1. Grows => Makes \/ Backs \/ ~(Outcome \/ Elsewhere) \/ Shrinks
    <3>1. Elsewhere => Shrinks
      BY DEF Elsewhere
    <3>2. UNCHANGED cloud => Shrinks
      BY <1>0, CloudShrinks
    <3>3. Grows => w.pc = "create"
      BY DEF Grows
    <3> QED BY <3>1, <3>2, <3>3
            DEF Outcome, Claims, Begins, Fails, Finds, Misses, Tracks, Reads, Writes, Completes,
                Walks, Rests
  <2> QED BY <2>1, <1>0, CloudMoves
<1>7. Makes \/ Backs => w.pc # "track"
  BY DEF Makes, Backs
<1> QED BY <1>2, <1>3, <1>4, <1>5, <1>6

\* Every step keeps the hidden resources at most as many as the faults.
LEMMA HiddenStep ==
  ASSUME Typed, Kinds, HiddenByFault, [Next]_vars
  PROVE  HiddenByFault'
<1> SUFFICES ASSUME net'.exists PROVE Cardinality(Hidden') <= faults'
  BY DEF HiddenByFault
<1>0. /\ IsFiniteSet(Hidden) /\ Cardinality(Hidden) <= faults
      /\ faults \in Nat /\ faults' \in Nat /\ faults' >= faults
  <2>1. IsFiniteSet(Hidden)
    BY FiniteCloud, FS_Subset DEF Typed, Hidden, Untracked
  <2>2. net.exists
    BY Steps, NetMoves
  <2>3. faults \in 0..MaxFaults /\ faults' \in 0..MaxFaults /\ faults' >= faults
    BY Steps DEF Typed, Counted
  <2> QED BY <2>1, <2>2, <2>3, NetworkAssumption DEF HiddenByFault
<1>1. Cardinality(Hidden) \in Nat
  BY <1>0, FS_CardinalityType
<1>2. CASE Hidden' \subseteq Hidden
  <2>1. Cardinality(Hidden') <= Cardinality(Hidden) /\ Cardinality(Hidden') \in Nat
    BY <1>0, <1>2, FS_Subset, FS_CardinalityType
  <2> QED BY <1>0, <1>1, <2>1
<1>3. CASE OneFault /\ \E o : Hidden' \subseteq Hidden \cup {o}
  <2>1. PICK o : Hidden' \subseteq Hidden \cup {o}
    BY <1>3
  <2>2. /\ IsFiniteSet(Hidden \cup {o})
        /\ Cardinality(Hidden \cup {o}) \in {Cardinality(Hidden), Cardinality(Hidden) + 1}
    BY <1>0, FS_AddElement
  <2>3. Cardinality(Hidden') <= Cardinality(Hidden \cup {o}) /\ Cardinality(Hidden') \in Nat
    BY <2>1, <2>2, FS_Subset, FS_CardinalityType
  <2> QED BY <1>0, <1>1, <1>3, <2>2, <2>3 DEF OneFault
<1> QED BY <1>2, <1>3, HiddenMoves

-----------------------------------------------------------------------------
(* Deletions.                                                              *)

\* No step brings a deletion to the record while its VCN or something inside it lives.
LEMMA RecordStep ==
  ASSUME Typed, Kinds, AllKnown, RecordOutlivesVCN, [Next]_vars
  PROVE  RecordOutlivesVCN'
<1> SUFFICES ASSUME NEW c \in Clients, d'[c].pc = "record", d'[c].vcn # NoOCID
             PROVE  d'[c].vcn \notin live' /\ {o \in live' : o.type # "vcn" /\ o.vcn = d'[c].vcn.vcn} = {}
  BY DEF RecordOutlivesVCN, Children
<1> DEFINE v == d[c].vcn
<1>0. /\ Outcome \/ Elsewhere
      /\ w.step \in Type /\ CloudOK /\ VCN \in MaybeOCID
      /\ Calls(c)
  BY Steps, WorkerFields DEF Typed, AllCall
<1>1. d'[c].vcn = v /\ v \in OCID /\ v.type = "vcn" /\ v.vcn = v.n /\ Known(v)
  <2>1. d'[c].vcn = v
    BY <1>0 DEF Calls
  <2>2. v \in OCID /\ v.type = "vcn" /\ Known(v)
    BY <2>1, CallTypes DEF MaybeOCID, Kinds, Is, AllKnown
  <2> QED BY <2>1, <2>2, OCIDFacts
<1>2. \/ v \notin live /\ Children(v) = {}
      \/ Deletable(v) /\ Deleted(v)
  BY <1>0, <1>1 DEF Calls, RecordOutlivesVCN
<1>3. CASE Deletable(v) /\ Deleted(v)
  <2>1. Children(v) = {} /\ live' = live \ {v}
    BY <1>1, <1>3 DEF Deletable, InUse, Deleted
  <2> QED BY <2>1, <1>1 DEF Children
<1>4. CASE v \notin live /\ Children(v) = {} /\ Shrinks
  BY <1>1, <1>4 DEF Children, Shrinks
<1>5. CASE v \notin live /\ Children(v) = {} /\ Grows
  <2> DEFINE o == Fresh(w.step, VCN)
  <2>1. live' = live \cup {o}
    BY <1>5 DEF Grows, Created
  <2>2. o # v
    BY <1>0, <1>1, <1>5, FreshIsKnown DEF MaybeOCID
  <2>3. ~(o.type # "vcn" /\ o.vcn = v.vcn)
    <3> SUFFICES ASSUME o.type # "vcn", o.vcn = v.vcn PROVE FALSE
      OBVIOUS
    <3>1. /\ VCN \in live /\ VCN \in OCID /\ o.vcn = VCN.vcn
      <4>1. o.type = w.step /\ (w.step # "vcn" => o.vcn = VCN.vcn /\ VCN \in live)
        BY <1>0, <1>5, FreshFacts DEF Grows
      <4> QED BY <4>1, <1>0 DEF CloudOK
    <3>2. VCN.type = "vcn"
      BY <3>1, OCIDFacts DEF Kinds, Is, VCN
    <3>3. VCN = v
      <4>1. VCN.n = VCN.vcn
        BY <3>1, <3>2, OCIDFacts
      <4>2. VCN.type = v.type /\ VCN.n = v.n /\ VCN.vcn = v.vcn
        BY <3>1, <3>2, <4>1, <1>1
      <4> HIDE DEF v
      <4> QED BY <3>1, <4>2, <1>1, OCIDFacts
    <3> QED BY <3>1, <3>3, <1>5
  <2> HIDE DEF o, v
  <2> QED BY <2>1, <2>2, <2>3, <1>1, <1>5 DEF Children
<1> QED BY <1>0, <1>2, <1>3, <1>4, <1>5, CloudMoves

-----------------------------------------------------------------------------
(* Without deletions and database failures.                                *)

\* Where the worker is when it has got the resource of a step.
LEMMA GetsFacts ==
  ASSUME Typed, NEW o, Gets(o)
  PROVE  /\ w'.got[w.step] = o
         /\ \A t \in Type \ {w.step} : w'.got[t] = w.got[t]
         /\ w'.new = NoOCID
         /\ w.step = "vcn" => w'.pc = "lookup" /\ w'.step = "igw"
         /\ w.step = "igw" => w'.pc = "route_read" /\ w'.step = "igw"
         /\ w.step = "security_list" => w'.pc = "lookup" /\ w'.step = "subnet"
         /\ w.step = "subnet" => w'.pc = "result" /\ w'.step = "subnet"
         /\ w.step \in {"vcn", "igw", "security_list", "subnet"}
<1>1. w.got \in [Type -> MaybeOCID] /\ w.step \in Type
  BY WorkerFields DEF Typed
<1>2. /\ w'.pc = NextPc(w.step) /\ w'.step = NextStep(w.step) /\ w'.new = NoOCID
      /\ w'.got = [w.got EXCEPT ![w.step] = o]
  BY DEF Gets, Becomes
<1> QED BY <1>1, <1>2 DEF NextPc, NextStep, Type

\* The worker has come to a resource that is usable, or that it has created.
LEMMA ObtainStep ==
  ASSUME Typed, Progress, NEW o, Gets(o), UNCHANGED cloud,
         w.pc \in {"lookup", "track"},
         w.step = "vcn" => o \in live,
         w.step # "vcn" => VCN \in live,
         w.step \in {"igw", "security_list"} => o \in Managed(w.step, VCN),
         w.step = "subnet" => /\ o \in OCID
                              /\ \E i \in DOMAIN rows' : rows'[i].ocid = o
  PROVE  Progress'
<1>0. /\ live' = live /\ routes' = routes
      /\ Type = {"vcn", "igw", "security_list", "subnet"}
  BY DEF cloud, Type
<1>1. w.step \in {"vcn", "igw", "security_list", "subnet"}
  BY GetsFacts
<1>2. CASE w.step = "vcn"
  <2>1. w'.pc = "lookup" /\ w'.step = "igw" /\ w'.got["vcn"] = o
    BY <1>2, GetsFacts
  <2> QED BY <2>1, <1>0, <1>2 DEF Progress, Past, VCN
<1>3. CASE w.step = "igw"
  <2>1. /\ w'.pc = "route_read" /\ w'.got["igw"] = o /\ w'.got["vcn"] = w.got["vcn"]
    BY <1>0, <1>3, GetsFacts
  <2> QED BY <2>1, <1>0, <1>3 DEF Progress, Past, VCN, Managed, Children
<1>4. CASE w.step = "security_list"
  <2>1. /\ w'.pc = "lookup" /\ w'.step = "subnet" /\ w'.got["security_list"] = o
        /\ w'.got["vcn"] = w.got["vcn"] /\ w'.got["igw"] = w.got["igw"]
    BY <1>0, <1>4, GetsFacts
  <2>2. w.got["igw"] \in Managed("igw", VCN) /\ w.got["igw"] \in routes
    BY <1>4 DEF Progress, Past
  <2> QED BY <2>1, <2>2, <1>0, <1>4 DEF Progress, Past, VCN, Managed, Children
<1>5. CASE w.step = "subnet"
  <2>1. /\ w'.pc = "result" /\ w'.got["subnet"] = o
        /\ w'.got["vcn"] = w.got["vcn"] /\ w'.got["igw"] = w.got["igw"]
        /\ w'.got["security_list"] = w.got["security_list"]
    BY <1>0, <1>5, GetsFacts
  <2>2. /\ w.got["igw"] \in Managed("igw", VCN) /\ w.got["igw"] \in routes
        /\ w.got["security_list"] \in Managed("security_list", VCN)
    BY <1>5 DEF Progress, Past
  <2> QED BY <2>1, <2>2, <1>0, <1>5 DEF Progress, Past, VCN, Managed, Children
<1> QED BY <1>1, <1>2, <1>3, <1>4, <1>5

\* Every step of a network that nobody deletes keeps usable what the worker has got.
LEMMA ProgressStep ==
  ASSUME Typed, Kinds, Undisturbed, Progress, ReadyIsQuiet,
         Outcome \/ Still
  PROVE  Progress'
<1>0. /\ CloudOK /\ w.step \in Type /\ VCN \in MaybeOCID /\ rows \in Seq(RowRecord)
      /\ w.step \in {"vcn", "igw", "security_list", "subnet"}
      /\ net.exists
  BY WorkerFields DEF Typed, ReadyIsQuiet, Type
<1>1. CASE Still
  BY <1>1 DEF Progress, Past, VCN, Managed, Children, Rules, Still, solid
<1>2. CASE Claims \/ Begins \/ Fails \/ Backs \/ Completes \/ Walks \/ Rests
  <2>1. \/ w'.pc \in {"idle", "begin", "complete", "error", "rollback"}
        \/ w'.pc = "lookup" /\ w'.step = "vcn"
    BY <1>2 DEF Claims, Begins, Fails, Backs, Completes, Walks, Rests, Anew, Becomes, Stays
  <2> QED BY <2>1 DEF Progress, Past
<1>3. CASE Finds
  <2>1. CASE w.step = "subnet"
    BY <1>3, <1>0, <2>1, RecordedFacts, ObtainStep DEF Finds, Usable, Progress, Past
  <2>2. CASE w.step # "subnet"
    BY <1>3, <1>0, <2>2, ObtainStep DEF Finds, Usable, Progress, Past
  <2> QED BY <2>1, <2>2
<1>4. CASE Misses
  <2>1. /\ w.pc = "lookup" /\ w'.pc = "create" /\ w'.step = w.step /\ w'.got = w.got
        /\ UNCHANGED <<rows, cloud>>
    BY <1>4 DEF Misses, Stays, Becomes
  <2> QED BY <2>1 DEF Progress, Past, VCN, Managed, Children, cloud
<1>5. CASE Makes
  <2> DEFINE o == Fresh(w.step, VCN)
  <2>1. /\ w.pc = "create" /\ w'.pc = "track" /\ w'.step = w.step /\ w'.got = w.got
        /\ w'.new = o /\ live' = live \cup {o} /\ routes' = routes
        /\ w.step # "vcn" => o.vcn = VCN.vcn
    BY <1>0, <1>5, FreshFacts DEF Makes, Becomes, Created
  <2> HIDE DEF o
  <2> QED BY <2>1 DEF Progress, Past, VCN, Managed, Children
<1>6. CASE Tracks
  <2>1. /\ w.pc = "track" /\ w.new \in OCID /\ w.new.type = w.step /\ w.new \in live
        /\ w.step # "vcn" => w.new.vcn = VCN.vcn /\ VCN \in live
    BY <1>0, <1>6 DEF Tracks, Kinds, Progress, Past
  <2>2. \E i \in DOMAIN rows' : rows'[i].ocid = w.new
    <3>1. rows' = Append(rows, NewRow) /\ NewRow \in RowRecord
      BY <1>0, <1>6, <2>1 DEF Tracks, NewRow, RowRecord
    <3>2. Len(rows) + 1 \in DOMAIN rows' /\ rows'[Len(rows) + 1].ocid = w.new
      BY <1>0, <3>1, AppendProperties, LenProperties DEF NewRow
    <3> QED BY <3>2
  <2>3. w.step \in {"igw", "security_list"} => w.new \in Managed(w.step, VCN)
    BY <2>1 DEF Managed, Children
  <2> QED BY <1>6, <2>1, <2>2, <2>3, ObtainStep DEF Tracks
<1>7. CASE Reads
  <2>1. /\ w.pc = "route_read" /\ w'.pc = "route_write" /\ w'.got = w.got
        /\ w'.rules = Rules(VCN) /\ UNCHANGED <<rows, cloud>>
    BY <1>7 DEF Reads, Becomes
  <2> QED BY <2>1 DEF Progress, Past, VCN, Managed, Children, Rules, cloud
<1>8. CASE Writes
  <2>1. /\ w.pc = "route_write" /\ w'.pc = "lookup" /\ w'.step = "security_list"
        /\ w'.got = w.got /\ live' = live /\ w.got["igw"] \in routes'
    BY <1>8 DEF Writes, Becomes, RoutesSet
  <2> QED BY <2>1 DEF Progress, Past, VCN, Managed, Children
<1> QED BY <1>1, <1>2, <1>3, <1>4, <1>5, <1>6, <1>7, <1>8 DEF Outcome

\* Every step of a network that nobody deletes keeps a ready one routed, and marks
\* what it deletes.
LEMMA ReadyStep ==
  ASSUME Typed, Kinds, Undisturbed, Progress, ReadyIsQuiet, DeadIsMarked, ReadyIsRouted,
         Outcome \/ Still
  PROVE  ReadyIsQuiet' /\ DeadIsMarked' /\ ReadyIsRouted'
<1>0. /\ CloudOK /\ w.step \in Type /\ VCN \in MaybeOCID /\ rows \in Seq(RowRecord)
      /\ net.exists
      /\ Len(rows) \in Nat /\ DOMAIN rows = 1..Len(rows)
  BY WorkerFields, RowsFacts DEF Typed, ReadyIsQuiet
<1>1. CASE Still
  BY <1>1 DEF ReadyIsQuiet, DeadIsMarked, ReadyIsRouted, Managed, Children, Still, solid
<1> SUFFICES ASSUME Outcome PROVE ReadyIsQuiet' /\ DeadIsMarked' /\ ReadyIsRouted'
  BY <1>1
<1>2. net'.exists
  BY <1>0, ZenonT(60) DEF Outcome, Claims, Begins, Fails, Finds, Misses, Makes, Backs, Tracks, Reads,
     Writes, Completes, Walks, Rests, OnlyStatus
<1>3. SameRows \/ Added
  BY <1>2, RowsMoves DEF Cleared
<1>4. \A o : (\E i \in DOMAIN rows : rows[i].ocid = o) =>
               \E i \in DOMAIN rows' : rows'[i].ocid = o
  BY <1>0, <1>3 DEF SameRows, Added
<1>5. ASSUME net'.status = "ready"
      PROVE  \/ Completes
             \/ /\ Claims \/ Rests
                /\ net.status = "ready" /\ net'.vcn = net.vcn /\ net'.subnet = net.subnet
  <2>1. CASE Claims \/ Rests
    BY <1>5, <2>1 DEF Claims, Rests, OnlyStatus
  <2>2. CASE Begins \/ Fails
    BY <1>0, <1>5, <2>2 DEF Begins, Fails
  <2>3. CASE Finds \/ Misses \/ Makes \/ Tracks \/ Reads \/ Writes \/ Walks \/ Backs
    <3>1. net' = net
      BY <2>3 DEF Finds, Misses, Makes, Tracks, Reads, Writes, Walks, Backs
    <3>2. w.pc \in {"idle", "begin", "complete"}
      BY <1>5, <3>1 DEF ReadyIsQuiet
    <3>3. Backs /\ w.pc = "idle"
      BY <2>3, <3>2 DEF Finds, Misses, Makes, Tracks, Reads, Writes, Walks, Backs
    <3> QED BY <1>5, <3>1, <3>3 DEF Backs, Stuck
  <2> QED BY <2>1, <2>2, <2>3 DEF Outcome
<1>6. ReadyIsQuiet'
  <2> SUFFICES ASSUME net'.status = "ready"
               PROVE  /\ w'.pc \in {"idle", "begin", "complete"}
                      /\ \E i \in DOMAIN rows' : rows'[i].ocid = net'.subnet
    BY <1>2 DEF ReadyIsQuiet
  <2>1. CASE Completes
    BY <2>1, <1>0, <1>4 DEF Completes, Stays, Becomes, Progress
  <2>2. CASE /\ Claims \/ Rests
             /\ net.status = "ready" /\ net'.vcn = net.vcn /\ net'.subnet = net.subnet
    <3>1. w'.pc \in {"idle", "begin"}
      BY <2>2 DEF Claims, Rests, Anew
    <3>2. \E i \in DOMAIN rows : rows[i].ocid = net.subnet
      BY <2>2 DEF ReadyIsQuiet
    <3>3. \E i \in DOMAIN rows' : rows'[i].ocid = net.subnet
      BY <3>2, <1>4
    <3> QED BY <2>2, <3>1, <3>3
  <2> QED BY <1>5, <2>1, <2>2
<1>7. ReadyIsRouted'
  <2> SUFFICES ASSUME net'.status = "ready"
               PROVE  ReadyIsRouted'
    BY DEF ReadyIsRouted
  <2>1. CASE Completes
    <3>1. /\ VCN \in live /\ w.got["igw"] \in Managed("igw", VCN) /\ w.got["igw"] \in routes
          /\ w.got["security_list"] \in Managed("security_list", VCN)
          /\ net'.vcn = VCN /\ live' = live /\ routes' = routes
      BY <2>1, <1>0 DEF Completes, Progress, cloud
    <3> QED BY <3>1 DEF ReadyIsRouted, Managed, Children
  <2>2. CASE /\ Claims \/ Rests
             /\ net.status = "ready" /\ net'.vcn = net.vcn /\ net'.subnet = net.subnet
    <3>1. live' = live /\ routes' = routes
      BY <2>2 DEF Claims, Rests, cloud
    <3> QED BY <2>2, <3>1 DEF ReadyIsRouted, Managed, Children
  <2> QED BY <1>5, <2>1, <2>2
<1>8. DeadIsMarked'
  <2>1. CASE Walks
    <3> DEFINE o == Head(w.todo)
    <3>1. /\ SameRows
          /\ \A i \in DOMAIN rows : rows'[i].deleted <=> rows[i].deleted \/ rows[i].ocid = o
      BY <2>1, <1>0, MarkedFacts DEF Walks
    <3>2. live \ {o} \subseteq live'
      BY <2>1 DEF Walks, Deleted, cloud
    <3> HIDE DEF o
    <3> QED BY <3>1, <3>2 DEF DeadIsMarked, SameRows
  <2>2. CASE ~Walks
    <3>1. live \subseteq live'
      BY <2>2 DEF Outcome, Claims, Begins, Fails, Finds, Misses, Makes, Backs, Tracks, Reads,
         Writes, Completes, Rests, cloud, Created, RoutesSet
    <3>2. CASE SameRows
      BY <3>1, <3>2 DEF DeadIsMarked, SameRows
    <3>3. CASE Added
      <4>1. w.new \in live
        BY <3>3 DEF Added, Progress
      <4>2. \A i \in DOMAIN rows' : i \in DOMAIN rows \/ i = Len(rows) + 1
        BY <3>3, <1>0 DEF Added
      <4> QED BY <3>1, <3>3, <4>1, <4>2 DEF DeadIsMarked, Added, NewRow
    <3> QED BY <3>2, <3>3, <1>3
  <2> QED BY <2>1, <2>2
<1> QED BY <1>6, <1>7, <1>8

-----------------------------------------------------------------------------
(* The theorems.                                                           *)

\* A network that has just been created satisfies the invariant.
LEMMA InitIInv == Init => IInv
<1> SUFFICES ASSUME Init PROVE IInv
  OBVIOUS
<1>0. /\ live = {} /\ routes = {} /\ made = [t \in Type |-> 0] /\ ending = {}
      /\ net = [exists |-> TRUE, status |-> "pending", vcn |-> NoOCID, subnet |-> NoOCID]
      /\ rows = <<>> /\ vps = "none" /\ phase = "boot" /\ faults = 0 /\ forgone = 0
      /\ jobs = [j \in Request |-> [state |-> "absent", attempts |-> 0]]
      /\ w = Idle /\ d = [c \in Clients |-> Off]
  BY DEF Init, CloudInit
<1>1. w.pc = "idle" /\ w.new = NoOCID /\ w.todo = <<>> /\ w \in WorkerRecord
      /\ \A t \in Type : w.got[t] = NoOCID
  BY <1>0, IdleFacts, ZenonT(60)
<1>2. Typed
  <2>1. CloudOK
    BY <1>0, GenAssumption DEF CloudOK
  <2>2. net \in NetRecord
    BY <1>0 DEF NetRecord, NetStatus, MaybeOCID
  <2>3. jobs \in [Request -> JobRecord]
    BY <1>0, NetworkAssumption DEF JobRecord
  <2>4. d \in [Clients -> CallRecord]
    BY <1>0, CallWrites
  <2>5. faults \in 0..MaxFaults /\ forgone \in 0..faults /\ rows \in Seq(RowRecord)
    BY <1>0, NetworkAssumption
  <2> QED BY <1>0, <1>1, <2>1, <2>2, <2>3, <2>4, <2>5 DEF Typed
<1>3. JobsShape
  BY <1>0, <1>1, NetworkAssumption DEF JobsShape
<1>4. \A c \in Clients : d[c].pc = "off" /\ d[c].vcn = NoOCID
  BY <1>0, CallWrites
<1>5. AllKnown /\ Kinds
  <2>1. made["vcn"] = 0 /\ NoOCID.vcn = 0 /\ NoOCID \notin OCID
    BY <1>0, OCIDFacts
  <2>2. Known(NoOCID)
    BY <2>1 DEF Known
  <2>3. net.vcn = NoOCID
    BY <1>0
  <2> QED BY <1>0, <1>1, <1>4, <2>2, <2>3 DEF AllKnown, Kinds, Is
<1>6. RowsOrder /\ DependentsFirst /\ RecordOutlivesVCN
  BY <1>0, <1>1, <1>4 DEF RowsOrder, DependentsFirst, RecordOutlivesVCN
<1>7. HiddenByFault
  <2>1. Hidden = {}
    BY <1>0 DEF Hidden, Untracked
  <2> QED BY <1>0, <2>1, FS_EmptySet DEF HiddenByFault
<1>8. UndisturbedInv
  <2>1. net.exists /\ net.status = "pending"
    BY <1>0
  <2>2. Progress
    BY <1>1 DEF Progress, Past
  <2>3. ReadyIsQuiet /\ DeadIsMarked /\ ReadyIsRouted
    BY <1>0, <2>1 DEF ReadyIsQuiet, DeadIsMarked, ReadyIsRouted
  <2> QED BY <2>2, <2>3 DEF UndisturbedInv
<1> QED BY <1>2, <1>3, <1>5, <1>6, <1>7, <1>8, TypeParts DEF IInv

\* The invariant holds of every state that jobs, deletions, crashes, faults and
\* reconciliation can reach.
THEOREM Inductive == Spec => []IInv
<1>1. ASSUME IInv, [Next]_vars PROVE IInv'
  <2>1. Typed
    BY <1>1, TypeParts DEF IInv
  <2>2. Typed' /\ JobsShape'
    BY <1>1, <2>1, TypeStep DEF IInv
  <2>3. TypeOK' /\ Types'
    BY <2>2, TypeParts, PTL
  <2>4. AllKnown' /\ Kinds'
    BY <1>1, <2>1, KnownStep, KindsStep DEF IInv
  <2>5. RowsOrder' /\ DependentsFirst'
    BY <1>1, <2>1, RowsOrderStep, DependentsStep DEF IInv
  <2>6. HiddenByFault' /\ RecordOutlivesVCN'
    BY <1>1, <2>1, HiddenStep, RecordStep DEF IInv
  <2>7. ASSUME Undisturbed
        PROVE  Progress' /\ ReadyIsQuiet' /\ DeadIsMarked' /\ ReadyIsRouted'
    <3>1. Outcome \/ Still
      BY <1>1, <2>1, <2>7, Steps DEF Undisturbed
    <3> QED BY <1>1, <2>1, <2>7, <3>1, ProgressStep, ReadyStep DEF IInv, UndisturbedInv
  <2>8. UndisturbedInv'
    BY <2>7 DEF UndisturbedInv, Undisturbed
  <2> QED BY <2>2, <2>3, <2>4, <2>5, <2>6, <2>8 DEF IInv
<1> QED BY <1>1, InitIInv, PTL DEF Spec

\* The columns, the worker and the callers keep the values they may have.
THEOREM TypeCorrect == Spec => []TypeOK
<1>1. IInv => TypeOK
  BY DEF IInv
<1> QED BY <1>1, Inductive, PTL

\* createOrGetX and its INSERT: while the network exists, what lives in the cloud
\* without a row was hidden by a fault, each by one of its own.
THEOREM UntrackedByFault == Spec => []UntrackedNeedsFault
<1>1. ASSUME IInv, net.exists
      PROVE  Cardinality(Untracked) <= faults + (IF w.pc = "track" THEN 1 ELSE 0)
  <2>0. /\ IsFiniteSet(Untracked) /\ IsFiniteSet(Hidden)
        /\ Cardinality(Hidden) <= faults /\ faults \in Nat
    <3>1. Typed
      BY <1>1, TypeParts DEF IInv
    <3>2. IsFiniteSet(Untracked) /\ IsFiniteSet(Hidden)
      BY <3>1, FiniteCloud, FS_Subset DEF Typed, Hidden, Untracked
    <3> QED BY <1>1, <3>1, <3>2, NetworkAssumption DEF IInv, HiddenByFault, Typed
  <2>1. Cardinality(Hidden) \in Nat
    BY <2>0, FS_CardinalityType
  <2>2. CASE w.pc # "track"
    <3>1. Untracked = Hidden
      BY <2>2 DEF Hidden
    <3> QED BY <2>0, <2>1, <2>2, <3>1
  <2>3. CASE w.pc = "track"
    <3>1. Untracked \subseteq Hidden \cup {w.new}
      BY <2>3 DEF Hidden
    <3>2. /\ IsFiniteSet(Hidden \cup {w.new})
          /\ Cardinality(Hidden \cup {w.new}) \in {Cardinality(Hidden), Cardinality(Hidden) + 1}
      BY <2>0, FS_AddElement
    <3>3. Cardinality(Untracked) <= Cardinality(Hidden \cup {w.new})
          /\ Cardinality(Untracked) \in Nat
      BY <2>0, <3>1, <3>2, FS_Subset, FS_CardinalityType
    <3> QED BY <2>0, <2>1, <2>3, <3>2, <3>3
  <2> QED BY <2>2, <2>3
<1>2. IInv => UntrackedNeedsFault
  BY <1>1 DEF UntrackedNeedsFault
<1> QED BY <1>2, Inductive, PTL

\* RollbackNetwork: no VCN is attempted before what was tracked inside it, however
\* many attempts and rollbacks the rows come from.
THEOREM RollsBackInOrder == Spec => []DependentsFirst
<1>1. IInv => DependentsFirst
  BY DEF IInv
<1> QED BY <1>1, Inductive, PTL

\* DestroyNetwork: the record goes only after the VCN it named and all inside.
THEOREM RecordGoesLast == Spec => []RecordOutlivesVCN
<1>1. IInv => RecordOutlivesVCN
  BY DEF IInv
<1> QED BY <1>1, Inductive, PTL

\* ProvisionNetwork: with neither deletions nor database failures, a network that
\* is ready has its VCN, a routed gateway and a security list.
THEOREM ReadyMeansRouted ==
  ASSUME Clients = {}, "db" \notin Events
  PROVE  Spec => []ReadyIsRouted
<1>1. IInv => ReadyIsRouted
  BY DEF IInv, UndisturbedInv, Undisturbed
<1> QED BY <1>1, Inductive, PTL

\* createOrGetSubnet: under the same conditions the subnet of a network that is
\* ready lives, or a row that is marked deleted tells that it does not.
THEOREM DeadSubnetTold ==
  ASSUME Clients = {}, "db" \notin Events
  PROVE  Spec => []DeadSubnetIsMarked
<1>1. IInv => DeadSubnetIsMarked
  <2> SUFFICES ASSUME IInv, net.status = "ready", net.subnet \notin live
               PROVE  \E i \in DOMAIN rows : rows[i].ocid = net.subnet /\ rows[i].deleted
    BY DEF DeadSubnetIsMarked
  <2>1. ReadyIsQuiet /\ DeadIsMarked
    BY DEF IInv, UndisturbedInv, Undisturbed
  <2>2. PICK i \in DOMAIN rows : rows[i].ocid = net.subnet
    BY <2>1 DEF ReadyIsQuiet
  <2> QED BY <2>1, <2>2 DEF DeadIsMarked
<1> QED BY <1>1, Inductive, PTL

-----------------------------------------------------------------------------
(* Who leaves 'destroying' behind.                                         *)

\* A step that neither writes 'destroying' nor ends a deletion.
Quiet ==
  /\ d' = d
  /\ net'.exists /\ net'.status = "destroying" =>
       net.exists /\ net.status = "destroying"

\* A write of another status than 'destroying' is quiet.
LEMMA QuietWrites ==
  ASSUME net \in NetRecord, d' = d
  PROVE  /\ UNCHANGED net => Quiet
         /\ \A s \in NetStatus \ {"destroying"} : StatusSet(s) => Quiet
<1>1. UNCHANGED net => Quiet
  BY DEF Quiet
<1>2. ASSUME NEW s \in NetStatus \ {"destroying"}, StatusSet(s) PROVE Quiet
  BY <1>2, NetWrites DEF Quiet
<1> QED BY <1>1, <1>2

\* The worker never writes 'destroying'.
LEMMA WorkerIsQuiet ==
  ASSUME Typed, WorkerStep \/ ClaimJob \/ Reconcile
  PROVE  Quiet
<1>0. net \in NetRecord /\ "provisioning" \in NetStatus \ {"destroying"}
      /\ "failed" \in NetStatus \ {"destroying"} /\ "pending" \in NetStatus \ {"destroying"}
  BY DEF Typed, NetStatus
<1>1. d' = d
  <2>1. CASE Begin \/ Lookup \/ Create \/ CreateFails \/ Track \/ RouteRead \/ RouteWrite
    BY <2>1 DEF Begin, Lookup, Create, CreateFails, Track, RouteRead, RouteWrite
  <2>2. CASE Result \/ MarkComplete \/ RollbackStep \/ RollbackEnds \/ MarkFailed \/ Reconcile
    BY <2>2 DEF Result, MarkComplete, RollbackStep, RollbackEnds, MarkFailed, Reconcile
  <2>3. CASE ClaimJob
    BY <2>3, Zenon DEF ClaimJob
  <2> QED BY <2>1, <2>2, <2>3 DEF WorkerStep
<1>2. \A after : RollbackBegins(after) => UNCHANGED net
  BY DEF RollbackBegins
<1>3. CASE Begin
  BY <1>0, <1>1, <1>3, QuietWrites DEF Begin, RunFails
<1>4. CASE Lookup \/ Create \/ CreateFails \/ Track \/ RouteRead \/ RouteWrite
           \/ MarkComplete \/ RollbackStep \/ MarkFailed \/ ClaimJob
  <2>1. CASE Lookup \/ Create \/ Track \/ MarkComplete \/ RollbackStep
    BY <1>0, <1>1, <2>1, QuietWrites DEF Lookup, Create, Track, MarkComplete, RollbackStep
  <2>3. CASE ClaimJob
    <3>1. UNCHANGED net
      BY <2>3, Zenon DEF ClaimJob
    <3> QED BY <1>0, <1>1, <3>1, QuietWrites
  <2>2. CASE CreateFails \/ RouteRead \/ RouteWrite \/ MarkFailed
    BY <1>0, <1>1, <1>2, <2>2, QuietWrites DEF CreateFails, RouteRead, RouteWrite, MarkFailed
  <2> QED BY <1>4, <2>1, <2>2, <2>3
<1>5. CASE Result
  <2>1. CASE UNCHANGED net
    BY <1>0, <1>1, <2>1, QuietWrites
  <2>2. CASE net.exists /\ net' = [net EXCEPT !.status = "ready", !.vcn = VCN,
                                              !.subnet = w.got["subnet"]]
    <3>1. net'.status = "ready"
      BY <1>0, <2>2 DEF NetRecord
    <3> QED BY <1>1, <3>1 DEF Quiet
  <2> QED BY <1>5, <2>1, <2>2 DEF Result, RunFails
<1>6. CASE RollbackEnds
  <2>1. StatusSet("failed") \/ UNCHANGED net
    BY <1>6 DEF RollbackEnds, RolledBack
  <2> QED BY <1>0, <1>1, <2>1, QuietWrites
<1>7. CASE Reconcile
  <2>1. StatusSet("pending") \/ UNCHANGED net
    BY <1>2, <1>7 DEF Reconcile, ResetPartly
  <2> QED BY <1>0, <1>1, <2>1, QuietWrites
<1> QED BY <1>3, <1>4, <1>5, <1>6, <1>7 DEF WorkerStep

\* A deletion that goes on has not ended.
LEMMA GoesIsOwned ==
  ASSUME Typed, NEW c \in Clients, NEW x, d' = [d EXCEPT ![c] = x], x.pc # "off"
  PROVE  ~Ownerless'
<1>1. d'[c].pc # "off"
  BY DEF Typed
<1> QED BY <1>1 DEF Ownerless

\* DestroyNetwork: a deletion that ends leaves 'destroying' behind only by a fault
\* of the step that ends it, or by writing back the 'destroying' that it read when
\* it began; nobody else writes it.
THEOREM DestroyingNeedsOverlap == Spec => DestroyingIsReverted
<1> DEFINE Reverted ==
      ~Ownerless /\ Ownerless' =>
         \/ faults' > faults
         \/ \E c \in Clients : d[c].pc = "revert" /\ d[c].prev = "destroying"
<1>1. ASSUME IInv, [Next]_vars PROVE Reverted
  <2> SUFFICES ASSUME ~Ownerless, Ownerless' PROVE
         \/ faults' > faults
         \/ \E c \in Clients : d[c].pc = "revert" /\ d[c].prev = "destroying"
    OBVIOUS
  <2>0. Typed /\ net \in NetRecord /\ faults \in 0..MaxFaults /\ forgone \in 0..faults
    BY <1>1, TypeParts DEF IInv, Typed
  <2>1. Quiet => FALSE
    BY DEF Quiet, Ownerless
  <2>2. UNCHANGED <<net, d>> => FALSE
    BY DEF Ownerless
  <2>3. \A e : Fault(e) => faults' > faults
    BY <2>0, FaultCounts DEF OneFault
  <2>4. CASE WorkerStep \/ ClaimJob \/ Reconcile
    BY <2>0, <2>1, <2>4, WorkerIsQuiet
  <2>5. CASE RequestProvision \/ Poll \/ CheckForVPS \/ InsertVPS \/ DeleteVPS \/ Restart
             \/ SubnetEnds \/ UNCHANGED vars
    BY <2>2, <2>5 DEF RequestProvision, Poll, CheckForVPS, InsertVPS, DeleteVPS, Restart, vars,
                      SubnetEnds, Here
  <2>6. CASE Crash
    BY <2>3, <2>6 DEF Crash
  <2>7. ASSUME NEW c \in Clients, DestroyRequest(c) \/ DestroyStep(c) \/ Disconnect(c)
        PROVE  faults' > faults \/ (d[c].pc = "revert" /\ d[c].prev = "destroying")
    <3> DEFINE On(x) == d' = [d EXCEPT ![c] = x] /\ x.pc # "off"
    <3>0. d[c] \in CallRecord
      BY <2>0 DEF Typed
    <3>1. \A x : On(x) => FALSE
      BY <2>0, GoesIsOwned
    <3>2. ASSUME NEW pc \in CallPc \ {"off"}, Goes(c, pc) PROVE FALSE
      <4>1. d' = [d EXCEPT ![c] = [d[c] EXCEPT !.pc = pc]]
        BY <2>0, <3>2 DEF Goes, Typed
      <4>2. [d[c] EXCEPT !.pc = pc].pc = pc
        BY <3>0, CallFields
      <4> QED BY <3>1, <4>1, <4>2
    <3>3. CASE Disconnect(c)
      BY <2>3, <3>3 DEF Disconnect
    <3>4. CASE DestroyRevert(c)
      <4>1. CASE StatusSet(d[c].prev)
        <5>1. d[c].prev \in NetStatus
          BY <3>0 DEF CallRecord
        <5>2. net'.exists /\ net'.status = "destroying"
          BY DEF Ownerless
        <5>3. net.exists \/ net' = net
          BY <4>1 DEF StatusSet
        <5>4. net.exists
          BY <5>2, <5>3, Zenon
        <5>5. net' = [net EXCEPT !.status = d[c].prev]
          BY <4>1, <5>4 DEF StatusSet
        <5>6. net'.status = d[c].prev
          BY <2>0, <5>5 DEF NetRecord
        <5> QED BY <3>4, <5>2, <5>6 DEF DestroyRevert
      <4> QED BY <2>3, <3>4, <4>1 DEF DestroyRevert
    <3>5. CASE DestroyRecord(c)
      <4>1. CASE net' = [net EXCEPT !.exists = FALSE]
        <5>1. ~net'.exists
          BY <2>0, <4>1 DEF NetRecord
        <5> QED BY <5>1 DEF Ownerless
      <4> QED BY <3>2, <3>5, <4>1 DEF DestroyRecord, CallPc
    <3>6. CASE DestroyRequest(c)
      <4> DEFINE x == [Off EXCEPT !.pc = "mark", !.prev = net.status, !.vcn = net.vcn,
                                  !.subnet = net.subnet]
      <4>1. x.pc = "mark"
        BY DEF Off
      <4>2. d' = [d EXCEPT ![c] = x]
        BY <3>6 DEF DestroyRequest
      <4> HIDE DEF x
      <4> QED BY <3>1, <4>1, <4>2
    <3>7. CASE DestroyMark(c)
      BY <3>2, <3>7 DEF DestroyMark, CallPc
    <3>8. CASE RouteClearRead(c) \/ RouteClearWrite(c) \/ RouteClearWait(c)
               \/ DestroyIGW(c) \/ DestroySubnet(c) \/ SubnetWait(c)
               \/ ListLists(c) \/ DestroyList(c) \/ DestroyVCN(c)
      <4>1. UNCHANGED net
        BY <3>8 DEF RouteClearRead, RouteClearWrite, RouteClearWait, DestroyIGW,
              DestroySubnet, SubnetWait, ListLists, DestroyList, DestroyVCN, Here
      <4>2. d[c].pc # "off"
        BY <3>8 DEF RouteClearRead, RouteClearWrite, RouteClearWait, DestroyIGW,
              DestroySubnet, SubnetWait, ListLists, DestroyList, DestroyVCN
      <4>3. \A o, pc : Deletes(c, o, pc) => Goes(c, pc) \/ Goes(c, "revert")
        BY DEF Deletes
      <4>4. CASE \E pc \in CallPc \ {"off"} : Goes(c, pc)
        BY <3>2, <4>4
      <4>5. ASSUME NEW s, NEW r,
                   d' = [d EXCEPT ![c].pc = "route_write", ![c].todo = s, ![c].rules = r]
            PROVE  FALSE
        <5>2. d' = [d EXCEPT ![c] = [d[c] EXCEPT !.pc = "route_write", !.todo = s, !.rules = r]]
          BY <2>0, <4>5 DEF Typed
        <5>3. [d[c] EXCEPT !.pc = "route_write", !.todo = s, !.rules = r].pc = "route_write"
          BY <3>0, CallFields
        <5> QED BY <3>1, <5>2, <5>3
      <4>6. ASSUME NEW s, d' = [d EXCEPT ![c].pc = "list", ![c].todo = s] PROVE FALSE
        <5>2. d' = [d EXCEPT ![c] = [d[c] EXCEPT !.pc = "list", !.todo = s]]
          BY <2>0, <4>6 DEF Typed
        <5>3. [d[c] EXCEPT !.pc = "list", !.todo = s].pc = "list"
          BY <3>0, CallFields
        <5> QED BY <3>1, <5>2, <5>3
      <4>7. ASSUME NEW s, \/ d' = [d EXCEPT ![c].todo = s]
                          \/ d' = [d EXCEPT ![c].todo = s, ![c].errs = TRUE]
            PROVE  FALSE
        <5>2. \/ d' = [d EXCEPT ![c] = [d[c] EXCEPT !.todo = s]]
              \/ d' = [d EXCEPT ![c] = [d[c] EXCEPT !.todo = s, !.errs = TRUE]]
          BY <2>0, <4>7 DEF Typed
        <5>3. /\ [d[c] EXCEPT !.todo = s].pc # "off"
              /\ [d[c] EXCEPT !.todo = s, !.errs = TRUE].pc # "off"
          BY <3>0, <4>2, CallFields
        <5> QED BY <3>1, <5>2, <5>3
      <4>8. CASE RouteClearRead(c)
        <5> DEFINE m == Managed("igw", d[c].vcn)
                   r == Rules(d[c].vcn) \ m
        <5>1. \/ Goes(c, "igw") \/ Goes(c, "revert")
              \/ d' = [d EXCEPT ![c].pc = "route_write", ![c].todo = m, ![c].rules = r]
          BY <4>8, Zenon DEF RouteClearRead
        <5> HIDE DEF m, r
        <5>2. Goes(c, "igw") \/ Goes(c, "revert") => FALSE
          BY <3>2 DEF CallPc
        <5>3. d' # [d EXCEPT ![c].pc = "route_write", ![c].todo = m, ![c].rules = r]
          BY <4>5, Zenon
        <5> QED BY <5>1, <5>2, <5>3, Zenon
      <4>9. CASE RouteClearWrite(c) \/ RouteClearWait(c) \/ SubnetWait(c)
        BY <4>4, <4>9 DEF RouteClearWrite, RouteClearWait, SubnetWait, CallPc
      <4>10. CASE DestroyIGW(c) \/ DestroySubnet(c) \/ DestroyVCN(c)
        BY <4>3, <4>4, <4>10 DEF DestroyIGW, DestroySubnet, DestroyVCN, CallPc
      <4>11. CASE ListLists(c)
        BY <4>4, <4>6, <4>11 DEF ListLists, CallPc
      <4>12. CASE DestroyList(c)
        <5>1. CASE \E pc \in {"revert", "vcn"} : Goes(c, pc)
          BY <4>4, <5>1 DEF CallPc
        <5>2. CASE \E o \in d[c].todo : \/ d' = [d EXCEPT ![c].todo = @ \ {o}]
                                        \/ d' = [d EXCEPT ![c].todo = @ \ {o}, ![c].errs = TRUE]
          BY <4>7, <5>2
        <5> QED BY <4>12, <5>1, <5>2 DEF DestroyList
      <4> QED BY <3>8, <4>8, <4>9, <4>10, <4>11, <4>12
    <3> QED BY <2>7, <3>3, <3>4, <3>5, <3>6, <3>7, <3>8 DEF DestroyStep
  <2> QED BY <1>1, <2>4, <2>5, <2>6, <2>7 DEF Next
<1>2. IInv /\ [Next]_vars => [Reverted]_vars
  BY <1>1
<1> QED BY <1>2, Inductive, PTL DEF Spec, DestroyingIsReverted

-----------------------------------------------------------------------------
(* What a rollback gives up.                                               *)

RowsOf(t) == {i \in DOMAIN rows : rows[i].ocid.type = t}

\* No resource has two rows.
RowsDiffer ==
  /\ \A i, j \in DOMAIN rows : rows[i].ocid = rows[j].ocid => i = j
  /\ w.pc = "track" => w.new \notin Tracked

\* What the run may still get a row for, before the subnet.
ToTrack ==
  CASE Past({"vcn"}) -> Type
    [] Past({"igw"}) -> {"igw", "security_list"}
    [] Past({"security_list"}) \/ w.pc \in {"route_read", "route_write"} -> {"security_list"}
    [] OTHER -> {}

Running == Past(Type) \/ w.pc \in {"route_read", "route_write", "result"}

\* Until a subnet is tracked, the rows that are not marked are those of the
\* run that goes on or was cut off.
FirstRuns ==
  /\ Running => net.status = "provisioning"
  /\ RowsOf("subnet") = {} =>
       \A i \in DOMAIN rows : ~rows[i].deleted =>
         /\ net.status = "provisioning"
         /\ rows[i].ocid.type \notin ToTrack
         /\ \A j \in DOMAIN rows :
              rows[j].ocid.type = rows[i].ocid.type /\ ~rows[j].deleted => i = j

\* The VCN with number v has a gateway that a route holds.
Routed(v) == \E g \in live \cap routes : g.type = "igw" /\ g.vcn = v

\* A subnet was made only where the gateway was routed.
SubnetsRouted ==
  /\ \A s \in live : s.type = "subnet" => Routed(s.vcn)
  /\ \A s \in ending : Routed(s.vcn)
  /\ \A i \in RowsOf("subnet") : Routed(rows[i].ocid.vcn)

\* What is TERMINATING is a tracked subnet.
EndingTracked == \A s \in ending : s.type = "subnet" /\ s \in Tracked

\* A rollback has marked the rows it has come past.
RollbackShape ==
  w.pc = "rollback" =>
    /\ Len(w.todo) <= Len(rows)
    /\ \A k \in DOMAIN w.todo : w.todo[k] = rows[Len(w.todo) + 1 - k].ocid
    /\ \A i \in DOMAIN rows : i > Len(w.todo) => rows[i].deleted

RollbackInv ==
  Undisturbed =>
    RowsDiffer /\ FirstRuns /\ SubnetsRouted /\ EndingTracked /\ RollbackShape

(* The price of what was given up.                                         *)

\* Rollbacks are through with it: hidden, held by a route, or marked.
Settled ==
  Hidden \cup {o \in routes : o.type = "igw"}
         \cup {rows[i].ocid : i \in {j \in DOMAIN rows : rows[j].deleted}}

\* The VCNs (their numbers) in which a hidden subnet holds the security lists.
HiddenIn == {h.vcn : h \in {x \in Hidden : x.type = "subnet"}}

\* A marked row stands for a fault: nothing else keeps alive what it names, or
\* only what a rollback is still to come to.
Counts(i) ==
  LET o == rows[i].ocid IN
  \/ o.type = "igw" /\ o \notin routes
  \/ o.type = "security_list" /\ ~ListOfSubnet(o) /\ o.vcn \notin HiddenIn
  \/ o.type = "subnet"
  \/ /\ o.type = "vcn"
     /\ \A c \in live : c.type # "vcn" /\ c.vcn = o.vcn => c \notin Settled

Charged == {i \in DOMAIN rows : rows[i].deleted /\ rows[i].ocid \in live /\ Counts(i)}

ChargesPaid == Undisturbed => Cardinality(Charged) <= forgone

\* A step of a network that nobody deletes, from a state the invariant allows.
Calm ==
  /\ Undisturbed
  /\ Typed /\ Kinds /\ AllKnown /\ RowsOrder
  /\ Progress /\ ReadyIsQuiet
  /\ Outcome \/ Still

\* The invariant brings every step of such a network here.
LEMMA CalmSteps == IInv /\ Undisturbed /\ [Next]_vars => Calm
<1> SUFFICES ASSUME IInv, Undisturbed, [Next]_vars PROVE Calm
  OBVIOUS
<1>1. Typed /\ Kinds /\ AllKnown /\ RowsOrder /\ Progress /\ ReadyIsQuiet
  BY TypeParts DEF IInv, UndisturbedInv
<1>2. Outcome \/ Still
  BY <1>1, Steps DEF Undisturbed
<1> QED BY <1>1, <1>2 DEF Calm

\* What is there, and of which type.
LEMMA CalmFacts ==
  ASSUME Calm
  PROVE  /\ rows \in Seq(RowRecord) /\ Len(rows) \in Nat /\ DOMAIN rows = 1..Len(rows)
         /\ \A i \in DOMAIN rows : rows[i].ocid \in OCID
         /\ w \in WorkerRecord /\ w.step \in Type /\ CloudOK /\ VCN \in MaybeOCID
         /\ net.exists
BY RowsFacts, WorkerFields DEF Calm, Typed, ReadyIsQuiet

\* Rows stay, in their order, and marks stay; only a worker that tracks adds one.
LEMMA RowsGrow ==
  ASSUME Calm
  PROVE  /\ DOMAIN rows \subseteq DOMAIN rows'
         /\ \A i \in DOMAIN rows : /\ rows'[i].ocid = rows[i].ocid
                                   /\ rows[i].deleted => rows'[i].deleted
         /\ \A i \in DOMAIN rows' :
              \/ i \in DOMAIN rows
              \/ /\ Added /\ i = Len(rows) + 1 /\ i \notin DOMAIN rows
                 /\ rows'[i].ocid = w.new /\ ~rows'[i].deleted
         /\ Added => w.pc = "track" /\ w'.pc # "track" /\ Tracks
         /\ rows' \in Seq(RowRecord)
<1>0. rows \in Seq(RowRecord) /\ Len(rows) \in Nat /\ DOMAIN rows = 1..Len(rows) /\ net.exists
  BY CalmFacts
<1>1. CASE Still
  BY <1>0, <1>1 DEF Still, Added
<1>2. CASE Outcome
  <2>1. net'.exists
    BY <1>0, <1>2, ZenonT(60) DEF Outcome, Claims, Begins, Fails, Finds, Misses, Makes, Backs,
       Tracks, Reads, Writes, Completes, Walks, Rests, OnlyStatus
  <2>2. (SameRows \/ Added) /\ rows' \in Seq(RowRecord)
    BY <1>2, <2>1, RowsMoves DEF Calm, Cleared
  <2>3. Added => Tracks
    <3>1. Added => w.pc = "track" /\ rows' # rows
      <4>1. Added => w.pc = "track" /\ Len(rows') = Len(rows) + 1
        BY DEF Added
      <4> QED BY <4>1, <1>0
    <3> QED BY <1>2, <3>1 DEF Outcome, Claims, Begins, Fails, Finds, Misses, Makes, Backs,
                             Reads, Writes, Completes, Walks, Rests
  <2>4. CASE SameRows
    BY <2>2, <2>3, <2>4 DEF SameRows, Added
  <2>5. CASE Added
    <3>1. \A i \in DOMAIN rows' : \/ i \in DOMAIN rows
                                  \/ i = Len(rows) + 1 /\ i \notin DOMAIN rows
      <4>1. DOMAIN rows' = 1..(Len(rows) + 1)
        BY <2>5 DEF Added
      <4> QED BY <4>1, <1>0
    <3>2. DOMAIN rows \subseteq DOMAIN rows'
      BY <1>0, <2>5 DEF Added
    <3> QED BY <3>1, <3>2, <2>2, <2>3, <2>5 DEF Added, NewRow
  <2> QED BY <2>2, <2>4, <2>5
<1> QED BY <1>1, <1>2 DEF Calm

\* Without database failures a resource that is created gets its row.
LEMMA TracksAdds == Calm /\ Tracks => Added
<1> SUFFICES ASSUME Calm, Tracks PROVE Added
  OBVIOUS
<1>0. /\ Typed /\ Kinds /\ Undisturbed /\ net.exists /\ rows \in Seq(RowRecord)
      /\ Len(rows) \in Nat
  BY CalmFacts DEF Calm
<1>1. rows' = Append(rows, NewRow) /\ w.pc = "track" /\ net' = net
  BY <1>0 DEF Tracks, NewRow
<1>2. NewRow \in RowRecord
  BY <1>0, <1>1 DEF Kinds, NewRow, RowRecord
<1>3. Len(rows') = Len(rows) + 1
  BY <1>0, <1>1, <1>2, AppendProperties
<1>4. ~SameRows
  BY <1>0, <1>3 DEF SameRows
<1>5. ~Cleared
  BY <1>0, <1>1 DEF Cleared
<1>6. SameRows \/ Cleared \/ Added
  BY <1>0, RowsMoves DEF Outcome
<1> QED BY <1>4, <1>5, <1>6

\* Where the worker is after a step that did not move it there.
LEMMA WhereFrom ==
  ASSUME Calm
  PROVE  /\ w'.pc = "track" => Still \/ Makes
         /\ w'.pc = "create" => Still \/ Misses
         /\ w'.pc = "rollback" => Still \/ Walks \/ Backs
<1>1. Finds \/ Tracks => w'.pc \notin {"track", "create", "rollback"}
  BY DEF Finds, Tracks, Gets, Becomes, NextPc
<1>2. Claims \/ Begins \/ Fails \/ Reads \/ Writes \/ Completes \/ Rests
        => w'.pc \notin {"track", "create", "rollback"}
  BY DEF Claims, Begins, Fails, Reads, Writes, Completes, Rests, Anew, Becomes, Stays
<1>3. /\ Misses => w'.pc = "create"
      /\ Makes => w'.pc = "track"
      /\ Backs \/ Walks => w'.pc = "rollback"
  BY DEF Misses, Makes, Backs, Walks, Becomes, Stays
<1> QED BY <1>1, <1>2, <1>3 DEF Calm, Outcome

\* Every step keeps the rows distinct: what is created was not known.
LEMMA RowsDifferStep == Calm /\ RowsDiffer => RowsDiffer'
<1> SUFFICES ASSUME Calm, RowsDiffer PROVE RowsDiffer'
  OBVIOUS
<1>1. ASSUME NEW i \in DOMAIN rows', NEW j \in DOMAIN rows', rows'[i].ocid = rows'[j].ocid
      PROVE  i = j
  <2>1. ASSUME Added, NEW k \in DOMAIN rows PROVE rows[k].ocid # w.new
    BY <2>1 DEF Added, RowsDiffer, Tracked
  <2> QED BY <1>1, <2>1, RowsGrow DEF RowsDiffer
<1>2. ASSUME w'.pc = "track" PROVE w'.new \notin Tracked'
  <2>1. CASE Still
    BY <1>2, <2>1 DEF Still, RowsDiffer, Tracked
  <2>2. CASE Makes
    <3>1. w'.new = Fresh(w.step, VCN) /\ rows' = rows /\ Grows
      BY <2>2 DEF Makes, Becomes, Grows
    <3>2. \A i \in DOMAIN rows : rows[i].ocid # Fresh(w.step, VCN)
      <4>1. Outcome /\ Typed /\ AllKnown
        BY <2>2 DEF Calm, Outcome
      <4>2. \A i \in DOMAIN rows : Known(rows[i].ocid) /\ rows[i].ocid \in MaybeOCID
        BY <4>1, CalmFacts DEF AllKnown, MaybeOCID
      <4> QED BY <3>1, <4>1, <4>2, FreshIsKnown
    <3> QED BY <3>1, <3>2 DEF Tracked
  <2> QED BY <1>2, <2>1, <2>2, WhereFrom
<1> QED BY <1>1, <1>2 DEF RowsDiffer

\* Every step keeps the first runs apart: a run begins when all rows are marked, and
\* gets at most one row of each type before the subnet's.
LEMMA FirstRunsStep ==
  Calm /\ RollbackShape /\ FirstRuns => FirstRuns'
<1> SUFFICES ASSUME Calm, RollbackShape, FirstRuns PROVE FirstRuns'
  OBVIOUS
<1>0. /\ Typed /\ Kinds /\ Undisturbed /\ net.exists /\ rows \in Seq(RowRecord)
      /\ w.step \in {"vcn", "igw", "security_list", "subnet"}
  BY CalmFacts DEF Calm, Type
<1> DEFINE Free == {i \in DOMAIN rows : ~rows[i].deleted}
           FreeThen == {i \in DOMAIN rows' : ~rows'[i].deleted}
<1>1. CASE Still
  BY <1>1 DEF Still, FirstRuns, Running, ToTrack, Past, RowsOf
<1>2. Running' => net'.status = "provisioning"
  <2>1. CASE Begins
    BY <2>1 DEF Begins
  <2>2. CASE Finds \/ Misses \/ Makes \/ Tracks \/ Reads \/ Writes
    <3>1. net' = net
      BY <2>2 DEF Finds, Misses, Makes, Tracks, Reads, Writes
    <3>2. Running
      BY <1>0, <2>2 DEF Finds, Misses, Makes, Tracks, Reads, Writes, Running, Past, Type
    <3> QED BY <3>1, <3>2 DEF FirstRuns
  <2>3. CASE Claims \/ Fails \/ Backs \/ Completes \/ Walks \/ Rests
    BY <2>3 DEF Claims, Fails, Backs, Completes, Walks, Rests, Anew, Becomes, Stays,
                Running, Past
  <2>4. CASE Still
    BY <2>4 DEF Still, Running, Past, FirstRuns
  <2> QED BY <2>1, <2>2, <2>3, <2>4 DEF Calm, Outcome
<1>3. ASSUME Outcome, RowsOf("subnet")' = {}, NEW i \in DOMAIN rows', ~rows'[i].deleted
      PROVE  /\ net'.status = "provisioning"
             /\ rows'[i].ocid.type \notin ToTrack'
             /\ \A j \in DOMAIN rows' :
                  rows'[j].ocid.type = rows'[i].ocid.type /\ ~rows'[j].deleted => i = j
  <2>1. RowsOf("subnet") = {}
    BY <1>3, RowsGrow DEF RowsOf
  <2>2. \A k \in DOMAIN rows : ~rows[k].deleted =>
          /\ net.status = "provisioning" /\ rows[k].ocid.type \notin ToTrack
          /\ \A j \in DOMAIN rows :
               rows[j].ocid.type = rows[k].ocid.type /\ ~rows[j].deleted => k = j
    BY <2>1 DEF FirstRuns
  <2>3. ASSUME ~Added, ToTrack' \subseteq ToTrack, net'.status = net.status
        PROVE  /\ net'.status = "provisioning"
               /\ rows'[i].ocid.type \notin ToTrack'
               /\ \A j \in DOMAIN rows' :
                    rows'[j].ocid.type = rows'[i].ocid.type /\ ~rows'[j].deleted => i = j
    <3>1. i \in DOMAIN rows /\ ~rows[i].deleted /\ rows'[i].ocid = rows[i].ocid
      BY <1>3, <2>3, RowsGrow
    <3>2. ASSUME NEW j \in DOMAIN rows', rows'[j].ocid.type = rows'[i].ocid.type,
                 ~rows'[j].deleted
          PROVE  i = j
      <4>1. j \in DOMAIN rows /\ ~rows[j].deleted /\ rows'[j].ocid = rows[j].ocid
        BY <3>2, <2>3, RowsGrow
      <4> QED BY <2>2, <3>1, <3>2, <4>1
    <3> QED BY <2>2, <2>3, <3>1, <3>2
  <2>4. Added => Tracks
    BY RowsGrow
  <2>5. CASE Claims \/ Finds \/ Misses \/ Makes \/ Backs \/ Reads \/ Writes \/ Walks
    <3>1. ~Added
      <4>1. Added => w.pc = "track" /\ w'.pc # "track"
        BY RowsGrow
      <4> QED BY <2>5, <4>1 DEF Claims, Finds, Misses, Makes, Backs, Reads, Writes, Walks
    <3>2. net' = net
      BY <2>5 DEF Claims, Finds, Misses, Makes, Backs, Reads, Writes, Walks
    <3>3. ToTrack' \subseteq ToTrack
      <4>1. CASE Claims \/ Backs \/ Walks
        BY <4>1 DEF Claims, Backs, Walks, Anew, Becomes, ToTrack, Past
      <4>2. CASE Finds
        <5>1. w.pc = "lookup" /\ Gets(Recorded(w.step))
          BY <4>2 DEF Finds
        <5> QED BY <1>0, <5>1, GetsFacts DEF ToTrack, Past, Type
      <4>3. CASE Misses \/ Makes \/ Reads \/ Writes
        BY <1>0, <4>3 DEF Misses, Makes, Reads, Writes, Becomes, Stays, ToTrack, Past
      <4> QED BY <2>5, <4>1, <4>2, <4>3
    <3> QED BY <2>3, <3>1, <3>2, <3>3
  <2>6. CASE Begins
    <3>1. net.status # "provisioning" /\ rows' = rows
      BY <2>6 DEF Begins
    <3> QED BY <3>1, <2>2, <1>3
  <2>7. CASE Tracks
    <3>1. Gets(w.new) /\ net' = net /\ w.pc = "track" /\ w.new.type = w.step
      BY <2>7, <1>0 DEF Tracks, Kinds
    <3>2. net.status = "provisioning"
      BY <1>0, <3>1 DEF FirstRuns, Running, Past, Type
    <3>3. Added
      BY <2>7, TracksAdds
    <3>4. w.new.type # "subnet"
      <4>1. Len(rows) + 1 \in DOMAIN rows' /\ rows'[Len(rows) + 1].ocid = w.new
        BY <3>3, CalmFacts DEF Added, NewRow
      <4> QED BY <1>3, <4>1 DEF RowsOf
    <3>5. ToTrack' \subseteq ToTrack \ {w.step} /\ w.step \in ToTrack
      BY <1>0, <3>1, <3>4, GetsFacts DEF ToTrack, Past, Type
    <3>6. \A k \in DOMAIN rows : ~rows[k].deleted => rows[k].ocid.type # w.new.type
      BY <2>2, <3>1, <3>5
    <3>7. \A k \in DOMAIN rows' : ~rows'[k].deleted =>
            \/ /\ k \in DOMAIN rows /\ ~rows[k].deleted /\ rows'[k].ocid = rows[k].ocid
            \/ k = Len(rows) + 1 /\ rows'[k].ocid = w.new
      BY RowsGrow
    <3> QED BY <1>3, <2>2, <3>1, <3>2, <3>5, <3>6, <3>7
  <2>8. CASE Completes
    <3>1. \E k \in DOMAIN rows : rows[k].ocid = w.got["subnet"] /\ w.got["subnet"] \in OCID
      BY <2>8 DEF Completes, Calm, Progress
    <3>2. Is("subnet", w.got["subnet"])
      BY <1>0, OCIDFacts DEF Kinds
    <3> QED BY <2>1, <3>1, <3>2, OCIDFacts DEF Is, RowsOf
  <2>9. CASE Fails
    <3>1. rows' = rows /\ ToTrack' = {} /\ ~Added
      <4>1. Added => w.pc = "track"
        BY RowsGrow
      <4> QED BY <2>9, <4>1 DEF Fails, Stays, Becomes, ToTrack, Past
    <3>2. CASE w.pc = "begin"
      BY <2>3, <2>9, <3>1, <3>2, <1>0 DEF Fails
    <3>3. CASE w.pc # "begin"
      <4>1. w.pc = "rollback" /\ w.todo = <<>>
        BY <2>9, <3>3, <1>0 DEF Fails
      <4> QED BY <1>3, <3>1, <4>1, CalmFacts DEF RollbackShape
    <3> QED BY <3>2, <3>3
  <2>10. CASE Rests
    <3>1. ToTrack' = {}
      BY <2>10 DEF Rests, Anew, ToTrack, Past
    <3>2. ~Added
      BY <2>4, <2>10, <1>0, CalmFacts, GetsFacts DEF Rests, Anew, Tracks
    <3>3. CASE net'.status = net.status
      BY <2>3, <3>1, <3>2, <3>3
    <3>4. CASE w.pc = "rollback" /\ w.todo = <<>> /\ rows' = rows
      BY <1>3, <3>4, CalmFacts DEF RollbackShape
    <3>5. CASE rows' = AllMarked
      <4>1. \A k \in DOMAIN rows' : rows'[k].deleted
        BY <1>0, <3>5, AllMarkedFacts DEF AllMarked, SameRows
      <4> QED BY <1>3, <4>1
    <3>6. \/ net'.status = net.status
          \/ w.pc = "rollback" /\ w.todo = <<>> /\ rows' = rows
          \/ rows' = AllMarked
      BY <2>10, <1>0 DEF Rests, AllMarked
    <3> QED BY <3>3, <3>4, <3>5, <3>6
  <2> QED BY <1>3, <2>5, <2>6, <2>7, <2>8, <2>9, <2>10 DEF Outcome
<1>4. CASE Outcome
  BY <1>2, <1>3, <1>4 DEF FirstRuns
<1> QED BY <1>1, <1>4 DEF Calm

\* What a step brings into the cloud has no row, and what it takes a rollback deletes.
LEMMA CloudOfRows ==
  ASSUME Calm
  PROVE  /\ \A i \in DOMAIN rows : rows[i].ocid \in live' => rows[i].ocid \in live
         /\ ~Walks => live \subseteq live' /\ routes \subseteq routes' /\ ending' \subseteq ending
         /\ live' \subseteq live \/ Grows
<1>0. /\ CloudOK /\ VCN \in MaybeOCID /\ w.step \in Type
      /\ \A i \in DOMAIN rows : rows[i].ocid \in OCID
  BY CalmFacts
<1>1. CASE Still
  BY <1>1 DEF Still, solid
<1>2. CASE Outcome
  <2>1. Shrinks \/ Grows
    BY <1>2, CloudMoves DEF Calm
  <2>2. ASSUME Grows, NEW i \in DOMAIN rows, rows[i].ocid \in live' PROVE rows[i].ocid \in live
    <3>1. rows[i].ocid # Fresh(w.step, VCN)
      BY <1>0, <1>2, <2>2, FreshIsKnown DEF Calm, AllKnown, MaybeOCID
    <3> QED BY <2>2, <3>1 DEF Grows, Created
  <2>3. ASSUME ~Walks
        PROVE  live \subseteq live' /\ routes \subseteq routes' /\ ending' \subseteq ending
    <3>1. CASE Writes
      <4>1. /\ w.rules = Rules(VCN) /\ live' = live /\ ending' = ending
            /\ routes' = (routes \ Rules(VCN)) \cup (w.rules \cup {w.got["igw"]})
        BY <3>1 DEF Writes, Calm, Progress, RoutesSet
      <4> QED BY <4>1
    <3>2. CASE Makes \/ Backs
      BY <3>2 DEF Makes, Backs, Created, cloud
    <3>3. CASE Claims \/ Begins \/ Fails \/ Finds \/ Misses \/ Tracks \/ Reads \/ Completes \/ Rests
      BY <3>3 DEF Claims, Begins, Fails, Finds, Misses, Tracks, Reads, Completes, Rests, cloud
    <3> QED BY <1>2, <2>3, <3>1, <3>2, <3>3 DEF Outcome
  <2> QED BY <2>1, <2>2, <2>3 DEF Shrinks
<1> QED BY <1>1, <1>2 DEF Calm

\* Every step keeps a rollback's work in the order of the rows: what it has come past
\* is marked.
LEMMA RollbackShapeStep == Calm /\ RollbackShape => RollbackShape'
<1> SUFFICES ASSUME Calm, RollbackShape, w'.pc = "rollback"
             PROVE  /\ Len(w'.todo) <= Len(rows')
                    /\ \A k \in DOMAIN w'.todo : w'.todo[k] = rows'[Len(w'.todo) + 1 - k].ocid
                    /\ \A i \in DOMAIN rows' : i > Len(w'.todo) => rows'[i].deleted
  BY DEF RollbackShape
<1>0. /\ rows \in Seq(RowRecord) /\ DOMAIN rows = 1..Len(rows) /\ Len(rows) \in Nat
      /\ w.todo \in Seq(OCID) /\ Undisturbed
  BY CalmFacts, WorkerFields DEF Calm
<1>1. CASE Still
  BY <1>1 DEF Still, RollbackShape
<1>2. CASE Backs
  <2>1. w'.todo = RollbackTodo /\ rows' = rows
    BY <1>2 DEF Backs, Becomes
  <2>2. /\ Len(w'.todo) = Len(rows) /\ DOMAIN w'.todo = 1..Len(rows)
        /\ \A k \in 1..Len(rows) : w'.todo[k] = rows[Len(rows) + 1 - k].ocid
    BY <1>0, <2>1, RollbackTodoFacts
  <2> QED BY <1>0, <2>1, <2>2
<1>3. CASE Walks
  <2> DEFINE n == Len(w.todo)
  <2>1. /\ w'.todo = Tail(w.todo) /\ w.todo # <<>> /\ w.pc = "rollback"
        /\ rows' = Marked(Head(w.todo))
    BY <1>0, <1>3 DEF Walks, Becomes
  <2>2. /\ n \in Nat \ {0} /\ Len(w'.todo) = n - 1 /\ DOMAIN w'.todo = 1..(n - 1)
        /\ DOMAIN w.todo = 1..n
        /\ \A k \in 1..(n - 1) : w'.todo[k] = w.todo[k + 1]
        /\ Head(w.todo) = w.todo[1]
    BY <1>0, <2>1
  <2>3. /\ n <= Len(rows)
        /\ \A k \in 1..n : w.todo[k] = rows[n + 1 - k].ocid
        /\ \A i \in DOMAIN rows : i > n => rows[i].deleted
    BY <2>1, <2>2 DEF RollbackShape
  <2>4. /\ SameRows
        /\ \A i \in DOMAIN rows :
             rows'[i].deleted <=> rows[i].deleted \/ rows[i].ocid = Head(w.todo)
    BY <1>0, <2>1, MarkedFacts
  <2> HIDE DEF n
  <2>5. rows[n].ocid = Head(w.todo)
    <3>1. 1 \in 1..n /\ n + 1 - 1 = n
      BY <2>2
    <3> QED BY <2>2, <2>3, <3>1
  <2>6. \A i \in DOMAIN rows : i > n - 1 => i = n \/ i > n
    BY <1>0, <2>2
  <2>7. ASSUME NEW k \in 1..(n - 1)
        PROVE  w'.todo[k] = rows'[(n - 1) + 1 - k].ocid
    <3>1. k + 1 \in 1..n /\ n + 1 - (k + 1) = (n - 1) + 1 - k /\ (n - 1) + 1 - k \in DOMAIN rows
      BY <1>0, <2>2, <2>3
    <3>2. w'.todo[k] = rows[(n - 1) + 1 - k].ocid
      BY <2>2, <2>3, <3>1
    <3> QED BY <2>4, <3>1, <3>2 DEF SameRows
  <2>8. \A i \in DOMAIN rows' : i > n - 1 => rows'[i].deleted
    BY <2>3, <2>4, <2>5, <2>6 DEF SameRows
  <2>9. n - 1 <= Len(rows')
    BY <1>0, <2>2, <2>3, <2>4 DEF SameRows
  <2> QED BY <2>2, <2>7, <2>8, <2>9
<1> QED BY <1>1, <1>2, <1>3, WhereFrom

\* Only a row that is added makes a resource tracked.
LEMMA TrackedKept ==
  Calm => /\ Tracked \subseteq Tracked'
          /\ ~Added => Tracked' = Tracked
          /\ Added => Tracked' \subseteq Tracked \cup {w.new}
BY RowsGrow DEF Tracked

\* A rollback comes only to what is tracked.
LEMMA HeadIsTracked ==
  ASSUME Calm, RollbackShape, Walks
  PROVE  Head(w.todo) \in Tracked
<1>1. /\ w.pc = "rollback" /\ w.todo # <<>> /\ w.todo \in Seq(OCID)
  BY CalmFacts, WorkerFields DEF Walks
<1>2. /\ Len(w.todo) \in Nat \ {0} /\ Head(w.todo) = w.todo[1] /\ 1 \in DOMAIN w.todo
  BY <1>1
<1>3. Head(w.todo) = rows[Len(w.todo) + 1 - 1].ocid /\ Len(w.todo) <= Len(rows)
  BY <1>1, <1>2 DEF RollbackShape
<1>4. Len(w.todo) + 1 - 1 \in DOMAIN rows
  BY <1>2, <1>3, CalmFacts
<1> QED BY <1>3, <1>4 DEF Tracked

\* OCI deletes no gateway that a route holds, and no route goes.
LEMMA RoutedStays == Calm => \A v : Routed(v) => Routed(v)'
<1> SUFFICES ASSUME Calm, NEW g \in live \cap routes, g.type = "igw"
             PROVE  g \in live' \cap routes'
  BY DEF Routed
<1>1. CASE Walks
  <2>1. routes' = routes /\ (live' = live \/ (~InUse(Head(w.todo)) /\ live' = live \ {Head(w.todo)}))
    BY <1>1 DEF Walks, Deletable, Deleted, cloud
  <2> QED BY <2>1 DEF InUse
<1> QED BY <1>1, CloudOfRows

\* Every step keeps the subnets routed: one is created only after the default route.
LEMMA SubnetsRoutedStep == Calm /\ SubnetsRouted => SubnetsRouted'
<1> SUFFICES ASSUME Calm, SubnetsRouted PROVE SubnetsRouted'
  OBVIOUS
<1>0. CloudOK /\ w.step \in Type /\ VCN \in MaybeOCID /\ Progress /\ Kinds
  BY CalmFacts DEF Calm
<1>1. ASSUME NEW s \in live', s.type = "subnet" PROVE Routed(s.vcn)
  <2>1. CASE s \in live
    BY <1>1, <2>1 DEF SubnetsRouted
  <2>2. CASE Grows /\ s \notin live
    <3>1. s = Fresh(w.step, VCN) /\ w.pc = "create"
      BY <2>2 DEF Grows, Created
    <3>2. w.step = "subnet" /\ s.vcn = VCN.vcn
      BY <1>0, <1>1, <2>2, <3>1, FreshFacts DEF Grows
    <3>3. w.got["igw"] \in Managed("igw", VCN) /\ w.got["igw"] \in routes
      BY <1>0, <3>1, <3>2 DEF Progress, Past
    <3> QED BY <3>2, <3>3 DEF Routed, Managed, Children
  <2> QED BY <2>1, <2>2, CloudOfRows
<1>2. ASSUME NEW s \in ending' PROVE Routed(s.vcn)
  <2>1. CASE s \in ending
    BY <2>1 DEF SubnetsRouted
  <2>2. CASE s \notin ending
    <3>1. s \in live /\ s.type = "subnet"
      BY <1>2, <2>2, CloudOfRows DEF Walks, Deletable, Deleted, cloud
    <3> QED BY <3>1 DEF SubnetsRouted
  <2> QED BY <2>1, <2>2
<1>3. ASSUME NEW i \in DOMAIN rows', rows'[i].ocid.type = "subnet"
      PROVE  Routed(rows'[i].ocid.vcn)
  <2>1. CASE i \in DOMAIN rows
    BY <1>3, <2>1, RowsGrow DEF SubnetsRouted, RowsOf
  <2>2. CASE i \notin DOMAIN rows
    <3>1. w.pc = "track" /\ rows'[i].ocid = w.new
      BY <2>2, RowsGrow
    <3> QED BY <1>0, <1>3, <3>1 DEF Progress, SubnetsRouted
  <2> QED BY <2>1, <2>2
<1> QED BY <1>1, <1>2, <1>3, RoutedStays DEF SubnetsRouted, RowsOf

\* Every step keeps tracked what is TERMINATING: a rollback's deletions are all there are.
LEMMA EndingTrackedStep ==
  Calm /\ RollbackShape /\ EndingTracked => EndingTracked'
<1> SUFFICES ASSUME Calm, RollbackShape, EndingTracked, NEW s \in ending'
             PROVE  s.type = "subnet" /\ s \in Tracked'
  BY DEF EndingTracked
<1>1. s \in ending \/ (Walks /\ s = Head(w.todo) /\ s.type = "subnet")
  BY CloudOfRows DEF Walks, Deleted, cloud
<1> QED BY <1>1, HeadIsTracked, TrackedKept DEF EndingTracked

\* What is hidden stays hidden: no rollback comes to it.
LEMMA HiddenStays == Calm /\ RollbackShape => Hidden \subseteq Hidden'
<1> SUFFICES ASSUME Calm, RollbackShape, NEW o \in Hidden PROVE o \in Hidden'
  OBVIOUS
<1>0. o \in live /\ o \notin Tracked /\ (w.pc = "track" => o # w.new)
  BY DEF Hidden, Untracked
<1>1. o \in live'
  <2>1. CASE Walks
    <3>1. Head(w.todo) \in Tracked
      BY <2>1, HeadIsTracked
    <3> QED BY <1>0, <2>1, <3>1 DEF Walks, Deleted, cloud
  <2> QED BY <1>0, <2>1, CloudOfRows
<1>2. o \notin Tracked'
  <2>1. Added => w.pc = "track"
    BY RowsGrow
  <2> QED BY <1>0, <2>1, TrackedKept
<1>3. w'.pc = "track" => o # w'.new
  <2>1. CASE Still
    BY <1>0, <2>1 DEF Still
  <2>2. CASE Makes
    <3>1. w'.new = Fresh(w.step, VCN) /\ Grows
      BY <2>2 DEF Makes, Becomes, Grows
    <3>2. o \in MaybeOCID /\ Known(o)
      BY <1>0, CalmFacts DEF Calm, AllKnown, CloudOK, MaybeOCID
    <3> QED BY <2>2, <3>1, <3>2, FreshIsKnown DEF Calm, Outcome
  <2> QED BY <2>1, <2>2, WhereFrom
<1> QED BY <1>1, <1>2, <1>3 DEF Hidden, Untracked

\* What rollbacks are through with stays so.
LEMMA SettledStays == Calm /\ RollbackShape => Settled \subseteq Settled'
<1> SUFFICES ASSUME Calm, RollbackShape PROVE Settled \subseteq Settled'
  OBVIOUS
<1>1. routes \subseteq routes'
  BY CloudOfRows DEF Walks, Deleted, cloud
<1>2. ASSUME NEW i \in DOMAIN rows, rows[i].deleted
      PROVE  \E j \in DOMAIN rows' : rows'[j].deleted /\ rows'[j].ocid = rows[i].ocid
  BY <1>2, RowsGrow
<1> QED BY <1>1, <1>2, HiddenStays DEF Settled

\* A subnet is tracked beside the security list after the step.
ListThen(o) ==
  o.type = "security_list" /\ \E s \in Tracked' : s.type = "subnet" /\ s.vcn = o.vcn

\* A row that counts after a step, and was marked, has counted before it, but for a VCN
\* from which a rollback has taken what was settled.
LEMMA CountedBefore ==
  ASSUME Calm, RollbackShape,
         NEW i \in Charged', i \in DOMAIN rows, rows[i].deleted,
         rows[i].ocid.type = "vcn" =>
           \A c \in live : c.type # "vcn" /\ c.vcn = rows[i].ocid.vcn /\ c \in Settled
                             => c \in live'
  PROVE  i \in Charged
<1> DEFINE o == rows[i].ocid
<1>1. rows'[i].ocid = o /\ o \in live /\ o \in live'
  BY RowsGrow, CloudOfRows DEF Charged
<1>2. \/ o.type = "igw" /\ o \notin routes'
      \/ o.type = "security_list" /\ ~ListThen(o) /\ o.vcn \notin HiddenIn'
      \/ o.type = "subnet"
      \/ /\ o.type = "vcn"
         /\ \A c \in live' : c.type # "vcn" /\ c.vcn = o.vcn => c \notin Settled'
  BY <1>1 DEF Charged, Counts, ListOfSubnet, ListThen
<1> SUFFICES Counts(i)
  BY <1>1 DEF Charged
<1> HIDE DEF o
<1>3. CASE o.type = "igw" /\ o \notin routes'
  <2>1. routes \subseteq routes'
    BY CloudOfRows DEF Walks, Deleted, cloud
  <2> QED BY <1>3, <2>1 DEF Counts, o
<1>4. CASE o.type = "security_list" /\ ~ListThen(o) /\ o.vcn \notin HiddenIn'
  <2>1. ~ListOfSubnet(o)
    BY <1>4, TrackedKept DEF ListOfSubnet, ListThen
  <2>2. HiddenIn \subseteq HiddenIn'
    BY HiddenStays DEF HiddenIn
  <2> QED BY <1>4, <2>1, <2>2 DEF Counts, o
<1>5. CASE o.type = "subnet"
  BY <1>5 DEF Counts, o
<1>6. CASE /\ o.type = "vcn"
           /\ \A c \in live' : c.type # "vcn" /\ c.vcn = o.vcn => c \notin Settled'
  <2>1. \A c \in live : c.type # "vcn" /\ c.vcn = o.vcn => c \notin Settled
    BY <1>6, SettledStays DEF o
  <2> QED BY <1>6, <2>1 DEF Counts, o
<1> QED BY <1>2, <1>3, <1>4, <1>5, <1>6

\* A step costs nothing, or a fault pays for one row more, or one row takes the place
\* of another.
Paid ==
  \/ Charged' \subseteq Charged
  \/ OneForgone /\ \E x : Charged' \subseteq Charged \cup {x}
  \/ \E x \in Charged : \E y : Charged' \subseteq (Charged \ {x}) \cup {y}

\* Steps that neither roll back nor reconcile nor crash cost nothing.
LEMMA OthersPaid ==
  ASSUME Calm, RollbackShape, ~Walks, ~Rests
  PROVE  Charged' \subseteq Charged
<1> SUFFICES ASSUME NEW i \in Charged' PROVE i \in Charged
  OBVIOUS
<1>1. i \in DOMAIN rows /\ rows[i].deleted
  <2>1. i \in DOMAIN rows' /\ rows'[i].deleted
    BY DEF Charged
  <2>2. CASE Added
    BY <2>1, <2>2, RowsGrow DEF Added
  <2>3. CASE ~Added
    <3>1. rows' = rows
      BY <2>3, TracksAdds DEF Calm, Still, Outcome, Claims, Begins, Fails, Finds, Misses, Makes,
         Backs, Reads, Writes, Completes
    <3> QED BY <2>1, <3>1
  <2> QED BY <2>2, <2>3
<1>2. live \subseteq live'
  BY CloudOfRows
<1> QED BY <1>1, <1>2, CountedBefore

\* A VCN is known by its number, and has one row.
LEMMA OneVcn ==
  ASSUME Calm, RowsDiffer, NEW i \in DOMAIN rows, NEW j \in DOMAIN rows,
         rows[i].ocid.type = "vcn", rows[j].ocid.type = "vcn",
         rows[i].ocid.vcn = rows[j].ocid.vcn
  PROVE  i = j
<1>1. rows[i].ocid = rows[j].ocid
  BY CalmFacts, OCIDFacts
<1> QED BY <1>1 DEF RowsDiffer

\* A retry, the end of a rollback and a crash cost nothing; a start-up that cannot ask
\* for a VCN costs at most that one.
LEMMA RestsPaid ==
  ASSUME Calm, RowsDiffer, FirstRuns, RollbackShape, Rests
  PROVE  Paid
<1>0. /\ Undisturbed /\ live' = live /\ rows \in Seq(RowRecord)
  BY CalmFacts DEF Rests, Calm, cloud
<1>1. ASSUME NEW i \in Charged', i \in DOMAIN rows, rows[i].deleted PROVE i \in Charged
  BY <1>0, <1>1, CountedBefore
<1>2. CASE rows' = rows
  BY <1>1, <1>2 DEF Paid, Charged
<1>3. CASE /\ w.pc = "idle"
           /\ rows' = [i \in DOMAIN rows |-> [rows[i] EXCEPT !.deleted = TRUE]]
           /\ \A i \in DOMAIN rows : rows[i].ocid.type = "vcn"
           /\ OneForgone \/ \A i \in DOMAIN rows : rows[i].ocid \notin live
  <2>1. DOMAIN rows' = DOMAIN rows /\ \A i \in DOMAIN rows : rows'[i].ocid = rows[i].ocid
    BY <1>0, <1>3, AllMarkedFacts DEF SameRows
  <2>2. CASE \A i \in DOMAIN rows : rows[i].ocid \notin live
    BY <1>0, <2>1, <2>2 DEF Paid, Charged
  <2>3. CASE OneForgone
    <3>1. RowsOf("subnet") = {}
      BY <1>3 DEF RowsOf
    <3>2. ASSUME NEW i \in Charged', i \notin Charged PROVE i \in DOMAIN rows /\ ~rows[i].deleted
      BY <1>1, <2>1, <3>2 DEF Charged
    <3>3. ASSUME NEW i \in Charged' \ Charged, NEW j \in Charged' \ Charged PROVE i = j
      BY <1>3, <3>1, <3>2, <3>3 DEF FirstRuns
    <3>4. CASE Charged' \subseteq Charged
      BY <3>4 DEF Paid
    <3>5. CASE ~(Charged' \subseteq Charged)
      <4>1. PICK x : x \in Charged' \ Charged
        BY <3>5
      <4>2. Charged' \subseteq Charged \cup {x}
        BY <3>3, <4>1
      <4> QED BY <2>3, <4>2 DEF Paid
    <3> QED BY <3>4, <3>5
  <2> QED BY <1>3, <2>2, <2>3
<1> QED BY <1>0, <1>2, <1>3 DEF Rests

\* The row a rollback is at: everything after it is marked.
At(k) ==
  /\ k \in DOMAIN rows /\ rows[k].ocid = Head(w.todo)
  /\ DOMAIN rows' = DOMAIN rows
  /\ rows'[k].deleted
  /\ \A i \in DOMAIN rows : /\ rows'[i].ocid = rows[i].ocid
                            /\ i # k => (rows'[i].deleted <=> rows[i].deleted)
                            /\ i > k => rows[i].deleted

\* It is the last of those the rollback has still to do.
LEMMA WalksAt ==
  ASSUME Calm, RowsDiffer, RollbackShape, Walks
  PROVE  \E k : At(k)
<1> DEFINE k == Len(w.todo)
<1>0. /\ rows \in Seq(RowRecord) /\ DOMAIN rows = 1..Len(rows) /\ Len(rows) \in Nat
      /\ w.todo \in Seq(OCID) /\ Undisturbed /\ \A i \in DOMAIN rows : rows[i].ocid \in OCID
  BY CalmFacts, WorkerFields DEF Calm
<1>1. w.todo # <<>> /\ w.pc = "rollback" /\ rows' = Marked(Head(w.todo))
  BY <1>0 DEF Walks
<1>2. k \in Nat \ {0} /\ DOMAIN w.todo = 1..k /\ Head(w.todo) = w.todo[1]
  BY <1>0, <1>1
<1>3. /\ k <= Len(rows)
      /\ \A j \in 1..k : w.todo[j] = rows[k + 1 - j].ocid
      /\ \A i \in DOMAIN rows : i > k => rows[i].deleted
  BY <1>1, <1>2 DEF RollbackShape
<1>4. /\ SameRows
      /\ \A i \in DOMAIN rows : rows'[i].deleted <=> rows[i].deleted \/ rows[i].ocid = Head(w.todo)
  BY <1>0, <1>1, MarkedFacts
<1> HIDE DEF k
<1>5. rows[k].ocid = Head(w.todo) /\ k \in DOMAIN rows
  <2>1. 1 \in 1..k /\ k + 1 - 1 = k /\ k \in DOMAIN rows
    BY <1>0, <1>2, <1>3
  <2> QED BY <1>2, <1>3, <2>1
<1>6. \A i \in DOMAIN rows : i # k => rows[i].ocid # Head(w.todo)
  BY <1>5 DEF RowsDiffer
<1>7. At(k)
  BY <1>3, <1>4, <1>5, <1>6 DEF At, SameRows
<1> QED BY <1>7

\* A deletion takes away the row it is at; if that had been given up before, the VCN it
\* stood in may take its place.
LEMMA DeletionPaid ==
  ASSUME Calm, RowsDiffer, SubnetsRouted, RollbackShape, Walks,
         Deletable(Head(w.todo)), Deleted(Head(w.todo))
  PROVE  Paid
<1> DEFINE o == Head(w.todo)
<1>1. PICK k : At(k)
  BY WalksAt
<1>2. /\ k \in DOMAIN rows /\ rows[k].ocid = o /\ live' = live \ {o} /\ routes' = routes
      /\ w.pc = "rollback" /\ o \in live /\ ~InUse(o)
      /\ \A i \in DOMAIN rows : rows[i].ocid \in OCID /\ rows'[i].ocid = rows[i].ocid
  BY <1>1, CalmFacts DEF At, Deleted, Walks, Deletable
<1> HIDE DEF o
<1>3. ASSUME NEW i \in Charged', i \notin Charged
      PROVE  /\ i \in DOMAIN rows /\ rows[i].ocid.type = "vcn"
             /\ o.type # "vcn" /\ o.vcn = rows[i].ocid.vcn /\ o \in Settled
             /\ \A c \in live' : c.type # "vcn" /\ c.vcn = o.vcn => c \notin Settled'
  <2>1. i \in DOMAIN rows /\ rows'[i].deleted /\ rows[i].ocid \in live'
    BY <1>1, <1>2 DEF Charged, At
  <2>2. i # k /\ rows[i].deleted
    BY <1>1, <1>2, <2>1 DEF At
  <2>3. /\ rows[i].ocid.type = "vcn"
        /\ \E c \in live : /\ c.type # "vcn" /\ c.vcn = rows[i].ocid.vcn
                           /\ c \in Settled /\ c \notin live'
    BY <1>3, <2>1, <2>2, CountedBefore
  <2>4. o.type # "vcn" /\ o.vcn = rows[i].ocid.vcn /\ o \in Settled
    BY <1>2, <2>3
  <2> QED BY <1>2, <1>3, <2>1, <2>3, <2>4 DEF Charged, Counts
<1>4. CASE Charged' \subseteq Charged
  BY <1>4 DEF Paid
<1>5. CASE ~(Charged' \subseteq Charged)
  <2>1. PICK i : i \in Charged' /\ i \notin Charged
    BY <1>5
  <2>2. /\ i \in DOMAIN rows /\ rows[i].ocid.type = "vcn"
        /\ o.type # "vcn" /\ o.vcn = rows[i].ocid.vcn /\ o \in Settled
        /\ \A c \in live' : c.type # "vcn" /\ c.vcn = o.vcn => c \notin Settled'
    BY <1>3, <2>1
  <2>3. rows[k].deleted
    <3>1. o \notin Hidden
      BY <1>2 DEF Hidden, Untracked, Tracked
    <3>2. ~(o.type = "igw" /\ o \in routes)
      BY <1>2 DEF InUse
    <3>3. PICK j \in DOMAIN rows : rows[j].deleted /\ rows[j].ocid = o
      BY <2>2, <3>1, <3>2 DEF Settled
    <3> QED BY <1>2, <3>3 DEF RowsDiffer
  <2>4. Counts(k)
    <3>1. o.type \in {"igw", "security_list", "subnet"}
      BY <1>2, <2>2, OCIDFacts
    <3>2. CASE o.type = "igw"
      BY <1>2, <3>2 DEF Counts, InUse
    <3>3. CASE o.type = "security_list"
      <4>1. ~ListOfSubnet(o)
        <5> SUFFICES ASSUME ListOfSubnet(o) PROVE FALSE
          OBVIOUS
        <5>1. Routed(o.vcn)
          BY DEF ListOfSubnet, Tracked, SubnetsRouted, RowsOf
        <5>2. PICK g \in live \cap routes : g.type = "igw" /\ g.vcn = o.vcn
          BY <5>1 DEF Routed
        <5>3. g \in live' /\ g \in Settled'
          BY <1>2, <3>3, <5>2 DEF Settled
        <5> QED BY <2>2, <5>2, <5>3
      <4>2. o.vcn \notin HiddenIn
        <5>1. ASSUME NEW h \in Hidden, h.type = "subnet", h.vcn = o.vcn PROVE FALSE
          <6>1. h \in Managed("subnet", o)
            BY <5>1 DEF Managed, Children, Hidden, Untracked
          <6> QED BY <1>2, <3>3, <6>1 DEF InUse
        <5> QED BY <5>1 DEF HiddenIn
      <4> QED BY <1>2, <3>3, <4>1, <4>2 DEF Counts
    <3>4. CASE o.type = "subnet"
      BY <1>2, <3>4 DEF Counts
    <3> QED BY <3>1, <3>2, <3>3, <3>4
  <2>5. k \in Charged
    BY <1>2, <2>3, <2>4 DEF Charged
  <2>6. k \notin Charged'
    BY <1>2 DEF Charged
  <2>7. \A j \in Charged' \ Charged : j = i
    <3> TAKE j \in Charged' \ Charged
    <3>1. j \in DOMAIN rows /\ rows[j].ocid.type = "vcn" /\ o.vcn = rows[j].ocid.vcn
      BY <1>3
    <3> QED BY <2>2, <3>1, OneVcn
  <2>8. Charged' \subseteq (Charged \ {k}) \cup {i}
    BY <2>6, <2>7
  <2> QED BY <2>5, <2>8 DEF Paid
<1> QED BY <1>4, <1>5

\* What a rollback does not delete, though it could, is paid by the fault; what it could
\* not is held by something.
LEMMA RefusalPaid ==
  ASSUME Calm, RowsDiffer, SubnetsRouted, EndingTracked, RollbackShape, Walks,
         UNCHANGED cloud, ~Deletable(Head(w.todo)) \/ OneForgone
  PROVE  Paid
<1> DEFINE o == Head(w.todo)
<1>1. PICK k : At(k)
  BY WalksAt
<1>2. /\ k \in DOMAIN rows /\ rows[k].ocid = o /\ live' = live /\ routes' = routes
      /\ ~Deletable(o) \/ OneForgone
      /\ \A i \in DOMAIN rows : rows[i].ocid \in OCID /\ rows'[i].ocid = rows[i].ocid
  BY <1>1, CalmFacts DEF At, Walks, cloud
<1> HIDE DEF o
<1>3. Hidden = live \ Tracked
  BY DEF Walks, Hidden, Untracked
<1>4. Charged' \subseteq Charged \cup {k}
  <2> SUFFICES ASSUME NEW i \in Charged', i # k PROVE i \in Charged
    OBVIOUS
  <2>1. i \in DOMAIN rows /\ rows[i].deleted
    BY <1>1 DEF Charged, At
  <2> QED BY <1>2, <2>1, CountedBefore
<1>5. CASE OneForgone
  BY <1>4, <1>5 DEF Paid
<1>6. CASE ~Deletable(o)
  <2> SUFFICES ASSUME k \in Charged' PROVE FALSE
    BY <1>4 DEF Paid
  <2>1. o \in live /\ InUse(o)
    BY <1>2, <1>6 DEF Deletable, Charged
  <2>2. \/ o.type = "igw" /\ o \notin routes
        \/ o.type = "security_list" /\ ~ListThen(o) /\ o.vcn \notin HiddenIn'
        \/ o.type = "subnet"
        \/ /\ o.type = "vcn"
           /\ \A c \in live : c.type # "vcn" /\ c.vcn = o.vcn => c \notin Settled'
    BY <1>2 DEF Charged, Counts, ListOfSubnet, ListThen
  <2>3. CASE o.type = "igw" \/ o.type = "subnet"
    BY <2>1, <2>2, <2>3 DEF InUse
  <2>4. CASE o.type = "security_list" /\ ~ListThen(o) /\ o.vcn \notin HiddenIn'
    <3>1. ~ListOfSubnet(o) /\ o.vcn \notin HiddenIn
      BY <2>4, TrackedKept, HiddenStays DEF ListOfSubnet, ListThen, HiddenIn
    <3>2. PICK h \in live \cup ending : h.vcn = o.vcn /\ (h \in ending \/ h.type = "subnet")
      BY <2>1, <2>4 DEF InUse, Managed, Children, Ending
    <3>3. CASE h \in ending
      <4>1. h \in Tracked /\ h.type = "subnet"
        BY <3>3 DEF EndingTracked
      <4> QED BY <2>4, <3>1, <3>2, <4>1 DEF ListOfSubnet
    <3>4. CASE h \in live /\ h.type = "subnet"
      <4>1. h \notin Tracked
        BY <2>4, <3>1, <3>2, <3>4 DEF ListOfSubnet
      <4> QED BY <1>3, <3>1, <3>2, <3>4, <4>1 DEF HiddenIn
    <3> QED BY <3>2, <3>3, <3>4
  <2>5. CASE o.type = "vcn" /\ \A c \in live : c.type # "vcn" /\ c.vcn = o.vcn => c \notin Settled'
    <3>1. \A c \in live : c.type # "vcn" /\ c.vcn = o.vcn => c \notin Settled
      BY <2>5, SettledStays
    <3>2. CASE Ending(o) # {}
      <4>1. Routed(o.vcn)
        BY <3>2 DEF Ending, SubnetsRouted
      <4> QED BY <3>1, <4>1 DEF Routed, Settled
    <3>3. CASE Children(o) # {}
      <4>1. PICK c \in live : c.type # "vcn" /\ c.vcn = o.vcn
        BY <3>3 DEF Children
      <4>2. c \in Tracked
        BY <1>3, <3>1, <4>1 DEF Settled
      <4>3. PICK j \in DOMAIN rows : rows[j].ocid = c
        BY <4>2 DEF Tracked
      <4>4. k < j
        BY <1>2, <2>5, <4>1, <4>3 DEF Calm, RowsOrder
      <4>5. rows[j].deleted
        BY <1>1, <4>3, <4>4 DEF At
      <4> QED BY <3>1, <4>1, <4>3, <4>5 DEF Settled
    <3> QED BY <2>1, <2>5, <3>2, <3>3 DEF InUse
  <2> QED BY <2>2, <2>3, <2>4, <2>5
<1> QED BY <1>2, <1>5, <1>6

\* Every step is paid for.
LEMMA StepsPaid ==
  ASSUME Calm, RowsDiffer, FirstRuns, SubnetsRouted, EndingTracked, RollbackShape
  PROVE  Paid
<1>1. CASE Walks
  BY <1>1, DeletionPaid, RefusalPaid DEF Walks, Calm
<1>2. CASE Rests
  BY <1>2, RestsPaid
<1>3. CASE ~Walks /\ ~Rests
  BY <1>3, OthersPaid DEF Paid
<1> QED BY <1>1, <1>2, <1>3

\* A set that changes one element for another, or loses some, does not grow.
LEMMA Swapped ==
  ASSUME NEW S, IsFiniteSet(S), NEW x \in S, NEW y, NEW T, T \subseteq (S \ {x}) \cup {y}
  PROVE  IsFiniteSet(T) /\ Cardinality(T) <= Cardinality(S)
<1> DEFINE R == S \ {x}
<1>1. /\ IsFiniteSet(R) /\ Cardinality(R) = Cardinality(S) - 1
      /\ Cardinality(S) \in Nat /\ Cardinality(R) \in Nat
  BY FS_RemoveElement, FS_CardinalityType
<1> HIDE DEF R
<1>2. /\ IsFiniteSet(R \cup {y})
      /\ Cardinality(R \cup {y}) \in {Cardinality(R), Cardinality(R) + 1}
  BY <1>1, FS_AddElement
<1>3. T \subseteq R \cup {y}
  BY DEF R
<1>4. /\ IsFiniteSet(T) /\ Cardinality(T) <= Cardinality(R \cup {y}) /\ Cardinality(T) \in Nat
  BY <1>2, <1>3, FS_Subset, FS_CardinalityType
<1> QED BY <1>1, <1>2, <1>4

\* There are finitely many rows.
LEMMA FiniteRows == rows \in Seq(RowRecord) => \A S \in SUBSET DOMAIN rows : IsFiniteSet(S)
<1> SUFFICES ASSUME rows \in Seq(RowRecord), NEW S \in SUBSET DOMAIN rows PROVE IsFiniteSet(S)
  OBVIOUS
<1>1. IsFiniteSet(1..Len(rows))
  BY RowsFacts, FS_Interval
<1> QED BY <1>1, RowsFacts, FS_Subset

\* Every step keeps the charges paid by the faults.
LEMMA ChargesStep ==
  ASSUME Calm, RowsDiffer, FirstRuns, SubnetsRouted, EndingTracked, RollbackShape,
         forgone \in Nat, forgone' \in Nat, forgone' >= forgone,
         Cardinality(Charged) <= forgone
  PROVE  Cardinality(Charged') <= forgone'
<1>0. /\ IsFiniteSet(Charged) /\ forgone \in Nat /\ forgone' \in Nat
      /\ Cardinality(Charged) \in Nat
  <2>1. Charged \in SUBSET DOMAIN rows
    BY DEF Charged
  <2>2. IsFiniteSet(Charged)
    BY <2>1, CalmFacts, FiniteRows
  <2> QED BY <2>2, FS_CardinalityType, NetworkAssumption
<1>1. CASE Charged' \subseteq Charged
  <2>1. Cardinality(Charged') <= Cardinality(Charged) /\ Cardinality(Charged') \in Nat
    BY <1>0, <1>1, FS_Subset, FS_CardinalityType
  <2> QED BY <1>0, <2>1
<1>2. CASE OneForgone /\ \E x : Charged' \subseteq Charged \cup {x}
  <2>1. PICK x : Charged' \subseteq Charged \cup {x}
    BY <1>2
  <2>2. /\ IsFiniteSet(Charged \cup {x})
        /\ Cardinality(Charged \cup {x}) \in {Cardinality(Charged), Cardinality(Charged) + 1}
    BY <1>0, FS_AddElement
  <2>3. Cardinality(Charged') <= Cardinality(Charged \cup {x}) /\ Cardinality(Charged') \in Nat
    BY <2>1, <2>2, FS_Subset, FS_CardinalityType
  <2> QED BY <1>0, <1>2, <2>2, <2>3 DEF OneForgone
<1>3. CASE \E x \in Charged : \E y : Charged' \subseteq (Charged \ {x}) \cup {y}
  <2>1. PICK x \in Charged : \E y : Charged' \subseteq (Charged \ {x}) \cup {y}
    BY <1>3
  <2>2. PICK y : Charged' \subseteq (Charged \ {x}) \cup {y}
    BY <2>1
  <2>3. IsFiniteSet(Charged') /\ Cardinality(Charged') <= Cardinality(Charged)
    BY <1>0, <2>1, <2>2, Swapped
  <2>4. Cardinality(Charged') \in Nat
    BY <2>3, FS_CardinalityType
  <2> QED BY <1>0, <2>3, <2>4
<1> QED BY <1>1, <1>2, <1>3, StepsPaid DEF Paid

\* Without a row there is nothing to keep.
LEMMA InitRollbackInv == Init => RollbackInv /\ ChargesPaid
<1> SUFFICES ASSUME Init PROVE RollbackInv /\ ChargesPaid
  OBVIOUS
<1>1. rows = <<>> /\ DOMAIN rows = {} /\ w.pc = "idle" /\ forgone = 0
  <2>1. rows = <<>> /\ w = Idle /\ forgone = 0
    BY Zenon DEF Init
  <2>2. DOMAIN rows = {}
    BY <2>1
  <2> QED BY <2>1, <2>2, IdleFacts, Zenon
<1>2. RollbackInv
  BY <1>1 DEF RollbackInv, RowsDiffer, FirstRuns, SubnetsRouted, EndingTracked,
     RollbackShape, RowsOf, Running, Past, Init, CloudInit
<1>3. Charged = {}
  BY <1>1 DEF Charged
<1> QED BY <1>1, <1>2, <1>3, FS_EmptySet DEF ChargesPaid

\* createOrGetX and RollbackNetwork, with neither deletions nor database failures: what
\* the tracked resources tell, and that every row given up is paid for by a fault.
LEMMA RollbackInductive == Spec => [](RollbackInv /\ ChargesPaid)
<1>1. ASSUME IInv, RollbackInv, ChargesPaid, [Next]_vars
      PROVE  RollbackInv' /\ ChargesPaid'
  <2> SUFFICES ASSUME Undisturbed
               PROVE  /\ RowsDiffer' /\ FirstRuns' /\ SubnetsRouted'
                      /\ EndingTracked' /\ RollbackShape'
                      /\ Cardinality(Charged') <= forgone'
    BY DEF RollbackInv, ChargesPaid, Undisturbed
  <2>1. Calm
    BY <1>1, CalmSteps
  <2>2. /\ RowsDiffer /\ FirstRuns /\ SubnetsRouted /\ EndingTracked /\ RollbackShape
        /\ Cardinality(Charged) <= forgone
    BY <1>1 DEF RollbackInv, ChargesPaid
  <2>3. forgone \in Nat /\ forgone' \in Nat /\ forgone' >= forgone
    BY <1>1, <2>1, Steps, NetworkAssumption DEF Calm, Typed, Counted
  <2> QED BY <2>1, <2>2, <2>3, RowsDifferStep, FirstRunsStep, SubnetsRoutedStep, EndingTrackedStep,
             RollbackShapeStep, ChargesStep
<1> QED BY <1>1, InitRollbackInv, Inductive, PTL DEF Spec

\* RollbackNetwork: with neither deletions nor database failures, what it gives up
\* although nothing holds it is at most as much as the cloud has failed to delete for
\* it, but for the security list that it did not wait to delete.
THEOREM GivesUpWhatIsHeld ==
  ASSUME Clients = {}, "db" \notin Events
  PROVE  Spec => []AbandonedIsHeld
<1>1. ASSUME IInv, RollbackInv, ChargesPaid PROVE AbandonedIsHeld
  <2> DEFINE free == {i \in DOMAIN rows : /\ rows[i].deleted
                                          /\ Deletable(rows[i].ocid)
                                          /\ ~ListOfSubnet(rows[i].ocid)}
  <2> SUFFICES ASSUME w.pc # "rollback" PROVE Cardinality(free) <= forgone
    BY DEF AbandonedIsHeld
  <2>1. /\ rows \in Seq(RowRecord)
        /\ \A i \in DOMAIN rows : rows[i].ocid \in OCID
        /\ forgone \in Nat /\ Cardinality(Charged) <= forgone
    BY <1>1, TypeParts, RowsFacts, NetworkAssumption
       DEF IInv, Typed, RollbackInv, ChargesPaid, Undisturbed
  <2>2. IsFiniteSet(Charged) /\ Cardinality(Charged) \in Nat
    <3>1. Charged \in SUBSET DOMAIN rows
      BY DEF Charged
    <3> QED BY <2>1, <3>1, FiniteRows, FS_CardinalityType
  <2>3. ASSUME NEW i \in free PROVE i \in Charged
    <3> DEFINE o == rows[i].ocid
    <3>1. /\ rows[i].deleted /\ o \in live /\ ~InUse(o) /\ ~ListOfSubnet(o)
          /\ i \in DOMAIN rows /\ o.type \in Type
      BY <2>1, OCIDFacts DEF Deletable
    <3>2. CASE o.type \in {"vcn", "igw", "subnet"}
      BY <3>1, <3>2 DEF Charged, Counts, InUse, Children
    <3>3. CASE o.type = "security_list"
      <4>1. \A h \in Hidden : h.type = "subnet" /\ h.vcn = o.vcn => h \in Managed("subnet", o)
        BY DEF Managed, Children, Hidden, Untracked
      <4>2. o.vcn \notin HiddenIn
        BY <3>1, <3>3, <4>1 DEF HiddenIn, InUse
      <4> QED BY <3>1, <3>3, <4>2 DEF Charged, Counts
    <3> QED BY <3>1, <3>2, <3>3 DEF Type
  <2>4. free \subseteq Charged
    BY <2>3
  <2> HIDE DEF free
  <2>5. Cardinality(free) <= Cardinality(Charged) /\ Cardinality(free) \in Nat
    BY <2>2, <2>4, FS_Subset, FS_CardinalityType
  <2> QED BY <2>1, <2>2, <2>5
<1> QED BY <1>1, Inductive, RollbackInductive, PTL

=============================================================================
