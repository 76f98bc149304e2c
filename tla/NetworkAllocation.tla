------------------------- MODULE NetworkAllocation -------------------------
(***************************************************************************)
(* The CIDR blocks of the networks table (internal/repository/network.go): *)
(* creations that count the rows, look for a free block and insert, each   *)
(* with a statement of its own on a pool of four connections, among the    *)
(* deletions that end a DestroyNetwork (NetworkLifecycle).                 *)
(*                                                                         *)
(* A block is its index in cidrBlocks; the VCN's and the subnet's always   *)
(* go together.  The SELECT of the new row for the answer is left out.     *)
(* grown and missed are history: no action reads them.                     *)
(***************************************************************************)
EXTENDS Naturals, FiniteSets, FiniteSetsExt

CONSTANTS
  Clients,       \* requests that can be in flight at once
  MaxNetworks,   \* 15 in the code
  MaxIds         \* bound: networks ever inserted

ASSUME AllocationAssumption ==
  /\ IsFiniteSet(Clients)
  /\ MaxNetworks \in Nat \ {0}
  /\ MaxIds \in Nat

Id    == 1..MaxIds
Block == 1..MaxNetworks   \* cidrBlocks has an entry for each network

VARIABLES
  networks,   \* the rows: id -> block, 0 where there is none
  lastId,     \* AUTOINCREMENT
  op,         \* each creation: where it is, the block it chose
  grown,      \* creations during which a row was inserted after the count
  missed      \* per creation: rows inserted since it listed them

vars == <<networks, lastId, op, grown, missed>>

Idle == [pc |-> "idle", block |-> 0]
Rows == {n \in Id : networks[n] # 0}
Used == {networks[n] : n \in Rows}

\* Rows and requests have the values they may have.
TypeOK ==
  /\ networks \in [Id -> Block \cup {0}]
  /\ lastId \in 0..MaxIds
  /\ op \in [Clients -> [pc : {"idle", "list", "insert"},
                         block : Block \cup {0}]]
  /\ grown \subseteq Clients
  /\ missed \in [Clients -> SUBSET Id]

Init ==
  /\ networks = [n \in Id |-> 0]
  /\ lastId = 0
  /\ op = [c \in Clients |-> Idle]
  /\ grown = {}
  /\ missed = [c \in Clients |-> {}]

\* mutant: one more than the maximum
AtMostFull == Cardinality(Rows) <= MaxNetworks

\* count < MaxNetworks
BelowLimit == Cardinality(Rows) < MaxNetworks

\* HandleCreateNetwork and the count of Create: refused at the limit.
CountRows(c) ==
  /\ op[c].pc = "idle"
  /\ lastId < MaxIds
  /\ BelowLimit
  /\ op' = [op EXCEPT ![c].pc = "list"]
  /\ UNCHANGED <<networks, lastId, grown, missed>>

Free == Block \ Used

\* mutant: the next one after those in use
CountPlusOne == Cardinality(Rows) + 1

FirstFree == Min(Free)

\* allocateCIDRSlot: the first block that no row uses.
ListRows(c) ==
  /\ op[c].pc = "list"
  /\ Free # {}
  /\ op' = [op EXCEPT ![c].pc = "insert", ![c].block = FirstFree]
  /\ UNCHANGED <<networks, lastId, grown, missed>>

\* "all %d network slots are in use"
NoBlockLeft(c) ==
  /\ op[c].pc = "list"
  /\ Free = {}
  /\ op' = [op EXCEPT ![c] = Idle]
  /\ grown' = grown \ {c}
  /\ UNCHANGED <<networks, lastId, missed>>

\* INSERT INTO networks: nothing in the schema makes the block unique.
InsertRow(c) ==
  /\ op[c].pc = "insert"
  /\ lastId < MaxIds
  /\ lastId' = lastId + 1
  /\ networks' = [networks EXCEPT ![lastId'] = op[c].block]
  /\ op' = [op EXCEPT ![c] = Idle]
  /\ grown' = {b \in Clients \ {c} : op[b].pc \in {"list", "insert"}}
  /\ missed' = [b \in Clients |-> IF b # c /\ op[b].pc = "insert"
                                  THEN missed[b] \cup {lastId'} ELSE {}]

\* A statement fails, or the client disconnects: the request ends where it is.
CreateFails(c) ==
  /\ op[c].pc # "idle"
  /\ op' = [op EXCEPT ![c] = Idle]
  /\ grown' = grown \ {c}
  /\ missed' = [missed EXCEPT ![c] = {}]
  /\ UNCHANGED <<networks, lastId>>

\* NetworkRepository.Delete, at the end of a DestroyNetwork.
DeleteRow(n) ==
  /\ n \in Rows
  /\ networks' = [networks EXCEPT ![n] = 0]
  /\ UNCHANGED <<lastId, op, grown, missed>>

Next ==
  \/ \E c \in Clients : \/ CountRows(c) \/ ListRows(c) \/ NoBlockLeft(c)
                        \/ InsertRow(c) \/ CreateFails(c)
  \/ \E n \in Id : DeleteRow(n)

Spec == Init /\ [][Next]_vars

-----------------------------------------------------------------------------
\* allocateCIDRSlot (network.go:47): two networks have the same block only if
\* the later one was listing and inserting while the earlier one was inserted.
\* An unbroken chain of creations never shares a block, deletions or not.
SharedOnlyByOverlap ==
  [][\A c \in Clients, n \in Rows :
       (InsertRow(c) /\ networks[n] = op[c].block) => n \in missed[c]]_vars

\* Create (network.go:72): the limit is passed only by creations in flight
\* together, and so by fewer rows than there can be of those.
LimitPassedOnlyByOverlap == Cardinality(Rows) < MaxNetworks + Cardinality(Clients)

\* Create (network.go:76): a creation that was below the limit when it counted
\* finds a block, however often blocks are shared and freed, unless another one
\* inserted in between.
BlockWasThere == [][\A c \in Clients : NoBlockLeft(c) => c \in grown]_vars
=============================================================================
