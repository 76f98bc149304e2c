---------------------- MODULE NetworkAllocationProofs ----------------------
(***************************************************************************)
(* What holds of NetworkAllocation for every number of requests in flight, *)
(* every limit and any history of creations and deletions.                 *)
(***************************************************************************)
EXTENDS NetworkAllocation, FiniteSetTheorems, WellFoundedInduction, TLAPS

\* Creations that have passed the count and have not inserted yet.
InFlight == {c \in Clients : op[c].pc \in {"list", "insert"}}

\* Every row that came to have a block after a creation chose the same one was
\* inserted since that creation listed the rows.
ChosenBlockIsFree ==
  \A c \in Clients : op[c].pc = "insert" =>
    /\ op[c].block \in Block
    /\ \A n \in Rows : networks[n] = op[c].block => n \in missed[c]

\* A creation in flight counted fewer rows than the maximum: together with the
\* rows there are never more of them than the maximum less one and the clients.
RowsAndInFlight ==
  Cardinality(Rows) + Cardinality(InFlight) < MaxNetworks + Cardinality(Clients)

\* What a creation counted still holds if nobody has inserted since.
StillBelowLimit ==
  \A c \in Clients : op[c].pc = "list" /\ c \notin grown => BelowLimit

\* The inductive invariant.
IInv == TypeOK /\ ChosenBlockIsFree /\ RowsAndInFlight /\ StillBelowLimit

-----------------------------------------------------------------------------
(* Blocks.                                                                 *)

\* A set of natural numbers that is not empty has a least element.
LEMMA MinInSet ==
  ASSUME NEW S \in SUBSET Nat, S # {}
  PROVE  Min(S) \in S /\ \A y \in S : Min(S) <= y
<1> DEFINE R == OpToRel(<, Nat)
<1>1. IsWellFoundedOn(R, Nat)
  BY NatLessThanWellFounded
<1>2. \E x \in S : \A y \in S : <<y, x>> \notin R
  <2> HIDE DEF R
  <2> QED BY <1>1, WFMin
<1>3. \E x \in S : \A y \in S : x <= y
  <2>1. PICK x \in S : \A y \in S : <<y, x>> \notin R
    BY <1>2
  <2>2. \A y \in S : ~(y < x)
    <3>1. \A y \in S : <<y, x>> \in Nat \X Nat
      OBVIOUS
    <3> QED BY <2>1, <3>1 DEF OpToRel
  <2> QED BY <2>2
<1> QED BY <1>3 DEF Min

\* allocateCIDRSlot's loop finds a free block when there is one.
LEMMA FirstFreeIsFree == Free # {} => FirstFree \in Free
BY MinInSet, AllocationAssumption DEF FirstFree, Free, Block

\* Rows are finitely many.
LEMMA RowsFinite ==
  /\ IsFiniteSet(Rows) /\ Cardinality(Rows) \in Nat
  /\ IsFiniteSet(InFlight) /\ Cardinality(InFlight) \in Nat
  /\ Cardinality(InFlight) <= Cardinality(Clients) /\ Cardinality(Clients) \in Nat
<1>1. IsFiniteSet(Id)
  BY AllocationAssumption, FS_Interval DEF Id
<1>2. Rows \in SUBSET Id /\ InFlight \in SUBSET Clients
  BY DEF Rows, InFlight
<1> QED BY <1>1, <1>2, FS_Subset, FS_CardinalityType, AllocationAssumption

\* When every block is in use there are as many rows as blocks.
LEMMA FullMeansAtLimit == TypeOK /\ Free = {} => ~BelowLimit
<1> SUFFICES ASSUME TypeOK, Free = {} PROVE MaxNetworks <= Cardinality(Rows)
  BY RowsFinite, AllocationAssumption DEF BelowLimit
<1> DEFINE f == [n \in Rows |-> networks[n]]
<1>1. f \in Surjection(Rows, Used)
  BY DEF Surjection, Used
<1>2. IsFiniteSet(Used) /\ Cardinality(Used) <= Cardinality(Rows)
  BY <1>1, RowsFinite, FS_Surjection
<1>3. Block \in SUBSET Used
  BY DEF Free
<1>4. Cardinality(Block) = MaxNetworks
  BY AllocationAssumption, FS_Interval DEF Block
<1>5. Cardinality(Block) <= Cardinality(Used) /\ Cardinality(Used) \in Nat
  BY <1>2, <1>3, FS_Subset, FS_CardinalityType
<1> QED BY <1>2, <1>4, <1>5, RowsFinite, AllocationAssumption

-----------------------------------------------------------------------------
\* An empty table satisfies the invariant.
LEMMA InitIInv == Init => IInv
<1> SUFFICES ASSUME Init PROVE IInv
  OBVIOUS
<1> USE AllocationAssumption DEF Init, Id, Block, Idle
<1>1. TypeOK
  BY DEF TypeOK
<1>2. Rows = {} /\ InFlight = {}
  BY DEF Rows, InFlight
<1>3. RowsAndInFlight
  BY <1>2, FS_EmptySet, RowsFinite DEF RowsAndInFlight
<1>4. ChosenBlockIsFree /\ StillBelowLimit
  BY DEF ChosenBlockIsFree, StillBelowLimit
<1> QED BY <1>1, <1>3, <1>4 DEF IInv

\* Every statement keeps the types.
LEMMA TypeStep == TypeOK /\ [Next]_vars => TypeOK'
<1> SUFFICES ASSUME TypeOK, [Next]_vars PROVE TypeOK'
  OBVIOUS
<1> USE AllocationAssumption DEF TypeOK, Id, Block, Idle
<1>1. ASSUME NEW c \in Clients, CountRows(c) PROVE TypeOK'
  BY <1>1, SMTT(60) DEF CountRows
<1>2. ASSUME NEW c \in Clients, ListRows(c) PROVE TypeOK'
  <2>1. FirstFree \in Block
    BY <1>2, FirstFreeIsFree DEF ListRows, Free
  <2> QED BY <1>2, <2>1, ZenonT(60) DEF ListRows
<1>3. ASSUME NEW c \in Clients, NoBlockLeft(c) PROVE TypeOK'
  BY <1>3 DEF NoBlockLeft
<1>4. ASSUME NEW c \in Clients, InsertRow(c) PROVE TypeOK'
  <2>1. lastId' \in Id /\ lastId' \in 0..MaxIds
    BY <1>4 DEF InsertRow
  <2> QED BY <1>4, <2>1 DEF InsertRow
<1>5. ASSUME NEW c \in Clients, CreateFails(c) PROVE TypeOK'
  BY <1>5 DEF CreateFails
<1>6. ASSUME NEW n \in Id, DeleteRow(n) PROVE TypeOK'
  BY <1>6 DEF DeleteRow
<1>7. CASE UNCHANGED vars
  BY <1>7 DEF vars
<1> QED BY <1>1, <1>2, <1>3, <1>4, <1>5, <1>6, <1>7 DEF Next

\* The block that was chosen stays free of the rows there were, unless one was inserted.
LEMMA BlockStep == TypeOK /\ ChosenBlockIsFree /\ [Next]_vars => ChosenBlockIsFree'
<1> SUFFICES ASSUME TypeOK, ChosenBlockIsFree, [Next]_vars,
                    NEW b \in Clients, op'[b].pc = "insert"
             PROVE  /\ op'[b].block \in Block
                    /\ \A n \in Rows' : networks'[n] = op'[b].block => n \in missed'[b]
  BY DEF ChosenBlockIsFree
<1> USE DEF TypeOK, ChosenBlockIsFree, Rows, Idle
<1>1. ASSUME NEW c \in Clients, CountRows(c) PROVE op'[b] = op[b] /\ networks' = networks /\ missed' = missed
  BY <1>1 DEF CountRows
<1>2. ASSUME NEW c \in Clients, ListRows(c), c = b
      PROVE  op'[b].block \in Block /\ \A n \in Rows' : networks'[n] # op'[b].block
  <2>1. op'[b].block \in Free
    BY <1>2, FirstFreeIsFree DEF ListRows
  <2> QED BY <1>2, <2>1 DEF ListRows, Free, Used
<1>3. ASSUME NEW c \in Clients, ListRows(c), c # b
      PROVE  op'[b] = op[b] /\ networks' = networks /\ missed' = missed
  BY <1>3 DEF ListRows
<1>4. ASSUME NEW c \in Clients, NoBlockLeft(c)
      PROVE  op'[b] = op[b] /\ networks' = networks /\ missed' = missed
  BY <1>4 DEF NoBlockLeft
<1>5. ASSUME NEW c \in Clients, InsertRow(c)
      PROVE  /\ op'[b] = op[b]
             /\ missed'[b] = missed[b] \cup {lastId'}
             /\ \A n \in Rows' : (n \in Rows /\ networks'[n] = networks[n]) \/ n = lastId'
  BY <1>5 DEF InsertRow
<1>6. ASSUME NEW c \in Clients, CreateFails(c)
      PROVE  op'[b] = op[b] /\ networks' = networks /\ missed'[b] = missed[b]
  BY <1>6 DEF CreateFails
<1>7. ASSUME NEW n \in Id, DeleteRow(n)
      PROVE  /\ op' = op /\ missed' = missed
             /\ \A m \in Rows' : m \in Rows /\ networks'[m] = networks[m]
  BY <1>7 DEF DeleteRow
<1>8. CASE UNCHANGED vars
  BY <1>8 DEF vars
<1> QED BY <1>1, <1>2, <1>3, <1>4, <1>5, <1>6, <1>7, <1>8 DEF Next

\* Every step adds a row by taking a creation out of flight, or adds a creation
\* below the limit.
LEMMA CountStep ==
  TypeOK /\ RowsAndInFlight /\ StillBelowLimit /\ [Next]_vars
    => RowsAndInFlight' /\ StillBelowLimit'
<1> SUFFICES ASSUME TypeOK, RowsAndInFlight, StillBelowLimit, [Next]_vars
             PROVE  RowsAndInFlight' /\ StillBelowLimit'
  OBVIOUS
<1> USE AllocationAssumption, RowsFinite DEF Idle
<1>t. TypeOK'
  BY TypeStep
<1>p. /\ IsFiniteSet(Rows') /\ Cardinality(Rows') \in Nat
      /\ IsFiniteSet(InFlight') /\ Cardinality(InFlight') \in Nat
      /\ Cardinality(InFlight') <= Cardinality(Clients)
  <2>1. IsFiniteSet(Id)
    BY FS_Interval DEF Id
  <2>2. Rows' \in SUBSET Id /\ InFlight' \in SUBSET Clients
    BY DEF Rows, InFlight
  <2> QED BY <2>1, <2>2, FS_Subset, FS_CardinalityType
\* No row comes and no creation enters: the counts only fall.
<1>q. ASSUME Rows' \in SUBSET Rows, InFlight' \in SUBSET InFlight,
             \A b \in Clients : op'[b].pc = "list" => op[b].pc = "list"
                                                      /\ (b \in grown => b \in grown')
      PROVE  RowsAndInFlight' /\ StillBelowLimit'
  <2>1. /\ Cardinality(Rows') <= Cardinality(Rows)
        /\ Cardinality(InFlight') <= Cardinality(InFlight)
    BY <1>q, FS_Subset
  <2> QED BY <1>p, <1>q, <2>1 DEF RowsAndInFlight, StillBelowLimit, BelowLimit
<1>1. ASSUME NEW c \in Clients, CountRows(c) PROVE RowsAndInFlight' /\ StillBelowLimit'
  <2>1. Rows' = Rows /\ BelowLimit
    BY <1>1 DEF CountRows, Rows
  <2> QED BY <1>p, <2>1 DEF RowsAndInFlight, StillBelowLimit, BelowLimit
<1>2. ASSUME NEW c \in Clients, ListRows(c) PROVE RowsAndInFlight' /\ StillBelowLimit'
  BY <1>2, <1>q DEF ListRows, TypeOK, Rows, InFlight
<1>3. ASSUME NEW c \in Clients, NoBlockLeft(c) PROVE RowsAndInFlight' /\ StillBelowLimit'
  BY <1>3, <1>q DEF NoBlockLeft, TypeOK, Rows, InFlight
<1>4. ASSUME NEW c \in Clients, InsertRow(c) PROVE RowsAndInFlight' /\ StillBelowLimit'
  <2>1. /\ InFlight' = InFlight \ {c} /\ c \in InFlight
        /\ Rows' \in SUBSET (Rows \cup {lastId'})
    BY <1>4 DEF InsertRow, TypeOK, Rows, InFlight, Id
  <2>2. /\ IsFiniteSet(Rows \cup {lastId'})
        /\ Cardinality(Rows \cup {lastId'}) <= Cardinality(Rows) + 1
    <3>1. /\ IsFiniteSet(Rows \cup {lastId'})
          /\ Cardinality(Rows \cup {lastId'}) =
               IF lastId' \in Rows THEN Cardinality(Rows) ELSE Cardinality(Rows) + 1
      BY FS_AddElement, Zenon
    <3> QED BY <3>1
  <2>3. Cardinality(Rows') <= Cardinality(Rows) + 1
    BY <1>p, <2>1, <2>2, FS_Subset, FS_CardinalityType
  <2>4. Cardinality(InFlight') = Cardinality(InFlight) - 1
    BY <2>1, FS_RemoveElement
  <2>5. \A b \in Clients : op'[b].pc = "list" => b \in grown'
    BY <1>4 DEF InsertRow, TypeOK
  <2> QED BY <1>p, <2>3, <2>4, <2>5 DEF RowsAndInFlight, StillBelowLimit
<1>5. ASSUME NEW c \in Clients, CreateFails(c) PROVE RowsAndInFlight' /\ StillBelowLimit'
  BY <1>5, <1>q DEF CreateFails, TypeOK, Rows, InFlight
<1>6. ASSUME NEW n \in Id, DeleteRow(n) PROVE RowsAndInFlight' /\ StillBelowLimit'
  BY <1>6, <1>q DEF DeleteRow, TypeOK, Rows, InFlight
<1>7. CASE UNCHANGED vars
  BY <1>7, <1>q DEF vars, Rows, InFlight
<1> QED BY <1>1, <1>2, <1>3, <1>4, <1>5, <1>6, <1>7 DEF Next

-----------------------------------------------------------------------------
\* Rows and requests keep their types, the block that a creation has chosen is
\* one that no row it saw uses, and what was counted below the limit stays so
\* until somebody inserts (repository/network.go).
THEOREM Inductive == Spec => []IInv
<1>1. IInv /\ [Next]_vars => IInv'
  BY TypeStep, BlockStep, CountStep DEF IInv
<1> QED BY InitIInv, <1>1, PTL DEF Spec

\* allocateCIDRSlot (network.go:47): for every number of concurrent creations
\* two rows share a block only if one was inserted between the other's list and
\* its insertion.
THEOREM SharedNeedsOverlap == Spec => SharedOnlyByOverlap
<1>1. IInv /\ [Next]_vars =>
        [\A c \in Clients, n \in Rows :
           (InsertRow(c) /\ networks[n] = op[c].block) => n \in missed[c]]_vars
  BY DEF IInv, ChosenBlockIsFree, InsertRow
<1> QED BY Inductive, <1>1, PTL DEF Spec, SharedOnlyByOverlap

\* Create (network.go:72): the rows never exceed the maximum by as many as the
\* requests that can be in flight together, whatever the pool's size.
THEOREM LimitNeedsOverlap == Spec => []LimitPassedOnlyByOverlap
<1>1. IInv => LimitPassedOnlyByOverlap
  BY RowsFinite, AllocationAssumption
     DEF IInv, RowsAndInFlight, LimitPassedOnlyByOverlap
<1> QED BY Inductive, <1>1, PTL

\* Create (network.go:76): a creation that counted fewer rows than the maximum
\* finds a block, unless another one inserted since.
THEOREM CountedFindsBlock == Spec => BlockWasThere
<1>1. IInv /\ [Next]_vars => [\A c \in Clients : NoBlockLeft(c) => c \in grown]_vars
  BY FullMeansAtLimit DEF IInv, StillBelowLimit, NoBlockLeft
<1> QED BY Inductive, <1>1, PTL DEF Spec, BlockWasThere
=============================================================================
