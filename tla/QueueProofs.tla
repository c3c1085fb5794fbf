---------------------------- MODULE QueueProofs ----------------------------
(***************************************************************************)
(* Proofs about the process queues, for any tree of blocks, any            *)
(* transactions, connections and worker threads, priorities, results and   *)
(* prune levels.                                                           *)
(*                                                                         *)
(* BlockqInv is not inductive: it needs what the processblock thread knows *)
(* of the row it took, although the witness requeues and prunes rows       *)
(* meanwhile, that the node's own blocks pass through the queue only as    *)
(* valid rows, and where the scan by offset is.                            *)
(*                                                                         *)
(* TxqInv is not inductive: it needs that whoever is between the two parts *)
(* of TxEnqueueValidate holds processtx_mutex, with a transaction that is  *)
(* still not in ValidObjs, that a worker past                              *)
(* ProcessQGetNextValidateObj has a transaction, and that a transaction    *)
(* without a row is owed nothing.                                          *)
(*                                                                         *)
(* That no wakeup of a worker of WorkQueue is lost is not inductive: a     *)
(* worker that found nothing under the lock is as good as asleep, so while *)
(* there is work some worker is neither asleep nor about to be.            *)
(***************************************************************************)
EXTENDS BlockQueue, TxQueue, WorkQueue, FiniteSetTheorems, TLAPS

RowStates == {"none", "pending", "hold", "valid", "invalid"}

\* The blocks with a row in Process_Q
Queued == {b \in Blocks : status[b] # "none"}

\* The types of all variables; at any time finitely many blocks are in the queue
BqTypes ==
    /\ status \in [Blocks -> RowStates] /\ done \subseteq Queued /\ IsFiniteSet(Queued)
    /\ valid \subseteq Blocks /\ given_up \subseteq Blocks /\ early \subseteq Early /\ indelible \in Nat
    /\ pc \in {"wait", "prior", "check", "insert", "update", "requeue", "confirm", "prune"}
    /\ wpc \in {"idle", "enqueue", "requeue", "confirm", "prune", "scan"}
    /\ cur \in Blocks /\ wcur \in Blocks
    /\ offset \in Nat /\ seen \subseteq Blocks /\ expected \subseteq Blocks

\* A block of the node's own witness has no row, or a valid one
OwnRows == \A b \in OwnBlocks : status[b] \in {"none", "valid"}

\* The row that processblock has: held, requeued by the witness, or pruned
HeldRow ==
    pc \in {"prior", "check", "insert", "update"} =>
        /\ status[cur] \in {"hold", "pending", "none"} /\ cur \notin OwnBlocks
        /\ LevelOf[cur] >= PruneLevel => status[cur] # "none"

\* A block on its way through ValidObjsBlockInsert is in ValidObjs
Inserted ==
    /\ pc = "update" => cur \in valid
    /\ wpc \in {"enqueue", "requeue", "confirm", "prune"} => wcur \in OwnBlocks \cap valid

\* Rows are flagged as done below the done level only
DoneLow == \A b \in done : LevelOf[b] < DoneLevel

RowsInv == OwnRows /\ HeldRow /\ Inserted /\ DoneLow

\* The rows of S before block b in the order of the select
Preceding(S, b) == {c \in S : Before(c, b) \/ (~Before(b, c) /\ c < b)}

\* A row the scan has to return and has not returned is not before its offset
ScanState ==
    /\ wpc = "scan" => /\ expected \subseteq Rows("valid")
                       /\ \A b \in expected \ seen : Cardinality(Preceding(Rows("valid"), b)) >= offset
    /\ wpc # "scan" => expected \subseteq seen

BqIInv == BqTypes /\ RowsInv /\ NeverValidatedTwice /\ QueueMatchesValid /\ NoStrandedBlock /\ ScanState

-----------------------------------------------------------------------------
\* The levels that rows are pruned, flagged and given up below
LEMMA Levels ==
    ASSUME indelible \in Nat
    PROVE  /\ PruneLevel \in Nat /\ DoneLevel \in Nat /\ ValidateLevel \in Nat
           /\ PruneLevel <= DoneLevel /\ DoneLevel <= ValidateLevel /\ 1 <= ValidateLevel
BY QueueAssumption DEF PruneLevel, DoneLevel, ValidateLevel, ComputePruneLevel

\* They rise with the last indelible block
LEMMA LevelsRise ==
    ASSUME indelible \in Nat, indelible' \in Nat, indelible <= indelible'
    PROVE  /\ PruneLevel <= PruneLevel' /\ DoneLevel <= DoneLevel' /\ ValidateLevel <= ValidateLevel'
           /\ PruneLevel' \in Nat /\ DoneLevel' \in Nat /\ ValidateLevel' \in Nat
<1> DEFINE L(i, min_level, trail) == IF (IF i > trail THEN i - trail ELSE 0) < min_level THEN min_level
                                     ELSE IF i > trail THEN i - trail ELSE 0
<1>0. ASSUME NEW i \in Nat, NEW j \in Nat, i <= j, NEW min_level \in Nat, NEW trail \in Nat
      PROVE  L(i, min_level, trail) <= L(j, min_level, trail) /\ L(j, min_level, trail) \in Nat
  BY <1>0
<1>a. PruneLevel = L(indelible, 0, PruneTrail) /\ PruneLevel' = L(indelible', 0, PruneTrail)
  BY DEF PruneLevel, ComputePruneLevel
<1>b. DoneLevel = L(indelible, 0, DoneTrail) /\ DoneLevel' = L(indelible', 0, DoneTrail)
  BY DEF DoneLevel, ComputePruneLevel
<1>c. ValidateLevel = L(indelible, 1, DoneTrail) /\ ValidateLevel' = L(indelible', 1, DoneTrail)
  BY DEF ValidateLevel, ComputePruneLevel
<1> HIDE DEF L
<1>1. PruneLevel <= PruneLevel' /\ PruneLevel' \in Nat
  BY <1>0, <1>a, QueueAssumption
<1>2. DoneLevel <= DoneLevel' /\ DoneLevel' \in Nat
  BY <1>0, <1>b, QueueAssumption
<1>3. ValidateLevel <= ValidateLevel' /\ ValidateLevel' \in Nat
  BY <1>0, <1>c, QueueAssumption
<1> QED BY <1>1, <1>2, <1>3

LEMMA LevelsStay ==
    ASSUME UNCHANGED indelible
    PROVE  PruneLevel' = PruneLevel /\ DoneLevel' = DoneLevel /\ ValidateLevel' = ValidateLevel
BY DEF PruneLevel, DoneLevel, ValidateLevel, ComputePruneLevel

\* The order of the rows is a strict total order
LEMMA RowOrder ==
    ASSUME NEW a \in Blocks, NEW b \in Blocks, NEW c \in Blocks
    PROVE  LET Prec(x, y) == Before(x, y) \/ (~Before(y, x) /\ x < y)
           IN  /\ ~Prec(a, a)
               /\ a # b => Prec(a, b) \/ Prec(b, a)
               /\ Prec(a, b) /\ Prec(b, c) => Prec(a, c)
<1>1. a \in Nat /\ b \in Nat /\ c \in Nat
  BY QueueAssumption
<1>2. LevelOf[a] \in Nat /\ LevelOf[b] \in Nat /\ LevelOf[c] \in Nat
  BY TreeAssumption
<1> QED BY <1>1, <1>2 DEF Before

LEMMA PrecedingFinite ==
    ASSUME NEW S \in SUBSET Blocks, IsFiniteSet(S), NEW b \in Blocks
    PROVE  /\ IsFiniteSet(Preceding(S, b)) /\ Cardinality(Preceding(S, b)) \in Nat
<1>1. Preceding(S, b) \in SUBSET S
  BY DEF Preceding
<1> QED BY <1>1, FS_Subset, FS_CardinalityType

\* A row before another one has the lower offset
LEMMA OffsetRises ==
    ASSUME NEW S \in SUBSET Blocks, IsFiniteSet(S), NEW a \in S, NEW b \in S, a \in Preceding(S, b)
    PROVE  Cardinality(Preceding(S, a)) < Cardinality(Preceding(S, b))
<1>1. Preceding(S, a) \in SUBSET Preceding(S, b)
  BY RowOrder DEF Preceding
<1>2. a \notin Preceding(S, a)
  BY RowOrder DEF Preceding
<1>3. IsFiniteSet(Preceding(S, b)) /\ Cardinality(Preceding(S, b)) \in Nat
  BY PrecedingFinite
<1>4. IsFiniteSet(Preceding(S, a)) /\ Cardinality(Preceding(S, a)) \in Nat
  BY PrecedingFinite
<1>5. Cardinality(Preceding(S, a)) <= Cardinality(Preceding(S, b))
  BY <1>1, <1>3, FS_Subset
<1>6. Cardinality(Preceding(S, a)) # Cardinality(Preceding(S, b))
  BY <1>1, <1>2, <1>3, FS_Subset
<1> QED BY <1>3, <1>4, <1>5, <1>6

\* A nonempty set of numbers has a least element
LEMMA LeastNumber ==
    ASSUME NEW T \in SUBSET Nat, T # {}
    PROVE  \E n \in T : \A m \in T : n <= m
<1>1. PICK n \in T : \A m \in T : ~(<<m, n>> \in OpToRel(<, Nat))
  BY NatLessThanWellFounded, WFMin
<1>2. \A m \in T : ~(m < n)
  BY <1>1 DEF OpToRel
<1> QED BY <1>2

\* Offsets have no gap: with a row at or after an offset there is one at it
LEMMA NoGap ==
    ASSUME NEW S \in SUBSET Blocks, IsFiniteSet(S), NEW off \in Nat,
           NEW x \in S, Cardinality(Preceding(S, x)) >= off
    PROVE  RowAt(S, off) # {}
<1> DEFINE At(b) == Cardinality(Preceding(S, b))
           T == {At(b) : b \in {c \in S : At(c) >= off}}
<1>1. \A b \in S : At(b) \in Nat
  BY PrecedingFinite
<1>2. T \in SUBSET Nat /\ At(x) \in T
  BY <1>1
<1> HIDE DEF T
<1>3. PICK n \in T : \A m \in T : n <= m
  BY <1>2, LeastNumber
<1>4. PICK e \in S : At(e) >= off /\ n = At(e)
  BY <1>3 DEF T
<1>5. \A p \in Preceding(S, e) : p \in S /\ At(p) \in 0 .. off - 1
  <2> SUFFICES ASSUME NEW p \in Preceding(S, e) PROVE p \in S /\ At(p) \in 0 .. off - 1
    OBVIOUS
  <2>1. p \in S
    BY DEF Preceding
  <2>2. At(p) < At(e)
    BY <2>1, OffsetRises
  <2>3. ~(At(p) >= off)
    <3>1. SUFFICES ASSUME At(p) >= off PROVE FALSE
      OBVIOUS
    <3>2. At(p) \in T
      BY <2>1, <3>1 DEF T
    <3> QED BY <1>1, <1>3, <1>4, <2>1, <2>2, <3>2
  <2> QED BY <1>1, <2>1, <2>3
<1> DEFINE f == [p \in Preceding(S, e) |-> At(p)]
<1>6. f \in Injection(Preceding(S, e), 0 .. off - 1)
  <2>1. f \in [Preceding(S, e) -> 0 .. off - 1]
    BY <1>5
  <2>2. \A p, q \in Preceding(S, e) : p # q => At(p) # At(q)
    <3> SUFFICES ASSUME NEW p \in Preceding(S, e), NEW q \in Preceding(S, e), p # q PROVE At(p) # At(q)
      OBVIOUS
    <3>1. p \in S /\ q \in S
      BY <1>5
    <3>2. p \in Preceding(S, q) \/ q \in Preceding(S, p)
      BY <3>1, RowOrder DEF Preceding
    <3>3. At(p) < At(q) \/ At(q) < At(p)
      BY <3>1, <3>2, OffsetRises
    <3> QED BY <1>1, <3>1, <3>3
  <2>3. IsInjective(f)
    BY <2>2 DEF IsInjective
  <2> QED BY <2>1, <2>3 DEF Injection
<1>7. IsFiniteSet(0 .. off - 1) /\ Cardinality(0 .. off - 1) = off
  <2>1. 0 \in Int /\ off - 1 \in Int
    OBVIOUS
  <2>2. IsFiniteSet(0 .. off - 1) /\ Cardinality(0 .. off - 1) = IF 0 > off - 1 THEN 0 ELSE off - 1 - 0 + 1
    BY <2>1, FS_Interval
  <2> QED BY <2>2
<1>8. At(e) <= off
  <2> HIDE DEF f
  <2> QED BY <1>6, <1>7, FS_Injection
<1>9. At(e) = off
  BY <1>1, <1>4, <1>8
<1>10. \A b \in S : b \in RowAt(S, off) <=> At(b) = off
  BY Zenon DEF RowAt, Preceding
<1> QED BY <1>9, <1>10

-----------------------------------------------------------------------------
LEMMA RowsFinite ==
    ASSUME BqTypes
    PROVE  Rows("valid") \in SUBSET Blocks /\ IsFiniteSet(Rows("valid"))
<1>1. Rows("valid") \in SUBSET Queued
  BY DEF Rows, Queued
<1> QED BY <1>1, FS_Subset DEF BqTypes, Queued

\* The scan is not disturbed by a row that comes in
LEMMA ScanKept ==
    ASSUME BqTypes, BqTypes', ScanState, Rows("valid") \subseteq Rows("valid")',
           UNCHANGED scan, wpc' = "scan" <=> wpc = "scan"
    PROVE  ScanState'
<1> USE DEF scan
<1>1. CASE wpc # "scan"
  BY <1>1 DEF ScanState
<1>2. CASE wpc = "scan"
  <2> DEFINE V == Rows("valid")
             W == Rows("valid")'
  <2>1. V \in SUBSET Blocks /\ IsFiniteSet(V)
    BY RowsFinite
  <2>2. W \in SUBSET Queued' /\ IsFiniteSet(Queued)' /\ Queued' \in SUBSET Blocks
    BY DEF Rows, Queued, BqTypes
  <2>3. W \in SUBSET Blocks /\ IsFiniteSet(W)
    BY <2>2, FS_Subset
  <2>4. V \subseteq W
    OBVIOUS
  <2> HIDE DEF V, W
  <2>5. ASSUME NEW b \in expected \ seen PROVE Cardinality(Preceding(W, b)) >= offset
    <3>0. b \in Blocks /\ offset \in Nat
      BY <2>5 DEF BqTypes
    <3>1. Cardinality(Preceding(V, b)) >= offset
      BY <1>2, <2>5 DEF ScanState, V
    <3>2. Preceding(V, b) \in SUBSET Preceding(W, b)
      BY <2>4 DEF Preceding
    <3>3. IsFiniteSet(Preceding(V, b)) /\ Cardinality(Preceding(V, b)) \in Nat
      BY <2>1, <3>0, PrecedingFinite
    <3>4. IsFiniteSet(Preceding(W, b)) /\ Cardinality(Preceding(W, b)) \in Nat
      BY <2>3, <3>0, PrecedingFinite
    <3>5. Cardinality(Preceding(V, b)) <= Cardinality(Preceding(W, b))
      BY <3>2, <3>4, FS_Subset
    <3> QED BY <3>0, <3>1, <3>3, <3>4, <3>5
  <2>6. expected \subseteq W
    BY <1>2, <2>4 DEF ScanState, V
  <2>7. \A b \in expected' \ seen' : Cardinality(Preceding(W, b)) >= offset'
    BY <2>5
  <2>8. wpc' = "scan" /\ expected' = expected
    BY <1>2
  <2> QED BY <2>6, <2>7, <2>8 DEF ScanState, W
<1> QED BY <1>1, <1>2

\* A set of queued blocks that one block joins or some leave stays finite
LEMMA QueuedFinite ==
    ASSUME IsFiniteSet(Queued), NEW b, Queued' \subseteq Queued \cup {b}
    PROVE  IsFiniteSet(Queued')
<1>1. IsFiniteSet(Queued \cup {b})
  BY FS_AddElement
<1> QED BY <1>1, FS_Subset

\* The node starts with the last indelible block as the one row
LEMMA BqInitIInv == BlockqInit => BqIInv
<1> SUFFICES ASSUME BlockqInit PROVE BqIInv
  OBVIOUS
<1> USE DEF BlockqInit
<1>1. BqTypes
  <2>1. Queued = {Root}
    BY TreeAssumption DEF Queued
  <2>2. IsFiniteSet(Queued)
    BY <2>1, FS_Singleton
  <2> QED BY <2>2, TreeAssumption DEF BqTypes, RowStates
<1>2. RowsInv
  BY QueueAssumption, TreeAssumption DEF RowsInv, OwnRows, HeldRow, Inserted, DoneLow
<1>3. NeverValidatedTwice /\ QueueMatchesValid /\ NoStrandedBlock
  BY TreeAssumption DEF NeverValidatedTwice, QueueMatchesValid, NoStrandedBlock
<1>4. ScanState
  BY DEF ScanState
<1> QED BY <1>1, <1>2, <1>3, <1>4 DEF BqIInv

\* A peer sends a block
LEMMA EnqueueValidateKeeps == ASSUME BqIInv, NEW b \in Blocks, EnqueueValidate(b) PROVE BqIInv'
<1> USE QueueAssumption, TreeAssumption DEF BqIInv, queue, pvars, wvars, scan
<1>0. /\ PruneLevel \in Nat /\ DoneLevel \in Nat /\ ValidateLevel \in Nat
      /\ PruneLevel <= DoneLevel /\ DoneLevel <= ValidateLevel /\ 1 <= ValidateLevel
  BY Levels DEF BqTypes
<1>1. PruneLevel' = PruneLevel /\ DoneLevel' = DoneLevel /\ ValidateLevel' = ValidateLevel
  BY LevelsStay DEF EnqueueValidate
<1>2. BqTypes'
  <2>1. status' \in [Blocks -> RowStates] /\ done' \subseteq Queued'
    BY DEF EnqueueValidate, BqTypes, RowStates, Queued, Rows
  <2>2. Queued' \subseteq Queued \cup {b}
    BY DEF EnqueueValidate, BqTypes, Queued, Rows
  <2>3. IsFiniteSet(Queued')
    BY <2>2, QueuedFinite DEF BqTypes
  <2> QED BY <2>1, <2>3 DEF EnqueueValidate, BqTypes, Rows, Queued
<1>3. RowsInv'
  BY <1>0, <1>1 DEF EnqueueValidate, BqTypes, RowStates, RowsInv, OwnRows, HeldRow, Inserted, DoneLow, Rows,
     Queued
<1>4. NeverValidatedTwice'
  BY <1>0 DEF EnqueueValidate, BqTypes, RowsInv, HeldRow, Inserted, NeverValidatedTwice, QueueMatchesValid
<1>5. QueueMatchesValid'
  BY <1>0, <1>1 DEF EnqueueValidate, BqTypes, RowsInv, OwnRows, HeldRow, Inserted, NeverValidatedTwice,
     QueueMatchesValid, Rows
<1>6. NoStrandedBlock'
  BY <1>0, <1>1 DEF EnqueueValidate, BqTypes, RowsInv, OwnRows, HeldRow, Inserted, DoneLow, NoStrandedBlock,
     Rows
<1>7. ScanState'
  <2>1. Rows("valid") \subseteq Rows("valid")'
    BY DEF EnqueueValidate, BqTypes, RowsInv, HeldRow, Rows
  <2> QED BY <1>2, <2>1, ScanKept DEF EnqueueValidate
<1> QED BY <1>2, <1>3, <1>4, <1>5, <1>6, <1>7

\* processblock takes a row
LEMMA GetNextValidateObjKeeps == ASSUME BqIInv, NEW b \in Blocks, GetNextValidateObj(b) PROVE BqIInv'
<1> USE QueueAssumption, TreeAssumption DEF BqIInv, queue, pvars, wvars, scan
<1>0. /\ PruneLevel \in Nat /\ DoneLevel \in Nat /\ ValidateLevel \in Nat
      /\ PruneLevel <= DoneLevel /\ DoneLevel <= ValidateLevel /\ 1 <= ValidateLevel
  BY Levels DEF BqTypes
<1>1. PruneLevel' = PruneLevel /\ DoneLevel' = DoneLevel /\ ValidateLevel' = ValidateLevel
  BY LevelsStay DEF GetNextValidateObj
<1>2. BqTypes'
  <2>1. status' \in [Blocks -> RowStates] /\ done' \subseteq Queued'
    BY DEF GetNextValidateObj, BqTypes, RowStates, Queued, Rows
  <2>2. Queued' \subseteq Queued \cup {b}
    BY DEF GetNextValidateObj, BqTypes, Queued, Rows
  <2>3. IsFiniteSet(Queued')
    BY <2>2, QueuedFinite DEF BqTypes
  <2> QED BY <2>1, <2>3 DEF GetNextValidateObj, BqTypes, Rows, Queued
<1>3. RowsInv'
  BY <1>0, <1>1 DEF GetNextValidateObj, BqTypes, RowStates, RowsInv, OwnRows, HeldRow, Inserted, DoneLow, Rows,
     Queued
<1>4. NeverValidatedTwice'
  BY <1>0 DEF GetNextValidateObj, BqTypes, RowsInv, HeldRow, Inserted, NeverValidatedTwice, QueueMatchesValid
<1>5. QueueMatchesValid'
  BY <1>0, <1>1 DEF GetNextValidateObj, BqTypes, RowsInv, OwnRows, HeldRow, Inserted, NeverValidatedTwice,
     QueueMatchesValid, Rows
<1>6. NoStrandedBlock'
  BY <1>0, <1>1 DEF GetNextValidateObj, BqTypes, RowsInv, OwnRows, HeldRow, Inserted, DoneLow, NoStrandedBlock,
     Rows
<1>7. ScanState'
  <2>1. Rows("valid") \subseteq Rows("valid")'
    BY DEF GetNextValidateObj, BqTypes, RowsInv, HeldRow, Rows
  <2> QED BY <1>2, <2>1, ScanKept DEF GetNextValidateObj
<1> QED BY <1>2, <1>3, <1>4, <1>5, <1>6, <1>7

\* BlockValidate looks for the prior block
LEMMA FindPriorBlockKeeps == ASSUME BqIInv, FindPriorBlock PROVE BqIInv'
<1> USE QueueAssumption, TreeAssumption DEF BqIInv, queue, pvars, wvars, scan
<1>0. /\ PruneLevel \in Nat /\ DoneLevel \in Nat /\ ValidateLevel \in Nat
      /\ PruneLevel <= DoneLevel /\ DoneLevel <= ValidateLevel /\ 1 <= ValidateLevel
  BY Levels DEF BqTypes
<1>1. PruneLevel' = PruneLevel /\ DoneLevel' = DoneLevel /\ ValidateLevel' = ValidateLevel
  BY LevelsStay DEF FindPriorBlock
<1>2. BqTypes'
  BY DEF FindPriorBlock, BqTypes, Queued
<1>3. RowsInv'
  BY <1>0, <1>1 DEF FindPriorBlock, BqTypes, RowStates, RowsInv, OwnRows, HeldRow, Inserted, DoneLow, Rows,
     Queued
<1>4. NeverValidatedTwice'
  BY <1>0 DEF FindPriorBlock, BqTypes, RowsInv, HeldRow, Inserted, NeverValidatedTwice, QueueMatchesValid
<1>5. QueueMatchesValid'
  BY <1>0, <1>1 DEF FindPriorBlock, BqTypes, RowsInv, OwnRows, HeldRow, Inserted, NeverValidatedTwice,
     QueueMatchesValid, Rows
<1>6. NoStrandedBlock'
  BY <1>0, <1>1 DEF FindPriorBlock, BqTypes, RowsInv, OwnRows, HeldRow, Inserted, DoneLow, NoStrandedBlock, Rows
<1>7. ScanState'
  <2>1. Rows("valid") \subseteq Rows("valid")'
    BY DEF FindPriorBlock, BqTypes, RowsInv, HeldRow, Rows
  <2> QED BY <1>2, <2>1, ScanKept DEF FindPriorBlock
<1> QED BY <1>2, <1>3, <1>4, <1>5, <1>6, <1>7

\* The block is too early
LEMMA FutureTimestampKeeps == ASSUME BqIInv, FutureTimestamp PROVE BqIInv'
<1> USE QueueAssumption, TreeAssumption DEF BqIInv, queue, pvars, wvars, scan
<1>0. /\ PruneLevel \in Nat /\ DoneLevel \in Nat /\ ValidateLevel \in Nat
      /\ PruneLevel <= DoneLevel /\ DoneLevel <= ValidateLevel /\ 1 <= ValidateLevel
  BY Levels DEF BqTypes
<1>1. PruneLevel' = PruneLevel /\ DoneLevel' = DoneLevel /\ ValidateLevel' = ValidateLevel
  BY LevelsStay DEF FutureTimestamp
<1>2. BqTypes'
  <2>1. status' \in [Blocks -> RowStates] /\ done' \subseteq Queued'
    BY DEF FutureTimestamp, BqTypes, RowStates, Queued, Rows
  <2>2. Queued' \subseteq Queued \cup {cur}
    BY DEF FutureTimestamp, BqTypes, Queued, Rows
  <2>3. IsFiniteSet(Queued')
    BY <2>2, QueuedFinite DEF BqTypes
  <2> QED BY <2>1, <2>3 DEF FutureTimestamp, BqTypes, Rows, Queued
<1>3. RowsInv'
  BY <1>0, <1>1 DEF FutureTimestamp, BqTypes, RowStates, RowsInv, OwnRows, HeldRow, Inserted, DoneLow, Rows,
     Queued
<1>4. NeverValidatedTwice'
  BY <1>0 DEF FutureTimestamp, BqTypes, RowsInv, HeldRow, Inserted, NeverValidatedTwice, QueueMatchesValid
<1>5. QueueMatchesValid'
  BY <1>0, <1>1 DEF FutureTimestamp, BqTypes, RowsInv, OwnRows, HeldRow, Inserted, NeverValidatedTwice,
     QueueMatchesValid, Rows
<1>6. NoStrandedBlock'
  BY <1>0, <1>1 DEF FutureTimestamp, BqTypes, RowsInv, OwnRows, HeldRow, Inserted, DoneLow, NoStrandedBlock,
     Rows
<1>7. ScanState'
  <2>1. Rows("valid") \subseteq Rows("valid")'
    BY DEF FutureTimestamp, BqTypes, RowsInv, HeldRow, Rows
  <2> QED BY <1>2, <2>1, ScanKept DEF FutureTimestamp
<1> QED BY <1>2, <1>3, <1>4, <1>5, <1>6, <1>7

\* BlockValidate finds the block good, bad or a duplicate
LEMMA FinishValidateKeeps == ASSUME BqIInv, FinishValidate PROVE BqIInv'
<1> USE QueueAssumption, TreeAssumption DEF BqIInv, queue, pvars, wvars, scan
<1>0. /\ PruneLevel \in Nat /\ DoneLevel \in Nat /\ ValidateLevel \in Nat
      /\ PruneLevel <= DoneLevel /\ DoneLevel <= ValidateLevel /\ 1 <= ValidateLevel
  BY Levels DEF BqTypes
<1>1. PruneLevel' = PruneLevel /\ DoneLevel' = DoneLevel /\ ValidateLevel' = ValidateLevel
  BY LevelsStay DEF FinishValidate, UpdateObj, Outcomes
<1>2. BqTypes'
  <2>1. status' \in [Blocks -> RowStates] /\ done' \subseteq Queued'
    BY DEF FinishValidate, UpdateObj, Outcomes, BqTypes, RowStates, Queued, Rows
  <2>2. Queued' \subseteq Queued \cup {cur}
    BY DEF FinishValidate, UpdateObj, Outcomes, BqTypes, Queued, Rows
  <2>3. IsFiniteSet(Queued')
    BY <2>2, QueuedFinite DEF BqTypes
  <2> QED BY <2>1, <2>3 DEF FinishValidate, UpdateObj, Outcomes, BqTypes, Rows, Queued
<1>3. RowsInv'
  BY <1>0, <1>1 DEF FinishValidate, UpdateObj, Outcomes, BqTypes, RowStates, RowsInv, OwnRows, HeldRow, Inserted,
     DoneLow, Rows, Queued
<1>4. NeverValidatedTwice'
  BY <1>0 DEF FinishValidate, UpdateObj, Outcomes, BqTypes, RowsInv, HeldRow, Inserted, NeverValidatedTwice,
     QueueMatchesValid
<1>5. QueueMatchesValid'
  BY <1>0, <1>1 DEF FinishValidate, UpdateObj, Outcomes, BqTypes, RowsInv, OwnRows, HeldRow, Inserted,
     NeverValidatedTwice, QueueMatchesValid, Rows
<1>6. NoStrandedBlock'
  BY <1>0, <1>1 DEF FinishValidate, UpdateObj, Outcomes, BqTypes, RowsInv, OwnRows, HeldRow, Inserted, DoneLow,
     NoStrandedBlock, Rows
<1>7. ScanState'
  <2>1. Rows("valid") \subseteq Rows("valid")'
    BY DEF FinishValidate, UpdateObj, Outcomes, BqTypes, RowsInv, HeldRow, Rows
  <2> QED BY <1>2, <2>1, ScanKept DEF FinishValidate, UpdateObj, Outcomes
<1> QED BY <1>2, <1>3, <1>4, <1>5, <1>6, <1>7

\* ValidObjsBlockInsert: the block is in ValidObjs, ...
LEMMA ValidObjsInsertKeeps == ASSUME BqIInv, ValidObjsInsert PROVE BqIInv'
<1> USE QueueAssumption, TreeAssumption DEF BqIInv, queue, pvars, wvars, scan
<1>0. /\ PruneLevel \in Nat /\ DoneLevel \in Nat /\ ValidateLevel \in Nat
      /\ PruneLevel <= DoneLevel /\ DoneLevel <= ValidateLevel /\ 1 <= ValidateLevel
  BY Levels DEF BqTypes
<1>1. PruneLevel' = PruneLevel /\ DoneLevel' = DoneLevel /\ ValidateLevel' = ValidateLevel
  BY LevelsStay DEF ValidObjsInsert
<1>2. BqTypes'
  BY DEF ValidObjsInsert, BqTypes, Queued
<1>3. RowsInv'
  BY <1>0, <1>1 DEF ValidObjsInsert, BqTypes, RowStates, RowsInv, OwnRows, HeldRow, Inserted, DoneLow, Rows,
     Queued
<1>4. NeverValidatedTwice'
  BY <1>0 DEF ValidObjsInsert, BqTypes, RowsInv, HeldRow, Inserted, NeverValidatedTwice, QueueMatchesValid
<1>5. QueueMatchesValid'
  BY <1>0, <1>1 DEF ValidObjsInsert, BqTypes, RowsInv, OwnRows, HeldRow, Inserted, NeverValidatedTwice,
     QueueMatchesValid, Rows
<1>6. NoStrandedBlock'
  BY <1>0, <1>1 DEF ValidObjsInsert, BqTypes, RowsInv, OwnRows, HeldRow, Inserted, DoneLow, NoStrandedBlock,
     Rows
<1>7. ScanState'
  <2>1. Rows("valid") \subseteq Rows("valid")'
    BY DEF ValidObjsInsert, BqTypes, RowsInv, HeldRow, Rows
  <2> QED BY <1>2, <2>1, ScanKept DEF ValidObjsInsert
<1> QED BY <1>2, <1>3, <1>4, <1>5, <1>6, <1>7

\* ... its row is valid, ...
LEMMA UpdateObjValidKeeps == ASSUME BqIInv, UpdateObjValid PROVE BqIInv'
<1> USE QueueAssumption, TreeAssumption DEF BqIInv, queue, pvars, wvars, scan
<1>0. /\ PruneLevel \in Nat /\ DoneLevel \in Nat /\ ValidateLevel \in Nat
      /\ PruneLevel <= DoneLevel /\ DoneLevel <= ValidateLevel /\ 1 <= ValidateLevel
  BY Levels DEF BqTypes
<1>1. PruneLevel' = PruneLevel /\ DoneLevel' = DoneLevel /\ ValidateLevel' = ValidateLevel
  BY LevelsStay DEF UpdateObjValid, UpdateObj
<1>2. BqTypes'
  <2>1. status' \in [Blocks -> RowStates] /\ done' \subseteq Queued'
    BY DEF UpdateObjValid, UpdateObj, BqTypes, RowStates, Queued, Rows
  <2>2. Queued' \subseteq Queued \cup {cur}
    BY DEF UpdateObjValid, UpdateObj, BqTypes, Queued, Rows
  <2>3. IsFiniteSet(Queued')
    BY <2>2, QueuedFinite DEF BqTypes
  <2> QED BY <2>1, <2>3 DEF UpdateObjValid, UpdateObj, BqTypes, Rows, Queued
<1>3. RowsInv'
  BY <1>0, <1>1 DEF UpdateObjValid, UpdateObj, BqTypes, RowStates, RowsInv, OwnRows, HeldRow, Inserted, DoneLow,
     Rows, Queued
<1>4. NeverValidatedTwice'
  BY <1>0 DEF UpdateObjValid, UpdateObj, BqTypes, RowsInv, HeldRow, Inserted, NeverValidatedTwice,
     QueueMatchesValid
<1>5. QueueMatchesValid'
  BY <1>0, <1>1 DEF UpdateObjValid, UpdateObj, BqTypes, RowsInv, OwnRows, HeldRow, Inserted, NeverValidatedTwice,
     QueueMatchesValid, Rows
<1>6. NoStrandedBlock'
  BY <1>0, <1>1 DEF UpdateObjValid, UpdateObj, BqTypes, RowsInv, OwnRows, HeldRow, Inserted, DoneLow,
     NoStrandedBlock, Rows
<1>7. ScanState'
  <2>1. Rows("valid") \subseteq Rows("valid")'
    BY DEF UpdateObjValid, UpdateObj, BqTypes, RowsInv, HeldRow, Rows
  <2> QED BY <1>2, <2>1, ScanKept DEF UpdateObjValid, UpdateObj
<1> QED BY <1>2, <1>3, <1>4, <1>5, <1>6, <1>7

\* ... and rows that waited for it are pending
LEMMA RequeueKeeps == ASSUME BqIInv, Requeue PROVE BqIInv'
<1> USE QueueAssumption, TreeAssumption DEF BqIInv, queue, pvars, wvars, scan
<1>0. /\ PruneLevel \in Nat /\ DoneLevel \in Nat /\ ValidateLevel \in Nat
      /\ PruneLevel <= DoneLevel /\ DoneLevel <= ValidateLevel /\ 1 <= ValidateLevel
  BY Levels DEF BqTypes
<1>1. PruneLevel' = PruneLevel /\ DoneLevel' = DoneLevel /\ ValidateLevel' = ValidateLevel
  BY LevelsStay DEF Requeue, UpdateSubsequentBlockStatus
<1>2. BqTypes'
  <2>1. status' \in [Blocks -> RowStates] /\ done' \subseteq Queued'
    BY DEF Requeue, UpdateSubsequentBlockStatus, BqTypes, RowStates, Queued, Rows
  <2>2. Queued' \subseteq Queued \cup {cur}
    BY DEF Requeue, UpdateSubsequentBlockStatus, BqTypes, Queued, Rows
  <2>3. IsFiniteSet(Queued')
    BY <2>2, QueuedFinite DEF BqTypes
  <2> QED BY <2>1, <2>3 DEF Requeue, UpdateSubsequentBlockStatus, BqTypes, Rows, Queued
<1>3. RowsInv'
  BY <1>0, <1>1 DEF Requeue, UpdateSubsequentBlockStatus, BqTypes, RowStates, RowsInv, OwnRows, HeldRow,
     Inserted, DoneLow, Rows, Queued
<1>4. NeverValidatedTwice'
  BY <1>0 DEF Requeue, UpdateSubsequentBlockStatus, BqTypes, RowsInv, HeldRow, Inserted, NeverValidatedTwice,
     QueueMatchesValid
<1>5. QueueMatchesValid'
  BY <1>0, <1>1 DEF Requeue, UpdateSubsequentBlockStatus, BqTypes, RowsInv, OwnRows, HeldRow, Inserted,
     NeverValidatedTwice, QueueMatchesValid, Rows
<1>6. NoStrandedBlock'
  BY <1>0, <1>1 DEF Requeue, UpdateSubsequentBlockStatus, BqTypes, RowsInv, OwnRows, HeldRow, Inserted, DoneLow,
     NoStrandedBlock, Rows
<1>7. ScanState'
  <2>1. Rows("valid") \subseteq Rows("valid")'
    BY DEF Requeue, UpdateSubsequentBlockStatus, BqTypes, RowsInv, HeldRow, Rows
  <2> QED BY <1>2, <2>1, ScanKept DEF Requeue, UpdateSubsequentBlockStatus
<1> QED BY <1>2, <1>3, <1>4, <1>5, <1>6, <1>7

\* DoConfirmations may move the last indelible block
LEMMA ConfirmKeeps == ASSUME BqIInv, Confirm PROVE BqIInv'
<1> USE QueueAssumption, TreeAssumption DEF BqIInv, queue, pvars, wvars, scan
<1>0. /\ PruneLevel \in Nat /\ DoneLevel \in Nat /\ ValidateLevel \in Nat
      /\ PruneLevel <= DoneLevel /\ DoneLevel <= ValidateLevel /\ 1 <= ValidateLevel
  BY Levels DEF BqTypes
<1>a. indelible' \in Nat /\ indelible <= indelible'
  BY DEF Confirm, DoConfirmations, BqTypes
<1>1. /\ PruneLevel <= PruneLevel' /\ DoneLevel <= DoneLevel' /\ ValidateLevel <= ValidateLevel'
      /\ PruneLevel' \in Nat /\ DoneLevel' \in Nat /\ ValidateLevel' \in Nat
  BY <1>a, LevelsRise DEF BqTypes
<1>2. BqTypes'
  BY <1>a DEF Confirm, DoConfirmations, BqTypes, Queued
<1>3. RowsInv'
  BY <1>0, <1>1 DEF Confirm, DoConfirmations, BqTypes, RowStates, RowsInv, OwnRows, HeldRow, Inserted, DoneLow,
     Rows, Queued
<1>4. NeverValidatedTwice'
  BY <1>0 DEF Confirm, DoConfirmations, BqTypes, RowsInv, HeldRow, Inserted, NeverValidatedTwice,
     QueueMatchesValid
<1>5. QueueMatchesValid'
  BY <1>0, <1>1 DEF Confirm, DoConfirmations, BqTypes, RowsInv, OwnRows, HeldRow, Inserted, NeverValidatedTwice,
     QueueMatchesValid, Rows
<1>6. NoStrandedBlock'
  BY <1>0, <1>1 DEF Confirm, DoConfirmations, BqTypes, RowsInv, OwnRows, HeldRow, Inserted, DoneLow,
     NoStrandedBlock, Rows
<1>7. ScanState'
  <2>1. Rows("valid") \subseteq Rows("valid")'
    BY DEF Confirm, DoConfirmations, BqTypes, RowsInv, HeldRow, Rows
  <2> QED BY <1>2, <2>1, ScanKept DEF Confirm, DoConfirmations
<1> QED BY <1>2, <1>3, <1>4, <1>5, <1>6, <1>7

\* The witness enters a block of its own, ...
LEMMA WitnessInsertKeeps == ASSUME BqIInv, NEW b \in Blocks, WitnessInsert(b) PROVE BqIInv'
<1> USE QueueAssumption, TreeAssumption DEF BqIInv, queue, pvars, wvars, scan
<1>0. /\ PruneLevel \in Nat /\ DoneLevel \in Nat /\ ValidateLevel \in Nat
      /\ PruneLevel <= DoneLevel /\ DoneLevel <= ValidateLevel /\ 1 <= ValidateLevel
  BY Levels DEF BqTypes
<1>1. PruneLevel' = PruneLevel /\ DoneLevel' = DoneLevel /\ ValidateLevel' = ValidateLevel
  BY LevelsStay DEF WitnessInsert
<1>2. BqTypes'
  BY DEF WitnessInsert, BqTypes, Queued
<1>3. RowsInv'
  BY <1>0, <1>1 DEF WitnessInsert, BqTypes, RowStates, RowsInv, OwnRows, HeldRow, Inserted, DoneLow, Rows,
     Queued
<1>4. NeverValidatedTwice'
  BY <1>0 DEF WitnessInsert, BqTypes, RowsInv, HeldRow, Inserted, NeverValidatedTwice, QueueMatchesValid
<1>5. QueueMatchesValid'
  BY <1>0, <1>1 DEF WitnessInsert, BqTypes, RowsInv, OwnRows, HeldRow, Inserted, NeverValidatedTwice,
     QueueMatchesValid, Rows
<1>6. NoStrandedBlock'
  BY <1>0, <1>1 DEF WitnessInsert, BqTypes, RowsInv, OwnRows, HeldRow, Inserted, DoneLow, NoStrandedBlock, Rows
<1>7. ScanState'
  <2>1. Rows("valid") \subseteq Rows("valid")'
    BY DEF WitnessInsert, BqTypes, RowsInv, HeldRow, Rows
  <2> QED BY <1>2, <2>1, ScanKept DEF WitnessInsert
<1> QED BY <1>2, <1>3, <1>4, <1>5, <1>6, <1>7

\* ... gives it a row, ...
LEMMA WitnessEnqueueKeeps == ASSUME BqIInv, WitnessEnqueue PROVE BqIInv'
<1> USE QueueAssumption, TreeAssumption DEF BqIInv, queue, pvars, wvars, scan
<1>0. /\ PruneLevel \in Nat /\ DoneLevel \in Nat /\ ValidateLevel \in Nat
      /\ PruneLevel <= DoneLevel /\ DoneLevel <= ValidateLevel /\ 1 <= ValidateLevel
  BY Levels DEF BqTypes
<1>1. PruneLevel' = PruneLevel /\ DoneLevel' = DoneLevel /\ ValidateLevel' = ValidateLevel
  BY LevelsStay DEF WitnessEnqueue
<1>2. BqTypes'
  <2>1. status' \in [Blocks -> RowStates] /\ done' \subseteq Queued'
    BY DEF WitnessEnqueue, BqTypes, RowStates, Queued, Rows
  <2>2. Queued' \subseteq Queued \cup {wcur}
    BY DEF WitnessEnqueue, BqTypes, Queued, Rows
  <2>3. IsFiniteSet(Queued')
    BY <2>2, QueuedFinite DEF BqTypes
  <2> QED BY <2>1, <2>3 DEF WitnessEnqueue, BqTypes, Rows, Queued
<1>3. RowsInv'
  BY <1>0, <1>1 DEF WitnessEnqueue, BqTypes, RowStates, RowsInv, OwnRows, HeldRow, Inserted, DoneLow, Rows,
     Queued
<1>4. NeverValidatedTwice'
  BY <1>0 DEF WitnessEnqueue, BqTypes, RowsInv, HeldRow, Inserted, NeverValidatedTwice, QueueMatchesValid
<1>5. QueueMatchesValid'
  BY <1>0, <1>1 DEF WitnessEnqueue, BqTypes, RowsInv, OwnRows, HeldRow, Inserted, NeverValidatedTwice,
     QueueMatchesValid, Rows
<1>6. NoStrandedBlock'
  BY <1>0, <1>1 DEF WitnessEnqueue, BqTypes, RowsInv, OwnRows, HeldRow, Inserted, DoneLow, NoStrandedBlock, Rows
<1>7. ScanState'
  <2>1. Rows("valid") \subseteq Rows("valid")'
    BY DEF WitnessEnqueue, BqTypes, RowsInv, HeldRow, Rows
  <2> QED BY <1>2, <2>1, ScanKept DEF WitnessEnqueue
<1> QED BY <1>2, <1>3, <1>4, <1>5, <1>6, <1>7

\* ... requeues the rows that waited for it, ...
LEMMA WitnessRequeueKeeps == ASSUME BqIInv, WitnessRequeue PROVE BqIInv'
<1> USE QueueAssumption, TreeAssumption DEF BqIInv, queue, pvars, wvars, scan
<1>0. /\ PruneLevel \in Nat /\ DoneLevel \in Nat /\ ValidateLevel \in Nat
      /\ PruneLevel <= DoneLevel /\ DoneLevel <= ValidateLevel /\ 1 <= ValidateLevel
  BY Levels DEF BqTypes
<1>1. PruneLevel' = PruneLevel /\ DoneLevel' = DoneLevel /\ ValidateLevel' = ValidateLevel
  BY LevelsStay DEF WitnessRequeue, UpdateSubsequentBlockStatus
<1>2. BqTypes'
  <2>1. status' \in [Blocks -> RowStates] /\ done' \subseteq Queued'
    BY DEF WitnessRequeue, UpdateSubsequentBlockStatus, BqTypes, RowStates, Queued, Rows
  <2>2. Queued' \subseteq Queued \cup {wcur}
    BY DEF WitnessRequeue, UpdateSubsequentBlockStatus, BqTypes, Queued, Rows
  <2>3. IsFiniteSet(Queued')
    BY <2>2, QueuedFinite DEF BqTypes
  <2> QED BY <2>1, <2>3 DEF WitnessRequeue, UpdateSubsequentBlockStatus, BqTypes, Rows, Queued
<1>3. RowsInv'
  BY <1>0, <1>1 DEF WitnessRequeue, UpdateSubsequentBlockStatus, BqTypes, RowStates, RowsInv, OwnRows, HeldRow,
     Inserted, DoneLow, Rows, Queued
<1>4. NeverValidatedTwice'
  BY <1>0 DEF WitnessRequeue, UpdateSubsequentBlockStatus, BqTypes, RowsInv, HeldRow, Inserted,
     NeverValidatedTwice, QueueMatchesValid
<1>5. QueueMatchesValid'
  BY <1>0, <1>1 DEF WitnessRequeue, UpdateSubsequentBlockStatus, BqTypes, RowsInv, OwnRows, HeldRow, Inserted,
     NeverValidatedTwice, QueueMatchesValid, Rows
<1>6. NoStrandedBlock'
  BY <1>0, <1>1 DEF WitnessRequeue, UpdateSubsequentBlockStatus, BqTypes, RowsInv, OwnRows, HeldRow, Inserted,
     DoneLow, NoStrandedBlock, Rows
<1>7. ScanState'
  <2>1. Rows("valid") \subseteq Rows("valid")'
    BY DEF WitnessRequeue, UpdateSubsequentBlockStatus, BqTypes, RowsInv, HeldRow, Rows
  <2> QED BY <1>2, <2>1, ScanKept DEF WitnessRequeue, UpdateSubsequentBlockStatus
<1> QED BY <1>2, <1>3, <1>4, <1>5, <1>6, <1>7

\* ... and confirms
LEMMA WitnessConfirmKeeps == ASSUME BqIInv, WitnessConfirm PROVE BqIInv'
<1> USE QueueAssumption, TreeAssumption DEF BqIInv, queue, pvars, wvars, scan
<1>0. /\ PruneLevel \in Nat /\ DoneLevel \in Nat /\ ValidateLevel \in Nat
      /\ PruneLevel <= DoneLevel /\ DoneLevel <= ValidateLevel /\ 1 <= ValidateLevel
  BY Levels DEF BqTypes
<1>a. indelible' \in Nat /\ indelible <= indelible'
  BY DEF WitnessConfirm, DoConfirmations, BqTypes
<1>1. /\ PruneLevel <= PruneLevel' /\ DoneLevel <= DoneLevel' /\ ValidateLevel <= ValidateLevel'
      /\ PruneLevel' \in Nat /\ DoneLevel' \in Nat /\ ValidateLevel' \in Nat
  BY <1>a, LevelsRise DEF BqTypes
<1>2. BqTypes'
  BY <1>a DEF WitnessConfirm, DoConfirmations, BqTypes, Queued
<1>3. RowsInv'
  BY <1>0, <1>1 DEF WitnessConfirm, DoConfirmations, BqTypes, RowStates, RowsInv, OwnRows, HeldRow, Inserted,
     DoneLow, Rows, Queued
<1>4. NeverValidatedTwice'
  BY <1>0 DEF WitnessConfirm, DoConfirmations, BqTypes, RowsInv, HeldRow, Inserted, NeverValidatedTwice,
     QueueMatchesValid
<1>5. QueueMatchesValid'
  BY <1>0, <1>1 DEF WitnessConfirm, DoConfirmations, BqTypes, RowsInv, OwnRows, HeldRow, Inserted,
     NeverValidatedTwice, QueueMatchesValid, Rows
<1>6. NoStrandedBlock'
  BY <1>0, <1>1 DEF WitnessConfirm, DoConfirmations, BqTypes, RowsInv, OwnRows, HeldRow, Inserted, DoneLow,
     NoStrandedBlock, Rows
<1>7. ScanState'
  <2>1. Rows("valid") \subseteq Rows("valid")'
    BY DEF WitnessConfirm, DoConfirmations, BqTypes, RowsInv, HeldRow, Rows
  <2> QED BY <1>2, <2>1, ScanKept DEF WitnessConfirm, DoConfirmations
<1> QED BY <1>2, <1>3, <1>4, <1>5, <1>6, <1>7

\* Time passes
LEMMA ClockTickKeeps == ASSUME BqIInv, ClockTick PROVE BqIInv'
<1> USE QueueAssumption, TreeAssumption DEF BqIInv, queue, pvars, wvars, scan
<1>0. /\ PruneLevel \in Nat /\ DoneLevel \in Nat /\ ValidateLevel \in Nat
      /\ PruneLevel <= DoneLevel /\ DoneLevel <= ValidateLevel /\ 1 <= ValidateLevel
  BY Levels DEF BqTypes
<1>1. PruneLevel' = PruneLevel /\ DoneLevel' = DoneLevel /\ ValidateLevel' = ValidateLevel
  BY LevelsStay DEF ClockTick
<1>2. BqTypes'
  BY DEF ClockTick, BqTypes, Queued
<1>3. RowsInv'
  BY <1>0, <1>1 DEF ClockTick, BqTypes, RowStates, RowsInv, OwnRows, HeldRow, Inserted, DoneLow, Rows, Queued
<1>4. NeverValidatedTwice'
  BY <1>0 DEF ClockTick, BqTypes, RowsInv, HeldRow, Inserted, NeverValidatedTwice, QueueMatchesValid
<1>5. QueueMatchesValid'
  BY <1>0, <1>1 DEF ClockTick, BqTypes, RowsInv, OwnRows, HeldRow, Inserted, NeverValidatedTwice,
     QueueMatchesValid, Rows
<1>6. NoStrandedBlock'
  BY <1>0, <1>1 DEF ClockTick, BqTypes, RowsInv, OwnRows, HeldRow, Inserted, DoneLow, NoStrandedBlock, Rows
<1>7. ScanState'
  <2>1. Rows("valid") \subseteq Rows("valid")'
    BY DEF ClockTick, BqTypes, RowsInv, HeldRow, Rows
  <2> QED BY <1>2, <2>1, ScanKept DEF ClockTick
<1> QED BY <1>2, <1>3, <1>4, <1>5, <1>6, <1>7

\* ProcessQPruneLevel and ProcessQDone, called by either thread
LEMMA PruneAndDoneKeeps ==
    ASSUME BqIInv, ProcessQPruneAndDone,
           UNCHANGED << valid, early, given_up, indelible, cur, wcur, offset, seen >>,
           \/ pc = "prune" /\ pc' = "wait" /\ wpc' = wpc
           \/ wpc = "prune" /\ wpc' = "idle" /\ pc' = pc
    PROVE  BqIInv'
<1> USE QueueAssumption, TreeAssumption DEF BqIInv, queue, pvars, wvars, scan
<1>0. /\ PruneLevel \in Nat /\ DoneLevel \in Nat /\ ValidateLevel \in Nat
      /\ PruneLevel <= DoneLevel /\ DoneLevel <= ValidateLevel /\ 1 <= ValidateLevel
  BY Levels DEF BqTypes
<1>1. PruneLevel' = PruneLevel /\ DoneLevel' = DoneLevel /\ ValidateLevel' = ValidateLevel
  BY LevelsStay
<1>a. /\ \A c \in Blocks : status'[c] = IF LevelOf[c] < PruneLevel THEN "none" ELSE status[c]
      /\ status' \in [Blocks -> RowStates]
      /\ done' = {c \in Blocks : status'[c] # "none" /\ (c \in done \/ LevelOf[c] < DoneLevel)}
      /\ expected' = IF \E c \in Rows("valid") : status'[c] # "valid" \/ c \in done' THEN {} ELSE expected
  BY DEF ProcessQPruneAndDone, BqTypes, RowStates
<1>2. BqTypes'
  <2>1. Queued' \subseteq Queued \cup {cur} /\ done' \subseteq Queued'
    BY <1>a DEF Queued
  <2>2. IsFiniteSet(Queued')
    BY <2>1, QueuedFinite DEF BqTypes
  <2>3. expected' \subseteq Blocks
    BY <1>a DEF BqTypes
  <2> QED BY <1>a, <2>1, <2>2, <2>3 DEF BqTypes
<1>3. RowsInv'
  BY <1>0, <1>1, <1>a DEF BqTypes, RowsInv, OwnRows, HeldRow, Inserted, DoneLow, Queued
<1>4. NeverValidatedTwice'
  BY DEF NeverValidatedTwice
<1>5. QueueMatchesValid'
  BY <1>0, <1>1, <1>a DEF BqTypes, QueueMatchesValid
<1>6. NoStrandedBlock'
  BY <1>0, <1>1, <1>a DEF BqTypes, NoStrandedBlock
<1>7. ScanState'
  <2>1. CASE expected' = {}
    BY <2>1 DEF ScanState
  <2>2. CASE expected' # {}
    <3>1. expected' = expected /\ \A c \in Rows("valid") : status'[c] = "valid" /\ c \notin done'
      BY <1>a, <2>2
    <3>2. Rows("valid") \subseteq Rows("valid")'
      BY <3>1 DEF Rows
    <3>3. wpc' = "scan" <=> wpc = "scan"
      OBVIOUS
    <3> QED BY <1>2, <3>1, <3>2, <3>3, ScanKept
  <2> QED BY <2>1, <2>2
<1> QED BY <1>2, <1>3, <1>4, <1>5, <1>6, <1>7

\* The scan by offset starts
LEMMA StartScanKeeps == ASSUME BqIInv, StartScan PROVE BqIInv'
<1> USE QueueAssumption, TreeAssumption DEF BqIInv, queue, pvars, wvars, scan
<1>0. /\ PruneLevel \in Nat /\ DoneLevel \in Nat /\ ValidateLevel \in Nat
      /\ PruneLevel <= DoneLevel /\ DoneLevel <= ValidateLevel /\ 1 <= ValidateLevel
  BY Levels DEF BqTypes
<1>1. PruneLevel' = PruneLevel /\ DoneLevel' = DoneLevel /\ ValidateLevel' = ValidateLevel
  BY LevelsStay DEF StartScan
<1>2. BqTypes'
  BY DEF StartScan, BqTypes, Queued, Rows
<1>3. RowsInv'
  BY <1>0, <1>1 DEF StartScan, BqTypes, RowStates, RowsInv, OwnRows, HeldRow, Inserted, DoneLow, Rows, Queued
<1>4. NeverValidatedTwice'
  BY <1>0 DEF StartScan, BqTypes, RowsInv, HeldRow, Inserted, NeverValidatedTwice, QueueMatchesValid
<1>5. QueueMatchesValid'
  BY <1>0, <1>1 DEF StartScan, BqTypes, RowsInv, OwnRows, HeldRow, Inserted, NeverValidatedTwice,
     QueueMatchesValid, Rows
<1>6. NoStrandedBlock'
  BY <1>0, <1>1 DEF StartScan, BqTypes, RowsInv, OwnRows, HeldRow, Inserted, DoneLow, NoStrandedBlock, Rows
<1>7. ScanState'
  <2> DEFINE V == Rows("valid")
  <2>1. V \in SUBSET Blocks /\ IsFiniteSet(V)
    BY RowsFinite
  <2>2. expected' = V /\ offset' = 0 /\ wpc' = "scan" /\ Rows("valid")' = V
    BY DEF StartScan, Rows
  <2> HIDE DEF V
  <2>3. \A b \in V : Cardinality(Preceding(V, b)) >= 0
    <3> SUFFICES ASSUME NEW b \in V PROVE Cardinality(Preceding(V, b)) >= 0
      OBVIOUS
    <3>1. Cardinality(Preceding(V, b)) \in Nat
      BY <2>1, PrecedingFinite
    <3> QED BY <3>1
  <2>4. \A b \in expected' \ seen' : Cardinality(Preceding(V, b)) >= offset'
    BY <2>2, <2>3
  <2> QED BY <2>2, <2>4 DEF ScanState
<1> QED BY <1>2, <1>3, <1>4, <1>5, <1>6, <1>7

\* ... and returns the row at the next offset, or ends
LEMMA GetNextValidObjKeeps == ASSUME BqIInv, GetNextValidObj PROVE BqIInv'
<1> USE QueueAssumption, TreeAssumption DEF BqIInv, queue, pvars, wvars, scan
<1>0. /\ PruneLevel \in Nat /\ DoneLevel \in Nat /\ ValidateLevel \in Nat
      /\ PruneLevel <= DoneLevel /\ DoneLevel <= ValidateLevel /\ 1 <= ValidateLevel
  BY Levels DEF BqTypes
<1>1. PruneLevel' = PruneLevel /\ DoneLevel' = DoneLevel /\ ValidateLevel' = ValidateLevel
  BY LevelsStay DEF GetNextValidObj
<1>2. BqTypes'
  <2>1. RowAt(Rows("valid"), offset) \subseteq Blocks
    BY DEF RowAt, Rows
  <2>2. seen' \subseteq Blocks
    BY <2>1 DEF GetNextValidObj, BqTypes
  <2>3. offset' \in Nat
    BY DEF GetNextValidObj, BqTypes
  <2>4. wpc' \in {"idle", "scan"}
    BY DEF GetNextValidObj
  <2> QED BY <2>2, <2>3, <2>4 DEF GetNextValidObj, BqTypes, Queued
<1>3. RowsInv'
  BY <1>0, <1>1 DEF GetNextValidObj, BqTypes, RowStates, RowsInv, OwnRows, HeldRow, Inserted, DoneLow, Rows,
     Queued
<1>4. NeverValidatedTwice'
  BY <1>0 DEF GetNextValidObj, BqTypes, RowsInv, HeldRow, Inserted, NeverValidatedTwice, QueueMatchesValid
<1>5. QueueMatchesValid'
  BY <1>0, <1>1 DEF GetNextValidObj, BqTypes, RowsInv, OwnRows, HeldRow, Inserted, NeverValidatedTwice,
     QueueMatchesValid, Rows
<1>6. NoStrandedBlock'
  BY <1>0, <1>1 DEF GetNextValidObj, BqTypes, RowsInv, OwnRows, HeldRow, Inserted, DoneLow, NoStrandedBlock,
     Rows
<1>7. ScanState'
  <2> DEFINE V == Rows("valid")
             row == RowAt(V, offset)
  <2>1. V \in SUBSET Blocks /\ IsFiniteSet(V) /\ offset \in Nat
    BY RowsFinite DEF BqTypes
  <2>2. /\ seen' = seen \cup row /\ offset' = (IF row = {} THEN 0 ELSE offset + 1)
        /\ wpc' = (IF row = {} THEN "idle" ELSE "scan") /\ expected' = expected /\ Rows("valid")' = V
    BY DEF GetNextValidObj, Rows
  <2>3. expected \subseteq V /\ \A b \in expected \ seen : Cardinality(Preceding(V, b)) >= offset
    BY DEF GetNextValidObj, ScanState
  <2>4. \A b \in V : Cardinality(Preceding(V, b)) \in Nat
    BY <2>1, PrecedingFinite
  <2>5. \A b \in V : b \in row <=> Cardinality(Preceding(V, b)) = offset
    BY Zenon DEF RowAt, Preceding
  <2>6. row = {} => \A b \in V : ~(Cardinality(Preceding(V, b)) >= offset)
    BY <2>1, NoGap
  <2> HIDE DEF V, row
  <2>7. CASE row = {}
    <3>1. expected \ seen = {}
      BY <2>3, <2>6, <2>7
    <3> QED BY <2>2, <2>7, <3>1 DEF ScanState
  <2>8. CASE row # {}
    <3>1. \A b \in expected' \ seen' : Cardinality(Preceding(V, b)) >= offset'
      BY <2>1, <2>2, <2>3, <2>4, <2>5, <2>8
    <3>2. wpc' = "scan" /\ expected' \subseteq V
      BY <2>2, <2>3, <2>8
    <3> QED BY <2>2, <3>1, <3>2 DEF ScanState
  <2> QED BY <2>7, <2>8
<1> QED BY <1>2, <1>3, <1>4, <1>5, <1>6, <1>7

LEMMA BqInvariance == BlockqSpec => []BqIInv
<1>1. BqIInv /\ [BlockqNext]_blockqVars => BqIInv'
  <2> SUFFICES ASSUME BqIInv, [BlockqNext]_blockqVars PROVE BqIInv'
    OBVIOUS
  <2>1. CASE UNCHANGED blockqVars
    <3>0. UNCHANGED << status, done, valid, early, given_up, indelible, pc, cur, wpc, wcur, offset, seen, expected >>
      BY <2>1 DEF blockqVars, queue, pvars, wvars, scan
    <3>1. PruneLevel' = PruneLevel /\ DoneLevel' = DoneLevel /\ ValidateLevel' = ValidateLevel
      BY <3>0, LevelsStay
    <3>2. BqTypes' /\ RowsInv'
      BY <3>0, <3>1 DEF BqIInv, BqTypes, Queued, RowsInv, OwnRows, HeldRow, Inserted, DoneLow
    <3>3. NeverValidatedTwice' /\ QueueMatchesValid' /\ NoStrandedBlock'
      BY <3>0, <3>1 DEF BqIInv, NeverValidatedTwice, QueueMatchesValid, NoStrandedBlock
    <3>4. Rows("valid") \subseteq Rows("valid")'
      BY <3>0 DEF Rows
    <3>5. ScanState'
      BY <3>0, <3>2, <3>4, ScanKept DEF BqIInv, scan
    <3> QED BY <3>2, <3>3, <3>5 DEF BqIInv
  <2>2. CASE Prune \/ WitnessPrune
    BY <2>2, PruneAndDoneKeeps DEF Prune, WitnessPrune, pvars, wvars
  <2>3. CASE \/ \E b \in Blocks : EnqueueValidate(b)
             \/ ProcessBlock
    BY <2>2, <2>3, EnqueueValidateKeeps, GetNextValidateObjKeeps, FindPriorBlockKeeps, FutureTimestampKeeps,
       FinishValidateKeeps, ValidObjsInsertKeeps, UpdateObjValidKeeps, RequeueKeeps, ConfirmKeeps DEF ProcessBlock
  <2>4. CASE \/ \E b \in Blocks : WitnessInsert(b)
             \/ WitnessEnter \/ StartScan \/ GetNextValidObj \/ ClockTick
    BY <2>2, <2>4, WitnessInsertKeeps, WitnessEnqueueKeeps, WitnessRequeueKeeps, WitnessConfirmKeeps,
       StartScanKeeps, GetNextValidObjKeeps, ClockTickKeeps DEF WitnessEnter
  <2> QED BY <2>1, <2>3, <2>4 DEF BlockqNext
<1> QED BY <1>1, BqInitIInv, PTL DEF BlockqSpec

(* Blocks pass through the queue while processblock and witness both change it, whatever the tree of     *)
(* blocks: none is left on hold beside its valid prior block, none is validated twice, the queue and     *)
(* ValidObjs agree above the prune level, and the scan by offset returns every row that stays in place   *)
(* (ProcessQGetNextValidateObj, ValidObjsBlockInsert, ProcessQGetNextValidObj).                          *)
THEOREM BlockQueueCorrect == BlockqSpec => []BlockqInv
<1>1. BqIInv => BlockqInv
  <2> SUFFICES ASSUME BqIInv PROVE BlockqInv
    OBVIOUS
  <2>1. BlockqTypeOK
    BY DEF BqIInv, BqTypes, Queued, RowStates, BlockqTypeOK
  <2> QED BY <2>1 DEF BqIInv, ScanState, ScanSeesAll, BlockqInv
<1> QED BY <1>1, BqInvariance, PTL

-----------------------------------------------------------------------------
\* A caller of TxEnqueueValidate has the mutex and a transaction that is not valid
Calling ==
    \A c \in Callers : /\ arg[c] # Nil <=> mutex = c
                       /\ arg[c] # Nil => arg[c] \notin validTxs

\* A worker has a transaction from its row on to FinishTx
Working == \A w \in TxThreads : tpc[w] \in {"validate", "good", "bad"} <=> txOf[w] # Nil

\* AuxInt belongs to a row
AuxOfRow == \A tx \in Txs : txStatus[tx] = "none" => aux[tx] = 0

TqIInv ==
    TxqTypeOK /\ Calling /\ Working /\ AuxOfRow /\ InSync /\ HeldByOne /\ IsFiniteSet(Owed) /\ PendingAccounted

-----------------------------------------------------------------------------
\* What is owed, as pairs of a transaction and a number
LEMMA OwedPairs ==
    /\ \A t, i : <<t, i>> \in Owed <=> t \in Txs /\ i \in 1 .. aux[t]
    /\ \A p \in Owed : \E t \in Txs : \E i \in 1 .. aux[t] : p = <<t, i>>
<1>1. \A p : p \in Owed <=> \E t \in Txs : p \in {t} \X (1 .. aux[t])
  BY DEF Owed
<1> QED BY <1>1

\* A row that a block asks for once more owes one more
LEMMA OwedMore ==
    ASSUME aux \in [Txs -> Nat], NEW tx \in Txs, aux' = [aux EXCEPT ![tx] = aux[tx] + 1], IsFiniteSet(Owed)
    PROVE  IsFiniteSet(Owed)' /\ Cardinality(Owed)' = Cardinality(Owed) + 1
<1> DEFINE new == <<tx, aux[tx] + 1>>
<1>1. \A p : p \in Owed' <=> \E t \in Txs : p \in {t} \X (1 .. aux'[t])
  BY DEF Owed
<1>2. new \notin Owed
  BY OwedPairs
<1>3. Owed' = Owed \cup {new}
  <2>1. ASSUME NEW p \in Owed' PROVE p \in Owed \cup {new}
    <3>1. PICK t \in Txs : p \in {t} \X (1 .. aux'[t])
      BY <1>1, <2>1
    <3>2. PICK i \in 1 .. aux'[t] : p = <<t, i>>
      BY <3>1
    <3>3. CASE t = tx
      BY <3>2, <3>3, OwedPairs
    <3>4. CASE t # tx
      BY <3>2, <3>4, OwedPairs
    <3> QED BY <3>3, <3>4
  <2>2. ASSUME NEW p \in Owed PROVE p \in Owed'
    <3>0. PICK t \in Txs : \E i \in 1 .. aux[t] : p = <<t, i>>
      BY <2>2, OwedPairs
    <3>1. PICK i \in 1 .. aux[t] : p = <<t, i>>
      BY <3>0
    <3>2. i \in 1 .. aux'[t]
      BY <3>1
    <3> QED BY <1>1, <3>1, <3>2
  <2>3. new \in Owed'
    <3>1. aux[tx] + 1 \in 1 .. aux'[tx]
      OBVIOUS
    <3> QED BY <1>1, <3>1
  <2> QED BY <2>1, <2>2, <2>3
<1> HIDE DEF new
<1> QED BY <1>2, <1>3, FS_AddElement

\* A row that is deleted owes nothing any more
LEMMA OwedLess ==
    ASSUME aux \in [Txs -> Nat], NEW tx \in Txs, aux' = [aux EXCEPT ![tx] = 0], IsFiniteSet(Owed)
    PROVE  IsFiniteSet(Owed)' /\ Cardinality(Owed)' = Cardinality(Owed) - aux[tx]
<1> DEFINE part == {tx} \X (1 .. aux[tx])
<1>1. \A p : p \in Owed' <=> \E t \in Txs : p \in {t} \X (1 .. aux'[t])
  BY DEF Owed
<1>2. part \subseteq Owed
  BY DEF Owed
<1>3. Owed' = Owed \ part
  <2>1. ASSUME NEW p \in Owed' PROVE p \in Owed \ part
    <3>1. PICK t \in Txs : p \in {t} \X (1 .. aux'[t])
      BY <1>1, <2>1
    <3>2. PICK i \in 1 .. aux'[t] : p = <<t, i>>
      BY <3>1
    <3>3. t # tx /\ aux'[t] = aux[t]
      BY <3>2
    <3> QED BY <3>2, <3>3, OwedPairs
  <2>2. ASSUME NEW p \in Owed \ part PROVE p \in Owed'
    <3>0. PICK t \in Txs : \E i \in 1 .. aux[t] : p = <<t, i>>
      BY <2>2, OwedPairs
    <3>1. PICK i \in 1 .. aux[t] : p = <<t, i>>
      BY <3>0
    <3>2. t # tx
      BY <2>2, <3>1
    <3>3. i \in 1 .. aux'[t]
      BY <3>1, <3>2
    <3> QED BY <1>1, <3>1, <3>3
  <2> QED BY <2>1, <2>2
<1>4. IsFiniteSet({tx}) /\ Cardinality({tx}) = 1
  BY FS_Singleton
<1>5. IsFiniteSet(1 .. aux[tx]) /\ Cardinality(1 .. aux[tx]) = aux[tx]
  <2>1. 1 \in Int /\ aux[tx] \in Nat
    OBVIOUS
  <2>2. IsFiniteSet(1 .. aux[tx]) /\ Cardinality(1 .. aux[tx]) = IF 1 > aux[tx] THEN 0 ELSE aux[tx] - 1 + 1
    BY <2>1, FS_Interval
  <2>3. (IF 1 > aux[tx] THEN 0 ELSE aux[tx] - 1 + 1) = aux[tx]
    BY <2>1
  <2> QED BY <2>2, <2>3
<1>6. Cardinality(part) = aux[tx]
  <2>1. Cardinality(part) = Cardinality({tx}) * Cardinality(1 .. aux[tx])
    BY <1>4, <1>5, FS_Product
  <2> QED BY <1>4, <1>5, <2>1
<1>7. Owed \cap part = part
  BY <1>2
<1> HIDE DEF part
<1>8. IsFiniteSet(Owed \ part) /\ Cardinality(Owed \ part) = Cardinality(Owed) - Cardinality(Owed \cap part)
  BY FS_Difference
<1> QED BY <1>3, <1>6, <1>7, <1>8

LEMMA OwedSame ==
    ASSUME UNCHANGED aux PROVE Owed' = Owed
BY DEF Owed

\* The queue starts empty
LEMMA TqInitIInv == TxqInit => TqIInv
<1> SUFFICES ASSUME TxqInit PROVE TqIInv
  OBVIOUS
<1> USE TxQueueAssumption DEF TxqInit
<1>1. TxqTypeOK
  <2>1. todo \in Seq(Txs) /\ blocks \in 0 .. MaxBlocks /\ pending \in Nat /\ aux \in [Txs -> Nat]
    OBVIOUS
  <2>2. txShutdown \in BOOLEAN
    OBVIOUS
  <2>3. /\ txStatus \in [Txs -> {"none", "pending", "hold"}] /\ validTxs \subseteq Txs
        /\ mutex \in Callers \cup {Nil} /\ arg \in [Callers -> Txs \cup {Nil}]
        /\ tpc \in [TxThreads -> {"wait", "validate", "good", "bad", "notify"}]
        /\ txOf \in [TxThreads -> Txs \cup {Nil}]
        /\ bpc \in {"idle", "init", "initsleep", "scan", "wait", "sleep", "check"}
    OBVIOUS
  <2> QED BY <2>1, <2>2, <2>3 DEF TxqTypeOK
<1>2. Calling /\ Working /\ AuxOfRow /\ InSync /\ HeldByOne
  BY DEF Calling, Working, AuxOfRow, InSync, HeldByOne, Callers, BlockCaller
<1>3. Owed = {}
  BY OwedPairs
<1>4. IsFiniteSet(Owed) /\ PendingAccounted
  BY <1>3, FS_EmptySet DEF PendingAccounted
<1> QED BY <1>1, <1>2, <1>4 DEF TqIInv

-----------------------------------------------------------------------------
\* TxEnqueueValidate up to the look at ValidObjs
LEMMA CheckValidKeeps ==
    ASSUME TqIInv, NEW c \in Callers, NEW tx \in Txs, CheckValid(c, tx),
           UNCHANGED << txRows, validTxs, pending, workers, bpc, blocks, txShutdown >>,
           todo' \in Seq(Txs)
    PROVE  TqIInv'
<1> USE TxQueueAssumption DEF TqIInv, txRows, callers, workers, CheckValid
<1>1. TxqTypeOK'
  BY DEF TxqTypeOK
<1>2. Calling'
  BY DEF TxqTypeOK, Calling, Callers, BlockCaller
<1>3. Working' /\ AuxOfRow' /\ InSync' /\ HeldByOne'
  BY DEF Working, AuxOfRow, InSync, HeldByOne
<1>4. IsFiniteSet(Owed)' /\ PendingAccounted'
  BY OwedSame DEF PendingAccounted
<1> QED BY <1>1, <1>2, <1>3, <1>4

\* TxEnqueueValidate from ProcessQEnqueueValidate on
LEMMA TxEnqueueKeeps ==
    ASSUME TqIInv, NEW c \in Callers, TxEnqueueValidate(c),
           UNCHANGED << validTxs, workers, block, txShutdown >>
    PROVE  TqIInv'
<1> USE TxQueueAssumption DEF TqIInv, workers, block
<1> DEFINE tx == arg[c]
           is_block_tx == IF c = BlockCaller THEN 1 ELSE 0
<1>1. tx \in Txs /\ tx \notin validTxs /\ mutex = c
  BY DEF TxEnqueueValidate, TxqTypeOK, Calling
<1>2. /\ txStatus' = [txStatus EXCEPT ![tx] = IF txStatus[tx] = "none" THEN "pending" ELSE txStatus[tx]]
      /\ aux' = [aux EXCEPT ![tx] = IF txStatus[tx] = "none" THEN is_block_tx ELSE aux[tx] + is_block_tx]
      /\ pending' = IF txStatus[tx] = "none" THEN pending + is_block_tx ELSE pending
      /\ mutex' = Nil /\ arg' = [arg EXCEPT ![c] = Nil]
  BY DEF TxEnqueueValidate
<1>3. aux' = [aux EXCEPT ![tx] = aux[tx] + is_block_tx] /\ is_block_tx \in {0, 1}
  <2>1. is_block_tx \in {0, 1}
    OBVIOUS
  <2> HIDE DEF is_block_tx
  <2>2. txStatus[tx] = "none" => is_block_tx = aux[tx] + is_block_tx
    BY <1>1, <2>1 DEF AuxOfRow
  <2> HIDE DEF tx
  <2> QED BY <1>2, <2>1, <2>2
<1> HIDE DEF tx
<1>4. TxqTypeOK'
  <2>1. aux' \in [Txs -> Nat]
    BY <1>1, <1>3 DEF TxqTypeOK
  <2>2. pending' \in Nat
    BY <1>2, <1>3 DEF TxqTypeOK
  <2>3. txStatus' \in [Txs -> {"none", "pending", "hold"}]
    BY <1>1, <1>2 DEF TxqTypeOK
  <2> QED BY <1>2, <2>1, <2>2, <2>3 DEF TxqTypeOK
<1>5. Calling'
  BY <1>1, <1>2 DEF TxqTypeOK, Calling, tx, Callers, BlockCaller
<1>6. Working'
  BY DEF Working
<1>7. AuxOfRow' /\ InSync' /\ HeldByOne'
  BY <1>1, <1>2 DEF TxqTypeOK, AuxOfRow, InSync, HeldByOne
<1>8. IsFiniteSet(Owed)' /\ PendingAccounted'
  <2>0. Cardinality(Owed) \in Nat
    BY FS_CardinalityType
  <2>1. CASE is_block_tx = 0
    <3>1. aux' = aux /\ pending' = pending
      BY <1>1, <1>2, <1>3, <2>1 DEF TxqTypeOK
    <3> QED BY <3>1, OwedSame DEF PendingAccounted
  <2>2. CASE is_block_tx = 1
    <3>1. IsFiniteSet(Owed)' /\ Cardinality(Owed)' = Cardinality(Owed) + 1
      BY <1>1, <1>3, <2>2, OwedMore DEF TxqTypeOK
    <3>2. pending' <= pending + 1 /\ pending' \in Nat
      BY <1>2, <2>2 DEF TxqTypeOK
    <3> QED BY <2>0, <3>1, <3>2 DEF PendingAccounted, TxqTypeOK
  <2> QED BY <1>3, <2>1, <2>2
<1> QED BY <1>4, <1>5, <1>6, <1>7, <1>8

\* A worker takes a row
LEMMA TxGetNextKeeps ==
    ASSUME TqIInv, NEW w \in TxThreads, NEW tx \in Txs, TxGetNextValidateObj(w, tx) PROVE TqIInv'
<1> USE TxQueueAssumption DEF TqIInv, callers, block, TxGetNextValidateObj
<1>1. TxqTypeOK'
  BY DEF TxqTypeOK
<1>2. Calling' /\ Working' /\ AuxOfRow' /\ InSync'
  BY DEF TxqTypeOK, Calling, Working, AuxOfRow, InSync
<1>3. HeldByOne'
  BY DEF TxqTypeOK, HeldByOne
<1>4. IsFiniteSet(Owed)' /\ PendingAccounted'
  BY OwedSame DEF PendingAccounted
<1> QED BY <1>1, <1>2, <1>3, <1>4

\* A worker finds a transaction valid or not
LEMMA TxValidateKeeps ==
    ASSUME TqIInv, NEW w \in TxThreads, TxValidate(w) PROVE TqIInv'
<1> USE TxQueueAssumption DEF TqIInv, callers, block, txRows, TxValidate
<1>1. TxqTypeOK'
  BY DEF TxqTypeOK
<1>2. Calling' /\ AuxOfRow' /\ InSync' /\ HeldByOne'
  BY DEF Calling, AuxOfRow, InSync, HeldByOne
<1>3. Working'
  BY DEF TxqTypeOK, Working
<1>4. IsFiniteSet(Owed)' /\ PendingAccounted'
  BY OwedSame DEF PendingAccounted
<1> QED BY <1>1, <1>2, <1>3, <1>4

\* A worker deletes the row and counts down
LEMMA FinishTxKeeps ==
    ASSUME TqIInv, NEW w \in TxThreads, FinishTx(w) PROVE TqIInv'
<1> USE TxQueueAssumption DEF TqIInv, callers, block
<1> DEFINE tx == txOf[w]
<1>1. tx \in Txs /\ tpc[w] \in {"good", "bad"} /\ mutex = Nil
  BY DEF FinishTx, TxqTypeOK, Working
<1>2. /\ validTxs' \subseteq validTxs \cup {tx}
      /\ txStatus' = [txStatus EXCEPT ![tx] = "none"] /\ aux' = [aux EXCEPT ![tx] = 0]
      /\ pending' = IF pending < aux[tx] THEN 0 ELSE pending - aux[tx]
      /\ \E next \in {"notify", "wait"} : tpc' = [tpc EXCEPT ![w] = next]
      /\ txOf' = [txOf EXCEPT ![w] = Nil]
      /\ UNCHANGED << mutex, arg, bpc, todo, blocks, txShutdown >>
  BY DEF FinishTx, CountDown
<1> HIDE DEF tx
<1>3. TxqTypeOK'
  <2>1. aux' \in [Txs -> Nat]
    BY <1>1, <1>2 DEF TxqTypeOK
  <2>2. pending' \in Nat
    BY <1>1, <1>2 DEF TxqTypeOK
  <2>3. txStatus' \in [Txs -> {"none", "pending", "hold"}] /\ validTxs' \subseteq Txs
    BY <1>1, <1>2 DEF TxqTypeOK
  <2>4. tpc' \in [TxThreads -> {"wait", "validate", "good", "bad", "notify"}] /\ txOf' \in [TxThreads -> Txs \cup {Nil}]
    BY <1>2 DEF TxqTypeOK
  <2> QED BY <1>2, <2>1, <2>2, <2>3, <2>4 DEF TxqTypeOK
<1>4. Calling'
  BY <1>1, <1>2 DEF TxqTypeOK, Calling, Callers, BlockCaller
<1>5. Working'
  BY <1>2 DEF TxqTypeOK, Working
<1>6. AuxOfRow' /\ InSync'
  BY <1>1, <1>2 DEF TxqTypeOK, AuxOfRow, InSync
<1>7. HeldByOne'
  BY <1>1, <1>2 DEF TxqTypeOK, HeldByOne, tx
<1>8. IsFiniteSet(Owed)' /\ PendingAccounted'
  <2>0. Cardinality(Owed) \in Nat /\ aux[tx] \in Nat /\ pending \in Nat
    BY <1>1, FS_CardinalityType DEF TxqTypeOK
  <2>1. IsFiniteSet(Owed)' /\ Cardinality(Owed)' = Cardinality(Owed) - aux[tx]
    BY <1>1, <1>2, OwedLess DEF TxqTypeOK
  <2>2. Cardinality(Owed)' \in Nat
    BY <2>1, FS_CardinalityType
  <2> QED BY <1>2, <2>0, <2>1, <2>2 DEF PendingAccounted
<1> QED BY <1>3, <1>4, <1>5, <1>6, <1>7, <1>8

\* The steps of BlockValidate and of shutdown that leave the rows and the workers' transactions alone
LEMMA OthersKeep ==
    ASSUME TqIInv,
           \/ \E w \in TxThreads : Notify(w)
           \/ InitBlockScan \/ EndScan \/ RejectBlock \/ WaitForBlockTxValidation \/ EndBlockValidate
           \/ \E list \in BlockLists : BlockValidate(list)
           \/ \E tx \in Txs : ValidObjsDelete(tx)
           \/ TxStartShutdown \/ Stop
    PROVE  TqIInv'
<1> USE TxQueueAssumption DEF TqIInv, txRows, callers, workers, block
<1>1. UNCHANGED << txStatus, aux, pending, mutex, arg, txOf >> /\ validTxs' \subseteq validTxs
  BY DEF Notify, InitBlockScan, EndScan, RejectBlock, WaitForBlockTxValidation, EndBlockValidate, BlockValidate,
         ValidObjsDelete, TxStartShutdown, Stop, Wait
<1>2. todo' \in Seq(Txs)
  BY DEF TxqTypeOK, Notify, InitBlockScan, EndScan, RejectBlock, WaitForBlockTxValidation, EndBlockValidate,
         BlockValidate, ValidObjsDelete, TxStartShutdown, Stop, Wait
<1>3. blocks' \in 0 .. MaxBlocks
  BY DEF TxqTypeOK, Notify, InitBlockScan, EndScan, RejectBlock, WaitForBlockTxValidation, EndBlockValidate,
         BlockValidate, ValidObjsDelete, TxStartShutdown, Stop, Wait
<1>4. bpc' \in {"idle", "init", "initsleep", "scan", "wait", "sleep", "check"}
  BY DEF TxqTypeOK, Notify, NotifyAll, InitBlockScan, EndScan, RejectBlock, WaitForBlockTxValidation,
         EndBlockValidate, BlockValidate, ValidObjsDelete, TxStartShutdown, Stop, Wait
<1>5. txShutdown' \in BOOLEAN
  BY DEF TxqTypeOK, Notify, InitBlockScan, EndScan, RejectBlock, WaitForBlockTxValidation, EndBlockValidate,
         BlockValidate, ValidObjsDelete, TxStartShutdown, Stop, Wait
<1>6. tpc' = tpc \/ \E w \in TxThreads : tpc[w] = "notify" /\ tpc' = [tpc EXCEPT ![w] = "wait"]
  BY DEF Notify, InitBlockScan, EndScan, RejectBlock, WaitForBlockTxValidation, EndBlockValidate, BlockValidate,
         ValidObjsDelete, TxStartShutdown, Stop, Wait
<1>7. TxqTypeOK'
  <2>1. tpc' \in [TxThreads -> {"wait", "validate", "good", "bad", "notify"}]
    BY <1>6 DEF TxqTypeOK
  <2> QED BY <1>1, <1>2, <1>3, <1>4, <1>5, <2>1 DEF TxqTypeOK
<1>8. Calling' /\ AuxOfRow' /\ InSync' /\ HeldByOne'
  BY <1>1 DEF Calling, AuxOfRow, InSync, HeldByOne
<1>9. Working'
  BY <1>1, <1>6 DEF TxqTypeOK, Working
<1>10. IsFiniteSet(Owed)' /\ PendingAccounted'
  BY <1>1, OwedSame DEF PendingAccounted
<1> QED BY <1>7, <1>8, <1>9, <1>10

LEMMA TqInvariance == TxqSpec => []TqIInv
<1>1. TqIInv /\ [TxqNext]_txqVars => TqIInv'
  <2> SUFFICES ASSUME TqIInv, [TxqNext]_txqVars PROVE TqIInv'
    OBVIOUS
  <2>1. CASE UNCHANGED txqVars
    <3>1. UNCHANGED << txStatus, aux, validTxs, pending, mutex, arg, tpc, txOf, bpc, todo, blocks, txShutdown >>
      BY <2>1 DEF txqVars, txRows, callers, workers, block
    <3>2. Owed' = Owed
      BY <3>1, OwedSame
    <3> QED BY <3>1, <3>2 DEF TqIInv, TxqTypeOK, Calling, Working, AuxOfRow, InSync, HeldByOne, PendingAccounted
  <2>2. ASSUME NEW c \in Submitters, SubmitEnqueue(c) \/ \E tx \in Txs : Submit(c, tx) PROVE TqIInv'
    <3>1. c \in Callers /\ todo \in Seq(Txs)
      BY DEF Callers, TqIInv, TxqTypeOK
    <3> QED BY <2>2, <3>1, TxEnqueueKeeps, CheckValidKeeps DEF SubmitEnqueue, Submit, block
  <2>3. ASSUME NEW w \in TxThreads, TxThreadStep(w) PROVE TqIInv'
    BY <2>3, TxGetNextKeeps, TxValidateKeeps, FinishTxKeeps, OthersKeep DEF TxThreadStep
  <2>4. CASE NextBlockTx
    <3>1. Head(todo) \in Txs /\ Tail(todo) \in Seq(Txs) /\ BlockCaller \in Callers
      BY <2>4 DEF NextBlockTx, TqIInv, TxqTypeOK, Callers
    <3> QED BY <2>4, <3>1, CheckValidKeeps DEF NextBlockTx
  <2>5. CASE BlockTxEnqueue
    <3>1. BlockCaller \in Callers
      BY DEF Callers
    <3> QED BY <2>5, <3>1, TxEnqueueKeeps DEF BlockTxEnqueue
  <2> QED BY <2>1, <2>2, <2>3, <2>4, <2>5, OthersKeep DEF TxqNext, BlockStep
<1> QED BY <1>1, TqInitIInv, PTL DEF TxqSpec

(* Transactions pass through the queue while any number of workers, connections and processblock change  *)
(* it: queue and ValidObjs stay in step, a row has one worker, and block_txs_pending is never more than  *)
(* the rows will take off it (TxEnqueueValidate, ProcessTx::ThreadProc, WaitForBlockTxValidation).       *)
THEOREM TxQueueCorrect == TxqSpec => []TxqInv
<1>1. TqIInv => TxqInv
  BY DEF TqIInv, TxqInv
<1> QED BY <1>1, TqInvariance, PTL

-----------------------------------------------------------------------------
(***************************************************************************)
(* The work counter and the sleeping workers (WorkQueue), for any number   *)
(* of workers, producers and rows.                                         *)
(***************************************************************************)
WorkerPoints == {"fast", "fastundo", "lock", "try", "tryundo", "sleep", "timedsleep", "timedlock",
                 "timedundo", "claimed", "free", "giveback", "ended"}

\* The types of all variables; workers and producers are at points of their own code
WqTypes ==
    /\ pendingRows \in Nat /\ work \in Int /\ timed \in BOOLEAN
    /\ workPc \in [Threads -> WorkerPoints \cup {"idle", "increment"}]
    /\ \A w \in Workers : workPc[w] \in WorkerPoints
    /\ \A p \in Producers : workPc[p] \in {"idle", "increment"}
    /\ queued \in 0 .. MaxRows /\ errors \in 0 .. MaxErrors
    /\ shutdown \in BOOLEAN /\ stopped \in BOOLEAN

\* Who holds work_queue_mutex is at a point of the code that holds it
LockHeld ==
    /\ lock \in Workers \cup {NoThread}
    /\ \A w \in Workers : workPc[w] \in {"try", "tryundo", "timedundo"} <=> lock = w

\* Threads that will count a row or have counted one off
Claims == {t \in Threads : workPc[t] \in {"increment", "claimed", "giveback"}}

\* What the counter is once the transient decrements are put back
Promise == work + Cardinality(Transient)

NotBelowZero == Promise >= 0

Covered == ~shutdown => pendingRows <= Promise + Cardinality(Claims)

\* While there is work some worker neither sleeps nor is about to
SomeoneUp == Promise > 0 => \E w \in Workers : workPc[w] \notin {"sleep", "timedsleep", "tryundo"}

WqIInv == WqTypes /\ LockHeld /\ NotBelowZero /\ Covered /\ SomeoneUp

-----------------------------------------------------------------------------
\* The cardinality of a finite set that an element enters or leaves
LEMMA Enters ==
    ASSUME NEW S, IsFiniteSet(S), NEW x, x \notin S
    PROVE  Cardinality(S \cup {x}) = Cardinality(S) + 1
BY FS_AddElement

LEMMA Leaves ==
    ASSUME NEW S, IsFiniteSet(S), NEW x, x \in S
    PROVE  Cardinality(S \ {x}) = Cardinality(S) - 1
BY FS_RemoveElement

LEMMA CountsFinite ==
    /\ IsFiniteSet(Transient) /\ Cardinality(Transient) \in Nat
    /\ IsFiniteSet(Claims) /\ Cardinality(Claims) \in Nat
<1>1. IsFiniteSet(Threads)
  BY WorkQueueAssumption, FS_Union DEF Threads
<1>2. Transient \in SUBSET Workers /\ Claims \in SUBSET Threads
  BY DEF Transient, Claims
<1>3. IsFiniteSet(Transient) /\ IsFiniteSet(Claims)
  BY <1>1, <1>2, WorkQueueAssumption, FS_Subset
<1> QED BY <1>3, FS_CardinalityType

\* The queue starts empty with all workers awake
LEMMA WqInitIInv == WorkqInit => WqIInv
<1> SUFFICES ASSUME WorkqInit PROVE WqIInv
  OBVIOUS
<1> USE WorkQueueAssumption DEF WorkqInit
<1>1. WqTypes
  <2>1. workPc \in [Threads -> WorkerPoints \cup {"idle", "increment"}]
    BY DEF WorkerPoints
  <2>2. \A w \in Workers : workPc[w] \in WorkerPoints
    BY DEF WorkerPoints, Threads
  <2>3. \A p \in Producers : workPc[p] \in {"idle", "increment"}
    BY DEF Threads
  <2>4. pendingRows \in Nat /\ work \in Int /\ queued \in 0 .. MaxRows /\ errors \in 0 .. MaxErrors
    OBVIOUS
  <2>5. timed \in BOOLEAN /\ shutdown \in BOOLEAN /\ stopped \in BOOLEAN
    OBVIOUS
  <2> QED BY <2>1, <2>2, <2>3, <2>4, <2>5 DEF WqTypes
<1>2. LockHeld
  BY DEF LockHeld, Threads
<1>3. Transient = {} /\ Claims = {}
  BY DEF Transient, Claims, Threads
<1>4. Promise = 0 /\ Cardinality(Claims) = 0
  BY <1>3, FS_EmptySet DEF Promise
<1> QED BY <1>1, <1>2, <1>4 DEF WqIInv, NotBelowZero, Covered, SomeoneUp

-----------------------------------------------------------------------------
\* What a notification does: a thread that sleeps goes for the lock, and nobody else moves but t
LEMMA IncrementMoves ==
    ASSUME WqTypes, LockHeld, NEW t \in Threads, NEW next, IncrementQueuedWork(t, next), t \notin Asleep,
           t \in Workers => next \in WorkerPoints, t \in Producers => next \in {"idle", "increment"}
    PROVE  /\ workPc' \in [Threads -> WorkerPoints \cup {"idle", "increment"}]
           /\ workPc'[t] = next
           /\ \A u \in Threads : u # t =>
                 workPc'[u] = workPc[u] \/ (u \in Asleep /\ workPc'[u] \in {"lock", "timedlock"})
           /\ work <= 0 /\ Asleep # {} => \E u \in Asleep : workPc'[u] \in {"lock", "timedlock"}
<1>1. PICK S \in SUBSET Asleep :
        /\ Cardinality(S) = IF work <= 0 /\ Asleep # {} THEN 1 ELSE 0
        /\ workPc' = [Woken(S) EXCEPT ![t] = next]
  BY DEF IncrementQueuedWork
<1>2. Asleep \in SUBSET Workers /\ t \notin S
  BY DEF Asleep
<1>3. Woken(S) \in [Threads -> WorkerPoints \cup {"idle", "increment"}]
  BY DEF Woken, WqTypes, WorkerPoints
<1>4. \A u \in Threads : Woken(S)[u] = workPc[u] \/ (u \in S /\ Woken(S)[u] \in {"lock", "timedlock"})
  BY DEF Woken
<1>5. \A u \in S : Woken(S)[u] \in {"lock", "timedlock"}
  BY <1>2 DEF Woken, Threads
<1>6. work <= 0 /\ Asleep # {} => \E u \in Asleep : workPc'[u] \in {"lock", "timedlock"}
  <2> SUFFICES ASSUME work <= 0, Asleep # {} PROVE \E u \in Asleep : workPc'[u] \in {"lock", "timedlock"}
    OBVIOUS
  <2>1. IsFiniteSet(S)
    BY <1>2, WorkQueueAssumption, FS_Subset
  <2>2. S # {}
    BY <1>1, FS_EmptySet
  <2>3. PICK u \in S : TRUE
    BY <2>2
  <2> QED BY <1>1, <1>2, <1>3, <1>5, <2>3 DEF Threads
<1>7. workPc' \in [Threads -> WorkerPoints \cup {"idle", "increment"}]
  BY <1>1, <1>3 DEF Threads
<1> QED BY <1>1, <1>2, <1>3, <1>4, <1>6, <1>7

\* IncrementQueuedWork keeps the invariant for whoever has counted a row off or will count one
LEMMA IncrementKeeps ==
    ASSUME WqIInv, NEW t \in Claims, NEW next, IncrementQueuedWork(t, next),
           t \in Workers => next = "fast", t \in Producers => next = "idle",
           UNCHANGED << pendingRows, lock, timed, queued, errors, shutdown, stopped >>
    PROVE  WqIInv'
<1> USE DEF WqIInv
<1>0. t \in Threads /\ t \notin Asleep /\ next \in {"fast", "idle"} /\ lock = NoThread /\ work' = work + 1
  BY DEF Claims, Asleep, IncrementQueuedWork, Threads
<1>1. /\ workPc' \in [Threads -> WorkerPoints \cup {"idle", "increment"}]
      /\ workPc'[t] = next
      /\ \A u \in Threads : u # t =>
            workPc'[u] = workPc[u] \/ (u \in Asleep /\ workPc'[u] \in {"lock", "timedlock"})
      /\ work <= 0 /\ Asleep # {} => \E u \in Asleep : workPc'[u] \in {"lock", "timedlock"}
  <2>1. (t \in Workers => next \in WorkerPoints) /\ (t \in Producers => next \in {"idle", "increment"})
    BY DEF WorkerPoints
  <2> QED BY <1>0, <2>1, IncrementMoves
<1>2. WqTypes'
  <2>1. \A w \in Workers : workPc'[w] \in WorkerPoints
    BY <1>1 DEF WqTypes, WorkerPoints, Threads
  <2>2. \A p \in Producers : workPc'[p] \in {"idle", "increment"}
    BY <1>1, WorkQueueAssumption DEF WqTypes, Threads, Asleep
  <2> QED BY <1>0, <1>1, <2>1, <2>2 DEF WqTypes
<1>3. LockHeld'
  BY <1>0, <1>1, WorkQueueAssumption DEF LockHeld, Threads, Asleep
<1>4. Transient' = Transient
  BY <1>1, <1>0 DEF Transient, Claims, Threads, Asleep
<1>5. Claims' = Claims \ {t}
  BY <1>1, <1>0 DEF Claims, Threads, Asleep
<1>6. Cardinality(Claims') = Cardinality(Claims) - 1
  BY <1>5, CountsFinite, Leaves
<1>7. NotBelowZero' /\ Covered'
  BY <1>0, <1>4, <1>6, CountsFinite DEF NotBelowZero, Covered, Promise, WqTypes
<1>8. SomeoneUp'
  <2>1. CASE work > 0
    <3>1. Promise > 0
      BY <2>1, CountsFinite DEF Promise, WqTypes
    <3>2. PICK w \in Workers : workPc[w] \notin {"sleep", "timedsleep", "tryundo"}
      BY <3>1 DEF SomeoneUp
    <3>3. workPc'[w] \notin {"sleep", "timedsleep", "tryundo"}
      BY <1>0, <1>1, <3>2 DEF Threads, Asleep
    <3> QED BY <3>3 DEF SomeoneUp
  <2>2. CASE work <= 0 /\ Asleep # {}
    BY <1>1, <2>2 DEF SomeoneUp, Asleep
  <2>3. CASE Asleep = {}
    <3>1. PICK w \in Workers : TRUE
      BY WorkQueueAssumption
    <3>2. workPc[w] \notin {"sleep", "timedsleep", "tryundo"}
      BY <1>0, <2>3, WorkQueueAssumption DEF Asleep, LockHeld
    <3>3. workPc'[w] \notin {"sleep", "timedsleep", "tryundo"}
      BY <1>0, <1>1, <3>2 DEF Threads, Asleep
    <3> QED BY <3>3 DEF SomeoneUp
  <2> QED BY <2>1, <2>2, <2>3 DEF WqTypes
<1> QED BY <1>2, <1>3, <1>7, <1>8

\* A producer inserts a row and increments the counter
LEMMA ProducerStep ==
    ASSUME NEW p \in Producers, WqIInv, InsertRow(p) \/ Increment(p) PROVE WqIInv'
<1> USE WorkQueueAssumption DEF Goto
<1>0. WqTypes /\ LockHeld /\ NotBelowZero /\ Covered /\ SomeoneUp
  BY DEF WqIInv
<1>1. CASE InsertRow(p)
  <2>1. WqTypes'
    BY <1>0, <1>1 DEF InsertRow, WqTypes, WorkerPoints, Threads
  <2>2. LockHeld'
    BY <1>0, <1>1 DEF InsertRow, LockHeld, WqTypes, Threads
  <2>3. Transient' = Transient
    BY <1>0, <1>1 DEF InsertRow, Transient, WqTypes, Threads
  <2>4. p \notin Claims /\ Claims' = Claims \cup {p}
    BY <1>0, <1>1 DEF InsertRow, Claims, WqTypes, Threads
  <2>5. Cardinality(Transient') = Cardinality(Transient)
    BY <2>3, CountsFinite, Enters, Leaves
  <2>6. Cardinality(Claims') = Cardinality(Claims) + 1
    BY <2>4, CountsFinite, Enters, Leaves
  <2>7. NotBelowZero' /\ Covered'
    BY <1>0, <1>1, <2>5, <2>6, CountsFinite DEF InsertRow, NotBelowZero, Covered, Promise, WqTypes
  <2>8. SomeoneUp'
    BY <1>0, <1>1, <2>5, CountsFinite DEF InsertRow, SomeoneUp, Promise, LockHeld, WqTypes, Threads
  <2> QED BY <2>1, <2>2, <2>7, <2>8 DEF WqIInv
<1>2. CASE Increment(p)
  <2>1. p \in Claims /\ p \notin Workers
    BY <1>2 DEF Increment, Claims, Threads
  <2> QED BY <1>2, <2>1, IncrementKeeps DEF Increment
<1> QED BY <1>1, <1>2

\* A worker that looks for work, sleeps, and takes rows
LEMMA WorkerKeeps ==
    ASSUME NEW w \in Workers, WqIInv, WorkerStep(w) \/ Timeout(w) PROVE WqIInv'
<1> USE WorkQueueAssumption DEF Goto
<1>0. WqTypes /\ LockHeld /\ NotBelowZero /\ Covered /\ SomeoneUp
  BY DEF WqIInv
<1>1. CASE FastTry(w) /\ work > 0
  <2>1. WqTypes'
    BY <1>0, <1>1 DEF FastTry, FetchSub, WqTypes, WorkerPoints, Threads
  <2>2. LockHeld'
    BY <1>0, <1>1 DEF FastTry, FetchSub, LockHeld, WqTypes, Threads
  <2>3. Transient' = Transient
    BY <1>0, <1>1 DEF FastTry, FetchSub, Transient, WqTypes, Threads
  <2>4. w \notin Claims /\ Claims' = Claims \cup {w}
    BY <1>0, <1>1 DEF FastTry, FetchSub, Claims, WqTypes, Threads
  <2>5. Cardinality(Transient') = Cardinality(Transient)
    BY <2>3, CountsFinite, Enters, Leaves
  <2>6. Cardinality(Claims') = Cardinality(Claims) + 1
    BY <2>4, CountsFinite, Enters, Leaves
  <2>7. NotBelowZero' /\ Covered'
    BY <1>0, <1>1, <2>5, <2>6, CountsFinite DEF FastTry, FetchSub, NotBelowZero, Covered, Promise, WqTypes
  <2>8. SomeoneUp'
    BY <1>0, <1>1, <2>5, CountsFinite DEF FastTry, FetchSub, SomeoneUp, Promise, LockHeld, WqTypes, Threads
  <2> QED BY <2>1, <2>2, <2>7, <2>8 DEF WqIInv
<1>2. CASE FastTry(w) /\ ~(work > 0)
  <2>1. WqTypes'
    BY <1>0, <1>2 DEF FastTry, FetchSub, WqTypes, WorkerPoints, Threads
  <2>2. LockHeld'
    BY <1>0, <1>2 DEF FastTry, FetchSub, LockHeld, WqTypes, Threads
  <2>3. w \notin Transient /\ Transient' = Transient \cup {w}
    BY <1>0, <1>2 DEF FastTry, FetchSub, Transient, WqTypes, Threads
  <2>4. Claims' = Claims
    BY <1>0, <1>2 DEF FastTry, FetchSub, Claims, WqTypes, Threads
  <2>5. Cardinality(Transient') = Cardinality(Transient) + 1
    BY <2>3, CountsFinite, Enters, Leaves
  <2>6. Cardinality(Claims') = Cardinality(Claims)
    BY <2>4, CountsFinite, Enters, Leaves
  <2>7. NotBelowZero' /\ Covered'
    BY <1>0, <1>2, <2>5, <2>6, CountsFinite DEF FastTry, FetchSub, NotBelowZero, Covered, Promise, WqTypes
  <2>8. SomeoneUp'
    BY <1>0, <1>2, <2>5, CountsFinite DEF FastTry, FetchSub, SomeoneUp, Promise, LockHeld, WqTypes, Threads
  <2> QED BY <2>1, <2>2, <2>7, <2>8 DEF WqIInv
<1>3. CASE FastUndo(w)
  <2>1. WqTypes'
    BY <1>0, <1>3 DEF FastUndo, WqTypes, WorkerPoints, Threads
  <2>2. LockHeld'
    BY <1>0, <1>3 DEF FastUndo, LockHeld, WqTypes, Threads
  <2>3. w \in Transient /\ Transient' = Transient \ {w}
    BY <1>0, <1>3 DEF FastUndo, Transient, WqTypes, Threads
  <2>4. Claims' = Claims
    BY <1>0, <1>3 DEF FastUndo, Claims, WqTypes, Threads
  <2>5. Cardinality(Transient') = Cardinality(Transient) - 1
    BY <2>3, CountsFinite, Enters, Leaves
  <2>6. Cardinality(Claims') = Cardinality(Claims)
    BY <2>4, CountsFinite, Enters, Leaves
  <2>7. NotBelowZero' /\ Covered'
    BY <1>0, <1>3, <2>5, <2>6, CountsFinite DEF FastUndo, NotBelowZero, Covered, Promise, WqTypes
  <2>8. SomeoneUp'
    BY <1>0, <1>3, <2>5, CountsFinite DEF FastUndo, SomeoneUp, Promise, LockHeld, WqTypes, Threads
  <2> QED BY <2>1, <2>2, <2>7, <2>8 DEF WqIInv
<1>4. CASE Lock(w)
  <2>1. WqTypes'
    BY <1>0, <1>4 DEF Lock, WqTypes, WorkerPoints, Threads
  <2>2. LockHeld'
    BY <1>0, <1>4 DEF Lock, LockHeld, WqTypes, Threads
  <2>3. Transient' = Transient
    BY <1>0, <1>4 DEF Lock, Transient, WqTypes, Threads
  <2>4. Claims' = Claims
    BY <1>0, <1>4 DEF Lock, Claims, WqTypes, Threads
  <2>5. Cardinality(Transient') = Cardinality(Transient)
    BY <2>3, CountsFinite, Enters, Leaves
  <2>6. Cardinality(Claims') = Cardinality(Claims)
    BY <2>4, CountsFinite, Enters, Leaves
  <2>7. NotBelowZero' /\ Covered'
    BY <1>0, <1>4, <2>5, <2>6, CountsFinite DEF Lock, NotBelowZero, Covered, Promise, WqTypes
  <2>8. SomeoneUp'
    BY <1>0, <1>4, <2>5, CountsFinite DEF Lock, SomeoneUp, Promise, LockHeld, WqTypes, Threads
  <2> QED BY <2>1, <2>2, <2>7, <2>8 DEF WqIInv
<1>5. CASE Try(w) /\ shutdown
  <2>1. WqTypes'
    BY <1>0, <1>5 DEF Try, WqTypes, WorkerPoints, Threads
  <2>2. LockHeld'
    BY <1>0, <1>5 DEF Try, LockHeld, WqTypes, Threads
  <2>3. Transient' = Transient
    BY <1>0, <1>5 DEF Try, Transient, WqTypes, Threads
  <2>4. Claims' = Claims
    BY <1>0, <1>5 DEF Try, Claims, WqTypes, Threads
  <2>5. Cardinality(Transient') = Cardinality(Transient)
    BY <2>3, CountsFinite, Enters, Leaves
  <2>6. Cardinality(Claims') = Cardinality(Claims)
    BY <2>4, CountsFinite, Enters, Leaves
  <2>7. NotBelowZero' /\ Covered'
    BY <1>0, <1>5, <2>5, <2>6, CountsFinite DEF Try, NotBelowZero, Covered, Promise, WqTypes
  <2>8. SomeoneUp'
    BY <1>0, <1>5, <2>5, CountsFinite DEF Try, SomeoneUp, Promise, LockHeld, WqTypes, Threads
  <2> QED BY <2>1, <2>2, <2>7, <2>8 DEF WqIInv
<1>6. CASE Try(w) /\ ~shutdown /\ work > 0
  <2>1. WqTypes'
    BY <1>0, <1>6 DEF Try, FetchSub, WqTypes, WorkerPoints, Threads
  <2>2. LockHeld'
    BY <1>0, <1>6 DEF Try, FetchSub, LockHeld, WqTypes, Threads
  <2>3. Transient' = Transient
    BY <1>0, <1>6 DEF Try, FetchSub, Transient, WqTypes, Threads
  <2>4. w \notin Claims /\ Claims' = Claims \cup {w}
    BY <1>0, <1>6 DEF Try, FetchSub, Claims, WqTypes, Threads
  <2>5. Cardinality(Transient') = Cardinality(Transient)
    BY <2>3, CountsFinite, Enters, Leaves
  <2>6. Cardinality(Claims') = Cardinality(Claims) + 1
    BY <2>4, CountsFinite, Enters, Leaves
  <2>7. NotBelowZero' /\ Covered'
    BY <1>0, <1>6, <2>5, <2>6, CountsFinite DEF Try, FetchSub, NotBelowZero, Covered, Promise, WqTypes
  <2>8. SomeoneUp'
    BY <1>0, <1>6, <2>5, CountsFinite DEF Try, FetchSub, SomeoneUp, Promise, LockHeld, WqTypes, Threads
  <2> QED BY <2>1, <2>2, <2>7, <2>8 DEF WqIInv
<1>7. CASE Try(w) /\ ~shutdown /\ ~(work > 0)
  <2>1. WqTypes'
    BY <1>0, <1>7 DEF Try, FetchSub, WqTypes, WorkerPoints, Threads
  <2>2. LockHeld'
    BY <1>0, <1>7 DEF Try, FetchSub, LockHeld, WqTypes, Threads
  <2>3. w \notin Transient /\ Transient' = Transient \cup {w}
    BY <1>0, <1>7 DEF Try, FetchSub, Transient, WqTypes, Threads
  <2>4. Claims' = Claims
    BY <1>0, <1>7 DEF Try, FetchSub, Claims, WqTypes, Threads
  <2>5. Cardinality(Transient') = Cardinality(Transient) + 1
    BY <2>3, CountsFinite, Enters, Leaves
  <2>6. Cardinality(Claims') = Cardinality(Claims)
    BY <2>4, CountsFinite, Enters, Leaves
  <2>7. NotBelowZero' /\ Covered'
    BY <1>0, <1>7, <2>5, <2>6, CountsFinite DEF Try, FetchSub, NotBelowZero, Covered, Promise, WqTypes
  <2>8. SomeoneUp'
    <3> SUFFICES ASSUME Promise' > 0 PROVE \E v \in Workers : workPc'[v] \notin {"sleep", "timedsleep", "tryundo"}
      BY DEF SomeoneUp
    <3>1. Transient # {}
      BY <1>0, <1>7, <2>5, CountsFinite, FS_EmptySet DEF Try, FetchSub, Promise, WqTypes
    <3>2. PICK v \in Transient : TRUE
      BY <3>1
    <3>3. v \in Workers /\ v # w /\ lock = w
      BY <1>0, <1>7, <3>2 DEF Try, Transient, LockHeld
    <3>4. workPc[v] = "fastundo" /\ workPc'[v] = workPc[v]
      BY <1>0, <1>7, <3>2, <3>3 DEF Try, FetchSub, Transient, LockHeld, WqTypes, Threads
    <3> QED BY <3>3, <3>4
  <2> QED BY <2>1, <2>2, <2>7, <2>8 DEF WqIInv
<1>8. CASE Sleep(w)
  <2>1. WqTypes'
    BY <1>0, <1>8 DEF Sleep, WqTypes, WorkerPoints, Threads
  <2>2. LockHeld'
    BY <1>0, <1>8 DEF Sleep, LockHeld, WqTypes, Threads
  <2>3. w \in Transient /\ Transient' = Transient \ {w}
    BY <1>0, <1>8 DEF Sleep, Transient, WqTypes, Threads
  <2>4. Claims' = Claims
    BY <1>0, <1>8 DEF Sleep, Claims, WqTypes, Threads
  <2>5. Cardinality(Transient') = Cardinality(Transient) - 1
    BY <2>3, CountsFinite, Enters, Leaves
  <2>6. Cardinality(Claims') = Cardinality(Claims)
    BY <2>4, CountsFinite, Enters, Leaves
  <2>7. NotBelowZero' /\ Covered'
    BY <1>0, <1>8, <2>5, <2>6, CountsFinite DEF Sleep, NotBelowZero, Covered, Promise, WqTypes
  <2>8. SomeoneUp'
    BY <1>0, <1>8, <2>5, CountsFinite DEF Sleep, SomeoneUp, Promise, LockHeld, WqTypes, Threads
  <2> QED BY <2>1, <2>2, <2>7, <2>8 DEF WqIInv
<1>9. CASE TimedWake(w) /\ work > 0
  <2>1. WqTypes'
    <3>1. workPc' \in [Threads -> WorkerPoints \cup {"idle", "increment"}] 
      BY <1>0, <1>9 DEF TimedWake, FetchSub, WqTypes, WorkerPoints
    <3>0. work' \in Int
      BY <1>0, <1>9 DEF TimedWake, FetchSub, WqTypes
    <3>2. \A v \in Workers : workPc'[v] \in WorkerPoints
      BY <1>0, <1>9 DEF TimedWake, FetchSub, WqTypes, WorkerPoints, Threads
    <3>3. \A p \in Producers : workPc'[p] \in {"idle", "increment"}
      BY <1>0, <1>9 DEF TimedWake, FetchSub, WqTypes, Threads
    <3>4. timed' \in BOOLEAN
      BY <1>9 DEF TimedWake
    <3> QED BY <1>0, <1>9, <3>0, <3>1, <3>2, <3>3, <3>4 DEF TimedWake, WqTypes
  <2>2. LockHeld'
    BY <1>0, <1>9 DEF TimedWake, FetchSub, LockHeld, WqTypes, Threads
  <2>3. Transient' = Transient
    BY <1>0, <1>9 DEF TimedWake, FetchSub, Transient, WqTypes, Threads
  <2>4. w \notin Claims /\ Claims' = Claims \cup {w}
    BY <1>0, <1>9 DEF TimedWake, FetchSub, Claims, WqTypes, Threads
  <2>5. Cardinality(Transient') = Cardinality(Transient)
    BY <2>3, CountsFinite, Enters, Leaves
  <2>6. Cardinality(Claims') = Cardinality(Claims) + 1
    BY <2>4, CountsFinite, Enters, Leaves
  <2>7. NotBelowZero' /\ Covered'
    BY <1>0, <1>9, <2>5, <2>6, CountsFinite DEF TimedWake, FetchSub, NotBelowZero, Covered, Promise, WqTypes
  <2>8. SomeoneUp'
    BY <1>0, <1>9, <2>5, CountsFinite DEF TimedWake, FetchSub, SomeoneUp, Promise, LockHeld, WqTypes, Threads
  <2> QED BY <2>1, <2>2, <2>7, <2>8 DEF WqIInv
<1>10. CASE TimedWake(w) /\ ~(work > 0)
  <2>1. WqTypes'
    <3>1. workPc' \in [Threads -> WorkerPoints \cup {"idle", "increment"}] 
      BY <1>0, <1>10 DEF TimedWake, FetchSub, WqTypes, WorkerPoints
    <3>0. work' \in Int
      BY <1>0, <1>10 DEF TimedWake, FetchSub, WqTypes
    <3>2. \A v \in Workers : workPc'[v] \in WorkerPoints
      BY <1>0, <1>10 DEF TimedWake, FetchSub, WqTypes, WorkerPoints, Threads
    <3>3. \A p \in Producers : workPc'[p] \in {"idle", "increment"}
      BY <1>0, <1>10 DEF TimedWake, FetchSub, WqTypes, Threads
    <3>4. timed' \in BOOLEAN
      BY <1>10 DEF TimedWake
    <3> QED BY <1>0, <1>10, <3>0, <3>1, <3>2, <3>3, <3>4 DEF TimedWake, WqTypes
  <2>2. LockHeld'
    BY <1>0, <1>10 DEF TimedWake, FetchSub, LockHeld, WqTypes, Threads
  <2>3. w \notin Transient /\ Transient' = Transient \cup {w}
    BY <1>0, <1>10 DEF TimedWake, FetchSub, Transient, WqTypes, Threads
  <2>4. Claims' = Claims
    BY <1>0, <1>10 DEF TimedWake, FetchSub, Claims, WqTypes, Threads
  <2>5. Cardinality(Transient') = Cardinality(Transient) + 1
    BY <2>3, CountsFinite, Enters, Leaves
  <2>6. Cardinality(Claims') = Cardinality(Claims)
    BY <2>4, CountsFinite, Enters, Leaves
  <2>7. NotBelowZero' /\ Covered'
    BY <1>0, <1>10, <2>5, <2>6, CountsFinite DEF TimedWake, FetchSub, NotBelowZero, Covered, Promise, WqTypes
  <2>8. SomeoneUp'
    BY <1>0, <1>10, <2>5, CountsFinite DEF TimedWake, FetchSub, SomeoneUp, Promise, LockHeld, WqTypes, Threads
  <2> QED BY <2>1, <2>2, <2>7, <2>8 DEF WqIInv
<1>11. CASE TimedUndo(w)
  <2>1. WqTypes'
    BY <1>0, <1>11 DEF TimedUndo, WqTypes, WorkerPoints, Threads
  <2>2. LockHeld'
    BY <1>0, <1>11 DEF TimedUndo, LockHeld, WqTypes, Threads
  <2>3. w \in Transient /\ Transient' = Transient \ {w}
    BY <1>0, <1>11 DEF TimedUndo, Transient, WqTypes, Threads
  <2>4. Claims' = Claims
    BY <1>0, <1>11 DEF TimedUndo, Claims, WqTypes, Threads
  <2>5. Cardinality(Transient') = Cardinality(Transient) - 1
    BY <2>3, CountsFinite, Enters, Leaves
  <2>6. Cardinality(Claims') = Cardinality(Claims)
    BY <2>4, CountsFinite, Enters, Leaves
  <2>7. NotBelowZero' /\ Covered'
    BY <1>0, <1>11, <2>5, <2>6, CountsFinite DEF TimedUndo, NotBelowZero, Covered, Promise, WqTypes
  <2>8. SomeoneUp'
    BY <1>0, <1>11, <2>5, CountsFinite DEF TimedUndo, SomeoneUp, Promise, LockHeld, WqTypes, Threads
  <2> QED BY <2>1, <2>2, <2>7, <2>8 DEF WqIInv
<1>12. CASE WorkGetNextValidateObj(w) /\ workPc[w] = "claimed"
  <2>1. WqTypes'
    BY <1>0, <1>12 DEF WorkGetNextValidateObj, WqTypes, WorkerPoints, Threads
  <2>2. LockHeld'
    BY <1>0, <1>12 DEF WorkGetNextValidateObj, LockHeld, WqTypes, Threads
  <2>3. Transient' = Transient
    BY <1>0, <1>12 DEF WorkGetNextValidateObj, Transient, WqTypes, Threads
  <2>4. w \in Claims /\ Claims' = Claims \ {w}
    BY <1>0, <1>12 DEF WorkGetNextValidateObj, Claims, WqTypes, Threads
  <2>5. Cardinality(Transient') = Cardinality(Transient)
    BY <2>3, CountsFinite, Enters, Leaves
  <2>6. Cardinality(Claims') = Cardinality(Claims) - 1
    BY <2>4, CountsFinite, Enters, Leaves
  <2>7. NotBelowZero' /\ Covered'
    <3>1. Cardinality(Claims') \in Nat
      BY <2>4, CountsFinite, FS_RemoveElement, FS_CardinalityType
    <3> QED BY <1>0, <1>12, <2>5, <2>6, <3>1, CountsFinite
            DEF WorkGetNextValidateObj, NotBelowZero, Covered, Promise, WqTypes
  <2>8. SomeoneUp'
    BY <1>0, <1>12, <2>5, CountsFinite DEF WorkGetNextValidateObj, SomeoneUp, Promise, LockHeld, WqTypes,
       Threads
  <2> QED BY <2>1, <2>2, <2>7, <2>8 DEF WqIInv
<1>13. CASE WorkGetNextValidateObj(w) /\ workPc[w] # "claimed"
  <2>1. WqTypes'
    BY <1>0, <1>13 DEF WorkGetNextValidateObj, WqTypes, WorkerPoints, Threads
  <2>2. LockHeld'
    BY <1>0, <1>13 DEF WorkGetNextValidateObj, LockHeld, WqTypes, Threads
  <2>3. Transient' = Transient
    BY <1>0, <1>13 DEF WorkGetNextValidateObj, Transient, WqTypes, Threads
  <2>4. Claims' = Claims
    BY <1>0, <1>13 DEF WorkGetNextValidateObj, Claims, WqTypes, Threads
  <2>5. Cardinality(Transient') = Cardinality(Transient)
    BY <2>3, CountsFinite, Enters, Leaves
  <2>6. Cardinality(Claims') = Cardinality(Claims)
    BY <2>4, CountsFinite, Enters, Leaves
  <2>7. NotBelowZero' /\ Covered'
    BY <1>0, <1>13, <2>5, <2>6, CountsFinite DEF WorkGetNextValidateObj, NotBelowZero, Covered, Promise, WqTypes
  <2>8. SomeoneUp'
    BY <1>0, <1>13, <2>5, CountsFinite DEF WorkGetNextValidateObj, SomeoneUp, Promise, LockHeld, WqTypes,
       Threads
  <2> QED BY <2>1, <2>2, <2>7, <2>8 DEF WqIInv
<1>14. CASE GetNextError(w) /\ workPc[w] = "claimed"
  <2>1. WqTypes'
    BY <1>0, <1>14 DEF GetNextError, WqTypes, WorkerPoints, Threads
  <2>2. LockHeld'
    BY <1>0, <1>14 DEF GetNextError, LockHeld, WqTypes, Threads
  <2>3. Transient' = Transient
    BY <1>0, <1>14 DEF GetNextError, Transient, WqTypes, Threads
  <2>4. Claims' = Claims
    BY <1>0, <1>14 DEF GetNextError, Claims, WqTypes, Threads
  <2>5. Cardinality(Transient') = Cardinality(Transient)
    BY <2>3, CountsFinite, Enters, Leaves
  <2>6. Cardinality(Claims') = Cardinality(Claims)
    BY <2>4, CountsFinite, Enters, Leaves
  <2>7. NotBelowZero' /\ Covered'
    BY <1>0, <1>14, <2>5, <2>6, CountsFinite DEF GetNextError, NotBelowZero, Covered, Promise, WqTypes
  <2>8. SomeoneUp'
    BY <1>0, <1>14, <2>5, CountsFinite DEF GetNextError, SomeoneUp, Promise, LockHeld, WqTypes, Threads
  <2> QED BY <2>1, <2>2, <2>7, <2>8 DEF WqIInv
<1>15. CASE GetNextError(w) /\ workPc[w] # "claimed"
  <2>1. WqTypes'
    BY <1>0, <1>15 DEF GetNextError, WqTypes, WorkerPoints, Threads
  <2>2. LockHeld'
    BY <1>0, <1>15 DEF GetNextError, LockHeld, WqTypes, Threads
  <2>3. Transient' = Transient
    BY <1>0, <1>15 DEF GetNextError, Transient, WqTypes, Threads
  <2>4. w \notin Claims /\ Claims' = Claims \cup {w}
    BY <1>0, <1>15 DEF GetNextError, Claims, WqTypes, Threads
  <2>5. Cardinality(Transient') = Cardinality(Transient)
    BY <2>3, CountsFinite, Enters, Leaves
  <2>6. Cardinality(Claims') = Cardinality(Claims) + 1
    BY <2>4, CountsFinite, Enters, Leaves
  <2>7. NotBelowZero' /\ Covered'
    BY <1>0, <1>15, <2>5, <2>6, CountsFinite DEF GetNextError, NotBelowZero, Covered, Promise, WqTypes
  <2>8. SomeoneUp'
    BY <1>0, <1>15, <2>5, CountsFinite DEF GetNextError, SomeoneUp, Promise, LockHeld, WqTypes, Threads
  <2> QED BY <2>1, <2>2, <2>7, <2>8 DEF WqIInv
<1>16. CASE Timeout(w)
  <2>1. WqTypes'
    BY <1>0, <1>16 DEF Timeout, WqTypes, WorkerPoints, Threads
  <2>2. LockHeld'
    BY <1>0, <1>16 DEF Timeout, LockHeld, WqTypes, Threads
  <2>3. Transient' = Transient
    BY <1>0, <1>16 DEF Timeout, Transient, WqTypes, Threads
  <2>4. Claims' = Claims
    BY <1>0, <1>16 DEF Timeout, Claims, WqTypes, Threads
  <2>5. Cardinality(Transient') = Cardinality(Transient)
    BY <2>3, CountsFinite, Enters, Leaves
  <2>6. Cardinality(Claims') = Cardinality(Claims)
    BY <2>4, CountsFinite, Enters, Leaves
  <2>7. NotBelowZero' /\ Covered'
    BY <1>0, <1>16, <2>5, <2>6, CountsFinite DEF Timeout, NotBelowZero, Covered, Promise, WqTypes
  <2>8. SomeoneUp'
    BY <1>0, <1>16, <2>5, CountsFinite DEF Timeout, SomeoneUp, Promise, LockHeld, WqTypes, Threads
  <2> QED BY <2>1, <2>2, <2>7, <2>8 DEF WqIInv
<1>17. CASE GiveBack(w)
  <2>1. w \in Claims /\ w \notin Producers
    BY <1>17 DEF GiveBack, Claims, Threads
  <2> QED BY <1>17, <2>1, IncrementKeeps DEF GiveBack
<1> QED BY <1>1, <1>2, <1>3, <1>4, <1>5, <1>6, <1>7, <1>8, <1>9, <1>10, <1>11, <1>12, <1>13, <1>14, <1>15, <1>16, <1>17 DEF
   WorkerStep

\* The end of the node: StopQueuedWork wakes all workers under the lock
LEMMA StopKeeps == ASSUME WqIInv, StartShutdown \/ StopQueuedWork PROVE WqIInv'
<1>0. WqTypes /\ LockHeld /\ NotBelowZero /\ Covered /\ SomeoneUp
  BY DEF WqIInv
<1>1. CASE StartShutdown
  BY <1>0, <1>1 DEF StartShutdown, WqIInv, WqTypes, LockHeld, NotBelowZero, Covered, SomeoneUp, Promise,
                    Transient, Claims
<1>2. CASE StopQueuedWork
  <2>1. \A t \in Threads : workPc'[t] = IF t \in Asleep THEN IF workPc[t] = "sleep" THEN "lock" ELSE "timedlock"
                                        ELSE workPc[t]
    BY <1>2 DEF StopQueuedWork, Woken
  <2>2. workPc' \in [Threads -> WorkerPoints \cup {"idle", "increment"}]
    BY <1>0, <1>2 DEF StopQueuedWork, Woken, WqTypes, WorkerPoints
  <2>3. WqTypes'
    <3>1. work' \in Int
      BY <1>2, WorkQueueAssumption DEF StopQueuedWork
    <3>2. \A w \in Workers : workPc'[w] \in WorkerPoints
      BY <1>0, <2>1 DEF WqTypes, WorkerPoints, Threads
    <3>3. \A p \in Producers : workPc'[p] \in {"idle", "increment"}
      BY <1>0, <2>1, WorkQueueAssumption DEF WqTypes, Threads, Asleep
    <3> QED BY <1>0, <1>2, <2>2, <3>1, <3>2, <3>3 DEF StopQueuedWork, WqTypes
  <2>4. LockHeld'
    BY <1>0, <1>2, <2>1 DEF StopQueuedWork, LockHeld, Threads, Asleep
  <2>5. NotBelowZero' /\ Covered'
    <3>1. Transient' \in SUBSET Workers
      BY DEF Transient
    <3>2. Cardinality(Transient') \in Nat
      BY <3>1, WorkQueueAssumption, FS_Subset, FS_CardinalityType
    <3> QED BY <1>0, <1>2, <3>2, WorkQueueAssumption DEF StopQueuedWork, NotBelowZero, Covered, Promise
  <2>6. SomeoneUp'
    <3>1. PICK w \in Workers : TRUE
      BY WorkQueueAssumption
    <3>2. workPc'[w] \notin {"sleep", "timedsleep", "tryundo"}
      BY <1>0, <1>2, <2>1, WorkQueueAssumption DEF StopQueuedWork, Asleep, LockHeld, Threads
    <3> QED BY <3>2 DEF SomeoneUp
  <2> QED BY <2>3, <2>4, <2>5, <2>6 DEF WqIInv
<1> QED BY <1>1, <1>2

LEMMA WqInvariance == WorkqSpec => []WqIInv
<1>1. WqIInv /\ [WorkqNext]_workqVars => WqIInv'
  <2> SUFFICES ASSUME WqIInv, [WorkqNext]_workqVars PROVE WqIInv'
    OBVIOUS
  <2>1. CASE UNCHANGED workqVars
    BY <2>1 DEF workqVars, WqIInv, WqTypes, LockHeld, NotBelowZero, Covered, SomeoneUp, Promise, Transient,
       Claims
  <2> QED BY <2>1, ProducerStep, WorkerKeeps, StopKeeps DEF WorkqNext
<1> QED BY <1>1, WqInitIInv, PTL DEF WorkqSpec

(* The counter of a process queue, decremented without the lock, promises at least the rows there are,   *)
(* and no wakeup is lost: while there is work some worker is awake or notified (WaitForQueuedWork,       *)
(* IncrementQueuedWork, StopQueuedWork).                                                                 *)
THEOREM WorkQueueCorrect == WorkqSpec => []WorkqInv
<1>1. WqIInv => WorkqInv
  <2> SUFFICES ASSUME WqIInv PROVE WorkqInv
    OBVIOUS
  <2>0. WqTypes /\ LockHeld /\ NotBelowZero /\ Covered /\ SomeoneUp
    BY DEF WqIInv
  <2>1. WorkqTypeOK
    BY <2>0 DEF WqTypes, LockHeld, NotBelowZero, Promise, WorkqTypeOK, WorkerPoints, Threads
  <2>2. RowsCovered
    BY <2>0 DEF Covered, Promise, Claims, RowsCovered
  <2>3. NoLostWakeup
    BY <2>0 DEF SomeoneUp, Promise, NoLostWakeup, Asleep
  <2> QED BY <2>1, <2>2, <2>3 DEF WorkqInv
<1> QED BY <1>1, WqInvariance, PTL
=============================================================================
