--------------------------- MODULE ConfirmProofs ----------------------------
(***************************************************************************)
(* Proofs about module Confirm, for any tree of blocks, any thresholds,    *)
(* any set of threads and any number of restarts.  The invariant IInv is   *)
(* shown to hold initially and to be kept by every action; the properties  *)
(* of the database and the refinement of IndelibleLog follow from it.      *)
(***************************************************************************)
EXTENDS Confirm, TLAPS

USE DEF Idle, Inserted, One, Scan, Begin, Mark, Index, Next1, Commit, SetLast, Release, End

-----------------------------------------------------------------------------
\* A block on top of a chain makes a longer chain, with that block as its top
LEMMA ChainExtension ==
    ASSUME NEW S \in SUBSET Blocks, NEW p \in S, NEW b \in Blocks,
           IsChain(S), IsTop(p, S), b # Root,
           PriorOf[b] = p, LevelOf[b] = LevelOf[p] + 1
    PROVE  IsChain(S \cup {b}) /\ IsTop(b, S \cup {b})
BY TreeAssumption DEF IsChain, IsTop

\* The genesis block by itself is a chain
LEMMA RootChain == IsChain({Root}) /\ IsTop(Root, {Root})
BY TreeAssumption DEF IsChain, IsTop

\* A new database holds the genesis block alone, and nobody is writing
LEMMA InitIInv == Init => IInv
<1> SUFFICES ASSUME Init PROVE IInv
  OBVIOUS
<1>1. TypeOK
  <2>1. restarts \in 0 .. MaxRestarts
    BY ThresholdAssumption DEF Init
  <2>2. pc \in [Threads -> Points] /\ have_new \in [Threads -> BOOLEAN]
    BY DEF Init, Points
  <2> QED BY <2>1, <2>2, TreeAssumption DEF Init, TypeOK
<1>2. Locking
  BY NoneAssumption
  DEF Init, Locking, MutexHeld, MutexFree, OneCommit, NoFatalHeld, Writing, Finishing
<1>3. Pending
  BY DEF Init, Pending, NewLastSet, NewLastClear
<1>4. Storage
  BY RootChain, TreeAssumption
  DEF Init, Storage, WrittenChain, AboveDb, LastCommitted, DbIsChain, DbComplete, LastWritten
<1> QED BY <1>1, <1>2, <1>3, <1>4 DEF IInv

-----------------------------------------------------------------------------
(* One lemma per action.  Steps <1>1 to <1>4 are the four parts of IInv.      *)

\* A block newly in ValidObjs is not yet written, committed or marked
LEMMA ValidObjsInsertStep ==
    ASSUME NEW t \in Threads, NEW b \in Blocks, IInv, ValidObjsInsert(t, b) PROVE IInv'
<1>1. TypeOK'
  BY DEF IInv, TypeOK, ValidObjsInsert, Points, Goto, index, flags
<1>2. Locking'
  BY NoneAssumption
  DEF IInv, TypeOK, Locking, MutexHeld, MutexFree, OneCommit, NoFatalHeld, Writing,
      Finishing, Good, ValidObjsInsert, Goto, index, flags
<1>3. Pending'
  BY NoneAssumption
  DEF IInv, TypeOK, Locking, MutexHeld, MutexFree, OneCommit, NoFatalHeld, Pending,
      NewLastSet, NewLastClear, Writing, Finishing, Good, ValidObjsInsert, Goto,
      index, flags
<1>4. Storage'
  BY NoneAssumption, TreeAssumption
  DEF IInv, TypeOK, Locking, MutexHeld, MutexFree, OneCommit, NoFatalHeld, Pending,
      NewLastSet, NewLastClear, Storage, WrittenChain, AboveDb, LastCommitted,
      DbIsChain, DbComplete, LastWritten, InSequence, Writing, Finishing, Good,
      ValidObjsInsert, Goto, index, flags
<1> QED BY <1>1, <1>2, <1>3, <1>4 DEF IInv

\* A fatal error sends the thread home, else it starts with nothing new
LEMMA DoConfirmationsStep ==
    ASSUME NEW t \in Threads, IInv, DoConfirmations(t) PROVE IInv'
<1>1. TypeOK'
  BY TreeAssumption
  DEF IInv, TypeOK, DoConfirmations, Points, Goto, shared, index, flags
<1>2. Locking'
  BY NoneAssumption
  DEF IInv, TypeOK, Locking, MutexHeld, MutexFree, OneCommit, NoFatalHeld, Writing,
      Finishing, Good, DoConfirmations, Goto, shared, index, flags
<1>3. Pending'
  BY NoneAssumption
  DEF IInv, TypeOK, Locking, MutexHeld, MutexFree, OneCommit, NoFatalHeld, Pending,
      NewLastSet, NewLastClear, Writing, Finishing, Good, DoConfirmations, Goto,
      shared, index, flags
<1>4. Storage'
  BY NoneAssumption, TreeAssumption
  DEF IInv, TypeOK, Locking, MutexHeld, MutexFree, OneCommit, NoFatalHeld, Pending,
      NewLastSet, NewLastClear, Storage, WrittenChain, AboveDb, LastCommitted,
      DbIsChain, DbComplete, LastWritten, InSequence, Writing, Finishing, Good,
      DoConfirmations, Goto, shared, index, flags
<1> QED BY <1>1, <1>2, <1>3, <1>4 DEF IInv

\* The scan starts without touching shared state
LEMMA DoConfirmOneStep == ASSUME NEW t \in Threads, IInv, DoConfirmOne(t) PROVE IInv'
<1>1. TypeOK'
  BY TreeAssumption
  DEF IInv, TypeOK, DoConfirmOne, Points, Goto, AfterConfirmOne, shared, index, flags
<1>2. Locking'
  BY NoneAssumption
  DEF IInv, TypeOK, Locking, MutexHeld, MutexFree, OneCommit, NoFatalHeld, Writing,
      Finishing, Good, DoConfirmOne, Goto, AfterConfirmOne, shared, index, flags
<1>3. Pending'
  BY NoneAssumption
  DEF IInv, TypeOK, Locking, MutexHeld, MutexFree, OneCommit, NoFatalHeld, Pending,
      NewLastSet, NewLastClear, Writing, Finishing, Good, DoConfirmOne, Goto,
      AfterConfirmOne, shared, index, flags
<1>4. Storage'
  BY NoneAssumption, TreeAssumption
  DEF IInv, TypeOK, Locking, MutexHeld, MutexFree, OneCommit, NoFatalHeld, Pending,
      NewLastSet, NewLastClear, Storage, WrittenChain, AboveDb, LastCommitted,
      DbIsChain, DbComplete, LastWritten, InSequence, Writing, Finishing, Good,
      DoConfirmOne, Goto, AfterConfirmOne, shared, index, flags
<1> QED BY <1>1, <1>2, <1>3, <1>4 DEF IInv

\* Reading the flag of the prior block changes only the scan
LEMMA ScanBackStep == ASSUME NEW t \in Threads, IInv, ScanBack(t) PROVE IInv'
<1>1. TypeOK'
  BY TreeAssumption DEF IInv, TypeOK, ScanBack, Points, Goto, shared, index, flags
<1>2. Locking'
  BY NoneAssumption
  DEF IInv, TypeOK, Locking, MutexHeld, MutexFree, OneCommit, NoFatalHeld, Writing,
      Finishing, Good, ScanBack, Goto, shared, index, flags
<1>3. Pending'
  BY NoneAssumption
  DEF IInv, TypeOK, Locking, MutexHeld, MutexFree, OneCommit, NoFatalHeld, Pending,
      NewLastSet, NewLastClear, Writing, Finishing, Good, ScanBack, Goto, shared,
      index, flags
<1>4. Storage'
  BY NoneAssumption, TreeAssumption
  DEF IInv, TypeOK, Locking, MutexHeld, MutexFree, OneCommit, NoFatalHeld, Pending,
      NewLastSet, NewLastClear, Storage, WrittenChain, AboveDb, LastCommitted,
      DbIsChain, DbComplete, LastWritten, InSequence, Writing, Finishing, Good,
      ScanBack, Goto, shared, index, flags
<1> QED BY <1>1, <1>2, <1>3, <1>4 DEF IInv

\* A thread goes on to BeginWrite, or leaves with what it has written
LEMMA ScanDoneStep == ASSUME NEW t \in Threads, IInv, ScanDone(t) PROVE IInv'
<1>1. TypeOK'
  BY TreeAssumption
  DEF IInv, TypeOK, ScanDone, Points, Goto, AfterConfirmOne, shared, index, flags,
      Confirmed
<1>2. Locking'
  BY NoneAssumption
  DEF IInv, TypeOK, Locking, MutexHeld, MutexFree, OneCommit, NoFatalHeld, Writing,
      Finishing, Good, ScanDone, Goto, AfterConfirmOne, shared, index, flags,
      Confirmed
<1>3. Pending'
  BY NoneAssumption
  DEF IInv, TypeOK, Locking, MutexHeld, MutexFree, OneCommit, NoFatalHeld, Pending,
      NewLastSet, NewLastClear, Writing, Finishing, Good, ScanDone, Goto,
      AfterConfirmOne, shared, index, flags, Confirmed
<1>4. Storage'
  BY NoneAssumption, TreeAssumption
  DEF IInv, TypeOK, Locking, MutexHeld, MutexFree, OneCommit, NoFatalHeld, Pending,
      NewLastSet, NewLastClear, Storage, WrittenChain, AboveDb, LastCommitted,
      DbIsChain, DbComplete, LastWritten, InSequence, Writing, Finishing, Good,
      ScanDone, Goto, AfterConfirmOne, shared, index, flags, Confirmed
<1> QED BY <1>1, <1>2, <1>3, <1>4 DEF IInv

\* Taking the mutex: no other thread is writing
LEMMA BeginWriteStep == ASSUME NEW t \in Threads, IInv, BeginWrite(t) PROVE IInv'
<1>1. TypeOK'
  BY TreeAssumption DEF IInv, TypeOK, BeginWrite, Points, Goto, shared, index, flags
<1>2. Locking'
  BY NoneAssumption
  DEF IInv, TypeOK, Locking, MutexHeld, MutexFree, OneCommit, NoFatalHeld, Writing,
      Finishing, Good, BeginWrite, Goto, shared, index, flags
<1>3. Pending'
  BY NoneAssumption
  DEF IInv, TypeOK, Locking, MutexHeld, MutexFree, OneCommit, NoFatalHeld, Pending,
      NewLastSet, NewLastClear, Writing, Finishing, Good, BeginWrite, Goto, shared,
      index, flags
<1>4. Storage'
  BY NoneAssumption, TreeAssumption
  DEF IInv, TypeOK, Locking, MutexHeld, MutexFree, OneCommit, NoFatalHeld, Pending,
      NewLastSet, NewLastClear, Storage, WrittenChain, AboveDb, LastCommitted,
      DbIsChain, DbComplete, LastWritten, InSequence, Writing, Finishing, Good,
      BeginWrite, Goto, shared, index, flags
<1> QED BY <1>1, <1>2, <1>3, <1>4 DEF IInv

\* A failed begin leaves the mutex free and stops the node
LEMMA BeginWriteErrorStep ==
    ASSUME NEW t \in Threads, IInv, BeginWriteError(t) PROVE IInv'
<1>1. TypeOK'
  BY TreeAssumption
  DEF IInv, TypeOK, BeginWriteError, Points, Goto, AfterConfirmOne, shared, index,
      flags
<1>2. Locking'
  BY NoneAssumption
  DEF IInv, TypeOK, Locking, MutexHeld, MutexFree, OneCommit, NoFatalHeld, Writing,
      Finishing, Good, BeginWriteError, Goto, AfterConfirmOne, shared, index, flags
<1>3. Pending'
  BY NoneAssumption
  DEF IInv, TypeOK, Locking, MutexHeld, MutexFree, OneCommit, NoFatalHeld, Pending,
      NewLastSet, NewLastClear, Writing, Finishing, Good, BeginWriteError, Goto,
      AfterConfirmOne, shared, index, flags
<1>4. Storage'
  BY NoneAssumption, TreeAssumption
  DEF IInv, TypeOK, Locking, MutexHeld, MutexFree, OneCommit, NoFatalHeld, Pending,
      NewLastSet, NewLastClear, Storage, WrittenChain, AboveDb, LastCommitted,
      DbIsChain, DbComplete, LastWritten, InSequence, Writing, Finishing, Good,
      BeginWriteError, Goto, AfterConfirmOne, shared, index, flags
<1> QED BY <1>1, <1>2, <1>3, <1>4 DEF IInv

\* Under the mutex: leave, report a sequence error, or go on to write
LEMMA MarkForIndelibleStep ==
    ASSUME NEW t \in Threads, IInv, MarkForIndelible(t) PROVE IInv'
<1>1. TypeOK'
  <2>1. CASE scan[t] \in marked
    BY <2>1 DEF IInv, TypeOK, MarkForIndelible, index, Points, AfterConfirmOne, Goto
  <2>2. CASE scan[t] \notin marked /\ InSequence(scan[t])
    BY <2>2 DEF IInv, TypeOK, MarkForIndelible, index, Points, Goto
  <2>3. CASE scan[t] \notin marked /\ ~InSequence(scan[t])
    BY <2>3 DEF IInv, TypeOK, MarkForIndelible, index, Points, AfterConfirmOne, Goto
  <2> QED BY <2>1, <2>2, <2>3
<1>2. Locking'
  BY NoneAssumption
  DEF IInv, TypeOK, Locking, MutexHeld, MutexFree, OneCommit, NoFatalHeld, Writing,
      Finishing, Good, MarkForIndelible, Goto, AfterConfirmOne, shared, index, flags
<1>3. Pending'
  BY NoneAssumption
  DEF IInv, TypeOK, Locking, MutexHeld, MutexFree, OneCommit, NoFatalHeld, Pending,
      NewLastSet, NewLastClear, Writing, Finishing, Good, MarkForIndelible, Goto,
      AfterConfirmOne, shared, index, flags
<1>4. Storage'
  BY NoneAssumption, TreeAssumption
  DEF IInv, TypeOK, Locking, MutexHeld, MutexFree, OneCommit, NoFatalHeld, Pending,
      NewLastSet, NewLastClear, Storage, WrittenChain, AboveDb, LastCommitted,
      DbIsChain, DbComplete, LastWritten, InSequence, Writing, Finishing, Good,
      MarkForIndelible, Goto, AfterConfirmOne, shared, index, flags
<1> QED BY <1>1, <1>2, <1>3, <1>4 DEF IInv

\* The block in sequence extends the chain of committed and written blocks
LEMMA WriteBlockStep == ASSUME NEW t \in Threads, IInv, WriteBlock(t) PROVE IInv'
<1>1. TypeOK'
  BY TreeAssumption
  DEF IInv, TypeOK, WriteBlock, Points, Goto, AfterConfirmOne, shared, index, flags
<1>2. Locking'
  BY NoneAssumption
  DEF IInv, TypeOK, Locking, MutexHeld, MutexFree, OneCommit, NoFatalHeld, Writing,
      Finishing, Good, WriteBlock, Goto, AfterConfirmOne, shared, index, flags
<1>3. Pending'
  BY NoneAssumption
  DEF IInv, TypeOK, Locking, MutexHeld, MutexFree, OneCommit, NoFatalHeld, Pending,
      NewLastSet, NewLastClear, Writing, Finishing, Good, WriteBlock, Goto,
      AfterConfirmOne, shared, index, flags
<1>4. Storage'
  <2> DEFINE b == scan[t]
  <2>1. /\ b \in Blocks /\ b # Root
        /\ \A c \in db : LevelOf[c] < LevelOf[b]
        /\ newlast' = b /\ newlast' # None /\ LastWritten' = b
        /\ dbtx' = dbtx \cup {b}
        /\ UNCHANGED << db, last, fatal, shutdown, scan >>
    BY NoneAssumption
    DEF IInv, TypeOK, Storage, AboveDb, WriteBlock, LastWritten, index, flags
  <2>2. WrittenChain'
    <3> SUFFICES ASSUME Good' PROVE /\ IsChain((db \cup dbtx)')
                                    /\ IsTop(LastWritten', (db \cup dbtx)')
                                    /\ dbtx' \cap partial' = {}
                                    /\ \A n \in dbtx', c \in db' : LevelOf[c] < LevelOf[n]
      BY DEF WrittenChain
    <3>1. Good /\ partial' = partial \ {b}
      BY <2>1 DEF Good, WriteBlock
    <3>2. /\ LastWritten \in db \cup dbtx
          /\ PriorOf[b] = LastWritten /\ LevelOf[b] = LevelOf[LastWritten] + 1
      BY <3>1 DEF IInv, Storage, WrittenChain, AboveDb, InSequence, IsTop, WriteBlock
    <3>3. IsChain(db \cup dbtx \cup {b}) /\ IsTop(b, db \cup dbtx \cup {b})
      BY <2>1, <3>1, <3>2, ChainExtension DEF IInv, TypeOK, Storage, WrittenChain
    <3>4. (db \cup dbtx)' = db \cup dbtx \cup {b}
      BY <2>1
    <3>5. dbtx' \cap partial' = {} /\ \A n \in dbtx', c \in db' : LevelOf[c] < LevelOf[n]
      BY <2>1, <3>1 DEF IInv, Storage, WrittenChain
    <3> QED BY <2>1, <3>3, <3>4, <3>5
  <2>3. AboveDb'
    <3>1. \A u \in Threads : pc'[u] # Index
      BY DEF IInv, TypeOK, Locking, MutexHeld, Writing, WriteBlock, AfterConfirmOne, Goto
    <3> QED BY <2>1, <3>1, TreeAssumption DEF IInv, TypeOK, AboveDb
  <2>4. LastCommitted'
    BY <2>1
    DEF IInv, TypeOK, Locking, MutexHeld, Writing, Finishing, Storage, LastCommitted,
                WriteBlock, AfterConfirmOne, Goto
  <2>5. DbIsChain' /\ DbComplete'
    BY <2>1, TreeAssumption
    DEF IInv, TypeOK, Storage, DbIsChain, DbComplete, WriteBlock, IsChain
  <2> QED BY <2>2, <2>3, <2>4, <2>5 DEF Storage
<1> QED BY <1>1, <1>2, <1>3, <1>4 DEF IInv

\* A failed write is fatal, so what was written is not committed
LEMMA WriteBlockErrorStep ==
    ASSUME NEW t \in Threads, IInv, WriteBlockError(t) PROVE IInv'
<1>1. TypeOK'
  BY TreeAssumption
  DEF IInv, TypeOK, WriteBlockError, Points, Goto, AfterConfirmOne, shared, index,
      flags
<1>2. Locking'
  BY NoneAssumption
  DEF IInv, TypeOK, Locking, MutexHeld, MutexFree, OneCommit, NoFatalHeld, Writing,
      Finishing, Good, WriteBlockError, Goto, AfterConfirmOne, shared, index, flags
<1>3. Pending'
  BY NoneAssumption
  DEF IInv, TypeOK, Locking, MutexHeld, MutexFree, OneCommit, NoFatalHeld, Pending,
      NewLastSet, NewLastClear, Writing, Finishing, Good, WriteBlockError, Goto,
      AfterConfirmOne, shared, index, flags
<1>4. Storage'
  BY NoneAssumption, TreeAssumption
  DEF IInv, TypeOK, Locking, MutexHeld, MutexFree, OneCommit, NoFatalHeld, Pending,
      NewLastSet, NewLastClear, Storage, WrittenChain, AboveDb, LastCommitted,
      DbIsChain, DbComplete, LastWritten, InSequence, Writing, Finishing, Good,
      WriteBlockError, Goto, AfterConfirmOne, shared, index, flags
<1> QED BY <1>1, <1>2, <1>3, <1>4 DEF IInv

\* The error that is not fatal: the blocks written before are still committed
LEMMA ExtractXtxErrorStep ==
    ASSUME NEW t \in Threads, IInv, ExtractXtxError(t) PROVE IInv'
<1>1. TypeOK'
  BY TreeAssumption
  DEF IInv, TypeOK, ExtractXtxError, Points, Goto, AfterConfirmOne, shared, index,
      flags
<1>2. Locking'
  BY NoneAssumption
  DEF IInv, TypeOK, Locking, MutexHeld, MutexFree, OneCommit, NoFatalHeld, Writing,
      Finishing, Good, ExtractXtxError, Goto, AfterConfirmOne, shared, index, flags
<1>3. Pending'
  BY NoneAssumption
  DEF IInv, TypeOK, Locking, MutexHeld, MutexFree, OneCommit, NoFatalHeld, Pending,
      NewLastSet, NewLastClear, Writing, Finishing, Good, ExtractXtxError, Goto,
      AfterConfirmOne, shared, index, flags
<1>4. Storage'
  BY NoneAssumption, TreeAssumption
  DEF IInv, TypeOK, Locking, MutexHeld, MutexFree, OneCommit, NoFatalHeld, Pending,
      NewLastSet, NewLastClear, Storage, WrittenChain, AboveDb, LastCommitted,
      DbIsChain, DbComplete, LastWritten, InSequence, Writing, Finishing, Good,
      ExtractXtxError, Goto, AfterConfirmOne, shared, index, flags
<1> QED BY <1>1, <1>2, <1>3, <1>4 DEF IInv

\* The loop looks for another block with the mutex held
LEMMA ConfirmNextStep == ASSUME NEW t \in Threads, IInv, ConfirmNext(t) PROVE IInv'
<1>1. TypeOK'
  BY TreeAssumption DEF IInv, TypeOK, ConfirmNext, Points, Goto, shared, index, flags
<1>2. Locking'
  BY NoneAssumption
  DEF IInv, TypeOK, Locking, MutexHeld, MutexFree, OneCommit, NoFatalHeld, Writing,
      Finishing, Good, ConfirmNext, Goto, shared, index, flags
<1>3. Pending'
  BY NoneAssumption
  DEF IInv, TypeOK, Locking, MutexHeld, MutexFree, OneCommit, NoFatalHeld, Pending,
      NewLastSet, NewLastClear, Writing, Finishing, Good, ConfirmNext, Goto, shared,
      index, flags
<1>4. Storage'
  BY NoneAssumption, TreeAssumption
  DEF IInv, TypeOK, Locking, MutexHeld, MutexFree, OneCommit, NoFatalHeld, Pending,
      NewLastSet, NewLastClear, Storage, WrittenChain, AboveDb, LastCommitted,
      DbIsChain, DbComplete, LastWritten, InSequence, Writing, Finishing, Good,
      ConfirmNext, Goto, shared, index, flags
<1> QED BY <1>1, <1>2, <1>3, <1>4 DEF IInv

\* The commit moves the written blocks to the database, or shutdown drops them
LEMMA EndWriteCommitStep ==
    ASSUME NEW t \in Threads, IInv, EndWriteCommit(t) PROVE IInv'
<1>1. TypeOK'
  BY TreeAssumption DEF IInv, TypeOK, EndWriteCommit, Points, Goto, shared, index, flags
<1>2. Locking'
  BY NoneAssumption
  DEF IInv, TypeOK, Locking, MutexHeld, MutexFree, OneCommit, NoFatalHeld, Writing,
      Finishing, Good, EndWriteCommit, Goto, shared, index, flags
<1>3. Pending'
  BY NoneAssumption
  DEF IInv, TypeOK, Locking, MutexHeld, MutexFree, OneCommit, NoFatalHeld, Pending,
      NewLastSet, NewLastClear, Writing, Finishing, Good, EndWriteCommit, Goto,
      shared, index, flags
<1>4. Storage'
  <2>1. /\ mutex = t /\ ~fatal /\ newlast # None
        /\ \A u \in Threads : pc'[u] # Index
        /\ LastWritten' = LastWritten
        /\ UNCHANGED << last, newlast, fatal, shutdown, scan, partial >>
    BY DEF IInv, TypeOK, Locking, MutexHeld, NoFatalHeld, Writing, Pending, NewLastSet,
           EndWriteCommit, LastWritten, Goto, index, flags
  <2>2. CASE shutdown
    BY <2>1, <2>2
    DEF IInv, Storage, WrittenChain, AboveDb, LastCommitted, DbIsChain, DbComplete,
        Good,
                      EndWriteCommit
  <2>3. CASE ~shutdown
    <3>1. db' = db \cup dbtx /\ dbtx' = {} /\ (db \cup dbtx)' = db \cup dbtx
      BY <2>3 DEF EndWriteCommit
    <3>2. IsChain(db \cup dbtx) /\ IsTop(LastWritten, db \cup dbtx) /\ dbtx \cap partial = {}
      BY <2>1, <2>3 DEF IInv, Storage, WrittenChain, Good
    <3>3. LastWritten = newlast
      BY <2>1 DEF LastWritten
    <3>4. WrittenChain'
      BY <2>1, <3>1, <3>2 DEF WrittenChain, IsTop
    <3>5. AboveDb'
      BY <2>1, <3>1, <3>2 DEF AboveDb, IsTop
    <3>6. LastCommitted'
      BY <2>1, <2>3, <3>1, <3>2, <3>3 DEF IInv, Storage, LastCommitted, IsTop
    <3>7. DbIsChain' /\ DbComplete'
      BY <2>1, <3>1, <3>2 DEF IInv, Storage, DbIsChain, DbComplete, IsChain
    <3> QED BY <3>4, <3>5, <3>6, <3>7 DEF Storage
  <2> QED BY <2>2, <2>3
<1> QED BY <1>1, <1>2, <1>3, <1>4 DEF IInv

\* A failure before the commit is fatal; the transaction is rolled back later
LEMMA SaveMiningErrorStep ==
    ASSUME NEW t \in Threads, IInv, SaveMiningError(t) PROVE IInv'
<1>1. TypeOK'
  BY TreeAssumption
  DEF IInv, TypeOK, SaveMiningError, Points, Goto, AfterConfirmOne, shared, index,
      flags
<1>2. Locking'
  BY NoneAssumption
  DEF IInv, TypeOK, Locking, MutexHeld, MutexFree, OneCommit, NoFatalHeld, Writing,
      Finishing, Good, SaveMiningError, Goto, AfterConfirmOne, shared, index, flags
<1>3. Pending'
  BY NoneAssumption
  DEF IInv, TypeOK, Locking, MutexHeld, MutexFree, OneCommit, NoFatalHeld, Pending,
      NewLastSet, NewLastClear, Writing, Finishing, Good, SaveMiningError, Goto,
      AfterConfirmOne, shared, index, flags
<1>4. Storage'
  BY NoneAssumption, TreeAssumption
  DEF IInv, TypeOK, Locking, MutexHeld, MutexFree, OneCommit, NoFatalHeld, Pending,
      NewLastSet, NewLastClear, Storage, WrittenChain, AboveDb, LastCommitted,
      DbIsChain, DbComplete, LastWritten, InSequence, Writing, Finishing, Good,
      SaveMiningError, Goto, AfterConfirmOne, shared, index, flags
<1> QED BY <1>1, <1>2, <1>3, <1>4 DEF IInv

\* A failed commit is fatal and gives the mutex back
LEMMA EndWriteErrorStep ==
    ASSUME NEW t \in Threads, IInv, EndWriteError(t) PROVE IInv'
<1>1. TypeOK'
  BY TreeAssumption
  DEF IInv, TypeOK, EndWriteError, Points, Goto, AfterConfirmOne, shared, index, flags
<1>2. Locking'
  BY NoneAssumption
  DEF IInv, TypeOK, Locking, MutexHeld, MutexFree, OneCommit, NoFatalHeld, Writing,
      Finishing, Good, EndWriteError, Goto, AfterConfirmOne, shared, index, flags
<1>3. Pending'
  BY NoneAssumption
  DEF IInv, TypeOK, Locking, MutexHeld, MutexFree, OneCommit, NoFatalHeld, Pending,
      NewLastSet, NewLastClear, Writing, Finishing, Good, EndWriteError, Goto,
      AfterConfirmOne, shared, index, flags
<1>4. Storage'
  BY NoneAssumption, TreeAssumption
  DEF IInv, TypeOK, Locking, MutexHeld, MutexFree, OneCommit, NoFatalHeld, Pending,
      NewLastSet, NewLastClear, Storage, WrittenChain, AboveDb, LastCommitted,
      DbIsChain, DbComplete, LastWritten, InSequence, Writing, Finishing, Good,
      EndWriteError, Goto, AfterConfirmOne, shared, index, flags
<1> QED BY <1>1, <1>2, <1>3, <1>4 DEF IInv

\* LastIndelibleBlock moves to a block that the commit made durable
LEMMA SetLastIndelibleStep ==
    ASSUME NEW t \in Threads, IInv, SetLastIndelible(t) PROVE IInv'
<1>1. TypeOK'
  BY DEF IInv, TypeOK, Pending, NewLastSet, SetLastIndelible, Points, Goto, index, flags
<1>2. Locking'
  BY NoneAssumption
  DEF IInv, TypeOK, Locking, MutexHeld, MutexFree, OneCommit, NoFatalHeld, Writing,
      Finishing, Good, SetLastIndelible, Goto, shared, index, flags
<1>3. Pending'
  BY NoneAssumption
  DEF IInv, TypeOK, Locking, MutexHeld, MutexFree, OneCommit, NoFatalHeld, Pending,
      NewLastSet, NewLastClear, Writing, Finishing, Good, SetLastIndelible, Goto,
      shared, index, flags
<1>4. Storage'
  BY NoneAssumption, TreeAssumption
  DEF IInv, TypeOK, Locking, MutexHeld, MutexFree, OneCommit, NoFatalHeld, Pending,
      NewLastSet, NewLastClear, Storage, WrittenChain, AboveDb, LastCommitted,
      DbIsChain, DbComplete, LastWritten, InSequence, Writing, Finishing, Good,
      SetLastIndelible, Goto, shared, index, flags
<1> QED BY <1>1, <1>2, <1>3, <1>4 DEF IInv

\* The mutex is given back with nothing pending
LEMMA ReleaseMutexStep == ASSUME NEW t \in Threads, IInv, ReleaseMutex(t) PROVE IInv'
<1>1. TypeOK'
  BY TreeAssumption DEF IInv, TypeOK, ReleaseMutex, Points, Goto, shared, index, flags
<1>2. Locking'
  BY NoneAssumption
  DEF IInv, TypeOK, Locking, MutexHeld, MutexFree, OneCommit, NoFatalHeld, Writing,
      Finishing, Good, ReleaseMutex, Goto, shared, index, flags
<1>3. Pending'
  BY NoneAssumption
  DEF IInv, TypeOK, Locking, MutexHeld, MutexFree, OneCommit, NoFatalHeld, Pending,
      NewLastSet, NewLastClear, Writing, Finishing, Good, ReleaseMutex, Goto, shared,
      index, flags
<1>4. Storage'
  BY NoneAssumption, TreeAssumption
  DEF IInv, TypeOK, Locking, MutexHeld, MutexFree, OneCommit, NoFatalHeld, Pending,
      NewLastSet, NewLastClear, Storage, WrittenChain, AboveDb, LastCommitted,
      DbIsChain, DbComplete, LastWritten, InSequence, Writing, Finishing, Good,
      ReleaseMutex, Goto, shared, index, flags
<1> QED BY <1>1, <1>2, <1>3, <1>4 DEF IInv

\* A rollback drops what the thread had written, if it holds the mutex
LEMMA EndWriteRollbackStep ==
    ASSUME NEW t \in Threads, IInv, EndWriteRollback(t) PROVE IInv'
<1>1. TypeOK'
  BY TreeAssumption
  DEF IInv, TypeOK, EndWriteRollback, Points, Goto, shared, index, flags
<1>2. Locking'
  BY NoneAssumption
  DEF IInv, TypeOK, Locking, MutexHeld, MutexFree, OneCommit, NoFatalHeld, Writing,
      Finishing, Good, EndWriteRollback, Goto, shared, index, flags
<1>3. Pending'
  BY NoneAssumption
  DEF IInv, TypeOK, Locking, MutexHeld, MutexFree, OneCommit, NoFatalHeld, Pending,
      NewLastSet, NewLastClear, Writing, Finishing, Good, EndWriteRollback, Goto,
      shared, index, flags
<1>4. Storage'
  BY NoneAssumption, TreeAssumption
  DEF IInv, TypeOK, Locking, MutexHeld, MutexFree, OneCommit, NoFatalHeld, Pending,
      NewLastSet, NewLastClear, Storage, WrittenChain, AboveDb, LastCommitted,
      DbIsChain, DbComplete, LastWritten, InSequence, Writing, Finishing, Good,
      EndWriteRollback, Goto, shared, index, flags
<1> QED BY <1>1, <1>2, <1>3, <1>4 DEF IInv

\* Shutdown may come at any time
LEMMA StartShutdownStep == ASSUME IInv, StartShutdown PROVE IInv'
<1>1. TypeOK'
  BY TreeAssumption DEF IInv, TypeOK, StartShutdown, Points, shared, index, locals
<1>2. Locking'
  BY NoneAssumption
  DEF IInv, TypeOK, Locking, MutexHeld, MutexFree, OneCommit, NoFatalHeld, Writing,
      Finishing, Good, StartShutdown, shared, index, locals
<1>3. Pending'
  BY NoneAssumption
  DEF IInv, TypeOK, Locking, MutexHeld, MutexFree, OneCommit, NoFatalHeld, Pending,
      NewLastSet, NewLastClear, Writing, Finishing, Good, StartShutdown, shared,
      index, locals
<1>4. Storage'
  BY NoneAssumption, TreeAssumption
  DEF IInv, TypeOK, Locking, MutexHeld, MutexFree, OneCommit, NoFatalHeld, Pending,
      NewLastSet, NewLastClear, Storage, WrittenChain, AboveDb, LastCommitted,
      DbIsChain, DbComplete, LastWritten, InSequence, Writing, Finishing, Good,
      StartShutdown, shared, index, locals
<1> QED BY <1>1, <1>2, <1>3, <1>4 DEF IInv

\* After a restart the last indelible block is the top of the database
LEMMA RestartStep == ASSUME IInv, Restart PROVE IInv'
<1>1. TypeOK'
  <2>1. restarts' \in 0 .. MaxRestarts
    BY ThresholdAssumption DEF IInv, TypeOK, Restart
  <2>2. pc' \in [Threads -> Points]
    BY DEF Restart, Points
  <2>3. valid' \subseteq Blocks /\ marked' \subseteq Blocks /\ last' \in Blocks
    BY DEF IInv, TypeOK, Restart, TopBlocks, IsTop
  <2> QED BY <2>1, <2>2, <2>3 DEF IInv, TypeOK, Restart
<1>2. Locking'
  BY NoneAssumption
  DEF IInv, TypeOK, Locking, MutexHeld, MutexFree, OneCommit, NoFatalHeld, Writing,
      Finishing, Good, Restart, locals, TopBlocks, IsTop
<1>3. Pending'
  BY NoneAssumption
  DEF IInv, TypeOK, Locking, MutexHeld, MutexFree, OneCommit, NoFatalHeld, Pending,
      NewLastSet, NewLastClear, Writing, Finishing, Good, Restart, locals, TopBlocks,
      IsTop
<1>4. Storage'
  BY NoneAssumption, TreeAssumption
  DEF IInv, TypeOK, Locking, MutexHeld, MutexFree, OneCommit, NoFatalHeld, Pending,
      NewLastSet, NewLastClear, Storage, WrittenChain, AboveDb, LastCommitted,
      DbIsChain, DbComplete, LastWritten, InSequence, Writing, Finishing, Good,
      Restart, locals, TopBlocks, IsTop
<1> QED BY <1>1, <1>2, <1>3, <1>4 DEF IInv

\* A stuttering step changes nothing IInv speaks of
LEMMA StutterStep == ASSUME IInv, UNCHANGED vars PROVE IInv'
<1>1. TypeOK'
  BY DEF IInv, TypeOK, vars, shared, index, flags, locals
<1>2. Locking'
  BY DEF IInv, Locking, MutexHeld, MutexFree, OneCommit, NoFatalHeld, Writing, Finishing,
      Good, vars, shared, index, flags, locals
<1>3. Pending'
  BY DEF IInv, Pending, NewLastSet, NewLastClear, Good, vars, shared, index, flags,
      locals
<1>4. Storage'
  BY DEF IInv, Storage, WrittenChain, AboveDb, LastCommitted, DbIsChain, DbComplete,
      LastWritten, InSequence, IsTop, Good, vars, shared, index, flags, locals
<1> QED BY <1>1, <1>2, <1>3, <1>4 DEF IInv

\* IInv is kept by every step of the specification
LEMMA NextIInv == IInv /\ [Next]_vars => IInv'
<1> SUFFICES ASSUME IInv, [Next]_vars PROVE IInv'
  OBVIOUS
<1>1. ASSUME NEW t \in Threads, Step(t) PROVE IInv'
  BY <1>1, DoConfirmationsStep, DoConfirmOneStep, ScanBackStep, ScanDoneStep,
     BeginWriteStep, BeginWriteErrorStep, MarkForIndelibleStep, WriteBlockStep,
     WriteBlockErrorStep, ExtractXtxErrorStep, ConfirmNextStep,
     EndWriteCommitStep, SaveMiningErrorStep, EndWriteErrorStep,
     SetLastIndelibleStep, ReleaseMutexStep, EndWriteRollbackStep
  DEF Step
<1>2. ASSUME NEW t \in Threads, NEW b \in Blocks, ValidObjsInsert(t, b) PROVE IInv'
  BY <1>2, ValidObjsInsertStep
<1>3. CASE StartShutdown
  BY <1>3, StartShutdownStep
<1>4. CASE Restart
  BY <1>4, RestartStep
<1>5. CASE UNCHANGED vars
  BY <1>5, StutterStep
<1> QED BY <1>1, <1>2, <1>3, <1>4, <1>5 DEF Next

-----------------------------------------------------------------------------
\* IInv holds throughout, whatever the threads, errors, shutdowns and restarts
THEOREM Invariance == Spec => []IInv
<1>1. Init => IInv
  BY InitIInv
<1>2. IInv /\ [Next]_vars => IInv'
  BY NextIInv
<1> QED BY <1>1, <1>2, PTL DEF Spec

\* Every variable keeps its type
THEOREM TypeCorrect == Spec => []TypeOK
<1>1. IInv => TypeOK
  BY DEF IInv
<1> QED BY <1>1, Invariance, PTL

\* The committed blocks are one gapless chain, at every moment and after every restart
THEOREM DatabaseIsChain == Spec => []DbIsChain
<1>1. IInv => DbIsChain
  BY DEF IInv, Storage
<1> QED BY <1>1, Invariance, PTL

\* No block is committed with some of its transactions not indexed
THEOREM DatabaseComplete == Spec => []DbComplete
<1>1. IInv => DbComplete
  BY DEF IInv, Storage
<1> QED BY <1>1, Invariance, PTL

\* Before shutdown, LastIndelibleBlock is in the committed database
THEOREM LastIndelibleCommitted == Spec => []LastNotAhead
<1>1. IInv => LastNotAhead
  BY DEF IInv, Storage, LastCommitted, LastNotAhead
<1> QED BY <1>1, Invariance, PTL

\* The two CCASSERTs on m_new_indelible_block cannot fail
THEOREM AssertionsHold == Spec => []NewIndelibleSet
<1>1. IInv => NewIndelibleSet
  BY DEF IInv, Pending, NewLastSet, NewIndelibleSet
<1> QED BY <1>1, Invariance, PTL

(* Only a commit changes the database, and it appends                        *)
LEMMA StepAppends == IInv /\ [Next]_vars => [Log!Append]_db
<1> SUFFICES ASSUME IInv, [Next]_vars PROVE Log!Append \/ db' = db
  OBVIOUS
<1>1. ASSUME NEW t \in Threads, EndWriteCommit(t) PROVE Log!Append \/ db' = db
  <2>1. CASE shutdown
    BY <1>1, <2>1 DEF EndWriteCommit
  <2>2. CASE ~shutdown
    <3>1. Good
      BY <1>1, <2>2 DEF IInv, Locking, NoFatalHeld, Good, EndWriteCommit
    <3>2. IsChain(db \cup dbtx) /\ \A n \in dbtx, b \in db : LevelOf[b] < LevelOf[n]
      BY <3>1 DEF IInv, Storage, WrittenChain
    <3>3. dbtx \in SUBSET (Blocks \ db)
      BY <3>2, TreeAssumption DEF IInv, TypeOK
    <3>4. db' = db \cup dbtx
      BY <1>1, <2>2 DEF EndWriteCommit
    <3> QED BY <3>2, <3>3, <3>4 DEF Log!Append, Log!IsChain, IsChain
  <2> QED BY <2>1, <2>2
<1>2. ASSUME NEW t \in Threads, Step(t), ~EndWriteCommit(t) PROVE db' = db
  BY <1>2 DEF Step, DoConfirmations, DoConfirmOne, ScanBack, ScanDone, BeginWrite,
     BeginWriteError, MarkForIndelible, WriteBlock, WriteBlockError, ExtractXtxError,
     ConfirmNext, SaveMiningError, EndWriteError, SetLastIndelible,
     ReleaseMutex, EndWriteRollback, shared, index
<1>3. ASSUME NEW t \in Threads, NEW b \in Blocks, ValidObjsInsert(t, b) PROVE db' = db
  BY <1>3 DEF ValidObjsInsert
<1>4. CASE StartShutdown \/ Restart \/ UNCHANGED vars
  BY <1>4 DEF StartShutdown, Restart, vars, shared, index
<1> QED BY <1>1, <1>2, <1>3, <1>4 DEF Next

\* The node's database implements the append-only log of blocks
THEOREM Refinement == Spec => ImplementsLog
<1>1. Init => Log!LogInit
  BY DEF Init, Log!LogInit
<1>2. IInv /\ [Next]_vars => [Log!Append]_db
  BY StepAppends
<1> QED BY <1>1, <1>2, Invariance, PTL DEF Spec, ImplementsLog, Log!LogSpec
=============================================================================
