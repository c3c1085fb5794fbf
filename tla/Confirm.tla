------------------------------ MODULE Confirm -------------------------------
(***************************************************************************)
(* Making blocks indelible inside one node (blockchain.cpp).  Two threads, *)
(* processblock and witness, insert valid blocks and run DoConfirmations   *)
(* at the same time.  The scan for a block to confirm takes no lock; the   *)
(* database transaction runs under Persistent_db_write_mutex.  The node    *)
(* may be told to shut down, may meet a database error, may be killed, and *)
(* is restarted from what the database had committed.                      *)
(***************************************************************************)
EXTENDS BlockTree, FiniteSets

CONSTANTS
    SkipOf,         \* SkipOf[b]: auxp->skip
    NSeqConfSigs,   \* auxp->blockchain_params.nseqconfsigs
    NSkipConfSigs,  \* auxp->blockchain_params.nskipconfsigs
    NConfSigs,      \* number of blocks RestoreLastBlocks reads back
    Threads,        \* processblock and witness
    None,           \* a null SmartBuf, and a mutex nobody holds
    DbErrors,       \* BOOLEAN: may a database call fail
    MaxRestarts     \* bound: number of restarts

ASSUME NoneAssumption == None \notin Blocks /\ None \notin Threads

ASSUME ThresholdAssumption ==
    /\ SkipOf \in [Blocks -> Nat]
    /\ NSeqConfSigs \in Nat \ {0} /\ NSkipConfSigs \in Nat
    /\ NConfSigs \in Nat \ {0} /\ MaxRestarts \in Nat /\ DbErrors \in BOOLEAN

VARIABLES
    valid,      \* blocks in ValidObjs
    marked,     \* blocks with auxp->marked_for_indelible set
    last,       \* m_last_indelible_block
    newlast,    \* m_new_indelible_block
    mutex,      \* the thread holding Persistent_db_write_mutex, or None
    db,         \* blocks committed to the persistent database
    dbtx,       \* blocks inserted by the open write transaction
    partial,    \* blocks written with only some of their transactions indexed
    stray,      \* blocks not written, with rows of IndexTxs in the database
    straytx,    \* the same, in the open write transaction
    fatal,      \* m_have_fatal_error
    shutdown,   \* g_shutdown
    restarts,   \* number of restarts so far
    pc,         \* pc[t]: where thread t is
    newobj,     \* newobj[t]: argument of DoConfirmations
    scan,       \* scan[t]: lastobj of DoConfirmOne
    have_new    \* have_new[t]: local of DoConfirmationLoop

index == << partial, stray, straytx >>
shared == << valid, marked, last, newlast, mutex, db, dbtx, index >>
flags == << fatal, shutdown, restarts >>
locals == << pc, newobj, scan, have_new >>
vars == << shared, flags, locals >>

\* program points, in the order of the code
Idle     == "idle"      \* outside ValidObjsBlockInsert
Inserted == "inserted"  \* ValidObjsInsert done, DoConfirmations not yet called
One      == "one"       \* entry of DoConfirmOne
Scan     == "scan"      \* walking back over unmarked blocks
Begin    == "begin"     \* SetNewlyIndelibleBlock, in BeginWrite
Mark     == "mark"      \* mutex held, marked_for_indelible to be tested
Index    == "index"     \* block marked and in sequence, to be written
Next1    == "next"      \* DoConfirmOne returned false: try the next block
Commit   == "commit"    \* SaveMining done, in EndWrite(true)
SetLast  == "setlast"   \* EndWrite(true) returned 0
Release  == "release"   \* SetLastIndelible done
End      == "end"       \* DoConfirmationLoop returned true, in EndWrite(false)

Points == {Idle, Inserted, One, Scan, Begin, Mark, Index, Next1, Commit,
           SetLast, Release, End}

(* Types: the flags of BlockChain, the database and the two threads' places  *)
(* in DoConfirmations; LastIndelibleBlock is always set.                     *)
TypeOK ==
    /\ valid \subseteq Blocks /\ marked \subseteq Blocks
    /\ last \in Blocks /\ newlast \in Blocks \cup {None}
    /\ mutex \in Threads \cup {None}
    /\ db \subseteq Blocks /\ dbtx \subseteq Blocks
    /\ partial \subseteq Blocks /\ stray \subseteq Blocks /\ straytx \subseteq Blocks
    /\ fatal \in BOOLEAN /\ shutdown \in BOOLEAN
    /\ restarts \in 0 .. MaxRestarts
    /\ pc \in [Threads -> Points]
    /\ newobj \in [Threads -> Blocks] /\ scan \in [Threads -> Blocks]
    /\ have_new \in [Threads -> BOOLEAN]

\* BlockChain::Init has run on a new database: the genesis block is indelible
Init ==
    /\ valid = {Root} /\ marked = {Root}
    /\ last = Root /\ newlast = None
    /\ mutex = None
    /\ db = {Root} /\ dbtx = {} /\ partial = {} /\ stray = {} /\ straytx = {}
    /\ fatal = FALSE /\ shutdown = FALSE /\ restarts = 0
    /\ pc = [t \in Threads |-> Idle]
    /\ newobj = [t \in Threads |-> Root] /\ scan = [t \in Threads |-> Root]
    /\ have_new = [t \in Threads |-> FALSE]

Goto(t, point) == pc' = [pc EXCEPT ![t] = point]

-----------------------------------------------------------------------------
(* ProcessBlock::ValidObjsBlockInsert: a block on a valid prior block        *)
(* becomes visible to the other thread before it is offered to               *)
(* DoConfirmations.                                                          *)
ValidObjsInsert(t, b) ==
    /\ pc[t] = Idle
    /\ ~shutdown
    /\ b \notin valid /\ PriorOf[b] \in valid
    /\ valid' = valid \cup {b}
    /\ newobj' = [newobj EXCEPT ![t] = b]
    /\ Goto(t, Inserted)
    /\ UNCHANGED << marked, last, newlast, mutex, db, dbtx, index, flags, scan, have_new >>

DoConfirmations(t) ==
    /\ pc[t] = Inserted
    /\ have_new' = [have_new EXCEPT ![t] = FALSE]
    /\ Goto(t, IF fatal THEN Idle ELSE One)
    /\ UNCHANGED << shared, flags, newobj, scan >>

(* The tests of DoConfirmationLoop after DoConfirmOne returned rc: give up   *)
(* on a fatal error or shutdown, stop on true, else try the next block.      *)
AfterConfirmOne(t, rc) ==
    Goto(t, IF fatal' \/ shutdown THEN End
            ELSE IF ~rc           THEN Next1
            ELSE IF have_new[t]   THEN Commit
            ELSE End)

DoConfirmOne(t) ==
    /\ pc[t] = One
    /\ UNCHANGED << shared, flags, newobj, have_new >>
    /\ IF newobj[t] \in marked
         THEN AfterConfirmOne(t, TRUE) /\ UNCHANGED scan
         ELSE Goto(t, Scan) /\ scan' = [scan EXCEPT ![t] = newobj[t]]

\* One step of the walk: the flag of the prior block is read without a lock
ScanBack(t) ==
    /\ pc[t] = Scan /\ ~shutdown
    /\ scan[t] # Root /\ PriorOf[scan[t]] \notin marked
    /\ scan' = [scan EXCEPT ![t] = PriorOf[scan[t]]]
    /\ UNCHANGED << shared, flags, pc, newobj, have_new >>

Confirmed(new, b) ==
    LET nconfsigs == LevelOf[new] + 1 - LevelOf[b]
    IN  /\ nconfsigs >= NSeqConfSigs
        /\ SkipOf[b] > 0 => nconfsigs >= NSkipConfSigs

ScanDone(t) ==
    /\ pc[t] = Scan
    /\ shutdown \/ scan[t] = Root \/ PriorOf[scan[t]] \in marked
    /\ UNCHANGED << shared, flags, newobj, scan, have_new >>
    /\ IF shutdown \/ ~Confirmed(newobj[t], scan[t])
         THEN AfterConfirmOne(t, TRUE)
         ELSE Goto(t, Begin)

-----------------------------------------------------------------------------
\* BeginWrite: take the mutex, or keep it when this thread has it already
BeginWrite(t) ==
    /\ pc[t] = Begin
    /\ mutex \in {None, t}
    /\ mutex' = t
    /\ Goto(t, Mark)
    /\ UNCHANGED << valid, marked, last, newlast, db, dbtx, index, flags, newobj, scan, have_new >>

\* The begin statement fails: the mutex is given back and the error is fatal
BeginWriteError(t) ==
    /\ DbErrors
    /\ pc[t] = Begin
    /\ mutex = None
    /\ fatal' = TRUE
    /\ AfterConfirmOne(t, TRUE)
    /\ UNCHANGED << shared, shutdown, restarts, newobj, scan, have_new >>

\* the block that must be the prior of the next one: written or committed last
LastWritten == IF newlast # None THEN newlast ELSE last

\* Mutant: no check of the level and the prior block
BuggyInSequence(b) == b \in Blocks

InSequence(b) ==
    LevelOf[b] = LevelOf[LastWritten] + 1 /\ PriorOf[b] = LastWritten

\* Mutant: marked_for_indelible is not tested again under the mutex
BuggyMarkForIndelible(t) ==
    /\ pc[t] = Mark
    /\ marked' = marked \cup {scan[t]}
    /\ IF InSequence(scan[t])
         THEN UNCHANGED fatal /\ Goto(t, Index)
         ELSE fatal' = TRUE /\ AfterConfirmOne(t, TRUE)
    /\ UNCHANGED << valid, last, newlast, mutex, db, dbtx, index, shutdown, restarts,
                    newobj, scan, have_new >>

(* SetNewlyIndelibleBlock: leave when another thread was first; otherwise    *)
(* mark the block, which the other thread's scan sees at once, and check     *)
(* that it follows the last one.                                             *)
MarkForIndelible(t) ==
    /\ pc[t] = Mark
    /\ UNCHANGED << valid, last, newlast, mutex, db, dbtx, index, shutdown, restarts,
                    newobj, scan, have_new >>
    /\ IF scan[t] \in marked
         THEN /\ UNCHANGED << marked, fatal >>
              /\ AfterConfirmOne(t, TRUE)
         ELSE /\ marked' = marked \cup {scan[t]}
              /\ IF InSequence(scan[t])
                   THEN UNCHANGED fatal /\ Goto(t, Index)
                   ELSE fatal' = TRUE /\ AfterConfirmOne(t, TRUE)

\* Mutant: LastIndelibleBlock is moved before the commit
BuggyWriteBlock(t) ==
    /\ pc[t] = Index
    /\ dbtx' = dbtx \cup {scan[t]}
    /\ partial' \in {partial \ {scan[t]}} \cup (IF shutdown THEN {partial \cup {scan[t]}} ELSE {})
    /\ newlast' = scan[t] /\ last' = scan[t]
    /\ UNCHANGED << valid, marked, mutex, db, stray, straytx, flags, newobj, scan, have_new >>
    /\ AfterConfirmOne(t, FALSE)

\* Mutant: an error of IndexTxs on one transaction is ignored
LenientWriteBlock(t) ==
    /\ pc[t] = Index
    /\ dbtx' = dbtx \cup {scan[t]}
    /\ partial' \in {partial \ {scan[t]}, partial \cup {scan[t]}}
    /\ newlast' = scan[t]
    /\ UNCHANGED << valid, marked, last, mutex, db, stray, straytx, flags, newobj, scan, have_new >>
    /\ AfterConfirmOne(t, FALSE)

(* The rest of SetNewlyIndelibleBlock: IndexTxs, which stops between two     *)
(* transactions when g_shutdown is set, then the writes up to                *)
(* BlockchainInsert and the block's aux parameters.  The serial numbers a    *)
(* stray block left behind would be refused by SerialnumInsert.              *)
WriteBlock(t) ==
    /\ pc[t] = Index
    /\ scan[t] \notin stray
    /\ dbtx' = dbtx \cup {scan[t]}
    /\ partial' \in {partial \ {scan[t]}} \cup (IF shutdown THEN {partial \cup {scan[t]}} ELSE {})
    /\ newlast' = scan[t]
    /\ UNCHANGED << valid, marked, last, mutex, db, stray, straytx, flags, newobj, scan, have_new >>
    /\ AfterConfirmOne(t, FALSE)

WriteBlockError(t) ==
    /\ DbErrors \/ scan[t] \in stray
    /\ pc[t] = Index
    /\ fatal' = TRUE
    /\ AfterConfirmOne(t, TRUE)
    /\ UNCHANGED << shared, shutdown, restarts, newobj, scan, have_new >>

(* IndexTxs returns true when ExtractXtx cannot read a match, and that is    *)
(* the one error that is not made fatal: the rows written for the block's    *)
(* earlier transactions stay in the open transaction.                        *)
ExtractXtxError(t) ==
    /\ DbErrors
    /\ pc[t] = Index
    /\ straytx' \in {straytx, straytx \cup {scan[t]}}
    /\ UNCHANGED << valid, marked, last, newlast, mutex, db, dbtx, partial, stray, flags,
                    newobj, scan, have_new >>
    /\ AfterConfirmOne(t, TRUE)

ConfirmNext(t) ==
    /\ pc[t] = Next1
    /\ have_new' = [have_new EXCEPT ![t] = TRUE]
    /\ Goto(t, One)
    /\ UNCHANGED << shared, flags, newobj, scan >>

-----------------------------------------------------------------------------
\* Mutant: EndWrite(true) releases the mutex after a commit too
ReleasingEndWriteCommit(t) ==
    /\ pc[t] = Commit
    /\ dbtx' = {} /\ straytx' = {} /\ mutex' = None
    /\ db' = IF shutdown THEN db ELSE db \cup dbtx
    /\ Goto(t, SetLast)
    /\ UNCHANGED << valid, marked, last, newlast, partial, stray, flags, newobj, scan, have_new >>

(* EndWrite(true): with g_shutdown set the transaction is rolled back and    *)
(* the mutex released, yet the result is 0 as after a commit.                *)
EndWriteCommit(t) ==
    /\ pc[t] = Commit
    /\ dbtx' = {} /\ straytx' = {}
    /\ IF shutdown
         THEN mutex' = None /\ UNCHANGED << db, stray >>
         ELSE db' = db \cup dbtx /\ stray' = stray \cup straytx /\ UNCHANGED mutex
    /\ Goto(t, SetLast)
    /\ UNCHANGED << valid, marked, last, newlast, partial, flags, newobj, scan, have_new >>

SaveMiningError(t) ==
    /\ DbErrors
    /\ pc[t] = Commit
    /\ fatal' = TRUE
    /\ Goto(t, End)
    /\ UNCHANGED << shared, shutdown, restarts, newobj, scan, have_new >>

\* The commit fails: SQLite has rolled back and EndWrite releases the mutex
EndWriteError(t) ==
    /\ DbErrors
    /\ pc[t] = Commit
    /\ fatal' = TRUE
    /\ dbtx' = {} /\ straytx' = {} /\ mutex' = None
    /\ Goto(t, End)
    /\ UNCHANGED << valid, marked, last, newlast, db, partial, stray, shutdown, restarts,
                    newobj, scan, have_new >>

\* Mutant: m_new_indelible_block is cleared before it is copied
BuggySetLastIndelible(t) ==
    /\ pc[t] = SetLast
    /\ newlast' = None
    /\ last' = newlast'
    /\ Goto(t, Release)
    /\ UNCHANGED << valid, marked, mutex, db, dbtx, index, flags, newobj, scan, have_new >>

SetLastIndelible(t) ==
    /\ pc[t] = SetLast
    /\ last' = newlast
    /\ newlast' = None
    /\ Goto(t, Release)
    /\ UNCHANGED << valid, marked, mutex, db, dbtx, index, flags, newobj, scan, have_new >>

ReleaseMutex(t) ==
    /\ pc[t] = Release
    /\ mutex' = IF mutex = t THEN None ELSE mutex
    /\ Goto(t, Idle)
    /\ UNCHANGED << valid, marked, last, newlast, db, dbtx, index, flags, newobj, scan, have_new >>

\* Mutant: the transaction is rolled back and the mutex kept
BuggyEndWriteRollback(t) ==
    /\ pc[t] = End
    /\ dbtx' = IF mutex = t THEN {} ELSE dbtx
    /\ straytx' = IF mutex = t THEN {} ELSE straytx
    /\ Goto(t, Idle)
    /\ UNCHANGED << valid, marked, last, newlast, mutex, db, partial, stray, flags, newobj, scan, have_new >>

\* DoConfirmations after the loop returned true: EndWrite(false)
EndWriteRollback(t) ==
    /\ pc[t] = End
    /\ IF mutex = t
         THEN dbtx' = {} /\ straytx' = {} /\ mutex' = None
         ELSE UNCHANGED << dbtx, straytx, mutex >>
    /\ Goto(t, Idle)
    /\ UNCHANGED << valid, marked, last, newlast, db, partial, stray, flags, newobj, scan, have_new >>

-----------------------------------------------------------------------------
StartShutdown ==
    /\ ~shutdown
    /\ shutdown' = TRUE
    /\ UNCHANGED << shared, fatal, restarts, locals >>

\* the NConfSigs top blocks of the database
TopBlocks == {b \in db : Cardinality({c \in db : LevelOf[c] > LevelOf[b]}) < NConfSigs}

\* BlockChain::Init and RestoreLastBlocks after the process ended at any point
Restart ==
    /\ restarts < MaxRestarts
    /\ restarts' = restarts + 1
    /\ \E top \in db :
         /\ IsTop(top, db)
         /\ valid' = {top}
         /\ last' = top
    /\ marked' = TopBlocks
    /\ newlast' = None /\ mutex' = None /\ dbtx' = {} /\ straytx' = {}
    /\ fatal' = FALSE /\ shutdown' = FALSE
    /\ pc' = [t \in Threads |-> Idle]
    /\ UNCHANGED << db, partial, stray, newobj, scan, have_new >>

Step(t) ==
    \/ DoConfirmations(t) \/ DoConfirmOne(t) \/ ScanBack(t) \/ ScanDone(t)
    \/ BeginWrite(t) \/ BeginWriteError(t)
    \/ MarkForIndelible(t) \/ WriteBlock(t) \/ WriteBlockError(t) \/ ExtractXtxError(t)
    \/ ConfirmNext(t) \/ EndWriteCommit(t) \/ SaveMiningError(t) \/ EndWriteError(t) \/ SetLastIndelible(t) \/ ReleaseMutex(t)
    \/ EndWriteRollback(t)

Next ==
    \/ \E t \in Threads : Step(t) \/ \E b \in Blocks : ValidObjsInsert(t, b)
    \/ StartShutdown
    \/ Restart

Spec == Init /\ [][Next]_vars

\* A thread inside DoConfirmations keeps running (SQLite and the OS schedule it)
FairSpec == Spec /\ \A t \in Threads : WF_vars(Step(t))

-----------------------------------------------------------------------------
(* The blockchain table always holds one gapless chain from the genesis      *)
(* block: BlockchainInsert never leaves a hole or a second block at a level, *)
(* whichever thread wrote, whenever the node stopped.                        *)
DbIsChain == IsChain(db)

(* A committed block had all its transactions indexed: a block whose         *)
(* indexing g_shutdown cut short is never committed (EndWrite).              *)
DbComplete == db \cap partial = {}

(* The order of updates in the comment above DoConfirmations: serial numbers *)
(* and outputs that IndexTxs adds for a block are committed together with    *)
(* the block itself.                                                         *)
RowsBelongToBlocks == stray \subseteq db

(* Until shutdown begins, LastIndelibleBlock is never ahead of the committed *)
(* database, so a reader that sees it finds its values there.                *)
LastNotAhead == ~shutdown => last \in db

(* CCASSERT(m_new_indelible_block) and CCASSERT(smartobj): the other thread  *)
(* never takes m_new_indelible_block away before SetLastIndelible reads it.  *)
NewIndelibleSet == \A t \in Threads : pc[t] \in {Commit, SetLast} => newlast # None

(* When no two conflicting chains are long enough to be confirmed and the    *)
(* database does not fail, no interleaving of the two threads makes          *)
(* SetNewlyIndelibleBlock report a sequence error.                           *)
NoFatalError == ~fatal

-----------------------------------------------------------------------------
(* The inductive invariant.  While nothing has gone wrong, the mutex is held *)
(* exactly between BeginWrite and the end of the transaction, and the blocks *)
(* committed and written form a chain that ends in the last one written.     *)
Writing(t) ==
    \/ pc[t] \in {Mark, Index, Next1, Commit}
    \/ pc[t] \in {One, Scan, Begin} /\ have_new[t]

Finishing(t) == pc[t] \in {SetLast, Release}

Good == ~shutdown /\ ~fatal

MutexHeld == \A t \in Threads : Writing(t) \/ (Finishing(t) /\ ~shutdown) => mutex = t

MutexFree ==
    Good => \A t \in Threads : mutex = t => Writing(t) \/ Finishing(t) \/ pc[t] = End

OneCommit == \A t, u \in Threads :
    pc[t] \in {Commit, SetLast} /\ pc[u] \in {Commit, SetLast} => t = u

\* a thread that has something to commit has met no fatal error
NoFatalHeld == \A t \in Threads :
    \/ pc[t] \in {Next1, Commit}
    \/ have_new[t] /\ pc[t] \in {One, Scan, Begin, Mark, Index}
    \/ Finishing(t) /\ ~shutdown
    => ~fatal

\* m_new_indelible_block is set exactly while written blocks wait for the commit
NewLastSet ==
    /\ \A t \in Threads : pc[t] \in {Commit, SetLast} => newlast # None
    /\ Good => \A t \in Threads :
         (have_new[t] /\ pc[t] \in {One, Scan, Begin, Mark, Index}) \/ pc[t] = Next1
         => newlast # None

NewLastClear ==
    Good =>
        /\ mutex = None => dbtx = {} /\ newlast = None
        /\ \A t \in Threads :
             /\ mutex = t /\ ~have_new[t] /\ pc[t] \in {Mark, Index, End}
                => dbtx = {} /\ newlast = None
             /\ pc[t] = End => ~have_new[t] \/ mutex # t
             /\ pc[t] = SetLast => dbtx = {}
             /\ pc[t] = Release => dbtx = {} /\ newlast = None

WrittenChain ==
    Good => /\ IsChain(db \cup dbtx)
            /\ IsTop(LastWritten, db \cup dbtx)
            /\ dbtx \cap partial = {}
            /\ \A n \in dbtx, b \in db : LevelOf[b] < LevelOf[n]

\* even when writing goes on after a rollback, it goes on above the database
AboveDb ==
    /\ \A b \in db : LevelOf[b] <= LevelOf[LastWritten]
    /\ \A t \in Threads : pc[t] = Index =>
         /\ \A b \in db : LevelOf[b] < LevelOf[scan[t]]
         /\ scan[t] # Root
         /\ Good => InSequence(scan[t])

LastCommitted ==
    ~shutdown => last \in db /\ \A t \in Threads : pc[t] = SetLast => newlast \in db

Locking == MutexHeld /\ MutexFree /\ OneCommit /\ NoFatalHeld
Pending == NewLastSet /\ NewLastClear
Storage == WrittenChain /\ AboveDb /\ LastCommitted /\ DbIsChain /\ DbComplete

(* The inductive invariant of DoConfirmations: types, who holds the write    *)
(* mutex, when m_new_indelible_block is set, and what is written and         *)
(* committed.                                                                *)
IInv == TypeOK /\ Locking /\ Pending /\ Storage

-----------------------------------------------------------------------------
(* Every call of DoConfirmations returns: the mutex is never kept and no     *)
(* thread waits for it forever.                                              *)
Returns == \A t \in Threads : pc[t] # Idle ~> pc[t] = Idle

Log == INSTANCE IndelibleLog WITH log <- db

(* The blocks that EndWrite commits, over any run of the node with its       *)
(* restarts, implement the append-only log of module IndelibleLog.           *)
ImplementsLog == Log!LogSpec
=============================================================================
