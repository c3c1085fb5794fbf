----------------------------- MODULE SerialNums -----------------------------
(***************************************************************************)
(* Double spending.  Every input of a transaction carries a serial number; *)
(* those of indelible blocks are in the persistent database, those of      *)
(* valid blocks above them in Temp_Serials, each bound to its block.  The  *)
(* processblock thread checks the blocks that peers sent and the witness   *)
(* thread the transactions of the block it builds, with CheckSerialnum,    *)
(* which reads m_last_indelible_block and the two tables one after the     *)
(* other while the other thread makes blocks valid and indelible.          *)
(* (blockchain.cpp, dbconn-tempserials.cpp, processblock.cpp, witness.cpp) *)
(*                                                                         *)
(* The rows of Temp_Serials with Level = 0 belong to the block a thread is *)
(* working on and are kept in open[t]; t stands for the special Blockp     *)
(* (TEMP_SERIALS_PROCESS_BLOCKP, TEMP_SERIALS_WITNESS_BLOCKP).             *)
(***************************************************************************)
EXTENDS BlockTree, Sequences

CONSTANTS
    Serials,        \* serial numbers
    SpendsOf,       \* SpendsOf[b]: the inputs of the transactions of a peer's block
    Own,            \* the blocks this node's witness makes
    Txs,            \* the inputs of the transactions in ValidObjs
    SkipOf,         \* SkipOf[b]: auxp->skip
    NSeqConfSigs,
    NSkipConfSigs,
    PruneTrail,     \* (BLOCK_PRUNE_ROUNDS + 2) * nwitnesses
    PruneEvery,     \* TempSerialnumPruneLevel runs at every third level
    DbErrors,       \* BOOLEAN: may a call on a table of serial numbers fail
    None            \* a mutex nobody holds

ProcessBlock == "processblock"
Witness == "witness"
Threads == {ProcessBlock, Witness}

\* No entry of a sequence comes twice
Distinct(s) == \A i, j \in DOMAIN s : s[i] = s[j] => i = j

\* The genesis block has no transactions, and a transaction of ValidObjs has no serial
\* number twice (TX_RESULT_DUPLICATE_SERIALNUM of TxValidate)
ASSUME SerialsAssumption ==
    /\ Own \subseteq Blocks \ {Root}
    /\ SpendsOf \in [Blocks -> Seq(Serials)] /\ SpendsOf[Root] = << >>
    /\ Txs \subseteq Seq(Serials) \ {<< >>} /\ \A s \in Txs : Distinct(s)
    /\ SkipOf \in [Blocks -> Nat]
    /\ NSeqConfSigs \in Nat \ {0} /\ NSkipConfSigs \in Nat
    /\ PruneTrail \in Nat /\ PruneEvery \in Nat \ {0} /\ DbErrors \in BOOLEAN
    /\ None \notin Threads

VARIABLES
    valid,      \* blocks in ValidObjs
    spends,     \* spends[b]: the inputs in block b
    open,       \* open[t]: rows of Temp_Serials for the block t is working on
    temp,       \* the other rows of Temp_Serials, pairs of serial number and block
    persistent, \* serial numbers committed to the persistent database
    marked,     \* the highest block marked for indelible
    last,       \* m_last_indelible_block
    lastPruned, \* last_pruned_level of ValidObjsBlockInsert
    mutex,      \* Persistent_db_write_mutex
    pc,         \* pc[t]: where thread t is
    cur,        \* cur[t]: the block thread t validates or builds
    tx,         \* inputs of the block or transaction in hand
    todo,       \* todo[t]: inputs still to be checked or inserted
    snap,       \* snap[t]: last_indelible_block of CheckSerialnum
    first,      \* first[t]: the block for which DoConfirmOne wants to write
    rejected,   \* blocks refused for a serial number
    failed      \* some call on Temp_Serials has failed

tables == << open, temp, persistent >>
chain == << marked, last, lastPruned, mutex >>
history == << rejected, failed >>
locals == << cur, tx, todo, snap, first >>
serialVars == << valid, spends, tables, chain, pc, locals, history >>

SerialInit ==
    /\ valid = {Root} /\ spends = [b \in Blocks |-> IF b \in Own THEN << >> ELSE SpendsOf[b]]
    /\ open = [t \in Threads |-> {}] /\ temp = {} /\ persistent = {}
    /\ marked = Root /\ last = Root /\ lastPruned = 0 /\ mutex = None
    /\ pc = [t \in Threads |-> "idle"]
    /\ cur = [t \in Threads |-> Root] /\ tx = << >>
    /\ todo = [t \in Threads |-> << >>]
    /\ snap = [t \in Threads |-> Root] /\ first = [t \in Threads |-> Root]
    /\ rejected = {} /\ failed = FALSE

Goto(t, point) == pc' = [pc EXCEPT ![t] = point]

Inputs(s) == {s[i] : i \in DOMAIN s}

Fail == DbErrors /\ failed' = TRUE

-----------------------------------------------------------------------------
\* Mutant: what an earlier block left is not cleared
BuggyTempSerialnumClear(t) == UNCHANGED << open, failed >> /\ t \in Threads

(* TempSerialnumClear: drop what an earlier attempt left; both callers go on *)
(* when it fails.                                                            *)
TempSerialnumClear(t) ==
    \/ open' = [open EXCEPT ![t] = {}] /\ UNCHANGED failed
    \/ Fail /\ UNCHANGED open

\* BlockValidate: a peer's block whose prior block is valid
BlockValidate(b) ==
    /\ pc[ProcessBlock] = "idle"
    /\ b \notin Own \cup valid \cup rejected /\ PriorOf[b] \in valid
    /\ TempSerialnumClear(ProcessBlock)
    /\ cur' = [cur EXCEPT ![ProcessBlock] = b]
    /\ todo' = [todo EXCEPT ![ProcessBlock] = spends[b]]
    /\ Goto(ProcessBlock, IF spends[b] = << >> THEN "update" ELSE "check")
    /\ UNCHANGED << valid, spends, temp, persistent, chain, tx, snap, first, rejected >>

\* AttemptNewBlock with a new prior block: StartNewBlock
StartNewBlock(b) ==
    /\ pc[Witness] = "idle"
    /\ b \in Own \ valid /\ PriorOf[b] \in valid
    /\ TempSerialnumClear(Witness)
    /\ cur' = [cur EXCEPT ![Witness] = b]
    /\ spends' = [spends EXCEPT ![b] = << >>]
    /\ Goto(Witness, "build")
    /\ UNCHANGED << valid, temp, persistent, chain, tx, todo, snap, first, rejected >>

\* BuildNewBlock takes the next transaction from ValidObjs
NextTx(inputs) ==
    /\ pc[Witness] = "build"
    /\ tx' = inputs
    /\ todo' = [todo EXCEPT ![Witness] = inputs]
    /\ Goto(Witness, "check")
    /\ UNCHANGED << valid, spends, tables, chain, cur, snap, first, history >>

-----------------------------------------------------------------------------
(* CheckSerialnum(topblock, type, serial): first m_last_indelible_block, "so *)
(* value doesn't get ahead of values read from persistent serialnum db",     *)
(* then the persistent database, then Temp_Serials.                          *)
SnapshotLast(t) ==
    /\ pc[t] = "check"
    /\ snap' = [snap EXCEPT ![t] = last]
    /\ Goto(t, "persistent")
    /\ UNCHANGED << valid, spends, tables, chain, cur, tx, todo, first, history >>

(* The block is given up, or the transaction left out of the block being     *)
(* built (and dropped from ValidObjs when it is spent for good, so it is not *)
(* tried again, which changes nothing here).                                 *)
Refuse(t) ==
    /\ rejected' = IF t = ProcessBlock THEN rejected \cup {cur[t]} ELSE rejected
    /\ Goto(t, IF t = ProcessBlock THEN "idle" ELSE "build")
    /\ UNCHANGED << valid, spends, tables, chain, locals >>

SerialnumSelect(t) ==
    /\ pc[t] = "persistent"
    /\ IF Head(todo[t]) \in persistent
         THEN Refuse(t) /\ UNCHANGED failed
         ELSE /\ Goto(t, "temp")
              /\ UNCHANGED << valid, spends, tables, chain, locals, history >>

(* BlockInChain: the walk from the prior block ends at the first block that  *)
(* is not above the last indelible one.                                      *)
BlockInChain(find, top, lastIndelible) ==
    /\ find \in Chain[top]
    /\ \A c \in Chain[top] : LevelOf[c] > LevelOf[find] => LevelOf[c] > LevelOf[lastIndelible]

\* Mutant: m_last_indelible_block is read when the walk begins
BuggyFound(t, serial) ==
    \/ serial \in open[t]
    \/ \E b \in Blocks : << serial, b >> \in temp /\ BlockInChain(b, PriorOf[cur[t]], last)

Found(t, serial) ==
    \/ serial \in open[t]
    \/ \E b \in Blocks : << serial, b >> \in temp /\ BlockInChain(b, PriorOf[cur[t]], snap[t])

(* BlockValidate inserts a serial number as soon as it is checked,           *)
(* BuildNewBlock checks all inputs of a transaction before it inserts them.  *)
TempSerialnumSelect(t) ==
    /\ pc[t] = "temp"
    /\ IF Found(t, Head(todo[t]))
         THEN Refuse(t) /\ UNCHANGED failed
         ELSE /\ todo' = [todo EXCEPT ![t] =
                    IF t = ProcessBlock THEN @ ELSE IF Len(@) = 1 THEN tx ELSE Tail(@)]
              /\ Goto(t, IF t = ProcessBlock \/ Len(todo[t]) = 1 THEN "insert" ELSE "check")
              /\ UNCHANGED << valid, spends, tables, chain, cur, tx, snap, first, history >>

\* CheckSerialnum returns -1, which its callers take for a duplicate
SelectError(t) ==
    /\ pc[t] \in {"persistent", "temp"}
    /\ Fail
    /\ Refuse(t)

TempSerialnumInsert(t) ==
    /\ pc[t] = "insert"
    /\ open' = [open EXCEPT ![t] = @ \cup {Head(todo[t])}]
    /\ todo' = [todo EXCEPT ![t] = Tail(@)]
    /\ IF t = ProcessBlock
         THEN /\ Goto(t, IF Len(todo[t]) = 1 THEN "update" ELSE "check")
              /\ UNCHANGED spends
         ELSE /\ Goto(t, IF Len(todo[t]) = 1 THEN "build" ELSE "insert")
              /\ spends' = IF Len(todo[t]) = 1 THEN [spends EXCEPT ![cur[t]] = @ \o tx] ELSE spends
    /\ UNCHANGED << valid, temp, persistent, chain, cur, tx, snap, first, history >>

\* An insert fails: the block is invalid, or the transaction is left out
InsertError(t) ==
    /\ pc[t] = "insert"
    /\ Fail
    /\ Refuse(t)

-----------------------------------------------------------------------------
\* AttemptNewBlock: the block is finished, or another prior block is better
FinishNewBlock ==
    /\ pc[Witness] = "build"
    /\ Goto(Witness, "update") \/ Goto(Witness, "idle")
    /\ UNCHANGED << valid, spends, tables, chain, locals, history >>

\* Mutant: the rows are not bound to the block and the error is ignored
BuggyTempSerialnumUpdate(t) ==
    /\ pc[t] = "update"
    /\ Goto(t, "insertvalid")
    /\ UNCHANGED << valid, spends, tables, chain, locals, history >>

(* TempSerialnumUpdate binds the rows to the block before ValidObjsInsert    *)
(* lets anybody build on it.  When it fails the block is given up.           *)
TempSerialnumUpdate(t) ==
    /\ pc[t] = "update"
    /\ temp' = temp \cup (open[t] \X {cur[t]})
    /\ open' = [open EXCEPT ![t] = {}]
    /\ Goto(t, "insertvalid")
    /\ UNCHANGED << valid, spends, persistent, chain, locals, history >>

UpdateError(t) ==
    /\ pc[t] = "update"
    /\ Fail
    /\ rejected' = IF t = ProcessBlock THEN rejected \cup {cur[t]} ELSE rejected
    /\ Goto(t, "idle")
    /\ UNCHANGED << valid, spends, tables, chain, locals >>

ValidObjsInsert(t) ==
    /\ pc[t] = "insertvalid"
    /\ valid' = valid \cup {cur[t]}
    /\ Goto(t, "confirm")
    /\ UNCHANGED << spends, tables, chain, locals, history >>

-----------------------------------------------------------------------------
(* DoConfirmations, the steps that matter here (module Confirm has them      *)
(* all): blocks are marked, their serial numbers committed, and only then is *)
(* m_last_indelible_block moved.                                             *)
Confirmed(new, b) ==
    LET nconfsigs == LevelOf[new] + 1 - LevelOf[b]
    IN  /\ nconfsigs >= NSeqConfSigs
        /\ SkipOf[b] > 0 => nconfsigs >= NSkipConfSigs

NewlyIndelible(new) ==
    {b \in Chain[new] :
        /\ b # marked /\ marked \in Chain[b]
        /\ \A c \in Chain[b] : LevelOf[c] > LevelOf[marked] => Confirmed(new, c)}

DoConfirmOne(t) ==
    /\ pc[t] = "confirm"
    /\ LET new == NewlyIndelible(cur[t])
       IN  IF new = {} THEN Goto(t, "idle") /\ UNCHANGED first
           ELSE /\ \E b \in new : PriorOf[b] = marked /\ first' = [first EXCEPT ![t] = b]
                /\ Goto(t, "begin")
    /\ UNCHANGED << valid, spends, tables, chain, cur, tx, todo, snap, history >>

(* BeginWrite: leave when the other thread was first, else mark the blocks.  *)
(* (Two forks that both get confirmed are a fatal error: module Confirm.)    *)
BeginWrite(t) ==
    /\ pc[t] = "begin"
    /\ mutex = None
    /\ IF first[t] \in Chain[marked]
         THEN Goto(t, "idle") /\ UNCHANGED << marked, mutex >>
         ELSE /\ \E b \in NewlyIndelible(cur[t]) : IsTop(b, NewlyIndelible(cur[t])) /\ marked' = b
              /\ mutex' = t
              /\ Goto(t, "commit")
    /\ UNCHANGED << valid, spends, tables, last, lastPruned, locals, history >>

\* IndexTxs and EndWrite: readers see the serial numbers of all blocks at once
Commit(t) ==
    /\ pc[t] = "commit"
    /\ persistent' = persistent \cup UNION {Inputs(spends[b]) : b \in Chain[marked]}
    /\ Goto(t, "setlast")
    /\ UNCHANGED << valid, spends, open, temp, chain, locals, history >>

\* Mutant: the block just received is taken for the newly indelible one
BuggySetLastIndelible(t) ==
    /\ pc[t] = "setlast"
    /\ last' = cur[t]
    /\ mutex' = None
    /\ Goto(t, "prune")
    /\ UNCHANGED << valid, spends, tables, marked, lastPruned, locals, history >>

SetLastIndelible(t) ==
    /\ pc[t] = "setlast"
    /\ last' = marked
    /\ mutex' = None
    /\ Goto(t, "prune")
    /\ UNCHANGED << valid, spends, tables, marked, lastPruned, locals, history >>

\* TempSerialnumPruneLevel in ValidObjsBlockInsert
PruneLevel == IF LevelOf[last] > PruneTrail THEN LevelOf[last] - PruneTrail ELSE 0

Prune(t) ==
    /\ pc[t] = "prune"
    /\ IF PruneLevel > lastPruned /\ PruneLevel % PruneEvery = 0
         THEN /\ lastPruned' = PruneLevel
              /\ \/ temp' = {row \in temp : LevelOf[row[2]] >= PruneLevel} /\ UNCHANGED failed
                 \/ Fail /\ UNCHANGED temp
         ELSE UNCHANGED << temp, lastPruned, failed >>
    /\ Goto(t, "idle")
    /\ UNCHANGED << valid, spends, open, persistent, marked, last, mutex, locals, rejected >>

SerialNext ==
    \/ \E b \in Blocks : BlockValidate(b) \/ StartNewBlock(b)
    \/ \E inputs \in Txs : NextTx(inputs)
    \/ FinishNewBlock
    \/ \E t \in Threads :
         \/ SnapshotLast(t) \/ SerialnumSelect(t) \/ TempSerialnumSelect(t) \/ SelectError(t)
         \/ TempSerialnumInsert(t) \/ InsertError(t)
         \/ TempSerialnumUpdate(t) \/ UpdateError(t) \/ ValidObjsInsert(t)
         \/ DoConfirmOne(t) \/ BeginWrite(t) \/ Commit(t) \/ SetLastIndelible(t) \/ Prune(t)

SerialSpec == SerialInit /\ [][SerialNext]_serialVars

-----------------------------------------------------------------------------
(* Types: the two tables and the threads' places, and that                   *)
(* m_last_indelible_block never leaves the chain of the marked blocks.       *)
SerialTypeOK ==
    /\ valid \subseteq Blocks /\ rejected \subseteq Blocks /\ failed \in BOOLEAN
    /\ spends \in [Blocks -> Seq(Serials)]
    /\ open \in [Threads -> SUBSET Serials] /\ temp \subseteq Serials \X Blocks
    /\ persistent \subseteq Serials
    /\ marked \in valid /\ last \in Chain[marked] /\ mutex \in Threads \cup {None}
    /\ lastPruned \in 0..LevelOf[last]
    /\ pc \in [Threads -> {"idle", "build", "check", "persistent", "temp", "insert", "update",
                           "insertvalid", "confirm", "begin", "commit", "setlast", "prune"}]
    /\ cur \in [Threads -> Blocks] /\ snap \in [Threads -> Blocks] /\ first \in [Threads -> Blocks]
    /\ tx \in Seq(Serials) /\ todo \in [Threads -> Seq(Serials)]

\* Every serial number is spent at most once on the chain of b
SpentOnce(b) ==
    /\ \A a \in Chain[b] : Distinct(spends[a])
    /\ \A a, c \in Chain[b] : a # c => Inputs(spends[a]) \cap Inputs(spends[c]) = {}

(* No double spend: along the chain of a valid block that may still become   *)
(* indelible every serial number is spent once, however the checks of        *)
(* CheckSerialnum interleave with blocks becoming valid and indelible.       *)
NoDoubleSpend == \A b \in valid : marked \in Chain[b] => SpentOnce(b)

(* What ThreadProc guards against: "a valid block without its serialnums     *)
(* indexed, which could allow a double-spend".                               *)
ValidIndexed ==
    \A b \in valid \ {Root} : LevelOf[b] > LevelOf[last] =>
        \A serial \in Inputs(spends[b]) : << serial, b >> \in temp

(* A block is refused only for a serial number that is really spent, in an   *)
(* indelible block, on its own chain or twice in the block itself: rows left *)
(* from other blocks "might cause this node to lose sync".  (Unless a call   *)
(* on Temp_Serials fails, which is what the comment in BlockValidate says.)  *)
NoFalseRejection ==
    ~failed => \A b \in rejected :
        ~SpentOnce(b) \/ Inputs(spends[b]) \cap persistent # {}

(* A hypothesis about time, not a property: while a thread walks from its    *)
(* prior block down to the block it read from m_last_indelible_block, the    *)
(* other thread makes fewer levels indelible than the prune trail is long,   *)
(* so nothing above that block loses its rows.  It is what                   *)
(* (BLOCK_PRUNE_ROUNDS + 2) * nwitnesses levels are kept for.                *)
NotOvertaken == \A t \in Threads : pc[t] = "temp" => lastPruned <= LevelOf[snap[t]] + 1

(* The double-spend check over the persistent and the temporary serial       *)
(* numbers: no chain spends twice, valid blocks are indexed, and no good     *)
(* block is refused (CheckSerialnum and its users).                          *)
SerialInv == SerialTypeOK /\ NoDoubleSpend /\ ValidIndexed /\ NoFalseRejection
=============================================================================
