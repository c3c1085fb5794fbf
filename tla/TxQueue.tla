------------------------------ MODULE TxQueue -------------------------------
(***************************************************************************)
(* Validation of transactions (processtx.cpp with dbconn-processq.cpp,     *)
(* type PROCESS_Q_TYPE_TX).  Relay and wallet connections queue            *)
(* transactions; worker threads validate them and move them to ValidObjs;  *)
(* the processblock thread queues the transactions of a block at a higher  *)
(* priority and waits until block_txs_pending says that the workers are    *)
(* done with them.                                                         *)
(***************************************************************************)
EXTENDS Integers, Sequences, FiniteSets

CONSTANTS
    Txs,            \* transactions
    Submitters,     \* relay and wallet connections
    TxThreads,      \* the threads of ProcessTx::ThreadProc
    BlockLists,     \* the lists of transactions of the blocks to validate
    MaxBlocks,      \* bound: number of blocks validated
    Nil             \* nobody, no transaction

ASSUME TxQueueAssumption ==
    /\ Nil \notin Txs \cup Submitters \cup TxThreads \cup {"processblock"}
    /\ TxThreads # {} /\ MaxBlocks \in Nat
    /\ \A list \in BlockLists : list \in Seq(Txs)

\* the thread that runs BlockValidate
BlockCaller == "processblock"

Callers == Submitters \cup {BlockCaller}

VARIABLES
    txStatus,   \* txStatus[tx]: Process_Q.Status, "none" when there is no row
    aux,        \* aux[tx]: Process_Q.AuxInt, the number of times a block asked for tx
    validTxs,   \* transactions in ValidObjs
    pending,    \* block_txs_pending
    mutex,      \* the caller holding processtx_mutex across two steps, or Nil
    arg,        \* arg[c]: the transaction c has in TxEnqueueValidate, or Nil
    tpc,        \* tpc[w]: where worker w is
    txOf,       \* txOf[w]: the transaction worker w has
    bpc,        \* where BlockValidate is
    todo,       \* transactions of the block not queued yet
    blocks,     \* number of blocks begun
    txShutdown  \* g_shutdown

txRows == << txStatus, aux >>
callers == << mutex, arg >>
workers == << tpc, txOf >>
block == << bpc, todo, blocks >>
txqVars == << txRows, validTxs, pending, callers, workers, block, txShutdown >>

TxqInit ==
    /\ txStatus = [tx \in Txs |-> "none"] /\ aux = [tx \in Txs |-> 0]
    /\ validTxs = {} /\ pending = 0
    /\ mutex = Nil /\ arg = [c \in Callers |-> Nil]
    /\ tpc = [w \in TxThreads |-> "wait"] /\ txOf = [w \in TxThreads |-> Nil]
    /\ bpc = "idle" /\ todo = << >> /\ blocks = 0
    /\ txShutdown = FALSE

-----------------------------------------------------------------------------
\* Mutant: ValidObjs is looked at before processtx_mutex is taken
BuggyCheckValid(c, tx) ==
    /\ arg[c] = Nil
    /\ arg' = [arg EXCEPT ![c] = IF tx \in validTxs THEN Nil ELSE tx]
    /\ UNCHANGED mutex

(* TxEnqueueValidate, first part: take processtx_mutex and return when the   *)
(* transaction is in ValidObjs.                                              *)
CheckValid(c, tx) ==
    /\ mutex = Nil /\ arg[c] = Nil
    /\ IF tx \in validTxs THEN UNCHANGED callers
       ELSE mutex' = c /\ arg' = [arg EXCEPT ![c] = tx]

\* Mutant: every queued transaction is counted, not only those of a block
BuggyTxEnqueueValidate(c) ==
    /\ arg[c] # Nil
    /\ LET tx == arg[c]
           inserted == txStatus[tx] = "none"
           is_block_tx == IF c = BlockCaller THEN 1 ELSE 0
       IN  /\ txStatus' = [txStatus EXCEPT ![tx] = IF inserted THEN "pending" ELSE @]
           /\ aux' = [aux EXCEPT ![tx] = IF inserted THEN is_block_tx ELSE @ + is_block_tx]
           /\ pending' = IF inserted THEN pending + 1 ELSE pending
    /\ mutex' = Nil
    /\ arg' = [arg EXCEPT ![c] = Nil]

(* Second part: ProcessQEnqueueValidate inserts a row or, for a transaction  *)
(* of a block that has a row, adds one to AuxInt.  It returns 1 in the       *)
(* latter case, and block_txs_pending is counted up only when it returns 0.  *)
TxEnqueueValidate(c) ==
    /\ arg[c] # Nil
    /\ LET tx == arg[c]
           inserted == txStatus[tx] = "none"
           is_block_tx == IF c = BlockCaller THEN 1 ELSE 0
       IN  /\ txStatus' = [txStatus EXCEPT ![tx] = IF inserted THEN "pending" ELSE @]
           /\ aux' = [aux EXCEPT ![tx] = IF inserted THEN is_block_tx ELSE @ + is_block_tx]
           /\ pending' = IF inserted THEN pending + is_block_tx ELSE pending
    /\ mutex' = Nil
    /\ arg' = [arg EXCEPT ![c] = Nil]

\* RelayConnection and TransactConnection
Submit(c, tx) ==
    /\ ~txShutdown
    /\ CheckValid(c, tx)
    /\ UNCHANGED << txRows, validTxs, pending, workers, block, txShutdown >>

SubmitEnqueue(c) ==
    /\ TxEnqueueValidate(c)
    /\ UNCHANGED << validTxs, workers, block, txShutdown >>

-----------------------------------------------------------------------------
\* Mutant: the row that is taken stays pending
BuggyGetNextValidateObj(w, tx) ==
    /\ tpc[w] = "wait" /\ ~txShutdown
    /\ txStatus[tx] = "pending"
    /\ txOf' = [txOf EXCEPT ![w] = tx]
    /\ tpc' = [tpc EXCEPT ![w] = "validate"]
    /\ UNCHANGED << txRows, validTxs, pending, callers, block, txShutdown >>

(* ThreadProc: a worker takes a pending row and holds it, one that a block   *)
(* asked for (PROCESS_Q_PRIORITY_BLOCK_TX) before the others, ...            *)
TxGetNextValidateObj(w, tx) ==
    /\ tpc[w] = "wait" /\ ~txShutdown
    /\ txStatus[tx] = "pending"
    /\ aux[tx] = 0 => \A other \in Txs : txStatus[other] = "pending" => aux[other] = 0
    /\ txStatus' = [txStatus EXCEPT ![tx] = "hold"]
    /\ txOf' = [txOf EXCEPT ![w] = tx]
    /\ tpc' = [tpc EXCEPT ![w] = "validate"]
    /\ UNCHANGED << aux, validTxs, pending, callers, block, txShutdown >>

\* ... finds it valid or not, ...
TxValidate(w) ==
    /\ tpc[w] = "validate"
    /\ tpc' = [tpc EXCEPT ![w] = "good"] \/ tpc' = [tpc EXCEPT ![w] = "bad"]
    /\ UNCHANGED << txRows, validTxs, pending, callers, txOf, block, txShutdown >>

\* Mutant: a count below zero is not corrected
BuggyCountDown(count) == pending - count

(* ... and under processtx_mutex inserts it, deletes the row and takes       *)
(* AuxInt off block_txs_pending; a count below zero is set to zero.          *)
CountDown(count) == IF pending < count THEN 0 ELSE pending - count

FinishTx(w) ==
    /\ tpc[w] \in {"good", "bad"}
    /\ mutex = Nil
    /\ LET tx == txOf[w]
           block_done == aux[tx] > 0 /\ CountDown(aux[tx]) <= 0
       IN  /\ validTxs' = IF tpc[w] = "good" THEN validTxs \cup {tx} ELSE validTxs
           /\ txStatus' = [txStatus EXCEPT ![tx] = "none"]
           /\ aux' = [aux EXCEPT ![tx] = 0]
           /\ pending' = CountDown(aux[tx])
           /\ tpc' = [tpc EXCEPT ![w] = IF block_done THEN "notify" ELSE "wait"]
    /\ txOf' = [txOf EXCEPT ![w] = Nil]
    /\ UNCHANGED << callers, block, txShutdown >>

\* notify_all, outside the mutex
NotifyAll == bpc' = CASE bpc = "initsleep" -> "init" [] bpc = "sleep" -> "wait" [] OTHER -> bpc

Notify(w) ==
    /\ tpc[w] = "notify"
    /\ NotifyAll
    /\ tpc' = [tpc EXCEPT ![w] = "wait"]
    /\ UNCHANGED << txRows, validTxs, pending, callers, txOf, todo, blocks, txShutdown >>

-----------------------------------------------------------------------------
(* BlockValidate: InitBlockScan waits for what an earlier block left, the    *)
(* transactions are queued one by one, and WaitForBlockTxValidation waits    *)
(* for the workers.  What is not in ValidObjs then is validated once more by *)
(* this thread, which changes no state.                                      *)
BlockValidate(list) ==
    /\ bpc = "idle" /\ blocks < MaxBlocks /\ ~txShutdown
    /\ blocks' = blocks + 1
    /\ todo' = list
    /\ bpc' = "init"
    /\ UNCHANGED << txRows, validTxs, pending, callers, workers, txShutdown >>

(* WaitForBlockTxValidation: under processtx_mutex, sleep while the count is *)
(* positive, else go on.                                                     *)
Wait(from, sleep, next) ==
    /\ bpc = from
    /\ mutex = Nil
    /\ bpc' = IF pending > 0 /\ ~txShutdown THEN sleep ELSE next
    /\ UNCHANGED << txRows, validTxs, pending, callers, workers, todo, blocks, txShutdown >>

InitBlockScan == Wait("init", "initsleep", "scan")

WaitForBlockTxValidation == Wait("wait", "sleep", "check")

NextBlockTx ==
    /\ bpc = "scan" /\ arg[BlockCaller] = Nil
    /\ todo # << >> /\ ~txShutdown
    /\ CheckValid(BlockCaller, Head(todo))
    /\ todo' = Tail(todo)
    /\ UNCHANGED << txRows, validTxs, pending, workers, bpc, blocks, txShutdown >>

BlockTxEnqueue ==
    /\ TxEnqueueValidate(BlockCaller)
    /\ UNCHANGED << validTxs, workers, block, txShutdown >>

EndScan ==
    /\ bpc = "scan" /\ arg[BlockCaller] = Nil
    /\ todo = << >> \/ txShutdown
    /\ bpc' = IF txShutdown THEN "idle" ELSE "wait"
    /\ UNCHANGED << txRows, validTxs, pending, callers, workers, todo, blocks, txShutdown >>

(* A transaction that does not parse or spends what was spent below ends     *)
(* BlockValidate, though some of the others are queued already.              *)
RejectBlock ==
    /\ bpc = "scan" /\ arg[BlockCaller] = Nil
    /\ todo # << >> /\ ~txShutdown
    /\ bpc' = "idle"
    /\ UNCHANGED << txRows, validTxs, pending, callers, workers, todo, blocks, txShutdown >>

EndBlockValidate ==
    /\ bpc = "check"
    /\ bpc' = "idle"
    /\ UNCHANGED << txRows, validTxs, pending, callers, workers, todo, blocks, txShutdown >>

(* A transaction leaves ValidObjs when it is in an indelible block (IndexTxs *)
(* on a witness) or expires; neither takes processtx_mutex.                  *)
ValidObjsDelete(tx) ==
    /\ tx \in validTxs
    /\ validTxs' = validTxs \ {tx}
    /\ UNCHANGED << txRows, pending, callers, workers, block, txShutdown >>

-----------------------------------------------------------------------------
TxStartShutdown ==
    /\ ~txShutdown
    /\ txShutdown' = TRUE
    /\ UNCHANGED << txRows, validTxs, pending, callers, workers, block >>

\* ProcessTx::Stop
Stop ==
    /\ txShutdown
    /\ mutex = Nil
    /\ NotifyAll
    /\ UNCHANGED << txRows, validTxs, pending, callers, workers, todo, blocks, txShutdown >>

TxThreadStep(w) ==
    \/ \E tx \in Txs : TxGetNextValidateObj(w, tx)
    \/ TxValidate(w) \/ FinishTx(w) \/ Notify(w)

BlockStep ==
    \/ InitBlockScan \/ NextBlockTx \/ BlockTxEnqueue \/ EndScan \/ RejectBlock
    \/ WaitForBlockTxValidation \/ EndBlockValidate

TxqNext ==
    \/ \E c \in Submitters : SubmitEnqueue(c) \/ \E tx \in Txs : Submit(c, tx)
    \/ \E w \in TxThreads : TxThreadStep(w)
    \/ BlockStep
    \/ \E list \in BlockLists : BlockValidate(list)
    \/ \E tx \in Txs : ValidObjsDelete(tx)
    \/ TxStartShutdown \/ Stop

TxqSpec == TxqInit /\ [][TxqNext]_txqVars

(* Every thread keeps running.  A thread waiting for processtx_mutex gets it *)
(* although others take it again and again, hence strong fairness for the    *)
(* steps that wait for it.                                                   *)
TxqFairSpec ==
    /\ TxqSpec
    /\ \A w \in TxThreads : WF_txqVars(TxThreadStep(w)) /\ SF_txqVars(FinishTx(w))
    /\ \A c \in Submitters : WF_txqVars(SubmitEnqueue(c))
    /\ SF_txqVars(BlockStep)
    /\ SF_txqVars(Stop)

-----------------------------------------------------------------------------
(* Types: the rows of Process_Q, the worker threads, the callers of          *)
(* TxEnqueueValidate and BlockValidate.                                      *)
TxqTypeOK ==
    /\ txStatus \in [Txs -> {"none", "pending", "hold"}]
    /\ aux \in [Txs -> Nat] /\ validTxs \subseteq Txs /\ pending \in Nat
    /\ mutex \in Callers \cup {Nil} /\ arg \in [Callers -> Txs \cup {Nil}]
    /\ tpc \in [TxThreads -> {"wait", "validate", "good", "bad", "notify"}]
    /\ txOf \in [TxThreads -> Txs \cup {Nil}]
    /\ bpc \in {"idle", "init", "initsleep", "scan", "wait", "sleep", "check"}
    /\ todo \in Seq(Txs) /\ blocks \in 0 .. MaxBlocks /\ txShutdown \in BOOLEAN

(* "To ensure ValidObj's and ProcessQ stay in sync": a transaction is never  *)
(* in both, whoever submits it again and whenever.                           *)
InSync == \A tx \in validTxs : txStatus[tx] = "none"

(* CCASSERTZ(rc) after ProcessQSelectAndDelete: the row of a transaction     *)
(* that a worker has is still there, held, and no second worker has it.      *)
HeldByOne ==
    \A w \in TxThreads : txOf[w] # Nil =>
        /\ txStatus[txOf[w]] = "hold"
        /\ \A v \in TxThreads : txOf[v] = txOf[w] => v = w

\* What the rows will take off block_txs_pending: one for each time a block asked for tx
Owed == UNION {{tx} \X (1 .. aux[tx]) : tx \in Txs}

(* block_txs_pending counts no more than the rows will take off it again: a  *)
(* higher count would keep the processblock thread waiting forever.          *)
PendingAccounted == pending <= Cardinality(Owed)

(* BlockValidate never hangs in InitBlockScan or WaitForBlockTxValidation.   *)
BlockValidateEnds == []<>(bpc = "idle")

(* Transactions pass through the queue while workers, submitters and         *)
(* processblock all change it: queue and ValidObjs stay in step, a row has   *)
(* one worker, and block_txs_pending is never too high.                      *)
TxqInv == TxqTypeOK /\ InSync /\ HeldByOne /\ PendingAccounted
=============================================================================
