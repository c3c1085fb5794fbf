------------------------------ MODULE MCQueues ------------------------------
(***************************************************************************)
(* The two process queues, of blocks (BlockQueue) and of transactions      *)
(* (TxQueue).  Each has its own table, so a behaviour is one of either,    *)
(* picked by part, while the other stays in its initial state.             *)
(***************************************************************************)
EXTENDS BlockQueue, TxQueue, TLC

\* A chain 1, 2, 3, 4 and a block 5 on block 1; the witness makes block 2
MCBlocks == 0 .. 5
MCPriorOf == [b \in MCBlocks |-> IF b = 5 THEN 1 ELSE IF b = 0 THEN 0 ELSE b - 1]
MCLevelOf == [b \in MCBlocks |-> IF b = 5 THEN 2 ELSE b]

\* Block 5 repeats a serial number and the tip is a bad block
MCOutcome == [b \in MCBlocks |->
    CASE b = 5 -> "duplicate" [] b = 4 -> "invalid" [] OTHER -> "ok"]

\* A block with two transactions and a block that repeats one
MCBlockLists == { << "a", "b" >>, << "b", "b" >> }

VARIABLE part

vars == <<part, blockqVars, txqVars>>

Init == part \in {"block", "tx"} /\ BlockqInit /\ TxqInit

\* A step of one part
InBlock(A) == part = "block" /\ A /\ UNCHANGED <<part, txqVars>>
InTx(A) == part = "tx" /\ A /\ UNCHANGED <<part, blockqVars>>

Next == InBlock(BlockqNext) \/ InTx(TxqNext)

\* The fairness of BlockqFairSpec and of TxqFairSpec
Fairness ==
  /\ WF_vars(InBlock(ProcessBlock)) /\ WF_vars(InBlock(WitnessEnter)) /\ WF_vars(InBlock(ClockTick))
  /\ \A w \in TxThreads : WF_vars(InTx(TxThreadStep(w))) /\ SF_vars(InTx(FinishTx(w)))
  /\ \A c \in Submitters : WF_vars(InTx(SubmitEnqueue(c)))
  /\ SF_vars(InTx(BlockStep)) /\ SF_vars(InTx(Stop))

FairSpec == Init /\ [][Next]_vars /\ Fairness
=============================================================================
