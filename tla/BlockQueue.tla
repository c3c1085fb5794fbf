----------------------------- MODULE BlockQueue -----------------------------
(***************************************************************************)
(* The queue of blocks on their way to validation (dbconn-processq.cpp,    *)
(* type PROCESS_Q_TYPE_BLOCK) and the two threads that move blocks through *)
(* it on a witness node: processblock, which validates what peers sent,    *)
(* and witness, which enters its own blocks and reads the valid ones by    *)
(* offset to choose a block to build on.  A block whose prior block is not *)
(* valid yet is held and queued again when that block becomes valid.  The  *)
(* three tables each have their own lock, so the steps of the two threads  *)
(* interleave between any two accesses.                                    *)
(***************************************************************************)
EXTENDS BlockTree, FiniteSets

CONSTANTS
    OwnBlocks,      \* the blocks this node's witness creates
    Outcome,        \* Outcome[b]: what BlockValidate finds once the prior block is valid
    Early,          \* blocks that may arrive before their timestamp is acceptable
    HighPriority,   \* blocks entered with PROCESS_Q_PRIORITY_BLOCK_HI
    PruneTrail,     \* (BLOCK_PRUNE_ROUNDS + 2) * nwitnesses
    DoneTrail       \* BLOCK_PRUNE_ROUNDS * nwitnesses

\* BlockValidate returns 0, a negative result, or 1
Outcomes == {"ok", "invalid", "duplicate"}

ASSUME QueueAssumption ==
    /\ Blocks \subseteq Nat     \* a block's number orders it among rows with equal keys
    /\ OwnBlocks \subseteq Blocks /\ HighPriority \subseteq Blocks /\ Early \subseteq Blocks
    /\ Outcome \in [Blocks -> Outcomes]
    /\ PruneTrail \in Nat /\ DoneTrail \in Nat /\ DoneTrail <= PruneTrail

VARIABLES
    status,     \* status[b]: Process_Q.Status, "none" when b has no row
    done,       \* rows with PROCESS_Q_STATUS_DONE_FLAG set
    valid,      \* blocks in ValidObjs
    early,      \* blocks whose timestamp is still too far in the future
    given_up,   \* held blocks BlockValidate returned 1 for
    indelible,  \* level of the last indelible block
    pc,         \* processblock: where ThreadProc is
    cur,        \* processblock: the block being validated
    wpc,        \* witness: where ValidObjsBlockInsert or the scan is
    wcur,       \* witness: the block being entered
    offset,     \* witness: the offset of the next row to read
    seen,       \* witness: rows the scan has returned
    expected    \* witness: rows that the scan has to return, see ScanSeesAll

queue == << status, done >>
pvars == << pc, cur >>
wvars == << wpc, wcur >>
scan == << offset, seen, expected >>
blockqVars == << queue, valid, early, given_up, indelible, pvars, wvars, scan >>

\* RestoreLastBlocks entered the last indelible block as valid
BlockqInit ==
    /\ status = [b \in Blocks |-> IF b = Root THEN "valid" ELSE "none"]
    /\ done = {} /\ valid = {Root} /\ early = Early /\ given_up = {} /\ indelible = 0
    /\ pc = "wait" /\ cur = Root
    /\ wpc = "idle" /\ wcur = Root
    /\ offset = 0 /\ seen = {} /\ expected = {}

\* BlockChain::ComputePruneLevel(min_level, trailing levels)
ComputePruneLevel(min_level, trail) ==
    LET level == IF indelible > trail THEN indelible - trail ELSE 0
    IN  IF level < min_level THEN min_level ELSE level

ValidateLevel == ComputePruneLevel(1, DoneTrail)
PruneLevel == ComputePruneLevel(0, PruneTrail)
DoneLevel == ComputePruneLevel(0, DoneTrail)

\* Rows with status s: a row with the done flag matches no select by status
Rows(s) == {b \in Blocks \ done : status[b] = s}

\* b is before c in "order by Priority, Level desc, Seqnum", up to Seqnum
Before(b, c) ==
    \/ b \in HighPriority /\ c \notin HighPriority
    \/ (b \in HighPriority <=> c \in HighPriority) /\ LevelOf[b] > LevelOf[c]

-----------------------------------------------------------------------------
\* Mutant: a block that is sent again replaces its row
BuggyEnqueueValidate(b) ==
    /\ b \notin OwnBlocks
    /\ status' = [status EXCEPT ![b] = "pending"]
    /\ UNCHANGED << done, valid, early, given_up, indelible, pvars, wvars, scan >>

(* ProcessQEnqueueValidate by relay or block sync: the insert does nothing   *)
(* when the block has a row.  The node does not download its own blocks      *)
(* (RelayObjsInsert with RELAY_STATUS_DOWNLOADED in AttemptNewBlock).        *)
EnqueueValidate(b) ==
    /\ b \notin OwnBlocks
    /\ status[b] = "none"
    /\ status' = [status EXCEPT ![b] = "pending"]
    /\ UNCHANGED << done, valid, early, given_up, indelible, pvars, wvars, scan >>

\* ProcessQGetNextValidateObj: take the first pending row and hold it
GetNextValidateObj(b) ==
    /\ pc = "wait"
    /\ b \in Rows("pending") /\ \A c \in Rows("pending") : ~Before(c, b)
    /\ status' = [status EXCEPT ![b] = "hold"]
    /\ cur' = b
    /\ pc' = "prior"
    /\ UNCHANGED << done, valid, early, given_up, indelible, wvars, scan >>

(* BlockValidate up to ChainToPriorBlock: a block below the prune level is   *)
(* given up, a block whose prior block is not in ValidObjs stays on hold.    *)
FindPriorBlock ==
    /\ pc = "prior"
    /\ pc' = IF LevelOf[cur] >= ValidateLevel /\ PriorOf[cur] \in valid THEN "check" ELSE "wait"
    /\ given_up' = IF LevelOf[cur] < ValidateLevel THEN given_up \cup {cur} ELSE given_up
    /\ UNCHANGED << queue, valid, early, indelible, cur, wvars, scan >>

\* ProcessQUpdateObj: Status = s, which clears the done flag; no effect without a row
UpdateObj(b, s) ==
    /\ status' = [status EXCEPT ![b] = IF @ = "none" THEN @ ELSE s]
    /\ done' = done \ {b}

(* The rest of BlockValidate: a timestamp too far in the future deletes the  *)
(* row so that the block can be sent again; a bad block becomes invalid; a   *)
(* serial number spent below leaves the row on hold.                         *)
FutureTimestamp ==
    /\ pc = "check" /\ cur \in early
    /\ status' = [status EXCEPT ![cur] = "none"]
    /\ done' = done \ {cur}
    /\ pc' = "wait"
    /\ UNCHANGED << valid, early, given_up, indelible, cur, wvars, scan >>

FinishValidate ==
    /\ pc = "check" /\ cur \notin early
    /\ pc' = IF Outcome[cur] = "ok" THEN "insert" ELSE "wait"
    /\ IF Outcome[cur] = "invalid" THEN UpdateObj(cur, "invalid") ELSE UNCHANGED queue
    /\ given_up' = IF Outcome[cur] = "duplicate" THEN given_up \cup {cur} ELSE given_up
    /\ UNCHANGED << valid, early, indelible, cur, wvars, scan >>

-----------------------------------------------------------------------------
(* ValidObjsBlockInsert, one step for each table it touches.                 *)
ValidObjsInsert ==
    /\ pc = "insert"
    /\ valid' = valid \cup {cur}
    /\ pc' = "update"
    /\ UNCHANGED << queue, early, given_up, indelible, cur, wvars, scan >>

UpdateObjValid ==
    /\ pc = "update"
    /\ UpdateObj(cur, "valid")
    /\ pc' = "requeue"
    /\ UNCHANGED << valid, early, given_up, indelible, cur, wvars, scan >>

\* Mutant: the update does not ask for Status = PROCESS_Q_STATUS_HOLD
BuggyUpdateSubsequentBlockStatus(b) ==
    status' = [c \in Blocks |-> IF c # Root /\ PriorOf[c] = b /\ status[c] # "none"
                                  THEN "pending" ELSE status[c]]

\* ProcessQUpdateSubsequentBlockStatus: rows on hold for block b are pending again
UpdateSubsequentBlockStatus(b) ==
    status' = [c \in Blocks |-> IF c # Root /\ PriorOf[c] = b /\ c \in Rows("hold")
                                  THEN "pending" ELSE status[c]]

Requeue ==
    /\ pc = "requeue"
    /\ UpdateSubsequentBlockStatus(cur)
    /\ pc' = "confirm"
    /\ UNCHANGED << done, valid, early, given_up, indelible, cur, wvars, scan >>

(* DoConfirmations with new block b (module Confirm) moves the last          *)
(* indelible block up the chain of b, and the queue is pruned then, or it    *)
(* does not and returns true.                                                *)
DoConfirmations(b) == indelible' \in {indelible} \cup indelible + 1 .. LevelOf[b]

Confirm ==
    /\ pc = "confirm"
    /\ DoConfirmations(cur)
    /\ pc' = IF indelible' > indelible THEN "prune" ELSE "wait"
    /\ UNCHANGED << queue, valid, early, given_up, cur, wvars, scan >>

\* Mutant: the done flag outlives the row
BuggyProcessQPruneAndDone ==
    /\ status' = [c \in Blocks |-> IF LevelOf[c] < PruneLevel THEN "none" ELSE status[c]]
    /\ done' = done \cup {c \in Blocks : LevelOf[c] < DoneLevel}
    /\ expected' = IF \E c \in Rows("valid") : status'[c] # "valid" \/ c \in done' THEN {} ELSE expected

(* ProcessQPruneLevel deletes the rows below the prune level, ProcessQDone   *)
(* flags those below the done level.                                         *)
ProcessQPruneAndDone ==
    /\ status' = [c \in Blocks |-> IF LevelOf[c] < PruneLevel THEN "none" ELSE status[c]]
    /\ done' = {c \in Blocks : status'[c] # "none" /\ (c \in done \/ LevelOf[c] < DoneLevel)}
    /\ expected' = IF \E c \in Rows("valid") : status'[c] # "valid" \/ c \in done' THEN {} ELSE expected

Prune ==
    /\ pc = "prune"
    /\ ProcessQPruneAndDone
    /\ pc' = "wait"
    /\ UNCHANGED << valid, early, given_up, indelible, cur, wvars, offset, seen >>

-----------------------------------------------------------------------------
(* The witness finished a block of its own on a block that a scan found some *)
(* time ago: ValidObjsBlockInsert with enqueue set.                          *)
WitnessInsert(b) ==
    /\ wpc = "idle"
    /\ b \in OwnBlocks /\ b \notin valid
    /\ PriorOf[b] \in valid
    /\ valid' = valid \cup {b}
    /\ wcur' = b
    /\ wpc' = "enqueue"
    /\ UNCHANGED << queue, early, given_up, indelible, pvars, scan >>

\* Mutant: the blocks that wait for the witness's own block are not requeued
BuggyWitnessEnqueue ==
    /\ wpc = "enqueue"
    /\ status' = [status EXCEPT ![wcur] = IF @ = "none" THEN "valid" ELSE @]
    /\ wpc' = "confirm"
    /\ UNCHANGED << done, valid, early, given_up, indelible, pvars, wcur, scan >>

WitnessEnqueue ==
    /\ wpc = "enqueue"
    /\ status' = [status EXCEPT ![wcur] = IF @ = "none" THEN "valid" ELSE @]
    /\ wpc' = "requeue"
    /\ UNCHANGED << done, valid, early, given_up, indelible, pvars, wcur, scan >>

WitnessRequeue ==
    /\ wpc = "requeue"
    /\ UpdateSubsequentBlockStatus(wcur)
    /\ wpc' = "confirm"
    /\ UNCHANGED << done, valid, early, given_up, indelible, pvars, wcur, scan >>

WitnessConfirm ==
    /\ wpc = "confirm"
    /\ DoConfirmations(wcur)
    /\ wpc' = IF indelible' > indelible THEN "prune" ELSE "idle"
    /\ UNCHANGED << queue, valid, early, given_up, pvars, wcur, scan >>

WitnessPrune ==
    /\ wpc = "prune"
    /\ ProcessQPruneAndDone
    /\ wpc' = "idle"
    /\ UNCHANGED << valid, early, given_up, indelible, pvars, wcur, offset, seen >>

\* Mutant: the first row has the offset 1
BuggyStartScan ==
    /\ wpc = "idle"
    /\ wpc' = "scan"
    /\ offset' = 1
    /\ seen' = {}
    /\ expected' = Rows("valid")
    /\ UNCHANGED << queue, valid, early, given_up, indelible, pvars, wcur >>

(* FindBestOwnScore and FindBestBuildingBlock read the valid rows one at a   *)
(* time, ProcessQGetNextValidObj with offset 0, 1, 2, ..., until none is     *)
(* left.                                                                     *)
StartScan ==
    /\ wpc = "idle"
    /\ wpc' = "scan"
    /\ offset' = 0
    /\ seen' = {}
    /\ expected' = Rows("valid")
    /\ UNCHANGED << queue, valid, early, given_up, indelible, pvars, wcur >>

\* The row at an offset, rows with equal keys in the order of their numbers
RowAt(S, off) ==
    {b \in S : Cardinality({c \in S : Before(c, b) \/ (~Before(b, c) /\ c < b)}) = off}

GetNextValidObj ==
    /\ wpc = "scan"
    /\ LET row == RowAt(Rows("valid"), offset)
       IN  /\ seen' = seen \cup row
           /\ offset' = IF row = {} THEN 0 ELSE offset + 1
           /\ wpc' = IF row = {} THEN "idle" ELSE "scan"
    /\ UNCHANGED << queue, valid, early, given_up, indelible, pvars, wcur, expected >>

\* Time passes: timestamps that were too far in the future are acceptable
ClockTick ==
    /\ early # {}
    /\ early' = {}
    /\ UNCHANGED << queue, valid, given_up, indelible, pvars, wvars, scan >>

ProcessBlock ==
    \/ \E b \in Blocks : GetNextValidateObj(b)
    \/ FindPriorBlock \/ FutureTimestamp \/ FinishValidate
    \/ ValidObjsInsert \/ UpdateObjValid \/ Requeue \/ Confirm \/ Prune

WitnessEnter ==
    WitnessEnqueue \/ WitnessRequeue \/ WitnessConfirm \/ WitnessPrune

BlockqNext ==
    \/ \E b \in Blocks : EnqueueValidate(b)
    \/ ProcessBlock
    \/ \E b \in Blocks : WitnessInsert(b)
    \/ WitnessEnter
    \/ StartScan \/ GetNextValidObj
    \/ ClockTick

BlockqSpec == BlockqInit /\ [][BlockqNext]_blockqVars

\* Both threads keep running and time passes; peers need not send anything
BlockqFairSpec ==
    /\ BlockqSpec
    /\ WF_blockqVars(ProcessBlock)
    /\ WF_blockqVars(WitnessEnter)
    /\ WF_blockqVars(ClockTick)

-----------------------------------------------------------------------------
(* Types: what the rows of Process_Q, ValidObjs and the two threads may      *)
(* hold; only a row can carry the done flag.                                 *)
BlockqTypeOK ==
    /\ status \in [Blocks -> {"none", "pending", "hold", "valid", "invalid"}]
    /\ done \subseteq {b \in Blocks : status[b] # "none"}
    /\ valid \subseteq Blocks /\ given_up \subseteq Blocks /\ early \subseteq Early
    /\ indelible \in Nat
    /\ pc \in {"wait", "prior", "check", "insert", "update", "requeue", "confirm", "prune"}
    /\ wpc \in {"idle", "enqueue", "requeue", "confirm", "prune", "scan"}
    /\ cur \in Blocks /\ wcur \in Blocks
    /\ offset \in Nat /\ seen \subseteq Blocks /\ expected \subseteq Blocks

(* No wakeup is lost between BlockValidate's look at ValidObjs and           *)
(* ProcessQUpdateSubsequentBlockStatus: a block that BlockValidate did not   *)
(* give up and that can still be validated is never left on hold with a      *)
(* valid prior block, except by a thread that is about to deal with it.      *)
NoStrandedBlock ==
    \A b \in Blocks :
        /\ status[b] = "hold" /\ PriorOf[b] \in valid
        /\ b \notin given_up /\ LevelOf[b] >= ValidateLevel
        => \/ cur = b /\ pc \in {"prior", "check", "insert", "update"}
           \/ cur = PriorOf[b] /\ pc \in {"update", "requeue"}
           \/ wcur = PriorOf[b] /\ wpc \in {"enqueue", "requeue"}

(* A block that is valid is not validated again: ThreadProc never reaches    *)
(* ValidObjsInsert, which would fail and leave the row on hold, with a block *)
(* that is in ValidObjs already, though blocks are downloaded twice and rows *)
(* are requeued by two threads.                                              *)
NeverValidatedTwice ==
    pc \in {"check", "insert"} => cur \notin valid

(* Above the prune level ValidObjs and the queue agree on the valid blocks   *)
(* when nobody is in between: the witness sees every block it may build on.  *)
QueueMatchesValid ==
    \A b \in Blocks :
        /\ LevelOf[b] >= PruneLevel
        /\ ~(cur = b /\ pc = "update") /\ ~(wcur = b /\ wpc = "enqueue")
        => (b \in valid <=> status[b] = "valid")

(* Rows may be read by offset although the other thread adds rows between    *)
(* two reads: a row that is there from the first read to the last is         *)
(* returned by one of them, unless ProcessQPruneLevel or ProcessQDone took a *)
(* row away meanwhile.                                                       *)
ScanSeesAll == wpc # "scan" => expected \subseteq seen

\* Block b and those below it are valid or queued, good and not too early
Arrived(b) ==
    \A c \in Chain[b] :
        \/ c \in valid
        \/ status[c] \in {"pending", "hold"} /\ Outcome[c] = "ok" /\ c \notin early

(* A block that has arrived together with all blocks below it, all of them   *)
(* good, becomes valid, unless the chain moves on so far that its level is   *)
(* pruned: whatever the order of arrival and whichever thread makes its      *)
(* prior block valid.                                                        *)
ArrivedBecomesValid ==
    \A b \in {c \in Blocks \ {Root} : Outcome[c] = "ok"} :
        Arrived(b) ~> (b \in valid \/ LevelOf[b] < ValidateLevel)

(* Blocks pass through the queue while processblock and witness both change  *)
(* it: none is left on hold beside its valid prior block, none is validated  *)
(* twice, the queue and ValidObjs agree, and the witness's scan by offset    *)
(* returns the rows that stay in their place.                                *)
BlockqInv ==
    BlockqTypeOK /\ NoStrandedBlock /\ NeverValidatedTwice /\ QueueMatchesValid /\ ScanSeesAll
=============================================================================
