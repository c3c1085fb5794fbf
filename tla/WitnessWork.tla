---------------------------- MODULE WitnessWork ----------------------------
(***************************************************************************)
(* How a witness learns that there is something to do                      *)
(* (ccnode/src/witness.cpp): the threads that insert blocks, transactions  *)
(* and exchange requests set a flag and wake it, the exchange tells it     *)
(* when a block is next needed for matching, and the witness clears a flag *)
(* before it reads what the flag stands for.                               *)
(*                                                                         *)
(* What is called with m_work_mutex held is one step; the flags are        *)
(* atomics that the witness also reads without it.                         *)
(***************************************************************************)
EXTENDS Naturals, FiniteSets

CONSTANTS MaxSeq,     \* bound: objects inserted of each queue
          ArraySize,  \* TXARRAYSIZE: the objects that one read returns
          MaxEpoch    \* bound: matching epochs, from 2; 1 is the mark of a frozen time

ASSUME WitnessWorkAssumption == MaxSeq \in Nat /\ ArraySize \in Nat \ {0} /\ MaxEpoch \in Nat \ {0, 1}

VARIABLES seq,      \* seq[q]: objects of the queue inserted so far
          telling,  \* telling[q]: inserted, but NotifyNewWork was not called yet
          have,     \* m_have_new_work
          read,     \* read[q]: the objects the witness read, in order
          wit,      \* the witness: pc, what it waits for, and the exchange time it goes by
          awake,    \* the condition variable was notified since the witness went to sleep
          wtime,    \* m_exchange_work_time and m_pending_exchange_work_time
          exch,     \* the thread that confirms blocks and the matching thread
          epoch,    \* the epoch of the last block
          down      \* "no", "set": g_shutdown is set, "told": ShutdownWork was called

workVars == <<seq, telling, have, read, wit, awake, wtime, exch, epoch, down>>

Queues == {"block", "tx", "xreq"}
TxQueues == {"tx", "xreq"}

At(pc) == [pc |-> pc, waits |-> {}, until |-> 0]

WorkInit ==
  /\ seq = [q \in Queues |-> 0] /\ telling = [q \in Queues |-> FALSE]
  /\ have = [q \in Queues |-> FALSE] /\ read = [q \in Queues |-> 0]
  /\ wit = At("scan") /\ awake = FALSE
  /\ wtime = [now |-> 0, pending |-> 0]
  /\ exch = [sync |-> "idle", match |-> "matching"] /\ epoch = 2 /\ down = "no"

(***************************************************************************)
(* The other threads: an object is inserted into the table of valid        *)
(* objects, and then the witness is told.                                  *)
(***************************************************************************)
ObjInsert(q) ==
  /\ seq[q] < MaxSeq /\ ~telling[q]
  /\ seq' = [seq EXCEPT ![q] = @ + 1] /\ telling' = [telling EXCEPT ![q] = TRUE]
  /\ UNCHANGED <<have, read, wit, awake, wtime, exch, epoch, down>>

NotifyNewWork(q) ==
  /\ telling[q] /\ telling' = [telling EXCEPT ![q] = FALSE]
  /\ have' = [have EXCEPT ![q] = TRUE]
  /\ awake' = (awake \/ (wit.pc = "asleep" /\ q \in wit.waits))
  /\ UNCHANGED <<seq, read, wit, wtime, exch, epoch, down>>

\* start_shutdown sets g_shutdown; DeInit calls ShutdownWork.
StartShutdown ==
  /\ down = "no" /\ down' = "set"
  /\ UNCHANGED <<seq, telling, have, read, wit, awake, wtime, exch, epoch>>

ShutdownWork ==
  /\ down = "set" /\ down' = "told"
  /\ awake' = (awake \/ wit.pc = "asleep")
  /\ UNCHANGED <<seq, telling, have, read, wit, wtime, exch, epoch>>

(***************************************************************************)
(* The witness.  AttemptNewBlock looks for the block to build on, with the *)
(* block flag cleared first; StartNewBlock begins again with the           *)
(* transactions; BuildNewBlock reads them.                                 *)
(***************************************************************************)
WitnessOnly == UNCHANGED <<seq, telling, awake, wtime, exch, epoch, down>>

ResetBlockWork ==
  /\ wit.pc = "scan"
  /\ IF down # "no" THEN wit' = At("ended") /\ UNCHANGED have
     ELSE wit' = At("find") /\ have' = [have EXCEPT !["block"] = FALSE]
  /\ UNCHANGED read /\ WitnessOnly

\* No block to build on: wait for another one.  The block that was chosen before: go on with it.
FindBestBlock ==
  /\ wit.pc = "find"
  /\ \/ /\ wit' = [pc |-> "check", waits |-> {"block"}, until |-> 0]
        /\ read' = [read EXCEPT !["block"] = seq["block"]] /\ UNCHANGED have
     \/ /\ wit' = At("build")
        /\ read' = [read EXCEPT !["block"] = seq["block"]] /\ UNCHANGED have
     \/ /\ wit' = At("build")
        /\ read' = [q \in Queues |-> IF q = "block" THEN seq[q] ELSE 0]
        /\ have' = [q \in Queues |-> q \in TxQueues \/ have[q]]
  /\ WitnessOnly

\* The queue is picked and its flag cleared; with no work, or when time is up, BuildNewBlock returns.
ResetTxWork ==
  /\ wit.pc = "build"
  /\ \/ \E q \in TxQueues :
          /\ have[q] /\ (q = "xreq" => ~have["tx"])
          /\ have' = [have EXCEPT ![q] = FALSE] /\ wit' = At(q)
     \/ wit' = [pc |-> "check", waits |-> Queues, until |-> 0] /\ UNCHANGED have
     \/ wit' = At("finish") /\ UNCHANGED have                              \* the block is full
  /\ UNCHANGED read /\ WitnessOnly

ValidObjsFindNew(q) ==
  /\ wit.pc = q
  /\ LET found == IF seq[q] - read[q] < ArraySize THEN seq[q] - read[q] ELSE ArraySize
     IN  /\ read' = [read EXCEPT ![q] = @ + found]
         /\ have' = IF found = ArraySize THEN [have EXCEPT ![q] = TRUE] ELSE have
  /\ wit' = At("build")
  /\ WitnessOnly

\* WaitForWork looks at the flags, takes the mutex, looks again and goes to sleep; with a time limit it
\* takes the time that the exchange needs a block into account.
WaitForWork ==
  /\ wit.pc = "check"
  /\ LET found == \E q \in wit.waits : have[q]
         timed == "tx" \in wit.waits
     IN  \/ down # "no" /\ wit' = At("ended")
         \/ down = "no" /\ found /\ wit' = At(IF have["block"] THEN "scan" ELSE "build")
         \/ down = "no" /\ timed /\ wit' = At("finish")
         \/ down = "no" /\ ~found /\ wit' = [wit EXCEPT !.pc = "locked"]
  /\ UNCHANGED <<have, read>> /\ WitnessOnly

BuggySleep ==
  /\ wit.pc = "locked"
  /\ wit' = [wit EXCEPT !.pc = "asleep", !.until = IF "tx" \in wit.waits THEN wtime.now ELSE 0]
  /\ awake' = FALSE
  /\ UNCHANGED <<have, read, seq, telling, wtime, exch, epoch, down>>

\* With the mutex: the last look and the wait are one step.
Sleep ==
  /\ wit.pc = "locked"
  /\ IF down # "no" \/ \E q \in wit.waits : have[q] THEN wit' = [wit EXCEPT !.pc = "check"]
     ELSE wit' = [wit EXCEPT !.pc = "asleep", !.until = IF "tx" \in wit.waits THEN wtime.now ELSE 0]
  /\ awake' = FALSE
  /\ UNCHANGED <<have, read, seq, telling, wtime, exch, epoch, down>>

\* Woken, or the time is up.
Wake ==
  /\ wit.pc = "asleep" /\ (awake \/ "tx" \in wit.waits)
  /\ wit' = [wit EXCEPT !.pc = "check", !.until = 0] /\ awake' = FALSE
  /\ UNCHANGED <<have, read, seq, telling, wtime, exch, epoch, down>>

\* FinishNewBlock and ValidObjsBlockInsert: the witness inserts its own block and notifies itself, or
\* fails and tries again.
FinishOwnBlock ==
  /\ wit.pc = "finish"
  /\ \/ wit' = At("scan") /\ UNCHANGED <<seq, have>>
     \/ /\ seq["block"] < MaxSeq
        /\ seq' = [seq EXCEPT !["block"] = @ + 1] /\ have' = [have EXCEPT !["block"] = TRUE] /\ wit' = At("scan")
  /\ UNCHANGED <<read, telling, awake, wtime, exch, epoch, down>>

(***************************************************************************)
(* The time of the next exchange work.                                     *)
(***************************************************************************)
BuggyResetExchangeWorkTime(freeze) == wtime' = [wtime EXCEPT !.pending = IF freeze THEN 1 ELSE 0]

ResetExchangeWorkTime(freeze) == wtime' = [now |-> 0, pending |-> IF freeze THEN 1 ELSE 0]

\* UpdateExchangeWorkTime, the part with a timestamp: not while frozen, only an earlier time.
PostWorkTime(e) == IF wtime.pending # 1 /\ (wtime.pending = 0 \/ e < wtime.pending) THEN [wtime EXCEPT !.pending = e] ELSE wtime

BuggyPublishWorkTime ==
  /\ wtime' = [wtime EXCEPT !.now = wtime.pending]
  /\ awake' = (awake \/ (wit.pc = "asleep" /\ (wtime.now = 0 \/ wtime.pending < wtime.now)))

BuggyPublishQuietly ==
  IF wtime.pending <= 1 THEN UNCHANGED <<wtime, awake>>
  ELSE /\ wtime' = [wtime EXCEPT !.now = wtime.pending]
       /\ awake' = (awake \/ (wit.pc = "asleep" /\ wtime.now = 0))

\* The part that notifies: the time is read again, as it may have been reset meanwhile.
PublishWorkTime ==
  IF wtime.pending <= 1 THEN UNCHANGED <<wtime, awake>>
  ELSE /\ wtime' = [wtime EXCEPT !.now = wtime.pending]
       /\ awake' = (awake \/ (wit.pc = "asleep" /\ (wtime.now = 0 \/ wtime.pending < wtime.now)))

ExchangeOnly == UNCHANGED <<seq, telling, have, read, wit, down>>

\* SynchronizeMatching, for a block of the same epoch: CheckUpdateWitnessWorkTime.
SameEpoch ==
  /\ exch.sync = "idle"
  /\ LET posted == PostWorkTime(epoch + 1)
     IN  /\ wtime' = posted
         /\ exch' = [exch EXCEPT !.sync = IF posted = wtime THEN "idle" ELSE "publish"]
  /\ UNCHANGED <<awake, epoch>> /\ ExchangeOnly

SyncPublish ==
  /\ exch.sync = "publish" /\ PublishWorkTime
  /\ exch' = [exch EXCEPT !.sync = "idle"] /\ UNCHANGED epoch /\ ExchangeOnly

\* For a block of a new epoch: freeze, wait for the matching thread, start it again.
NewEpoch ==
  /\ exch.sync = "idle" /\ epoch < MaxEpoch /\ epoch' = epoch + 1
  /\ ResetExchangeWorkTime(TRUE)
  /\ exch' = [exch EXCEPT !.sync = "waits"] /\ UNCHANGED awake /\ ExchangeOnly

StartMatching ==
  /\ exch.sync = "waits" /\ exch.match = "idle"
  /\ ResetExchangeWorkTime(FALSE)
  /\ exch' = [exch EXCEPT !.sync = "idle", !.match = "matching"] /\ UNCHANGED <<awake, epoch>> /\ ExchangeOnly

\* FindMutualMatches: a match has to be made persistent after its hold time.
MatchFound ==
  /\ exch.match = "matching"
  /\ \E hold \in 0..1 : wtime' = PostWorkTime(epoch + hold + 1)
  /\ UNCHANGED <<awake, exch, epoch>> /\ ExchangeOnly

MatchReqsEnd ==
  /\ exch.match = "matching" /\ PublishWorkTime
  /\ exch' = [exch EXCEPT !.match = "idle"] /\ UNCHANGED epoch /\ ExchangeOnly

WorkNext ==
  \/ \E q \in Queues : ObjInsert(q) \/ NotifyNewWork(q)
  \/ \E q \in TxQueues : ValidObjsFindNew(q)
  \/ StartShutdown \/ ShutdownWork
  \/ ResetBlockWork \/ FindBestBlock \/ ResetTxWork \/ WaitForWork \/ Sleep \/ Wake \/ FinishOwnBlock
  \/ SameEpoch \/ SyncPublish \/ NewEpoch \/ StartMatching \/ MatchFound \/ MatchReqsEnd

WorkSpec == WorkInit /\ [][WorkNext]_workVars

(***************************************************************************)
(* Properties.                                                             *)
(***************************************************************************)
WorkTypeOK ==
  /\ \A q \in Queues : read[q] <= seq[q] /\ seq[q] <= MaxSeq
  /\ telling \in [Queues -> BOOLEAN] /\ have \in [Queues -> BOOLEAN] /\ awake \in BOOLEAN
  /\ wit.pc \in {"scan", "find", "build", "tx", "xreq", "check", "locked", "asleep", "finish", "ended"} /\ wit.waits \subseteq Queues
  /\ awake => wit.pc = "asleep"
  /\ wtime.now = 0 \/ wtime.now \in 3..(MaxEpoch + 2)
  /\ wtime.pending \in {0, 1} \cup 3..(MaxEpoch + 2)

Asleep == wit.pc = "asleep" /\ ~awake

\* A witness that sleeps and will not be woken has read everything it waits for, but for what its inserter
\* is still going to tell it of; and it has not missed the shutdown (witness.cpp 1428-1567).
NoWorkMissed ==
  Asleep => /\ down # "told"
            /\ \A q \in wit.waits : read[q] = seq[q] \/ (telling[q] /\ read[q] >= seq[q] - 1)

\* A witness that sleeps until a block has to be built for the exchange knows of the earliest time published
\* (witness.cpp 1513-1533, 1600-1619).
ExchangeTimeSeen == Asleep /\ "tx" \in wit.waits /\ wtime.now # 0 => wit.until # 0 /\ wit.until <= wtime.now

\* While the time is frozen the matching thread cannot publish one (process-xreq.cpp 1266); and when neither
\* thread is at work, the earliest time posted is the one published.
FrozenTimeHidden ==
  /\ wtime.pending = 1 => wtime.now = 0
  /\ exch.sync = "idle" /\ exch.match = "idle" => wtime.now = IF wtime.pending > 1 THEN wtime.pending ELSE 0

\* The witness never sleeps through work, learns of the next exchange time, and never sees
\* one that was frozen (NotifyNewWork, WaitForWork, ResetExchangeWorkTime).
WorkInv == WorkTypeOK /\ NoWorkMissed /\ ExchangeTimeSeen /\ FrozenTimeHidden
=============================================================================
