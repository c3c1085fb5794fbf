---------------------------- MODULE ServiceProofs ---------------------------
(***************************************************************************)
(* Proofs about three services that run beside the consensus: the          *)
(* checkpoint thread, for any set of threads that confirm blocks and any   *)
(* number of commits; the witness, for any number of objects, any size of  *)
(* the array they are read into and any number of epochs; and block sync,  *)
(* for any number of connections and servers, any ranges, span and lag,    *)
(* and any faults.                                                         *)
(*                                                                         *)
(* CkInv is not inductive: the thread that looked at the flags and has not *)
(* gone to sleep yet must find them unchanged when it does, which holds    *)
(* because it has checkpoint_mutex.                                        *)
(*                                                                         *)
(* WorkInv is not inductive: that a sleeping witness has read everything   *)
(* follows from what holds at all times (an object not read yet is         *)
(* flagged, about to be told of, or about to be read), and that the time   *)
(* published is the earliest one from what holds while either thread is    *)
(* still at work.                                                          *)
(*                                                                         *)
(* SyncInv is not inductive: that a server which follows the protocol is   *)
(* never cut off needs that, on every connection, what the server sent,    *)
(* is sending and has still to read adds up to the client's two requests;  *)
(* that m_validations_pending is exact needs the queue's rows counted per  *)
(* owner; and that no level is forgotten needs every level handed out to   *)
(* have an owner while a block is between the socket and the queue.        *)
(***************************************************************************)
EXTENDS Checkpoint, WitnessWork, BlockSync, FiniteSetTheorems, SequenceTheorems, WellFoundedInduction, TLAPS

ConfirmerPoints == {"idle", "writing", "ask", "or", "needed", "lock", "set", "notify"}
WalPoints == {"loop", "wait", "look", "yield", "asleep", "checkpoint", "truncate", "clear", "ended"}
Holders == Confirmers \cup {"wal", NoHolder}

\* The types of all variables
CkTypes ==
  /\ cc \in [Confirmers -> [pc : ConfirmerPoints, full : BOOLEAN, copy : BOOLEAN]]
  /\ mx \in [write : Holders, check : Holders]
  /\ ck \in [pending : BOOLEAN, needed : BOOLEAN, full : BOOLEAN, stop : BOOLEAN, shutdown : BOOLEAN]
  /\ wal \in WalPoints /\ woken \in BOOLEAN
  /\ commits \in 0..MaxCommits /\ saved \in 0..commits

\* Who holds a mutex is at the point of the code that holds it
WriteHeld ==
  /\ \A c \in Confirmers : (cc[c].pc = "writing") <=> (mx.write = c)
  /\ mx.write = "wal" => wal \in {"truncate", "clear"}
  /\ mx.write \in Confirmers => commits < MaxCommits

CheckHeld ==
  /\ \A c \in Confirmers : (cc[c].pc = "set") <=> (mx.check = c)
  /\ (wal \in {"look", "yield"}) <=> (mx.check = "wal")

\* Between its look at the flags and its sleep the flags stay as they were
YieldQuiet == wal = "yield" => ~ck.stop /\ ~ck.needed

CkIInv == CkTypes /\ WriteHeld /\ CheckHeld /\ YieldQuiet /\ CheckpointWakes

-----------------------------------------------------------------------------
\* The node starts with no mutex held and the checkpoint thread awake
LEMMA CkInitIInv == CkInit => CkIInv
<1> SUFFICES ASSUME CkInit PROVE CkIInv
  OBVIOUS
<1> USE DEF CkInit, Resting
<1>1. CkTypes
  <2>1. cc \in [Confirmers -> [pc : ConfirmerPoints, full : BOOLEAN, copy : BOOLEAN]]
    BY DEF ConfirmerPoints
  <2>2. mx \in [write : Holders, check : Holders]
    BY DEF Holders
  <2>3. ck \in [pending : BOOLEAN, needed : BOOLEAN, full : BOOLEAN, stop : BOOLEAN, shutdown : BOOLEAN]
    OBVIOUS
  <2>4. wal \in WalPoints /\ woken \in BOOLEAN
    BY DEF WalPoints
  <2>5. commits \in 0..MaxCommits /\ saved \in 0..commits
    BY CheckpointAssumption
  <2> QED BY <2>1, <2>2, <2>3, <2>4, <2>5 DEF CkTypes
<1>2. WriteHeld /\ CheckHeld
  BY CheckpointAssumption DEF WriteHeld, CheckHeld
<1>3. YieldQuiet /\ CheckpointWakes
  BY DEF YieldQuiet, CheckpointWakes
<1> QED BY <1>1, <1>2, <1>3 DEF CkIInv

\* The threads that confirm blocks
LEMMA ConfirmerStep ==
    ASSUME NEW c \in Confirmers, CkIInv,
           \/ ConfirmBeginWrite(c) \/ EndWrite(c) \/ ReadPending(c) \/ WritePending(c) \/ CheckNeeded(c)
           \/ LockCheckpoint(c) \/ SetNeeded(c) \/ NotifyOne(c)
    PROVE  CkIInv'
<1> USE CheckpointAssumption DEF CkIInv, Goes
<1>1. CASE ConfirmBeginWrite(c)
  <2>1. CkTypes'
    <3>1. PICK full \in BOOLEAN : cc' = [cc EXCEPT ![c] = [pc |-> "writing", full |-> full, copy |-> FALSE]]
      BY <1>1 DEF ConfirmBeginWrite
    <3> QED BY <1>1, <3>1 DEF ConfirmBeginWrite, CkTypes, ConfirmerPoints, WalPoints, Holders
  <2>2. WriteHeld' /\ CheckHeld' /\ YieldQuiet' /\ CheckpointWakes'
    BY <1>1 DEF ConfirmBeginWrite, CkTypes, WriteHeld, CheckHeld, YieldQuiet, CheckpointWakes
  <2> QED BY <2>1, <2>2
<1>2. CASE EndWrite(c)
  <2>1. CkTypes'
    <3>1. CASE ck.shutdown
      <4>0. Resting \in [pc : ConfirmerPoints, full : BOOLEAN, copy : BOOLEAN]
        BY DEF Resting, ConfirmerPoints
      <4>1. cc' \in [Confirmers -> [pc : ConfirmerPoints, full : BOOLEAN, copy : BOOLEAN]]
        BY <1>2, <3>1, <4>0 DEF EndWrite, CkTypes
      <4> QED BY <1>2, <3>1, <4>1 DEF EndWrite, CkTypes, Holders
    <3>2. CASE ~ck.shutdown
      <4>1. cc' \in [Confirmers -> [pc : ConfirmerPoints, full : BOOLEAN, copy : BOOLEAN]]
        BY <1>2, <3>2 DEF EndWrite, CkTypes, ConfirmerPoints
      <4>2. commits' \in 0..MaxCommits /\ saved' \in 0..commits'
        BY <1>2, <3>2 DEF EndWrite, CkTypes, WriteHeld
      <4>3. mx' \in [write : Holders, check : Holders]
        BY <1>2 DEF EndWrite, CkTypes, Holders
      <4> QED BY <1>2, <4>1, <4>2, <4>3 DEF EndWrite, CkTypes
    <3> QED BY <3>1, <3>2
  <2>2. WriteHeld' /\ CheckHeld' /\ YieldQuiet' /\ CheckpointWakes'
    BY <1>2 DEF EndWrite, CkTypes, WriteHeld, CheckHeld, YieldQuiet, CheckpointWakes, Resting
  <2> QED BY <2>1, <2>2
<1>3. CASE ReadPending(c)
  <2>1. CkTypes'
    <3>1. cc' \in [Confirmers -> [pc : ConfirmerPoints, full : BOOLEAN, copy : BOOLEAN]]
      <4>1. ck.pending \in BOOLEAN
        BY DEF CkTypes
      <4> DEFINE r == [cc[c] EXCEPT !.pc = "or", !.copy = ck.pending]
      <4>2. cc[c] \in [pc : ConfirmerPoints, full : BOOLEAN, copy : BOOLEAN] /\ "or" \in ConfirmerPoints
        BY DEF CkTypes, ConfirmerPoints
      <4>3. r \in [pc : ConfirmerPoints, full : BOOLEAN, copy : BOOLEAN]
        BY <4>1, <4>2
      <4>4. cc' = [cc EXCEPT ![c] = r]
        BY <1>3 DEF ReadPending, CkTypes
      <4> HIDE DEF r
      <4> QED BY <4>3, <4>4 DEF CkTypes
    <3> QED BY <1>3, <3>1 DEF ReadPending, CkTypes
  <2>2. WriteHeld' /\ CheckHeld'
    BY <1>3 DEF ReadPending, CkTypes, WriteHeld, CheckHeld
  <2>3. YieldQuiet' /\ CheckpointWakes'
    BY <1>3 DEF ReadPending, CkTypes, CheckHeld, YieldQuiet, CheckpointWakes
  <2> QED BY <2>1, <2>2, <2>3
<1>4. CASE WritePending(c)
  <2>1. CkTypes'
    BY <1>4 DEF WritePending, CkTypes, ConfirmerPoints, WalPoints, Holders
  <2>2. WriteHeld' /\ CheckHeld' /\ YieldQuiet' /\ CheckpointWakes'
    BY <1>4 DEF WritePending, CkTypes, WriteHeld, CheckHeld, YieldQuiet, CheckpointWakes
  <2> QED BY <2>1, <2>2
<1>5. CASE CheckNeeded(c)
  <2>1. CkTypes'
    <3>1. cc' \in [Confirmers -> [pc : ConfirmerPoints, full : BOOLEAN, copy : BOOLEAN]]
      BY <1>5 DEF CheckNeeded, CkTypes, ConfirmerPoints
    <3>2. ck' \in [pending : BOOLEAN, needed : BOOLEAN, full : BOOLEAN, stop : BOOLEAN, shutdown : BOOLEAN]
      BY <1>5 DEF CheckNeeded, CkTypes
    <3> QED BY <1>5, <3>1, <3>2 DEF CheckNeeded, CkTypes
  <2>2. WriteHeld' /\ CheckHeld'
    BY <1>5 DEF CheckNeeded, CkTypes, WriteHeld, CheckHeld
  <2>3. YieldQuiet' /\ CheckpointWakes'
    BY <1>5 DEF CheckNeeded, CkTypes, CheckHeld, YieldQuiet, CheckpointWakes
  <2> QED BY <2>1, <2>2, <2>3
<1>6. CASE LockCheckpoint(c)
  BY <1>6 DEF LockCheckpoint, CkTypes, ConfirmerPoints, WalPoints, Holders, WriteHeld, CheckHeld, YieldQuiet,
     CheckpointWakes
<1>7. CASE SetNeeded(c)
  <2>1. CkTypes'
    BY <1>7 DEF SetNeeded, CkTypes, ConfirmerPoints, WalPoints, Holders
  <2>2. WriteHeld' /\ CheckHeld'
    BY <1>7 DEF SetNeeded, CkTypes, WriteHeld, CheckHeld
  <2>3. mx.check = c /\ wal # "yield"
    BY <1>7 DEF SetNeeded, CheckHeld
  <2>4. YieldQuiet' /\ CheckpointWakes'
    BY <1>7, <2>3 DEF SetNeeded, CkTypes, YieldQuiet, CheckpointWakes
  <2> QED BY <2>1, <2>2, <2>4
<1>8. CASE NotifyOne(c)
  BY <1>8 DEF NotifyOne, CkTypes, ConfirmerPoints, WalPoints, Holders, WriteHeld, CheckHeld, YieldQuiet,
     CheckpointWakes
<1> QED BY <1>1, <1>2, <1>3, <1>4, <1>5, <1>6, <1>7, <1>8

\* The checkpoint thread
LEMMA WalStep ==
    ASSUME CkIInv,
           \/ WalLoop \/ WalLock \/ WalWait \/ WalSleep \/ WalWoken \/ WalCheckpoint \/ WalTruncate \/ WalClear
    PROVE  CkIInv'
<1> USE CheckpointAssumption DEF CkIInv
<1>1. CASE WalLoop
  BY <1>1 DEF WalLoop, CkTypes, ConfirmerPoints, WalPoints, Holders, WriteHeld, CheckHeld, YieldQuiet,
     CheckpointWakes
<1>2. CASE WalLock
  BY <1>2 DEF WalLock, CkTypes, ConfirmerPoints, WalPoints, Holders, WriteHeld, CheckHeld, YieldQuiet,
     CheckpointWakes
<1>3. CASE WalWait
  <2>1. CkTypes'
    BY <1>3 DEF WalWait, CkTypes, ConfirmerPoints, WalPoints, Holders
  <2>2. WriteHeld' /\ CheckHeld'
    BY <1>3 DEF WalWait, CkTypes, WriteHeld, CheckHeld
  <2>3. YieldQuiet' /\ CheckpointWakes'
    BY <1>3 DEF WalWait, CkTypes, CheckHeld, YieldQuiet, CheckpointWakes
  <2> QED BY <2>1, <2>2, <2>3
<1>4. CASE WalSleep
  <2>1. CkTypes'
    <3>1. mx' \in [write : Holders, check : Holders]
      BY <1>4 DEF WalSleep, CkTypes, Holders
    <3>2. ck' \in [pending : BOOLEAN, needed : BOOLEAN, full : BOOLEAN, stop : BOOLEAN, shutdown : BOOLEAN]
      BY <1>4 DEF WalSleep, CkTypes
    <3>3. wal' \in WalPoints /\ woken' \in BOOLEAN
      BY <1>4 DEF WalSleep, CkTypes, WalPoints
    <3> QED BY <1>4, <3>1, <3>2, <3>3 DEF WalSleep, CkTypes
  <2>2. WriteHeld' /\ CheckHeld'
    BY <1>4 DEF WalSleep, CkTypes, WriteHeld, CheckHeld
  <2>3. YieldQuiet' /\ CheckpointWakes'
    BY <1>4 DEF WalSleep, CkTypes, YieldQuiet, CheckpointWakes
  <2> QED BY <2>1, <2>2, <2>3
<1>5. CASE WalWoken
  BY <1>5 DEF WalWoken, CkTypes, ConfirmerPoints, WalPoints, Holders, WriteHeld, CheckHeld, YieldQuiet,
     CheckpointWakes
<1>6. CASE WalCheckpoint
  <2>1. CkTypes'
    BY <1>6 DEF WalCheckpoint, CkTypes, ConfirmerPoints, WalPoints, Holders
  <2>2. WriteHeld' /\ CheckHeld'
    BY <1>6 DEF WalCheckpoint, CkTypes, WriteHeld, CheckHeld
  <2>3. YieldQuiet' /\ CheckpointWakes'
    BY <1>6 DEF WalCheckpoint, CkTypes, CheckHeld, YieldQuiet, CheckpointWakes
  <2> QED BY <2>1, <2>2, <2>3
<1>7. CASE WalTruncate
  <2>1. CkTypes'
    BY <1>7 DEF WalTruncate, CkTypes, ConfirmerPoints, WalPoints, Holders
  <2>2. WriteHeld' /\ CheckHeld'
    BY <1>7 DEF WalTruncate, CkTypes, WriteHeld, CheckHeld
  <2>3. YieldQuiet' /\ CheckpointWakes'
    BY <1>7 DEF WalTruncate, CkTypes, CheckHeld, YieldQuiet, CheckpointWakes
  <2> QED BY <2>1, <2>2, <2>3
<1>8. CASE WalClear
  <2>1. CkTypes'
    <3>1. mx' \in [write : Holders, check : Holders]
      BY <1>8 DEF WalClear, CkTypes, Holders
    <3>2. ck' \in [pending : BOOLEAN, needed : BOOLEAN, full : BOOLEAN, stop : BOOLEAN, shutdown : BOOLEAN]
      BY <1>8 DEF WalClear, CkTypes
    <3>3. wal' \in WalPoints /\ woken' \in BOOLEAN
      BY <1>8 DEF WalClear, CkTypes, WalPoints
    <3> QED BY <1>8, <3>1, <3>2, <3>3 DEF WalClear, CkTypes
  <2>2. WriteHeld' /\ CheckHeld'
    BY <1>8 DEF WalClear, CkTypes, WriteHeld, CheckHeld
  <2>3. YieldQuiet' /\ CheckpointWakes'
    BY <1>8 DEF WalClear, CkTypes, YieldQuiet, CheckpointWakes
  <2> QED BY <2>1, <2>2, <2>3
<1> QED BY <1>1, <1>2, <1>3, <1>4, <1>5, <1>6, <1>7, <1>8

\* The end of the node: the flag is set and the thread woken under checkpoint_mutex
LEMMA ShutdownStep ==
    ASSUME CkIInv, SetShutdown \/ WalStopCheckpointing PROVE CkIInv'
<1> USE CheckpointAssumption DEF CkIInv
<1>1. CASE SetShutdown
  BY <1>1 DEF SetShutdown, CkTypes, ConfirmerPoints, WalPoints, Holders, WriteHeld, CheckHeld, YieldQuiet,
     CheckpointWakes
<1>2. CASE WalStopCheckpointing
  BY <1>2 DEF WalStopCheckpointing, CkTypes, ConfirmerPoints, WalPoints, Holders, WriteHeld, CheckHeld,
     YieldQuiet, CheckpointWakes
<1> QED BY <1>1, <1>2

LEMMA CkInvariance == CkSpec => []CkIInv
<1>1. CkIInv /\ [CkNext]_ckVars => CkIInv'
  <2> SUFFICES ASSUME CkIInv, [CkNext]_ckVars PROVE CkIInv'
    OBVIOUS
  <2>1. CASE UNCHANGED ckVars
    BY <2>1 DEF ckVars, CkIInv, CkTypes, WriteHeld, CheckHeld, YieldQuiet, CheckpointWakes
  <2> QED BY <2>1, ConfirmerStep, WalStep, ShutdownStep DEF CkNext
<1> QED BY <1>1, CkInitIInv, PTL DEF CkSpec

(* The checkpoint thread never sleeps with a checkpoint or the end of the node asked for and nobody about *)
(* to wake it, whoever asks and however often (dbconn-wal.cpp).                                           *)
THEOREM CheckpointCorrect == CkSpec => []CkInv
<1>1. CkIInv => CkInv
  BY DEF CkIInv, CkTypes, Holders, WriteHeld, CheckHeld, CkInv, CkTypeOK
<1> QED BY <1>1, CkInvariance, PTL

-----------------------------------------------------------------------------
Points == {"scan", "find", "build", "tx", "xreq", "check", "locked", "asleep", "finish", "ended"}

\* The types of all variables
WkTypes ==
  /\ seq \in [Queues -> 0 .. MaxSeq] /\ read \in [Queues -> Nat] /\ \A q \in Queues : read[q] <= seq[q]
  /\ telling \in [Queues -> BOOLEAN] /\ have \in [Queues -> BOOLEAN] /\ awake \in BOOLEAN
  /\ wit \in [pc : Points, waits : SUBSET Queues, until : Nat]
  /\ awake => wit.pc = "asleep"
  /\ down \in {"no", "set", "told"}

\* The witness has cleared the flag of the queue and is about to read it
Reading(q) == (q = "block" /\ wit.pc = "find") \/ (q \in TxQueues /\ wit.pc = q)

\* Nothing is left unread that nobody will tell of
Unread(q) == read[q] = seq[q] \/ have[q] \/ (telling[q] /\ read[q] >= seq[q] - 1) \/ Reading(q)

AllTold == \A q \in Queues : Unread(q)

\* No flag is set that a witness waits for which sleeps and was not woken
SleepQuiet == Asleep => down # "told" /\ \A q \in wit.waits : ~have[q]

\* The times
Times ==
  /\ wtime \in [now : Nat, pending : Nat]
  /\ exch \in [sync : {"idle", "publish", "waits"}, match : {"idle", "matching"}]
  /\ epoch \in 2 .. MaxEpoch
  /\ wtime.now = 0 \/ wtime.now \in 3 .. (MaxEpoch + 2)
  /\ wtime.pending \in {0, 1} \cup 3 .. (MaxEpoch + 2)

\* A time published was posted and not reset since, and what is posted is published
\* before both threads rest
Published ==
  /\ wtime.pending <= 1 => wtime.now = 0
  /\ exch.sync = "publish" => wtime.pending > 1
  /\ exch.sync = "waits" => wtime.pending = 1
  /\ exch.sync = "idle" /\ exch.match = "idle" => wtime.now = IF wtime.pending > 1 THEN wtime.pending ELSE 0

WkIInv == WkTypes /\ AllTold /\ SleepQuiet /\ Times /\ Published /\ ExchangeTimeSeen

-----------------------------------------------------------------------------
\* The witness starts awake, with nothing inserted
LEMMA WkInitIInv == WorkInit => WkIInv
<1> SUFFICES ASSUME WorkInit PROVE WkIInv
  OBVIOUS
<1> USE DEF WorkInit, At
<1>1. WkTypes
  <2>1. wit \in [pc : Points, waits : SUBSET Queues, until : Nat]
    BY DEF Points
  <2>2. seq \in [Queues -> 0 .. MaxSeq] /\ read \in [Queues -> Nat] /\ \A q \in Queues : read[q] <= seq[q]
    BY WitnessWorkAssumption
  <2> QED BY <2>1, <2>2 DEF WkTypes
<1>2. AllTold
  BY DEF AllTold, Unread
<1>3. Times
  BY WitnessWorkAssumption DEF Times
<1>4. SleepQuiet /\ Published /\ ExchangeTimeSeen
  BY DEF SleepQuiet, Published, ExchangeTimeSeen, Asleep
<1> QED BY <1>1, <1>2, <1>3, <1>4 DEF WkIInv

\* What the inductive invariant says of a sleeping witness and of the times
LEMMA WkSuffices == WkIInv => WorkInv
<1> SUFFICES ASSUME WkIInv PROVE WorkInv
  OBVIOUS
<1>1. WorkTypeOK
  <2>1. \A q \in Queues : read[q] <= seq[q] /\ seq[q] <= MaxSeq
    BY WitnessWorkAssumption DEF WkIInv, WkTypes
  <2>2. wit.pc \in Points /\ wit.waits \subseteq Queues
    BY DEF WkIInv, WkTypes
  <2> QED BY <2>1, <2>2 DEF WkIInv, WkTypes, Times, WorkTypeOK, Points
<1>2. NoWorkMissed
  <2> SUFFICES ASSUME Asleep PROVE /\ down # "told"
                                   /\ \A q \in wit.waits : read[q] = seq[q] \/ (telling[q] /\ read[q] >= seq[q] - 1)
    BY DEF NoWorkMissed
  <2>1. down # "told" /\ \A q \in wit.waits : ~have[q] /\ q \in Queues
    BY DEF WkIInv, WkTypes, SleepQuiet
  <2>2. \A q \in Queues : ~Reading(q)
    BY DEF Asleep, Reading, TxQueues
  <2> QED BY <2>1, <2>2 DEF WkIInv, AllTold, Unread
<1>3. FrozenTimeHidden
  BY DEF WkIInv, Times, Published, FrozenTimeHidden
<1> QED BY <1>1, <1>2, <1>3 DEF WkIInv, WorkInv

-----------------------------------------------------------------------------
(* The threads that insert.                                                  *)

LEMMA InsertKeeps == ASSUME WkIInv, NEW q \in Queues, ObjInsert(q) PROVE WkIInv'
<1> USE DEF WkIInv
<1>1. /\ seq[q] < MaxSeq /\ seq' = [seq EXCEPT ![q] = @ + 1] /\ telling' = [telling EXCEPT ![q] = TRUE] /\ ~telling[q]
      /\ UNCHANGED << have, read, wit, awake, wtime, exch, epoch, down >>
  BY DEF ObjInsert
<1>2. seq'[q] = seq[q] + 1 /\ telling'[q] /\ seq[q] \in Nat /\ read[q] \in Nat
  BY <1>1 DEF WkTypes
<1>3. \A r \in Queues : r # q => seq'[r] = seq[r] /\ telling'[r] = telling[r]
  BY <1>1 DEF WkTypes
<1>4. WkTypes'
  <2>1. seq' \in [Queues -> 0 .. MaxSeq]
    BY <1>1, WitnessWorkAssumption DEF WkTypes
  <2>2. \A r \in Queues : read'[r] <= seq'[r]
    BY <1>1, <1>2, <1>3 DEF WkTypes
  <2>3. telling' \in [Queues -> BOOLEAN]
    BY <1>1 DEF WkTypes
  <2> QED BY <1>1, <2>1, <2>2, <2>3 DEF WkTypes
<1>5. AllTold'
  <2> SUFFICES ASSUME NEW r \in Queues PROVE Unread(r)'
    BY DEF AllTold
  <2>1. Unread(r)
    BY DEF AllTold
  <2>2. CASE r # q
    BY <1>1, <1>3, <2>1, <2>2 DEF Unread, Reading
  <2>3. CASE r = q
    <3>1. read[q] = seq[q] \/ have[q] \/ Reading(q)
      BY <1>1, <2>1, <2>3 DEF Unread
    <3>2. read[q] = seq[q] => telling'[q] /\ read'[q] >= seq'[q] - 1
      BY <1>1, <1>2
    <3> QED BY <1>1, <2>3, <3>1, <3>2 DEF Unread, Reading
  <2> QED BY <2>2, <2>3
<1> QED BY <1>1, <1>4, <1>5 DEF SleepQuiet, Asleep, Times, Published, ExchangeTimeSeen

LEMMA NotifyKeeps == ASSUME WkIInv, NEW q \in Queues, NotifyNewWork(q) PROVE WkIInv'
<1> USE DEF WkIInv
<1>1. /\ telling' = [telling EXCEPT ![q] = FALSE] /\ have' = [have EXCEPT ![q] = TRUE]
      /\ awake' = (awake \/ (wit.pc = "asleep" /\ q \in wit.waits))
      /\ UNCHANGED << seq, read, wit, wtime, exch, epoch, down >>
  BY DEF NotifyNewWork
<1>2. have'[q] /\ \A r \in Queues : r # q => have'[r] = have[r] /\ telling'[r] = telling[r]
  BY <1>1 DEF WkTypes
<1>3. WkTypes'
  <2>1. telling' \in [Queues -> BOOLEAN] /\ have' \in [Queues -> BOOLEAN]
    BY <1>1 DEF WkTypes
  <2>2. awake' \in BOOLEAN /\ (awake' => wit'.pc = "asleep")
    BY <1>1 DEF WkTypes
  <2> QED BY <1>1, <2>1, <2>2 DEF WkTypes
<1>4. AllTold'
  <2> SUFFICES ASSUME NEW r \in Queues PROVE Unread(r)'
    BY DEF AllTold
  <2>1. CASE r = q
    BY <1>2, <2>1 DEF Unread
  <2>2. CASE r # q
    BY <1>1, <1>2, <2>2 DEF AllTold, Unread, Reading
  <2> QED BY <2>1, <2>2
<1>5. SleepQuiet'
  <2> SUFFICES ASSUME Asleep' PROVE down # "told" /\ \A r \in wit.waits : ~have'[r]
    BY <1>1 DEF SleepQuiet
  <2>1. Asleep /\ q \notin wit.waits
    BY <1>1 DEF Asleep
  <2> QED BY <1>2, <2>1 DEF SleepQuiet, WkTypes
<1>6. ExchangeTimeSeen'
  BY <1>1 DEF ExchangeTimeSeen, Asleep
<1> QED BY <1>1, <1>3, <1>4, <1>5, <1>6 DEF Times, Published

LEMMA ShutdownKeeps == ASSUME WkIInv, StartShutdown \/ ShutdownWork PROVE WkIInv'
<1> USE DEF WkIInv
<1>1. UNCHANGED << seq, telling, have, read, wit, wtime, exch, epoch >>
  BY DEF StartShutdown, ShutdownWork
<1>2. AllTold' /\ Times' /\ Published'
  BY <1>1 DEF AllTold, Unread, Reading, Times, Published
<1>3. CASE StartShutdown
  <2>1. down' = "set" /\ awake' = awake
    BY <1>3 DEF StartShutdown
  <2> QED BY <1>1, <1>2, <2>1 DEF WkTypes, SleepQuiet, Asleep, ExchangeTimeSeen
<1>4. CASE ShutdownWork
  <2>1. down' = "told" /\ awake' = (awake \/ wit.pc = "asleep")
    BY <1>4 DEF ShutdownWork
  <2>2. ~Asleep'
    BY <1>1, <2>1 DEF Asleep
  <2>3. WkTypes'
    BY <1>1, <2>1 DEF WkTypes
  <2> QED BY <1>2, <2>2, <2>3 DEF SleepQuiet, ExchangeTimeSeen
<1> QED BY <1>3, <1>4

-----------------------------------------------------------------------------
(* The witness.                                                              *)

\* A step of the witness that ends awake
LEMMA AwakeSteps ==
    ASSUME WkIInv, WkTypes', AllTold', wit'.pc # "asleep", UNCHANGED << wtime, exch, epoch >>
    PROVE  WkIInv'
BY DEF WkIInv, SleepQuiet, ExchangeTimeSeen, Asleep, Times, Published

LEMMA AtTypes == ASSUME NEW p \in Points PROVE At(p) \in [pc : Points, waits : SUBSET Queues, until : Nat] /\ At(p).pc = p
BY DEF At

\* A step from an awake state to an awake state that reads nothing and clears no flag
LEMMA MovesKeep ==
    ASSUME WkIInv, UNCHANGED << seq, telling, read, wtime, exch, epoch, down, have, awake >>,
           wit.pc \notin {"find", "tx", "xreq", "asleep"},
           wit' \in [pc : Points, waits : SUBSET Queues, until : Nat], wit'.pc # "asleep"
    PROVE  WkIInv'
<1>1. WkTypes'
  BY DEF WkIInv, WkTypes
<1>2. AllTold'
  BY DEF WkIInv, AllTold, Unread, Reading, TxQueues
<1> QED BY <1>1, <1>2, AwakeSteps

LEMMA ResetBlockKeeps == ASSUME WkIInv, ResetBlockWork PROVE WkIInv'
<1> USE DEF WkIInv
<1>1. UNCHANGED << read, seq, telling, awake, wtime, exch, epoch, down >> /\ wit.pc = "scan"
  BY DEF ResetBlockWork, WitnessOnly
<1>2. CASE down # "no"
  <2>1. wit' = At("ended") /\ have' = have
    BY <1>2 DEF ResetBlockWork
  <2>2. wit' \in [pc : Points, waits : SUBSET Queues, until : Nat] /\ wit'.pc = "ended"
    BY <2>1, AtTypes DEF Points
  <2> QED BY <1>1, <2>1, <2>2, MovesKeep
<1>3. CASE down = "no"
  <2>1. wit' = At("find") /\ have' = [have EXCEPT !["block"] = FALSE]
    BY <1>3 DEF ResetBlockWork
  <2>2. wit' \in [pc : Points, waits : SUBSET Queues, until : Nat] /\ wit'.pc = "find"
    BY <2>1, AtTypes DEF Points
  <2>3. have' \in [Queues -> BOOLEAN] /\ \A q \in Queues : q # "block" => have'[q] = have[q]
    BY <2>1 DEF WkTypes
  <2>4. WkTypes'
    BY <1>1, <2>2, <2>3 DEF WkTypes
  <2>5. AllTold'
    <3> SUFFICES ASSUME NEW q \in Queues PROVE Unread(q)'
      BY DEF AllTold
    <3>1. CASE q = "block"
      BY <2>2, <3>1 DEF Unread, Reading
    <3>2. CASE q # "block"
      <4>1. Unread(q) /\ ~Reading(q)
        BY <1>1, <3>2 DEF AllTold, Reading, TxQueues
      <4> QED BY <1>1, <2>3, <3>2, <4>1 DEF Unread
    <3> QED BY <3>1, <3>2
  <2> QED BY <1>1, <2>2, <2>4, <2>5, AwakeSteps
<1> QED BY <1>2, <1>3

LEMMA FindKeeps == ASSUME WkIInv, FindBestBlock PROVE WkIInv'
<1> USE DEF WkIInv
<1>1. UNCHANGED << seq, telling, awake, wtime, exch, epoch, down >> /\ wit.pc = "find"
  BY DEF FindBestBlock, WitnessOnly
<1>2. wit' \in [pc : Points, waits : SUBSET Queues, until : Nat] /\ wit'.pc \in {"check", "build"}
  <2>1. wit' = [pc |-> "check", waits |-> {"block"}, until |-> 0] \/ wit' = At("build")
    BY DEF FindBestBlock
  <2> QED BY <2>1, AtTypes DEF Points, Queues
<1>3. \/ read' = [read EXCEPT !["block"] = seq["block"]] /\ have' = have
      \/ /\ read' = [q \in Queues |-> IF q = "block" THEN seq[q] ELSE 0]
         /\ have' = [q \in Queues |-> q \in TxQueues \/ have[q]]
  BY DEF FindBestBlock
<1>4. \A q \in Queues : seq[q] \in Nat /\ read[q] \in Nat /\ read[q] <= seq[q]
  BY DEF WkTypes
<1>5. "block" \in Queues /\ \A q \in Queues : q # "block" => q \in TxQueues
  BY DEF Queues, TxQueues
<1>6. read' \in [Queues -> Nat] /\ \A q \in Queues : read'[q] <= seq[q]
  BY <1>3, <1>4 DEF WkTypes
<1>7. have' \in [Queues -> BOOLEAN]
  BY <1>3 DEF WkTypes
<1>8. WkTypes'
  BY <1>1, <1>2, <1>6, <1>7 DEF WkTypes
<1>9. AllTold'
  <2> SUFFICES ASSUME NEW q \in Queues PROVE Unread(q)'
    BY DEF AllTold
  <2>1. CASE q = "block"
    <3>1. read'[q] = seq[q]
      BY <1>3, <2>1 DEF WkTypes
    <3> QED BY <1>1, <3>1 DEF Unread
  <2>2. CASE q # "block" /\ read' = [read EXCEPT !["block"] = seq["block"]] /\ have' = have
    <3>1. Unread(q) /\ ~Reading(q) /\ read'[q] = read[q]
      BY <1>1, <2>2 DEF AllTold, Reading, TxQueues, WkTypes
    <3> QED BY <1>1, <2>2, <3>1 DEF Unread
  <2>3. CASE q # "block" /\ have' = [r \in Queues |-> r \in TxQueues \/ have[r]]
    <3>1. have'[q]
      BY <1>5, <2>3
    <3> QED BY <3>1 DEF Unread
  <2> QED BY <1>3, <2>1, <2>2, <2>3
<1> QED BY <1>1, <1>2, <1>8, <1>9, AwakeSteps

LEMMA ResetTxKeeps == ASSUME WkIInv, ResetTxWork PROVE WkIInv'
<1> USE DEF WkIInv
<1>1. UNCHANGED << read, seq, telling, awake, wtime, exch, epoch, down >> /\ wit.pc = "build"
  BY DEF ResetTxWork, WitnessOnly
<1>2. ASSUME NEW q \in TxQueues, have' = [have EXCEPT ![q] = FALSE], wit' = At(q) PROVE WkIInv'
  <2>1. wit' \in [pc : Points, waits : SUBSET Queues, until : Nat] /\ wit'.pc = q /\ q # "asleep" /\ q \in Queues
    BY <1>2, AtTypes DEF Points, TxQueues, Queues
  <2>2. have' \in [Queues -> BOOLEAN] /\ \A r \in Queues : r # q => have'[r] = have[r]
    BY <1>2 DEF WkTypes
  <2>3. WkTypes'
    BY <1>1, <2>1, <2>2 DEF WkTypes
  <2>4. AllTold'
    <3> SUFFICES ASSUME NEW r \in Queues PROVE Unread(r)'
      BY DEF AllTold
    <3>1. CASE r = q
      BY <2>1, <3>1 DEF Unread, Reading
    <3>2. CASE r # q
      <4>1. Unread(r) /\ ~Reading(r)
        BY <1>1 DEF AllTold, Reading, TxQueues
      <4> QED BY <1>1, <2>2, <3>2, <4>1 DEF Unread
    <3> QED BY <3>1, <3>2
  <2> QED BY <1>1, <2>1, <2>3, <2>4, AwakeSteps
<1>3. CASE have' = have /\ wit' \in {[pc |-> "check", waits |-> Queues, until |-> 0], At("finish")}
  <2>1. wit' \in [pc : Points, waits : SUBSET Queues, until : Nat] /\ wit'.pc # "asleep"
    BY <1>3, AtTypes DEF Points
  <2> QED BY <1>1, <1>3, <2>1, MovesKeep
<1> QED BY <1>2, <1>3 DEF ResetTxWork

LEMMA FindNewKeeps == ASSUME WkIInv, NEW q \in TxQueues, ValidObjsFindNew(q) PROVE WkIInv'
<1> USE DEF WkIInv
<1> DEFINE found == IF seq[q] - read[q] < ArraySize THEN seq[q] - read[q] ELSE ArraySize
<1>1. /\ UNCHANGED << seq, telling, awake, wtime, exch, epoch, down >> /\ wit.pc = q
      /\ read' = [read EXCEPT ![q] = @ + found] /\ wit' = At("build")
      /\ have' = IF found = ArraySize THEN [have EXCEPT ![q] = TRUE] ELSE have
  BY DEF ValidObjsFindNew, WitnessOnly
<1>2. q \in Queues /\ seq[q] \in Nat /\ read[q] \in Nat /\ read[q] <= seq[q]
  BY DEF WkTypes, Queues, TxQueues
<1>3. found \in Nat /\ read[q] + found <= seq[q] /\ (found = ArraySize \/ read[q] + found = seq[q])
  BY <1>2, WitnessWorkAssumption
<1> HIDE DEF found
<1>4. wit' \in [pc : Points, waits : SUBSET Queues, until : Nat] /\ wit'.pc = "build"
  BY <1>1, AtTypes DEF Points
<1>5. read'[q] = read[q] + found /\ \A r \in Queues : r # q => read'[r] = read[r] /\ have'[r] = have[r]
  BY <1>1, <1>2 DEF WkTypes
<1>6. have' \in [Queues -> BOOLEAN] /\ (found = ArraySize => have'[q])
  BY <1>1, <1>2 DEF WkTypes
<1>7. read' \in [Queues -> Nat] /\ \A r \in Queues : read'[r] <= seq[r]
  BY <1>1, <1>2, <1>3, <1>5 DEF WkTypes
<1>8. WkTypes'
  BY <1>1, <1>4, <1>6, <1>7 DEF WkTypes, TxQueues
<1>9. AllTold'
  <2> SUFFICES ASSUME NEW r \in Queues PROVE Unread(r)'
    BY DEF AllTold
  <2>1. CASE r = q
    <3>1. read'[q] = seq'[q] \/ have'[q]
      BY <1>1, <1>3, <1>5, <1>6
    <3> QED BY <2>1, <3>1 DEF Unread
  <2>2. CASE r # q
    <3>1. Unread(r) /\ ~Reading(r)
      BY <1>1, <2>2 DEF AllTold, Reading, TxQueues
    <3> QED BY <1>1, <1>5, <2>2, <3>1 DEF Unread
  <2> QED BY <2>1, <2>2
<1> QED BY <1>1, <1>4, <1>8, <1>9, AwakeSteps

LEMMA WaitKeeps == ASSUME WkIInv, WaitForWork PROVE WkIInv'
<1>1. UNCHANGED << have, read, seq, telling, awake, wtime, exch, epoch, down >> /\ wit.pc = "check"
  BY DEF WaitForWork, WitnessOnly
<1>2. wit' \in {At("ended"), At("scan"), At("build"), At("finish"), [wit EXCEPT !.pc = "locked"]}
  BY DEF WaitForWork
<1>3. wit' \in [pc : Points, waits : SUBSET Queues, until : Nat] /\ wit'.pc # "asleep"
  <2>1. CASE wit' = [wit EXCEPT !.pc = "locked"]
    <3>1. "locked" \in Points
      BY DEF Points
    <3> QED BY <2>1, <3>1 DEF WkIInv, WkTypes
  <2>2. CASE wit' \in {At("ended"), At("scan"), At("build"), At("finish")}
    <3>1. PICK p \in {"ended", "scan", "build", "finish"} : wit' = At(p)
      BY <2>2
    <3>2. p \in Points /\ p # "asleep"
      BY DEF Points
    <3> QED BY <3>1, <3>2, AtTypes
  <2> QED BY <1>2, <2>1, <2>2
<1> QED BY <1>1, <1>3, MovesKeep

LEMMA SleepKeeps == ASSUME WkIInv, Sleep PROVE WkIInv'
<1> USE DEF WkIInv
<1>1. UNCHANGED << have, read, seq, telling, wtime, exch, epoch, down >> /\ wit.pc = "locked" /\ awake' = FALSE
  BY DEF Sleep
<1>2. awake' = awake
  BY <1>1 DEF WkTypes
<1>3. CASE down # "no" \/ \E q \in wit.waits : have[q]
  <2>1. wit' = [wit EXCEPT !.pc = "check"]
    BY <1>3 DEF Sleep
  <2>2. wit' \in [pc : Points, waits : SUBSET Queues, until : Nat] /\ wit'.pc # "asleep"
    BY <2>1 DEF WkTypes, Points
  <2> QED BY <1>1, <1>2, <2>2, MovesKeep
<1>4. CASE ~(down # "no" \/ \E q \in wit.waits : have[q])
  <2>1. wit' = [wit EXCEPT !.pc = "asleep", !.until = IF "tx" \in wit.waits THEN wtime.now ELSE 0]
    BY <1>4 DEF Sleep
  <2>2. wtime.now \in Nat
    BY DEF Times
  <2>3. /\ wit' \in [pc : Points, waits : SUBSET Queues, until : Nat] /\ wit'.pc = "asleep" /\ wit'.waits = wit.waits
        /\ ("tx" \in wit.waits => wit'.until = wtime.now)
    BY <2>1, <2>2 DEF WkTypes, Points
  <2>4. WkTypes'
    BY <1>1, <2>3 DEF WkTypes
  <2>5. AllTold'
    BY <1>1 DEF AllTold, Unread, Reading, TxQueues
  <2>6. SleepQuiet'
    BY <1>1, <1>4, <2>3 DEF SleepQuiet
  <2>7. ExchangeTimeSeen'
    BY <1>1, <2>2, <2>3 DEF ExchangeTimeSeen
  <2> QED BY <1>1, <2>4, <2>5, <2>6, <2>7 DEF Times, Published
<1> QED BY <1>3, <1>4

LEMMA WakeKeeps == ASSUME WkIInv, Wake PROVE WkIInv'
<1> USE DEF WkIInv
<1>1. /\ UNCHANGED << have, read, seq, telling, wtime, exch, epoch, down >> /\ wit.pc = "asleep" /\ awake' = FALSE
      /\ wit' = [wit EXCEPT !.pc = "check", !.until = 0]
  BY DEF Wake
<1>2. wit' \in [pc : Points, waits : SUBSET Queues, until : Nat] /\ wit'.pc = "check"
  BY <1>1 DEF WkTypes, Points
<1>3. WkTypes'
  BY <1>1, <1>2 DEF WkTypes
<1>4. AllTold'
  BY <1>1 DEF AllTold, Unread, Reading, TxQueues
<1> QED BY <1>1, <1>2, <1>3, <1>4, AwakeSteps

LEMMA FinishKeeps == ASSUME WkIInv, FinishOwnBlock PROVE WkIInv'
<1> USE DEF WkIInv
<1>1. UNCHANGED << read, telling, awake, wtime, exch, epoch, down >> /\ wit.pc = "finish" /\ wit' = At("scan")
  BY DEF FinishOwnBlock
<1>2. wit' \in [pc : Points, waits : SUBSET Queues, until : Nat] /\ wit'.pc = "scan"
  BY <1>1, AtTypes DEF Points
<1>3. CASE UNCHANGED << seq, have >>
  BY <1>1, <1>2, <1>3, MovesKeep
<1>4. CASE /\ seq["block"] < MaxSeq /\ seq' = [seq EXCEPT !["block"] = @ + 1]
           /\ have' = [have EXCEPT !["block"] = TRUE]
  <2>1. "block" \in Queues
    BY DEF Queues
  <2>2. /\ have'["block"] /\ have' \in [Queues -> BOOLEAN] /\ seq'["block"] = seq["block"] + 1
        /\ \A r \in Queues : r # "block" => have'[r] = have[r] /\ seq'[r] = seq[r]
    BY <1>4, <2>1 DEF WkTypes
  <2>3. seq' \in [Queues -> 0 .. MaxSeq] /\ \A r \in Queues : read[r] <= seq'[r]
    BY <1>4, <2>1, <2>2, WitnessWorkAssumption DEF WkTypes
  <2>4. WkTypes'
    BY <1>1, <1>2, <2>2, <2>3 DEF WkTypes
  <2>5. AllTold'
    <3> SUFFICES ASSUME NEW r \in Queues PROVE Unread(r)'
      BY DEF AllTold
    <3>1. CASE r = "block"
      BY <2>2, <3>1 DEF Unread
    <3>2. CASE r # "block"
      <4>1. Unread(r) /\ ~Reading(r)
        BY <1>1 DEF AllTold, Reading, TxQueues
      <4> QED BY <1>1, <2>2, <3>2, <4>1 DEF Unread
    <3> QED BY <3>1, <3>2
  <2> QED BY <1>1, <1>2, <2>4, <2>5, AwakeSteps
<1> QED BY <1>3, <1>4 DEF FinishOwnBlock

-----------------------------------------------------------------------------
(* The time of the next exchange work.                                       *)

\* What a step of the other threads leaves alone
LEMMA ExchangeFrame ==
    ASSUME WkIInv, ExchangeOnly, awake' \in BOOLEAN, awake => awake', awake' => wit.pc = "asleep"
    PROVE  WkTypes' /\ AllTold' /\ SleepQuiet'
<1>1. UNCHANGED << seq, telling, have, read, wit, down >>
  BY DEF ExchangeOnly
<1>2. WkTypes'
  BY <1>1 DEF WkIInv, WkTypes
<1>3. AllTold'
  BY <1>1 DEF WkIInv, AllTold, Unread, Reading
<1>4. SleepQuiet'
  BY <1>1 DEF WkIInv, SleepQuiet, Asleep
<1> QED BY <1>2, <1>3, <1>4

\* A step that publishes no time
LEMMA QuietTimes ==
    ASSUME WkIInv, ExchangeOnly, awake' = awake, wtime'.now \in {0, wtime.now}, Times', Published'
    PROVE  WkIInv'
<1>1. WkTypes' /\ AllTold' /\ SleepQuiet'
  BY ExchangeFrame DEF WkIInv, WkTypes
<1>2. ExchangeTimeSeen'
  BY DEF WkIInv, ExchangeTimeSeen, Asleep, ExchangeOnly
<1> QED BY <1>1, <1>2 DEF WkIInv

\* PublishWorkTime wakes a witness that would sleep too long
LEMMA PublishTimes ==
    ASSUME WkIInv, ExchangeOnly, PublishWorkTime, Times', Published'
    PROVE  WkIInv'
<1> USE DEF WkIInv
<1>1. CASE wtime.pending <= 1
  <2>1. awake' = awake /\ wtime' = wtime
    BY <1>1 DEF PublishWorkTime
  <2> QED BY <2>1, QuietTimes
<1>2. CASE ~(wtime.pending <= 1)
  <2>1. /\ wtime' = [wtime EXCEPT !.now = wtime.pending]
        /\ awake' = (awake \/ (wit.pc = "asleep" /\ (wtime.now = 0 \/ wtime.pending < wtime.now)))
    BY <1>2 DEF PublishWorkTime
  <2>2. wtime'.now = wtime.pending /\ wtime.pending \in Nat /\ wtime.now \in Nat
    BY <2>1 DEF Times
  <2>3. awake' \in BOOLEAN /\ (awake => awake') /\ (awake' => wit.pc = "asleep")
    BY <2>1 DEF WkTypes
  <2>4. WkTypes' /\ AllTold' /\ SleepQuiet'
    BY <2>3, ExchangeFrame
  <2>5. ExchangeTimeSeen'
    <3> SUFFICES ASSUME Asleep', "tx" \in wit'.waits PROVE wit'.until # 0 /\ wit'.until <= wtime'.now
      BY DEF ExchangeTimeSeen
    <3>1. wit' = wit /\ Asleep /\ wtime.now # 0 /\ ~(wtime.pending < wtime.now)
      BY <2>1 DEF Asleep, ExchangeOnly
    <3>2. wit.until # 0 /\ wit.until <= wtime.now /\ wit.until \in Nat
      BY <3>1 DEF ExchangeTimeSeen, WkTypes
    <3> QED BY <2>2, <3>1, <3>2
  <2> QED BY <2>4, <2>5
<1> QED BY <1>1, <1>2

LEMMA Posted ==
    ASSUME Times, Published, NEW e \in 3 .. (MaxEpoch + 2)
    PROVE  /\ PostWorkTime(e) \in [now : Nat, pending : Nat] /\ PostWorkTime(e).now = wtime.now
           /\ PostWorkTime(e).pending \in {0, 1} \cup 3 .. (MaxEpoch + 2)
           /\ PostWorkTime(e).pending = wtime.pending \/ (wtime.pending # 1 /\ PostWorkTime(e).pending = e)
           /\ PostWorkTime(e).pending = wtime.pending => PostWorkTime(e) = wtime
BY WitnessWorkAssumption DEF Times, PostWorkTime

LEMMA SameEpochKeeps == ASSUME WkIInv, SameEpoch PROVE WkIInv'
<1> USE DEF WkIInv
<1> DEFINE posted == PostWorkTime(epoch + 1)
<1>1. /\ wtime' = posted /\ exch.sync = "idle" /\ UNCHANGED << awake, epoch >> /\ ExchangeOnly
      /\ exch' = [exch EXCEPT !.sync = IF posted = wtime THEN "idle" ELSE "publish"]
  BY DEF SameEpoch
<1>2. epoch + 1 \in 3 .. (MaxEpoch + 2)
  BY WitnessWorkAssumption DEF Times
<1>3. /\ posted \in [now : Nat, pending : Nat] /\ posted.now = wtime.now
      /\ posted.pending \in {0, 1} \cup 3 .. (MaxEpoch + 2)
      /\ posted.pending = wtime.pending \/ (wtime.pending # 1 /\ posted.pending = epoch + 1)
      /\ posted.pending = wtime.pending => posted = wtime
  BY <1>2, Posted
<1> HIDE DEF posted
<1>4. CASE posted = wtime
  <2>1. exch' = exch /\ wtime' = wtime
    BY <1>1, <1>4 DEF Times
  <2>2. Times' /\ Published'
    BY <1>1, <2>1 DEF Times, Published
  <2> QED BY <1>1, <2>1, <2>2, QuietTimes
<1>5. CASE posted # wtime
  <2>1. /\ exch' \in [sync : {"idle", "publish", "waits"}, match : {"idle", "matching"}]
        /\ exch'.sync = "publish" /\ exch'.match = exch.match
    BY <1>1, <1>5 DEF Times
  <2>2. Times'
    BY <1>1, <1>3, <2>1 DEF Times
  <2>3. wtime'.pending > 1
    BY <1>1, <1>2, <1>3, <1>5
  <2>4. ~(wtime'.pending <= 1)
    BY <1>1, <1>3, <2>3, WitnessWorkAssumption
  <2>5. Published'
    BY <2>1, <2>3, <2>4 DEF Published
  <2> QED BY <1>1, <1>3, <2>2, <2>5, QuietTimes
<1> QED BY <1>4, <1>5

LEMMA MatchFoundKeeps == ASSUME WkIInv, MatchFound PROVE WkIInv'
<1> USE DEF WkIInv
<1>1. exch.match = "matching" /\ UNCHANGED << awake, exch, epoch >> /\ ExchangeOnly
  BY DEF MatchFound
<1>2. PICK hold \in 0 .. 1 : wtime' = PostWorkTime(epoch + hold + 1)
  BY DEF MatchFound
<1>3. epoch + hold + 1 \in 3 .. (MaxEpoch + 2)
  BY WitnessWorkAssumption DEF Times
<1>4. PICK e \in 3 .. (MaxEpoch + 2) : wtime' = PostWorkTime(e)
  BY <1>2, <1>3
<1>5. /\ wtime' \in [now : Nat, pending : Nat] /\ wtime'.now = wtime.now
      /\ wtime'.pending \in {0, 1} \cup 3 .. (MaxEpoch + 2)
      /\ wtime'.pending = wtime.pending \/ (wtime.pending # 1 /\ wtime'.pending = e)
  BY <1>4, Posted
<1>6. Times'
  BY <1>1, <1>5 DEF Times
<1>7. e > 1 /\ ~(e <= 1)
  BY WitnessWorkAssumption
<1>8. Published'
  BY <1>1, <1>5, <1>7 DEF Published
<1> QED BY <1>1, <1>5, <1>6, <1>8, QuietTimes

\* The time is reset at a new epoch, and matching begins with no time at all
LEMMA EpochKeeps == ASSUME WkIInv, NewEpoch \/ StartMatching PROVE WkIInv'
<1> USE DEF WkIInv
<1>1. awake' = awake /\ ExchangeOnly
  BY DEF NewEpoch, StartMatching
<1>2. CASE NewEpoch
  <2>1. /\ wtime' = [now |-> 0, pending |-> 1] /\ exch' = [exch EXCEPT !.sync = "waits"]
        /\ epoch < MaxEpoch /\ epoch' = epoch + 1
    BY <1>2 DEF NewEpoch, ResetExchangeWorkTime
  <2>2. exch' \in [sync : {"idle", "publish", "waits"}, match : {"idle", "matching"}] /\ exch'.sync = "waits"
    BY <2>1 DEF Times
  <2>3. epoch' \in 2 .. MaxEpoch
    BY <2>1, WitnessWorkAssumption DEF Times
  <2>4. Times' /\ Published'
    BY <2>1, <2>2, <2>3 DEF Times, Published
  <2> QED BY <1>1, <2>1, <2>4, QuietTimes
<1>3. CASE StartMatching
  <2>1. wtime' = [now |-> 0, pending |-> 0] /\ exch' = [exch EXCEPT !.sync = "idle", !.match = "matching"] /\ epoch' = epoch
    BY <1>3 DEF StartMatching, ResetExchangeWorkTime
  <2>2. /\ exch' \in [sync : {"idle", "publish", "waits"}, match : {"idle", "matching"}]
        /\ exch'.sync = "idle" /\ exch'.match = "matching"
    BY <2>1 DEF Times
  <2>4. Times' /\ Published'
    BY <2>1, <2>2 DEF Times, Published
  <2> QED BY <1>1, <2>1, <2>4, QuietTimes
<1> QED BY <1>2, <1>3

\* Both threads publish the earliest time posted before they rest
LEMMA PublishKeeps == ASSUME WkIInv, SyncPublish \/ MatchReqsEnd PROVE WkIInv'
<1> USE DEF WkIInv
<1>1. PublishWorkTime /\ epoch' = epoch /\ ExchangeOnly
  BY DEF SyncPublish, MatchReqsEnd
<1>2. wtime.pending \in Nat /\ wtime \in [now : Nat, pending : Nat]
  BY DEF Times
<1>3. /\ wtime' \in [now : Nat, pending : Nat] /\ wtime'.pending = wtime.pending
      /\ wtime'.now = IF wtime.pending > 1 THEN wtime.pending ELSE 0
  <2>1. CASE wtime.pending <= 1
    <3>1. wtime' = wtime /\ wtime.now = 0 /\ ~(wtime.pending > 1)
      BY <1>1, <1>2, <2>1 DEF PublishWorkTime, Published
    <3> QED BY <1>2, <3>1
  <2>2. CASE ~(wtime.pending <= 1)
    <3>1. wtime' = [wtime EXCEPT !.now = wtime.pending] /\ wtime.pending > 1
      BY <1>1, <1>2, <2>2 DEF PublishWorkTime
    <3> QED BY <1>2, <3>1
  <2> QED BY <2>1, <2>2
<1>4. /\ exch' \in [sync : {"idle", "publish", "waits"}, match : {"idle", "matching"}]
      /\ exch'.sync = "publish" => exch.sync = "publish"
      /\ exch'.sync = "waits" => exch.sync = "waits"
  BY DEF SyncPublish, MatchReqsEnd, Times
<1>5. Times'
  BY <1>1, <1>2, <1>3, <1>4 DEF Times
<1>6. Published'
  BY <1>2, <1>3, <1>4 DEF Published
<1> QED BY <1>1, <1>5, <1>6, PublishTimes

-----------------------------------------------------------------------------
(* A witness that sleeps has read everything it waits for, but for what its  *)
(* inserter is still going to tell it of, has not missed the shutdown, and   *)
(* knows of the earliest time published; and no time is published while it   *)
(* is frozen (NotifyNewWork, WaitForWork, UpdateExchangeWorkTime), in every  *)
(* interleaving of the threads and for all values of the bounds.             *)
THEOREM WitnessWorkCorrect == WorkSpec => []WorkInv
<1>1. WkIInv /\ [WorkNext]_workVars => WkIInv'
  <2> SUFFICES ASSUME WkIInv, [WorkNext]_workVars PROVE WkIInv'
    OBVIOUS
  <2>1. CASE UNCHANGED workVars
    BY <2>1 DEF workVars, WkIInv, WkTypes, AllTold, Unread, Reading, SleepQuiet, Asleep, Times, Published,
                ExchangeTimeSeen
  <2>2. CASE \E q \in Queues : ObjInsert(q) \/ NotifyNewWork(q)
    BY <2>2, InsertKeeps, NotifyKeeps
  <2>3. CASE \E q \in TxQueues : ValidObjsFindNew(q)
    BY <2>3, FindNewKeeps
  <2>4. CASE StartShutdown \/ ShutdownWork
    BY <2>4, ShutdownKeeps
  <2>5. CASE ResetBlockWork \/ FindBestBlock \/ ResetTxWork \/ WaitForWork \/ Sleep \/ Wake \/ FinishOwnBlock
    BY <2>5, ResetBlockKeeps, FindKeeps, ResetTxKeeps, WaitKeeps, SleepKeeps, WakeKeeps, FinishKeeps
  <2>6. CASE SameEpoch \/ SyncPublish \/ NewEpoch \/ StartMatching \/ MatchFound \/ MatchReqsEnd
    BY <2>6, SameEpochKeeps, PublishKeeps, EpochKeeps, MatchFoundKeeps
  <2> QED BY <2>1, <2>2, <2>3, <2>4, <2>5, <2>6 DEF WorkNext
<1> QED BY <1>1, WkInitIInv, WkSuffices, PTL DEF WorkSpec

-----------------------------------------------------------------------------
(* Block sync.                                                               *)

\* A request: a range of levels, empty when nlevels is 0 (BlockSyncEntry)
Entries == [level : Nat, nlevels : 0 .. PerReq]
GoodEntry(e) == e \in Entries /\ (e.nlevels > 0 => e.level > 0)

\* The types of a connection, of what its server is serving (n = -1: it has closed) and of a row of the process queue
StreamType == [up : BOOLEAN, cur : Entries, nxt : Entries, pending : Nat, requeues : BOOLEAN,
               finished : BOOLEAN, reading : BOOLEAN, polling : BOOLEAN, mid : BOOLEAN]
ServeType == [level : Nat, n : {-1} \cup Nat, top : Tops \cup {0}]
QueueType == [lvl : 1 .. TopLevel, owner : Streams \cup {Nobody}]

\* What is still to be read of the current request
Rest(s) == IF s.mid THEN Passed(s.cur) ELSE s.cur

\* The k-th level that the client expects, when a is the current request and b the next one
Due(a, b, k) == IF k <= a.nlevels THEN a.level + k - 1 ELSE b.level + k - a.nlevels - 1

\* The requests a server has not read: the last ones of those under way
UnreadReqs(a, b, to) ==
  \/ to = <<>>
  \/ to = <<a>> /\ a.nlevels > 0 /\ b.nlevels = 0
  \/ to = <<b>> /\ b.nlevels > 0
  \/ to = <<a, b>> /\ a.nlevels > 0 /\ b.nlevels > 0

\* The number of blocks asked for in the requests that the server has not read
Asked(to) == IF to = <<>> THEN 0 ELSE IF Len(to) = 1 THEN to[1].nlevels ELSE to[1].nlevels + to[2].nlevels

\* While the server serves, what it sent, what it is sending and what it has still to read are together exactly the blocks of
\* the two requests, in the order in which the client expects them
PipeOpen(a, b, to, from, sv) ==
  /\ UnreadReqs(a, b, to)
  /\ Len(from) + sv.n + Asked(to) = a.nlevels + b.nlevels
  /\ \A k \in 1 .. Len(from) : from[k] = Due(a, b, k)
  /\ \A j \in 0 .. sv.n - 1 : sv.level + j = Due(a, b, Len(from) + 1 + j)

\* A server out of blocks ended its stream with a 0, after a beginning of what the client expects
PipeEnded(a, b, from) ==
  /\ from # <<>> /\ Len(from) - 1 <= a.nlevels + b.nlevels
  /\ from[Len(from)] = 0
  /\ \A k \in 1 .. Len(from) - 1 : from[k] = Due(a, b, k)

PipeOK(a, b, to, from, sv) == IF sv.n = -1 THEN PipeEnded(a, b, from) ELSE PipeOpen(a, b, to, from, sv)

\* One connection: s is the connection, to and from the two directions of the socket, sv the server, and n the number of blocks
\* in the process queue whose validation will call it back
LinkOK(s, to, from, sv, n) ==
  /\ s \in StreamType /\ GoodEntry(s.cur) /\ GoodEntry(s.nxt) /\ sv \in ServeType
  /\ to \in Seq(Entries) /\ from \in Seq(0 .. TopLevel)
  /\ ~s.up => s = NoStream /\ to = <<>> /\ from = <<>> /\ n = 0
  /\ s.mid => s.up /\ s.reading /\ ~s.polling /\ s.cur.nlevels > 0
  /\ s.up => s.pending = n /\ PipeOK(Rest(s), s.nxt, to, from, sv)

Owned(q, c) == {x \in q : x.owner = c}

Links == \A c \in Streams : LinkOK(stream[c], toSrv[c], fromSrv[c], serve[c], Cardinality(Owned(queue, c)))

\* The types of all variables, and that no server was taken for one that breaks the protocol
SyncShape ==
  /\ stream \in [Streams -> StreamType] /\ toSrv \in [Streams -> Seq(Entries)]
  /\ fromSrv \in [Streams -> Seq(0 .. TopLevel)] /\ serve \in [Streams -> ServeType]
  /\ list \in Seq(Entries) /\ (\A i \in DOMAIN list : GoodEntry(list[i]))
  /\ nextLevel \in Nat \ {0} /\ nfinished \in Nat
  /\ queue \subseteq QueueType /\ IsFiniteSet(queue)
  /\ validLevels \subseteq 1 .. TopLevel /\ indel = Indelible(validLevels)
  /\ syncing \in BOOLEAN /\ mismatch = FALSE

\* The levels a connection has still to read: the block being read counts as passed on
HeldBy(s) == Levels(Rest(s)) \cup Levels(s.nxt)

\* Someone is responsible for level l
Accounted(l) ==
  \/ l \in validLevels \cup letGo
  \/ \E x \in queue : x.lvl = l
  \/ \E i \in DOMAIN list : l \in Levels(list[i])
  \/ \E c \in Streams : l \in HeldBy(stream[c])

\* Every level handed out and not yet indelible is accounted for
AllAccounted == \A l \in indel + 1 .. TopLevel : l < nextLevel => Accounted(l)

\* A connection finishes, and the sync ends, only when the last indelible block is recent
SyncedEnough == (nfinished > 0 \/ ~syncing) => indel >= Recent

\* The inductive invariant
SyncIInv == SyncShape /\ Links /\ AllAccounted /\ SyncedEnough

-----------------------------------------------------------------------------
(* Numbers.                                                                  *)

\* A nonempty set of numbers has a least element
LEMMA LeastNumber ==
    ASSUME NEW T \in SUBSET Nat, T # {}
    PROVE  \E n \in T : \A m \in T : n <= m
<1>1. PICK n \in T : \A m \in T : ~(<<m, n>> \in OpToRel(<, Nat))
  BY NatLessThanWellFounded, WFMin
<1>2. \A m \in T : ~(m < n)
  BY <1>1 DEF OpToRel
<1> QED BY <1>2

\* Min of a set of numbers
LEMMA MinOf ==
    ASSUME NEW T \in SUBSET Nat, T # {}
    PROVE  Min(T) \in T /\ \A m \in T : Min(T) <= m
  BY LeastNumber DEF Min

\* Max and Min of two numbers
LEMMA OfTwo ==
    ASSUME NEW a \in Int, NEW b \in Int
    PROVE  /\ Max({a, b}) = IF a >= b THEN a ELSE b
           /\ Min({a, b}) = IF a <= b THEN a ELSE b
<1>1. \E x \in {a, b} : \A y \in {a, b} : x >= y
  OBVIOUS
<1>2. \E x \in {a, b} : \A y \in {a, b} : x <= y
  OBVIOUS
<1>3. Max({a, b}) \in {a, b} /\ \A y \in {a, b} : Max({a, b}) >= y
  BY <1>1 DEF Max
<1>4. Min({a, b}) \in {a, b} /\ \A y \in {a, b} : Min({a, b}) <= y
  BY <1>2 DEF Min
<1> QED BY <1>3, <1>4

\* A set of numbers with an upper bound has a greatest element
LEMMA MaxOf ==
    ASSUME NEW h \in Nat, NEW T \in SUBSET (0 .. h), T # {}
    PROVE  Max(T) \in T /\ \A m \in T : m <= Max(T)
<1> DEFINE U == {h - m : m \in T}
<1>0. \A m \in T : h - m \in Nat
  OBVIOUS
<1>1. U # {}
  OBVIOUS
<1>a. U \in SUBSET Nat
  BY <1>0
<1>2. PICK n \in U : \A m \in U : n <= m
  BY <1>1, <1>a, LeastNumber
<1>3. PICK t \in T : n = h - t
  BY <1>2
<1>4. \A m \in T : h - t <= h - m
  BY <1>2, <1>3
<1>5. \A m \in T : t >= m
  BY <1>4
<1>6. \E x \in T : \A y \in T : x >= y
  BY <1>5
<1> QED BY <1>6 DEF Max

\* The highest server
LEMMA TopIs == TopLevel \in Nat \ {0} /\ TopLevel \in Tops /\ \A t \in Tops : t <= TopLevel
<1>1. PICK t \in Tops : \A s \in Tops : s <= t
  BY BlockSyncAssumption
<1>2. \E x \in Tops : \A y \in Tops : x >= y
  BY <1>1, BlockSyncAssumption
<1>3. Max(Tops) \in Tops /\ \A y \in Tops : Max(Tops) >= y
  BY <1>2 DEF Max
<1> QED BY <1>3, BlockSyncAssumption DEF TopLevel

\* The last indelible level is a level, and never goes back when levels become valid
LEMMA IndelibleIs ==
    ASSUME NEW v, NEW w, v \subseteq w
    PROVE  Indelible(v) \in 0 .. TopLevel /\ Indelible(w) \in 0 .. TopLevel /\ Indelible(v) <= Indelible(w)
<1> DEFINE T(x) == {l \in 0 .. TopLevel : l = 0 \/ 1 .. (l + Lag) \subseteq x}
<1>1. T(v) \in SUBSET (0 .. TopLevel) /\ T(w) \in SUBSET (0 .. TopLevel) /\ 0 \in T(v) /\ 0 \in T(w) /\ T(v) \subseteq T(w)
  BY TopIs
<1>2. Indelible(v) = Max(T(v)) /\ Indelible(w) = Max(T(w))
  BY DEF Indelible
<1> HIDE DEF T
<1>3. Max(T(v)) \in T(v) /\ (\A m \in T(v) : m <= Max(T(v)))
  BY <1>1, TopIs, MaxOf
<1>4. Max(T(w)) \in T(w) /\ (\A m \in T(w) : m <= Max(T(w)))
  BY <1>1, TopIs, MaxOf
<1> QED BY <1>1, <1>2, <1>3, <1>4

\* NewEntry begins where nothing was asked for and moves m_next_level behind it
LEMMA NewEntryIs ==
    ASSUME nextLevel \in Nat \ {0}, indel \in Nat
    PROVE  /\ GoodEntry(NewEntry.e) /\ NewEntry.next \in Nat \ {0} /\ NewEntry.next >= nextLevel
           /\ \A l \in Nat : l > indel /\ l >= nextLevel /\ l < NewEntry.next => l \in Levels(NewEntry.e)
<1> DEFINE m == Max({nextLevel, indel + 1})
           n == PerReq - ((m + PerReq - 1) % PerReq)
<1>1. m \in Nat \ {0} /\ m >= nextLevel /\ m >= indel + 1 /\ (m = nextLevel \/ m = indel + 1)
  BY OfTwo
<1> HIDE DEF m
<1>2. (m + PerReq - 1) % PerReq \in 0 .. PerReq - 1
  BY <1>1, BlockSyncAssumption
<1>3. n \in 1 .. PerReq
  BY <1>2, BlockSyncAssumption
<1>4. NewEntry = IF m > indel + Span THEN [e |-> NoEntry, next |-> m] ELSE [e |-> Entry(m, n), next |-> m + n]
  BY DEF NewEntry, m
<1> HIDE DEF n
<1>5. CASE m > indel + Span
  BY <1>1, <1>4, <1>5, BlockSyncAssumption DEF NoEntry, Entry, GoodEntry, Entries, Levels
<1>6. CASE ~(m > indel + Span)
  <2>1. NewEntry.e = Entry(m, n) /\ NewEntry.next = m + n
    BY <1>4, <1>6
  <2>2. Entry(m, n).level = m /\ Entry(m, n).nlevels = n /\ Entry(m, n) \in Entries
    BY <1>1, <1>3, BlockSyncAssumption DEF Entry, Entries
  <2> QED BY <1>1, <1>3, <2>1, <2>2, BlockSyncAssumption DEF GoodEntry, Levels
<1> QED BY <1>5, <1>6

\* Trim leaves out indelible levels only
LEMMA TrimIs ==
    ASSUME NEW e, GoodEntry(e), indel \in Nat
    PROVE  GoodEntry(Trim(e)) /\ \A l \in Nat : l > indel /\ l \in Levels(e) => l \in Levels(Trim(e))
<1> DEFINE a == Max({0, indel + 1 - e.level})
           skip == Min({e.nlevels, a})
<1>1. e.level \in Nat /\ e.nlevels \in 0 .. PerReq /\ (e.nlevels > 0 => e.level > 0)
  BY DEF GoodEntry, Entries
<1>2. a = IF indel + 1 - e.level >= 0 THEN indel + 1 - e.level ELSE 0
  <2>1. 0 \in Int /\ indel + 1 - e.level \in Int
    BY <1>1
  <2> QED BY <2>1, OfTwo
<1>3. a \in Nat
  BY <1>1, <1>2
<1>4. skip = IF e.nlevels <= a THEN e.nlevels ELSE a
  <2>1. e.nlevels \in Int /\ a \in Int
    BY <1>1, <1>3, BlockSyncAssumption
  <2> HIDE DEF a
  <2> QED BY <2>1, OfTwo
<1>5. Trim(e) = Entry(e.level + skip, e.nlevels - skip)
  BY DEF Trim
<1> HIDE DEF skip, a
<1>6. skip \in 0 .. e.nlevels
  BY <1>1, <1>3, <1>4, BlockSyncAssumption
<1>7. Trim(e).level = e.level + skip /\ Trim(e).nlevels = e.nlevels - skip /\ Trim(e) \in Entries
  BY <1>1, <1>5, <1>6, BlockSyncAssumption DEF Entry, Entries
<1>8. GoodEntry(Trim(e))
  BY <1>1, <1>6, <1>7, BlockSyncAssumption DEF GoodEntry
<1>9. ASSUME NEW l \in Nat, l > indel, l \in Levels(e)
      PROVE  l \in Levels(Trim(e))
  BY <1>1, <1>2, <1>4, <1>6, <1>7, <1>9, BlockSyncAssumption DEF Levels
<1> QED BY <1>8, <1>9

-----------------------------------------------------------------------------
(* The list.                                                                 *)

\* The list of requests
ListOK(ls) == ls \in Seq(Entries) /\ \A i \in DOMAIN ls : GoodEntry(ls[i])
InList(ls, l) == \E i \in DOMAIN ls : l \in Levels(ls[i])

\* What a step from the list ls and m_next_level n to ls2 and n2 does, that hands out e
HandsOut(ls, n, ls2, n2, e) ==
  /\ ListOK(ls2) /\ n2 \in Nat \ {0} /\ n2 >= n /\ GoodEntry(e)
  /\ \A l \in Nat : l > indel /\ l < n2 /\ (l >= n \/ InList(ls, l)) => l \in Levels(e) \/ InList(ls2, l)

\* What a step does that puts e back
PutsBack(ls, n, ls2, n2, e) ==
  /\ ListOK(ls2) /\ n2 \in Nat \ {0} /\ n2 >= n
  /\ \A l \in Nat : l < n2 /\ (l >= n \/ InList(ls, l) \/ l \in Levels(e)) => InList(ls2, l)

\* GetNextEntry loses no level that is not indelible
LEMMA GetNextEntryIs ==
    ASSUME ListOK(list), nextLevel \in Nat \ {0}, indel \in Nat
    PROVE  HandsOut(list, nextLevel, GetNextEntry.list, GetNextEntry.next, GetNextEntry.e)
<1> DEFINE left == {i \in DOMAIN list : Trim(list[i]).nlevels > 0}
           k == Min(left)
<1>0. list \in Seq(Entries) /\ (\A i \in DOMAIN list : GoodEntry(list[i])) /\ Len(list) \in Nat /\ DOMAIN list = 1 .. Len(list)
  BY DEF ListOK
<1>1. \A i \in DOMAIN list : GoodEntry(Trim(list[i])) /\ \A l \in Nat : l > indel /\ l \in Levels(list[i]) => l \in Levels(Trim(list[i]))
  BY <1>0, TrimIs
<1>2. \A i \in DOMAIN list : i \notin left => \A l \in Nat : l > indel => l \notin Levels(list[i])
  <2> SUFFICES ASSUME NEW i \in DOMAIN list, i \notin left, NEW l \in Nat, l > indel, l \in Levels(list[i])
               PROVE  FALSE
    OBVIOUS
  <2>1. l \in Levels(Trim(list[i])) /\ GoodEntry(Trim(list[i])) /\ ~(Trim(list[i]).nlevels > 0)
    BY <1>1
  <2> HIDE DEF left
  <2> QED BY <2>1, BlockSyncAssumption DEF GoodEntry, Entries, Levels
<1>3. CASE left = {}
  <2>1. GetNextEntry = [e |-> NewEntry.e, list |-> <<>>, next |-> NewEntry.next]
    BY <1>3 DEF GetNextEntry
  <2>2. \A l \in Nat : l > indel => ~InList(list, l)
    BY <1>2, <1>3 DEF InList
  <2>3. ListOK(<<>>)
    BY DEF ListOK
  <2> QED BY <2>1, <2>2, <2>3, NewEntryIs DEF HandsOut
<1>4. CASE left # {}
  <2>1. k \in left /\ \A m \in left : k <= m
    <3>1. left \in SUBSET Nat
      BY <1>0
    <3> HIDE DEF left
    <3> QED BY <1>4, <3>1, MinOf
  <2>2. GetNextEntry = [e |-> Trim(list[k]), list |-> SubSeq(list, k + 1, Len(list)), next |-> nextLevel]
    BY <1>4 DEF GetNextEntry
  <2> HIDE DEF k
  <2>3. k \in 1 .. Len(list)
    BY <1>0, <2>1
  <2> HIDE DEF left
  <2>5. \A i \in DOMAIN list : i < k => i \notin left
    BY <1>0, <2>1, <2>3
  <2> DEFINE r == SubSeq(list, k + 1, Len(list))
  <2>4. r \in Seq(Entries) /\ Len(r) = Len(list) - k /\ \A i \in 1 .. Len(r) : r[i] = list[k + i]
    <3>1. \A i \in k + 1 .. Len(list) : list[i] \in Entries
      BY <1>0, <2>3
    <3>2. k + 1 \in Int /\ Len(list) \in Int
      BY <1>0, <2>3
    <3>3. /\ r \in Seq(Entries) /\ Len(r) = IF k + 1 <= Len(list) THEN Len(list) - (k + 1) + 1 ELSE 0
          /\ \A i \in 1 .. Len(list) - (k + 1) + 1 : r[i] = list[(k + 1) + i - 1]
      BY <3>1, <3>2, SubSeqProperties
    <3> HIDE DEF r
    <3>4. Len(r) = Len(list) - k
      <4>1. Len(r) = IF k + 1 <= Len(list) THEN Len(list) - (k + 1) + 1 ELSE 0
        BY <3>3
      <4>2. k \in Nat /\ Len(list) \in Nat /\ k <= Len(list)
        BY <1>0, <2>3
      <4> QED BY <4>1, <4>2
    <3>5. \A i \in 1 .. Len(r) : (k + 1) + i - 1 = k + i /\ i \in 1 .. Len(list) - (k + 1) + 1
      BY <1>0, <2>3, <3>4
    <3> QED BY <3>3, <3>4, <3>5
  <2>6. GetNextEntry.e = Trim(list[k]) /\ GetNextEntry.list = r /\ GetNextEntry.next = nextLevel
    BY <2>2
  <2> HIDE DEF r
  <2>9. \A i \in 1 .. Len(r) : k + i \in DOMAIN list
    BY <1>0, <2>3, <2>4
  <2>7. ListOK(r)
    BY <1>0, <2>4, <2>9 DEF ListOK
  <2>8. ASSUME NEW l \in Nat, l > indel, l < nextLevel, InList(list, l)
        PROVE  l \in Levels(Trim(list[k])) \/ InList(r, l)
    <3>1. PICK i \in DOMAIN list : l \in Levels(list[i])
      BY <2>8 DEF InList
    <3>2. ~(i < k)
      BY <1>2, <2>5, <2>8, <3>1
    <3>3. CASE i = k
      BY <1>1, <2>8, <3>1, <3>3
    <3>4. CASE i > k
      <4>1. i - k \in 1 .. Len(r) /\ r[i - k] = list[i]
        BY <1>0, <2>3, <2>4, <3>1, <3>4
      <4>2. DOMAIN r = 1 .. Len(r)
        BY <2>4
      <4> QED BY <3>1, <4>1, <4>2 DEF InList
    <3> QED BY <1>0, <2>3, <3>1, <3>2, <3>3, <3>4
  <2> QED BY <1>0, <1>1, <2>3, <2>6, <2>7, <2>8 DEF HandsOut
<1> QED BY <1>3, <1>4

\* RequeueEntry keeps what is in the list and adds the entry, unless it will be asked for anyway
LEMMA RequeueIs ==
    ASSUME NEW s, ListOK(s.list), s.next \in Nat \ {0}, NEW e, GoodEntry(e)
    PROVE  PutsBack(s.list, s.next, RequeueEntry(s, e).list, RequeueEntry(s, e).next, e)
<1>1. e \in Entries /\ e.level \in Nat /\ e.nlevels \in Nat /\ s.list \in Seq(Entries) /\ Len(s.list) \in Nat
  BY BlockSyncAssumption DEF GoodEntry, Entries, ListOK
<1>2. CASE e.nlevels = 0 \/ e.level >= s.next
  BY <1>1, <1>2 DEF RequeueEntry, PutsBack, Levels
<1>3. CASE ~(e.nlevels = 0 \/ e.level >= s.next)
  <2> DEFINE r == Append(s.list, e)
  <2>1. Max({s.next, e.level + e.nlevels}) = IF s.next >= e.level + e.nlevels THEN s.next ELSE e.level + e.nlevels
    BY <1>1, OfTwo
  <2>2. RequeueEntry(s, e).list = r /\ RequeueEntry(s, e).next = IF s.next >= e.level + e.nlevels THEN s.next ELSE e.level + e.nlevels
    BY <1>3, <2>1 DEF RequeueEntry
  <2>3. r \in Seq(Entries) /\ DOMAIN r = 1 .. Len(s.list) + 1 /\ r[Len(s.list) + 1] = e /\ \A i \in DOMAIN s.list : i \in DOMAIN r /\ r[i] = s.list[i]
    BY <1>1
  <2>4. \A i \in DOMAIN r : i = Len(s.list) + 1 \/ i \in DOMAIN s.list
    BY <1>1, <2>3
  <2> HIDE DEF r
  <2>5. ListOK(r)
    BY <2>3, <2>4 DEF ListOK
  <2>6. \A l : InList(s.list, l) \/ l \in Levels(e) => InList(r, l)
    BY <1>1, <2>3 DEF InList
  <2>7. \A l \in Nat : l >= s.next /\ l < RequeueEntry(s, e).next => l \in Levels(e)
    BY <1>1, <1>3, <2>2 DEF Levels
  <2>8. RequeueEntry(s, e).next \in Nat \ {0} /\ RequeueEntry(s, e).next >= s.next
    BY <1>1, <2>2
  <2> QED BY <2>2, <2>5, <2>6, <2>7, <2>8 DEF PutsBack
<1> QED BY <1>2, <1>3

\* The same for the two entries of a connection
LEMMA RequeueTwo ==
    ASSUME ListOK(list), nextLevel \in Nat \ {0}, NEW a, NEW b, GoodEntry(a), GoodEntry(b),
           BecomeList(RequeueEntry(RequeueEntry(SyncList, a), b))
    PROVE  /\ ListOK(list') /\ nextLevel' \in Nat \ {0} /\ nextLevel' >= nextLevel
           /\ \A l \in Nat : l < nextLevel' /\ (l >= nextLevel \/ InList(list, l) \/ l \in Levels(a) \/ l \in Levels(b)) => InList(list', l)
<1> DEFINE s1 == RequeueEntry(SyncList, a)
           s2 == RequeueEntry(s1, b)
<1>1. SyncList.list = list /\ SyncList.next = nextLevel
  BY DEF SyncList
<1>2. PutsBack(list, nextLevel, s1.list, s1.next, a)
  BY <1>1, RequeueIs
<1> HIDE DEF s1
<1>3. ListOK(s1.list) /\ s1.next \in Nat \ {0} /\ s1.next >= nextLevel
  BY <1>2 DEF PutsBack
<1>4. PutsBack(s1.list, s1.next, s2.list, s2.next, b)
  BY <1>3, RequeueIs
<1>5. list' = s2.list /\ nextLevel' = s2.next
  BY DEF BecomeList, s1
<1> HIDE DEF s2
<1> QED BY <1>2, <1>3, <1>4, <1>5 DEF PutsBack

\* The same for one entry
LEMMA RequeueOne ==
    ASSUME ListOK(list), nextLevel \in Nat \ {0}, NEW a, GoodEntry(a), BecomeList(RequeueEntry(SyncList, a))
    PROVE  /\ ListOK(list') /\ nextLevel' \in Nat \ {0} /\ nextLevel' >= nextLevel
           /\ \A l \in Nat : l < nextLevel' /\ (l >= nextLevel \/ InList(list, l) \/ l \in Levels(a)) => InList(list', l)
<1>1. SyncList.list = list /\ SyncList.next = nextLevel
  BY DEF SyncList
<1>2. PutsBack(list, nextLevel, list', nextLevel', a)
  BY <1>1, RequeueIs DEF BecomeList
<1> QED BY <1>2 DEF PutsBack

-----------------------------------------------------------------------------
(* Requests and answers of one connection.                                   *)

\* The types of the parts of a connection's pipe
PipeTypes(a, b, to, from, sv) ==
  /\ GoodEntry(a) /\ GoodEntry(b) /\ to \in Seq(Entries) /\ from \in Seq(0 .. TopLevel) /\ sv \in ServeType

\* One more and one less
LEMMA Shift ==
    ASSUME NEW p \in Nat, NEW q \in Nat, NEW r \in Nat, NEW s \in Nat, NEW t \in Nat, p + q + r = s + t
    PROVE  p + 1 + (q - 1) + r = s + t /\ p - 1 + q + r = s + t - 1
  OBVIOUS

\* The elements of a sequence that one was appended to
LEMMA AppendIs ==
    ASSUME NEW S, NEW a \in S, NEW e \in S
    PROVE  Append(<<>>, e) = <<e>> /\ Append(<<a>>, e) = <<a, e>>
<1>1. Append(<<>>, e) \in Seq(S) /\ Append(<<a>>, e) \in Seq(S) /\ <<e>> \in Seq(S) /\ <<a, e>> \in Seq(S)
  OBVIOUS
<1>2. Len(Append(<<>>, e)) = 1 /\ Append(<<>>, e)[1] = e
  OBVIOUS
<1>3. Len(Append(<<a>>, e)) = 2 /\ Append(<<a>>, e)[1] = a /\ Append(<<a>>, e)[2] = e
  OBVIOUS
<1>4. Append(<<>>, e) = <<e>>
  BY <1>1, <1>2, SeqEqual
<1>5. Append(<<a>>, e) = <<a, e>>
  <2>1. Len(<<a, e>>) = 2 /\ <<a, e>>[1] = a /\ <<a, e>>[2] = e
    OBVIOUS
  <2>2. \A i \in 1 .. 2 : i = 1 \/ i = 2
    OBVIOUS
  <2>3. \A i \in 1 .. 2 : Append(<<a>>, e)[i] = <<a, e>>[i]
    BY <1>3, <2>1, <2>2
  <2> QED BY <1>1, <1>3, <2>1, <2>3, SeqEqual
<1> QED BY <1>4, <1>5

\* The numbers in entries and in the server's state
LEMMA EntryNumbers ==
    ASSUME NEW a \in Entries
    PROVE  a.level \in Nat /\ a.nlevels \in Nat /\ a.nlevels <= PerReq
  BY BlockSyncAssumption DEF Entries

\* The numbers of a server
LEMMA ServeNumbers ==
    ASSUME NEW sv \in ServeType
    PROVE  sv.level \in Nat /\ sv.n \in Int /\ sv.n >= -1 /\ (sv.n # -1 => sv.n \in Nat) /\ sv.top \in Nat /\ sv.top <= TopLevel
<1>1. sv.level \in Nat /\ sv.n \in {-1} \cup Nat /\ sv.top \in Tops \cup {0}
  BY DEF ServeType
<1>2. sv.n \in Int /\ sv.n >= -1 /\ (sv.n # -1 => sv.n \in Nat)
  BY <1>1
<1>3. sv.top \in Nat /\ sv.top <= TopLevel
  <2>1. TopLevel \in Nat /\ Tops \subseteq Nat /\ \A t \in Tops : t <= TopLevel
    BY BlockSyncAssumption, TopIs
  <2>2. CASE sv.top = 0
    BY <2>1, <2>2
  <2>3. CASE sv.top \in Tops
    BY <2>1, <2>3
  <2> QED BY <1>1, <2>2, <2>3
<1> QED BY <1>1, <1>2, <1>3

\* The empty request is well formed
LEMMA NoEntryGood == NoEntry.level = 0 /\ NoEntry.nlevels = 0 /\ GoodEntry(NoEntry)
  BY BlockSyncAssumption DEF NoEntry, Entry, GoodEntry, Entries

\* A request whose first level has been read
LEMMA PassedGood ==
    ASSUME NEW a, GoodEntry(a), a.nlevels > 0
    PROVE  Passed(a).level = a.level + 1 /\ Passed(a).nlevels = a.nlevels - 1 /\ GoodEntry(Passed(a))
<1>1. a \in Entries
  BY DEF GoodEntry
<1>2. a.level \in Nat /\ a.nlevels \in Nat /\ a.nlevels <= PerReq
  BY <1>1, EntryNumbers
<1> QED BY <1>2, BlockSyncAssumption DEF Passed, Entry, GoodEntry, Entries

\* What the server has not read is what is asked for last
LEMMA AskedIs ==
    ASSUME NEW a \in Entries, NEW b \in Entries, NEW to, UnreadReqs(a, b, to)
    PROVE  /\ Asked(to) \in Nat
           /\ to = <<>> => Asked(to) = 0
           /\ to # <<>> => Asked(to) > 0
           /\ \/ to = <<>>
              \/ to = <<a>> /\ Asked(to) = a.nlevels /\ b.nlevels = 0
              \/ to = <<b>> /\ Asked(to) = b.nlevels
              \/ to = <<a, b>> /\ Asked(to) = a.nlevels + b.nlevels
<1>1. a.nlevels \in Nat /\ b.nlevels \in Nat
  BY EntryNumbers
<1>2. Asked(<<>>) = 0 /\ Asked(<<a>>) = a.nlevels /\ Asked(<<b>>) = b.nlevels /\ Asked(<<a, b>>) = a.nlevels + b.nlevels
  BY DEF Asked
<1> QED BY <1>1, <1>2 DEF UnreadReqs

\* The first answer is the level that is expected
LEMMA FirstIsDue ==
    ASSUME NEW a, NEW b, NEW to, NEW from, NEW sv, PipeTypes(a, b, to, from, sv), PipeOK(a, b, to, from, sv),
           from # <<>>, from[1] > 0
    PROVE  from[1] = Due(a, b, 1) /\ a.nlevels + b.nlevels > 0
<1>1. a.nlevels \in Nat /\ b.nlevels \in Nat /\ a \in Entries /\ b \in Entries
  BY EntryNumbers DEF PipeTypes, GoodEntry
<1>2. Len(from) \in Nat /\ Len(from) > 0
  BY DEF PipeTypes
<1>3. CASE sv.n = -1
  BY <1>1, <1>2, <1>3 DEF PipeOK, PipeEnded
<1>4. CASE sv.n # -1
  <2>1. sv.n \in Nat /\ Asked(to) \in Nat
    BY <1>1, <1>4, ServeNumbers, AskedIs DEF PipeTypes, PipeOK, PipeOpen
  <2> QED BY <1>1, <1>2, <1>4, <2>1 DEF PipeOK, PipeOpen
<1> QED BY <1>3, <1>4

\* The first answer is read
LEMMA PipePass ==
    ASSUME NEW a, NEW b, NEW to, NEW from, NEW sv, PipeTypes(a, b, to, from, sv), PipeOK(a, b, to, from, sv),
           from # <<>>, from[1] > 0, a.nlevels > 0
    PROVE  PipeOK(Passed(a), b, to, Tail(from), sv)
<1>1. a.nlevels \in Nat /\ b.nlevels \in Nat /\ a.level \in Nat /\ b.level \in Nat /\ a \in Entries /\ b \in Entries
  BY EntryNumbers DEF PipeTypes, GoodEntry
<1>2. Len(from) \in Nat /\ Len(from) > 0 /\ Len(Tail(from)) = Len(from) - 1 /\ \A k \in 1 .. Len(from) - 1 : Tail(from)[k] = from[k + 1]
  BY DEF PipeTypes
<1>3. Passed(a).level = a.level + 1 /\ Passed(a).nlevels = a.nlevels - 1
  BY PassedGood DEF PipeTypes
<1>4. \A k \in Nat : Due(Passed(a), b, k) = Due(a, b, k + 1)
  BY <1>1, <1>3 DEF Due
<1>5. CASE sv.n = -1
  <2>1. from[Len(from)] = 0 /\ Len(from) - 1 <= a.nlevels + b.nlevels /\ \A k \in 1 .. Len(from) - 1 : from[k] = Due(a, b, k)
    BY <1>5 DEF PipeOK, PipeEnded
  <2>2. Len(from) > 1
    BY <1>2, <2>1
  <2>3. Tail(from) # <<>> /\ Tail(from)[Len(Tail(from))] = 0
    <3>1. Len(from) - 1 \in 1 .. Len(from) - 1 /\ (Len(from) - 1) + 1 = Len(from)
      BY <1>2, <2>2
    <3>2. Tail(from)[Len(from) - 1] = from[Len(from)]
      BY <1>2, <3>1
    <3>3. Len(Tail(from)) # 0
      BY <1>2, <2>2
    <3>4. Len(<<>>) = 0
      OBVIOUS
    <3> QED BY <1>2, <2>1, <3>2, <3>3, <3>4
  <2>4. \A k \in 1 .. Len(Tail(from)) - 1 : Tail(from)[k] = Due(Passed(a), b, k)
    <3> SUFFICES ASSUME NEW k \in 1 .. Len(Tail(from)) - 1
                 PROVE  Tail(from)[k] = Due(Passed(a), b, k)
      OBVIOUS
    <3>1. k \in Nat /\ k \in 1 .. Len(from) - 1 /\ k + 1 \in 1 .. Len(from) - 1
      BY <1>2
    <3> QED BY <1>2, <1>4, <2>1, <3>1
  <2>5. Len(Tail(from)) - 1 <= Passed(a).nlevels + b.nlevels
    <3>1. Len(from) - 1 <= a.nlevels + b.nlevels /\ Len(Tail(from)) = Len(from) - 1
      BY <1>2, <2>1
    <3> QED BY <1>1, <1>2, <1>3, <3>1
  <2> QED BY <1>5, <2>3, <2>4, <2>5 DEF PipeOK, PipeEnded
<1>6. CASE sv.n # -1
  <2>1. sv.n \in Nat /\ Asked(to) \in Nat /\ sv.level \in Nat
    BY <1>1, <1>6, ServeNumbers, AskedIs DEF PipeTypes, PipeOK, PipeOpen
  <2>2. /\ UnreadReqs(a, b, to) /\ Len(from) + sv.n + Asked(to) = a.nlevels + b.nlevels
        /\ \A k \in 1 .. Len(from) : from[k] = Due(a, b, k)
        /\ \A j \in 0 .. sv.n - 1 : sv.level + j = Due(a, b, Len(from) + 1 + j)
    BY <1>6 DEF PipeOK, PipeOpen
  <2>3. to = <<>> \/ (to = <<b>> /\ b.nlevels > 0)
    <3>1. Asked(to) < a.nlevels + b.nlevels
      BY <1>1, <1>2, <2>1, <2>2
    <3>2. UnreadReqs(a, b, to)
      BY <2>2
    <3> QED BY <1>1, <3>1, <3>2, AskedIs DEF UnreadReqs
  <2>4. UnreadReqs(Passed(a), b, to)
    BY <2>3 DEF UnreadReqs
  <2>5. \A k \in 1 .. Len(Tail(from)) : Tail(from)[k] = Due(Passed(a), b, k)
    BY <1>2, <1>4, <2>2
  <2>6. \A j \in 0 .. sv.n - 1 : sv.level + j = Due(Passed(a), b, Len(Tail(from)) + 1 + j)
    <3> SUFFICES ASSUME NEW j \in 0 .. sv.n - 1
                 PROVE  sv.level + j = Due(Passed(a), b, Len(Tail(from)) + 1 + j)
      OBVIOUS
    <3>1. Len(from) + j \in Nat /\ Len(Tail(from)) + 1 + j = Len(from) + j /\ Len(from) + j + 1 = Len(from) + 1 + j
      BY <1>2, <2>1
    <3>2. Due(Passed(a), b, Len(from) + j) = Due(a, b, Len(from) + j + 1)
      BY <1>4, <3>1
    <3> QED BY <2>2, <3>1, <3>2
  <2>7. Len(Tail(from)) + sv.n + Asked(to) = Passed(a).nlevels + b.nlevels
    <3>1. Len(from) + sv.n + Asked(to) = a.nlevels + b.nlevels /\ Len(Tail(from)) = Len(from) - 1
      BY <1>2, <2>2
    <3>2. Len(from) \in Nat /\ sv.n \in Nat /\ Asked(to) \in Nat /\ a.nlevels \in Nat /\ b.nlevels \in Nat
      BY <1>1, <1>2, <2>1
    <3> DEFINE p == Len(from)
               p2 == Len(Tail(from))
               q == sv.n
               m == Asked(to)
               s == a.nlevels
               s2 == Passed(a).nlevels
               t == b.nlevels
    <3>3. p \in Nat /\ q \in Nat /\ m \in Nat /\ s \in Nat /\ t \in Nat
      BY <3>2
    <3>4. p + q + m = s + t /\ p2 = p - 1 /\ s2 = s - 1
      BY <1>3, <3>1
    <3> HIDE DEF p, p2, q, m, s, s2, t
    <3>5. p2 + q + m = s2 + t
      BY ONLY <3>3, <3>4
    <3> QED BY <3>5 DEF p, p2, q, m, s, s2, t
  <2> QED BY <1>6, <2>4, <2>5, <2>6, <2>7 DEF PipeOK, PipeOpen
<1> QED BY <1>5, <1>6

\* The next request takes the place of the current one
LEMMA PipePromote ==
    ASSUME NEW a, NEW b, NEW to, NEW from, NEW sv, PipeTypes(a, b, to, from, sv), PipeOK(a, b, to, from, sv), a.nlevels = 0
    PROVE  PipeOK(b, NoEntry, to, from, sv)
<1>1. a.nlevels \in Nat /\ b.nlevels \in Nat /\ a.level \in Nat /\ b.level \in Nat /\ a \in Entries /\ b \in Entries
  BY EntryNumbers DEF PipeTypes, GoodEntry
<1>2. Len(from) \in Nat
  BY DEF PipeTypes
<1>3. NoEntry.nlevels = 0 /\ NoEntry.level = 0
  BY NoEntryGood
<1>4. \A k \in Nat : k > 0 /\ k <= b.nlevels => Due(b, NoEntry, k) = Due(a, b, k)
  BY <1>1, <1>3 DEF Due
<1>5. CASE sv.n = -1
  BY <1>1, <1>2, <1>3, <1>4, <1>5 DEF PipeOK, PipeEnded
<1>6. CASE sv.n # -1
  <2>1. sv.n \in Nat /\ Asked(to) \in Nat /\ sv.level \in Nat
    BY <1>1, <1>6, ServeNumbers, AskedIs DEF PipeTypes, PipeOK, PipeOpen
  <2>2. /\ UnreadReqs(a, b, to) /\ Len(from) + sv.n + Asked(to) = a.nlevels + b.nlevels
        /\ \A k \in 1 .. Len(from) : from[k] = Due(a, b, k)
        /\ \A j \in 0 .. sv.n - 1 : sv.level + j = Due(a, b, Len(from) + 1 + j)
    BY <1>6 DEF PipeOK, PipeOpen
  <2>3. UnreadReqs(b, NoEntry, to)
    BY <1>1, <1>3, <2>2 DEF UnreadReqs
  <2>4. \A k \in 1 .. Len(from) : from[k] = Due(b, NoEntry, k)
    BY <1>1, <1>2, <1>4, <2>1, <2>2
  <2>5. \A j \in 0 .. sv.n - 1 : sv.level + j = Due(b, NoEntry, Len(from) + 1 + j)
    BY <1>1, <1>2, <1>4, <2>1, <2>2
  <2>6. Len(from) + sv.n + Asked(to) = b.nlevels + NoEntry.nlevels
    BY <1>1, <1>3, <2>2
  <2> QED BY <1>6, <2>3, <2>4, <2>5, <2>6 DEF PipeOK, PipeOpen
<1> QED BY <1>5, <1>6

\* A further request is sent
LEMMA PipeAsk ==
    ASSUME NEW a, NEW b, NEW to, NEW from, NEW sv, PipeTypes(a, b, to, from, sv), PipeOK(a, b, to, from, sv), b.nlevels = 0,
           NEW e, GoodEntry(e), e.nlevels > 0
    PROVE  PipeOK(a, e, Append(to, e), from, sv)
<1>1. /\ a.nlevels \in Nat /\ b.nlevels \in Nat /\ a.level \in Nat /\ b.level \in Nat /\ a \in Entries /\ b \in Entries
      /\ e \in Entries /\ e.nlevels \in Nat /\ e.level \in Nat
  BY EntryNumbers DEF PipeTypes, GoodEntry
<1>2. Len(from) \in Nat
  BY DEF PipeTypes
<1>4. \A k \in Nat : k > 0 /\ k <= a.nlevels => Due(a, e, k) = Due(a, b, k)
  BY <1>1 DEF Due
<1>5. CASE sv.n = -1
  BY <1>1, <1>2, <1>4, <1>5 DEF PipeOK, PipeEnded
<1>6. CASE sv.n # -1
  <2>1. sv.n \in Nat /\ Asked(to) \in Nat /\ sv.level \in Nat
    BY <1>1, <1>6, ServeNumbers, AskedIs DEF PipeTypes, PipeOK, PipeOpen
  <2>2. /\ UnreadReqs(a, b, to) /\ Len(from) + sv.n + Asked(to) = a.nlevels + b.nlevels
        /\ \A k \in 1 .. Len(from) : from[k] = Due(a, b, k)
        /\ \A j \in 0 .. sv.n - 1 : sv.level + j = Due(a, b, Len(from) + 1 + j)
    BY <1>6 DEF PipeOK, PipeOpen
  <2>a. Append(<<>>, e) = <<e>> /\ Append(<<a>>, e) = <<a, e>>
    BY <1>1, AppendIs
  <2>b. to = <<>> \/ (to = <<a>> /\ a.nlevels > 0)
    BY <1>1, <2>2 DEF UnreadReqs
  <2>3. (to = <<>> /\ Append(to, e) = <<e>>) \/ (to = <<a>> /\ a.nlevels > 0 /\ Append(to, e) = <<a, e>>)
    BY <2>a, <2>b
  <2>4. UnreadReqs(a, e, Append(to, e))
    BY <2>3 DEF UnreadReqs
  <2>5. Asked(<<>>) = 0 /\ Asked(<<a>>) = a.nlevels /\ Asked(<<e>>) = e.nlevels /\ Asked(<<a, e>>) = a.nlevels + e.nlevels
    BY DEF Asked
  <2>6. Asked(Append(to, e)) = Asked(to) + e.nlevels
    <3>1. CASE to = <<>>
      BY <1>1, <2>a, <2>5, <3>1
    <3>2. CASE to = <<a>>
      BY <1>1, <2>a, <2>5, <3>2
    <3> QED BY <2>b, <3>1, <3>2
  <2>7. \A k \in 1 .. Len(from) : from[k] = Due(a, e, k)
    BY <1>1, <1>2, <1>4, <2>1, <2>2
  <2>8. \A j \in 0 .. sv.n - 1 : sv.level + j = Due(a, e, Len(from) + 1 + j)
    BY <1>1, <1>2, <1>4, <2>1, <2>2
  <2>9. Len(from) + sv.n + Asked(Append(to, e)) = a.nlevels + e.nlevels
    BY <1>1, <1>2, <2>1, <2>2, <2>6
  <2> QED BY <1>6, <2>4, <2>7, <2>8, <2>9 DEF PipeOK, PipeOpen
<1> QED BY <1>5, <1>6

\* The server reads a request
LEMMA PipeServe ==
    ASSUME NEW a, NEW b, NEW to, NEW from, NEW sv, PipeTypes(a, b, to, from, sv), PipeOK(a, b, to, from, sv), sv.n = 0, to # <<>>,
           NEW sv2 \in ServeType, sv2.level = Head(to).level, sv2.n = Head(to).nlevels
    PROVE  PipeOK(a, b, Tail(to), from, sv2)
<1>1. a.nlevels \in Nat /\ b.nlevels \in Nat /\ a.level \in Nat /\ b.level \in Nat /\ a \in Entries /\ b \in Entries
  BY EntryNumbers DEF PipeTypes, GoodEntry
<1>2. Len(from) \in Nat
  BY DEF PipeTypes
<1>3. /\ UnreadReqs(a, b, to) /\ Len(from) + Asked(to) = a.nlevels + b.nlevels
      /\ \A k \in 1 .. Len(from) : from[k] = Due(a, b, k)
  <2>1. /\ UnreadReqs(a, b, to) /\ Len(from) + sv.n + Asked(to) = a.nlevels + b.nlevels
        /\ \A k \in 1 .. Len(from) : from[k] = Due(a, b, k)
    BY DEF PipeOK, PipeOpen
  <2>2. Asked(to) \in Nat
    BY <1>1, <2>1, AskedIs
  <2> QED BY <1>2, <2>1, <2>2
<1>4. Asked(<<>>) = 0 /\ Asked(<<a>>) = a.nlevels /\ Asked(<<b>>) = b.nlevels /\ Asked(<<a, b>>) = a.nlevels + b.nlevels
  BY DEF Asked
<1>5. CASE to = <<a>> /\ a.nlevels > 0 /\ b.nlevels = 0
  <2>1. Head(to) = a /\ Tail(to) = <<>> /\ Len(from) = 0
    BY <1>1, <1>2, <1>3, <1>4, <1>5
  <2>2. \A j \in 0 .. a.nlevels - 1 : a.level + j = Due(a, b, 0 + 1 + j)
    BY <1>1 DEF Due
  <2> QED BY <1>1, <1>3, <1>4, <1>5, <2>1, <2>2 DEF PipeOK, PipeOpen, UnreadReqs
<1>6. CASE to = <<b>> /\ b.nlevels > 0
  <2>1. Head(to) = b /\ Tail(to) = <<>> /\ Len(from) = a.nlevels
    BY <1>1, <1>2, <1>3, <1>4, <1>6
  <2>2. \A j \in 0 .. b.nlevels - 1 : b.level + j = Due(a, b, a.nlevels + 1 + j)
    BY <1>1 DEF Due
  <2> QED BY <1>1, <1>3, <1>4, <1>6, <2>1, <2>2 DEF PipeOK, PipeOpen, UnreadReqs
<1>7. CASE to = <<a, b>> /\ a.nlevels > 0 /\ b.nlevels > 0
  <2>1. Head(to) = a /\ Tail(to) = <<b>> /\ Len(from) = 0
    BY <1>1, <1>2, <1>3, <1>4, <1>7
  <2>2. \A j \in 0 .. a.nlevels - 1 : a.level + j = Due(a, b, 0 + 1 + j)
    BY <1>1 DEF Due
  <2> QED BY <1>1, <1>3, <1>4, <1>7, <2>1, <2>2 DEF PipeOK, PipeOpen, UnreadReqs
<1> QED BY <1>3, <1>5, <1>6, <1>7 DEF UnreadReqs

\* The server sends a level
LEMMA PipeSend ==
    ASSUME NEW a, NEW b, NEW to, NEW from, NEW sv, PipeTypes(a, b, to, from, sv), PipeOK(a, b, to, from, sv), sv.n > 0,
           NEW sv2 \in ServeType, sv2.level = sv.level + 1, sv2.n = sv.n - 1
    PROVE  PipeOK(a, b, to, Append(from, sv.level), sv2)
<1>1. a.nlevels \in Nat /\ b.nlevels \in Nat /\ a.level \in Nat /\ b.level \in Nat /\ a \in Entries /\ b \in Entries
  BY EntryNumbers DEF PipeTypes, GoodEntry
<1>2. Len(from) \in Nat /\ sv.n \in Nat /\ sv.level \in Nat /\ sv2.n \in Nat
  BY ServeNumbers DEF PipeTypes
<1>3. /\ UnreadReqs(a, b, to) /\ Len(from) + sv.n + Asked(to) = a.nlevels + b.nlevels
      /\ \A k \in 1 .. Len(from) : from[k] = Due(a, b, k)
      /\ \A j \in 0 .. sv.n - 1 : sv.level + j = Due(a, b, Len(from) + 1 + j)
  BY <1>2 DEF PipeOK, PipeOpen
<1>4. Asked(to) \in Nat
  BY <1>1, <1>3, AskedIs
<1> DEFINE f == Append(from, sv.level)
<1>5. Len(f) = Len(from) + 1 /\ f[Len(from) + 1] = sv.level /\ \A k \in 1 .. Len(from) : f[k] = from[k]
  BY DEF PipeTypes
<1> HIDE DEF f
<1>6. sv.level = Due(a, b, Len(from) + 1)
  <2>1. 0 \in 0 .. sv.n - 1
    BY <1>2
  <2>2. sv.level + 0 = Due(a, b, Len(from) + 1 + 0)
    BY <1>3, <2>1
  <2>3. sv.level + 0 = sv.level /\ Len(from) + 1 + 0 = Len(from) + 1
    BY <1>2
  <2> QED BY <2>2, <2>3
<1>7. \A k \in 1 .. Len(f) : f[k] = Due(a, b, k)
  BY <1>2, <1>3, <1>5, <1>6
<1>8. \A j \in 0 .. sv2.n - 1 : sv2.level + j = Due(a, b, Len(f) + 1 + j)
  <2> SUFFICES ASSUME NEW j \in 0 .. sv2.n - 1
               PROVE  sv2.level + j = Due(a, b, Len(f) + 1 + j)
    OBVIOUS
  <2>1. j + 1 \in 0 .. sv.n - 1 /\ sv2.level + j = sv.level + (j + 1) /\ Len(f) + 1 + j = Len(from) + 1 + (j + 1)
    <3>1. Len(f) = Len(from) + 1 /\ j \in Int
      BY <1>5
    <3> QED BY <1>2, <3>1
  <2> QED BY <1>3, <2>1
<1>9. Len(f) + sv2.n + Asked(to) = a.nlevels + b.nlevels
  <2>1. Len(f) = Len(from) + 1 /\ Len(from) + sv.n + Asked(to) = a.nlevels + b.nlevels
    BY <1>3, <1>5
  <2>2. Len(from) + 1 + (sv.n - 1) + Asked(to) = a.nlevels + b.nlevels
    <3>1. Len(from) \in Nat /\ sv.n \in Nat /\ Asked(to) \in Nat /\ a.nlevels \in Nat /\ b.nlevels \in Nat
      BY <1>1, <1>2, <1>4
    <3>2. Len(from) + sv.n + Asked(to) = a.nlevels + b.nlevels
      BY <2>1
    <3> QED BY <3>1, <3>2, Shift
  <2> QED BY <2>1, <2>2
<1> QED BY <1>2, <1>3, <1>7, <1>8, <1>9 DEF PipeOK, PipeOpen, f

\* The server has no more levels
LEMMA PipeEnd ==
    ASSUME NEW a, NEW b, NEW to, NEW from, NEW sv, PipeTypes(a, b, to, from, sv), PipeOK(a, b, to, from, sv), sv.n > 0,
           NEW sv2, sv2.n = -1
    PROVE  PipeOK(a, b, to, Append(from, 0), sv2)
<1>1. a.nlevels \in Nat /\ b.nlevels \in Nat /\ a \in Entries /\ b \in Entries
  BY EntryNumbers DEF PipeTypes, GoodEntry
<1>2. Len(from) \in Nat /\ sv.n \in Nat
  BY ServeNumbers DEF PipeTypes
<1>3. /\ UnreadReqs(a, b, to) /\ Len(from) + sv.n + Asked(to) = a.nlevels + b.nlevels
      /\ \A k \in 1 .. Len(from) : from[k] = Due(a, b, k)
  BY <1>2 DEF PipeOK, PipeOpen
<1>4. Asked(to) \in Nat
  BY <1>1, <1>3, AskedIs
<1> DEFINE f == Append(from, 0)
<1>5. f # <<>> /\ Len(f) = Len(from) + 1 /\ f[Len(from) + 1] = 0 /\ \A k \in 1 .. Len(from) : f[k] = from[k]
  BY DEF PipeTypes
<1> HIDE DEF f
<1>6. Len(f) - 1 = Len(from) /\ Len(from) <= a.nlevels + b.nlevels
  BY <1>1, <1>2, <1>3, <1>4, <1>5
<1>7. PipeEnded(a, b, f)
  BY <1>3, <1>5, <1>6 DEF PipeEnded
<1> QED BY <1>7 DEF PipeOK, f

-----------------------------------------------------------------------------
(* One connection settles, while the others stay as they are.                *)

\* Another connection than c holds level l
OthersHold(c, l) == \E d \in Streams \ {c} : l \in HeldBy(stream[d])

\* Connection c is about to be cn, with q in the process queue, its server at sv and the levels v valid
Ready(c, cn, q, sv, v) ==
  /\ c \in Streams /\ cn \in StreamType /\ cn.up /\ ~cn.mid /\ GoodEntry(cn.cur) /\ GoodEntry(cn.nxt)
  /\ sv \in ServeType /\ PipeOK(cn.cur, cn.nxt, toSrv[c], fromSrv[c], sv)
  /\ q \subseteq QueueType /\ IsFiniteSet(q) /\ cn.pending = Cardinality(Owned(q, c))
  /\ \A l \in indel + 1 .. TopLevel : l < nextLevel =>
       \/ l \in v \cup letGo \/ (\E x \in q : x.lvl = l)
       \/ InList(list, l) \/ OthersHold(c, l) \/ l \in Levels(cn.cur) \cup Levels(cn.nxt)

\* The other connections stay as they are
OthersStay(c, q) ==
  /\ stream' \in [Streams -> StreamType] /\ toSrv' \in [Streams -> Seq(Entries)] /\ fromSrv' \in [Streams -> Seq(0 .. TopLevel)]
  /\ \A d \in Streams \ {c} : /\ stream'[d] = stream[d] /\ toSrv'[d] = toSrv[d] /\ fromSrv'[d] = fromSrv[d]
                              /\ Owned(queue', d) = Owned(q, d)

\* What holds of the next state then
Settled(c, q, sv, v) ==
  /\ OthersStay(c, q)
  /\ LinkOK(stream'[c], toSrv'[c], fromSrv'[c], sv, Cardinality(Owned(queue', c)))
  /\ queue' \subseteq QueueType /\ IsFiniteSet(queue')
  /\ ListOK(list') /\ nextLevel' \in Nat \ {0}
  /\ nfinished' \in Nat /\ (nfinished' > 0 => nfinished > 0 \/ indel >= Recent)
  /\ \A l \in indel + 1 .. TopLevel : l < nextLevel' =>
       \/ l \in v \cup letGo' \/ (\E x \in queue' : x.lvl = l)
       \/ InList(list', l) \/ OthersHold(c, l) \/ l \in HeldBy(stream'[c])

\* A connection that is not connected
LEMMA NoStreamIs == NoStream \in StreamType /\ GoodEntry(NoStream.cur) /\ GoodEntry(NoStream.nxt) /\ NoStream.up = FALSE /\ NoStream.mid = FALSE
<1>1. NoEntry \in Entries
  BY NoEntryGood DEF GoodEntry
<1>2. NoStream.cur = NoEntry /\ NoStream.nxt = NoEntry /\ NoStream.up = FALSE /\ NoStream.mid = FALSE
  BY DEF NoStream
<1>3. NoStream \in StreamType
  BY <1>1 DEF NoStream, StreamType
<1> QED BY <1>2, <1>3, NoEntryGood

\* What the invariant says of the state
LEMMA ShapeFacts ==
    ASSUME SyncShape
    PROVE  /\ ListOK(list) /\ indel \in 0 .. TopLevel /\ indel \in Nat /\ nextLevel \in Nat \ {0} /\ nfinished \in Nat
           /\ stream \in [Streams -> StreamType] /\ toSrv \in [Streams -> Seq(Entries)]
           /\ fromSrv \in [Streams -> Seq(0 .. TopLevel)] /\ serve \in [Streams -> ServeType]
<1>1. Indelible(validLevels) \in 0 .. TopLevel
  BY IndelibleIs
<1>2. indel \in 0 .. TopLevel
  BY <1>1 DEF SyncShape
<1>3. indel \in Nat
  BY <1>2, TopIs
<1> QED BY <1>2, <1>3 DEF SyncShape, ListOK

\* FinishConnection puts back what was asked for, or lets it go
LEMMA FinishSettles ==
    ASSUME SyncShape, NEW c, NEW cn, NEW q, NEW sv, NEW v, Ready(c, cn, q, sv, v), FinishConnection(c, cn, q)
    PROVE  Settled(c, q, sv, v)
<1>0. /\ ListOK(list) /\ indel \in Nat /\ nextLevel \in Nat \ {0} /\ nfinished \in Nat
      /\ stream \in [Streams -> StreamType] /\ toSrv \in [Streams -> Seq(Entries)] /\ fromSrv \in [Streams -> Seq(0 .. TopLevel)]
  BY ShapeFacts
<1>1. /\ c \in Streams /\ GoodEntry(cn.cur) /\ GoodEntry(cn.nxt) /\ sv \in ServeType /\ q \subseteq QueueType /\ IsFiniteSet(q)
  BY DEF Ready
<1>2. /\ stream' = [stream EXCEPT ![c] = NoStream] /\ toSrv' = [toSrv EXCEPT ![c] = <<>>] /\ fromSrv' = [fromSrv EXCEPT ![c] = <<>>]
  BY DEF FinishConnection
<1> DEFINE Gone(x) == IF x.owner = c THEN [x EXCEPT !.owner = Nobody] ELSE x
<1>3. queue' = {Gone(x) : x \in q}
  BY DEF FinishConnection
<1>4. \A x \in q : Gone(x) \in QueueType /\ Gone(x).lvl = x.lvl /\ Gone(x).owner # c /\ (x.owner # c => Gone(x) = x) /\ (x.owner = c => Gone(x).owner = Nobody)
  <2>1. Nobody # c
    BY <1>1, BlockSyncAssumption
  <2> QED BY <1>1, <2>1 DEF QueueType
<1> HIDE DEF Gone
<1>5. queue' \subseteq QueueType /\ IsFiniteSet(queue')
  <2>1. IsFiniteSet({Gone(x) : x \in q})
    <3> DEFINE f == [x \in q |-> Gone(x)]
    <3>1. f \in Surjection(q, {Gone(x) : x \in q})
      BY DEF Surjection
    <3> HIDE DEF f
    <3> QED BY <1>1, <3>1, FS_Surjection
  <2> QED BY <1>3, <1>4, <2>1
<1>6. Owned(queue', c) = {} /\ \A d \in Streams \ {c} : Owned(queue', d) = Owned(q, d)
  <2>1. \A d \in Streams : d # Nobody
    BY BlockSyncAssumption
  <2> QED BY <1>3, <1>4, <2>1 DEF Owned
<1>7. \A l : (\E x \in q : x.lvl = l) => \E x \in queue' : x.lvl = l
  BY <1>3, <1>4
<1>8. stream'[c] = NoStream /\ toSrv'[c] = <<>> /\ fromSrv'[c] = <<>>
  BY <1>0, <1>1, <1>2
<1>9. LinkOK(stream'[c], toSrv'[c], fromSrv'[c], sv, Cardinality(Owned(queue', c)))
  <2>1. Cardinality(Owned(queue', c)) = 0
    BY <1>6, FS_EmptySet
  <2> QED BY <1>1, <1>8, <2>1, NoStreamIs DEF LinkOK
<1>10. OthersStay(c, q)
  <2>1. stream' \in [Streams -> StreamType]
    BY <1>0, <1>2, NoStreamIs
  <2>2. toSrv' \in [Streams -> Seq(Entries)] /\ fromSrv' \in [Streams -> Seq(0 .. TopLevel)]
    <3>1. <<>> \in Seq(Entries) /\ <<>> \in Seq(0 .. TopLevel)
      OBVIOUS
    <3> QED BY <1>0, <1>2, <3>1
  <2>3. \A d \in Streams \ {c} : stream'[d] = stream[d] /\ toSrv'[d] = toSrv[d] /\ fromSrv'[d] = fromSrv[d]
    BY <1>0, <1>2
  <2> QED BY <1>6, <2>1, <2>2, <2>3 DEF OthersStay
<1> DEFINE fin == cn.finished /\ indel >= Recent
<1>11. nfinished' \in Nat /\ (nfinished' > 0 => nfinished > 0 \/ indel >= Recent)
  <2>1. Min({nfinished + 1, MaxSignals}) \in Nat
    <3> DEFINE m == nfinished + 1
    <3>1. m \in Nat /\ MaxSignals \in Nat
      BY <1>0, BlockSyncAssumption
    <3> HIDE DEF m
    <3>2. Min({m, MaxSignals}) = IF m <= MaxSignals THEN m ELSE MaxSignals
      BY <3>1, OfTwo
    <3>3. Min({m, MaxSignals}) \in Nat
      BY <3>1, <3>2
    <3> QED BY <3>3 DEF m
  <2>2. nfinished' = IF fin /\ ~cn.requeues THEN Min({nfinished + 1, MaxSignals}) ELSE nfinished
    BY DEF FinishConnection
  <2> QED BY <1>0, <2>1, <2>2
<1>12. CASE fin /\ IsFinishing
  <2>1. letGo' = letGo \cup Levels(cn.cur) \cup Levels(cn.nxt) /\ list' = list /\ nextLevel' = nextLevel
    BY <1>12 DEF FinishConnection
  <2>2. \A l \in indel + 1 .. TopLevel : l < nextLevel' =>
          \/ l \in v \cup letGo' \/ (\E x \in queue' : x.lvl = l)
          \/ InList(list', l) \/ OthersHold(c, l) \/ l \in HeldBy(stream'[c])
    BY <1>7, <2>1 DEF Ready
  <2> QED BY <1>0, <1>5, <1>9, <1>10, <1>11, <2>1, <2>2 DEF Settled
<1>13. CASE ~(fin /\ IsFinishing)
  <2>1. BecomeList(RequeueEntry(RequeueEntry(SyncList, cn.cur), cn.nxt)) /\ letGo' = letGo
    BY <1>13 DEF FinishConnection
  <2>2. /\ ListOK(list') /\ nextLevel' \in Nat \ {0} /\ nextLevel' >= nextLevel
        /\ \A l \in Nat : l < nextLevel' /\ (l >= nextLevel \/ InList(list, l) \/ l \in Levels(cn.cur) \/ l \in Levels(cn.nxt)) => InList(list', l)
    BY <1>0, <1>1, <2>1, RequeueTwo
  <2>3. ASSUME NEW l \in indel + 1 .. TopLevel, l < nextLevel'
        PROVE  \/ l \in v \cup letGo' \/ (\E x \in queue' : x.lvl = l)
               \/ InList(list', l) \/ OthersHold(c, l) \/ l \in HeldBy(stream'[c])
    <3>1. l \in Nat
      BY <1>0, TopIs
    <3>2. CASE l >= nextLevel
      BY <2>2, <2>3, <3>1, <3>2
    <3>3. CASE ~(l >= nextLevel)
      <4>1. l < nextLevel
        BY <1>0, <3>1, <3>3
      <4>2. \/ l \in v \cup letGo \/ (\E x \in q : x.lvl = l)
            \/ InList(list, l) \/ OthersHold(c, l) \/ l \in Levels(cn.cur) \cup Levels(cn.nxt)
        BY <4>1 DEF Ready
      <4> QED BY <1>7, <2>1, <2>2, <2>3, <3>1, <4>2
    <3> QED BY <3>2, <3>3
  <2> QED BY <1>5, <1>9, <1>10, <1>11, <2>2, <2>3 DEF Settled
<1> QED BY <1>12, <1>13

\* A connection that becomes r, with e as its next request if it sends one
LEMMA KeepSettles ==
    ASSUME SyncShape, NEW c, NEW cn, NEW q, NEW sv, NEW v, Ready(c, cn, q, sv, v),
           NEW r \in StreamType, r.up, ~r.mid, r.cur = cn.cur, r.pending = cn.pending, GoodEntry(r.nxt),
           stream' = [stream EXCEPT ![c] = r], queue' = q, UNCHANGED <<fromSrv, nfinished, letGo>>,
           ListOK(list'), nextLevel' \in Nat \ {0},
           \/ r.nxt = cn.nxt /\ UNCHANGED toSrv
           \/ cn.nxt.nlevels = 0 /\ r.nxt.nlevels > 0 /\ toSrv' = [toSrv EXCEPT ![c] = Append(@, r.nxt)],
           \A l \in Nat : l > indel /\ l < nextLevel' /\ (l >= nextLevel \/ InList(list, l)) => l \in Levels(r.nxt) \/ InList(list', l)
    PROVE  Settled(c, q, sv, v)
<1>0. /\ ListOK(list) /\ indel \in Nat /\ nextLevel \in Nat \ {0} /\ nfinished \in Nat
      /\ stream \in [Streams -> StreamType] /\ toSrv \in [Streams -> Seq(Entries)] /\ fromSrv \in [Streams -> Seq(0 .. TopLevel)]
  BY ShapeFacts
<1>1. /\ c \in Streams /\ GoodEntry(cn.cur) /\ GoodEntry(cn.nxt) /\ sv \in ServeType /\ q \subseteq QueueType /\ IsFiniteSet(q)
      /\ PipeOK(cn.cur, cn.nxt, toSrv[c], fromSrv[c], sv) /\ cn.pending = Cardinality(Owned(q, c))
  BY DEF Ready
<1>2. r.nxt \in Entries /\ cn.nxt \in Entries
  BY <1>1 DEF GoodEntry
<1>3. stream'[c] = r /\ fromSrv'[c] = fromSrv[c]
  BY <1>0, <1>1
<1>4. toSrv' \in [Streams -> Seq(Entries)] /\ \A d \in Streams \ {c} : toSrv'[d] = toSrv[d]
  <2>1. CASE UNCHANGED toSrv
    BY <1>0, <2>1
  <2>2. CASE toSrv' = [toSrv EXCEPT ![c] = Append(@, r.nxt)]
    <3>1. Append(toSrv[c], r.nxt) \in Seq(Entries)
      BY <1>0, <1>1, <1>2
    <3> QED BY <1>0, <2>2, <3>1
  <2> QED BY <2>1, <2>2
<1>5. OthersStay(c, q)
  BY <1>0, <1>4 DEF OthersStay
<1>6. toSrv[c] \in Seq(Entries) /\ fromSrv[c] \in Seq(0 .. TopLevel) /\ toSrv'[c] \in Seq(Entries)
  BY <1>0, <1>1, <1>4
<1>7. PipeOK(r.cur, r.nxt, toSrv'[c], fromSrv[c], sv)
  <2>1. CASE r.nxt = cn.nxt /\ UNCHANGED toSrv
    BY <1>1, <2>1
  <2>2. CASE cn.nxt.nlevels = 0 /\ r.nxt.nlevels > 0 /\ toSrv' = [toSrv EXCEPT ![c] = Append(@, r.nxt)]
    <3>1. toSrv'[c] = Append(toSrv[c], r.nxt)
      BY <1>0, <1>1, <2>2
    <3>2. PipeTypes(cn.cur, cn.nxt, toSrv[c], fromSrv[c], sv)
      BY <1>1, <1>6 DEF PipeTypes
    <3>3. PipeOK(cn.cur, r.nxt, Append(toSrv[c], r.nxt), fromSrv[c], sv)
      BY <1>1, <2>2, <3>2, PipeAsk
    <3> QED BY <3>1, <3>3
  <2> QED BY <2>1, <2>2
<1>8. Rest(r) = r.cur
  BY DEF Rest
<1>9. LinkOK(stream'[c], toSrv'[c], fromSrv'[c], sv, Cardinality(Owned(queue', c)))
  BY <1>1, <1>3, <1>6, <1>7, <1>8 DEF LinkOK
<1>10. ASSUME NEW l \in indel + 1 .. TopLevel, l < nextLevel'
      PROVE  \/ l \in v \cup letGo' \/ (\E x \in queue' : x.lvl = l)
             \/ InList(list', l) \/ OthersHold(c, l) \/ l \in HeldBy(stream'[c])
  <2>1. l \in Nat /\ l > indel
    BY <1>0, TopIs
  <2>2. HeldBy(stream'[c]) = Levels(cn.cur) \cup Levels(r.nxt)
    BY <1>3, <1>8 DEF HeldBy
  <2>3. CASE l >= nextLevel
    BY <1>10, <2>1, <2>2, <2>3
  <2>4. CASE ~(l >= nextLevel)
    <3>1. l < nextLevel
      BY <1>0, <2>1, <2>4
    <3>2. \/ l \in v \cup letGo \/ (\E x \in q : x.lvl = l)
          \/ InList(list, l) \/ OthersHold(c, l) \/ l \in Levels(cn.cur) \cup Levels(cn.nxt)
      BY <3>1 DEF Ready
    <3>3. l \in Levels(cn.nxt) => r.nxt = cn.nxt
      BY <1>2, <2>1, EntryNumbers DEF Levels
    <3> QED BY <1>10, <2>1, <2>2, <3>2, <3>3
  <2> QED BY <2>3, <2>4
<1> QED BY <1>0, <1>1, <1>5, <1>9, <1>10 DEF Settled

\* CheckSendReq stops, waits, reads on, or asks for more
LEMMA CheckSendSettles ==
    ASSUME SyncShape, NEW c, NEW cn, NEW q, NEW sv, NEW v, Ready(c, cn, q, sv, v), CheckSendReq(c, cn, q)
    PROVE  Settled(c, q, sv, v)
<1> DEFINE wait == [cn EXCEPT !.reading = FALSE, !.polling = FALSE]
           goOn == [cn EXCEPT !.reading = TRUE, !.polling = FALSE]
           poll == [goOn EXCEPT !.polling = TRUE]
           g == GetNextEntry
           ask == [goOn EXCEPT !.nxt = g.e]
           Keep(r) == stream' = [stream EXCEPT ![c] = r] /\ queue' = q /\ UNCHANGED <<toSrv, fromSrv, nfinished, letGo>>
<1>0. ListOK(list) /\ indel \in Nat /\ nextLevel \in Nat \ {0}
  BY ShapeFacts
<1>1. cn \in StreamType /\ cn.up /\ ~cn.mid /\ GoodEntry(cn.nxt)
  BY DEF Ready
<1>2. \A r \in {wait, goOn, poll} : r \in StreamType /\ r.up /\ ~r.mid /\ r.cur = cn.cur /\ r.nxt = cn.nxt /\ r.pending = cn.pending
  BY <1>1 DEF StreamType
<1>3. HandsOut(list, nextLevel, g.list, g.next, g.e)
  BY <1>0, GetNextEntryIs
<1> HIDE DEF wait, poll
<1>4. ASSUME NEW r \in {wait, goOn, poll}, Keep(r), ListOK(list'), nextLevel' \in Nat \ {0},
             \A l \in Nat : l > indel /\ l < nextLevel' /\ (l >= nextLevel \/ InList(list, l)) => l \in Levels(cn.nxt) \/ InList(list', l)
      PROVE  Settled(c, q, sv, v)
  <2> HIDE DEF goOn
  <2>1. r \in StreamType /\ r.up /\ ~r.mid /\ r.cur = cn.cur /\ r.nxt = cn.nxt /\ r.pending = cn.pending
    BY <1>2
  <2>2. \A l \in Nat : l > indel /\ l < nextLevel' /\ (l >= nextLevel \/ InList(list, l)) => l \in Levels(r.nxt) \/ InList(list', l)
    BY <1>4, <2>1
  <2> QED BY <1>1, <1>4, <2>1, <2>2, KeepSettles
<1>5. ASSUME NEW r \in {wait, goOn, poll}, Keep(r), UNCHANGED <<list, nextLevel>>
      PROVE  Settled(c, q, sv, v)
  <2> HIDE DEF Keep, goOn
  <2>1. \A l \in Nat : l < nextLevel' => ~(l >= nextLevel)
    BY <1>0, <1>5
  <2>2. ListOK(list') /\ nextLevel' \in Nat \ {0}
    BY <1>0, <1>5
  <2>3. \A l \in Nat : l > indel /\ l < nextLevel' /\ (l >= nextLevel \/ InList(list, l)) => l \in Levels(cn.nxt) \/ InList(list', l)
    BY <1>5, <2>1
  <2> QED BY <1>4, <1>5, <2>2, <2>3
<1>6. CASE cn.requeues \/ cn.finished
  <2>1. CASE cn.pending > 0
    <3>1. Keep(wait) /\ UNCHANGED <<list, nextLevel>>
      BY <1>6, <2>1 DEF CheckSendReq, wait
    <3> HIDE DEF Keep, goOn
    <3> QED BY <1>5, <3>1
  <2>2. CASE ~(cn.pending > 0)
    <3>1. FinishConnection(c, cn, q)
      BY <1>6, <2>2 DEF CheckSendReq
    <3> QED BY <3>1, FinishSettles
  <2> QED BY <2>1, <2>2
<1>7. CASE ~(cn.requeues \/ cn.finished) /\ cn.nxt.nlevels > 0
  <2>1. Keep(goOn) /\ UNCHANGED <<list, nextLevel>>
    BY <1>7 DEF CheckSendReq
  <2> HIDE DEF Keep, goOn
  <2> QED BY <1>5, <2>1
<1>8. CASE ~(cn.requeues \/ cn.finished) /\ ~(cn.nxt.nlevels > 0)
  <2>1. list' = g.list /\ nextLevel' = g.next
    BY <1>8 DEF CheckSendReq
  <2>2. ListOK(list') /\ nextLevel' \in Nat \ {0} /\ GoodEntry(g.e)
        /\ \A l \in Nat : l > indel /\ l < nextLevel' /\ (l >= nextLevel \/ InList(list, l)) => l \in Levels(g.e) \/ InList(list', l)
    BY <1>3, <2>1 DEF HandsOut
  <2>3. cn.nxt.nlevels = 0 /\ g.e \in Entries
    BY <1>1, <1>8, <2>2, EntryNumbers DEF GoodEntry
  <2>4. CASE g.e.nlevels > 0
    <3>1. /\ stream' = [stream EXCEPT ![c] = ask] /\ toSrv' = [toSrv EXCEPT ![c] = Append(@, g.e)]
          /\ queue' = q /\ UNCHANGED <<fromSrv, nfinished, letGo>>
      BY <1>8, <2>4 DEF CheckSendReq
    <3> HIDE DEF g
    <3>2. ask \in StreamType /\ ask.up /\ ~ask.mid /\ ask.cur = cn.cur /\ ask.nxt = g.e /\ ask.pending = cn.pending
      BY <1>1, <2>3 DEF StreamType
    <3> HIDE DEF ask
    <3>3. toSrv' = [toSrv EXCEPT ![c] = Append(@, ask.nxt)]
      BY <3>1, <3>2
    <3> QED BY <2>2, <2>3, <2>4, <3>1, <3>2, <3>3, KeepSettles
  <2>5. CASE ~(g.e.nlevels > 0)
    <3>1. \E r \in {wait, goOn, poll} : Keep(r)
      <4>1. Keep(IF cn.cur.nlevels > 0 THEN goOn ELSE IF cn.pending > 0 THEN wait ELSE poll)
        BY <1>8, <2>5 DEF CheckSendReq, wait, poll
      <4> HIDE DEF Keep, goOn
      <4> QED BY <4>1
    <3>2. \A l : l \notin Levels(g.e)
      <4> HIDE DEF g
      <4>1. g.e.level \in Nat /\ g.e.nlevels = 0
        BY <2>3, <2>5, EntryNumbers
      <4> QED BY <4>1 DEF Levels
    <3>3. \A l \in Nat : l > indel /\ l < nextLevel' /\ (l >= nextLevel \/ InList(list, l)) => l \in Levels(cn.nxt) \/ InList(list', l)
      BY <2>2, <3>2
    <3> HIDE DEF Keep, goOn
    <3> QED BY <1>4, <2>2, <3>1, <3>3
  <2> QED BY <2>4, <2>5
<1> QED BY <1>6, <1>7, <1>8

-----------------------------------------------------------------------------
(* Steps.                                                                    *)

\* When one connection settles, the invariant holds in the next state
LEMMA SettledStep ==
    ASSUME SyncIInv, NEW c \in Streams, NEW q, NEW sv \in ServeType, Settled(c, q, sv, validLevels'),
           serve' \in [Streams -> ServeType], serve'[c] = sv, \A d \in Streams \ {c} : serve'[d] = serve[d],
           \A d \in Streams \ {c} : Owned(q, d) = Owned(queue, d),
           validLevels \subseteq validLevels', validLevels' \subseteq 1 .. TopLevel, indel' = Indelible(validLevels'),
           syncing' = syncing, mismatch' = mismatch
    PROVE  SyncIInv'
<1>0. SyncShape /\ Links /\ AllAccounted /\ SyncedEnough
  BY DEF SyncIInv
<1>1. indel' >= indel /\ indel' \in 0 .. TopLevel /\ indel \in 0 .. TopLevel
  BY <1>0, IndelibleIs DEF SyncShape
<1>2. SyncShape'
  BY <1>0 DEF SyncShape, Settled, OthersStay, ListOK
<1>3. Links'
  <2> SUFFICES ASSUME NEW d \in Streams
               PROVE  LinkOK(stream'[d], toSrv'[d], fromSrv'[d], serve'[d], Cardinality(Owned(queue', d)))
    BY DEF Links
  <2>1. CASE d = c
    BY <2>1 DEF Settled
  <2>2. CASE d # c
    <3>1. stream'[d] = stream[d] /\ toSrv'[d] = toSrv[d] /\ fromSrv'[d] = fromSrv[d] /\ serve'[d] = serve[d] /\ Owned(queue', d) = Owned(queue, d)
      BY <2>2 DEF Settled, OthersStay
    <3> QED BY <1>0, <3>1 DEF Links
  <2> QED BY <2>1, <2>2
<1>4. AllAccounted'
  <2> SUFFICES ASSUME NEW l \in indel' + 1 .. TopLevel, l < nextLevel'
               PROVE  Accounted(l)'
    BY DEF AllAccounted
  <2>1. l \in indel + 1 .. TopLevel
    BY <1>1, TopIs
  <2>2. \/ l \in validLevels' \cup letGo' \/ (\E x \in queue' : x.lvl = l)
        \/ InList(list', l) \/ OthersHold(c, l) \/ l \in HeldBy(stream'[c])
    BY <2>1 DEF Settled
  <2>3. OthersHold(c, l) => \E d \in Streams : l \in HeldBy(stream'[d])
    <3>1. \A d \in Streams \ {c} : stream'[d] = stream[d]
      BY DEF Settled, OthersStay
    <3> QED BY <3>1 DEF OthersHold
  <2>4. l \in HeldBy(stream'[c]) => \E d \in Streams : l \in HeldBy(stream'[d])
    OBVIOUS
  <2>5. HeldBy(stream[c])' = HeldBy(stream'[c])
    BY DEF HeldBy, Rest
  <2> QED BY <2>2, <2>3, <2>4 DEF Accounted, InList, HeldBy, Rest
<1>5. SyncedEnough'
  <2>1. nfinished' \in Nat /\ (nfinished' > 0 => nfinished > 0 \/ indel >= Recent)
    BY DEF Settled
  <2>2. nfinished \in Nat /\ syncing \in BOOLEAN /\ Recent \in Int /\ indel \in Int /\ indel' \in Int
    BY <1>0, <1>1, BlockSyncAssumption, TopIs DEF SyncShape
  <2> QED BY <1>0, <1>1, <2>1, <2>2 DEF SyncedEnough
<1> QED BY <1>2, <1>3, <1>4, <1>5 DEF SyncIInv

\* What the invariant says of one connection
LEMMA LinkFacts ==
    ASSUME SyncIInv, NEW c \in Streams
    PROVE  /\ LinkOK(stream[c], toSrv[c], fromSrv[c], serve[c], Cardinality(Owned(queue, c)))
           /\ stream[c] \in StreamType /\ toSrv[c] \in Seq(Entries) /\ fromSrv[c] \in Seq(0 .. TopLevel) /\ serve[c] \in ServeType
           /\ GoodEntry(stream[c].cur) /\ GoodEntry(stream[c].nxt)
           /\ queue \subseteq QueueType /\ IsFiniteSet(queue)
           /\ \A l \in indel + 1 .. TopLevel : l < nextLevel =>
                \/ l \in validLevels \cup letGo \/ (\E x \in queue : x.lvl = l)
                \/ InList(list, l) \/ OthersHold(c, l) \/ l \in HeldBy(stream[c])
<1>1. LinkOK(stream[c], toSrv[c], fromSrv[c], serve[c], Cardinality(Owned(queue, c)))
  BY DEF SyncIInv, Links
<1>2. \A l \in indel + 1 .. TopLevel : l < nextLevel =>
        \/ l \in validLevels \cup letGo \/ (\E x \in queue : x.lvl = l)
        \/ InList(list, l) \/ OthersHold(c, l) \/ l \in HeldBy(stream[c])
  BY DEF SyncIInv, AllAccounted, Accounted, InList, OthersHold
<1> QED BY <1>1, <1>2 DEF LinkOK, SyncIInv, SyncShape

\* A connection between two blocks is ready as it is, whatever its flags become
LEMMA ReadyAsIs ==
    ASSUME SyncIInv, NEW c \in Streams, stream[c].up, ~stream[c].mid,
           NEW cn \in StreamType, cn.up, ~cn.mid, cn.cur = stream[c].cur, cn.nxt = stream[c].nxt, cn.pending = stream[c].pending
    PROVE  Ready(c, cn, queue, serve[c], validLevels)
<1>1. Rest(stream[c]) = cn.cur
  BY DEF Rest
<1>2. PipeOK(cn.cur, cn.nxt, toSrv[c], fromSrv[c], serve[c]) /\ cn.pending = Cardinality(Owned(queue, c))
  BY <1>1, LinkFacts DEF LinkOK
<1>3. HeldBy(stream[c]) = Levels(cn.cur) \cup Levels(cn.nxt)
  BY <1>1 DEF HeldBy
<1> QED BY <1>2, <1>3, LinkFacts DEF Ready

\* When a connection settles and the blockchain stays as it is, the invariant is kept
LEMMA QuietStep ==
    ASSUME SyncIInv, NEW c \in Streams, Settled(c, queue, serve[c], validLevels),
           UNCHANGED <<serve, validLevels, indel, syncing, mismatch>>
    PROVE  SyncIInv'
<1>1. SyncShape
  BY DEF SyncIInv
<1>2. serve \in [Streams -> ServeType] /\ serve[c] \in ServeType /\ validLevels \subseteq 1 .. TopLevel /\ indel = Indelible(validLevels)
  BY <1>1 DEF SyncShape
<1>3. Settled(c, queue, serve[c], validLevels')
  BY DEF Settled
<1>4. indel' = Indelible(validLevels')
  BY <1>2
<1> QED BY <1>2, <1>3, <1>4, SettledStep

\* FinishConnection as a step of its own
LEMMA FinishStep ==
    ASSUME SyncIInv, NEW c \in Streams, stream[c].up, ~stream[c].mid, FinishConnection(c, stream[c], queue),
           UNCHANGED <<serve, validLevels, indel, syncing, mismatch>>
    PROVE  SyncIInv'
<1>1. Ready(c, stream[c], queue, serve[c], validLevels)
  BY ReadyAsIs, LinkFacts
<1>2. Settled(c, queue, serve[c], validLevels)
  BY <1>1, FinishSettles DEF SyncIInv
<1> QED BY <1>2, QuietStep

\* A connection is made
LEMMA ConnectStep ==
    ASSUME SyncIInv, NEW c \in Streams, NEW t \in Tops, ConnectTo(c, t)
    PROVE  SyncIInv'
<1> DEFINE cn == [NoStream EXCEPT !.up = TRUE]
           sv == [level |-> 0, n |-> 0, top |-> t]
<1>1. /\ ~stream[c].up /\ serve' = [serve EXCEPT ![c] = sv] /\ CheckSendReq(c, cn, queue)
      /\ UNCHANGED <<validLevels, indel, syncing, mismatch, bsFaults>>
  BY DEF ConnectTo
<1>2. stream[c] = NoStream /\ toSrv[c] = <<>> /\ fromSrv[c] = <<>> /\ Cardinality(Owned(queue, c)) = 0
  BY <1>1, LinkFacts DEF LinkOK
<1>3. sv \in ServeType /\ sv.n = 0
  BY DEF ServeType
<1>4. cn \in StreamType /\ cn.up /\ ~cn.mid /\ cn.cur = NoEntry /\ cn.nxt = NoEntry /\ cn.pending = 0
  <2>1. NoStream.cur = NoEntry /\ NoStream.nxt = NoEntry /\ NoStream.pending = 0
    BY DEF NoStream
  <2> QED BY <2>1, NoStreamIs DEF StreamType
<1>5. Rest(NoStream) = NoEntry /\ NoStream.nxt = NoEntry
  BY DEF Rest, NoStream
<1>6. PipeOK(NoEntry, NoEntry, <<>>, <<>>, sv)
  <2>1. Len(<<>>) = 0 /\ Asked(<<>>) = 0
    BY DEF Asked
  <2> HIDE DEF sv
  <2> QED BY <1>3, <2>1, NoEntryGood DEF PipeOK, PipeOpen, UnreadReqs
<1>7. HeldBy(stream[c]) = Levels(cn.cur) \cup Levels(cn.nxt)
  <2> HIDE DEF cn
  <2> QED BY <1>2, <1>4, <1>5 DEF HeldBy
<1> HIDE DEF cn, sv
<1>8. Ready(c, cn, queue, sv, validLevels)
  BY <1>2, <1>3, <1>4, <1>6, <1>7, NoEntryGood, LinkFacts DEF Ready
<1>9. Settled(c, queue, sv, validLevels)
  BY <1>1, <1>8, CheckSendSettles DEF SyncIInv
<1>10. serve \in [Streams -> ServeType] /\ validLevels \subseteq 1 .. TopLevel /\ indel = Indelible(validLevels)
  BY DEF SyncIInv, SyncShape
<1>11. serve' \in [Streams -> ServeType] /\ serve'[c] = sv /\ \A d \in Streams \ {c} : serve'[d] = serve[d]
  BY <1>1, <1>3, <1>10
<1>12. Settled(c, queue, sv, validLevels') /\ indel' = Indelible(validLevels')
  BY <1>1, <1>9, <1>10 DEF Settled
<1> QED BY <1>1, <1>3, <1>10, <1>11, <1>12, SettledStep

\* A connection asks for its first blocks
LEMMA PollStep ==
    ASSUME SyncIInv, NEW c \in Streams, Poll(c)
    PROVE  SyncIInv'
<1>1. /\ stream[c].up /\ stream[c].polling /\ UNCHANGED <<serve, validLevels, indel, syncing, mismatch>>
      /\ CheckSendReq(c, stream[c], queue) \/ FinishConnection(c, stream[c], queue)
  BY DEF Poll
<1>2. ~stream[c].mid
  BY <1>1, LinkFacts DEF LinkOK
<1>3. CASE CheckSendReq(c, stream[c], queue)
  <2>1. Ready(c, stream[c], queue, serve[c], validLevels)
    BY <1>1, <1>2, ReadyAsIs, LinkFacts
  <2>2. Settled(c, queue, serve[c], validLevels)
    BY <1>3, <2>1, CheckSendSettles DEF SyncIInv
  <2> QED BY <1>1, <2>2, QuietStep
<1>4. CASE FinishConnection(c, stream[c], queue)
  BY <1>1, <1>2, <1>4, FinishStep
<1> QED BY <1>1, <1>3, <1>4

\* The client reads the 0 of a server without more blocks
LEMMA NoLevelStep ==
    ASSUME SyncIInv, NEW c \in Streams, HandleNoLevel(c)
    PROVE  SyncIInv'
<1> DEFINE cn == [stream[c] EXCEPT !.finished = TRUE]
<1>1. /\ stream[c].up /\ ~stream[c].mid /\ UNCHANGED <<serve, validLevels, indel, syncing, mismatch>>
      /\ CheckSendReq(c, cn, queue)
  BY DEF HandleNoLevel, Arrived
<1>2. stream[c] \in StreamType
  BY LinkFacts
<1>3. cn \in StreamType /\ cn.up /\ ~cn.mid /\ cn.cur = stream[c].cur /\ cn.nxt = stream[c].nxt /\ cn.pending = stream[c].pending
  BY <1>1, <1>2 DEF StreamType
<1> HIDE DEF cn
<1>4. Ready(c, cn, queue, serve[c], validLevels)
  BY <1>1, <1>3, ReadyAsIs
<1>5. Settled(c, queue, serve[c], validLevels)
  BY <1>1, <1>4, CheckSendSettles DEF SyncIInv
<1> QED BY <1>1, <1>5, QuietStep

\* The steps that only give a connection up
LEMMA GiveUpStep ==
    ASSUME SyncIInv, NEW c \in Streams, AfterFailure(c) \/ SyncDrop(c) \/ Timeout(c)
    PROVE  SyncIInv'
<1>1. ~stream[c].mid
  <2>1. CASE AfterFailure(c)
    BY <2>1, LinkFacts DEF AfterFailure, LinkOK
  <2>2. CASE SyncDrop(c) \/ Timeout(c)
    BY <2>2 DEF SyncDrop, Timeout
  <2> QED BY <2>1, <2>2
<1>2. stream[c].up /\ FinishConnection(c, stream[c], queue) /\ UNCHANGED <<serve, validLevels, indel, syncing, mismatch>>
  BY DEF AfterFailure, SyncDrop, Timeout
<1> QED BY <1>1, <1>2, FinishStep

\* The first element of a sequence, and the others
LEMMA HeadTail ==
    ASSUME NEW S, NEW s \in Seq(S), s # <<>>
    PROVE  Len(s) > 0 /\ Head(s) = s[1] /\ s[1] \in S /\ Tail(s) \in Seq(S)
  OBVIOUS

\* What Promoted changes, and what it does not
LEMMA PromotedIs ==
    ASSUME NEW cn \in StreamType, GoodEntry(cn.cur), GoodEntry(cn.nxt), NEW to \in Seq(Entries), NEW from \in Seq(0 .. TopLevel),
           NEW sv \in ServeType, PipeOK(cn.cur, cn.nxt, to, from, sv)
    PROVE  LET p == Promoted(cn)
           IN  /\ p \in StreamType /\ p.up = cn.up /\ p.mid = cn.mid /\ p.pending = cn.pending /\ p.reading = cn.reading /\ p.polling = cn.polling
               /\ GoodEntry(p.cur) /\ GoodEntry(p.nxt) /\ PipeOK(p.cur, p.nxt, to, from, sv)
               /\ Levels(p.cur) \cup Levels(p.nxt) = Levels(cn.cur) \cup Levels(cn.nxt)
               /\ p.cur.nlevels = 0 => p.nxt.nlevels = 0
<1>1. /\ cn.cur \in Entries /\ cn.nxt \in Entries /\ cn.cur.nlevels \in Nat /\ cn.nxt.nlevels \in Nat
      /\ cn.cur.level \in Nat /\ cn.nxt.level \in Nat /\ NoEntry \in Entries
  BY EntryNumbers, NoEntryGood DEF GoodEntry
<1>2. CASE cn.cur.nlevels > 0
  <2>1. Promoted(cn) = cn
    BY <1>2 DEF Promoted
  <2> QED BY <1>1, <1>2, <2>1
<1>3. CASE ~(cn.cur.nlevels > 0)
  <2> DEFINE p == [cn EXCEPT !.cur = cn.nxt, !.nxt = NoEntry]
  <2>1. Promoted(cn) = p
    BY <1>3 DEF Promoted
  <2>2. p \in StreamType /\ p.up = cn.up /\ p.mid = cn.mid /\ p.pending = cn.pending /\ p.reading = cn.reading /\ p.polling = cn.polling
        /\ p.cur = cn.nxt /\ p.nxt = NoEntry
    BY <1>1 DEF StreamType
  <2> HIDE DEF p
  <2>3. cn.cur.nlevels = 0
    BY <1>1, <1>3
  <2>4. PipeOK(cn.nxt, NoEntry, to, from, sv)
    <3>1. PipeTypes(cn.cur, cn.nxt, to, from, sv)
      BY DEF PipeTypes
    <3> QED BY <2>3, <3>1, PipePromote
  <2>5. Levels(cn.cur) = {} /\ Levels(NoEntry) = {}
    BY <1>1, <2>3, NoEntryGood DEF Levels
  <2> QED BY <2>1, <2>2, <2>4, <2>5, NoEntryGood
<1> QED BY <1>1, <1>2, <1>3

\* The client reads a block
LEMMA HandleBlockStep ==
    ASSUME SyncIInv, NEW c \in Streams, HandleBlock(c)
    PROVE  SyncIInv'
<1> DEFINE cn == Promoted(stream[c])
           l == Head(fromSrv[c])
           there == l \in validLevels \/ \E q \in queue : q.lvl = l
           r == [cn EXCEPT !.mid = TRUE, !.pending = @ + IF there THEN 0 ELSE 1]
           b == [lvl |-> l, owner |-> c]
<1>1. /\ stream[c].up /\ stream[c].reading /\ ~stream[c].polling /\ ~stream[c].mid /\ fromSrv[c] # <<>> /\ l > 0
      /\ UNCHANGED <<serve, validLevels, indel, syncing, bsFaults>>
  BY DEF HandleBlock, Arrived
<1>2. l = fromSrv[c][1] /\ l \in 0 .. TopLevel
  <2>1. fromSrv[c] \in Seq(0 .. TopLevel)
    BY LinkFacts
  <2> QED BY <1>1, <2>1, HeadTail
<1>3. Rest(stream[c]) = stream[c].cur
  BY <1>1 DEF Rest
<1>4. PipeOK(stream[c].cur, stream[c].nxt, toSrv[c], fromSrv[c], serve[c]) /\ stream[c].pending = Cardinality(Owned(queue, c))
  BY <1>1, <1>3, LinkFacts DEF LinkOK
<1>5. /\ stream[c] \in StreamType /\ toSrv[c] \in Seq(Entries) /\ fromSrv[c] \in Seq(0 .. TopLevel) /\ serve[c] \in ServeType
      /\ GoodEntry(stream[c].cur) /\ GoodEntry(stream[c].nxt)
  BY LinkFacts
<1>6. /\ cn \in StreamType /\ cn.up /\ ~cn.mid /\ cn.pending = stream[c].pending /\ cn.reading /\ ~cn.polling
      /\ GoodEntry(cn.cur) /\ GoodEntry(cn.nxt) /\ PipeOK(cn.cur, cn.nxt, toSrv[c], fromSrv[c], serve[c])
      /\ Levels(cn.cur) \cup Levels(cn.nxt) = Levels(stream[c].cur) \cup Levels(stream[c].nxt)
      /\ cn.cur.nlevels = 0 => cn.nxt.nlevels = 0
  BY <1>1, <1>4, <1>5, PromotedIs
<1>0. IF cn.cur.nlevels = 0 \/ cn.cur.level # l
      THEN TRUE
      ELSE /\ stream' = [stream EXCEPT ![c] = r]
           /\ queue' = (IF there THEN queue ELSE queue \cup {b}) /\ fromSrv' = [fromSrv EXCEPT ![c] = Tail(@)]
           /\ UNCHANGED <<toSrv, list, nextLevel, nfinished, letGo, mismatch>>
  BY DEF HandleBlock
<1> HIDE DEF cn, l
<1>7. /\ cn.cur \in Entries /\ cn.nxt \in Entries /\ cn.cur.nlevels \in Nat /\ cn.nxt.nlevels \in Nat
      /\ cn.cur.level \in Nat /\ cn.nxt.level \in Nat
  BY <1>6, EntryNumbers DEF GoodEntry
<1>8. PipeTypes(cn.cur, cn.nxt, toSrv[c], fromSrv[c], serve[c])
  BY <1>5, <1>6 DEF PipeTypes
<1>9. l = Due(cn.cur, cn.nxt, 1) /\ cn.cur.nlevels + cn.nxt.nlevels > 0
  BY <1>1, <1>2, <1>6, <1>8, FirstIsDue
<1>10. cn.cur.nlevels > 0
  BY <1>6, <1>7, <1>9
<1>11. cn.cur.level = l
  BY <1>7, <1>9, <1>10 DEF Due
<1>12. /\ stream' = [stream EXCEPT ![c] = r]
       /\ queue' = (IF there THEN queue ELSE queue \cup {b}) /\ fromSrv' = [fromSrv EXCEPT ![c] = Tail(@)]
       /\ UNCHANGED <<toSrv, list, nextLevel, nfinished, letGo, mismatch>>
  BY <1>0, <1>7, <1>10, <1>11
<1>13. /\ r \in StreamType /\ r.up /\ r.mid /\ r.reading /\ ~r.polling /\ r.cur = cn.cur /\ r.nxt = cn.nxt
       /\ r.pending = cn.pending + IF there THEN 0 ELSE 1
  <2> DEFINE k == IF there THEN 0 ELSE 1
  <2>1. k \in Nat
    OBVIOUS
  <2> HIDE DEF k
  <2>2. cn.pending \in Nat /\ cn.pending + k \in Nat
    BY <1>6, <2>1 DEF StreamType
  <2>3. r = [cn EXCEPT !.mid = TRUE, !.pending = cn.pending + k]
    BY <1>6 DEF StreamType, k
  <2> HIDE DEF r
  <2>4. r \in StreamType /\ r.up /\ r.mid /\ r.reading /\ ~r.polling /\ r.cur = cn.cur /\ r.nxt = cn.nxt /\ r.pending = cn.pending + k
    BY <1>6, <2>2, <2>3 DEF StreamType
  <2> QED BY <2>4 DEF k
<1> HIDE DEF r
<1>14. queue \subseteq QueueType /\ IsFiniteSet(queue) /\ b \in QueueType /\ b.lvl = l /\ b.owner = c
  <2>1. l \in 1 .. TopLevel
    BY <1>1, <1>2, TopIs
  <2> QED BY <2>1, LinkFacts DEF QueueType
<1> HIDE DEF b
<1>15. IsFiniteSet(Owned(queue, c))
  BY <1>14, FS_Subset DEF Owned
<1>16. queue' \subseteq QueueType /\ IsFiniteSet(queue') /\ (l \in validLevels \/ \E x \in queue' : x.lvl = l) /\ queue \subseteq queue'
  <2>1. CASE there
    BY <1>12, <1>14, <2>1
  <2>2. CASE ~there
    BY <1>12, <1>14, <2>2, FS_AddElement
  <2> QED BY <2>1, <2>2
<1>17. r.pending = Cardinality(Owned(queue', c))
  <2>1. CASE there
    BY <1>4, <1>6, <1>12, <1>13, <1>15, <2>1, FS_CardinalityType
  <2>2. CASE ~there
    <3>1. b \notin queue
      BY <1>14, <2>2
    <3>2. Owned(queue', c) = Owned(queue, c) \cup {b} /\ b \notin Owned(queue, c)
      BY <1>12, <1>14, <2>2, <3>1 DEF Owned
    <3>3. Cardinality(Owned(queue', c)) = Cardinality(Owned(queue, c)) + 1
      BY <1>15, <3>2, FS_AddElement
    <3> QED BY <1>4, <1>6, <1>13, <2>2, <3>3
  <2> QED BY <2>1, <2>2
<1>18. \A d \in Streams \ {c} : Owned(queue', d) = Owned(queue, d)
  BY <1>12, <1>14 DEF Owned
<1> HIDE DEF there
<1>19. Rest(r) = Passed(cn.cur)
  BY <1>13 DEF Rest
<1>20. /\ stream \in [Streams -> StreamType] /\ toSrv \in [Streams -> Seq(Entries)] /\ fromSrv \in [Streams -> Seq(0 .. TopLevel)]
       /\ serve \in [Streams -> ServeType] /\ ListOK(list) /\ nextLevel \in Nat \ {0} /\ nfinished \in Nat /\ indel \in Nat
  BY ShapeFacts DEF SyncIInv
<1>21. Tail(fromSrv[c]) \in Seq(0 .. TopLevel)
  BY <1>1, <1>5, HeadTail
<1>22. stream'[c] = r /\ fromSrv'[c] = Tail(fromSrv[c]) /\ toSrv'[c] = toSrv[c]
  BY <1>12, <1>20
<1>23. LinkOK(stream'[c], toSrv'[c], fromSrv'[c], serve[c], Cardinality(Owned(queue', c)))
  <2>1. PipeOK(Rest(r), r.nxt, toSrv[c], Tail(fromSrv[c]), serve[c])
    BY <1>1, <1>2, <1>6, <1>8, <1>10, <1>13, <1>19, PipePass
  <2> QED BY <1>5, <1>6, <1>10, <1>13, <1>17, <1>21, <1>22, <2>1 DEF LinkOK
<1>24. OthersStay(c, queue')
  <2>1. stream' \in [Streams -> StreamType] /\ fromSrv' \in [Streams -> Seq(0 .. TopLevel)] /\ toSrv' = toSrv
    BY <1>12, <1>13, <1>20, <1>21
  <2>2. \A d \in Streams \ {c} : stream'[d] = stream[d] /\ toSrv'[d] = toSrv[d] /\ fromSrv'[d] = fromSrv[d]
    BY <1>12, <1>20
  <2> QED BY <1>20, <2>1, <2>2 DEF OthersStay
<1>25. HeldBy(stream[c]) \subseteq {l} \cup HeldBy(stream'[c])
  <2>1. HeldBy(stream[c]) = Levels(cn.cur) \cup Levels(cn.nxt)
    BY <1>3, <1>6 DEF HeldBy
  <2>2. HeldBy(stream'[c]) = Levels(Passed(cn.cur)) \cup Levels(cn.nxt)
    BY <1>13, <1>19, <1>22 DEF HeldBy
  <2>3. Levels(cn.cur) \subseteq {l} \cup Levels(Passed(cn.cur))
    BY <1>6, <1>7, <1>10, <1>11, PassedGood DEF Levels
  <2> QED BY <2>1, <2>2, <2>3
<1>26. \A m \in indel + 1 .. TopLevel : m < nextLevel' =>
         \/ m \in validLevels' \cup letGo' \/ (\E x \in queue' : x.lvl = m)
         \/ InList(list', m) \/ OthersHold(c, m) \/ m \in HeldBy(stream'[c])
  <2> SUFFICES ASSUME NEW m \in indel + 1 .. TopLevel, m < nextLevel'
               PROVE  \/ m \in validLevels' \cup letGo' \/ (\E x \in queue' : x.lvl = m)
                      \/ InList(list', m) \/ OthersHold(c, m) \/ m \in HeldBy(stream'[c])
    OBVIOUS
  <2>1. \/ m \in validLevels \cup letGo \/ (\E x \in queue : x.lvl = m)
        \/ InList(list, m) \/ OthersHold(c, m) \/ m \in HeldBy(stream[c])
    BY <1>12, LinkFacts
  <2> QED BY <1>1, <1>12, <1>16, <1>25, <2>1
<1>27. Settled(c, queue', serve[c], validLevels')
  BY <1>12, <1>16, <1>20, <1>23, <1>24, <1>26 DEF Settled
<1>28. validLevels' = validLevels /\ validLevels \subseteq 1 .. TopLevel /\ indel' = Indelible(validLevels') /\ syncing' = syncing /\ mismatch' = mismatch
  BY <1>1, <1>12 DEF SyncIInv, SyncShape
<1>29. serve' \in [Streams -> ServeType] /\ serve'[c] = serve[c] /\ \A d \in Streams \ {c} : serve'[d] = serve[d]
  BY <1>1, <1>20
<1> QED BY <1>5, <1>18, <1>27, <1>28, <1>29, SettledStep

\* The client goes on to the next block
LEMMA NextBlockStep ==
    ASSUME SyncIInv, NEW c \in Streams, NextBlock(c)
    PROVE  SyncIInv'
<1> DEFINE s == [stream[c] EXCEPT !.cur = Passed(@), !.mid = FALSE]
           cn == Promoted(s)
<1>1. stream[c].mid /\ CheckSendReq(c, cn, queue) /\ UNCHANGED <<serve, validLevels, indel, syncing, mismatch>>
  BY DEF NextBlock
<1>2. stream[c].up /\ stream[c].cur.nlevels > 0 /\ stream[c] \in StreamType /\ GoodEntry(stream[c].cur) /\ GoodEntry(stream[c].nxt)
  BY <1>1, LinkFacts DEF LinkOK
<1>3. GoodEntry(Passed(stream[c].cur))
  BY <1>2, PassedGood
<1>4. s \in StreamType /\ s.up /\ ~s.mid /\ s.cur = Passed(stream[c].cur) /\ s.nxt = stream[c].nxt /\ s.pending = stream[c].pending
  <2>1. Passed(stream[c].cur) \in Entries
    BY <1>3 DEF GoodEntry
  <2> QED BY <1>2, <2>1 DEF StreamType
<1> HIDE DEF s
<1>5. Rest(stream[c]) = s.cur
  BY <1>1, <1>4 DEF Rest
<1>6. PipeOK(s.cur, s.nxt, toSrv[c], fromSrv[c], serve[c]) /\ s.pending = Cardinality(Owned(queue, c))
  BY <1>2, <1>4, <1>5, LinkFacts DEF LinkOK
<1>7. /\ cn \in StreamType /\ cn.up /\ ~cn.mid /\ cn.pending = s.pending
      /\ GoodEntry(cn.cur) /\ GoodEntry(cn.nxt) /\ PipeOK(cn.cur, cn.nxt, toSrv[c], fromSrv[c], serve[c])
      /\ Levels(cn.cur) \cup Levels(cn.nxt) = Levels(s.cur) \cup Levels(s.nxt)
  BY <1>2, <1>3, <1>4, <1>6, PromotedIs, LinkFacts
<1> HIDE DEF cn
<1>8. HeldBy(stream[c]) = Levels(cn.cur) \cup Levels(cn.nxt)
  BY <1>4, <1>5, <1>7 DEF HeldBy
<1>9. Ready(c, cn, queue, serve[c], validLevels)
  BY <1>6, <1>7, <1>8, LinkFacts DEF Ready
<1>10. Settled(c, queue, serve[c], validLevels)
  BY <1>1, <1>9, CheckSendSettles DEF SyncIInv
<1> QED BY <1>1, <1>10, QuietStep
\* A range that starts later is part of the one that starts earlier
LEMMA LaterRange ==
    ASSUME NEW i \in Int, NEW j \in Int, NEW t \in Int, j >= i, NEW l \in j + 1 .. t
    PROVE  l \in i + 1 .. t
OBVIOUS


\* A block leaves the process queue
LEMMA ValidateStep ==
    ASSUME SyncIInv, NEW x \in queue, SyncValidate(x)
    PROVE  SyncIInv'
<1> DEFINE rest == queue \ {x}
<1>0. SyncShape
  BY DEF SyncIInv
<1>1. serve' = serve /\ syncing' = syncing /\ mismatch' = mismatch
  BY DEF SyncValidate
<1>2. /\ x \in QueueType /\ x.lvl \in 1 .. TopLevel /\ x.owner \in Streams \cup {Nobody} /\ queue \subseteq QueueType /\ IsFiniteSet(queue)
      /\ validLevels \subseteq 1 .. TopLevel /\ indel = Indelible(validLevels)
  BY <1>0 DEF SyncShape, QueueType
<1>3. rest \subseteq QueueType /\ IsFiniteSet(rest) /\ \A d \in Streams : d # x.owner => Owned(rest, d) = Owned(queue, d)
  BY <1>2, FS_Subset DEF Owned
<1>4. PICK ok \in BOOLEAN : /\ SyncValidateDone(x, ok)
                            /\ ok => validLevels' = validLevels \cup {x.lvl} /\ indel' = Indelible(validLevels \cup {x.lvl})
                            /\ ~ok => validLevels' = validLevels /\ indel' = indel
  <2>1. CASE validLevels' = validLevels \cup {x.lvl} /\ indel' = Indelible(validLevels \cup {x.lvl}) /\ SyncValidateDone(x, TRUE)
    BY <2>1
  <2>2. CASE SyncValidateDone(x, FALSE) /\ validLevels' = validLevels /\ indel' = indel
    BY <2>2
  <2> QED BY <2>1, <2>2 DEF SyncValidate
<1>5. validLevels \subseteq validLevels' /\ validLevels' \subseteq 1 .. TopLevel /\ indel' = Indelible(validLevels') /\ (ok => x.lvl \in validLevels')
  BY <1>2, <1>4
<1>6. /\ stream \in [Streams -> StreamType] /\ toSrv \in [Streams -> Seq(Entries)] /\ fromSrv \in [Streams -> Seq(0 .. TopLevel)]
      /\ serve \in [Streams -> ServeType] /\ ListOK(list) /\ nextLevel \in Nat \ {0} /\ nfinished \in Nat /\ indel \in Nat
  BY <1>0, ShapeFacts
<1>7. CASE x.owner = Nobody
  <2>1. queue' = rest /\ letGo' = (IF ok THEN letGo ELSE letGo \cup {x.lvl}) /\ UNCHANGED <<stream, toSrv, fromSrv, list, nextLevel, nfinished>>
    BY <1>4, <1>7 DEF SyncValidateDone
  <2>2. \A d \in Streams : Owned(queue', d) = Owned(queue, d)
    BY <1>3, <1>7, <2>1, BlockSyncAssumption
  <2>3. SyncShape'
    BY <1>0, <1>1, <1>3, <1>5, <2>1 DEF SyncShape
  <2>4. Links'
    BY <1>1, <2>1, <2>2 DEF Links, SyncIInv
  <2>5. indel' >= indel /\ indel' \in 0 .. TopLevel
    BY <1>2, <1>5, IndelibleIs
  <2>6. AllAccounted'
    <3> SUFFICES ASSUME NEW l \in indel' + 1 .. TopLevel, l < nextLevel'
                 PROVE  Accounted(l)'
      BY DEF AllAccounted
    <3>0. indel \in Int /\ indel' \in Int /\ TopLevel \in Int /\ indel' >= indel
      BY <1>6, <2>5, TopIs
    <3>1. l \in indel + 1 .. TopLevel /\ l < nextLevel
      BY <2>1, <3>0, LaterRange, Zenon
    <3>2. Accounted(l)
      BY <3>1 DEF SyncIInv, AllAccounted
    <3>3. l \in validLevels \cup letGo => l \in validLevels' \cup letGo'
      BY <1>5, <2>1
    <3>4. (\E y \in queue : y.lvl = l) => l \in validLevels' \cup letGo' \/ \E y \in queue' : y.lvl = l
      BY <1>5, <2>1
    <3> QED BY <2>1, <3>2, <3>3, <3>4 DEF Accounted, HeldBy, Rest
  <2>7. SyncedEnough'
    <3>1. SyncedEnough /\ Recent \in Int /\ indel' \in Int
      BY <2>5, BlockSyncAssumption, TopIs DEF SyncIInv
    <3> QED BY <1>1, <1>6, <2>1, <2>5, <3>1 DEF SyncedEnough
  <2> QED BY <2>3, <2>4, <2>6, <2>7 DEF SyncIInv
<1>8. CASE x.owner # Nobody
  <2> DEFINE c == x.owner
             cn == [stream[c] EXCEPT !.pending = @ - 1, !.requeues = @ \/ ~ok]
  <2>1. c \in Streams
    BY <1>2, <1>8
  <2>2. Cardinality(Owned(rest, c)) = Cardinality(Owned(queue, c)) - 1 /\ Cardinality(Owned(queue, c)) \in Nat /\ Cardinality(Owned(queue, c)) > 0
    <3>1. IsFiniteSet(Owned(queue, c)) /\ x \in Owned(queue, c) /\ Owned(rest, c) = Owned(queue, c) \ {x}
      BY <1>2, FS_Subset DEF Owned
    <3>2. Cardinality(Owned(queue, c)) \in Nat /\ Cardinality(Owned(queue, c)) # 0
      BY <3>1, FS_CardinalityType, FS_EmptySet
    <3>3. Cardinality(Owned(rest, c)) = Cardinality(Owned(queue, c)) - 1
      <4>1. Cardinality(Owned(queue, c) \ {x}) = Cardinality(Owned(queue, c)) - 1
        BY <3>1, FS_RemoveElement, Zenon
      <4> HIDE DEF rest, c
      <4> QED BY <3>1, <4>1
    <3> QED BY <3>2, <3>3
  <2>3. stream[c].up /\ stream[c].pending = Cardinality(Owned(queue, c)) /\ stream[c] \in StreamType
    <3>1. Cardinality(Owned(queue, c)) # 0
      BY <2>2
    <3> QED BY <2>1, <3>1, LinkFacts DEF LinkOK
  <2>4. /\ cn \in StreamType /\ cn.up /\ cn.pending = Cardinality(Owned(rest, c)) /\ cn.cur = stream[c].cur /\ cn.nxt = stream[c].nxt
        /\ cn.mid = stream[c].mid /\ cn.reading = stream[c].reading /\ cn.polling = stream[c].polling
    <3>1. stream[c].pending - 1 \in Nat /\ stream[c].requeues \in BOOLEAN /\ stream[c].pending - 1 = Cardinality(Owned(rest, c))
      BY <2>2, <2>3 DEF StreamType
    <3> HIDE DEF rest
    <3> QED BY <2>3, <3>1 DEF StreamType
  <2>5. IF ok /\ ~cn.reading THEN CheckSendReq(c, cn, rest)
        ELSE /\ IF ok THEN UNCHANGED <<list, nextLevel>> ELSE BecomeList(RequeueEntry(SyncList, Entry(x.lvl, 1)))
             /\ stream' = [stream EXCEPT ![c] = cn] /\ queue' = rest
             /\ UNCHANGED <<toSrv, fromSrv, nfinished, letGo>>
    BY <1>4, <1>8 DEF SyncValidateDone
  <2> HIDE DEF cn, rest
  <2>6. Rest(cn) = Rest(stream[c]) /\ HeldBy(cn) = HeldBy(stream[c])
    BY <2>4 DEF Rest, HeldBy
  <2>7. \A l : (\E y \in queue : y.lvl = l) => l = x.lvl \/ \E y \in rest : y.lvl = l
    BY DEF rest
  <2>8. PipeOK(Rest(cn), cn.nxt, toSrv[c], fromSrv[c], serve[c])
    BY <2>1, <2>3, <2>4, <2>6, LinkFacts DEF LinkOK
  <2>9. Settled(c, rest, serve[c], validLevels')
    <3>1. CASE ok /\ ~cn.reading
      <4>1. ~cn.mid
        BY <2>1, <2>4, <3>1, LinkFacts DEF LinkOK
      <4>2. Rest(cn) = cn.cur
        BY <4>1 DEF Rest
      <4>3. \A l \in indel + 1 .. TopLevel : l < nextLevel =>
              \/ l \in validLevels' \cup letGo \/ (\E y \in rest : y.lvl = l)
              \/ InList(list, l) \/ OthersHold(c, l) \/ l \in Levels(cn.cur) \cup Levels(cn.nxt)
        <5> SUFFICES ASSUME NEW l \in indel + 1 .. TopLevel, l < nextLevel
                     PROVE  \/ l \in validLevels' \cup letGo \/ (\E y \in rest : y.lvl = l)
                            \/ InList(list, l) \/ OthersHold(c, l) \/ l \in Levels(cn.cur) \cup Levels(cn.nxt)
          OBVIOUS
        <5>1. \/ l \in validLevels \cup letGo \/ (\E y \in queue : y.lvl = l)
              \/ InList(list, l) \/ OthersHold(c, l) \/ l \in HeldBy(stream[c])
          BY <2>1, LinkFacts
        <5>2. HeldBy(stream[c]) = Levels(cn.cur) \cup Levels(cn.nxt)
          BY <2>6, <4>2 DEF HeldBy
        <5> QED BY <1>5, <2>7, <3>1, <5>1, <5>2
      <4>4. GoodEntry(cn.cur) /\ GoodEntry(cn.nxt) /\ serve[c] \in ServeType
        BY <2>1, <2>4, LinkFacts
      <4>5. Ready(c, cn, rest, serve[c], validLevels')
        BY <1>3, <2>1, <2>4, <2>8, <4>1, <4>2, <4>3, <4>4 DEF Ready
      <4> QED BY <1>0, <2>5, <3>1, <4>5, CheckSendSettles
    <3>2. CASE ~(ok /\ ~cn.reading)
      <4>1. /\ IF ok THEN UNCHANGED <<list, nextLevel>> ELSE BecomeList(RequeueEntry(SyncList, Entry(x.lvl, 1)))
            /\ stream' = [stream EXCEPT ![c] = cn] /\ queue' = rest /\ UNCHANGED <<toSrv, fromSrv, nfinished, letGo>>
        BY <2>5, <3>2
      <4>2. stream'[c] = cn /\ toSrv'[c] = toSrv[c] /\ fromSrv'[c] = fromSrv[c]
        BY <1>6, <2>1, <4>1
      <4>3. LinkOK(stream'[c], toSrv'[c], fromSrv'[c], serve[c], Cardinality(Owned(queue', c)))
        BY <2>1, <2>3, <2>4, <2>8, <4>1, <4>2, LinkFacts DEF LinkOK
      <4>4. OthersStay(c, rest)
        BY <1>6, <2>1, <2>4, <4>1 DEF OthersStay
      <4>5. /\ ListOK(list') /\ nextLevel' \in Nat \ {0} /\ nextLevel' >= nextLevel
            /\ \A l \in Nat : l < nextLevel' /\ (l >= nextLevel \/ InList(list, l)) => InList(list', l)
            /\ ~ok => \A l \in Nat : l < nextLevel' /\ l = x.lvl => InList(list', l)
        <5>1. CASE ok
          BY <1>6, <4>1, <5>1
        <5>2. CASE ~ok
          <6> DEFINE e == Entry(x.lvl, 1)
          <6>1. GoodEntry(e) /\ x.lvl \in Levels(e)
            BY <1>2, BlockSyncAssumption, TopIs DEF GoodEntry, Entries, Entry, Levels
          <6>2. BecomeList(RequeueEntry(SyncList, e))
            BY <4>1, <5>2
          <6> HIDE DEF e
          <6> QED BY <1>6, <6>1, <6>2, RequeueOne
        <5> QED BY <5>1, <5>2
      <4>6. \A l \in indel + 1 .. TopLevel : l < nextLevel' =>
              \/ l \in validLevels' \cup letGo' \/ (\E y \in queue' : y.lvl = l)
              \/ InList(list', l) \/ OthersHold(c, l) \/ l \in HeldBy(stream'[c])
        <5> SUFFICES ASSUME NEW l \in indel + 1 .. TopLevel, l < nextLevel'
                     PROVE  \/ l \in validLevels' \cup letGo' \/ (\E y \in queue' : y.lvl = l)
                            \/ InList(list', l) \/ OthersHold(c, l) \/ l \in HeldBy(stream'[c])
          OBVIOUS
        <5>1. l \in Nat
          BY <1>6, TopIs
        <5>2. CASE l >= nextLevel
          BY <4>5, <5>1, <5>2
        <5>3. CASE ~(l >= nextLevel)
          <6>1. l < nextLevel
            BY <1>6, <5>1, <5>3
          <6>2. \/ l \in validLevels \cup letGo \/ (\E y \in queue : y.lvl = l)
                \/ InList(list, l) \/ OthersHold(c, l) \/ l \in HeldBy(stream[c])
            BY <2>1, <6>1, LinkFacts
          <6>3. l = x.lvl => l \in validLevels' \/ InList(list', l)
            BY <1>5, <4>5, <5>1
          <6> QED BY <1>5, <2>6, <2>7, <4>1, <4>2, <4>5, <5>1, <6>2, <6>3
        <5> QED BY <5>2, <5>3
      <4> QED BY <1>3, <1>6, <4>1, <4>3, <4>4, <4>5, <4>6 DEF Settled
    <3> QED BY <3>1, <3>2
  <2>10. \A d \in Streams \ {c} : Owned(rest, d) = Owned(queue, d)
    BY <1>3
  <2>11. serve' \in [Streams -> ServeType] /\ serve'[c] = serve[c] /\ serve[c] \in ServeType /\ \A d \in Streams \ {c} : serve'[d] = serve[d]
    BY <1>1, <1>6, <2>1
  <2> HIDE DEF c
  <2> QED BY <1>1, <1>5, <2>1, <2>9, <2>10, <2>11, SettledStep
<1> QED BY <1>7, <1>8

\* A step of a server
LEMMA ServeSettles ==
    ASSUME SyncIInv, NEW c \in Streams, stream[c].up, NEW sv \in ServeType,
           UNCHANGED <<stream, list, nextLevel, nfinished, queue, validLevels, indel, syncing, letGo, mismatch>>,
           NEW to \in Seq(Entries), NEW from \in Seq(0 .. TopLevel),
           toSrv' = [toSrv EXCEPT ![c] = to], fromSrv' = [fromSrv EXCEPT ![c] = from], serve' = [serve EXCEPT ![c] = sv],
           PipeOK(Rest(stream[c]), stream[c].nxt, to, from, sv)
    PROVE  SyncIInv'
<1>0. /\ stream \in [Streams -> StreamType] /\ toSrv \in [Streams -> Seq(Entries)] /\ fromSrv \in [Streams -> Seq(0 .. TopLevel)]
      /\ serve \in [Streams -> ServeType] /\ ListOK(list) /\ nextLevel \in Nat \ {0} /\ nfinished \in Nat /\ indel \in Nat
  BY ShapeFacts DEF SyncIInv
<1>1. toSrv'[c] = to /\ fromSrv'[c] = from /\ stream'[c] = stream[c]
  BY <1>0
<1>2. LinkOK(stream'[c], toSrv'[c], fromSrv'[c], sv, Cardinality(Owned(queue', c)))
  BY <1>1, LinkFacts DEF LinkOK
<1>3. OthersStay(c, queue)
  BY <1>0 DEF OthersStay
<1>4. \A l \in indel + 1 .. TopLevel : l < nextLevel' =>
        \/ l \in validLevels' \cup letGo' \/ (\E x \in queue' : x.lvl = l)
        \/ InList(list', l) \/ OthersHold(c, l) \/ l \in HeldBy(stream'[c])
  BY <1>1, LinkFacts
<1>5. Settled(c, queue, sv, validLevels')
  BY <1>0, <1>2, <1>3, <1>4, LinkFacts DEF Settled
<1>6. serve' \in [Streams -> ServeType] /\ serve'[c] = sv /\ \A d \in Streams \ {c} : serve'[d] = serve[d]
  BY <1>0
<1>7. validLevels \subseteq 1 .. TopLevel /\ indel' = Indelible(validLevels')
  BY DEF SyncIInv, SyncShape
<1> QED BY <1>5, <1>6, <1>7, SettledStep

\* The server reads a request
LEMMA ServeRequestStep ==
    ASSUME SyncIInv, NEW c \in Streams, ServeRequest(c)
    PROVE  SyncIInv'
<1> DEFINE to == toSrv[c]
           sv == [serve[c] EXCEPT !.level = Head(to).level, !.n = Head(to).nlevels]
<1>1. /\ stream[c].up /\ to # <<>> /\ serve[c].n = 0
      /\ UNCHANGED <<stream, fromSrv, list, nextLevel, nfinished, queue, validLevels, indel, syncing, letGo, mismatch>>
  BY DEF ServeRequest
<1>2. /\ stream \in [Streams -> StreamType] /\ toSrv \in [Streams -> Seq(Entries)] /\ fromSrv \in [Streams -> Seq(0 .. TopLevel)]
      /\ serve \in [Streams -> ServeType]
  BY ShapeFacts DEF SyncIInv
<1>3. toSrv' = [toSrv EXCEPT ![c] = Tail(to)] /\ serve' = [serve EXCEPT ![c] = sv]
  BY <1>2 DEF ServeRequest
<1>4. to \in Seq(Entries) /\ Tail(to) \in Seq(Entries) /\ Head(to) \in Entries
  BY <1>1, <1>2, HeadTail
<1>5. sv \in ServeType /\ sv.level = Head(to).level /\ sv.n = Head(to).nlevels
  <2>1. Head(to).level \in Nat /\ Head(to).nlevels \in Nat
    BY <1>4, EntryNumbers
  <2> HIDE DEF to
  <2>2. serve[c] \in ServeType
    BY <1>2
  <2> QED BY <2>1, <2>2 DEF ServeType
<1>6. fromSrv' = [fromSrv EXCEPT ![c] = fromSrv[c]] /\ fromSrv[c] \in Seq(0 .. TopLevel) /\ serve[c] \in ServeType
  BY <1>1, <1>2
<1>7. GoodEntry(Rest(stream[c])) /\ GoodEntry(stream[c].nxt) /\ PipeOK(Rest(stream[c]), stream[c].nxt, to, fromSrv[c], serve[c])
  <2>1. CASE stream[c].mid
    <3>1. stream[c].cur.nlevels > 0 /\ Rest(stream[c]) = Passed(stream[c].cur)
      BY <2>1, LinkFacts DEF LinkOK, Rest
    <3> QED BY <1>1, <3>1, PassedGood, LinkFacts DEF LinkOK
  <2>2. CASE ~stream[c].mid
    BY <1>1, <2>2, LinkFacts DEF LinkOK, Rest
  <2> QED BY <2>1, <2>2
<1> HIDE DEF to, sv
<1>8. PipeOK(Rest(stream[c]), stream[c].nxt, Tail(to), fromSrv[c], sv)
  <2>1. PipeTypes(Rest(stream[c]), stream[c].nxt, to, fromSrv[c], serve[c])
    BY <1>4, <1>6, <1>7 DEF PipeTypes
  <2> QED BY <1>1, <1>5, <1>7, <2>1, PipeServe
<1> QED BY <1>1, <1>3, <1>4, <1>5, <1>6, <1>8, ServeSettles

\* The server sends a block, or a 0 when it has no more
LEMMA DoSendStep ==
    ASSUME SyncIInv, NEW c \in Streams, DoSend(c)
    PROVE  SyncIInv'
<1> DEFINE s == serve[c]
           f == fromSrv[c]
           ended == [s EXCEPT !.n = -1]
           next == [s EXCEPT !.level = s.level + 1, !.n = s.n - 1]
<1>1. /\ stream[c].up /\ s.n > 0
      /\ UNCHANGED <<stream, toSrv, list, nextLevel, nfinished, queue, validLevels, indel, syncing, letGo, mismatch>>
  BY DEF DoSend
<1>2. /\ stream \in [Streams -> StreamType] /\ toSrv \in [Streams -> Seq(Entries)] /\ fromSrv \in [Streams -> Seq(0 .. TopLevel)]
      /\ serve \in [Streams -> ServeType]
  BY ShapeFacts DEF SyncIInv
<1>3. /\ s \in ServeType /\ f \in Seq(0 .. TopLevel) /\ toSrv[c] \in Seq(Entries) /\ toSrv' = [toSrv EXCEPT ![c] = toSrv[c]]
      /\ s.n \in Nat /\ s.level \in Nat /\ s.top \in Nat /\ s.top <= TopLevel
  <2>1. s \in ServeType /\ f \in Seq(0 .. TopLevel) /\ toSrv[c] \in Seq(Entries) /\ toSrv' = [toSrv EXCEPT ![c] = toSrv[c]]
    BY <1>1, <1>2
  <2> HIDE DEF s
  <2>2. s.level \in Nat /\ s.n \in Int /\ (s.n # -1 => s.n \in Nat) /\ s.top \in Nat /\ s.top <= TopLevel
    BY <2>1, ServeNumbers
  <2>3. s.n # -1
    BY <1>1
  <2> QED BY <2>1, <2>2, <2>3
<1>4. IF s.level > s.top
      THEN fromSrv' = [fromSrv EXCEPT ![c] = Append(f, 0)] /\ serve' = [serve EXCEPT ![c] = ended]
      ELSE fromSrv' = [fromSrv EXCEPT ![c] = Append(f, s.level)] /\ serve' = [serve EXCEPT ![c] = next]
  BY <1>2 DEF DoSend
<1>5. GoodEntry(Rest(stream[c])) /\ GoodEntry(stream[c].nxt) /\ PipeOK(Rest(stream[c]), stream[c].nxt, toSrv[c], f, s)
  <2>1. CASE stream[c].mid
    <3>1. stream[c].cur.nlevels > 0 /\ Rest(stream[c]) = Passed(stream[c].cur)
      BY <2>1, LinkFacts DEF LinkOK, Rest
    <3> QED BY <1>1, <3>1, PassedGood, LinkFacts DEF LinkOK
  <2>2. CASE ~stream[c].mid
    BY <1>1, <2>2, LinkFacts DEF LinkOK, Rest
  <2> QED BY <2>1, <2>2
<1>6. ended \in ServeType /\ ended.n = -1 /\ next \in ServeType /\ next.n = s.n - 1 /\ next.level = s.level + 1
  <2> HIDE DEF s
  <2>1. s.n - 1 \in Nat /\ s.level + 1 \in Nat
    BY <1>1, <1>3
  <2> QED BY <1>3, <2>1 DEF ServeType
<1>7. PipeTypes(Rest(stream[c]), stream[c].nxt, toSrv[c], f, s)
  BY <1>3, <1>5 DEF PipeTypes
<1> HIDE DEF s, f, ended, next
<1>8. CASE s.level > s.top
  <2>1. fromSrv' = [fromSrv EXCEPT ![c] = Append(f, 0)] /\ serve' = [serve EXCEPT ![c] = ended]
    BY <1>4, <1>8
  <2>2. Append(f, 0) \in Seq(0 .. TopLevel)
    <3>1. 0 \in 0 .. TopLevel
      BY TopIs
    <3> QED BY <1>3, <3>1
  <2>3. PipeOK(Rest(stream[c]), stream[c].nxt, toSrv[c], Append(f, 0), ended)
    BY <1>1, <1>5, <1>6, <1>7, PipeEnd
  <2> QED BY <1>1, <1>3, <1>6, <2>1, <2>2, <2>3, ServeSettles
<1>9. CASE ~(s.level > s.top)
  <2>1. fromSrv' = [fromSrv EXCEPT ![c] = Append(f, s.level)] /\ serve' = [serve EXCEPT ![c] = next]
    BY <1>4, <1>9
  <2>2. Append(f, s.level) \in Seq(0 .. TopLevel)
    <3>1. s.level \in 0 .. TopLevel
      BY <1>3, <1>9, TopIs
    <3> QED BY <1>3, <3>1
  <2>3. PipeOK(Rest(stream[c]), stream[c].nxt, toSrv[c], Append(f, s.level), next)
    BY <1>1, <1>5, <1>6, <1>7, PipeSend
  <2> QED BY <1>1, <1>3, <1>6, <2>1, <2>2, <2>3, ServeSettles
<1> QED BY <1>8, <1>9

\* A connection is lost, or a timeout ends it
LEMMA LostSecsStep ==
    ASSUME SyncIInv, LostSecs
    PROVE  SyncIInv'
<1> DEFINE e == Entry(indel + 1, PerReq)
<1>1. /\ BecomeList(RequeueEntry(SyncList, e)) /\ nfinished' = 0 /\ syncing
      /\ UNCHANGED <<stream, toSrv, fromSrv, serve, queue, validLevels, indel, syncing, letGo, mismatch>>
  BY DEF LostSecs
<1>2. ListOK(list) /\ nextLevel \in Nat \ {0} /\ indel \in Nat
  BY ShapeFacts DEF SyncIInv
<1>3. GoodEntry(e)
  BY <1>2, BlockSyncAssumption DEF Entry, GoodEntry, Entries
<1> HIDE DEF e
<1>4. /\ ListOK(list') /\ nextLevel' \in Nat \ {0}
      /\ \A l \in Nat : l < nextLevel' /\ (l >= nextLevel \/ InList(list, l)) => InList(list', l)
  BY <1>1, <1>2, <1>3, RequeueOne
<1>5. SyncShape'
  BY <1>1, <1>4 DEF SyncIInv, SyncShape, ListOK
<1>6. Links'
  BY <1>1 DEF SyncIInv, Links
<1>7. AllAccounted'
  <2> SUFFICES ASSUME NEW l \in indel + 1 .. TopLevel, l < nextLevel'
               PROVE  Accounted(l)'
    BY <1>1 DEF AllAccounted
  <2>1. l \in Nat
    BY <1>2, TopIs
  <2>2. CASE l >= nextLevel
    BY <1>4, <2>1, <2>2 DEF Accounted, InList
  <2>3. CASE l < nextLevel
    <3>1. Accounted(l)
      BY <2>3 DEF SyncIInv, AllAccounted
    <3>2. InList(list, l) => InList(list', l)
      BY <1>4, <2>1
    <3> QED BY <1>1, <3>1, <3>2 DEF Accounted, InList, HeldBy, Rest
  <2> QED BY <1>2, <2>1, <2>2, <2>3
<1>8. SyncedEnough'
  BY <1>1 DEF SyncedEnough
<1> QED BY <1>5, <1>6, <1>7, <1>8 DEF SyncIInv

\* DoSync ends
LEMMA SyncFinishStep ==
    ASSUME SyncIInv, Finish
    PROVE  SyncIInv'
<1>1. /\ IsFinishing /\ syncing' = FALSE
      /\ UNCHANGED <<stream, toSrv, fromSrv, serve, list, nextLevel, nfinished, queue, validLevels, indel, letGo, mismatch>>
  BY DEF Finish
<1>2. SyncShape'
  BY <1>1 DEF SyncIInv, SyncShape
<1>3. Links'
  BY <1>1 DEF SyncIInv, Links
<1>4. AllAccounted'
  BY <1>1 DEF SyncIInv, AllAccounted, Accounted, HeldBy, Rest
<1>5. nfinished > 0
  BY <1>1, BlockSyncAssumption DEF IsFinishing, SyncIInv, SyncShape
<1>6. SyncedEnough'
  BY <1>1, <1>5 DEF SyncIInv, SyncedEnough
<1> QED BY <1>2, <1>3, <1>4, <1>6 DEF SyncIInv

\* The initial states
LEMMA SyncInitially == SyncInit => SyncIInv
<1> SUFFICES ASSUME SyncInit PROVE SyncIInv
  OBVIOUS
<1> DEFINE sv == [level |-> 0, n |-> 0, top |-> 0]
<1>1. sv \in ServeType
  BY DEF ServeType
<1>2. Indelible({}) = 0
  <2> DEFINE T == {l \in 0 .. TopLevel : l = 0 \/ 1 .. (l + Lag) \subseteq {}}
  <2>1. \A l \in T : l = 0
    <3> SUFFICES ASSUME NEW l \in 0 .. TopLevel, l # 0, 1 .. (l + Lag) \subseteq {} PROVE FALSE
      OBVIOUS
    <3>1. 1 \in 1 .. (l + Lag)
      BY BlockSyncAssumption, TopIs
    <3> QED BY <3>1
  <2>2. T \in SUBSET (0 .. TopLevel) /\ 0 \in T
    BY TopIs
  <2>3. Indelible({}) = Max(T)
    BY DEF Indelible
  <2> HIDE DEF T
  <2>4. Max(T) \in T
    BY <2>2, MaxOf, TopIs
  <2> QED BY <2>1, <2>3, <2>4
<1>3. /\ stream = [c \in Streams |-> NoStream] /\ toSrv = [c \in Streams |-> <<>>] /\ fromSrv = [c \in Streams |-> <<>>]
      /\ serve = [c \in Streams |-> sv] /\ list = <<>> /\ nextLevel = 1 /\ nfinished = 0 /\ queue = {} /\ validLevels = {}
      /\ indel = 0 /\ syncing = TRUE /\ letGo = {} /\ mismatch = FALSE
  BY DEF SyncInit
<1>4. SyncShape
  <2>1. <<>> \in Seq(Entries) /\ <<>> \in Seq(0 .. TopLevel) /\ DOMAIN <<>> = {}
    OBVIOUS
  <2>2. IsFiniteSet({})
    BY FS_EmptySet
  <2> HIDE DEF sv
  <2> QED BY <1>1, <1>2, <1>3, <2>1, <2>2, NoStreamIs DEF SyncShape
<1>5. Links
  <2>1. Owned({}, 0) = {} /\ \A c : Owned({}, c) = {}
    BY DEF Owned
  <2>2. Cardinality({}) = 0
    BY FS_EmptySet
  <2>3. <<>> \in Seq(Entries) /\ <<>> \in Seq(0 .. TopLevel)
    OBVIOUS
  <2> HIDE DEF sv
  <2> QED BY <1>1, <1>3, <2>1, <2>2, <2>3, NoStreamIs DEF Links, LinkOK
<1>6. AllAccounted
  <2> HIDE DEF sv
  <2>1. \A l \in indel + 1 .. TopLevel : ~(l < nextLevel)
    BY <1>3, TopIs
  <2> QED BY <2>1 DEF AllAccounted
<1>7. SyncedEnough
  <2> HIDE DEF sv
  <2> QED BY <1>3 DEF SyncedEnough
<1> QED BY <1>4, <1>5, <1>6, <1>7 DEF SyncIInv

\* Every step keeps the inductive invariant
LEMMA SyncNextKeeps == SyncIInv /\ [SyncNext]_syncVars => SyncIInv'
<1> SUFFICES ASSUME SyncIInv, [SyncNext]_syncVars PROVE SyncIInv'
  OBVIOUS
<1>1. ASSUME NEW c \in Streams, SyncConnect(c) PROVE SyncIInv'
  BY <1>1, ConnectStep DEF SyncConnect
<1>2. ASSUME NEW c \in Streams, Poll(c) PROVE SyncIInv'
  BY <1>2, PollStep
<1>3. ASSUME NEW c \in Streams, ClientStep(c) PROVE SyncIInv'
  BY <1>3, NoLevelStep, HandleBlockStep, NextBlockStep, GiveUpStep DEF ClientStep
<1>4. ASSUME NEW c \in Streams, SyncDrop(c) PROVE SyncIInv'
  BY <1>4, GiveUpStep
<1>5. ASSUME NEW c \in Streams, ServerStep(c) PROVE SyncIInv'
  BY <1>5, ServeRequestStep, DoSendStep DEF ServerStep
<1>6. ASSUME NEW x \in queue, SyncValidate(x) PROVE SyncIInv'
  BY <1>6, ValidateStep
<1>7. CASE LostSecs
  BY <1>7, LostSecsStep
<1>8. CASE Finish
  BY <1>8, SyncFinishStep
<1>9. CASE UNCHANGED syncVars
  BY <1>9 DEF syncVars, SyncIInv, SyncShape, Links, AllAccounted, Accounted, SyncedEnough, HeldBy, Rest
<1> QED BY <1>1, <1>2, <1>3, <1>4, <1>5, <1>6, <1>7, <1>8, <1>9 DEF SyncNext

\* The invariant says what the component promises
LEMMA SyncImplies == SyncIInv => SyncInv
<1> SUFFICES ASSUME SyncIInv PROVE SyncInv
  OBVIOUS
<1>1. SyncTypeOK
  <2>1. \A c \in Streams : stream[c].pending \in Nat /\ stream[c].cur.nlevels \in 0 .. PerReq /\ stream[c].nxt.nlevels \in 0 .. PerReq
    <3> TAKE c \in Streams
    <3>1. stream[c] \in StreamType
      BY LinkFacts
    <3> QED BY <3>1 DEF StreamType, Entries
  <2> QED BY <2>1 DEF SyncTypeOK, SyncIInv, SyncShape
<1>2. ValidationsExact
  <2> SUFFICES ASSUME NEW c \in Streams, stream[c].up PROVE stream[c].pending = Cardinality({q \in queue : q.owner = c})
    BY DEF ValidationsExact
  <2>1. stream[c].pending = Cardinality(Owned(queue, c))
    BY LinkFacts DEF LinkOK
  <2> QED BY <2>1 DEF Owned
<1>3. InStep
  BY DEF InStep, SyncIInv, SyncShape
<1>4. LevelsAccounted
  <2> SUFFICES ASSUME NEW l \in indel + 1 .. Min({nextLevel - 1, TopLevel})
               PROVE  \/ l \in validLevels \cup letGo
                      \/ \E q \in queue : q.lvl = l
                      \/ \E i \in DOMAIN list : l \in Levels(list[i])
                      \/ \E c \in Streams : \E e \in {stream[c].cur, stream[c].nxt} : l \in Levels(e)
    BY DEF LevelsAccounted
  <2>0. nextLevel \in Nat \ {0} /\ indel \in Nat /\ TopLevel \in Nat
    BY ShapeFacts, TopIs DEF SyncIInv
  <2>1. l \in indel + 1 .. TopLevel /\ l < nextLevel
    <3> DEFINE m == nextLevel - 1
    <3>1. m \in Int /\ TopLevel \in Int
      BY <2>0
    <3>2. Min({m, TopLevel}) = IF m <= TopLevel THEN m ELSE TopLevel
      <4> HIDE DEF m
      <4> QED BY <3>1, OfTwo
    <3>3. l \in indel + 1 .. (IF m <= TopLevel THEN m ELSE TopLevel)
      BY <3>2
    <3> QED BY <2>0, <3>3
  <2>2. Accounted(l)
    BY <2>1 DEF SyncIInv, AllAccounted
  <2>3. ASSUME NEW c \in Streams, l \in HeldBy(stream[c])
        PROVE  \E e \in {stream[c].cur, stream[c].nxt} : l \in Levels(e)
    <3>1. CASE stream[c].mid
      <4>1. GoodEntry(stream[c].cur) /\ stream[c].cur.nlevels > 0 /\ Rest(stream[c]) = Passed(stream[c].cur)
        BY <3>1, LinkFacts DEF LinkOK, Rest
      <4>2. stream[c].cur.level \in Nat /\ stream[c].cur.nlevels \in Nat
        BY <4>1, EntryNumbers DEF GoodEntry
      <4>3. Levels(Passed(stream[c].cur)) \subseteq Levels(stream[c].cur)
        BY <4>1, <4>2, PassedGood DEF Levels
      <4> QED BY <2>3, <4>1, <4>3 DEF HeldBy
    <3>2. CASE ~stream[c].mid
      BY <2>3, <3>2 DEF HeldBy, Rest
    <3> QED BY <3>1, <3>2
  <2> QED BY <2>2, <2>3 DEF Accounted
<1>5. DoneIsRecent
  BY DEF DoneIsRecent, SyncIInv, SyncedEnough
<1> QED BY <1>1, <1>2, <1>3, <1>4, <1>5 DEF SyncInv

\* Block sync: for any number of connections and servers, any ranges, span and lag, and any lost connections and failed
\* validations, m_validations_pending is exact although connection objects are used again, a server that follows the protocol is
\* never cut off, no level is forgotten, and the sync does not end before the last indelible block is recent
\* (BlockSyncConnection, BlockSyncList, BlockSyncClient::DoSync).
THEOREM SyncCorrect == SyncSpec => []SyncInv
<1>1. SyncInit => SyncIInv
  BY SyncInitially
<1>2. SyncIInv /\ [SyncNext]_syncVars => SyncIInv'
  BY SyncNextKeeps
<1>3. SyncIInv => SyncInv
  BY SyncImplies
<1> QED BY <1>1, <1>2, <1>3, PTL DEF SyncSpec
=============================================================================
