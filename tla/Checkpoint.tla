----------------------------- MODULE Checkpoint -----------------------------
(***************************************************************************)
(* The checkpoint thread of the persistent database                        *)
(* (ccnode/src/dbconn-wal.cpp).  A thread that made blocks indelible       *)
(* commits, releases the write mutex and asks for a checkpoint, a full one *)
(* after a block of the node's own witness.  The checkpoint thread waits   *)
(* on a condition variable, and takes the write mutex for a full           *)
(* checkpoint.                                                             *)
(*                                                                         *)
(* full_checkpoint_pending is neither atomic nor protected, and two        *)
(* threads may ask at once: an update of it can be lost.                   *)
(***************************************************************************)
EXTENDS Naturals

CONSTANTS Confirmers,   \* the threads that call DoConfirmations: block processing and the witness
          NoHolder,       \* no thread
          MaxCommits    \* bound: commits

ASSUME CheckpointAssumption == NoHolder \notin Confirmers \cup {"wal"} /\ "wal" \notin Confirmers /\ MaxCommits \in Nat

VARIABLES cc,        \* cc[c]: what confirmer c is doing, whether it wants a full checkpoint, its stale copy
          mx,        \* the holders of the write mutex and of checkpoint_mutex
          ck,        \* the flags: pending, needed, full, stop, shutdown
          wal,       \* what the checkpoint thread is doing
          woken,     \* the condition variable was notified since the thread went to sleep
          commits,   \* commits so far
          saved      \* the commits that checkpoints copied into the database

ckVars == <<cc, mx, ck, wal, woken, commits, saved>>

Resting == [pc |-> "idle", full |-> FALSE, copy |-> FALSE]

CkInit ==
  /\ cc = [c \in Confirmers |-> Resting]
  /\ mx = [write |-> NoHolder, check |-> NoHolder]
  /\ ck = [pending |-> FALSE, needed |-> FALSE, full |-> FALSE, stop |-> FALSE, shutdown |-> FALSE]
  /\ wal = "loop" /\ woken = FALSE /\ commits = 0 /\ saved = 0

Goes(c, pc) == cc' = [cc EXCEPT ![c].pc = pc]

(***************************************************************************)
(* DoConfirmationLoop: BeginWrite, EndWrite, ReleaseMutex, and the request *)
(* for a checkpoint.  On shutdown nothing is committed.                    *)
(***************************************************************************)
ConfirmBeginWrite(c) ==
  /\ cc[c].pc = "idle" /\ commits < MaxCommits /\ ~ck.shutdown
  /\ mx.write = NoHolder /\ mx' = [mx EXCEPT !.write = c]
  /\ \E full \in BOOLEAN : cc' = [cc EXCEPT ![c] = [pc |-> "writing", full |-> full, copy |-> FALSE]]
  /\ UNCHANGED <<ck, wal, woken, commits, saved>>

EndWrite(c) ==
  /\ cc[c].pc = "writing" /\ mx' = [mx EXCEPT !.write = NoHolder]
  /\ IF ck.shutdown THEN cc' = [cc EXCEPT ![c] = Resting] /\ UNCHANGED commits
     ELSE Goes(c, "ask") /\ commits' = commits + 1
  /\ UNCHANGED <<ck, wal, woken, saved>>

\* full_checkpoint_pending |= full is a read and a write.
ReadPending(c) ==
  /\ cc[c].pc = "ask"
  /\ cc' = [cc EXCEPT ![c].pc = "or", ![c].copy = ck.pending]
  /\ UNCHANGED <<mx, ck, wal, woken, commits, saved>>

WritePending(c) ==
  /\ cc[c].pc = "or"
  /\ ck' = [ck EXCEPT !.pending = cc[c].copy \/ cc[c].full]
  /\ Goes(c, "needed")
  /\ UNCHANGED <<mx, wal, woken, commits, saved>>

\* A checkpoint that was not asked for is done after db_checkpoint_sec.
CheckNeeded(c) ==
  /\ cc[c].pc = "needed"
  /\ \/ ck.needed /\ Goes(c, "idle") /\ UNCHANGED ck
     \/ ~ck.needed /\ ck.pending /\ Goes(c, "lock") /\ UNCHANGED ck
     \/ ~ck.needed /\ ~ck.pending /\ Goes(c, "idle") /\ UNCHANGED ck
     \/ ~ck.needed /\ ~ck.pending /\ Goes(c, "lock") /\ ck' = [ck EXCEPT !.pending = TRUE]
  /\ UNCHANGED <<mx, wal, woken, commits, saved>>

LockCheckpoint(c) ==
  /\ cc[c].pc = "lock" /\ mx.check = NoHolder /\ mx' = [mx EXCEPT !.check = c]
  /\ Goes(c, "set")
  /\ UNCHANGED <<ck, wal, woken, commits, saved>>

\* do_full_checkpoint is set before checkpoint_needed.
SetNeeded(c) ==
  /\ cc[c].pc = "set"
  /\ ck' = [ck EXCEPT !.full = ck.pending, !.pending = FALSE, !.needed = TRUE]
  /\ mx' = [mx EXCEPT !.check = NoHolder] /\ Goes(c, "notify")
  /\ UNCHANGED <<wal, woken, commits, saved>>

NotifyOne(c) ==
  /\ cc[c].pc = "notify" /\ woken' = (woken \/ wal = "asleep") /\ Goes(c, "idle")
  /\ UNCHANGED <<mx, ck, wal, commits, saved>>

(***************************************************************************)
(* The checkpoint thread: WalWaitForStartCheckpoint and WalCheckpoint.     *)
(***************************************************************************)
WalLoop ==
  /\ wal = "loop"
  /\ wal' = IF ck.stop \/ ck.shutdown THEN "ended" ELSE "wait"
  /\ UNCHANGED <<cc, mx, ck, woken, commits, saved>>

WalLock ==
  /\ wal = "wait" /\ mx.check = NoHolder /\ mx' = [mx EXCEPT !.check = "wal"]
  /\ wal' = "look"
  /\ UNCHANGED <<cc, ck, woken, commits, saved>>

\* The flags are read, and the mutex is given up with the wait.
WalWait ==
  /\ wal = "look"
  /\ IF ck.needed \/ ck.stop \/ ck.shutdown THEN wal' = "checkpoint" /\ mx' = [mx EXCEPT !.check = NoHolder] ELSE wal' = "yield" /\ UNCHANGED mx
  /\ UNCHANGED <<cc, ck, woken, commits, saved>>

WalSleep ==
  /\ wal = "yield" /\ wal' = "asleep" /\ mx' = [mx EXCEPT !.check = NoHolder] /\ woken' = FALSE
  /\ UNCHANGED <<cc, ck, commits, saved>>

WalWoken ==
  /\ wal = "asleep" /\ woken /\ woken' = FALSE /\ wal' = "wait"
  /\ UNCHANGED <<cc, mx, ck, commits, saved>>

BuggyWalCheckpoint ==
  /\ wal = "checkpoint"
  /\ \/ ck.shutdown /\ wal' = "loop" /\ UNCHANGED <<mx, saved>>
     \/ ck.stop /\ wal' = "clear" /\ UNCHANGED <<mx, saved>>
     \/ ~ck.full /\ wal' = "clear" /\ saved' \in saved..commits /\ UNCHANGED mx      \* SQLITE_CHECKPOINT_PASSIVE
     \/ ck.full /\ mx' = [mx EXCEPT !.write = "wal"] /\ wal' = "truncate" /\ UNCHANGED saved
  /\ UNCHANGED <<cc, ck, woken, commits>>

WalCheckpoint ==
  /\ wal = "checkpoint"
  /\ \/ ck.shutdown /\ wal' = "loop" /\ UNCHANGED <<mx, saved>>
     \/ ck.stop /\ wal' = "clear" /\ UNCHANGED <<mx, saved>>
     \/ ~ck.full /\ wal' = "clear" /\ saved' \in saved..commits /\ UNCHANGED mx      \* SQLITE_CHECKPOINT_PASSIVE
     \/ ck.full /\ mx.write = NoHolder /\ mx' = [mx EXCEPT !.write = "wal"] /\ wal' = "truncate" /\ UNCHANGED saved
  /\ UNCHANGED <<cc, ck, woken, commits>>

\* SQLITE_CHECKPOINT_TRUNCATE, with the write mutex.
WalTruncate ==
  /\ wal = "truncate" /\ saved' = commits /\ wal' = "clear"
  /\ UNCHANGED <<cc, mx, ck, woken, commits>>

WalClear ==
  /\ wal = "clear" /\ ck' = [ck EXCEPT !.needed = FALSE]
  /\ mx' = [mx EXCEPT !.write = IF @ = "wal" THEN NoHolder ELSE @]
  /\ wal' = "loop"
  /\ UNCHANGED <<cc, woken, commits, saved>>

\* WalStopCheckpointing: under checkpoint_mutex; g_shutdown is set before, without it.
SetShutdown ==
  /\ ~ck.shutdown /\ ck' = [ck EXCEPT !.shutdown = TRUE]
  /\ UNCHANGED <<cc, mx, wal, woken, commits, saved>>

BuggyWalStopCheckpointing ==
  /\ ck.shutdown /\ ~ck.stop
  /\ ck' = [ck EXCEPT !.stop = TRUE] /\ woken' = (woken \/ wal = "asleep")
  /\ UNCHANGED <<cc, mx, wal, commits, saved>>

WalStopCheckpointing ==
  /\ ck.shutdown /\ ~ck.stop /\ mx.check = NoHolder
  /\ ck' = [ck EXCEPT !.stop = TRUE] /\ woken' = (woken \/ wal = "asleep")
  /\ UNCHANGED <<cc, mx, wal, commits, saved>>

CkNext ==
  \/ \E c \in Confirmers : \/ ConfirmBeginWrite(c) \/ EndWrite(c) \/ ReadPending(c) \/ WritePending(c) \/ CheckNeeded(c)
                           \/ LockCheckpoint(c) \/ SetNeeded(c) \/ NotifyOne(c)
  \/ WalLoop \/ WalLock \/ WalWait \/ WalSleep \/ WalWoken \/ WalCheckpoint \/ WalTruncate \/ WalClear
  \/ SetShutdown \/ WalStopCheckpointing

CkSpec == CkInit /\ [][CkNext]_ckVars

(***************************************************************************)
(* Properties.                                                             *)
(***************************************************************************)
CkTypeOK ==
  /\ mx.write \in Confirmers \cup {"wal", NoHolder} /\ mx.check \in Confirmers \cup {"wal", NoHolder}
  /\ \A c \in Confirmers : (cc[c].pc = "writing") = (mx.write = c) /\ (cc[c].pc = "set") = (mx.check = c)
  /\ (wal \in {"look", "yield"}) = (mx.check = "wal") /\ (mx.write = "wal" => wal \in {"truncate", "clear"})
  /\ saved <= commits /\ commits <= MaxCommits

\* The checkpoint thread does not sleep through a request or the end of the node: whoever set the flag is
\* still going to notify it (dbconn-wal.cpp 72-96).
CheckpointWakes ==
  wal = "asleep" /\ ~woken
    => /\ ~ck.stop
       /\ ck.needed => \E c \in Confirmers : cc[c].pc = "notify"

\* The checkpoint thread never sleeps with a checkpoint or the end of the process asked for
\* and nobody about to wake it (WaitForStartCheckpoint, WalStartCheckpoint, WalStopCheckpointing).
CkInv == CkTypeOK /\ CheckpointWakes
=============================================================================
