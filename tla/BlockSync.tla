----------------------------- MODULE BlockSync -----------------------------
(***************************************************************************)
(* Catching up with the blockchain (ccnode/src/blocksync.cpp) and serving  *)
(* it (blockserve.cpp).  The client hands out ranges of levels to its      *)
(* connections, two to each so that the next request is already at the     *)
(* server while the current one is read; what comes back goes through the  *)
(* process queue, whose verdict arrives in another thread.  A range that a *)
(* connection does not finish goes back to the list.                       *)
(*                                                                         *)
(* The process queue and the blockchain are seen from outside: a block is  *)
(* validated after its predecessor, its validation may fail, and a level   *)
(* becomes indelible when Lag levels above it are valid.                   *)
(***************************************************************************)
EXTENDS Integers, Sequences, FiniteSets, FiniteSetsExt

CONSTANTS Streams,
          PerReq,      \* BLOCKSYNC_NLEVELS_PER_REQ
          Span,        \* max_span: how far requests run ahead of the blockchain
          Tops,        \* the last indelible levels of the servers there are
          Lag,
          Recent,      \* the level from which the last indelible block is recent
          Finishing,   \* the number of finished connections IsFinishing asks for
          MaxFaults,   \* bound: lost connections, failed validations, times that the sync was found stuck
          MaxSignals,  \* bound: m_nfinished
          Nobody       \* the owner of a queued block whose connection is gone

TopLevel == Max(Tops)

ASSUME BlockSyncAssumption ==
  /\ PerReq \in Nat \ {0} /\ Lag \in Nat /\ Span \in Nat /\ Span > Lag /\ MaxSignals \in Nat
  /\ Tops \subseteq Nat \ {0} /\ \E t \in Tops : \A s \in Tops : s <= t
  /\ Recent \in 0..TopLevel - Lag /\ Finishing \in Nat \ {0}
  /\ Nobody \notin Streams

VARIABLES stream,       \* stream[c]: the client's side of connection c
          toSrv,      \* toSrv[c]: requests on their way
          fromSrv,    \* fromSrv[c]: the level of a block on its way, or 0 for CC_RESULT_NO_LEVEL
          serve,      \* serve[c]: what the server is sending, and its last indelible level
          list,       \* m_list
          nextLevel,  \* m_next_level
          nfinished,  \* m_nfinished
          queue,      \* the blocks in the process queue: [lvl, owner]
          validLevels,      \* the levels that were validated
          indel,      \* GetLastIndelibleLevel
          syncing,    \* DoSync runs
          letGo,      \* levels dropped because the sync is finishing, or refused after their connection was gone
          mismatch,   \* a server that follows the protocol was cut off for breaking it
          bsFaults

syncVars == <<stream, toSrv, fromSrv, serve, list, nextLevel, nfinished, queue, validLevels, indel, syncing, letGo, mismatch, bsFaults>>

Entry(l, n) == [level |-> l, nlevels |-> n]
NoEntry == Entry(0, 0)

\* A connection that is not in use.
NoStream == [up |-> FALSE, cur |-> NoEntry, nxt |-> NoEntry, pending |-> 0, requeues |-> FALSE,
         finished |-> FALSE, reading |-> FALSE, polling |-> FALSE, mid |-> FALSE]

Indelible(v) == Max({l \in 0..TopLevel : l = 0 \/ 1..(l + Lag) \subseteq v})

\* IsFinishing.
IsFinishing == nfinished >= Finishing

SyncInit ==
  /\ stream = [c \in Streams |-> NoStream]
  /\ toSrv = [c \in Streams |-> <<>>] /\ fromSrv = [c \in Streams |-> <<>>]
  /\ serve = [c \in Streams |-> [level |-> 0, n |-> 0, top |-> 0]]
  /\ list = <<>> /\ nextLevel = 1 /\ nfinished = 0
  /\ queue = {} /\ validLevels = {} /\ indel = 0 /\ syncing = TRUE /\ letGo = {} /\ mismatch = FALSE /\ bsFaults = 0

(***************************************************************************)
(* BlockSyncList.                                                          *)
(***************************************************************************)
\* An entry without the levels that are indelible.
Trim(e) ==
  LET skip == Min({e.nlevels, Max({0, indel + 1 - e.level})})
  IN Entry(e.level + skip, e.nlevels - skip)

\* A mutation of NewEntry: the number of levels is one too many.
BuggyNewEntry ==
  LET l == Max({nextLevel, indel + 1})
      n == PerReq - ((l - 1) % PerReq) + 1 IN
  IF l > indel + Span THEN [e |-> NoEntry, next |-> l]
  ELSE [e |-> Entry(l, n), next |-> l + n]

\* GetNextEntry with an empty list: up to the next multiple of PerReq, unless that is
\* further than max_span from the blockchain.
NewEntry ==
  LET l == Max({nextLevel, indel + 1})
      n == PerReq - ((l + PerReq - 1) % PerReq) IN
  IF l > indel + Span THEN [e |-> NoEntry, next |-> l]
  ELSE [e |-> Entry(l, n), next |-> l + n]

\* GetNextEntry: the first entry of the list with levels left, else a new one.
GetNextEntry ==
  LET left == {i \in DOMAIN list : Trim(list[i]).nlevels > 0} IN
  IF left # {} THEN [e |-> Trim(list[Min(left)]), list |-> SubSeq(list, Min(left) + 1, Len(list)), next |-> nextLevel]
  ELSE [e |-> NewEntry.e, list |-> <<>>, next |-> NewEntry.next]

\* BlockSyncList: the ranges put back, and the next level to hand out.
SyncList == [list |-> list, next |-> nextLevel]

\* The list and m_next_level, which are s, after RequeueEntry.
RequeueEntry(s, e) ==
  IF e.nlevels = 0 \/ e.level >= s.next THEN s
  ELSE [list |-> Append(s.list, e), next |-> Max({s.next, e.level + e.nlevels})]

\* The list and m_next_level become s.
BecomeList(s) == list' = s.list /\ nextLevel' = s.next

(***************************************************************************)
(* The client.                                                             *)
(***************************************************************************)
Levels(e) == e.level .. e.level + e.nlevels - 1

\* An entry whose first level was read.
Passed(e) == Entry(e.level + 1, e.nlevels - 1)

\* A mutation of FinishConnection: the age of the last indelible block is not looked at.
BuggyFinishConnection(c, cn, q) ==
  LET fin == cn.finished IN
  /\ IF fin /\ IsFinishing
     THEN letGo' = letGo \cup Levels(cn.cur) \cup Levels(cn.nxt) /\ UNCHANGED <<list, nextLevel>>
     ELSE BecomeList(RequeueEntry(RequeueEntry(SyncList, cn.cur), cn.nxt)) /\ UNCHANGED letGo
  /\ nfinished' = IF fin /\ ~cn.requeues THEN Min({nfinished + 1, MaxSignals}) ELSE nfinished
  /\ stream' = [stream EXCEPT ![c] = NoStream]
  /\ toSrv' = [toSrv EXCEPT ![c] = <<>>] /\ fromSrv' = [fromSrv EXCEPT ![c] = <<>>]
  /\ queue' = {IF x.owner = c THEN [x EXCEPT !.owner = Nobody] ELSE x : x \in q}

\* A mutation of FinishConnection: the request that is ahead is not put back.
BuggyForgetNext(c, cn, q) ==
  LET fin == cn.finished /\ indel >= Recent IN
  /\ IF fin /\ IsFinishing
     THEN letGo' = letGo \cup Levels(cn.cur) \cup Levels(cn.nxt) /\ UNCHANGED <<list, nextLevel>>
     ELSE BecomeList(RequeueEntry(SyncList, cn.cur)) /\ UNCHANGED letGo
  /\ nfinished' = IF fin /\ ~cn.requeues THEN Min({nfinished + 1, MaxSignals}) ELSE nfinished
  /\ stream' = [stream EXCEPT ![c] = NoStream]
  /\ toSrv' = [toSrv EXCEPT ![c] = <<>>] /\ fromSrv' = [fromSrv EXCEPT ![c] = <<>>]
  /\ queue' = {IF x.owner = c THEN [x EXCEPT !.owner = Nobody] ELSE x : x \in q}

\* Stop and FinishConnection, with q in the process queue: what was asked for and did not
\* come is put back, unless the sync is finishing; an answer of the process queue finds
\* another use count from now on.
FinishConnection(c, cn, q) ==
  LET fin == cn.finished /\ indel >= Recent IN
  /\ IF fin /\ IsFinishing
     THEN letGo' = letGo \cup Levels(cn.cur) \cup Levels(cn.nxt) /\ UNCHANGED <<list, nextLevel>>
     ELSE BecomeList(RequeueEntry(RequeueEntry(SyncList, cn.cur), cn.nxt)) /\ UNCHANGED letGo
  /\ nfinished' = IF fin /\ ~cn.requeues THEN Min({nfinished + 1, MaxSignals}) ELSE nfinished
  /\ stream' = [stream EXCEPT ![c] = NoStream]
  /\ toSrv' = [toSrv EXCEPT ![c] = <<>>] /\ fromSrv' = [fromSrv EXCEPT ![c] = <<>>]
  /\ queue' = {IF x.owner = c THEN [x EXCEPT !.owner = Nobody] ELSE x : x \in q}

\* CheckSendReq by the thread that found m_read_in_progress clear, with the connection as
\* cn: stop, wait for validations, read on, send a request, or poll.
CheckSendReq(c, cn, q) ==
  LET wait == [cn EXCEPT !.reading = FALSE, !.polling = FALSE]
      read == [cn EXCEPT !.reading = TRUE, !.polling = FALSE]
      g == GetNextEntry
      Keep(r) == stream' = [stream EXCEPT ![c] = r] /\ queue' = q /\ UNCHANGED <<toSrv, fromSrv, nfinished, letGo>>
  IN IF cn.requeues \/ cn.finished
     THEN IF cn.pending > 0 THEN Keep(wait) /\ UNCHANGED <<list, nextLevel>> ELSE FinishConnection(c, cn, q)
     ELSE IF cn.nxt.nlevels > 0 THEN Keep(read) /\ UNCHANGED <<list, nextLevel>>
     ELSE /\ list' = g.list /\ nextLevel' = g.next
          /\ IF g.e.nlevels > 0
             THEN /\ stream' = [stream EXCEPT ![c] = [read EXCEPT !.nxt = g.e]]
                  /\ toSrv' = [toSrv EXCEPT ![c] = Append(@, g.e)]
                  /\ queue' = q /\ UNCHANGED <<fromSrv, nfinished, letGo>>
             ELSE Keep(IF cn.cur.nlevels > 0 THEN read
                       ELSE IF cn.pending > 0 THEN wait ELSE [read EXCEPT !.polling = TRUE])

\* DoSync connects; StartConnection sends a ping, and its CC_ACK starts the requests.
ConnectTo(c, t) ==
  /\ syncing /\ ~stream[c].up /\ ~(IsFinishing /\ list = <<>>)
  /\ serve' = [serve EXCEPT ![c] = [level |-> 0, n |-> 0, top |-> t]]
  /\ CheckSendReq(c, [NoStream EXCEPT !.up = TRUE], queue)
  /\ UNCHANGED <<validLevels, indel, syncing, mismatch, bsFaults>>

SyncConnect(c) == \E t \in Tops : ConnectTo(c, t)

\* The connection waits at max_span: after a sleep it tries again, or stops at random.
Poll(c) ==
  /\ stream[c].up /\ stream[c].polling
  /\ \/ CheckSendReq(c, stream[c], queue)
     \/ FinishConnection(c, stream[c], queue)
  /\ UNCHANGED <<serve, validLevels, indel, syncing, mismatch, bsFaults>>

Arrived(c) == stream[c].up /\ stream[c].reading /\ ~stream[c].polling /\ ~stream[c].mid /\ fromSrv[c] # <<>>

\* CC_RESULT_NO_LEVEL.
HandleNoLevel(c) ==
  /\ Arrived(c) /\ Head(fromSrv[c]) = 0
  /\ CheckSendReq(c, [stream[c] EXCEPT !.finished = TRUE], queue)
  /\ UNCHANGED <<serve, validLevels, indel, syncing, mismatch, bsFaults>>

\* The current request; the next one takes its place when it is done.
Promoted(cn) == IF cn.cur.nlevels > 0 THEN cn ELSE [cn EXCEPT !.cur = cn.nxt, !.nxt = NoEntry]

\* A block arrives (HandleObjReadComplete): it must be the one expected, and is queued for
\* validation; the queue may have it already, which counts as done.
HandleBlock(c) ==
  LET cn == Promoted(stream[c])
      l == Head(fromSrv[c]) IN
  /\ Arrived(c) /\ l > 0
  /\ IF cn.cur.nlevels = 0 \/ cn.cur.level # l
     THEN FinishConnection(c, cn, queue) /\ mismatch' = TRUE
     ELSE LET there == l \in validLevels \/ \E q \in queue : q.lvl = l IN
          /\ stream' = [stream EXCEPT ![c] = [cn EXCEPT !.mid = TRUE, !.pending = @ + IF there THEN 0 ELSE 1]]
          /\ queue' = IF there THEN queue ELSE queue \cup {[lvl |-> l, owner |-> c]}
          /\ fromSrv' = [fromSrv EXCEPT ![c] = Tail(@)]
          /\ UNCHANGED <<toSrv, list, nextLevel, nfinished, letGo, mismatch>>
  /\ UNCHANGED <<serve, validLevels, indel, syncing, bsFaults>>

\* A mutation of NextBlock: the level is not moved on.
BuggyNextBlock(c) ==
  /\ stream[c].mid
  /\ CheckSendReq(c, Promoted([stream[c] EXCEPT !.cur.nlevels = @ - 1, !.mid = FALSE]), queue)
  /\ UNCHANGED <<serve, validLevels, indel, syncing, mismatch, bsFaults>>

\* The rest of HandleObjReadComplete, under req_lock again.
NextBlock(c) ==
  /\ stream[c].mid
  /\ CheckSendReq(c, Promoted([stream[c] EXCEPT !.cur = Passed(@), !.mid = FALSE]), queue)
  /\ UNCHANGED <<serve, validLevels, indel, syncing, mismatch, bsFaults>>

\* A mutation of SyncValidateDone: the use of the connection is not looked at.
BuggySyncValidateDone(q, ok) ==
  IF q.owner = Nobody
  THEN /\ queue' = queue \ {q}
       /\ stream' = [c \in Streams |-> IF stream[c].up THEN [stream[c] EXCEPT !.pending = Max({0, @ - 1})] ELSE stream[c]]
       /\ UNCHANGED <<toSrv, fromSrv, list, nextLevel, nfinished, letGo>>
  ELSE LET cn == [stream[q.owner] EXCEPT !.pending = @ - 1, !.requeues = @ \/ ~ok] IN
       IF ok /\ ~cn.reading THEN CheckSendReq(q.owner, cn, queue \ {q})
       ELSE /\ IF ok THEN UNCHANGED <<list, nextLevel>> ELSE BecomeList(RequeueEntry(SyncList, Entry(q.lvl, 1)))
            /\ stream' = [stream EXCEPT ![q.owner] = cn]
            /\ queue' = queue \ {q}
            /\ UNCHANGED <<toSrv, fromSrv, nfinished, letGo>>

\* HandleValidateDone: an answer for an earlier use of the connection is ignored; after a
\* failure the level is put back; then CheckSendReq, which returns when a read is under
\* way.
SyncValidateDone(q, ok) ==
  IF q.owner = Nobody
  THEN /\ queue' = queue \ {q} /\ letGo' = IF ok THEN letGo ELSE letGo \cup {q.lvl}
       /\ UNCHANGED <<stream, toSrv, fromSrv, list, nextLevel, nfinished>>
  ELSE LET cn == [stream[q.owner] EXCEPT !.pending = @ - 1, !.requeues = @ \/ ~ok] IN
       IF ok /\ ~cn.reading THEN CheckSendReq(q.owner, cn, queue \ {q})
       ELSE /\ IF ok THEN UNCHANGED <<list, nextLevel>> ELSE BecomeList(RequeueEntry(SyncList, Entry(q.lvl, 1)))
            /\ stream' = [stream EXCEPT ![q.owner] = cn]
            /\ queue' = queue \ {q}
            /\ UNCHANGED <<toSrv, fromSrv, nfinished, letGo>>

\* The process queue validates a block after its predecessor.
SyncValidate(q) ==
  /\ q \in queue /\ (q.lvl = 1 \/ q.lvl - 1 \in validLevels)
  /\ \/ validLevels' = validLevels \cup {q.lvl} /\ indel' = Indelible(validLevels \cup {q.lvl}) /\ SyncValidateDone(q, TRUE) /\ UNCHANGED bsFaults
     \/ bsFaults < MaxFaults /\ SyncValidateDone(q, FALSE) /\ bsFaults' = bsFaults + 1 /\ UNCHANGED <<validLevels, indel>>
  /\ UNCHANGED <<serve, syncing, mismatch>>

\* The rest of a failed HandleValidateDone: CheckSendReq once m_has_requeues is set.
AfterFailure(c) ==
  /\ stream[c].up /\ stream[c].requeues /\ ~stream[c].reading /\ stream[c].pending = 0
  /\ FinishConnection(c, stream[c], queue)
  /\ UNCHANGED <<serve, validLevels, indel, syncing, mismatch, bsFaults>>

\* A timer, or a lost connection.  (A connection that waits for validations, or for a
\* server that sends nothing, is stopped by its timer.)
SyncDrop(c) ==
  /\ stream[c].up /\ ~stream[c].mid /\ bsFaults < MaxFaults
  /\ FinishConnection(c, stream[c], queue) /\ bsFaults' = bsFaults + 1
  /\ UNCHANGED <<serve, validLevels, indel, syncing, mismatch>>

Timeout(c) ==
  /\ stream[c].up /\ ~stream[c].mid /\ ~stream[c].polling
  /\ \/ ~stream[c].reading
     \/ fromSrv[c] = <<>> /\ toSrv[c] = <<>> /\ serve[c].n = 0
  /\ FinishConnection(c, stream[c], queue)
  /\ UNCHANGED <<serve, validLevels, indel, syncing, mismatch, bsFaults>>

(***************************************************************************)
(* The server.                                                             *)
(***************************************************************************)
\* HandleReadComplete: a request is read when the one before it is done.
ServeRequest(c) ==
  /\ stream[c].up /\ toSrv[c] # <<>> /\ serve[c].n = 0
  /\ serve' = [serve EXCEPT ![c].level = Head(toSrv[c]).level, ![c].n = Head(toSrv[c]).nlevels]
  /\ toSrv' = [toSrv EXCEPT ![c] = Tail(@)]
  /\ UNCHANGED <<stream, fromSrv, list, nextLevel, nfinished, queue, validLevels, indel, syncing, letGo, mismatch, bsFaults>>

\* DoSend: the next level, or CC_RESULT_NO_LEVEL, after which nothing is read any more.
DoSend(c) ==
  /\ stream[c].up /\ serve[c].n > 0
  /\ LET s == serve[c] IN
     IF s.level > s.top
     THEN /\ fromSrv' = [fromSrv EXCEPT ![c] = Append(@, 0)]
          /\ serve' = [serve EXCEPT ![c].n = -1]
     ELSE /\ fromSrv' = [fromSrv EXCEPT ![c] = Append(@, s.level)]
          /\ serve' = [serve EXCEPT ![c].level = @ + 1, ![c].n = @ - 1]
  /\ UNCHANGED <<stream, toSrv, list, nextLevel, nfinished, queue, validLevels, indel, syncing, letGo, mismatch, bsFaults>>

(***************************************************************************)
(* DoSync.                                                                 *)
(***************************************************************************)
\* The blockchain has not moved for BLOCKSYNC_LOST_SECS: the levels after the last
\* indelible one are asked for again.
LostSecs ==
  /\ syncing /\ bsFaults < MaxFaults /\ bsFaults' = bsFaults + 1
  /\ BecomeList(RequeueEntry(SyncList, Entry(indel + 1, PerReq))) /\ nfinished' = 0
  /\ UNCHANGED <<stream, toSrv, fromSrv, serve, queue, validLevels, indel, syncing, letGo, mismatch>>

\* DoSync ends when enough connections were told that there is no more, nothing is put
\* back, and all connections are gone.
Finish ==
  /\ syncing /\ IsFinishing /\ list = <<>> /\ \A c \in Streams : ~stream[c].up
  /\ syncing' = FALSE
  /\ UNCHANGED <<stream, toSrv, fromSrv, serve, list, nextLevel, nfinished, queue, validLevels, indel, letGo, mismatch, bsFaults>>

ClientStep(c) == HandleNoLevel(c) \/ HandleBlock(c) \/ NextBlock(c) \/ AfterFailure(c) \/ Timeout(c)
ServerStep(c) == ServeRequest(c) \/ DoSend(c)

SyncNext ==
  \/ \E c \in Streams : SyncConnect(c) \/ Poll(c) \/ ClientStep(c) \/ SyncDrop(c) \/ ServerStep(c)
  \/ \E q \in queue : SyncValidate(q)
  \/ LostSecs \/ Finish

\* The specification of block sync by itself.
SyncSpec == SyncInit /\ [][SyncNext]_syncVars

(***************************************************************************)
(* Properties.                                                             *)
(***************************************************************************)
\* Every variable has its type.
SyncTypeOK ==
  /\ \A c \in Streams : stream[c].pending \in Nat /\ stream[c].cur.nlevels \in 0..PerReq /\ stream[c].nxt.nlevels \in 0..PerReq
  /\ nextLevel \in Nat /\ validLevels \subseteq 1..TopLevel /\ syncing \in BOOLEAN

\* m_validations_pending of a connection is the number of its blocks in the process queue,
\* though the connection object is used again while blocks of an earlier use are there.
ValidationsExact ==
  \A c \in Streams : stream[c].up => stream[c].pending = Cardinality({q \in queue : q.owner = c})

\* Requests, the stream of blocks and the two entries of a connection stay in step: a
\* server that follows the protocol is never cut off for sending the wrong level
\* (blocksync.cpp:359-370).
InStep == ~mismatch

\* A level that was handed out and is not valid yet is in the list, asked for on some
\* connection, or in the process queue; or it was let go because the sync is finishing or
\* because the process queue refused it after its connection was gone, which only
\* LostSecs repairs.
LevelsAccounted ==
  \A l \in indel + 1 .. Min({nextLevel - 1, TopLevel}) :
     \/ l \in validLevels \cup letGo
     \/ \E q \in queue : q.lvl = l
     \/ \E i \in DOMAIN list : l \in Levels(list[i])
     \/ \E c \in Streams : \E e \in {stream[c].cur, stream[c].nxt} : l \in Levels(e)

\* DoSync ends only when the last indelible block is recent: servers that are behind
\* themselves do not end it.
DoneIsRecent == ~syncing => indel >= Recent

\* Block sync with connections that are lost and used again: the counts of pending
\* validations and of requested levels are right, no level is forgotten, and the sync does
\* not end early (BlockSyncConnection, BlockSyncList, BlockSyncClient::DoSync).
SyncInv == SyncTypeOK /\ ValidationsExact /\ InStep /\ LevelsAccounted /\ DoneIsRecent
=============================================================================
