------------------------------ MODULE ConnPool ------------------------------
(***************************************************************************)
(* The connection pool of a service (cccommon/src/ccserver): connections   *)
(* that are accepted or made, run their handlers on a pool of threads, are *)
(* reference counted while an asynchronous operation is pending, and are   *)
(* stopped, finished and handed out again (connection.cpp,                 *)
(* connection_manager.cpp, server.cpp).                                    *)
(*                                                                         *)
(* A thread runs one handler at a time.  A handler is a sequence of        *)
(* instructions, one per lock the code takes, so that two threads          *)
(* interleave wherever the code lets them.  Bytes, sizes and addresses are *)
(* left out; an error of the socket is a choice.                           *)
(***************************************************************************)
EXTENDS Naturals, Sequences, FiniteSets

CONSTANTS Conns,        \* the connections of the pool
          Threads,      \* the threads of the io_service
          MaxIncoming,  \* m_maxincoming
          MaxUses,      \* bound: how often connections are taken from the pool
          MaxMsgs,      \* bound: messages read in one use of a connection
          NoConn        \* the null pointer

ASSUME PoolAssumption ==
  /\ IsFiniteSet(Conns) /\ IsFiniteSet(Threads) /\ NoConn \notin Conns
  /\ MaxIncoming \in Nat \ {0} /\ MaxUses \in Nat /\ MaxMsgs \in Nat

VARIABLES conn,      \* conn[c]: the members of connection c
          pend,      \* pend[c][k]: the asynchronous operations of kind k that are pending
          thr,       \* thr[t]: the connection and the rest of the handler that thread t runs
          avail,     \* m_free_connections
          inCount,   \* m_incoming_count
          newConn,   \* m_new_connection
          listening, \* an async_accept is outstanding
          isOpen,    \* m_acceptor.is_open()
          shutdown,  \* "no", "wanted" (g_shutdown), "stopping" (Server::HandleStop) or "done"
          tasks,     \* validations in progress that will call HandleValidateDone
          uses       \* how often a connection was taken from the pool

poolVars == <<conn, pend, thr, avail, inCount, newConn, listening, isOpen, shutdown, tasks, uses>>

Kinds == {"start", "timer", "aborted", "read", "write", "proxyWrite", "proxyRead", "finish"}

Idle == [c |-> NoConn, prog |-> <<>>, refs |-> 0, h |-> "none"]

\* m_stopping: 0 while the connection is in use, positive once it is stopping, and
\* negative (the code's -9999) between uses.
Unused == 99

Down == shutdown # "no"

Stopping(c) == conn[c].stopping # 0

Fresh == [state |-> "STOPPED", stopping |-> Unused, ops |-> 0, useCount |-> 0, use |-> 0, free |-> TRUE,
          incoming |-> FALSE, writing |-> FALSE, msgs |-> 0]

\* The state after Service::Start: all connections are in the pool but the one
\* HandleFreeConnection took to accept into.
PoolInit ==
  /\ \E c \in Conns, s \in [1..Cardinality(Conns) - 1 -> Conns] :
       /\ {s[i] : i \in DOMAIN s} = Conns \ {c}
       /\ avail = s /\ newConn = c
       /\ conn = [d \in Conns |-> IF d = c THEN [Fresh EXCEPT !.free = FALSE, !.incoming = TRUE, !.use = 1] ELSE Fresh]
  /\ pend = [c \in Conns |-> [k \in Kinds |-> 0]]
  /\ thr = [t \in Threads |-> Idle]
  /\ inCount = 1 /\ listening = TRUE /\ isOpen = TRUE
  /\ shutdown = "no" /\ tasks = {} /\ uses = 1

(***************************************************************************)
(* The manager.                                                            *)
(***************************************************************************)
\* An idle thread takes up a handler.
Run(t, c, h, refs, prog) == thr' = [thr EXCEPT ![t] = [c |-> c, prog |-> prog, refs |-> refs, h |-> h]]

\* A mutation of CanGet.
BuggyCanGet(incoming) == avail # <<>> /\ uses < MaxUses

CanGet(incoming) == avail # <<>> /\ (incoming => inCount < MaxIncoming) /\ uses < MaxUses

\* The state of the connections after GetFreeConnection and, unless it only waits to be
\* accepted, InitNewConnection.
Taken(c, incoming, init) ==
  [conn EXCEPT ![c].free = FALSE, ![c].incoming = incoming, ![c].use = uses + 1,
               ![c].stopping = IF init THEN 0 ELSE @, ![c].writing = FALSE, ![c].msgs = 0]

GetFreeConnection(incoming, init) ==
  LET c == avail[Len(avail)] IN
  /\ avail' = SubSeq(avail, 1, Len(avail) - 1)
  /\ inCount' = IF incoming THEN inCount + 1 ELSE inCount
  /\ conn' = Taken(c, incoming, init)
  /\ uses' = uses + 1

\* InitNewConnection of a connection that was waiting to be accepted.
Begun(c) == [conn EXCEPT ![c].stopping = 0, ![c].writing = FALSE]

\* A mutation of StartAcceptWithLock.
BuggyStartAcceptWithLock(used) ==
  IF isOpen /\ used
  THEN IF CanGet(TRUE)
       THEN /\ GetFreeConnection(TRUE, FALSE)
            /\ newConn' = avail[Len(avail)] /\ listening' = TRUE
       ELSE newConn' = NoConn /\ listening' = FALSE /\ UNCHANGED <<conn, avail, inCount, uses>>
  ELSE UNCHANGED <<conn, avail, inCount, newConn, listening, uses>>

\* StartAcceptWithLock: while it holds m_new_connection_lock a connection is fetched,
\* unless one is there that was not used.
StartAcceptWithLock(used) ==
  IF isOpen /\ (newConn = NoConn \/ used)
  THEN IF CanGet(TRUE)
       THEN /\ GetFreeConnection(TRUE, FALSE)
            /\ newConn' = avail[Len(avail)] /\ listening' = TRUE
       ELSE newConn' = NoConn /\ listening' = FALSE /\ UNCHANGED <<conn, avail, inCount, uses>>
  ELSE UNCHANGED <<conn, avail, inCount, newConn, listening, uses>>

\* HandleAccept with a peer: the new connection is initialised and its first handler
\* posted, with a reference (Post refuses at shutdown); the connection is then replaced by another.
HandleAccept(t) ==
  /\ listening /\ isOpen /\ thr[t] = Idle /\ ~Down
  /\ conn' = Begun(newConn)
  /\ listening' = FALSE
  /\ Run(t, newConn, "accept", 0, <<"incStart", "postStart", "acceptNext">>)
  /\ UNCHANGED <<pend, avail, inCount, newConn, isOpen, shutdown, tasks, uses>>

\* HandleAccept with an error: StartAcceptWithLock(false) finds m_new_connection there.
HandleAcceptError ==
  /\ listening /\ isOpen
  /\ listening' = FALSE
  /\ UNCHANGED <<conn, pend, thr, avail, inCount, newConn, isOpen, shutdown, tasks, uses>>

\* Server::Connect: a connection is taken and initialised; then its handler is posted.
Connect(t) ==
  /\ thr[t] = Idle /\ CanGet(FALSE) /\ ~Down
  /\ GetFreeConnection(FALSE, TRUE)
  /\ Run(t, avail[Len(avail)], "connect", 0, <<"incStart", "postStart">>)
  /\ UNCHANGED <<pend, newConn, listening, isOpen, shutdown, tasks>>

(***************************************************************************)
(* Handlers: what a thread still has to do, by the operation that          *)
(* completed.  "inc" takes a reference for the operation that "go" then    *)
(* starts.                                                                 *)
(***************************************************************************)
StartConnection == <<"cancelTimer", "incRead", "goRead">>

\* HandleStartIncomingConnection, HandleConnectOutgoing and HandleConnectOutgoingTor; a
\* connect may fail.
StartPrograms(c) ==
  IF conn[c].incoming THEN {StartConnection}
  ELSE {<<"incTimer", "goTimer">> \o StartConnection,
        <<"incTimer", "goTimer", "stop">>,
        <<"incTimer", "goTimer", "incWrite", "goProxyWrite">>}

\* HandleReadCheck, HandleRead and HandleReadComplete: an error or an unknown message, or
\* one whose handling queues a validation, or writes a reply, and reads on.
ReadPrograms(c) ==
  {<<"stop">>} \cup
  (IF conn[c].msgs = MaxMsgs THEN {}
   ELSE {<<"validate", "incRead", "goRead">>, <<"incWrite", "goWrite", "incRead", "goRead">>})

\* HandleWrite: an error, or the connection stays, or is closed (m_noclose).
WritePrograms == {<<>>, <<"stop">>}

\* HandleTorProxyWrite and HandleTorProxyRead.
ProxyPrograms(k) ==
  {<<"stop">>, IF k = "proxyWrite" THEN <<"incRead", "goProxyRead">> ELSE StartConnection}

\* A mutation of Programs.
BuggyPrograms(c, k) ==
  CASE k = "start" -> StartPrograms(c)
    [] k = "read" -> ReadPrograms(c)
    [] k = "write" -> WritePrograms
    [] k \in {"proxyWrite", "proxyRead"} -> ProxyPrograms(k)
    [] k = "timer" -> {<<"stop">>}
    [] k = "aborted" -> {<<>>}
    [] k = "finish" -> {<<"stopped", "free", "acceptMore">>}

\* HandleTimeout stops the connection, unless the timer was cancelled.
Programs(c, k) ==
  CASE k = "start" -> StartPrograms(c)
    [] k = "read" -> ReadPrograms(c)
    [] k = "write" -> WritePrograms
    [] k \in {"proxyWrite", "proxyRead"} -> ProxyPrograms(k)
    [] k = "timer" -> {<<"stop">>}
    [] k = "aborted" -> {<<>>}
    [] k = "finish" -> {<<"bump", "stopped", "free", "acceptMore">>}

\* What a handler that gave up or was refused still does.
Abandoned == <<>>

\* A thread of the pool takes a completed operation: boost copies the AutoCount (IncRef)
\* and, if that fails because the connection is stopping, CheckOpCount returns.  The
\* AutoCount of the operation itself is released when the handler ends.  A handler of a
\* write then clears m_write_in_progress.
Dispatch(t, c, k) ==
  /\ thr[t] = Idle /\ pend[c][k] > 0
  /\ pend' = [pend EXCEPT ![c][k] = @ - 1]
  /\ IF k = "finish"
     THEN /\ \E p \in Programs(c, k) : Run(t, c, k, 0, p)
          /\ UNCHANGED conn
     ELSE IF Stopping(c) \/ Down
     THEN Run(t, c, k, 1, IF k = "timer" THEN <<"stop">> ELSE Abandoned) /\ UNCHANGED conn
     ELSE /\ \E p \in Programs(c, k) : Run(t, c, k, 2, p)
          /\ conn' = [conn EXCEPT ![c].ops = @ + 1,
                                  ![c].writing = IF k \in {"write", "proxyWrite"} THEN FALSE ELSE @,
                                  ![c].msgs = IF k = "read" /\ @ < MaxMsgs THEN @ + 1 ELSE @]
  /\ UNCHANGED <<avail, inCount, newConn, listening, isOpen, shutdown, tasks, uses>>

(***************************************************************************)
(* Instructions.                                                           *)
(***************************************************************************)
Next1(t) == [thr EXCEPT ![t].prog = Tail(@)]

Quit(t) == [thr EXCEPT ![t].prog = Abandoned]

At(t, i) == thr[t].prog # <<>> /\ Head(thr[t].prog) = i

Same == UNCHANGED <<avail, inCount, newConn, listening, isOpen, shutdown, uses>>

\* A mutation of IncRef.
BuggyIncRef(t, c, i) ==
  /\ At(t, i) /\ i \in {"incStart", "incTimer", "incRead", "incWrite"}
  /\ conn' = [conn EXCEPT ![c].ops = @ + 1]
  /\ thr' = [thr EXCEPT ![t].prog = Tail(@), ![t].refs = @ + 1]
  /\ UNCHANGED <<pend, tasks>> /\ Same

\* IncRef under m_ref_lock; the AutoCount is empty when the connection is stopping.  The
\* handlers that connect have just set m_conn_state, without a lock.
IncRef(t, c, i) ==
  /\ At(t, i) /\ i \in {"incStart", "incTimer", "incRead", "incWrite"}
  /\ LET got == ~Stopping(c) /\ ~Down IN
     /\ conn' = [conn EXCEPT ![c].ops = IF got THEN @ + 1 ELSE @,
                             ![c].state = IF i = "incTimer" THEN "CONNECTING" ELSE @]
     /\ thr' = [thr EXCEPT ![t].prog = Tail(@), ![t].refs = IF got THEN @ + 1 ELSE @]
  /\ UNCHANGED <<pend, tasks>> /\ Same

Pending == [postStart |-> "start", goTimer |-> "timer", goRead |-> "read", goWrite |-> "write",
            goProxyWrite |-> "proxyWrite", goProxyRead |-> "proxyRead"]

Writes == {"goWrite", "goProxyWrite"}

\* The operation is started: it is pending, and the reference goes with it.  A new wait of
\* the timer aborts the one before it.
Launch(t, c, i) ==
  /\ pend' = [pend EXCEPT ![c][Pending[i]] = @ + 1,
                          ![c]["timer"] = IF i = "goTimer" THEN 1 ELSE @,
                          ![c]["aborted"] = IF i = "goTimer" THEN @ + pend[c]["timer"] ELSE @]
  /\ conn' = [conn EXCEPT ![c].writing = @ \/ i \in Writes]
  /\ thr' = [thr EXCEPT ![t].prog = Tail(@), ![t].refs = @ - 1]

\* The handler gives up; what Server::HandleAccept does next does not depend on it.
Refused(t, i) ==
  /\ thr' = [thr EXCEPT ![t].prog = IF i = "postStart" THEN Tail(@) ELSE Abandoned]
  /\ UNCHANGED <<conn, pend>>

\* A mutation of Async: a write does not wait for the one in progress.
BuggyAsync(t, c, i) ==
  /\ At(t, i) /\ i \in DOMAIN Pending
  /\ IF Stopping(c) \/ Down THEN Refused(t, i) ELSE Launch(t, c, i)
  /\ UNCHANGED tasks /\ Same

\* A mutation of Async: m_stopping is not looked at again.
BuggyAsyncUnchecked(t, c, i) ==
  /\ At(t, i) /\ i \in DOMAIN Pending
  /\ i \in Writes => ~conn[c].writing
  /\ IF Stopping(c) \/ Down
     THEN /\ pend' = [pend EXCEPT ![c][Pending[i]] = @ + 1]
          /\ thr' = [thr EXCEPT ![t].prog = Tail(@)]
          /\ UNCHANGED conn
     ELSE Launch(t, c, i)
  /\ UNCHANGED tasks /\ Same

\* A mutation of Async: the reference is released twice.
BuggyAsyncTwice(t, c, i) ==
  /\ At(t, i) /\ i \in DOMAIN Pending
  /\ i \in Writes => Stopping(c) \/ Down \/ ~conn[c].writing
  /\ IF Stopping(c) \/ Down THEN Refused(t, i)
     ELSE /\ pend' = [pend EXCEPT ![c][Pending[i]] = @ + 1]
          /\ thr' = [thr EXCEPT ![t].prog = Tail(@)]
          /\ UNCHANGED conn
  /\ UNCHANGED tasks /\ Same

\* Post, TimerWaitAsync, ReadAsync and WriteAsync, under m_conn_lock: nothing is started
\* on a connection that is stopping.  WriteAsync first waits, holding next_writer_mutex,
\* until no write is in progress.
Async(t, c, i) ==
  /\ At(t, i) /\ i \in DOMAIN Pending
  /\ i \in Writes => Stopping(c) \/ Down \/ ~conn[c].writing
  /\ IF Stopping(c) \/ Down THEN Refused(t, i) ELSE Launch(t, c, i)
  /\ UNCHANGED tasks /\ Same

\* The operations of a connection whose timer is cancelled.
Cancelled(c) == [pend EXCEPT ![c]["timer"] = 0, ![c]["aborted"] = @ + pend[c]["timer"]]

\* StartConnection sets m_conn_state and cancels the timer.
CancelTimer(t, c) ==
  /\ At(t, "cancelTimer")
  /\ pend' = Cancelled(c)
  /\ conn' = [conn EXCEPT ![c].state = "CONNECTED"]
  /\ thr' = Next1(t)
  /\ UNCHANGED tasks /\ Same

\* A message is queued for validation with the connection and its m_use_count.
Validate(t, c) ==
  /\ At(t, "validate")
  /\ tasks' = tasks \cup {[c |-> c, id |-> conn[c].useCount, use |-> conn[c].use]}
  /\ thr' = Next1(t)
  /\ UNCHANGED <<conn, pend>> /\ Same

\* StopWithConnLock: the first call that finds the connection in use makes it stopping,
\* cancels its timer and its socket and, when nothing is pending, posts HandleStop.
StopWithConnLock(c) ==
  IF conn[c].stopping = 0
  THEN /\ conn' = [conn EXCEPT ![c].stopping = 1, ![c].state = "STOPPING"]
       /\ pend' = [Cancelled(c) EXCEPT ![c]["finish"] = IF conn[c].ops = 0 THEN @ + 1 ELSE @]
  ELSE UNCHANGED <<conn, pend>>

Stop(t, c) ==
  /\ At(t, "stop")
  /\ StopWithConnLock(c)
  /\ thr' = Next1(t)
  /\ UNCHANGED tasks /\ Same

\* A mutation of DecRef.
BuggyDecRef(t, c) ==
  /\ thr[t].c = c /\ thr[t].prog = <<>> /\ thr[t].refs > 0
  /\ conn' = [conn EXCEPT ![c].ops = @ - 1]
  /\ thr' = [thr EXCEPT ![t] = IF thr[t].refs = 1 THEN Idle ELSE [thr[t] EXCEPT !.refs = @ - 1]]
  /\ UNCHANGED <<pend, tasks>> /\ Same

\* The end of a handler: its AutoCounts are destroyed (DecRef); the last one of a stopping
\* connection posts HandleStop.
DecRef(t, c) ==
  /\ thr[t].c = c /\ thr[t].prog = <<>> /\ thr[t].refs > 0
  /\ conn' = [conn EXCEPT ![c].ops = @ - 1]
  /\ pend' = [pend EXCEPT ![c]["finish"] = IF Stopping(c) /\ conn[c].ops = 1 THEN @ + 1 ELSE @]
  /\ thr' = [thr EXCEPT ![t] = IF thr[t].refs = 1 THEN Idle ELSE [thr[t] EXCEPT !.refs = @ - 1]]
  /\ UNCHANGED tasks /\ Same

\* A handler that is done: the thread is free for another one.
Done(t, c) ==
  /\ thr[t].c = c /\ thr[t].prog = <<>> /\ thr[t].refs = 0
  /\ thr' = [thr EXCEPT ![t] = Idle]
  /\ UNCHANGED <<conn, pend, tasks>> /\ Same

(***************************************************************************)
(* HandleStop of a connection, in three locked steps: late callbacks are   *)
(* made void and the socket is closed; the connection is idle; it is       *)
(* freed, and the acceptor tries again (not at shutdown).                  *)
(***************************************************************************)
HandleStop(t, c) ==
  \/ /\ At(t, "bump")
     /\ conn' = [conn EXCEPT ![c].useCount = @ + 1]
     /\ thr' = Next1(t)
     /\ UNCHANGED <<pend, tasks>> /\ Same
  \/ /\ At(t, "stopped")
     /\ conn' = [conn EXCEPT ![c].stopping = Unused, ![c].state = "STOPPED"]
     /\ thr' = Next1(t)
     /\ UNCHANGED <<pend, tasks>> /\ Same

\* A mutation of FreeConnection.
BuggyFreeConnection(t, c) ==
  /\ At(t, "free")
  /\ IF Down \/ conn[c].free
     THEN thr' = Quit(t) /\ UNCHANGED <<conn, avail, inCount>>
     ELSE /\ conn' = [conn EXCEPT ![c].free = TRUE]
          /\ avail' = Append(avail, c)
          /\ inCount' = inCount
          /\ thr' = Next1(t)
  /\ UNCHANGED <<pend, tasks, newConn, listening, isOpen, shutdown, uses>>

FreeConnection(t, c) ==
  /\ At(t, "free")
  /\ IF Down \/ conn[c].free
     THEN thr' = Quit(t) /\ UNCHANGED <<conn, avail, inCount>>
     ELSE /\ conn' = [conn EXCEPT ![c].free = TRUE]
          /\ avail' = Append(avail, c)
          /\ inCount' = IF conn[c].incoming THEN inCount - 1 ELSE inCount
          /\ thr' = Next1(t)
  /\ UNCHANGED <<pend, tasks, newConn, listening, isOpen, shutdown, uses>>

\* HandleFreeConnection, and the end of HandleAccept.
StartAccept(t) ==
  /\ \/ At(t, "acceptMore") /\ StartAcceptWithLock(FALSE)
     \/ At(t, "acceptNext") /\ StartAcceptWithLock(TRUE)
  /\ thr' = Next1(t)
  /\ UNCHANGED <<pend, tasks, isOpen, shutdown>>

\* A mutation of HandleValidateDone.
BuggyHandleValidateDone(x) ==
  /\ x \in tasks
  /\ tasks' = tasks \ {x}
  /\ \/ UNCHANGED <<conn, pend>>
     \/ StopWithConnLock(x.c)
  /\ UNCHANGED thr /\ Same

(***************************************************************************)
(* Callbacks and shutdown.                                                 *)
(***************************************************************************)
\* HandleValidateDone: a callback of an earlier use is ignored; a bad result
\* stops the connection.
HandleValidateDone(x) ==
  /\ x \in tasks
  /\ tasks' = tasks \ {x}
  /\ \/ UNCHANGED <<conn, pend>>
     \/ x.id = conn[x.c].useCount /\ StopWithConnLock(x.c)
  /\ UNCHANGED thr /\ Same

StartShutdown ==
  /\ shutdown = "no"
  /\ shutdown' = "wanted"
  /\ UNCHANGED <<conn, pend, thr, avail, inCount, newConn, listening, isOpen, tasks, uses>>

\* Server::HandleStop, run by a thread of the pool: the acceptor is closed, every
\* connection is stopped, and the thread waits until each is STOPPED.
StopAllConnections(t) ==
  \/ /\ shutdown = "wanted" /\ thr[t] = Idle
     /\ isOpen' = FALSE /\ listening' = FALSE /\ shutdown' = "stopping"
     /\ \E s \in [1..Cardinality(Conns) -> Conns] :
          {s[i] : i \in DOMAIN s} = Conns /\ thr' = [thr EXCEPT ![t] = [Idle EXCEPT !.h = "stopAll", !.prog = s]]
     /\ UNCHANGED <<conn, pend, avail, inCount, newConn, tasks, uses>>
  \/ /\ thr[t].h = "stopAll" /\ thr[t].prog # <<>>
     /\ StopWithConnLock(Head(thr[t].prog))
     /\ thr' = Next1(t)
     /\ UNCHANGED tasks /\ Same
  \/ /\ thr[t].h = "stopAll" /\ thr[t].prog = <<>>
     /\ \A c \in Conns : conn[c].state = "STOPPED"
     /\ thr' = [thr EXCEPT ![t] = Idle]
     /\ shutdown' = "done"
     /\ UNCHANGED <<conn, pend, avail, inCount, newConn, listening, isOpen, tasks, uses>>

Step(t) ==
  \/ \E c \in Conns, k \in Kinds : Dispatch(t, c, k)
  \/ /\ thr[t].h # "stopAll" /\ thr[t].c # NoConn
     /\ LET c == thr[t].c IN
        \/ CancelTimer(t, c) \/ Validate(t, c) \/ Stop(t, c)
        \/ DecRef(t, c) \/ Done(t, c) \/ HandleStop(t, c) \/ FreeConnection(t, c) \/ StartAccept(t)
        \/ \E i \in {"incStart", "incTimer", "incRead", "incWrite"} : IncRef(t, c, i)
        \/ \E i \in DOMAIN Pending : Async(t, c, i)
  \/ StopAllConnections(t)

PoolNext ==
  \/ \E t \in Threads : Step(t) \/ Connect(t) \/ HandleAccept(t)
  \/ HandleAcceptError \/ StartShutdown
  \/ \E x \in tasks : HandleValidateDone(x)

PoolSpec == PoolInit /\ [][PoolNext]_poolVars

(***************************************************************************)
(* Properties.                                                             *)
(***************************************************************************)
RunningOn(c) == {t \in Threads : thr[t].c = c}

\* Every variable has its type.
PoolTypeOK ==
  /\ \A c \in Conns : /\ conn[c].ops \in Nat /\ conn[c].stopping \in {0, 1, Unused}
                      /\ conn[c].state \in {"STOPPED", "CONNECTING", "CONNECTED", "STOPPING"}
                      /\ \A k \in Kinds : pend[c][k] \in 0..3
  /\ newConn \in Conns \cup {NoConn} /\ inCount \in Nat /\ shutdown \in {"no", "wanted", "stopping", "done"}
  /\ \A t \in Threads : thr[t].c \in Conns \cup {NoConn} /\ thr[t].refs \in 0..3

\* HandleStop of a connection is posted once in a use, and only when nothing is pending on
\* it: its assertions (connection.cpp:977, 984, 998) hold, and no handler runs that could
\* still start an operation.
FinishOnce ==
  \A c \in Conns : LET n == pend[c]["finish"] + Cardinality({t \in RunningOn(c) : thr[t].h = "finish" /\ thr[t].prog # <<>> /\ Head(thr[t].prog) \in {"bump", "stopped"}}) IN
    n > 0 => /\ n = 1 /\ conn[c].ops = 0 /\ conn[c].stopping = 1
             /\ \A k \in Kinds \ {"finish"} : pend[c][k] = 0

\* A connection in the free list is untouched: nothing pending, and no thread in one of its
\* handlers (the threads that freed, accepted or made it have let go of it).
FreeIsQuiet ==
  \A c \in Conns : conn[c].free =>
    /\ \A k \in Kinds : pend[c][k] = 0
    /\ \A t \in RunningOn(c) : thr[t].refs = 0 /\ (thr[t].prog = <<>> \/ thr[t].h \in {"finish", "accept"})
    /\ conn[c].stopping = Unused /\ conn[c].ops = 0

\* The connection count the acceptor goes by is exact and within its limit
\* (connection_manager.cpp:90, 117).
IncomingExact ==
  /\ inCount = Cardinality({c \in Conns : ~conn[c].free /\ conn[c].incoming})
  /\ inCount <= MaxIncoming

\* boost asio allows one async_write at a time, and WriteAsync promises to start no second
\* one (connection.cpp:730).
OneWrite == \A c \in Conns : pend[c]["write"] + pend[c]["proxyWrite"] <= 1

\* An acceptor that has no connection to accept into, though one is free, is about to be
\* told: a thread is on its way to StartAccept.
AcceptorNotForgotten ==
  isOpen /\ ~Down /\ newConn = NoConn /\ CanGet(TRUE) =>
    \E t \in Threads : thr[t].prog # <<>> /\ thr[t].prog[Len(thr[t].prog)] \in {"acceptMore", "acceptNext"}

\* A validation that fails stops the connection it was received on, never a later use of
\* the same Connection object (connection.cpp:882).
CallbackHitsOwnUse ==
  [][\A x \in tasks \ tasks' : conn'[x.c].stopping # conn[x.c].stopping => x.use = conn[x.c].use]_poolVars

\* Server::HandleStop never waits for good: as long as a connection is not STOPPED, a
\* handler is running or pending that brings it there.
ShutdownNotStuck ==
  \A t \in Threads : thr[t].h = "stopAll" /\ thr[t].prog = <<>> =>
    \A c \in Conns : \/ conn[c].state = "STOPPED"
                     \/ \E k \in Kinds : pend[c][k] > 0
                     \/ RunningOn(c) # {}

\* Connection objects are finished once and are quiet when they are free, incoming ones are
\* counted, a socket has one write at a time, the acceptor is always started again, and a
\* shutdown finds no connection that will never stop (Connection, ConnectionManager, Server).
PoolInv ==
  /\ PoolTypeOK /\ FinishOnce /\ FreeIsQuiet /\ IncomingExact
  /\ OneWrite /\ AcceptorNotForgotten /\ ShutdownNotStuck
=============================================================================
