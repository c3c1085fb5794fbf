----------------------------- MODULE TxService -----------------------------
(***************************************************************************)
(* Submitting a transaction: wallets (ccwallet/src/txquery.cpp,            *)
(* txconn.cpp) connect to the transaction service of a node                *)
(* (ccnode/src/transact.cpp), which queues the transaction for validation  *)
(* and answers when a worker calls back or a timer fires.  The connection  *)
(* objects of the service are reused, so a callback can outlive the use it *)
(* belongs to; m_use_count is what tells the uses apart.                   *)
(*                                                                         *)
(* A reply is one of "OK", "INVALID", "EXPIRED" (INVALID:expired), "ERROR" *)
(* and "UNKNOWN": the prefixes that DoSubmitTx tells apart.                *)
(***************************************************************************)
EXTENDS Naturals, FiniteSets

CONSTANTS Clients,     \* wallets; each submits one transaction, named after it
          TxConns,     \* the connection objects of the node's transaction service
          Retries,     \* g_params.tx_submit_retries
          MaxAccepts,  \* bound: connections the service accepts
          NoClient, NoTxConn

ASSUME TxServiceAssumption == Retries \in Nat /\ MaxAccepts \in Nat /\ NoClient \notin Clients /\ NoTxConn \notin TxConns

VARIABLES cl,       \* cl[k]: the TxQuery object of wallet k, see NewQuery
          svc,      \* svc[c]: the TransactConnection object c, see FreeConn
          jobs,     \* validations queued or done whose callback has not run
          valid,    \* the transactions that passed validation
          accepts   \* connections accepted so far

svcVars == <<cl, svc, jobs, valid, accepts>>

Replies == {"OK", "INVALID", "EXPIRED", "ERROR", "UNKNOWN"}

\* possibly is m_possibly_sent, already the copy DoSubmitTx takes before each try.
NewQuery == [pc |-> "prepare", try |-> 0, conn |-> NoTxConn, written |-> FALSE,
             possibly |-> FALSE, already |-> FALSE, result |-> "none"]

\* use is m_use_count and id the callback_id that HandleTx took from it; timer is "none",
\* "idle" (HandleTimeout) or "validation"; arming says that HandleTx has yet to set the
\* latter, expired that it ran out and its handler is waiting for a thread; out is the reply
\* being written and answers counts the replies of this use.
FreeConn(use) == [cli |-> NoClient, msg |-> FALSE, use |-> use, id |-> 0, timer |-> "none", arming |-> FALSE,
                  expired |-> FALSE, queued |-> FALSE, out |-> "none", answers |-> 0]

SvcInit ==
  /\ cl = [k \in Clients |-> NewQuery]
  /\ svc = [c \in TxConns |-> FreeConn(0)]
  /\ jobs = {} /\ valid = {} /\ accepts = 0

(***************************************************************************)
(* The wallet.                                                             *)
(***************************************************************************)
\* DoSubmitTx goes round its loop, or ends with -1 after the last try.
NextTry(q) ==
  IF q.try < Retries
  THEN [q EXCEPT !.pc = "prepare", !.try = @ + 1, !.conn = NoTxConn, !.written = FALSE]
  ELSE [q EXCEPT !.pc = "done", !.conn = NoTxConn, !.result = "ERROR"]

\* TryQuery: once data was written the message may have been sent.
Tried(q) == [q EXCEPT !.possibly = @ \/ q.written]

\* A mutation of AfterReply.
BuggyAfterReply(q, r) ==
  LET t == Tried(q) IN
  CASE r = "UNKNOWN" -> [t EXCEPT !.pc = "done", !.possibly = TRUE, !.result = "UNKNOWN", !.conn = NoTxConn]
    [] r = "OK" -> [t EXCEPT !.pc = "done", !.result = "OK", !.conn = NoTxConn]
    [] OTHER -> [t EXCEPT !.pc = "done", !.possibly = FALSE, !.result = r, !.conn = NoTxConn]

\* DoSubmitTx, with a reply that was read: a refusal restores what was known before this
\* try, and UNKNOWN says that the transaction may have been accepted.
AfterReply(q, r) ==
  LET t == Tried(q) IN
  CASE r = "UNKNOWN" -> [t EXCEPT !.pc = "done", !.possibly = TRUE, !.result = "UNKNOWN", !.conn = NoTxConn]
    [] r = "OK" -> [t EXCEPT !.pc = "done", !.result = "OK", !.conn = NoTxConn]
    [] OTHER -> [t EXCEPT !.pc = "done", !.possibly = q.already, !.result = r, !.conn = NoTxConn]

\* SubmitQuery and PrepareQuery: parameters are fetched and the proof of work is made, which
\* may fail or last until the transaction has expired.
PrepareQuery(k) ==
  /\ cl[k].pc = "prepare"
  /\ \E outcome \in {"ready", "expired", "failed"} :
       LET q == [cl[k] EXCEPT !.already = cl[k].possibly] IN
       cl' = [cl EXCEPT ![k] = CASE outcome = "ready"   -> [q EXCEPT !.pc = "connect"]
                                 [] outcome = "expired" -> [q EXCEPT !.pc = "done", !.result = "EXPIRED"]
                                 [] outcome = "failed"  -> NextTry(q)]
  /\ UNCHANGED <<svc, jobs, valid, accepts>>

\* TryQuery connects; the service accepts into connection c, whose StartConnection sets the
\* timer and starts to read.
ConnectAndStart(k, c) ==
  /\ cl[k].pc = "connect" /\ svc[c].cli = NoClient /\ accepts < MaxAccepts
  /\ accepts' = accepts + 1
  /\ cl' = [cl EXCEPT ![k].pc = "open", ![k].conn = c]
  /\ svc' = [svc EXCEPT ![c] = [FreeConn(@.use) EXCEPT !.cli = k, !.timer = "idle"]]
  /\ UNCHANGED <<jobs, valid>>

\* TxConnection::StartConnection writes the message.
StartWrite(k) ==
  /\ cl[k].pc = "open" /\ ~cl[k].written
  /\ cl' = [cl EXCEPT ![k].written = TRUE]
  /\ svc' = [svc EXCEPT ![cl[k].conn].msg = svc[cl[k].conn].cli = k]
  /\ UNCHANGED <<jobs, valid, accepts>>

\* WaitForReadComplete ends without a reply: no connection, a reset, or the wallet's timer.
GiveUp(k) ==
  /\ cl[k].pc \in {"connect", "open"}
  /\ cl' = [cl EXCEPT ![k] = NextTry(Tried(cl[k]))]
  /\ UNCHANGED <<svc, jobs, valid, accepts>>

(***************************************************************************)
(* The service.                                                            *)
(***************************************************************************)
\* WriteAsync of a reply.
Reply(s, r) == [s EXCEPT !.out = r, !.answers = @ + 1]

\* SendValidateResult sets the timer before it writes.
SendValidateResult(s, r) == [Reply(s, r) EXCEPT !.timer = "idle"]

\* HandleReadComplete and HandleMsgReadComplete: the checks in the order they are made, and
\* what is answered when one of them is the first to fail.
Screen == [short |-> "ERROR", size |-> "ERROR", disabled |-> "ERROR", tag |-> "ERROR", timestamp |-> "ERROR",
           mismatch |-> "ERROR", object |-> "ERROR", mint |-> "INVALID", work |-> "ERROR"]

HandleMsgRefused(c) ==
  /\ svc[c].msg
  /\ \E check \in DOMAIN Screen : svc' = [svc EXCEPT ![c] = [Reply(@, Screen[check]) EXCEPT !.msg = FALSE]]
  /\ UNCHANGED <<cl, jobs, valid, accepts>>

\* HandleTx: the timer is cancelled first; the service may not be connected to the network
\* (IsConnectedToNet), the database may fail; a transaction that is valid already is
\* answered at once; one that is in the queue already keeps its first connection.
HandleTx(c) ==
  LET k == svc[c].cli
      s == [svc[c] EXCEPT !.msg = FALSE, !.timer = "none"]
      queue == /\ k \notin valid
               /\ svc' = [svc EXCEPT ![c] = [s EXCEPT !.arming = TRUE, !.queued = TRUE, !.id = s.use]]
               /\ jobs' = IF \E j \in jobs : j.tx = k /\ j.res = "none" THEN jobs
                          ELSE jobs \cup {[tx |-> k, c |-> c, id |-> s.use, res |-> "none"]}
  IN /\ svc[c].msg
     /\ \/ svc' = [svc EXCEPT ![c] = Reply(s, "ERROR")] /\ UNCHANGED jobs
        \/ k \in valid /\ svc' = [svc EXCEPT ![c] = SendValidateResult(s, "OK")] /\ UNCHANGED jobs
        \/ queue
     /\ UNCHANGED <<cl, valid, accepts>>

\* SetValidationTimer, the last step of HandleTx: it replaces whatever timer there is.
SetValidationTimer(c) ==
  /\ svc[c].arming
  /\ svc' = [svc EXCEPT ![c].arming = FALSE, ![c].timer = "validation"]
  /\ UNCHANGED <<cl, jobs, valid, accepts>>

\* ProcessTx::ThreadProc, as the service sees it: a worker ends a validation.
Validated(j) ==
  /\ j.res = "none"
  /\ \E r \in {"OK", "INVALID", "EXPIRED", "ERROR"} :
       /\ jobs' = (jobs \ {j}) \cup {[j EXCEPT !.res = r]}
       /\ valid' = IF r = "OK" THEN valid \cup {j.tx} ELSE valid
  /\ UNCHANGED <<cl, svc, accepts>>

\* A mutation of HandleValidateDone.
BuggyHandleValidateDone(j) ==
  LET s == svc[j.c] IN
  /\ j.res # "none"
  /\ jobs' = jobs \ {j}
  /\ svc' = IF s.cli = NoClient \/ ~s.queued THEN svc
            ELSE [svc EXCEPT ![j.c] = SendValidateResult([s EXCEPT !.use = @ + 1], j.res)]
  /\ UNCHANGED <<cl, valid, accepts>>

\* HandleValidateDone, called by the worker: nothing unless the connection is in use
\* (AutoCount); m_use_count is incremented whether or not the callback is this use's own.
HandleValidateDone(j) ==
  LET s == svc[j.c]
      t == [s EXCEPT !.use = @ + 1]
  IN /\ j.res # "none"
     /\ jobs' = jobs \ {j}
     /\ svc' = IF s.cli = NoClient THEN svc
               ELSE [svc EXCEPT ![j.c] = IF j.id = s.use THEN SendValidateResult(t, j.res) ELSE t]
     /\ UNCHANGED <<cl, valid, accepts>>

\* The validation timer runs out.
TimerExpires(c) ==
  /\ svc[c].timer = "validation"
  /\ svc' = [svc EXCEPT ![c].timer = "none", ![c].expired = TRUE]
  /\ UNCHANGED <<cl, jobs, valid, accepts>>

\* A mutation of HandleValidationTimeout.
BuggyHandleValidationTimeout(c) ==
  LET s == [svc[c] EXCEPT !.expired = FALSE] IN
  /\ svc[c].expired
  /\ svc' = [svc EXCEPT ![c] = IF s.id = s.use THEN Reply(s, "UNKNOWN") ELSE s]
  /\ UNCHANGED <<cl, jobs, valid, accepts>>

\* HandleValidationTimeout: it too increments m_use_count, and answers when the callback_id
\* is still the current one.
HandleValidationTimeout(c) ==
  LET s == [svc[c] EXCEPT !.expired = FALSE, !.use = @ + 1] IN
  /\ svc[c].expired
  /\ svc' = [svc EXCEPT ![c] = IF s.id = svc[c].use THEN Reply(s, "UNKNOWN") ELSE s]
  /\ UNCHANGED <<cl, jobs, valid, accepts>>

\* A mutation of WriteDone.
BuggyWriteDone(c) ==
  /\ svc[c].out # "none" /\ ~svc[c].arming /\ ~svc[c].expired
  /\ LET k == svc[c].cli IN
     cl' = IF cl[k].conn = c THEN [cl EXCEPT ![k] = AfterReply(cl[k], svc[c].out)] ELSE cl
  /\ svc' = [svc EXCEPT ![c] = FreeConn(0)]
  /\ UNCHANGED <<jobs, valid, accepts>>

\* HandleWrite ends the use of the connection when the reply is written, and a wallet that
\* is still there reads it.  HandleStop, once no handler is pending, increments m_use_count.
WriteDone(c) ==
  /\ svc[c].out # "none" /\ ~svc[c].arming /\ ~svc[c].expired
  /\ LET k == svc[c].cli IN
     cl' = IF cl[k].conn = c THEN [cl EXCEPT ![k] = AfterReply(cl[k], svc[c].out)] ELSE cl
  /\ svc' = [svc EXCEPT ![c] = FreeConn(@.use + 1)]
  /\ UNCHANGED <<jobs, valid, accepts>>

\* The connection is stopped without a reply: the read or the write fails, the idle timer
\* runs out, or an answer finds no memory.
StopConnection(c) ==
  /\ svc[c].cli # NoClient /\ ~svc[c].arming /\ ~svc[c].expired
  /\ svc[c].queued => svc[c].out # "none"
  /\ svc[c].timer = "idle" \/ svc[c].out # "none" \/ cl[svc[c].cli].conn # c
  /\ svc' = [svc EXCEPT ![c] = FreeConn(@.use + 1)]
  /\ UNCHANGED <<cl, jobs, valid, accepts>>

SvcNext ==
  \/ \E k \in Clients : PrepareQuery(k) \/ StartWrite(k) \/ GiveUp(k) \/ \E c \in TxConns : ConnectAndStart(k, c)
  \/ \E c \in TxConns : \/ HandleMsgRefused(c) \/ HandleTx(c) \/ SetValidationTimer(c) \/ TimerExpires(c)
                         \/ HandleValidationTimeout(c) \/ WriteDone(c) \/ StopConnection(c)
  \/ \E j \in jobs : Validated(j) \/ HandleValidateDone(j)

SvcSpec == SvcInit /\ [][SvcNext]_svcVars

(***************************************************************************)
(* Properties.                                                             *)
(***************************************************************************)
\* Every variable has its type; a callback or a timer never refers to a later use.
SvcTypeOK ==
  /\ \A k \in Clients : /\ cl[k].pc \in {"prepare", "connect", "open", "done"} /\ cl[k].try \in 0..Retries
                        /\ cl[k].conn \in TxConns \cup {NoTxConn} /\ cl[k].result \in Replies \cup {"none"}
                        /\ {cl[k].written, cl[k].possibly, cl[k].already} \subseteq BOOLEAN
  /\ \A c \in TxConns : /\ svc[c].cli \in Clients \cup {NoClient} /\ svc[c].timer \in {"none", "idle", "validation"}
                        /\ svc[c].use \in Nat /\ svc[c].id <= svc[c].use /\ svc[c].out \in Replies \cup {"none"}
                        /\ {svc[c].msg, svc[c].arming, svc[c].expired, svc[c].queued} \subseteq BOOLEAN
  /\ \A j \in jobs : j.tx \in Clients /\ j.id <= svc[j.c].use /\ j.res \in Replies \cup {"none"}
  /\ valid \subseteq Clients /\ accepts \in 0..MaxAccepts

\* A wallet that was told OK has a transaction that passed validation: the answer is about
\* its own transaction, however often the connection was reused meanwhile
\* (TransactConnection::HandleValidateDone).
OwnAnswer == \A k \in Clients : cl[k].result = "OK" => k \in valid

\* A wallet that concludes that its transaction was refused and never sent is right: it was
\* not accepted, and is not waiting to be (DoSubmitTx's m_possibly_sent, over all tries).
NotSentIsTrue ==
  \A k \in Clients : cl[k].pc = "done" /\ cl[k].result # "OK" /\ ~cl[k].possibly =>
                      k \notin valid /\ \A j \in jobs : j.tx = k => j.res \notin {"none", "OK"}

\* A submission is answered once: of the validation timer and the worker's callback only
\* one writes a reply, in whatever order they run.
AnsweredOnce == \A c \in TxConns : svc[c].answers <= 1

\* A submission gets its own answer, and one only, and a wallet that believes that its
\* transaction was not sent is right (TransactConnection, TxQuery::SubmitTx).
SvcInv == SvcTypeOK /\ OwnAnswer /\ NotSentIsTrue /\ AnsweredOnce
=============================================================================
