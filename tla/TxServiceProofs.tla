-------------------------- MODULE TxServiceProofs --------------------------
(***************************************************************************)
(* Proofs about module TxService, for any wallets, connection objects,     *)
(* number of retries and of connections accepted.  SvcInv is not           *)
(* inductive: it needs which use of a connection a callback or a timer     *)
(* belongs to, and what a wallet that has not possibly sent anything may   *)
(* rely on while it is still trying: that nothing of its transaction is    *)
(* in the node, but for what its present connection has handed in.         *)
(*                                                                         *)
(* And about module TxValidate, the check that such a transaction goes     *)
(* through: whatever blocks become indelible between its reads, ValInv     *)
(* holds.  The database only grows, a transaction enters its tables with   *)
(* all its serial numbers, and what the validation has seen of them so     *)
(* far is related to what it began with and to what is there now.          *)
(***************************************************************************)
EXTENDS TxService, TxValidate, NaturalsInduction, WellFoundedInduction, TLAPS

QueryRec == [pc : {"prepare", "connect", "open", "done"}, try : 0 .. Retries, conn : TxConns \cup {NoTxConn},
             written : BOOLEAN, possibly : BOOLEAN, already : BOOLEAN, result : Replies \cup {"none"}]
ConnRec == [cli : Clients \cup {NoClient}, msg : BOOLEAN, use : Nat, id : Nat,
            timer : {"none", "idle", "validation"}, arming : BOOLEAN, expired : BOOLEAN, queued : BOOLEAN,
            out : Replies \cup {"none"}, answers : Nat]
JobRec == [tx : Clients, c : TxConns, id : Nat, res : Replies \cup {"none"}]

\* The types of all variables
SvTypes ==
  /\ cl \in [Clients -> QueryRec] /\ svc \in [TxConns -> ConnRec]
  /\ jobs \subseteq JobRec /\ valid \subseteq Clients /\ accepts \in 0 .. MaxAccepts

\* A connection of which no message was read and nothing is under way
Unused(s) == ~s.msg /\ ~s.queued /\ s.out = "none" /\ s.answers = 0

\* Where a connection is in its use: a message is read once; only a transaction that was
\* queued has a timer or an answer to come, and only while m_use_count is what HandleTx
\* took as the callback_id
ConnIs(s) ==
  /\ s.cli = NoClient => Unused(s)
  /\ s.msg => ~s.queued /\ s.out = "none" /\ s.answers = 0
  /\ s.arming \/ s.expired \/ s.timer = "validation" => s.queued
  /\ s.queued /\ s.id = s.use => s.answers = 0
  /\ s.id <= s.use /\ s.answers <= 1
  /\ s.out = "OK" => s.cli \in valid

ConnOK(c) == ConnIs(svc[c])

\* A callback whose callback_id is the current count belongs to the wallet that is connected
JobOK(j) ==
  LET s == svc[j.c] IN
  /\ j.id <= s.use
  /\ j.id = s.use => s.cli = j.tx /\ s.queued /\ s.id = s.use
  /\ j.res = "OK" => j.tx \in valid

\* Where a wallet is in its loop; what it has not written the service has not read
QueryOK(k) ==
  LET q == cl[k] IN
  /\ q.pc = "open" <=> q.conn # NoTxConn
  /\ q.pc \in {"prepare", "connect"} => ~q.written
  /\ q.pc \in {"connect", "open"} => q.already = q.possibly
  /\ q.pc = "open" /\ ~q.written /\ svc[q.conn].cli = k => Unused(svc[q.conn])
  /\ q.pc # "done" => q.result = "none"
  /\ q.result = "OK" => k \in valid

\* Nothing of the wallet's transaction is in the node
Untouched(k) == k \notin valid /\ \A j \in jobs : j.tx # k

\* The message of a wallet is with its present connection
Handed(k) == cl[k].pc = "open" /\ cl[k].written

Refusals == {"INVALID", "EXPIRED", "ERROR"}

\* A wallet that has not possibly sent its transaction: only its present connection can have
\* brought it to the node, as one validation, whose result the connection reports
SentOK(k) ==
  ~cl[k].possibly /\ cl[k].result # "OK" =>
    /\ \A c \in TxConns : svc[c].cli = k /\ svc[c].msg => Handed(k) /\ cl[k].conn = c
    /\ ~Handed(k) => Untouched(k)
    /\ Handed(k) /\ svc[cl[k].conn].cli = k =>
         (svc[cl[k].conn].msg \/ svc[cl[k].conn].out \in Refusals => Untouched(k))
    /\ \A i, j \in jobs : i.tx = k /\ j.tx = k => i = j
    /\ \A j \in jobs : j.tx = k /\ k \in valid => j.res = "OK"

SvIInv ==
  /\ SvTypes
  /\ \A c \in TxConns : ConnOK(c)
  /\ \A j \in jobs : JobOK(j)
  /\ \A k \in Clients : QueryOK(k) /\ SentOK(k)

-----------------------------------------------------------------------------
\* The replies, and what the constants stand for
LEMMA Values ==
    /\ {"OK", "INVALID", "EXPIRED", "ERROR", "UNKNOWN"} = Replies
    /\ NoClient \notin Clients /\ NoTxConn \notin TxConns /\ Retries \in Nat /\ MaxAccepts \in Nat
  BY TxServiceAssumption DEF Replies

\* The first state
LEMMA SvInit == SvcInit => SvIInv
  BY Values DEF SvcInit, SvIInv, SvTypes, NewQuery, FreeConn, QueryRec, ConnRec, JobRec, ConnOK, ConnIs, JobOK,
     QueryOK, SentOK, Unused, Untouched, Handed

\* A wallet goes on without a connection; it may forget what it handed in only when it
\* notes that it was possibly sent
LEMMA WalletAlone ==
    ASSUME SvIInv, NEW k \in Clients, NEW q \in QueryRec, cl' = [cl EXCEPT ![k] = q],
           UNCHANGED <<svc, jobs, valid, accepts>>,
           q.pc # "open", q.conn = NoTxConn, q.pc \in {"prepare", "connect"} => ~q.written,
           q.pc = "connect" => q.already = q.possibly, q.result # "OK", q.pc # "done" => q.result = "none",
           q.possibly \/ (~cl[k].possibly /\ ~Handed(k) /\ cl[k].result # "OK")
    PROVE  SvIInv'
<1>1. /\ cl \in [Clients -> QueryRec] /\ cl'[k] = q /\ \A x \in Clients \ {k} : cl'[x] = cl[x]
      /\ svc' = svc /\ jobs' = jobs /\ valid' = valid /\ accepts' = accepts
  BY DEF SvIInv, SvTypes
<1>2. SvTypes'
  BY <1>1 DEF SvIInv, SvTypes
<1>3. (\A c \in TxConns : ConnOK(c))' /\ (\A j \in jobs : JobOK(j))'
  BY <1>1 DEF SvIInv, ConnOK, ConnIs, JobOK
<1>4. ASSUME NEW x \in Clients PROVE QueryOK(x)'
  <2>1. CASE x = k
    BY <2>1, <1>1 DEF QueryOK
  <2>2. CASE x # k
    BY <2>2, <1>1 DEF QueryOK, SvIInv
  <2> QED BY <2>1, <2>2
<1>5. ASSUME NEW x \in Clients PROVE SentOK(x)'
  <2>1. CASE x = k
    BY <2>1, <1>1 DEF SentOK, SvIInv, Handed, Untouched
  <2>2. CASE x # k
    BY <2>2, <1>1 DEF SentOK, SvIInv, Handed, Untouched
  <2> QED BY <2>1, <2>2
<1> QED
  BY <1>2, <1>3, <1>4, <1>5 DEF SvIInv

\* What NextTry makes of a query object
LEMMA NextTryIs ==
    ASSUME NEW q \in QueryRec, q.result = "none"
    PROVE  /\ NextTry(q) \in QueryRec /\ NextTry(q).possibly = q.possibly
           /\ NextTry(q).pc \in {"prepare", "done"} /\ NextTry(q).conn = NoTxConn
           /\ NextTry(q).result # "OK"
           /\ NextTry(q).pc = "prepare" => ~NextTry(q).written /\ NextTry(q).result = "none"
<1>1. CASE q.try < Retries
  <2> DEFINE n == q.try + 1
  <2>1. n \in 0 .. Retries
    BY <1>1, Values DEF QueryRec
  <2>2. NextTry(q) = [q EXCEPT !.pc = "prepare", !.try = n, !.conn = NoTxConn, !.written = FALSE]
    BY <1>1 DEF NextTry
  <2> HIDE DEF n
  <2> QED BY <2>1, <2>2 DEF QueryRec
<1>2. CASE ~(q.try < Retries)
  BY <1>2, Values DEF NextTry, QueryRec
<1> QED BY <1>1, <1>2

\* DoSubmitTx up to the connection
LEMMA PrepareKeeps ==
    ASSUME SvIInv, NEW k \in Clients, PrepareQuery(k)
    PROVE  SvIInv'
<1> DEFINE q == [cl[k] EXCEPT !.already = cl[k].possibly]
           ready == [q EXCEPT !.pc = "connect"]
           late == [q EXCEPT !.pc = "done", !.result = "EXPIRED"]
<1>1. cl[k] \in QueryRec /\ cl[k].pc = "prepare" /\ QueryOK(k) /\ UNCHANGED <<svc, jobs, valid, accepts>>
  BY DEF SvIInv, SvTypes, PrepareQuery
<1>2. cl[k].conn = NoTxConn /\ ~cl[k].written /\ ~Handed(k) /\ cl[k].result = "none"
  BY <1>1 DEF QueryOK, Handed
<1>3. q \in QueryRec /\ q.result = "none" /\ q.possibly = cl[k].possibly /\ q.already = cl[k].possibly
      /\ q.conn = NoTxConn /\ ~q.written
  BY <1>1, <1>2 DEF QueryRec
<1>4. CASE cl' = [cl EXCEPT ![k] = ready]
  <2>1. ready \in QueryRec /\ ready.pc = "connect" /\ ready.conn = NoTxConn /\ ~ready.written
        /\ ready.already = ready.possibly /\ ready.possibly = cl[k].possibly /\ ready.result = "none"
    BY <1>3 DEF QueryRec
  <2> HIDE DEF ready
  <2> QED BY <2>1, <1>4, <1>1, <1>2, WalletAlone DEF QueryRec
<1>5. CASE cl' = [cl EXCEPT ![k] = late]
  <2>1. late \in QueryRec /\ late.pc = "done" /\ late.conn = NoTxConn
        /\ late.possibly = cl[k].possibly /\ late.result = "EXPIRED"
    BY <1>3 DEF QueryRec, Replies
  <2> HIDE DEF late
  <2> QED BY <2>1, <1>5, <1>1, <1>2, WalletAlone DEF QueryRec
<1>6. CASE cl' = [cl EXCEPT ![k] = NextTry(q)]
  <2>1. /\ NextTry(q) \in QueryRec /\ NextTry(q).possibly = q.possibly
        /\ NextTry(q).pc \in {"prepare", "done"} /\ NextTry(q).conn = NoTxConn
        /\ NextTry(q).result # "OK"
        /\ NextTry(q).pc = "prepare" => ~NextTry(q).written /\ NextTry(q).result = "none"
    BY <1>3, NextTryIs
  <2> HIDE DEF q
  <2> QED BY <2>1, <1>3, <1>6, <1>1, <1>2, WalletAlone DEF QueryRec
<1> QED
  BY <1>4, <1>5, <1>6 DEF PrepareQuery

\* A try ends without a reply
LEMMA GiveUpKeeps ==
    ASSUME SvIInv, NEW k \in Clients, GiveUp(k)
    PROVE  SvIInv'
<1> DEFINE t == Tried(cl[k])
<1>1. cl[k] \in QueryRec /\ cl[k].pc \in {"connect", "open"} /\ QueryOK(k) /\ UNCHANGED <<svc, jobs, valid, accepts>>
      /\ cl' = [cl EXCEPT ![k] = NextTry(t)]
  BY DEF SvIInv, SvTypes, GiveUp
<1>2. cl[k].result = "none" /\ (Handed(k) => cl[k].written)
  BY <1>1 DEF QueryOK, Handed
<1>3. t \in QueryRec /\ t.result = "none" /\ (t.possibly <=> cl[k].possibly \/ cl[k].written)
  BY <1>1, <1>2 DEF QueryRec, Tried
<1>4. /\ NextTry(t) \in QueryRec /\ NextTry(t).possibly = t.possibly
      /\ NextTry(t).pc \in {"prepare", "done"} /\ NextTry(t).conn = NoTxConn
      /\ NextTry(t).result # "OK"
      /\ NextTry(t).pc = "prepare" => ~NextTry(t).written /\ NextTry(t).result = "none"
  BY <1>3, NextTryIs
<1> HIDE DEF t
<1> QED
  BY <1>1, <1>2, <1>3, <1>4, WalletAlone DEF QueryRec

\* A connection is accepted
LEMMA ConnectKeeps ==
    ASSUME SvIInv, NEW k \in Clients, NEW c \in TxConns, ConnectAndStart(k, c)
    PROVE  SvIInv'
<1> DEFINE q == [cl[k] EXCEPT !.pc = "open", !.conn = c]
           s == [FreeConn(svc[c].use) EXCEPT !.cli = k, !.timer = "idle"]
<1>1. /\ cl[k] \in QueryRec /\ svc[c] \in ConnRec /\ cl[k].pc = "connect" /\ svc[c].cli = NoClient
      /\ cl' = [cl EXCEPT ![k] = q] /\ svc' = [svc EXCEPT ![c] = s]
      /\ jobs' = jobs /\ valid' = valid /\ accepts' \in 0 .. MaxAccepts
  <2>1. cl \in [Clients -> QueryRec] /\ svc \in [TxConns -> ConnRec] /\ accepts \in 0 .. MaxAccepts
    BY DEF SvIInv, SvTypes
  <2>2. accepts' \in 0 .. MaxAccepts
    BY <2>1, Values DEF ConnectAndStart
  <2>3. cl' = [cl EXCEPT ![k].pc = "open", ![k].conn = c] /\ svc' = [svc EXCEPT ![c] = s]
        /\ cl[k].pc = "connect" /\ svc[c].cli = NoClient /\ jobs' = jobs /\ valid' = valid
    BY DEF ConnectAndStart
  <2>4. cl' = [cl EXCEPT ![k] = q]
    BY <2>1, <2>3 DEF QueryRec
  <2> QED BY <2>1, <2>2, <2>3, <2>4
<1>2. q \in QueryRec /\ q.pc = "open" /\ q.conn = c /\ q.written = cl[k].written /\ q.possibly = cl[k].possibly
      /\ q.already = cl[k].already /\ q.result = cl[k].result
  BY <1>1 DEF QueryRec
<1>3. s \in ConnRec /\ s.cli = k /\ s.timer = "idle" /\ s.use = svc[c].use /\ s.id = 0 /\ Unused(s) /\ ~s.arming
      /\ ~s.expired
  BY <1>1 DEF ConnRec, FreeConn, Unused
<1> HIDE DEF q, s
<1>4. /\ cl'[k] = q /\ \A x \in Clients \ {k} : cl'[x] = cl[x]
      /\ svc'[c] = s /\ \A d \in TxConns \ {c} : svc'[d] = svc[d]
  BY <1>1 DEF SvIInv, SvTypes
<1>5. SvTypes'
  BY <1>1, <1>2, <1>3 DEF SvIInv, SvTypes
<1>6. ASSUME NEW d \in TxConns PROVE ConnOK(d)'
  <2>1. CASE d = c
    BY <2>1, <1>1, <1>3, <1>4, Values DEF ConnOK, ConnIs, Unused, ConnRec
  <2>2. CASE d # c
    BY <2>2, <1>1, <1>4 DEF ConnOK, ConnIs, Unused, SvIInv
  <2> QED BY <2>1, <2>2
<1>7. ASSUME NEW j \in jobs PROVE JobOK(j)'
  <2>1. JobOK(j) /\ j \in JobRec /\ ConnOK(c)
    BY DEF SvIInv, SvTypes
  <2>2. CASE j.c = c
    BY <2>1, <2>2, <1>1, <1>3, <1>4, Values DEF ConnOK, ConnIs, JobOK, JobRec, Unused
  <2>3. CASE j.c # c
    BY <2>1, <2>3, <1>1, <1>4 DEF JobOK, JobRec
  <2> QED BY <2>2, <2>3
<1>8. ASSUME NEW x \in Clients PROVE QueryOK(x)'
  <2>1. QueryOK(x) /\ cl[x] \in QueryRec
    BY DEF SvIInv, SvTypes
  <2>2. CASE x = k
    BY <2>1, <2>2, <1>1, <1>2, <1>3, <1>4, Values DEF QueryOK
  <2>3. CASE x # k /\ cl[x].conn = c
    BY <2>1, <2>3, <1>1, <1>3, <1>4 DEF QueryOK
  <2>4. CASE x # k /\ cl[x].conn # c
    BY <2>1, <2>4, <1>1, <1>4, Values DEF QueryOK, QueryRec
  <2> QED BY <2>2, <2>3, <2>4
<1>9. ASSUME NEW x \in Clients PROVE SentOK(x)'
  <2>1. QueryOK(x) /\ SentOK(x) /\ cl[x] \in QueryRec /\ QueryOK(k)
    BY DEF SvIInv, SvTypes
  <2>2. CASE x = k
    BY <2>1, <2>2, <1>1, <1>2, <1>3, <1>4 DEF QueryOK, SentOK, Untouched, Handed, Unused
  <2>3. CASE x # k
    BY <2>1, <2>3, <1>1, <1>3, <1>4, Values DEF QueryOK, SentOK, Untouched, Handed, Unused, QueryRec
  <2> QED BY <2>2, <2>3
<1> QED
  BY <1>1, <1>5, <1>6, <1>7, <1>8, <1>9 DEF SvIInv
\* What a step of the service makes of a connection: within a use the callback_id stays once
\* the transaction is queued, and a message is read once
Continues(o, s) ==
  /\ ConnIs(s) /\ s.cli \in {o.cli, NoClient} /\ o.use <= s.use
  /\ s.use = o.use => s.cli = o.cli /\ (o.queued => s.queued /\ s.id = o.id)
  /\ s.cli # NoClient /\ Unused(o) => Unused(s)
  /\ s.msg => o.msg

\* A step of the service at one connection.  A refusal is given for a message, or when the
\* validation that ended was the only one
LEMMA ConnAlone ==
    ASSUME SvIInv, NEW c \in TxConns, NEW s \in ConnRec, svc' = [svc EXCEPT ![c] = s],
           UNCHANGED <<cl, valid, accepts>>, jobs' \subseteq jobs,
           Continues(svc[c], s),
           s.cli # NoClient /\ s.out \in Refusals =>
             \/ svc[c].out \in Refusals \/ svc[c].msg
             \/ cl[s.cli].possibly \/ cl[s.cli].result = "OK"
             \/ s.cli \notin valid /\ \A j \in jobs' : j.tx # s.cli
    PROVE  SvIInv'
<1>1. /\ cl \in [Clients -> QueryRec] /\ svc \in [TxConns -> ConnRec] /\ jobs \subseteq JobRec
      /\ svc'[c] = s /\ \A d \in TxConns \ {c} : svc'[d] = svc[d]
      /\ cl' = cl /\ valid' = valid /\ accepts' = accepts /\ svc[c] \in ConnRec
  BY DEF SvIInv, SvTypes
<1>s. /\ ConnIs(s) /\ s.cli \in {svc[c].cli, NoClient} /\ svc[c].use <= s.use
      /\ s.use = svc[c].use => s.cli = svc[c].cli /\ (svc[c].queued => s.queued /\ s.id = svc[c].id)
      /\ s.cli # NoClient /\ Unused(svc[c]) => Unused(s)
      /\ s.msg => svc[c].msg
  BY DEF Continues
<1>2. SvTypes'
  BY <1>1 DEF SvIInv, SvTypes
<1>3. ASSUME NEW d \in TxConns PROVE ConnOK(d)'
  <2>1. CASE d # c
    BY <2>1, <1>1 DEF ConnOK, ConnIs, Unused, SvIInv
  <2>2. CASE d = c
    BY <2>2, <1>1, <1>s DEF ConnOK, ConnIs, Unused
  <2> QED BY <2>1, <2>2
<1>4. ASSUME NEW j \in jobs' PROVE JobOK(j)'
  <2>1. JobOK(j) /\ j \in JobRec
    BY <1>1 DEF SvIInv
  <2>2. CASE j.c = c
    BY <2>1, <2>2, <1>1, <1>s DEF JobOK, JobRec, ConnRec
  <2>3. CASE j.c # c
    BY <2>1, <2>3, <1>1 DEF JobOK, JobRec
  <2> QED BY <2>2, <2>3
<1>5. ASSUME NEW x \in Clients PROVE QueryOK(x)'
  <2>1. QueryOK(x) /\ cl[x] \in QueryRec
    BY DEF SvIInv, SvTypes
  <2>2. CASE cl[x].conn = c
    BY <2>1, <2>2, <1>1, <1>s, Values DEF QueryOK
  <2>3. CASE cl[x].conn # c
    BY <2>1, <2>3, <1>1, Values DEF QueryOK, QueryRec
  <2> QED BY <2>2, <2>3
<1>6. ASSUME NEW x \in Clients PROVE SentOK(x)'
  <2>1. QueryOK(x) /\ SentOK(x) /\ cl[x] \in QueryRec
    BY DEF SvIInv, SvTypes
  <2>2. Untouched(x) => Untouched(x)'
    BY <1>1 DEF Untouched
  <2>3. CASE cl[x].conn = c
    <3>1. \A d \in TxConns : svc'[d].cli = x /\ svc'[d].msg => svc[d].cli = x /\ svc[d].msg
      BY <1>1, <1>s, Values DEF ConnRec
    <3>2. svc'[c].cli = x /\ ~cl[x].possibly /\ cl[x].result # "OK" /\ Handed(x)
            /\ (svc'[c].msg \/ svc'[c].out \in Refusals) => Untouched(x)'
      BY <2>1, <2>2, <2>3, <1>1, <1>s, Values DEF SentOK, Untouched
    <3> QED BY <2>1, <2>2, <2>3, <3>1, <3>2, <1>1 DEF SentOK, Handed
  <2>4. CASE cl[x].conn # c
    BY <2>1, <2>2, <2>4, <1>1, <1>s, Values DEF SentOK, Handed, QueryRec, QueryOK
  <2> QED BY <2>3, <2>4
<1> QED
  BY <1>1, <1>2, <1>3, <1>4, <1>5, <1>6 DEF SvIInv

\* A message that is refused
LEMMA RefusedKeeps ==
    ASSUME SvIInv, NEW c \in TxConns, HandleMsgRefused(c)
    PROVE  SvIInv'
<1>1. svc[c] \in ConnRec /\ ConnOK(c) /\ svc[c].msg /\ UNCHANGED <<cl, jobs, valid, accepts>>
      /\ svc \in [TxConns -> ConnRec]
  BY DEF SvIInv, SvTypes, HandleMsgRefused
<1> DEFINE n == svc[c].answers + 1
<1>2. PICK r \in {"ERROR", "INVALID"} : svc' = [svc EXCEPT ![c] = [Reply(@, r) EXCEPT !.msg = FALSE]]
  <2>1. \A check \in DOMAIN Screen : Screen[check] \in {"ERROR", "INVALID"}
    BY DEF Screen
  <2> QED BY <2>1 DEF HandleMsgRefused
<1>n. n \in Nat /\ (svc[c].answers = 0 => n = 1)
  BY <1>1 DEF ConnRec
<1> DEFINE s == [svc[c] EXCEPT !.out = r, !.answers = n, !.msg = FALSE]
<1>3. /\ s \in ConnRec /\ s.cli = svc[c].cli /\ ~s.msg /\ s.use = svc[c].use /\ s.id = svc[c].id
      /\ s.timer = svc[c].timer /\ s.arming = svc[c].arming /\ s.expired = svc[c].expired
      /\ s.queued = svc[c].queued /\ s.out = r /\ s.answers = n
  <2> HIDE DEF n
  <2> QED BY <1>1, <1>n DEF ConnRec, Replies
<1>4. svc' = [svc EXCEPT ![c] = s]
  BY <1>1, <1>2 DEF Reply, ConnRec
<1> HIDE DEF s, n
<1>5. ConnIs(s)
  BY <1>1, <1>n, <1>3, <1>4 DEF ConnOK, ConnIs, ConnRec, Unused
<1>6. Continues(svc[c], s)
  BY <1>1, <1>n, <1>3, <1>5 DEF Continues, ConnRec, Unused, ConnOK, ConnIs
<1>7. s.cli # NoClient /\ s.out \in Refusals => svc[c].out \in Refusals \/ svc[c].msg
  BY <1>1 DEF Refusals, Unused
<1>8. jobs' \subseteq jobs
  BY <1>1
<1> QED
  BY <1>1, <1>3, <1>4, <1>6, <1>7, <1>8, ConnAlone

\* SetValidationTimer
LEMMA SetTimerKeeps ==
    ASSUME SvIInv, NEW c \in TxConns, SetValidationTimer(c)
    PROVE  SvIInv'
<1>1. svc[c] \in ConnRec /\ ConnOK(c) /\ svc[c].arming /\ UNCHANGED <<cl, jobs, valid, accepts>>
      /\ svc \in [TxConns -> ConnRec]
  BY DEF SvIInv, SvTypes, SetValidationTimer
<1> DEFINE s == [svc[c] EXCEPT !.arming = FALSE, !.timer = "validation"]
<1>2. svc' = [svc EXCEPT ![c] = s]
  BY <1>1 DEF SetValidationTimer, ConnRec
<1>3. /\ s \in ConnRec /\ s.cli = svc[c].cli /\ s.msg = svc[c].msg /\ s.use = svc[c].use /\ s.id = svc[c].id
      /\ ~s.arming /\ s.expired = svc[c].expired
      /\ s.queued = svc[c].queued /\ s.out = svc[c].out /\ s.answers = svc[c].answers
  BY <1>1 DEF ConnRec
<1> HIDE DEF s
<1>4. ConnIs(s)
  BY <1>1, <1>2, <1>3 DEF ConnOK, ConnIs, ConnRec, Unused
<1>6. Continues(svc[c], s)
  BY <1>1, <1>3, <1>4 DEF Continues, ConnRec, Unused
<1>7. s.cli # NoClient /\ s.out \in Refusals => svc[c].out \in Refusals \/ svc[c].msg
  BY <1>3 DEF Refusals, Unused
<1>8. jobs' \subseteq jobs
  BY <1>1
<1> QED
  BY <1>1, <1>2, <1>3, <1>6, <1>7, <1>8, ConnAlone

\* The validation timer runs out
LEMMA ExpiresKeeps ==
    ASSUME SvIInv, NEW c \in TxConns, TimerExpires(c)
    PROVE  SvIInv'
<1>1. svc[c] \in ConnRec /\ ConnOK(c) /\ svc[c].timer = "validation" /\ UNCHANGED <<cl, jobs, valid, accepts>>
      /\ svc \in [TxConns -> ConnRec]
  BY DEF SvIInv, SvTypes, TimerExpires
<1> DEFINE s == [svc[c] EXCEPT !.timer = "none", !.expired = TRUE]
<1>2. svc' = [svc EXCEPT ![c] = s]
  BY <1>1 DEF TimerExpires, ConnRec
<1>3. /\ s \in ConnRec /\ s.cli = svc[c].cli /\ s.msg = svc[c].msg /\ s.use = svc[c].use /\ s.id = svc[c].id
      /\ s.arming = svc[c].arming /\ s.expired /\ s.timer = "none"
      /\ s.queued = svc[c].queued /\ s.out = svc[c].out /\ s.answers = svc[c].answers
  BY <1>1 DEF ConnRec
<1> HIDE DEF s
<1>4. ConnIs(s)
  BY <1>1, <1>2, <1>3 DEF ConnOK, ConnIs, ConnRec, Unused
<1>6. Continues(svc[c], s)
  BY <1>1, <1>3, <1>4 DEF Continues, ConnRec, Unused
<1>7. s.cli # NoClient /\ s.out \in Refusals => svc[c].out \in Refusals \/ svc[c].msg
  BY <1>3 DEF Refusals, Unused
<1>8. jobs' \subseteq jobs
  BY <1>1
<1> QED
  BY <1>1, <1>2, <1>3, <1>6, <1>7, <1>8, ConnAlone

\* The timer's handler
LEMMA TimeoutKeeps ==
    ASSUME SvIInv, NEW c \in TxConns, HandleValidationTimeout(c)
    PROVE  SvIInv'
<1> DEFINE n == svc[c].use + 1
           t == [svc[c] EXCEPT !.expired = FALSE, !.use = n]
           m == svc[c].answers + 1
           r == [svc[c] EXCEPT !.expired = FALSE, !.use = n, !.out = "UNKNOWN", !.answers = m]
           s == IF svc[c].id = svc[c].use THEN r ELSE t
<1>1. svc[c] \in ConnRec /\ ConnOK(c) /\ svc[c].expired /\ UNCHANGED <<cl, jobs, valid, accepts>>
      /\ svc \in [TxConns -> ConnRec] /\ n \in Nat /\ n > svc[c].use
      /\ m \in Nat /\ (svc[c].answers = 0 => m = 1)
  BY DEF SvIInv, SvTypes, HandleValidationTimeout, ConnRec
<1> HIDE DEF n, m
<1>2. t.id = svc[c].id /\ Reply(t, "UNKNOWN") = r
  BY <1>1 DEF ConnRec, Reply, m
<1>3. svc' = [svc EXCEPT ![c] = s]
  BY <1>2 DEF HandleValidationTimeout, n
<1>4. /\ s \in ConnRec /\ s.cli = svc[c].cli /\ s.msg = svc[c].msg /\ s.use = n /\ s.id = svc[c].id
      /\ s.timer = svc[c].timer /\ s.arming = svc[c].arming /\ ~s.expired
      /\ s.queued = svc[c].queued
      /\ \/ s.out = "UNKNOWN" /\ s.answers = m /\ svc[c].id = svc[c].use
         \/ s.out = svc[c].out /\ s.answers = svc[c].answers
  <2>1. CASE svc[c].id = svc[c].use
    BY <2>1, <1>1 DEF ConnRec, Replies
  <2>2. CASE svc[c].id # svc[c].use
    BY <2>2, <1>1 DEF ConnRec
  <2> QED BY <2>1, <2>2
<1> HIDE DEF s
<1>5. ConnIs(s)
  BY <1>1, <1>3, <1>4 DEF ConnOK, ConnIs, ConnRec, Unused
<1>6. Continues(svc[c], s)
  BY <1>1, <1>4, <1>5 DEF Continues, ConnRec, Unused, ConnOK, ConnIs
<1>7. s.cli # NoClient /\ s.out \in Refusals => svc[c].out \in Refusals \/ svc[c].msg
  BY <1>4 DEF Refusals, Unused
<1>8. jobs' \subseteq jobs
  BY <1>1
<1> QED
  BY <1>1, <1>3, <1>4, <1>6, <1>7, <1>8, ConnAlone

\* A connection ends without a reply
LEMMA StopKeeps ==
    ASSUME SvIInv, NEW c \in TxConns, StopConnection(c)
    PROVE  SvIInv'
<1> DEFINE n == svc[c].use + 1
           s == FreeConn(n)
<1>1. svc[c] \in ConnRec /\ UNCHANGED <<cl, jobs, valid, accepts>> /\ svc' = [svc EXCEPT ![c] = s]
      /\ svc \in [TxConns -> ConnRec] /\ n \in Nat /\ n > svc[c].use
  BY DEF SvIInv, SvTypes, StopConnection, ConnRec
<1> HIDE DEF n
<1>2. /\ s \in ConnRec /\ s.cli = NoClient /\ s.use = n /\ s.id = 0 /\ s.timer = "none" /\ ~s.arming /\ ~s.expired
      /\ Unused(s)
  BY <1>1 DEF ConnRec, FreeConn, Unused
<1> HIDE DEF s
<1>3. ConnIs(s)
  BY <1>1, <1>2 DEF ConnOK, ConnIs, ConnRec, Unused
<1>6. Continues(svc[c], s)
  BY <1>1, <1>2, <1>3 DEF Continues, ConnRec, Unused
<1>7. s.cli # NoClient /\ s.out \in Refusals => svc[c].out \in Refusals \/ svc[c].msg
  BY <1>2 DEF Refusals, Unused
<1>8. jobs' \subseteq jobs
  BY <1>1
<1> QED
  BY <1>1, <1>2, <1>6, <1>7, <1>8, ConnAlone

\* A wallet writes its message
LEMMA WriteKeeps ==
    ASSUME SvIInv, NEW k \in Clients, StartWrite(k)
    PROVE  SvIInv'
<1> DEFINE c == cl[k].conn
           q == [cl[k] EXCEPT !.written = TRUE]
           s == [svc[c] EXCEPT !.msg = (svc[c].cli = k)]
<1>1. /\ cl \in [Clients -> QueryRec] /\ svc \in [TxConns -> ConnRec] /\ cl[k] \in QueryRec
      /\ cl[k].pc = "open" /\ ~cl[k].written /\ QueryOK(k) /\ SentOK(k)
      /\ jobs' = jobs /\ valid' = valid /\ accepts' = accepts
  BY DEF SvIInv, SvTypes, StartWrite
<1>2. c \in TxConns /\ svc[c] \in ConnRec
  BY <1>1 DEF QueryOK, QueryRec
<1>3. ConnOK(c)
  BY <1>2 DEF SvIInv
<1>4. cl' = [cl EXCEPT ![k] = q] /\ svc' = [svc EXCEPT ![c] = s]
  BY <1>1, <1>2 DEF StartWrite
<1>5. q \in QueryRec /\ q.pc = "open" /\ q.written /\ q.conn = c /\ q.possibly = cl[k].possibly
      /\ q.already = cl[k].already /\ q.result = cl[k].result
  BY <1>1 DEF QueryRec
<1>6. /\ s \in ConnRec /\ s.cli = svc[c].cli /\ (s.msg <=> svc[c].cli = k) /\ s.use = svc[c].use /\ s.id = svc[c].id
      /\ s.timer = svc[c].timer /\ s.arming = svc[c].arming /\ s.expired = svc[c].expired
      /\ s.queued = svc[c].queued /\ s.out = svc[c].out /\ s.answers = svc[c].answers
  BY <1>2 DEF ConnRec
<1> HIDE DEF q, s
<1>7. /\ cl'[k] = q /\ \A x \in Clients \ {k} : cl'[x] = cl[x]
      /\ svc'[c] = s /\ \A d \in TxConns \ {c} : svc'[d] = svc[d]
  BY <1>1, <1>2, <1>4
<1> HIDE DEF c
<1>8. SvTypes'
  BY <1>1, <1>2, <1>4, <1>5, <1>6 DEF SvIInv, SvTypes
<1>9. ASSUME NEW d \in TxConns PROVE ConnOK(d)'
  <2>1. CASE d = c
    <3>1. svc[c].cli = k => Unused(svc[c])
      BY <1>1 DEF QueryOK, c
    <3>2. k # NoClient
      BY Values
    <3> QED BY <2>1, <3>1, <3>2, <1>1, <1>3, <1>6, <1>7 DEF ConnOK, ConnIs, Unused
  <2>2. CASE d # c
    BY <2>2, <1>1, <1>7 DEF ConnOK, ConnIs, Unused, SvIInv
  <2> QED BY <2>1, <2>2
<1>10. ASSUME NEW j \in jobs PROVE JobOK(j)'
  <2>1. JobOK(j) /\ j \in JobRec
    BY DEF SvIInv, SvTypes
  <2>2. CASE j.c = c
    BY <2>1, <2>2, <1>1, <1>6, <1>7 DEF JobOK
  <2>3. CASE j.c # c
    BY <2>1, <2>3, <1>1, <1>7 DEF JobOK, JobRec
  <2> QED BY <2>2, <2>3
<1>11. ASSUME NEW x \in Clients PROVE QueryOK(x)'
  <2>1. QueryOK(x) /\ cl[x] \in QueryRec
    BY DEF SvIInv, SvTypes
  <2>2. CASE x = k
    BY <2>1, <2>2, <1>1, <1>5, <1>7 DEF QueryOK, c
  <2>3. CASE x # k /\ cl[x].conn = c
    BY <2>1, <2>3, <1>1, <1>6, <1>7 DEF QueryOK, Unused
  <2>4. CASE x # k /\ cl[x].conn # c
    BY <2>1, <2>4, <1>1, <1>7, Values DEF QueryOK, QueryRec
  <2> QED BY <2>2, <2>3, <2>4
<1>12. ASSUME NEW x \in Clients PROVE SentOK(x)'
  <2>1. QueryOK(x) /\ SentOK(x) /\ cl[x] \in QueryRec
    BY DEF SvIInv, SvTypes
  <2>2. (Untouched(x)' <=> Untouched(x)) /\ (x # k => (Handed(x)' <=> Handed(x)))
    BY <1>1, <1>7 DEF Untouched, Handed
  <2>3. CASE x = k
    <3>1. Handed(k)' /\ ~Handed(k)
      BY <1>1, <1>5, <1>7 DEF Handed
    <3>2. \A d \in TxConns : svc'[d].cli = k /\ svc'[d].msg => d = c \/ (svc[d].cli = k /\ svc[d].msg)
      BY <1>7
    <3> QED BY <2>1, <2>2, <2>3, <3>1, <3>2, <1>1, <1>5, <1>7 DEF SentOK
  <2>4. CASE x # k
    <3>1. \A d \in TxConns : svc'[d].cli = x /\ svc'[d].msg => svc[d].cli = x /\ svc[d].msg
      BY <2>4, <1>6, <1>7
    <3>2. cl[x].conn \in TxConns /\ svc'[cl[x].conn].cli = x =>
            /\ svc[cl[x].conn].cli = x /\ (svc'[cl[x].conn].msg => svc[cl[x].conn].msg)
            /\ svc'[cl[x].conn].out = svc[cl[x].conn].out
      BY <2>4, <1>6, <1>7
    <3>3. Handed(x) => cl[x].conn \in TxConns
      BY <2>1 DEF QueryOK, Handed, QueryRec
    <3>4. cl'[x] = cl[x]
      BY <2>4, <1>7
    <3> QED BY <2>1, <2>2, <2>4, <3>1, <3>2, <3>3, <3>4, <1>1 DEF SentOK
  <2> QED BY <2>3, <2>4
<1> QED
  BY <1>1, <1>8, <1>9, <1>10, <1>11, <1>12 DEF SvIInv

\* A worker ends a validation
LEMMA ValidatedKeeps ==
    ASSUME SvIInv, NEW j \in jobs, Validated(j)
    PROVE  SvIInv'
<1>1. /\ j \in JobRec /\ jobs \subseteq JobRec /\ valid \subseteq Clients /\ j.res = "none" /\ JobOK(j)
      /\ cl' = cl /\ svc' = svc /\ accepts' = accepts
  BY DEF SvIInv, SvTypes, Validated
<1>2. PICK r \in {"OK", "INVALID", "EXPIRED", "ERROR"} :
        /\ jobs' = (jobs \ {j}) \cup {[j EXCEPT !.res = r]}
        /\ valid' = IF r = "OK" THEN valid \cup {j.tx} ELSE valid
  BY DEF Validated
<1> DEFINE d == [j EXCEPT !.res = r]
<1>3. d \in JobRec /\ d.tx = j.tx /\ d.c = j.c /\ d.id = j.id /\ d.res = r
  BY <1>1, <1>2 DEF JobRec, Replies
<1>4. jobs' = (jobs \ {j}) \cup {d}
  BY <1>2
<1> HIDE DEF d
<1>5. /\ valid \subseteq valid' /\ valid' \subseteq valid \cup {j.tx} /\ (r = "OK" => j.tx \in valid')
      /\ (r # "OK" => valid' = valid)
  BY <1>2
<1>6. SvTypes'
  BY <1>1, <1>3, <1>4, <1>5 DEF SvIInv, SvTypes, JobRec
<1>7. ASSUME NEW c \in TxConns PROVE ConnOK(c)'
  BY <1>1, <1>5 DEF SvIInv, ConnOK, ConnIs, Unused
<1>8. ASSUME NEW i \in jobs' PROVE JobOK(i)'
  <2>1. CASE i = d
    BY <2>1, <1>1, <1>3, <1>5 DEF JobOK
  <2>2. CASE i \in jobs
    BY <2>2, <1>1, <1>5 DEF JobOK, SvIInv
  <2> QED BY <2>1, <2>2, <1>4
<1>9. ASSUME NEW x \in Clients PROVE QueryOK(x)'
  BY <1>1, <1>5 DEF SvIInv, QueryOK, Unused
<1>10. ASSUME NEW x \in Clients PROVE SentOK(x)'
  <2>1. SentOK(x)
    BY DEF SvIInv
  <2>2. CASE x = j.tx
    <3>1. ~Untouched(x)
      BY <2>2 DEF Untouched
    <3>2. SUFFICES ASSUME ~cl[x].possibly, cl[x].result # "OK"
                   PROVE  SentOK(x)'
      BY <1>1 DEF SentOK
    <3>3. \A i \in jobs : i.tx = x => i = j
      BY <2>1, <2>2, <3>2 DEF SentOK
    <3>4. \A i \in jobs' : i.tx = x => i = d
      BY <3>3, <1>4
    <3>5. x \in valid => x \notin valid'
      BY <2>1, <2>2, <3>2, <1>1 DEF SentOK
    <3>6. x \in valid' => d.res = "OK"
      BY <3>5, <1>3, <1>5
    <3> QED BY <2>1, <3>1, <3>2, <3>4, <3>6, <1>1 DEF SentOK, Handed
  <2>3. CASE x # j.tx
    <3>1. \A i \in jobs' : i.tx = x => i \in jobs
      BY <2>3, <1>3, <1>4
    <3>2. x \in valid' => x \in valid
      BY <2>3, <1>5
    <3>3. Untouched(x) => Untouched(x)'
      BY <3>1, <3>2 DEF Untouched
    <3> QED BY <2>1, <3>1, <3>2, <3>3, <1>1 DEF SentOK, Handed
  <2> QED BY <2>2, <2>3
<1> QED
  BY <1>6, <1>7, <1>8, <1>9, <1>10 DEF SvIInv

\* The worker's callback
LEMMA DoneKeeps ==
    ASSUME SvIInv, NEW j \in jobs, HandleValidateDone(j)
    PROVE  SvIInv'
<1> DEFINE c == j.c
           n == svc[c].use + 1
           m == svc[c].answers + 1
           t == [svc[c] EXCEPT !.use = n]
           r == [svc[c] EXCEPT !.use = n, !.out = j.res, !.answers = m, !.timer = "idle"]
<1>1. /\ j \in JobRec /\ c \in TxConns /\ j.res # "none" /\ JobOK(j) /\ svc \in [TxConns -> ConnRec]
      /\ jobs' = jobs \ {j} /\ jobs' \subseteq jobs /\ UNCHANGED <<cl, valid, accepts>>
  BY DEF SvIInv, SvTypes, HandleValidateDone, JobRec
<1>2. svc[c] \in ConnRec /\ ConnOK(c)
  BY <1>1 DEF SvIInv
<1>3. n \in Nat /\ n > svc[c].use /\ m \in Nat /\ (svc[c].answers = 0 => m = 1)
  BY <1>2 DEF ConnRec
<1>4. CASE svc[c].cli = NoClient
  <2>1. svc' = [svc EXCEPT ![c] = svc[c]]
    BY <1>1, <1>4 DEF HandleValidateDone
  <2>2. Continues(svc[c], svc[c])
    BY <1>2 DEF Continues, ConnOK, ConnRec
  <2> QED BY <1>1, <1>2, <1>4, <2>1, <2>2, ConnAlone
<1>5. CASE svc[c].cli # NoClient /\ j.id # svc[c].use
  <2>1. svc' = [svc EXCEPT ![c] = t]
    BY <1>1, <1>5 DEF HandleValidateDone
  <2> HIDE DEF n, m
  <2>2. /\ t \in ConnRec /\ t.cli = svc[c].cli /\ t.msg = svc[c].msg /\ t.use = n /\ t.id = svc[c].id
        /\ t.timer = svc[c].timer /\ t.arming = svc[c].arming /\ t.expired = svc[c].expired
        /\ t.queued = svc[c].queued /\ t.out = svc[c].out /\ t.answers = svc[c].answers
    BY <1>2, <1>3 DEF ConnRec
  <2> HIDE DEF t, c
  <2>3. ConnIs(t)
    BY <1>2, <1>3, <2>2 DEF ConnOK, ConnIs, ConnRec, Unused
  <2>4. Continues(svc[c], t)
    BY <1>2, <1>3, <2>2, <2>3 DEF Continues, ConnRec, Unused
  <2>5. t.cli # NoClient /\ t.out \in Refusals => svc[c].out \in Refusals \/ svc[c].msg
    BY <2>2
  <2> QED BY <1>1, <2>1, <2>2, <2>4, <2>5, ConnAlone
<1>6. CASE svc[c].cli # NoClient /\ j.id = svc[c].use
  <2>1. SendValidateResult(t, j.res) = r
    BY <1>2 DEF SendValidateResult, Reply, ConnRec
  <2>2. svc' = [svc EXCEPT ![c] = r]
    BY <1>1, <1>6, <2>1 DEF HandleValidateDone
  <2> HIDE DEF n, m
  <2>3. /\ r \in ConnRec /\ r.cli = svc[c].cli /\ r.msg = svc[c].msg /\ r.use = n /\ r.id = svc[c].id
        /\ r.timer = "idle" /\ r.arming = svc[c].arming /\ r.expired = svc[c].expired
        /\ r.queued = svc[c].queued /\ r.out = j.res /\ r.answers = m
    BY <1>1, <1>2, <1>3 DEF ConnRec, JobRec, Replies
  <2> HIDE DEF r
  <2>4. svc[c].cli = j.tx /\ svc[c].queued /\ svc[c].id = svc[c].use /\ (j.res = "OK" => j.tx \in valid)
    BY <1>1, <1>6 DEF JobOK
  <2>5. m = 1 /\ ~svc[c].msg
    BY <1>2, <1>3, <2>4 DEF ConnOK, ConnIs
  <2> HIDE DEF c
  <2>6. ConnIs(r)
    BY <1>2, <1>3, <1>6, <2>3, <2>4, <2>5 DEF ConnOK, ConnIs, ConnRec, Unused
  <2>7. Continues(svc[c], r)
    BY <1>2, <1>3, <2>3, <2>4, <2>6 DEF Continues, ConnRec, Unused
  <2>8. r.cli # NoClient /\ r.out \in Refusals =>
          \/ cl[r.cli].possibly \/ cl[r.cli].result = "OK"
          \/ r.cli \notin valid /\ \A i \in jobs' : i.tx # r.cli
    <3>1. r.cli = j.tx /\ j.tx \in Clients /\ r.out = j.res
      BY <1>1, <2>3, <2>4 DEF JobRec
    <3>2. SentOK(j.tx)
      BY <3>1 DEF SvIInv
    <3> QED BY <3>1, <3>2, <1>1 DEF SentOK, Refusals
  <2> QED BY <1>1, <2>2, <2>3, <2>7, <2>8, ConnAlone
<1> QED BY <1>4, <1>5, <1>6

\* HandleTx queues a transaction that was not waiting already
LEMMA QueuedKeeps ==
    ASSUME SvIInv, NEW c \in TxConns, NEW s \in ConnRec, NEW d \in JobRec,
           svc' = [svc EXCEPT ![c] = s], jobs' = jobs \cup {d}, UNCHANGED <<cl, valid, accepts>>,
           svc[c].msg, svc[c].cli \in Clients, svc[c].cli \notin valid, ConnIs(s),
           s.cli = svc[c].cli, s.use = svc[c].use, ~s.msg, s.out = "none", s.queued, s.id = s.use,
           d.tx = svc[c].cli, d.c = c, d.id = s.use, d.res = "none"
    PROVE  SvIInv'
<1>1. /\ cl \in [Clients -> QueryRec] /\ svc \in [TxConns -> ConnRec] /\ jobs \subseteq JobRec
      /\ svc'[c] = s /\ \A e \in TxConns \ {c} : svc'[e] = svc[e]
      /\ cl' = cl /\ valid' = valid /\ accepts' = accepts /\ svc[c] \in ConnRec /\ ConnOK(c)
  BY DEF SvIInv, SvTypes
<1>2. SvTypes'
  BY <1>1 DEF SvIInv, SvTypes
<1>3. ASSUME NEW e \in TxConns PROVE ConnOK(e)'
  <2>1. CASE e # c
    BY <2>1, <1>1 DEF ConnOK, ConnIs, Unused, SvIInv
  <2>2. CASE e = c
    BY <2>2, <1>1 DEF ConnOK, ConnIs, Unused
  <2> QED BY <2>1, <2>2
<1>4. ASSUME NEW j \in jobs' PROVE JobOK(j)'
  <2>1. CASE j = d
    BY <2>1, <1>1 DEF JobOK, ConnRec
  <2>2. CASE j \in jobs
    <3>1. JobOK(j) /\ j \in JobRec
      BY <2>2, <1>1 DEF SvIInv
    <3>2. CASE j.c = c
      BY <3>1, <3>2, <1>1 DEF JobOK, ConnOK, ConnIs
    <3>3. CASE j.c # c
      BY <3>1, <3>3, <1>1 DEF JobOK, JobRec
    <3> QED BY <3>2, <3>3
  <2> QED BY <2>1, <2>2
<1>5. ASSUME NEW x \in Clients PROVE QueryOK(x)'
  <2>1. QueryOK(x) /\ cl[x] \in QueryRec
    BY DEF SvIInv, SvTypes
  <2>2. CASE cl[x].conn = c
    BY <2>1, <2>2, <1>1 DEF QueryOK, Unused
  <2>3. CASE cl[x].conn # c
    BY <2>1, <2>3, <1>1, Values DEF QueryOK, QueryRec
  <2> QED BY <2>2, <2>3
<1>6. ASSUME NEW x \in Clients PROVE SentOK(x)'
  <2>1. QueryOK(x) /\ SentOK(x) /\ cl[x] \in QueryRec
    BY DEF SvIInv, SvTypes
  <2>2. \A e \in TxConns : svc'[e].cli = x /\ svc'[e].msg => svc[e].cli = x /\ svc[e].msg
    BY <1>1
  <2>3. SUFFICES ASSUME ~cl[x].possibly, cl[x].result # "OK"
                 PROVE  SentOK(x)'
    BY <1>1 DEF SentOK
  <2>4. CASE x = svc[c].cli
    <3>1. Handed(x) /\ cl[x].conn = c
      BY <2>1, <2>3, <2>4, <1>1 DEF SentOK
    <3>2. Untouched(x)
      BY <2>1, <2>3, <2>4, <3>1 DEF SentOK
    <3>3. \A j \in jobs' : j.tx = x => j = d
      BY <3>2 DEF Untouched
    <3>4. Handed(x)' /\ x \notin valid'
      BY <3>1, <3>2, <1>1 DEF Handed, Untouched
    <3>5. ~svc'[cl'[x].conn].msg /\ svc'[cl'[x].conn].out \notin Refusals
      BY <3>1, <1>1 DEF Refusals
    <3> QED BY <2>1, <2>2, <2>3, <3>1, <3>3, <3>4, <3>5, <1>1 DEF SentOK
  <2>5. CASE x # svc[c].cli
    <3>1. \A j \in jobs' : j.tx = x => j \in jobs
      BY <2>5
    <3>2. (Untouched(x) => Untouched(x)') /\ (Handed(x)' <=> Handed(x))
      BY <3>1, <1>1 DEF Untouched, Handed
    <3>3. Handed(x) => cl[x].conn \in TxConns
      BY <2>1 DEF QueryOK, Handed, QueryRec
    <3>4. cl[x].conn \in TxConns /\ svc'[cl[x].conn].cli = x => svc'[cl[x].conn] = svc[cl[x].conn]
      BY <2>5, <1>1
    <3> QED BY <2>1, <2>2, <2>3, <3>1, <3>2, <3>3, <3>4, <1>1 DEF SentOK
  <2> QED BY <2>4, <2>5
<1> QED
  BY <1>2, <1>3, <1>4, <1>5, <1>6 DEF SvIInv

\* HandleTx: refuse, answer at once, or queue
LEMMA HandleTxKeeps ==
    ASSUME SvIInv, NEW c \in TxConns, HandleTx(c)
    PROVE  SvIInv'
<1> DEFINE m == svc[c].answers + 1
           a == [svc[c] EXCEPT !.msg = FALSE, !.timer = "none"]
           refuse == [svc[c] EXCEPT !.msg = FALSE, !.timer = "none", !.out = "ERROR", !.answers = m]
           known == [svc[c] EXCEPT !.msg = FALSE, !.timer = "idle", !.out = "OK", !.answers = m]
           queue == [svc[c] EXCEPT !.msg = FALSE, !.timer = "none", !.arming = TRUE, !.queued = TRUE, !.id = svc[c].use]
           d == [tx |-> svc[c].cli, c |-> c, id |-> svc[c].use, res |-> "none"]
<1>1. /\ svc[c] \in ConnRec /\ ConnOK(c) /\ svc[c].msg /\ UNCHANGED <<cl, valid, accepts>>
      /\ svc \in [TxConns -> ConnRec]
  BY DEF SvIInv, SvTypes, HandleTx
<1>2. ~svc[c].queued /\ ~svc[c].arming /\ ~svc[c].expired /\ svc[c].out = "none" /\ svc[c].answers = 0
      /\ svc[c].cli \in Clients /\ svc[c].timer # "validation"
  BY <1>1 DEF ConnOK, ConnIs, ConnRec, Unused
<1>3. m = 1
  BY <1>2
<1>4. /\ a.use = svc[c].use /\ Reply(a, "ERROR") = refuse /\ SendValidateResult(a, "OK") = known
      /\ [a EXCEPT !.arming = TRUE, !.queued = TRUE, !.id = a.use] = queue
      /\ [tx |-> svc[c].cli, c |-> c, id |-> a.use, res |-> "none"] = d
  BY <1>1 DEF ConnRec, Reply, SendValidateResult
<1>5. \/ svc' = [svc EXCEPT ![c] = refuse] /\ jobs' = jobs
      \/ svc[c].cli \in valid /\ svc' = [svc EXCEPT ![c] = known] /\ jobs' = jobs
      \/ svc[c].cli \notin valid /\ svc' = [svc EXCEPT ![c] = queue] /\ (jobs' = jobs \/ jobs' = jobs \cup {d})
  BY <1>4 DEF HandleTx
<1> HIDE DEF m
<1>6. CASE svc' = [svc EXCEPT ![c] = refuse] /\ jobs' = jobs
  <2>1. /\ refuse \in ConnRec /\ refuse.cli = svc[c].cli /\ ~refuse.msg /\ refuse.use = svc[c].use
        /\ refuse.id = svc[c].id /\ refuse.timer = "none" /\ ~refuse.arming /\ ~refuse.expired
        /\ ~refuse.queued /\ refuse.out = "ERROR" /\ refuse.answers = 1
    BY <1>1, <1>2, <1>3 DEF ConnRec, Replies
  <2> HIDE DEF refuse
  <2>2. ConnIs(refuse)
    BY <1>1, <1>2, <2>1, Values DEF ConnOK, ConnIs, ConnRec
  <2>3. Continues(svc[c], refuse)
    BY <1>1, <1>2, <2>1, <2>2 DEF Continues, ConnRec, Unused
  <2> QED BY <1>1, <1>6, <2>1, <2>3, ConnAlone
<1>7. CASE svc[c].cli \in valid /\ svc' = [svc EXCEPT ![c] = known] /\ jobs' = jobs
  <2>1. /\ known \in ConnRec /\ known.cli = svc[c].cli /\ ~known.msg /\ known.use = svc[c].use
        /\ known.id = svc[c].id /\ known.timer = "idle" /\ ~known.arming /\ ~known.expired
        /\ ~known.queued /\ known.out = "OK" /\ known.answers = 1
    BY <1>1, <1>2, <1>3 DEF ConnRec, Replies
  <2> HIDE DEF known
  <2>2. ConnIs(known)
    BY <1>1, <1>2, <1>7, <2>1, Values DEF ConnOK, ConnIs, ConnRec
  <2>3. Continues(svc[c], known)
    BY <1>1, <1>2, <2>1, <2>2 DEF Continues, ConnRec, Unused
  <2> QED BY <1>1, <1>7, <2>1, <2>3, ConnAlone
<1>8. CASE svc[c].cli \notin valid /\ svc' = [svc EXCEPT ![c] = queue]
  <2>1. /\ queue \in ConnRec /\ queue.cli = svc[c].cli /\ ~queue.msg /\ queue.use = svc[c].use
        /\ queue.id = svc[c].use /\ queue.timer = "none" /\ queue.arming /\ ~queue.expired
        /\ queue.queued /\ queue.out = "none" /\ queue.answers = 0
    BY <1>1, <1>2 DEF ConnRec
  <2>2. d \in JobRec /\ d.tx = svc[c].cli /\ d.c = c /\ d.id = svc[c].use /\ d.res = "none"
    BY <1>1, <1>2 DEF ConnRec, JobRec
  <2> HIDE DEF queue, d
  <2>3. ConnIs(queue)
    BY <1>1, <1>2, <2>1, Values DEF ConnIs, ConnRec
  <2>4. CASE jobs' = jobs
    <3>1. Continues(svc[c], queue)
      BY <1>1, <1>2, <2>1, <2>3 DEF Continues, ConnRec, Unused
    <3>2. queue.cli # NoClient /\ queue.out \in Refusals => svc[c].msg
      BY <1>1
    <3>3. jobs' \subseteq jobs
      BY <2>4
    <3> QED BY <1>1, <1>8, <2>1, <3>1, <3>2, <3>3, ConnAlone
  <2>5. CASE jobs' = jobs \cup {d}
    BY <1>1, <1>2, <1>8, <2>1, <2>2, <2>3, <2>5, QueuedKeeps
  <2> QED BY <2>4, <2>5, <1>5, <1>8, <1>1, <2>1, <2>2
<1> QED BY <1>5, <1>6, <1>7, <1>8

\* What DoSubmitTx makes of a reply
LEMMA AfterReplyIs ==
    ASSUME NEW q \in QueryRec, NEW r \in Replies
    PROVE  /\ AfterReply(q, r) \in QueryRec /\ AfterReply(q, r).pc = "done" /\ AfterReply(q, r).conn = NoTxConn
           /\ AfterReply(q, r).result = r
           /\ r = "UNKNOWN" => AfterReply(q, r).possibly
           /\ r \in Refusals => AfterReply(q, r).possibly = q.already
<1> DEFINE b == q.possibly \/ q.written
           t == [q EXCEPT !.possibly = b]
<1>1. Tried(q) = t /\ b \in BOOLEAN
  BY DEF Tried, QueryRec
<1> HIDE DEF b
<1>2. t \in QueryRec
  BY <1>1 DEF QueryRec
<1> HIDE DEF t
<1>3. CASE r = "UNKNOWN"
  BY <1>1, <1>2, <1>3 DEF AfterReply, QueryRec, Refusals, Replies
<1>4. CASE r = "OK"
  BY <1>1, <1>2, <1>4 DEF AfterReply, QueryRec, Refusals, Replies
<1>5. CASE r \in Refusals
  <2>1. AfterReply(q, r) = [t EXCEPT !.pc = "done", !.possibly = q.already, !.result = r, !.conn = NoTxConn]
    BY <1>1, <1>5 DEF AfterReply, Refusals
  <2> QED BY <2>1, <1>2, <1>5 DEF QueryRec, Refusals, Replies
<1> QED BY <1>3, <1>4, <1>5 DEF Refusals, Replies

\* The reply is written, and the wallet reads it if it is still there
LEMMA WriteDoneKeeps ==
    ASSUME SvIInv, NEW c \in TxConns, WriteDone(c)
    PROVE  SvIInv'
<1> DEFINE n == svc[c].use + 1
           s == FreeConn(n)
           k == svc[c].cli
           q == AfterReply(cl[k], svc[c].out)
<1>1. /\ cl \in [Clients -> QueryRec] /\ svc \in [TxConns -> ConnRec] /\ svc[c] \in ConnRec /\ ConnOK(c)
      /\ svc[c].out # "none" /\ jobs' = jobs /\ valid' = valid /\ accepts' = accepts
      /\ svc' = [svc EXCEPT ![c] = s] /\ n \in Nat /\ n > svc[c].use
      /\ cl' = IF cl[k].conn = c THEN [cl EXCEPT ![k] = q] ELSE cl
  BY DEF SvIInv, SvTypes, WriteDone, ConnRec
<1> HIDE DEF n
<1>2. /\ s \in ConnRec /\ s.cli = NoClient /\ s.use = n /\ s.id = 0 /\ s.timer = "none" /\ ~s.arming /\ ~s.expired
      /\ Unused(s)
  BY <1>1 DEF ConnRec, FreeConn, Unused
<1>3. k \in Clients /\ svc[c].out \in Replies /\ ~svc[c].msg
  BY <1>1 DEF ConnOK, ConnIs, Unused, ConnRec
<1> HIDE DEF s
<1>4. ConnIs(s)
  BY <1>1, <1>2 DEF ConnIs, ConnRec, Unused
<1>5. CASE cl[k].conn # c
  <2>1. Continues(svc[c], s)
    BY <1>1, <1>2, <1>4 DEF Continues, ConnRec, Unused
  <2>2. cl' = cl /\ jobs' \subseteq jobs
    BY <1>1, <1>5
  <2> QED BY <1>1, <1>2, <2>1, <2>2, ConnAlone
<1>6. CASE cl[k].conn = c
  <2>1. cl[k] \in QueryRec /\ QueryOK(k) /\ SentOK(k) /\ c # NoTxConn
    BY <1>1, <1>3, Values DEF SvIInv
  <2>2. cl[k].pc = "open" /\ cl[k].already = cl[k].possibly /\ cl[k].result = "none"
    BY <1>6, <2>1 DEF QueryOK
  <2>3. cl[k].written
    BY <1>1, <1>6, <2>1, <2>2 DEF QueryOK, Unused
  <2>4. Handed(k)
    BY <2>2, <2>3 DEF Handed
  <2>5. q \in QueryRec /\ q.pc = "done" /\ q.conn = NoTxConn /\ q.result = svc[c].out
        /\ (svc[c].out = "UNKNOWN" => q.possibly)
        /\ (svc[c].out \in Refusals => q.possibly = cl[k].already)
    BY <1>3, <2>1, AfterReplyIs
  <2> HIDE DEF q
  <2>6. svc[c].out = "OK" => k \in valid
    BY <1>1 DEF ConnOK, ConnIs
  <2>7. ~q.possibly /\ q.result # "OK" =>
          Untouched(k) /\ ~cl[k].possibly /\ \A d \in TxConns : svc[d].cli = k /\ svc[d].msg => d = c
    <3> SUFFICES ASSUME ~q.possibly, q.result # "OK"
                 PROVE  Untouched(k) /\ ~cl[k].possibly /\ \A d \in TxConns : svc[d].cli = k /\ svc[d].msg => d = c
      OBVIOUS
    <3>1. svc[c].out \in Refusals
      BY <1>3, <2>5 DEF Replies, Refusals
    <3>2. ~cl[k].possibly /\ cl[k].result # "OK"
      BY <2>2, <2>5, <3>1
    <3> QED BY <1>6, <2>1, <2>4, <3>1, <3>2 DEF SentOK
  <2> HIDE DEF k
  <2>8. /\ cl' = [cl EXCEPT ![k] = q] /\ cl'[k] = q /\ \A x \in Clients \ {k} : cl'[x] = cl[x]
        /\ svc'[c] = s /\ \A d \in TxConns \ {c} : svc'[d] = svc[d]
    BY <1>1, <1>3, <1>6
  <2>9. SvTypes'
    BY <1>1, <1>2, <2>5, <2>8 DEF SvIInv, SvTypes
  <2>10. ASSUME NEW d \in TxConns PROVE ConnOK(d)'
    <3>1. CASE d # c
      BY <3>1, <1>1, <2>8 DEF ConnOK, ConnIs, Unused, SvIInv
    <3>2. CASE d = c
      BY <3>2, <1>1, <1>4, <2>8 DEF ConnOK, ConnIs, Unused
    <3> QED BY <3>1, <3>2
  <2>11. ASSUME NEW j \in jobs PROVE JobOK(j)'
    <3>1. JobOK(j) /\ j \in JobRec
      BY DEF SvIInv, SvTypes
    <3>2. CASE j.c = c
      BY <3>1, <3>2, <1>1, <1>2, <2>8 DEF JobOK, JobRec, ConnRec
    <3>3. CASE j.c # c
      BY <3>1, <3>3, <1>1, <2>8 DEF JobOK, JobRec
    <3> QED BY <3>2, <3>3
  <2>12. ASSUME NEW x \in Clients PROVE QueryOK(x)'
    <3>1. QueryOK(x) /\ cl[x] \in QueryRec
      BY DEF SvIInv, SvTypes
    <3>2. CASE x = k
      BY <3>2, <1>1, <2>5, <2>6, <2>8 DEF QueryOK
    <3>3. CASE x # k /\ cl[x].conn = c
      BY <3>1, <3>3, <1>1, <1>2, <2>8, Values DEF QueryOK
    <3>4. CASE x # k /\ cl[x].conn # c
      BY <3>1, <3>4, <1>1, <2>8 DEF QueryOK, QueryRec
    <3> QED BY <3>2, <3>3, <3>4
  <2>13. ASSUME NEW x \in Clients PROVE SentOK(x)'
    <3>1. SentOK(x) /\ QueryOK(x) /\ cl[x] \in QueryRec
      BY DEF SvIInv, SvTypes
    <3>2. Untouched(x)' <=> Untouched(x)
      BY <1>1 DEF Untouched
    <3>3. \A d \in TxConns : svc'[d].cli = x /\ svc'[d].msg => d # c /\ svc[d].cli = x /\ svc[d].msg
      BY <1>2, <2>8, Values DEF Unused
    <3>4. CASE x = k
      <4>1. ~Handed(x)'
        BY <3>4, <2>5, <2>8 DEF Handed
      <4>2. ~q.possibly /\ q.result # "OK" => (\A i, j \in jobs : i.tx = x /\ j.tx = x => i = j)
              /\ (\A j \in jobs : j.tx # x)
        BY <3>4, <2>7 DEF Untouched
      <4> QED BY <3>2, <3>3, <3>4, <4>1, <4>2, <1>1, <2>7, <2>8 DEF SentOK
    <3>5. CASE x # k
      <4>1. cl'[x] = cl[x] /\ (Handed(x)' <=> Handed(x))
        BY <3>5, <2>8 DEF Handed
      <4>2. Handed(x) => cl[x].conn \in TxConns
        BY <3>1 DEF QueryOK, Handed, QueryRec
      <4>3. cl[x].conn \in TxConns /\ svc'[cl[x].conn].cli = x => svc'[cl[x].conn] = svc[cl[x].conn]
        BY <1>2, <2>8, Values
      <4> QED BY <3>1, <3>2, <3>3, <4>1, <4>2, <4>3, <1>1 DEF SentOK
    <3> QED BY <3>4, <3>5
  <2> QED
    BY <1>1, <2>9, <2>10, <2>11, <2>12, <2>13 DEF SvIInv
<1> QED BY <1>5, <1>6

-----------------------------------------------------------------------------
\* Every step keeps the invariant
LEMMA SvStep == SvIInv /\ [SvcNext]_svcVars => SvIInv'
<1> SUFFICES ASSUME SvIInv, [SvcNext]_svcVars PROVE SvIInv'
  OBVIOUS
<1>1. CASE UNCHANGED svcVars
  BY <1>1 DEF svcVars, SvIInv, SvTypes, ConnOK, ConnIs, JobOK, QueryOK, SentOK, Unused, Untouched, Handed
<1>2. ASSUME NEW k \in Clients, PrepareQuery(k) PROVE SvIInv'
  BY <1>2, PrepareKeeps
<1>3. ASSUME NEW k \in Clients, StartWrite(k) PROVE SvIInv'
  BY <1>3, WriteKeeps
<1>4. ASSUME NEW k \in Clients, GiveUp(k) PROVE SvIInv'
  BY <1>4, GiveUpKeeps
<1>5. ASSUME NEW k \in Clients, NEW c \in TxConns, ConnectAndStart(k, c) PROVE SvIInv'
  BY <1>5, ConnectKeeps
<1>6. ASSUME NEW c \in TxConns, HandleMsgRefused(c) PROVE SvIInv'
  BY <1>6, RefusedKeeps
<1>7. ASSUME NEW c \in TxConns, HandleTx(c) PROVE SvIInv'
  BY <1>7, HandleTxKeeps
<1>8. ASSUME NEW c \in TxConns, SetValidationTimer(c) PROVE SvIInv'
  BY <1>8, SetTimerKeeps
<1>9. ASSUME NEW c \in TxConns, TimerExpires(c) PROVE SvIInv'
  BY <1>9, ExpiresKeeps
<1>10. ASSUME NEW c \in TxConns, HandleValidationTimeout(c) PROVE SvIInv'
  BY <1>10, TimeoutKeeps
<1>11. ASSUME NEW c \in TxConns, WriteDone(c) PROVE SvIInv'
  BY <1>11, WriteDoneKeeps
<1>12. ASSUME NEW c \in TxConns, StopConnection(c) PROVE SvIInv'
  BY <1>12, StopKeeps
<1>13. ASSUME NEW j \in jobs, Validated(j) PROVE SvIInv'
  BY <1>13, ValidatedKeeps
<1>14. ASSUME NEW j \in jobs, HandleValidateDone(j) PROVE SvIInv'
  BY <1>14, DoneKeeps
<1> QED
  BY <1>1, <1>2, <1>3, <1>4, <1>5, <1>6, <1>7, <1>8, <1>9, <1>10, <1>11, <1>12, <1>13, <1>14 DEF SvcNext

\* The inductive invariant gives the properties
LEMMA SvGives == SvIInv => SvcInv
<1> SUFFICES ASSUME SvIInv PROVE SvcInv
  OBVIOUS
<1>1. SvcTypeOK
  <2>1. ASSUME NEW k \in Clients
        PROVE  /\ cl[k].pc \in {"prepare", "connect", "open", "done"} /\ cl[k].try \in 0..Retries
               /\ cl[k].conn \in TxConns \cup {NoTxConn} /\ cl[k].result \in Replies \cup {"none"}
               /\ {cl[k].written, cl[k].possibly, cl[k].already} \subseteq BOOLEAN
    <3>1. cl[k] \in QueryRec
      BY DEF SvIInv, SvTypes
    <3> QED BY <3>1 DEF QueryRec
  <2>2. ASSUME NEW c \in TxConns
        PROVE  /\ svc[c].cli \in Clients \cup {NoClient} /\ svc[c].timer \in {"none", "idle", "validation"}
               /\ svc[c].use \in Nat /\ svc[c].id <= svc[c].use /\ svc[c].out \in Replies \cup {"none"}
               /\ {svc[c].msg, svc[c].arming, svc[c].expired, svc[c].queued} \subseteq BOOLEAN
    <3>1. svc[c] \in ConnRec /\ ConnOK(c)
      BY DEF SvIInv, SvTypes
    <3>2. svc[c].id <= svc[c].use
      BY <3>1 DEF ConnOK, ConnIs
    <3> QED BY <3>1, <3>2 DEF ConnRec
  <2>3. ASSUME NEW j \in jobs
        PROVE  j.tx \in Clients /\ j.id <= svc[j.c].use /\ j.res \in Replies \cup {"none"}
    <3>1. j \in JobRec /\ JobOK(j)
      BY DEF SvIInv, SvTypes
    <3> QED BY <3>1 DEF JobRec, JobOK
  <2>4. valid \subseteq Clients /\ accepts \in 0 .. MaxAccepts
    BY DEF SvIInv, SvTypes
  <2> QED BY <2>1, <2>2, <2>3, <2>4 DEF SvcTypeOK
<1>2. OwnAnswer
  BY DEF SvIInv, QueryOK, OwnAnswer
<1>3. NotSentIsTrue
  BY DEF SvIInv, SentOK, Handed, Untouched, NotSentIsTrue
<1>4. AnsweredOnce
  BY DEF SvIInv, ConnOK, ConnIs, AnsweredOnce
<1> QED
  BY <1>1, <1>2, <1>3, <1>4 DEF SvcInv

\* A submission gets its own answer, and one only, although callbacks and timers outlive the
\* use of the connection they belong to; and a wallet that believes after all its tries that
\* its transaction was not sent is right (TransactConnection::HandleValidateDone,
\* HandleValidationTimeout, TxQuery::SubmitTx).
THEOREM TxServiceCorrect == SvcSpec => []SvcInv
<1>1. SvcInit => SvIInv
  BY SvInit
<1>2. SvIInv /\ [SvcNext]_svcVars => SvIInv'
  BY SvStep
<1>3. SvIInv => SvcInv
  BY SvGives
<1> QED
  BY <1>1, <1>2, <1>3, PTL DEF SvcSpec

-----------------------------------------------------------------------------
(* The validation of a transaction (TxValidate).                             *)

Kinds == {"pay", "sell", "buy", "xpay", "mint"}
AnyInput == {"a", "b", "p1", "p2"}
AnySerial == AnyInput \cup Ids \cup {"address"}
Faults == {"wire", "header", "outputs", "inputs", "xtx", "xpay", "xreq", "terms", "donation", "work", "proof"}
FailureCodes == {"BINARY_DATA_INVALID", "OPTION_NOT_SUPPORTED", "INVALID_VALUE", "INSUFFICIENT_DONATION",
                 "PROOF_VERIFICATION_FAILED"}
Codes == FailureCodes \cup {"none", "ok", "duplicate", "EXPIRED", "ADDRESS_IN_USE", "FOREIGN_ERROR", "PARAM_LEVEL_TOO_OLD",
                            "PARAM_LEVEL_INVALID", "DUPLICATE_SERIALNUM", "ALREADY_SPENT", "ALREADY_PAID",
                            "FOREIGN_VERIFICATION_FAILED"}

\* What the transactions of the model have in common
TxOK(t) ==
  /\ t.kind \in Kinds /\ t.ins \in Seq(AnyInput) /\ t.level \in Nat
  /\ t.kind \in {"pay", "xpay"} => t.ins # <<>>

LEMMA TransactionsOK == ASSUME NEW t \in Payments \cup Sells \cup Bares \cup Faulty PROVE TxOK(t)
<1> DEFINE Some == {<<"a">>, <<"a", "b">>, <<"b", "a">>, <<"a", "a">>, <<"p1">>, <<"p2">>, <<>>}
<1>1. \A ins \in Some : ins \in Seq(AnyInput)
  <2>1. \A x, y \in AnyInput : <<x>> \in Seq(AnyInput) /\ <<x, y>> \in Seq(AnyInput)
    OBVIOUS
  <2>2. <<>> \in Seq(AnyInput) /\ {"a", "b", "p1", "p2"} \subseteq AnyInput
    BY DEF AnyInput
  <2> QED BY <2>1, <2>2
<1>2. <<"a">> # <<>> /\ <<"a", "b">> # <<>> /\ <<"b", "a">> # <<>> /\ <<"a", "a">> # <<>> /\ <<"p1">> # <<>> /\ <<"p2">> # <<>>
  OBVIOUS
<1>3. \E k \in Kinds, ins \in Some, l \in Nat : \E bad : t = Tx(k, ins, l, bad) /\ (k # "buy" => ins # <<>>)
  <2>1. CASE t \in Payments
    <3>1. PICK ins \in {<<"a">>, <<"a", "b">>, <<"b", "a">>, <<"a", "a">>}, l \in 0 .. 2 : t = Tx("pay", ins, l, {})
      BY <2>1 DEF Payments
    <3> QED BY <1>2, <3>1 DEF Kinds
  <2>2. CASE t \in Sells
    <3>1. PICK ins \in {<<"a">>}, l \in 0 .. 1 : t = Tx("sell", ins, l, {})
      BY <2>2 DEF Sells
    <3> QED BY <1>2, <3>1 DEF Kinds
  <2>3. CASE t \in Bares
    <3>1. (\E p \in {"p1", "p2"} : t = Tx("xpay", <<p>>, 0, {})) \/ t = Tx("buy", <<>>, 0, {})
      BY <2>3 DEF Bares
    <3>2. t = Tx("xpay", <<"p1">>, 0, {}) \/ t = Tx("xpay", <<"p2">>, 0, {}) \/ t = Tx("buy", <<>>, 0, {})
      BY <3>1
    <3> QED BY <1>2, <3>2 DEF Kinds
  <2>4. CASE t \in Faulty
    <3>1. \/ \E k \in {"pay", "sell", "mint"}, bad \in Bad : t = Tx(k, <<"a">>, 0, bad)
          \/ \E bad \in Bad : t = Tx("xpay", <<"p1">>, 0, bad)
          \/ \E bad \in Bad : t = Tx("buy", <<>>, 0, bad)
      BY <2>4 DEF Faulty
    <3> QED BY <1>2, <3>1 DEF Kinds
  <2> QED BY <2>1, <2>2, <2>3, <2>4
<1>4. PICK k \in Kinds, ins \in Some, l \in Nat : \E bad : t = Tx(k, ins, l, bad) /\ (k # "buy" => ins # <<>>)
  BY <1>3
<1> HIDE DEF Some
<1>5. t.kind = k /\ t.ins = ins /\ t.level = l
  BY <1>4 DEF Tx
<1> QED BY <1>1, <1>4, <1>5 DEF TxOK

LEMMA SmallestIndex == ASSUME NEW T \in SUBSET Nat, T # {} PROVE Min(T) \in T
<1>1. PICK n \in T : \A m \in T : ~(<<m, n>> \in OpToRel(<, Nat))
  BY NatLessThanWellFounded, WFMin
<1>2. \A m \in T : ~(m < n)
  BY <1>1 DEF OpToRel
<1>3. \E x \in T : \A y \in T : x =< y
  BY <1>2
<1> QED BY <1>3 DEF Min

\* The result of checks is "ok" or the code of one of them
LEMMA FailureIs ==
  ASSUME NEW checks \in Seq(Faults \X FailureCodes), NEW bad
  PROVE  /\ FirstFailure(checks, bad) \in FailureCodes \cup {"ok"}
         /\ bad = {} => FirstFailure(checks, bad) = "ok"
<1> DEFINE failing == {i \in DOMAIN checks : checks[i][1] \in bad}
<1>1. CASE failing = {}
  BY <1>1 DEF FirstFailure
<1>2. CASE failing # {}
  <2>1. failing \in SUBSET Nat
    OBVIOUS
  <2>2. \A i \in failing : i \in DOMAIN checks /\ bad # {}
    OBVIOUS
  <2>3. FirstFailure(checks, bad) = checks[Min(failing)][2]
    BY <1>2 DEF FirstFailure
  <2> HIDE DEF failing
  <2>4. Min(failing) \in failing
    BY <1>2, <2>1, SmallestIndex
  <2>5. \A i \in DOMAIN checks : checks[i][2] \in FailureCodes
    OBVIOUS
  <2> QED BY <1>2, <2>2, <2>3, <2>4, <2>5
<1> QED BY <1>1, <1>2

Rows == Seq(Faults \X FailureCodes)

LEMMA CheckRows ==
  /\ FormatChecks \in Rows /\ OutputChecks \in Rows /\ InputChecks \in Rows /\ ExtractXtx \in Rows /\ XpayChecks \in Rows
  /\ XreqValueChecks \in Rows /\ XreqTermChecks \in Rows /\ XreqDonation \in Rows /\ XreqCarryAndWork \in Rows
  /\ MintAndTxpayDonation \in Rows /\ VerifyProof \in Rows /\ <<>> \in Rows
  /\ \A r, s \in Rows : r \o s \in Rows
<1>1. FormatChecks \in Rows
  <2>1. <<"wire", "BINARY_DATA_INVALID">> \in Faults \X FailureCodes /\ <<"header", "OPTION_NOT_SUPPORTED">> \in Faults \X FailureCodes
    <3>1. "wire" \in Faults /\ "header" \in Faults /\ {"BINARY_DATA_INVALID", "OPTION_NOT_SUPPORTED"} \subseteq FailureCodes
      BY DEF FailureCodes, Faults
    <3> QED BY <3>1
  <2>2. \A x, y \in Faults \X FailureCodes : << x, y >> \in Seq(Faults \X FailureCodes)
    OBVIOUS
  <2> QED BY <2>1, <2>2 DEF Rows, FormatChecks
<1>2. \A x \in Faults \X FailureCodes : << x >> \in Rows
  BY DEF Rows
<1>3. \A c \in FailureCodes, s \in Faults : << s, c >> \in Faults \X FailureCodes
  OBVIOUS
<1>4. /\ OutputChecks \in Rows /\ InputChecks \in Rows /\ ExtractXtx \in Rows /\ XpayChecks \in Rows
      /\ XreqValueChecks \in Rows /\ XreqTermChecks \in Rows /\ XreqDonation \in Rows /\ XreqCarryAndWork \in Rows
      /\ MintAndTxpayDonation \in Rows /\ VerifyProof \in Rows
  <2>1. \A c \in FailureCodes, s \in Faults : << << s, c >> >> \in Rows
    BY <1>2, <1>3
  <2> QED BY <2>1 DEF FailureCodes, Faults, OutputChecks, InputChecks, ExtractXtx, XpayChecks,
          XreqValueChecks, XreqTermChecks, XreqDonation, XreqCarryAndWork, MintAndTxpayDonation, VerifyProof
<1>5. <<>> \in Rows /\ \A r, s \in Rows : r \o s \in Rows
  BY DEF Rows
<1> QED BY <1>1, <1>4, <1>5

\* No two inputs are the same
Distinct(ins) == \A i, j \in DOMAIN ins : ins[i] = ins[j] => i = j

\* The serial numbers of a transaction t with the name id: they do not depend on the database
SerialsOf(t, id, persistent) ==
  CASE t.kind = "sell" /\ ~persistent -> Append(t.ins, "address")
    [] t.kind \in {"mint", "buy"} -> <<id>>
    [] OTHER -> t.ins

InputsOf(t, id) == LET ins == SerialsOf(t, id, TRUE) IN {ins[i] : i \in DOMAIN ins}

LEMMA SerialsOfTx ==
  ASSUME NEW id
  PROVE  /\ \A p \in BOOLEAN : CheckCreatePseudoSerialnum(id, p) = SerialsOf(txs[id], id, p)
         /\ Inputs(id) = InputsOf(txs[id], id)
  BY DEF CheckCreatePseudoSerialnum, Inputs, SerialsOf, InputsOf

TxIns == SerialsOf(txs["tx"], "tx", FALSE)

LEMMA SerialsAre ==
  ASSUME \A id \in Ids : TxOK(txs[id])
  PROVE  /\ \A id \in Ids : SerialsOf(txs[id], id, TRUE) \in Seq(AnyInput \cup Ids) /\ InputsOf(txs[id], id) \subseteq AnyInput \cup Ids
         /\ TxIns \in Seq(AnySerial) /\ InputsOf(txs["tx"], "tx") \subseteq {TxIns[i] : i \in DOMAIN TxIns}
         /\ \A i \in DOMAIN TxIns : TxIns[i] \in InputsOf(txs["tx"], "tx") \/ TxIns[i] = "address"
         /\ txs["tx"].kind # "sell" => /\ TxIns = SerialsOf(txs["tx"], "tx", TRUE)
                                       /\ \A i \in DOMAIN TxIns : TxIns[i] \in InputsOf(txs["tx"], "tx")
         /\ txs["tx"].kind \in {"pay", "xpay"} => Len(TxIns) >= 1
<1> DEFINE K == SerialsOf(txs["tx"], "tx", TRUE)
<1> DEFINE Known == AnyInput \cup Ids
<1>1. ASSUME NEW id \in Ids PROVE SerialsOf(txs[id], id, TRUE) \in Seq(Known)
  <2>1. txs[id].ins \in Seq(AnyInput)
    BY DEF TxOK
  <2>2. \A s \in Seq(AnyInput) : s \in Seq(Known)
    OBVIOUS
  <2>3. <<id>> \in Seq(Known)
    OBVIOUS
  <2>4. SerialsOf(txs[id], id, TRUE) \in {<<id>>, txs[id].ins}
    BY DEF SerialsOf
  <2> QED BY <2>1, <2>2, <2>3, <2>4
<1>2. ASSUME NEW id \in Ids PROVE InputsOf(txs[id], id) \subseteq Known
  <2>1. PICK ins \in Seq(Known) : ins = SerialsOf(txs[id], id, TRUE)
    BY <1>1
  <2>2. InputsOf(txs[id], id) = {ins[i] : i \in DOMAIN ins}
    BY <2>1 DEF InputsOf
  <2>3. \A i \in DOMAIN ins : ins[i] \in Known
    OBVIOUS
  <2> QED BY <2>2, <2>3
<1>3. "tx" \in Ids /\ TxOK(txs["tx"])
  BY DEF Ids
<1>4. CASE txs["tx"].kind = "sell"
  <2>1. TxIns = Append(txs["tx"].ins, "address") /\ K = txs["tx"].ins /\ txs["tx"].ins \in Seq(AnyInput)
    BY <1>3, <1>4 DEF TxIns, SerialsOf, TxOK
  <2>2. PICK s \in Seq(AnyInput) : s = txs["tx"].ins
    BY <2>1
  <2>3. TxIns = Append(s, "address") /\ InputsOf(txs["tx"], "tx") = {s[i] : i \in DOMAIN s}
    BY <2>1, <2>2 DEF InputsOf
  <2>4. /\ Append(s, "address") \in Seq(AnySerial) /\ Len(Append(s, "address")) = Len(s) + 1
        /\ \A i \in 1 .. Len(s) : Append(s, "address")[i] = s[i]
        /\ Append(s, "address")[Len(s) + 1] = "address" /\ Len(s) \in Nat
    BY DEF AnySerial
  <2>5. PICK z : z = Append(s, "address")
    OBVIOUS
  <2>6. z \in Seq(AnySerial) /\ DOMAIN z = 1 .. Len(s) + 1 /\ (\A i \in 1 .. Len(s) : z[i] = s[i]) /\ z[Len(s) + 1] = "address"
    BY <2>4, <2>5
  <2>7. \A i \in DOMAIN z : i \in DOMAIN s \/ i = Len(s) + 1
    BY <2>4, <2>6
  <2>8. DOMAIN s \subseteq DOMAIN z
    BY <2>4, <2>6
    <2>9. /\ TxIns \in Seq(AnySerial) /\ InputsOf(txs["tx"], "tx") \subseteq {TxIns[i] : i \in DOMAIN TxIns}
        /\ \A i \in DOMAIN TxIns : TxIns[i] \in InputsOf(txs["tx"], "tx") \/ TxIns[i] = "address"
    BY <2>3, <2>5, <2>6, <2>7, <2>8
  <2> QED BY <1>1, <1>2, <1>4, <2>9
<1>5. CASE txs["tx"].kind # "sell"
  <2>1. TxIns = K
    BY <1>5 DEF TxIns, SerialsOf
  <2>2. K \in Seq(AnySerial)
    <3>1. \A s \in Seq(Known) : s \in Seq(AnySerial)
      BY DEF AnySerial
    <3> QED BY <1>1, <1>3, <3>1
  <2>3. txs["tx"].kind \in {"pay", "xpay"} => Len(K) >= 1
    <3>1. txs["tx"].kind \in {"pay", "xpay"} => K = txs["tx"].ins /\ txs["tx"].ins \in Seq(AnyInput) /\ txs["tx"].ins # <<>>
      BY <1>3 DEF SerialsOf, TxOK
    <3>2. \A s \in Seq(AnyInput) : s # <<>> => Len(s) >= 1
      OBVIOUS
    <3> QED BY <3>1, <3>2
  <2>4. InputsOf(txs["tx"], "tx") = {TxIns[i] : i \in DOMAIN TxIns}
    BY <2>1 DEF InputsOf
  <2> QED BY <1>1, <1>2, <2>1, <2>2, <2>3, <2>4
<1> QED BY <1>4, <1>5

\* A transaction of the chain: its inputs are in the table under its name
InTable(id) ==
  /\ txs[id].bad = {} /\ txs[id].level < Len(roots) /\ Distinct(SerialsOf(txs[id], id, TRUE))
  /\ \A s \in InputsOf(txs[id], id) : s \in DOMAIN serials /\ serials[s].by = id
  /\ txs[id].kind = "xpay" => xmatch = "paid"

\* The table of serial numbers: one transaction becomes indelible with all its inputs
TableOK ==
  \A s \in DOMAIN serials :
    /\ serials[s].by \in chain /\ s \in InputsOf(txs[serials[s].by], serials[s].by) /\ serials[s].commitnum \in 1 .. Len(roots) - 1
    /\ \A z \in DOMAIN serials : serials[s].by = serials[z].by => serials[s].commitnum = serials[z].commitnum

\* What blocks do to the database
DbOK ==
  /\ \A id \in Ids : TxOK(txs[id])
  /\ chain \subseteq Ids /\ holders \subseteq Ids /\ fconf \in 0 .. Confirmations /\ xmatch \in {"accepted", "paid", "expired"}
  /\ roots \in Seq(Nat) /\ Len(roots) \in 1 .. MaxTime + 1 /\ \A i \in 1 .. Len(roots) : roots[i] = i - 1
  /\ TableOK
  /\ \A id \in chain : InTable(id)

LEMMA DbInit == ASSUME ValInit PROVE DbOK
<1>1. \A id \in Ids : TxOK(txs[id])
  <2>1. PICK t \in Payments \cup Sells \cup Bares \cup Faulty, r \in Payments \cup Sells \cup Bares :
          txs = [id \in Ids |-> IF id = "tx" THEN t ELSE r]
    BY DEF ValInit
  <2>2. TxOK(t) /\ TxOK(r)
    BY TransactionsOK
  <2> QED BY <2>1, <2>2
<1>2. chain = {} /\ serials = <<>> /\ roots = <<0>> /\ xmatch = "accepted" /\ holders = {} /\ fconf = 0
  BY DEF ValInit
<1>3. 0 \in 0 .. Confirmations /\ MaxTime \in Nat
  BY TxValidateAssumption
<1>4. roots \in Seq(Nat) /\ Len(roots) \in 1 .. MaxTime + 1 /\ \A i \in 1 .. Len(roots) : roots[i] = i - 1
  BY <1>2, <1>3
<1>5. DOMAIN serials = {}
  BY <1>2
<1> QED BY <1>1, <1>2, <1>3, <1>4, <1>5 DEF DbOK, TableOK

\* The database only grows
DbGrows ==
  /\ txs' = txs /\ chain \subseteq chain' /\ DOMAIN serials \subseteq DOMAIN serials' /\ Len(roots) <= Len(roots')
  /\ \A s \in DOMAIN serials : serials'[s] = serials[s]

\* The effect of a block with the transaction id on the tables
LEMMA CommitIs ==
  ASSUME DbOK, NEW id \in Ids, MayCommit(id), serials' = IndexTx(id)
  PROVE  /\ id \notin chain /\ txs[id].bad = {} /\ txs[id].level < Len(roots)
         /\ Distinct(SerialsOf(txs[id], id, TRUE)) /\ (txs[id].kind = "xpay" => xmatch = "accepted")
         /\ DOMAIN serials' = DOMAIN serials \cup InputsOf(txs[id], id)
         /\ \A s \in DOMAIN serials : s \notin InputsOf(txs[id], id) /\ serials'[s] = serials[s]
         /\ \A s \in InputsOf(txs[id], id) : serials'[s].by = id /\ serials'[s].commitnum = Len(roots)
<1> DEFINE I == InputsOf(txs[id], id)
<1>1. CheckCreatePseudoSerialnum(id, TRUE) = SerialsOf(txs[id], id, TRUE)
  BY SerialsOfTx
<1>2. /\ id \notin chain /\ txs[id].bad = {} /\ txs[id].level < Len(roots) /\ I \cap DOMAIN serials = {}
      /\ Distinct(SerialsOf(txs[id], id, TRUE)) /\ (txs[id].kind = "xpay" => xmatch = "accepted")
  BY <1>1 DEF MayCommit, InputsOf, Distinct
<1>3. serials' = [s \in DOMAIN serials \cup I |-> IF s \in I THEN [by |-> id, commitnum |-> Len(roots)] ELSE serials[s]]
  BY <1>1 DEF IndexTx, InputsOf
<1> HIDE DEF I
<1>4. /\ DOMAIN serials' = DOMAIN serials \cup I
      /\ \A s \in DOMAIN serials : s \notin I /\ serials'[s] = serials[s]
      /\ \A s \in I : serials'[s].by = id /\ serials'[s].commitnum = Len(roots)
  BY <1>2, <1>3
<1> QED BY <1>2, <1>4 DEF I

\* A block without a transaction, or with one
LEMMA BlockKeepsDb == ASSUME DbOK, Block PROVE DbOK' /\ DbGrows
<1>0. /\ Time < MaxTime /\ roots' = Append(roots, Len(roots)) /\ txs' = txs /\ fconf' = fconf /\ MaxTime \in Nat
      /\ roots \in Seq(Nat) /\ Len(roots) \in Nat /\ Len(roots) >= 1
  BY TxValidateAssumption DEF Block, DbOK
<1>1. /\ roots' \in Seq(Nat) /\ Len(roots') = Len(roots) + 1 /\ Len(roots') \in 1 .. MaxTime + 1
      /\ \A i \in 1 .. Len(roots') : roots'[i] = i - 1
  <2>1. roots' \in Seq(Nat) /\ Len(roots') = Len(roots) + 1
    BY <1>0
  <2>2. Len(roots') \in 1 .. MaxTime + 1
    BY <1>0, <2>1 DEF Time
  <2>3. \A i \in 1 .. Len(roots) : roots[i] = i - 1
    BY DEF DbOK
  <2>4. \A i \in 1 .. Len(roots') : roots'[i] = i - 1
    BY <1>0, <2>1, <2>3
  <2> QED BY <2>1, <2>2, <2>4
<1>2. \A n : n < Len(roots) /\ n \in Nat => n < Len(roots')
  BY <1>0, <1>1
<1>3. \A id \in Ids : TxOK(txs'[id]) /\ txs[id].level \in Nat
  BY <1>0 DEF DbOK, TxOK
<1>4. \A n \in 1 .. Len(roots) - 1 : n \in 1 .. Len(roots') - 1
  BY <1>0, <1>1
<1>5. CASE /\ UNCHANGED <<chain, serials, holders>>
           /\ xmatch' = IF xmatch = "accepted" /\ PaymentTime < Len(roots) THEN "expired" ELSE xmatch
  <2>1. ASSUME NEW id \in chain' PROVE InTable(id)'
    <3>1. InTable(id) /\ id \in Ids
      BY <1>5, <2>1 DEF DbOK
    <3>2. txs[id].level < Len(roots')
      BY <1>2, <1>3, <3>1 DEF InTable
    <3>3. txs[id].kind = "xpay" => xmatch' = "paid"
      BY <1>5, <3>1 DEF InTable
    <3> QED BY <1>0, <1>5, <3>1, <3>2, <3>3 DEF InTable
  <2>2. TableOK'
    BY <1>0, <1>4, <1>5 DEF DbOK, TableOK
  <2>3. chain' \subseteq Ids /\ holders' \subseteq Ids /\ fconf' \in 0 .. Confirmations /\ xmatch' \in {"accepted", "paid", "expired"}
    BY <1>0, <1>5 DEF DbOK
  <2>4. DbGrows
    BY <1>0, <1>1, <1>5 DEF DbGrows
  <2> QED BY <1>1, <1>3, <2>1, <2>2, <2>3, <2>4 DEF DbOK
<1>6. ASSUME NEW id \in Ids, MayCommit(id), chain' = chain \cup {id}, serials' = IndexTx(id),
             xmatch' = IF txs[id].kind = "xpay" THEN "paid" ELSE IF PaymentTime < Len(roots) /\ xmatch = "accepted" THEN "expired" ELSE xmatch,
             holders' = IF txs[id].kind = "sell" THEN {id} ELSE holders
      PROVE  DbOK' /\ DbGrows
  <2> DEFINE I == InputsOf(txs[id], id)
  <2>1. /\ id \notin chain /\ txs[id].bad = {} /\ txs[id].level < Len(roots)
        /\ Distinct(SerialsOf(txs[id], id, TRUE)) /\ (txs[id].kind = "xpay" => xmatch = "accepted")
    BY <1>6, CommitIs
  <2>2. /\ DOMAIN serials' = DOMAIN serials \cup I
        /\ \A s \in DOMAIN serials : s \notin I /\ serials'[s] = serials[s]
        /\ \A s \in I : serials'[s].by = id /\ serials'[s].commitnum = Len(roots)
    BY <1>6, CommitIs
  <2> HIDE DEF I
  <2>3. TableOK'
    <3>1. \A s \in DOMAIN serials : serials[s].by # id
      BY <2>1 DEF DbOK, TableOK
    <3>2. ASSUME NEW s \in DOMAIN serials'
          PROVE  /\ serials'[s].by \in chain' /\ s \in InputsOf(txs[serials'[s].by], serials'[s].by)
                 /\ serials'[s].commitnum \in 1 .. Len(roots') - 1
      <4>1. CASE s \in DOMAIN serials
        <5>1. serials[s].by \in chain /\ s \in InputsOf(txs[serials[s].by], serials[s].by) /\ serials[s].commitnum \in 1 .. Len(roots) - 1
          BY <4>1 DEF DbOK, TableOK
        <5> QED BY <1>4, <1>6, <2>2, <4>1, <5>1
      <4>2. CASE s \in I
        <5>1. Len(roots) \in 1 .. Len(roots') - 1
          BY <1>0, <1>1
        <5> QED BY <1>6, <2>2, <4>2, <5>1 DEF I
      <4> QED BY <2>2, <4>1, <4>2
    <3>3. \A s, z \in DOMAIN serials : serials[s].by = serials[z].by => serials[s].commitnum = serials[z].commitnum
      BY DEF DbOK, TableOK
    <3>4. \A s, z \in DOMAIN serials' : serials'[s].by = serials'[z].by => serials'[s].commitnum = serials'[z].commitnum
      BY <2>2, <3>1, <3>3
    <3> QED BY <1>0, <3>2, <3>4 DEF TableOK
  <2>4. ASSUME NEW k \in chain' PROVE InTable(k)'
    <3>1. CASE k \in chain
      <4>1. InTable(k) /\ k \in Ids
        BY <3>1 DEF DbOK
      <4>2. txs[k].level < Len(roots')
        BY <1>2, <1>3, <4>1 DEF InTable
      <4>3. \A s \in InputsOf(txs[k], k) : s \in DOMAIN serials' /\ serials'[s].by = k
        BY <2>2, <4>1 DEF InTable
      <4>4. txs[k].kind = "xpay" => xmatch' = "paid"
        BY <1>6, <4>1 DEF InTable
      <4> QED BY <1>0, <4>1, <4>2, <4>3, <4>4 DEF InTable
    <3>2. CASE k = id
      <4>1. txs[k].level < Len(roots')
        BY <1>2, <1>3, <2>1, <3>2
      <4>2. \A s \in InputsOf(txs[k], k) : s \in DOMAIN serials' /\ serials'[s].by = k
        BY <2>2, <3>2 DEF I
      <4>3. txs[k].kind = "xpay" => xmatch' = "paid"
        BY <1>6, <3>2
      <4> QED BY <1>0, <2>1, <3>2, <4>1, <4>2, <4>3 DEF InTable
    <3> QED BY <1>6, <3>1, <3>2
  <2>5. DbGrows
    BY <1>0, <1>1, <1>6, <2>2 DEF DbGrows
  <2>6. chain' \subseteq Ids /\ holders' \subseteq Ids /\ fconf' \in 0 .. Confirmations /\ xmatch' \in {"accepted", "paid", "expired"}
    BY <1>0, <1>6 DEF DbOK
  <2> QED BY <1>1, <1>3, <2>3, <2>4, <2>5, <2>6 DEF DbOK
<1> QED BY <1>5, <1>6 DEF Block

LEMMA DbStep == ASSUME DbOK, [ValNext]_valVars PROVE DbOK' /\ DbGrows
<1>1. CASE txs' = txs /\ chain' = chain /\ serials' = serials /\ roots' = roots /\ xmatch' = xmatch /\ holders' \subseteq holders /\ fconf' \in 0 .. Confirmations
  <2>1. DbGrows
    BY <1>1 DEF DbGrows, DbOK
  <2>2. TableOK'
    BY <1>1 DEF DbOK, TableOK
  <2>3. \A id \in chain : InTable(id)'
    BY <1>1 DEF DbOK, InTable
  <2> QED BY <1>1, <2>1, <2>2, <2>3 DEF DbOK
<1>2. CASE Block
  BY <1>2, BlockKeepsDb
<1>3. CASE RequestEnds
  BY <1>1, <1>3 DEF RequestEnds, DbOK
<1>4. CASE ForeignBlock
  <2>1. fconf' \in 0 .. Confirmations
    BY <1>4, TxValidateAssumption DEF ForeignBlock, DbOK
  <2> QED BY <1>1, <1>4, <2>1 DEF ForeignBlock
<1>5. CASE Reads
  BY <1>1, <1>5 DEF Reads, DbOK
<1>6. CASE UNCHANGED valVars
  BY <1>5, <1>6 DEF valVars, Reads
<1>7. CASE BeginValidate \/ ValidateFormat \/ ValidateXpay \/ ValidateXreq \/ ValidateDonation
           \/ CheckRootAge \/ LookUpRoot \/ CheckSerials \/ ValidateForeign \/ ValidateAgain
  BY <1>5, <1>7 DEF BeginValidate, ValidateFormat, ValidateXpay, ValidateXreq, ValidateDonation,
                    CheckRootAge, LookUpRoot, CheckSerials, ValidateForeign, ValidateAgain
<1> QED BY <1>2, <1>3, <1>4, <1>6, <1>7 DEF ValNext

(***************************************************************************)
(* The validation: what it found out is still true of the database, and    *)
(* what it began with was part of it.                                      *)
(***************************************************************************)
Pcs == {"format", "xpay", "xreq", "donation", "age", "root", "serials", "foreign", "done"}

ValRec == [pc : Pcs, in_block : BOOLEAN, prior_blocktime : Nat, already_paid : BOOLEAN, found_spent : BOOLEAN,
           found_not_spent : BOOLEAN, commitnum : Nat, i : Nat, result : Codes, chain0 : SUBSET Ids,
           spent0 : SUBSET AnySerial, started : Nat]

TxInputs == InputsOf(txs["tx"], "tx")

Kind == txs["tx"].kind

\* The chain when the validation began is a part of the chain
Began ==
  /\ val.chain0 \subseteq chain /\ val.spent0 \subseteq DOMAIN serials
  /\ val.started < Len(roots) /\ val.commitnum < Len(roots)

\* The root was not replaced when the validation began, or not long before
Aged == ~TypeHasBareMsg(Kind) => val.started < txs["tx"].level + 1 \/ val.prior_blocktime <= txs["tx"].level + 1 + MaxParamAge

\* The serial numbers before val.i
Seen ==
  /\ val.i \in 1 .. Len(TxIns) + 1
  /\ ~val.found_spent => \A j \in 1 .. val.i - 1 : TxIns[j] \notin val.spent0
  /\ val.found_spent => "tx" \in chain /\ \E s \in DOMAIN serials : serials[s].by = "tx" /\ serials[s].commitnum = val.commitnum
  /\ "tx" \in val.chain0 /\ Kind # "sell" => ~val.found_not_spent /\ (val.i > 1 => val.found_spent)

\* What a result means: the properties, for any kind of transaction
Answer(code) ==
  /\ code = "ok" /\ Kind # "mint" => TxInputs \cap val.spent0 = {}
  /\ code \in {"ok", "duplicate"} => Aged /\ txs["tx"].level < Len(roots)
  /\ "tx" \in val.chain0 /\ Kind \in {"pay", "xpay"} => code \in {"duplicate", "PARAM_LEVEL_TOO_OLD", "EXPIRED"}
  /\ code = "ALREADY_SPENT" => \/ \E s \in DOMAIN serials : s \in TxInputs /\ serials[s].by # "tx"
                               \/ "tx" \in chain /\ ("tx" \notin val.chain0 \/ Kind = "sell")

\* What the validation knows before each of its steps
Passed(pc) ==
  /\ (pc = "xpay" => Kind = "xpay") /\ (pc = "xreq" => Kind \in {"sell", "buy"}) /\ (pc = "donation" => Kind \in {"pay", "mint"})
  /\ pc \in {"format", "xpay", "xreq", "donation", "age", "root"} => val.i = 1 /\ ~val.found_spent /\ ~val.found_not_spent
  /\ pc \in {"root", "serials", "foreign"} => Aged
  /\ pc \in {"serials", "foreign"} => txs["tx"].level < Len(roots)
  /\ pc = "serials" => Kind # "mint" /\ Seen
  /\ pc = "foreign" => Kind = "xpay" /\ TxInputs \cap val.spent0 = {} /\ "tx" \notin val.chain0
  /\ pc = "done" => Answer(val.result)

Going == val \in ValRec /\ Began /\ Passed(val.pc)

IVal == DbOK /\ (val = [pc |-> "idle"] \/ Going)

\* A transaction that was in the chain when the validation began
LEMMA OldTx ==
  ASSUME DbOK, Began, "tx" \in val.chain0
  PROVE  InTable("tx") /\ "tx" \in chain
  BY DEF DbOK, Began

\* The database grows while the validation rests
LEMMA RestKeeps ==
  ASSUME Going, DbOK, DbOK', DbGrows, val' = val
  PROVE  Going'
<1>1. /\ txs' = txs /\ chain \subseteq chain' /\ DOMAIN serials \subseteq DOMAIN serials' /\ Len(roots) <= Len(roots')
      /\ \A s \in DOMAIN serials : serials'[s] = serials[s]
  BY DEF DbGrows
<1>2. \A n \in Nat : n < Len(roots) => n < Len(roots')
  <2>1. Len(roots) \in Nat /\ Len(roots') \in Nat
    <3>1. roots \in Seq(Nat) /\ roots' \in Seq(Nat)
      BY DEF DbOK
    <3> QED BY <3>1
  <2> QED BY <1>1, <2>1
<1>3. val \in ValRec /\ val.started \in Nat /\ val.commitnum \in Nat /\ txs["tx"].level \in Nat
  BY DEF Going, ValRec, DbOK, TxOK, Ids
<1>4. Began'
  BY <1>1, <1>2, <1>3 DEF Going, Began
<1>5. Passed(val.pc)
  BY DEF Going
<1>6. (Aged => Aged') /\ Kind' = Kind /\ TxInputs' = TxInputs /\ TxIns' = TxIns
  BY <1>1 DEF Aged, Kind, TxInputs, TxIns
<1>7. Seen => Seen'
  BY <1>1, <1>6 DEF Seen
<1>8. Answer(val.result) => Answer(val.result)'
  BY <1>1, <1>2, <1>3, <1>6 DEF Answer
<1>9. Passed(val.pc)'
  BY <1>1, <1>2, <1>3, <1>5, <1>6, <1>7, <1>8 DEF Passed
<1> QED BY <1>3, <1>4, <1>9 DEF Going

\* A step of the validation that ends it with a result
LEMMA ReturnKeeps ==
  ASSUME DbOK, Going, Reads, NEW code \in Codes, Return(code), Answer(code)
  PROVE  Going'
<1>1. /\ val' \in ValRec /\ val'.pc = "done" /\ val'.result = code
      /\ val'.chain0 = val.chain0 /\ val'.spent0 = val.spent0 /\ val'.started = val.started
      /\ val'.commitnum = val.commitnum /\ val'.prior_blocktime = val.prior_blocktime
  BY DEF Going, Return, ValRec, Pcs
<1>2. txs' = txs /\ chain' = chain /\ serials' = serials /\ roots' = roots
  BY DEF Reads
<1>3. Began'
  BY <1>1, <1>2 DEF Going, Began
<1>4. Kind' = Kind /\ TxInputs' = TxInputs /\ (Aged => Aged')
  BY <1>1, <1>2 DEF Kind, TxInputs, Aged
<1>5. Answer(val.result)'
  BY <1>1, <1>2, <1>4 DEF Answer
<1>6. Passed(val.pc)'
  BY <1>1, <1>5 DEF Passed
<1> QED BY <1>1, <1>3, <1>6 DEF Going

\* A step of the validation that only goes on
LEMMA MoveKeeps ==
  ASSUME DbOK, Going, Reads, NEW pc \in Pcs \ {"done"}, val' = [val EXCEPT !.pc = pc], Passed(pc)
  PROVE  Going'
<1>1. /\ val' \in ValRec /\ val'.pc = pc
      /\ val'.chain0 = val.chain0 /\ val'.spent0 = val.spent0 /\ val'.started = val.started
      /\ val'.commitnum = val.commitnum /\ val'.prior_blocktime = val.prior_blocktime
      /\ val'.i = val.i /\ val'.found_spent = val.found_spent /\ val'.found_not_spent = val.found_not_spent
  BY DEF Going, ValRec, Pcs
<1>2. txs' = txs /\ chain' = chain /\ serials' = serials /\ roots' = roots
  BY DEF Reads
<1>3. Began'
  BY <1>1, <1>2 DEF Going, Began
<1>4. Kind' = Kind /\ TxInputs' = TxInputs /\ (Aged => Aged') /\ TxIns' = TxIns
  BY <1>1, <1>2 DEF Kind, TxInputs, TxIns, Aged
<1>5. Seen => Seen'
  BY <1>1, <1>2, <1>4 DEF Seen
<1>6. Passed(pc)'
  BY <1>1, <1>2, <1>4, <1>5 DEF Passed
<1> QED BY <1>1, <1>3, <1>6 DEF Going

\* A check of what the transaction says: it has no effect on a transaction of the chain
LEMMA GoOnKeeps ==
  ASSUME DbOK, Going, Reads, NEW checks \in Rows, NEW pc \in Pcs \ {"done"},
         GoOn(FirstFailure(checks, txs["tx"].bad), pc), FirstFailure(checks, txs["tx"].bad) = "ok" => Passed(pc)
  PROVE  Going'
<1> DEFINE code == FirstFailure(checks, txs["tx"].bad)
<1>1. code \in FailureCodes \cup {"ok"} /\ (txs["tx"].bad = {} => code = "ok")
  BY FailureIs DEF Rows
<1> HIDE DEF code
<1>2. CASE code = "ok"
  BY <1>2, MoveKeeps DEF GoOn, code
<1>3. CASE code # "ok"
  <2>1. Return(code) /\ code \in Codes /\ code \notin {"ok", "duplicate", "ALREADY_SPENT"}
    BY <1>1, <1>3 DEF GoOn, Codes, FailureCodes, code
  <2>2. "tx" \notin val.chain0
    BY <1>1, <1>3, OldTx DEF Going, InTable
  <2> QED BY <2>1, <2>2, ReturnKeeps DEF Answer
<1> QED BY <1>2, <1>3

\* A result other than those the properties are about, for a transaction that is new
LEMMA RefusalKeeps ==
  ASSUME DbOK, Going, Reads, NEW code \in Codes, Return(code), code \notin {"ok", "duplicate", "ALREADY_SPENT"},
         "tx" \in val.chain0 /\ Kind \in {"pay", "xpay"} => code \in {"PARAM_LEVEL_TOO_OLD", "EXPIRED"}
  PROVE  Going'
  BY ReturnKeeps DEF Answer

LEMMA Begins == ASSUME DbOK, val = [pc |-> "idle"], BeginValidate PROVE Going'
<1>1. PICK in_block \in BOOLEAN, ahead \in 0 .. 1 :
        val' = [pc |-> "format", in_block |-> in_block, prior_blocktime |-> LastIndelibleTimestamp + ahead, already_paid |-> FALSE,
                found_spent |-> FALSE, found_not_spent |-> FALSE, commitnum |-> 0, i |-> 1, result |-> "none",
                chain0 |-> chain, spent0 |-> DOMAIN serials, started |-> LastIndelibleTimestamp]
  BY DEF BeginValidate
<1>2. Len(roots) \in Nat /\ Len(roots) >= 1 /\ LastIndelibleTimestamp = Len(roots) - 1
  BY DEF DbOK, LastIndelibleTimestamp
<1>3. LastIndelibleTimestamp \in Nat /\ LastIndelibleTimestamp + ahead \in Nat /\ LastIndelibleTimestamp < Len(roots) /\ 0 < Len(roots)
  BY <1>2
<1>4. DOMAIN serials \subseteq AnySerial
  <2>1. ASSUME NEW s \in DOMAIN serials PROVE s \in AnySerial
    <3>1. PICK id \in Ids : s \in InputsOf(txs[id], id)
      BY DEF DbOK, TableOK
    <3>2. InputsOf(txs[id], id) \subseteq AnyInput \cup Ids
      BY SerialsAre DEF DbOK
    <3> QED BY <3>1, <3>2 DEF AnySerial
  <2> QED BY <2>1
<1>5. txs' = txs /\ chain' = chain /\ serials' = serials /\ roots' = roots /\ chain \subseteq Ids
  BY DEF BeginValidate, Reads, DbOK
<1>6. val' \in ValRec
  <2>1. "format" \in Pcs /\ "none" \in Codes /\ 1 \in Nat /\ 0 \in Nat
    BY DEF Pcs, Codes
  <2> QED BY <1>1, <1>3, <1>4, <1>5, <2>1 DEF ValRec
<1>7. Began'
  BY <1>1, <1>3, <1>5 DEF Began
<1>8. Passed(val.pc)'
  BY <1>1 DEF Passed
<1> QED BY <1>6, <1>7, <1>8 DEF Going

LEMMA FormatKeeps == ASSUME DbOK, Going, ValidateFormat PROVE Going'
<1> DEFINE pc == CASE Kind = "xpay" -> "xpay" [] Kind \in {"sell", "buy"} -> "xreq" [] OTHER -> "donation"
<1> DEFINE checks == FormatChecks \o OutputChecks \o InputChecks \o (IF Kind \in {"sell", "buy", "xpay"} THEN ExtractXtx ELSE <<>>)
<1>1. GoOn(FirstFailure(checks, txs["tx"].bad), pc) /\ Reads /\ val.pc = "format"
  BY DEF ValidateFormat, Kind
<1>2. checks \in Rows
  <2>1. PICK x \in Rows : x = IF Kind \in {"sell", "buy", "xpay"} THEN ExtractXtx ELSE <<>>
    BY CheckRows
  <2> QED BY <2>1, CheckRows
<1>3. Kind \in Kinds
  BY DEF DbOK, TxOK, Kind, Ids
<1>4. /\ pc \in {"xpay", "xreq", "donation"} /\ (pc = "xpay" => Kind = "xpay") /\ (pc = "xreq" => Kind \in {"sell", "buy"})
      /\ (pc = "donation" => Kind \in {"pay", "mint"})
  BY <1>3 DEF Kinds
<1> HIDE DEF pc, checks
<1>5. Passed(pc)
  BY <1>1, <1>4 DEF Passed, Going
<1>6. pc \in Pcs \ {"done"}
  BY <1>4 DEF Pcs
<1> QED BY <1>1, <1>2, <1>5, <1>6, GoOnKeeps

LEMMA XpayKeeps == ASSUME DbOK, Going, ValidateXpay PROVE Going'
<1> DEFINE code == FirstFailure(XpayChecks, txs["tx"].bad)
<1>1. code \in FailureCodes \cup {"ok"} /\ (txs["tx"].bad = {} => code = "ok")
  BY FailureIs, CheckRows DEF Rows
<1>2. /\ val.pc = "xpay" /\ Reads
      /\ IF code # "ok" THEN Return(code)
         ELSE IF xmatch \notin {"accepted", "paid"} THEN Return("INVALID_VALUE")
         ELSE IF PaymentTime < val.prior_blocktime THEN Return("EXPIRED")
         ELSE val' = [val EXCEPT !.pc = "age", !.already_paid = xmatch = "paid"]
  BY DEF ValidateXpay
<1> HIDE DEF code
<1>3. Kind = "xpay" /\ val.i = 1 /\ ~val.found_spent /\ ~val.found_not_spent
  BY <1>2 DEF Going, Passed
<1>4. "tx" \in val.chain0 => code = "ok" /\ xmatch = "paid"
  BY <1>1, <1>3, OldTx DEF Going, InTable, Kind
<1>5. CASE code # "ok"
  <2>1. code \in Codes /\ code \notin {"ok", "duplicate", "ALREADY_SPENT"} /\ Return(code)
    BY <1>1, <1>2, <1>5 DEF Codes, FailureCodes
  <2> QED BY <1>2, <1>4, <1>5, <2>1, RefusalKeeps
<1>6. CASE Return("INVALID_VALUE") /\ xmatch # "paid"
  BY <1>2, <1>4, <1>6, RefusalKeeps DEF Codes, FailureCodes
<1>7. CASE Return("EXPIRED")
  BY <1>2, <1>7, RefusalKeeps DEF Codes
<1>8. CASE val' = [val EXCEPT !.pc = "age", !.already_paid = xmatch = "paid"]
  <2>1. /\ val' \in ValRec /\ val'.pc = "age"
        /\ val'.chain0 = val.chain0 /\ val'.spent0 = val.spent0 /\ val'.started = val.started /\ val'.commitnum = val.commitnum
        /\ val'.i = val.i /\ val'.found_spent = val.found_spent /\ val'.found_not_spent = val.found_not_spent
    <3>1. (xmatch = "paid") \in BOOLEAN
      OBVIOUS
    <3>2. PICK b \in BOOLEAN : val' = [val EXCEPT !.pc = "age", !.already_paid = b]
      BY <1>8, <3>1
    <3> QED BY <3>2 DEF Going, ValRec, Pcs
  <2>2. txs' = txs /\ chain' = chain /\ serials' = serials /\ roots' = roots
    BY <1>2 DEF Reads
  <2>3. Began'
    BY <2>1, <2>2 DEF Going, Began
  <2>4. Passed(val.pc)'
    BY <1>3, <2>1 DEF Passed
  <2> QED BY <2>1, <2>3, <2>4 DEF Going
<1> QED BY <1>2, <1>5, <1>6, <1>7, <1>8

LEMMA XreqKeeps == ASSUME DbOK, Going, ValidateXreq PROVE Going'
<1> DEFINE checks == XreqValueChecks \o XreqTermChecks
<1> DEFINE checks2 == IF TypeHasBareMsg(Kind) THEN <<>> ELSE XreqDonation
<1> DEFINE before == FirstFailure(checks, txs["tx"].bad)
<1> DEFINE donation == FirstFailure(checks2, txs["tx"].bad)
<1>1. /\ val.pc = "xreq" /\ Reads
      /\ \/ before # "ok" /\ Return(before)
         \/ \E code \in {"ADDRESS_IN_USE", "INVALID_VALUE", "FOREIGN_ERROR", "EXPIRED"} : Return(code)
         \/ donation # "ok" /\ Return(donation)
         \/ GoOn(FirstFailure(XreqCarryAndWork, txs["tx"].bad), "age")
  BY DEF ValidateXreq, Kind
<1>2. Kind \in {"sell", "buy"} /\ val.i = 1 /\ ~val.found_spent /\ ~val.found_not_spent
  BY <1>1 DEF Going, Passed
<1>3. checks \in Rows /\ checks2 \in Rows /\ XreqCarryAndWork \in Rows
  BY CheckRows
<1> HIDE DEF checks, checks2
<1>4. before \in FailureCodes \cup {"ok"} /\ donation \in FailureCodes \cup {"ok"}
  BY <1>3, FailureIs DEF Rows
<1> HIDE DEF before, donation
<1>5. \A code \in FailureCodes \cup {"ADDRESS_IN_USE", "INVALID_VALUE", "FOREIGN_ERROR", "EXPIRED"} :
        code \in Codes /\ code \notin {"ok", "duplicate", "ALREADY_SPENT"}
  BY DEF Codes, FailureCodes
<1>6. CASE \E code \in FailureCodes \cup {"ADDRESS_IN_USE", "INVALID_VALUE", "FOREIGN_ERROR", "EXPIRED"} : Return(code)
  <2>1. PICK code \in FailureCodes \cup {"ADDRESS_IN_USE", "INVALID_VALUE", "FOREIGN_ERROR", "EXPIRED"} : Return(code)
    BY <1>6
  <2> QED BY <1>1, <1>2, <1>5, <2>1, RefusalKeeps
<1>7. CASE GoOn(FirstFailure(XreqCarryAndWork, txs["tx"].bad), "age")
  <2>1. Passed("age")
    BY <1>2 DEF Passed
  <2> QED BY <1>1, <1>3, <1>7, <2>1, GoOnKeeps DEF Pcs
<1> QED BY <1>1, <1>4, <1>6, <1>7

LEMMA DonationKeeps == ASSUME DbOK, Going, ValidateDonation PROVE Going'
<1>1. val.pc = "donation" /\ Reads /\ GoOn(FirstFailure(MintAndTxpayDonation, txs["tx"].bad), "age")
  BY DEF ValidateDonation
<1>2. Passed("age")
  BY <1>1 DEF Going, Passed
<1> QED BY <1>1, <1>2, CheckRows, GoOnKeeps DEF Pcs

\* The timestamp of a level is its number: what CheckRootAge compares with
LEMMA AgeKeeps == ASSUME DbOK, Going, CheckRootAge PROVE Going'
<1> DEFINE level == txs["tx"].level
<1>1. val.pc = "age" /\ Reads
      /\ IF val.prior_blocktime > RootReplaced(level) + MaxParamAge /\ ~TypeHasBareMsg(Kind)
         THEN Return("PARAM_LEVEL_TOO_OLD") ELSE val' = [val EXCEPT !.pc = "root"]
  BY DEF CheckRootAge, Kind
<1>2. val.i = 1 /\ ~val.found_spent /\ ~val.found_not_spent
  BY <1>1 DEF Going, Passed
<1>3. /\ level \in Nat /\ Len(roots) \in Nat /\ Len(roots) >= 1 /\ MaxParamAge \in Nat
      /\ val.prior_blocktime \in Nat /\ val.started \in Nat /\ val.started < Len(roots)
  BY TxValidateAssumption DEF DbOK, TxOK, Ids, Going, Began, ValRec
<1>4. level + 1 < Len(roots) => RootReplaced(level) = level + 1
  <2> SUFFICES ASSUME level + 1 < Len(roots) PROVE RootReplaced(level) = level + 1
    OBVIOUS
  <2>1. \A i \in 1 .. Len(roots) : roots[i] = i - 1
    BY DEF DbOK
  <2>2. level + 2 \in 1 .. Len(roots) /\ (level + 2) - 1 = level + 1
    BY <1>3
  <2>3. RootReplaced(level) = roots[level + 2]
    BY DEF RootReplaced
  <2> QED BY <2>1, <2>2, <2>3
<1>5. ~(level + 1 < Len(roots)) => val.started < level + 1
  BY <1>3
<1>6. CASE Return("PARAM_LEVEL_TOO_OLD")
  BY <1>1, <1>6, RefusalKeeps DEF Codes
<1>7. CASE ~(val.prior_blocktime > RootReplaced(level) + MaxParamAge /\ ~TypeHasBareMsg(Kind)) /\ val' = [val EXCEPT !.pc = "root"]
  <2>1. ~TypeHasBareMsg(Kind) => ~(val.prior_blocktime > RootReplaced(level) + MaxParamAge)
    BY <1>7
  <2>2. ~TypeHasBareMsg(Kind) /\ level + 1 < Len(roots) => val.prior_blocktime <= level + 1 + MaxParamAge
    BY <1>3, <1>4, <2>1
  <2>3. Aged
    BY <1>5, <2>2 DEF Aged
  <2>4. Passed("root")
    BY <1>2, <2>3 DEF Passed
  <2> QED BY <1>1, <1>7, <2>4, MoveKeeps DEF Pcs
<1> QED BY <1>1, <1>6, <1>7

LEMMA RootKeeps == ASSUME DbOK, Going, LookUpRoot PROVE Going'
<1> DEFINE checks == IF TypeHasBareMsg(Kind) THEN <<>> ELSE VerifyProof
<1> DEFINE code == FirstFailure(checks, txs["tx"].bad)
<1>1. /\ val.pc = "root" /\ Reads
      /\ \/ txs["tx"].level >= Len(roots) /\ Return("PARAM_LEVEL_INVALID")
         \/ ~(txs["tx"].level >= Len(roots)) /\ Kind = "mint" /\ Return(code)
         \/ ~(txs["tx"].level >= Len(roots)) /\ Kind # "mint" /\ GoOn(code, "serials")
  BY DEF LookUpRoot, Kind
<1>2. val.i = 1 /\ ~val.found_spent /\ ~val.found_not_spent /\ Aged
  BY <1>1 DEF Going, Passed
<1>3. checks \in Rows
  BY CheckRows
<1>4. code \in FailureCodes \cup {"ok"}
  BY <1>3, FailureIs DEF Rows
<1>5. txs["tx"].level \in Nat /\ Len(roots) \in Nat
  BY DEF DbOK, TxOK, Ids
<1>6. ~(txs["tx"].level >= Len(roots)) => txs["tx"].level < Len(roots)
  BY <1>5
<1> HIDE DEF checks
<1>7. CASE txs["tx"].level >= Len(roots) /\ Return("PARAM_LEVEL_INVALID")
  <2>1. "tx" \notin val.chain0
    <3>1. "tx" \in val.chain0 => txs["tx"].level < Len(roots)
      BY OldTx DEF Going, InTable
    <3> QED BY <1>5, <1>7, <3>1
  <2> QED BY <1>1, <1>7, <2>1, RefusalKeeps DEF Codes
<1>8. CASE ~(txs["tx"].level >= Len(roots)) /\ Kind = "mint" /\ Return(code)
  <2>1. code \in Codes /\ code # "ALREADY_SPENT"
    BY <1>4 DEF Codes, FailureCodes
  <2> HIDE DEF code
  <2>2. Answer(code)
    BY <1>2, <1>6, <1>8, <2>1 DEF Answer
  <2> QED BY <1>1, <1>8, <2>1, <2>2, ReturnKeeps
<1>9. CASE ~(txs["tx"].level >= Len(roots)) /\ Kind # "mint" /\ GoOn(code, "serials")
  <2>1. TxIns \in Seq(AnySerial)
    BY SerialsAre DEF DbOK
  <2>2. 1 \in 1 .. Len(TxIns) + 1 /\ 1 .. 1 - 1 = {}
    BY <2>1
  <2>3. Seen
    BY <1>2, <2>2 DEF Seen
  <2>4. Passed("serials")
    BY <1>2, <1>6, <1>9, <2>3 DEF Passed
  <2> QED BY <1>1, <1>3, <1>9, <2>4, GoOnKeeps DEF Pcs
<1> QED BY <1>1, <1>7, <1>8, <1>9

LEMMA ForeignKeeps == ASSUME DbOK, Going, ValidateForeign PROVE Going'
<1>1. val.pc = "foreign" /\ Reads
  BY DEF ValidateForeign
<1>2. PICK code \in {"INVALID_VALUE", "FOREIGN_ERROR", "FOREIGN_VERIFICATION_FAILED", "ok"} : Return(code)
  BY DEF ValidateForeign
<1>3. code \in Codes /\ code \notin {"duplicate", "ALREADY_SPENT"}
  BY DEF Codes, FailureCodes
<1>4. Kind = "xpay" /\ TxInputs \cap val.spent0 = {} /\ "tx" \notin val.chain0 /\ Aged /\ txs["tx"].level < Len(roots)
  BY <1>1 DEF Going, Passed
<1>5. Answer(code)
  BY <1>3, <1>4 DEF Answer
<1> QED BY <1>1, <1>2, <1>3, <1>5, ReturnKeeps

\* One round of the loop over the inputs
LEMMA InputKeeps == ASSUME DbOK, Going, Reads, val.pc = "serials", val.i <= Len(TxIns), CheckInput(TxIns) PROVE Going'
<1> DEFINE s == TxIns[val.i]
<1> DEFINE spent == s \in DOMAIN serials
<1> DEFINE conflict == spent /\ (serials[s].by # "tx" \/ (val.found_spent /\ serials[s].commitnum # val.commitnum))
<1> DEFINE fs == val.found_spent \/ spent
<1> DEFINE fns == val.found_not_spent \/ ~spent
<1> DEFINE cn == IF spent /\ ~val.found_spent THEN serials[s].commitnum ELSE val.commitnum
<1>1. \/ (\E j \in 1 .. val.i - 1 : TxIns[j] = s) /\ Return("DUPLICATE_SERIALNUM")
      \/ (conflict \/ (fs /\ fns)) /\ Return("ALREADY_SPENT")
      \/ /\ ~(conflict \/ (fs /\ fns))
         /\ val' = [val EXCEPT !.i = @ + 1, !.found_spent = fs, !.found_not_spent = fns, !.commitnum = cn]
  BY DEF CheckInput
<1>2. val \in ValRec /\ Began /\ Aged /\ txs["tx"].level < Len(roots) /\ Kind # "mint" /\ Seen
  BY DEF Going, Passed
<1>3. /\ val.i \in Nat /\ val.i >= 1 /\ val.i \in DOMAIN TxIns /\ val.i + 1 \in 1 .. Len(TxIns) + 1
      /\ Len(TxIns) \in Nat /\ \A j \in 1 .. val.i - 1 : j \in DOMAIN TxIns /\ j # val.i
  <2>1. TxIns \in Seq(AnySerial) /\ val.i \in Nat
    BY <1>2, SerialsAre DEF DbOK, ValRec
  <2>2. val.i \in 1 .. Len(TxIns) + 1
    BY <1>2 DEF Seen
  <2> QED BY <2>1, <2>2
<1>4. /\ s \in TxInputs \/ s = "address"
      /\ Kind # "sell" => /\ TxIns = SerialsOf(txs["tx"], "tx", TRUE)
                          /\ \A i \in DOMAIN TxIns : TxIns[i] \in TxInputs
  BY <1>3, SerialsAre DEF DbOK, Kind, TxInputs
<1>5. spent => s # "address"
  <2>1. ASSUME NEW z \in DOMAIN serials PROVE z # "address"
    <3>1. PICK id \in Ids : z \in InputsOf(txs[id], id)
      BY DEF DbOK, TableOK
    <3>2. InputsOf(txs[id], id) \subseteq AnyInput \cup Ids
      BY SerialsAre DEF DbOK
    <3> QED BY <3>1, <3>2 DEF AnyInput, Ids
  <2> QED BY <2>1
<1>6. spent => serials[s].by \in chain /\ serials[s].commitnum \in Nat /\ serials[s].commitnum < Len(roots)
  <2>1. Len(roots) \in Nat
    BY DEF DbOK
  <2>2. spent => serials[s].by \in chain /\ serials[s].commitnum \in 1 .. Len(roots) - 1
    BY DEF DbOK, TableOK
  <2> QED BY <2>1, <2>2
<1>7. "tx" \in val.chain0 => "tx" \in chain /\ InTable("tx")
  BY <1>2, OldTx
\* An earlier transaction of the chain finds all its inputs
<1>8. "tx" \in val.chain0 /\ Kind # "sell" => spent /\ ~(\E j \in 1 .. val.i - 1 : TxIns[j] = s)
  <2>1. "tx" \in val.chain0 /\ Kind # "sell" => Distinct(TxIns) /\ s \in TxInputs /\ \A z \in TxInputs : z \in DOMAIN serials
    BY <1>3, <1>4, <1>7 DEF InTable, TxInputs
  <2> QED BY <1>3, <2>1 DEF Distinct
\* Its own serial numbers have one commitnum
<1>9. spent /\ serials[s].by = "tx" /\ val.found_spent => serials[s].commitnum = val.commitnum
  <2>1. \A x, z \in DOMAIN serials : serials[x].by = serials[z].by => serials[x].commitnum = serials[z].commitnum
    BY DEF DbOK, TableOK
  <2> QED BY <1>2, <2>1 DEF Seen
<1>10. conflict => s \in TxInputs /\ s \in DOMAIN serials /\ serials[s].by # "tx"
  BY <1>4, <1>5, <1>9
<1>11. ~conflict /\ fs => "tx" \in chain
  BY <1>2, <1>6 DEF Seen
<1>12. CASE (\E j \in 1 .. val.i - 1 : TxIns[j] = s) /\ Return("DUPLICATE_SERIALNUM")
  <2>1. ~("tx" \in val.chain0 /\ Kind \in {"pay", "xpay"})
    BY <1>8, <1>12
  <2> QED BY <1>12, <2>1, RefusalKeeps DEF Codes
<1>13. CASE (conflict \/ (fs /\ fns)) /\ Return("ALREADY_SPENT")
  <2>1. "tx" \in val.chain0 /\ Kind # "sell" => ~fns
    BY <1>2, <1>8 DEF Seen
  <2>2. conflict => \E z \in DOMAIN serials : z \in TxInputs /\ serials[z].by # "tx"
    BY <1>10
  <2>3. ~conflict => "tx" \in chain /\ ("tx" \notin val.chain0 \/ Kind = "sell")
    BY <1>11, <1>13, <2>1
  <2>4. "tx" \in val.chain0 /\ Kind \in {"pay", "xpay"} => FALSE
    <3> SUFFICES ASSUME "tx" \in val.chain0, Kind \in {"pay", "xpay"} PROVE FALSE
      OBVIOUS
    <3>1. s \in TxInputs /\ spent
      BY <1>3, <1>4, <1>8
    <3>2. serials[s].by = "tx"
      BY <1>7, <3>1 DEF InTable, TxInputs
    <3>3. ~conflict
      BY <1>10, <3>2
    <3> QED BY <2>3, <3>3
  <2>5. Answer("ALREADY_SPENT")
    <3> HIDE DEF s, conflict, fs, fns
    <3> QED BY <2>2, <2>3, <2>4 DEF Answer
  <2> QED BY <1>13, <2>5, ReturnKeeps DEF Codes
<1>14. CASE /\ ~(conflict \/ (fs /\ fns))
            /\ val' = [val EXCEPT !.i = @ + 1, !.found_spent = fs, !.found_not_spent = fns, !.commitnum = cn]
  <2>1. fs \in BOOLEAN /\ fns \in BOOLEAN /\ cn \in Nat /\ cn < Len(roots)
    BY <1>2, <1>6 DEF ValRec, Began
  <2>2. PICK f \in BOOLEAN : f = fs
    BY <2>1
  <2>3. PICK g \in BOOLEAN : g = fns
    BY <2>1
  <2>4. PICK n \in Nat : n = cn
    BY <2>1
  <2>5. PICK k \in Nat : k = val.i + 1
    BY <1>3
  <2>6. val' = [val EXCEPT !.i = k, !.found_spent = f, !.found_not_spent = g, !.commitnum = n]
    BY <1>14, <2>2, <2>3, <2>4, <2>5
  <2>7. /\ val' \in ValRec /\ val'.pc = "serials" /\ val'.i = k /\ val'.found_spent = f /\ val'.found_not_spent = g /\ val'.commitnum = n
        /\ val'.chain0 = val.chain0 /\ val'.spent0 = val.spent0 /\ val'.started = val.started /\ val'.prior_blocktime = val.prior_blocktime
    BY <1>2, <2>6 DEF ValRec
  <2>8. txs' = txs /\ chain' = chain /\ serials' = serials /\ roots' = roots
    BY DEF Reads
  <2>9. Began'
    BY <1>2, <2>1, <2>4, <2>7, <2>8 DEF Began
  <2>10. Kind' = Kind /\ TxIns' = TxIns /\ Aged'
    BY <1>2, <2>7, <2>8 DEF Kind, TxIns, Aged
  <2>11. ~f => \A j \in 1 .. k - 1 : TxIns[j] \notin val.spent0
    <3>1. ~f => ~val.found_spent /\ s \notin DOMAIN serials
      BY <2>2
    <3>2. ~f => s \notin val.spent0 /\ \A j \in 1 .. val.i - 1 : TxIns[j] \notin val.spent0
      BY <1>2, <3>1 DEF Began, Seen
    <3>3. \A j \in 1 .. k - 1 : j \in 1 .. val.i - 1 \/ j = val.i
      BY <1>3, <2>5
    <3> QED BY <3>2, <3>3
  <2>12. f => "tx" \in chain /\ \E z \in DOMAIN serials : serials[z].by = "tx" /\ serials[z].commitnum = n
    <3>1. f => "tx" \in chain
      BY <1>11, <1>14, <2>2
    <3>2. CASE val.found_spent
      BY <1>2, <2>4, <3>1, <3>2 DEF Seen
    <3>3. CASE ~val.found_spent /\ spent
      BY <1>14, <2>4, <3>1, <3>3
    <3>4. CASE ~val.found_spent /\ ~spent
      BY <2>2, <3>4
    <3> QED BY <3>2, <3>3, <3>4
  <2>13. "tx" \in val.chain0 /\ Kind # "sell" => ~g /\ (k > 1 => f)
    BY <1>2, <1>8, <2>2, <2>3 DEF Seen
  <2>14. Seen'
    BY <1>3, <2>5, <2>7, <2>8, <2>10, <2>11, <2>12, <2>13 DEF Seen
  <2>15. Passed(val.pc)'
    BY <1>2, <2>7, <2>8, <2>10, <2>14 DEF Passed
  <2> QED BY <2>7, <2>9, <2>15 DEF Going
<1> QED BY <1>1, <1>12, <1>13, <1>14

\* The end of the loop, with what all inputs were
LEMMA LastKeeps == ASSUME DbOK, Going, Reads, val.pc = "serials", ~(val.i <= Len(TxIns)), AfterInputs PROVE Going'
<1>1. val \in ValRec /\ Began /\ Aged /\ txs["tx"].level < Len(roots) /\ Kind # "mint" /\ Seen
  BY DEF Going, Passed
<1>2. /\ TxIns \in Seq(AnySerial) /\ TxInputs \subseteq {TxIns[i] : i \in DOMAIN TxIns}
      /\ Kind \in {"pay", "xpay"} => Len(TxIns) >= 1
  BY SerialsAre DEF DbOK, Kind, TxInputs
<1>3. val.i = Len(TxIns) + 1 /\ Len(TxIns) \in Nat /\ DOMAIN TxIns = 1 .. val.i - 1
  BY <1>1, <1>2 DEF Seen
<1>4. ~val.found_spent => TxInputs \cap val.spent0 = {}
  <2>1. ~val.found_spent => \A j \in DOMAIN TxIns : TxIns[j] \notin val.spent0
    BY <1>1, <1>3 DEF Seen
  <2> QED BY <1>2, <2>1
<1>5. ~val.found_spent /\ Kind \in {"pay", "xpay"} => "tx" \notin val.chain0
  BY <1>1, <1>2, <1>3 DEF Seen
<1>6. CASE val.found_spent /\ Return("duplicate")
  <2>1. Answer("duplicate")
    BY <1>1 DEF Answer
  <2> QED BY <1>6, <2>1, ReturnKeeps DEF Codes
<1>7. CASE ~val.found_spent /\ Return("ALREADY_PAID")
  BY <1>5, <1>7, RefusalKeeps DEF Codes
<1>8. CASE ~val.found_spent /\ Kind = "xpay" /\ val' = [val EXCEPT !.pc = "foreign"]
  <2>1. Passed("foreign")
    BY <1>1, <1>4, <1>5, <1>8 DEF Passed
  <2> QED BY <1>8, <2>1, MoveKeeps DEF Pcs
<1>9. CASE ~val.found_spent /\ Return("ok")
  <2>1. Answer("ok")
    BY <1>1, <1>4, <1>5, <1>9 DEF Answer
  <2> QED BY <1>9, <2>1, ReturnKeeps DEF Codes
<1> QED BY <1>6, <1>7, <1>8, <1>9 DEF AfterInputs, Kind

LEMMA SerialsKeep == ASSUME DbOK, Going, CheckSerials PROVE Going'
<1>1. CheckCreatePseudoSerialnum("tx", FALSE) = TxIns
  BY SerialsOfTx DEF TxIns
<1>2. val.pc = "serials" /\ Reads /\ IF val.i <= Len(TxIns) THEN CheckInput(TxIns) ELSE AfterInputs
  BY <1>1 DEF CheckSerials
<1> QED BY <1>2, InputKeeps, LastKeeps

\* Every step keeps what the validation knows
LEMMA IValStep == ASSUME IVal, [ValNext]_valVars PROVE IVal'
<1>1. DbOK' /\ DbGrows
  BY DbStep DEF IVal
<1>2. CASE val' = val
  BY <1>1, <1>2, RestKeeps DEF IVal
<1>3. CASE BeginValidate
  <2>1. val = [pc |-> "idle"]
    BY <1>3 DEF BeginValidate, IVal, Going, ValRec, Pcs
  <2> QED BY <1>1, <1>3, <2>1, Begins DEF IVal
<1>4. CASE ValidateFormat \/ ValidateXpay \/ ValidateXreq \/ ValidateDonation \/ CheckRootAge \/ LookUpRoot \/ CheckSerials \/ ValidateForeign
  <2>1. val.pc # "idle"
    BY <1>4 DEF ValidateFormat, ValidateXpay, ValidateXreq, ValidateDonation, CheckRootAge, LookUpRoot, CheckSerials, ValidateForeign
  <2>2. DbOK /\ Going
    BY <2>1 DEF IVal
  <2>3. Going'
    BY <1>4, <2>2, FormatKeeps, XpayKeeps, XreqKeeps, DonationKeeps, AgeKeeps, RootKeeps, SerialsKeep, ForeignKeeps
  <2> QED BY <1>1, <2>3 DEF IVal
<1>5. CASE ValidateAgain
  BY <1>1, <1>5 DEF ValidateAgain, IVal
<1>6. CASE Block \/ RequestEnds \/ ForeignBlock \/ UNCHANGED valVars
  <2>1. val' = val
    BY <1>6 DEF Block, RequestEnds, ForeignBlock, valVars
  <2> QED BY <1>2, <2>1
<1> QED BY <1>3, <1>4, <1>5, <1>6 DEF ValNext

\* What IVal says of an answer is what the properties ask for
LEMMA IValSuffices == ASSUME IVal PROVE ValInv
<1>1. TxInputs = Inputs("tx") /\ CheckCreatePseudoSerialnum("tx", FALSE) = TxIns
  BY SerialsOfTx DEF TxInputs, TxIns
<1>2. Len(roots) \in Nat /\ txs["tx"].level \in Nat /\ \A i \in 1 .. Len(roots) : roots[i] = i - 1
  BY DEF IVal, DbOK, TxOK, Ids
<1>3. val.pc # "idle" => Going
  BY DEF IVal
<1>4. ValTypeOK
  <2>1. /\ chain \subseteq Ids /\ holders \subseteq Ids /\ fconf \in 0 .. Confirmations /\ xmatch \in {"accepted", "paid", "expired"}
        /\ Len(roots) \in 1 .. MaxTime + 1
    BY DEF IVal, DbOK
  <2>2. ASSUME NEW s \in DOMAIN serials
        PROVE  serials[s].by \in chain /\ s \in Inputs(serials[s].by) /\ serials[s].commitnum \in 1 .. Time
    <3>1. serials[s].by \in chain /\ s \in InputsOf(txs[serials[s].by], serials[s].by) /\ serials[s].commitnum \in 1 .. Len(roots) - 1
      BY DEF IVal, DbOK, TableOK
    <3> QED BY <3>1, SerialsOfTx DEF Time
  <2>3. val.pc \in {"idle", "format", "xpay", "xreq", "donation", "age", "root", "serials", "foreign", "done"}
    <3>1. val.pc = "idle" \/ val.pc \in Pcs
      BY <1>3 DEF Going, ValRec
    <3> QED BY <3>1 DEF Pcs
  <2>4. val.pc = "serials" => val.i <= Len(CheckCreatePseudoSerialnum("tx", FALSE)) + 1 /\ val.commitnum <= Time
    <3> SUFFICES ASSUME val.pc = "serials" PROVE val.i <= Len(TxIns) + 1 /\ val.commitnum <= Time
      BY <1>1
    <3>1. val \in ValRec /\ Began /\ Seen
      BY <1>3 DEF Going, Passed
    <3>2. val.i \in 1 .. Len(TxIns) + 1 /\ val.commitnum < Len(roots) /\ val.commitnum \in Nat
      BY <3>1 DEF Began, Seen, ValRec
    <3>3. TxIns \in Seq(AnySerial)
      BY SerialsAre DEF IVal, DbOK
    <3> QED BY <1>2, <3>2, <3>3 DEF Time
  <2> QED BY <2>1, <2>2, <2>3, <2>4 DEF ValTypeOK
<1>5. \A code : Result(code) => Going /\ Answer(code) /\ val.result = code
  BY <1>3 DEF Result, Going, Passed
<1>6. AcceptedUnspent
  BY <1>1, <1>5 DEF AcceptedUnspent, Answer, Kind
<1>7. FreshRoot
  <2> DEFINE level == txs["tx"].level
  <2> SUFFICES ASSUME Result("ok") \/ Result("duplicate"), ~TypeHasBareMsg(txs["tx"].kind)
               PROVE  /\ level < Len(roots)
                      /\ \A l \in level + 1 .. Len(roots) - 1 : roots[l + 1] <= val.started => val.prior_blocktime <= roots[l + 1] + MaxParamAge
    BY DEF FreshRoot
  <2>1. level < Len(roots) /\ (val.started < level + 1 \/ val.prior_blocktime <= level + 1 + MaxParamAge)
    BY <1>5 DEF Answer, Aged, Kind
  <2>2. val.started \in Nat /\ val.prior_blocktime \in Nat /\ MaxParamAge \in Nat
    BY <1>5, TxValidateAssumption DEF Going, ValRec
  <2>3. ASSUME NEW l \in level + 1 .. Len(roots) - 1 PROVE roots[l + 1] = l /\ l >= level + 1 /\ l \in Nat
    BY <1>2
  <2> QED BY <1>2, <2>1, <2>2, <2>3
<1>8. DuplicateKnown
  <2>1. val.pc = "done" => Answer(val.result)
    BY <1>3 DEF Going, Passed
  <2> QED BY <2>1 DEF DuplicateKnown, Answer, Kind
<1>9. ConflictIsReal
  BY <1>1, <1>5 DEF ConflictIsReal, Answer, Kind
<1> QED BY <1>4, <1>6, <1>7, <1>8, <1>9 DEF ValInv

\* Whatever blocks become indelible between the reads of TxValidate, its answer is true of some moment of the
\* validation: what it accepts was not spent and had a root that is not too old, a transaction of the
\* chain is known, and a conflict is one (processtx.cpp, TxValidate).
THEOREM ValidationCorrect == ValSpec => []ValInv
<1>1. ValInit => IVal
  BY DbInit DEF ValInit, IVal
<1>2. IVal /\ [ValNext]_valVars => IVal'
  BY IValStep
<1>3. IVal => ValInv
  BY IValSuffices
<1> QED BY <1>1, <1>2, <1>3, PTL DEF ValSpec
=============================================================================
