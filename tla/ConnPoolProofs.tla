--------------------------- MODULE ConnPoolProofs ---------------------------
(***************************************************************************)
(* Proofs about module ConnPool, for any number of connections, threads,   *)
(* uses and messages and any limit on incoming connections.                *)
(*                                                                         *)
(* PoolInv is not inductive.  The invariant PoolIInv says of every         *)
(* connection that m_ops_pending counts exactly the operations that are    *)
(* pending and the references that threads hold; that one operation or one *)
(* thread at a time leads to its next read, so that no second read or      *)
(* write is started; that HandleStop is posted or running when it is       *)
(* stopping and not referenced, and once; that it is idle when it is       *)
(* freed; that nobody stops it before it is started, for no validation     *)
(* under way has its m_use_count; and of every thread what is left of its  *)
(* handler and which references it holds at each instruction.              *)
(***************************************************************************)
EXTENDS ConnPool, FiniteSetTheorems, SequenceTheorems, TLAPS

\* The operations of a connection that hold a reference
Regs == {"start", "timer", "aborted", "read", "write", "proxyWrite", "proxyRead"}

\* Instructions that start an operation, that take a reference for one, and all instructions of its handlers
Gos == {"goTimer", "goRead", "goWrite", "goProxyWrite", "goProxyRead"}
Incs == {"incTimer", "incRead", "incWrite"}
WorkInstr == Gos \cup Incs \cup {"cancelTimer", "validate", "stop"}

\* The handlers that are not one of an operation, by how many instructions are left
FinishAt == [n \in 0 .. 3 |-> IF n = 0 THEN "acceptMore" ELSE IF n = 1 THEN "free" ELSE IF n = 2 THEN "stopped" ELSE "bump"]
AcceptAt == [n \in 0 .. 2 |-> IF n = 0 THEN "acceptNext" ELSE IF n = 1 THEN "postStart" ELSE "incStart"]
ConnectAt == [n \in 0 .. 1 |-> IF n = 0 THEN "postStart" ELSE "incStart"]

\* The instructions of the other handlers
RestInstr == {"incStart", "postStart", "acceptNext", "bump", "stopped", "free", "acceptMore"}

\* p is the last part of such a handler
RestOf(p, at) == p \in Seq(RestInstr) /\ \A n \in DOMAIN p : Len(p) - n \in DOMAIN at /\ p[n] = at[Len(p) - n]

\* The operations that lead to the next read of a connection; one of them at a time
DriveKinds == {"start", "read", "proxyWrite", "proxyRead"}
Drives == {"goRead", "goProxyWrite", "goProxyRead"}

\* What remains of the handler of an operation: a reference is taken right before an operation
\* is started, and nothing of this kind follows the operation that leads to the next read
WorkOK(p) ==
  /\ p \in Seq(WorkInstr)
  /\ \A n \in DOMAIN p : /\ p[n] \in Incs => n + 1 \in DOMAIN p /\ p[n + 1] \in Gos
                         /\ p[n] \in Gos /\ n > 1 => p[n - 1] \in Incs
  /\ \A m, n \in DOMAIN p : m < n => /\ p[m] \in Drives => p[n] \notin Drives \cup {"goTimer"}
                                     /\ p[m] = "goTimer" => p[n] # "goTimer"

\* A program that leads to the next read, and one that sets the timer
DrivesOn(p) == \E n \in DOMAIN p : p[n] \in Drives \cup {"goTimer"}
HasTimer(p) == \E n \in DOMAIN p : p[n] = "goTimer"

\* The members of a connection, of a thread and of a validation, and the types of all variables
ConnRec == [state : {"STOPPED", "CONNECTING", "CONNECTED", "STOPPING"}, stopping : {0, 1, Unused}, ops : Nat, useCount : Nat,
            use : Nat, free : BOOLEAN, incoming : BOOLEAN, writing : BOOLEAN, msgs : Nat]
ThrRec == [c : Conns \cup {NoConn}, prog : Seq(WorkInstr \cup RestInstr \cup Conns),
           refs : 0 .. 3, h : Regs \cup {"none", "finish", "accept", "connect", "stopAll"}]
TaskRec == [c : Conns, id : Nat, use : Nat]

PoolTypes ==
  /\ conn \in [Conns -> ConnRec] /\ pend \in [Conns -> [Kinds -> Nat]] /\ thr \in [Threads -> ThrRec] /\ tasks \subseteq TaskRec
  /\ newConn \in Conns \cup {NoConn} /\ inCount \in Nat /\ shutdown \in {"no", "wanted", "stopping", "done"} /\ uses \in Nat
  /\ avail \in Seq(Conns) /\ listening \in BOOLEAN /\ isOpen \in BOOLEAN

\* What a thread r is about to do: start a connection, finish it, free it, or look for one to accept into
Starting(r) == r.h \in {"accept", "connect"} /\ r.prog # <<>> /\ Head(r.prog) \in {"incStart", "postStart"}
Finishing(r) == r.h = "finish" /\ r.prog # <<>> /\ Head(r.prog) \in {"bump", "stopped"}
Freeing(r) == r.h = "finish" /\ r.prog # <<>> /\ Head(r.prog) = "free"
Accepting(r) == r.h = "accept" /\ r.prog # <<>>
Driver(r) == r.h \in Regs /\ DrivesOn(r.prog)
TimerAhead(r) == r.h \in Regs /\ HasTimer(r.prog)

(***************************************************************************)
(* What a thread r has left to do, and the references it holds, when S are *)
(* the connections that are not in use or stopping, and down says that the *)
(* node is being shut down.                                                *)
(***************************************************************************)
WorkerOK(r, S, down) ==
  /\ r.c \in Conns /\ WorkOK(r.prog) /\ r.refs \in 1 .. 3
  /\ r.prog # <<>> /\ Head(r.prog) \in Gos => r.refs = 3 \/ (r.refs = 2 /\ (r.c \in S \/ down))
  /\ r.prog # <<>> /\ Head(r.prog) \notin Gos => r.refs = 2 \/ (r.refs = 1 /\ r.prog = <<"stop">>)

\* A thread in HandleAccept or Connect
StarterOK(r, down) ==
  /\ r.c \in Conns /\ r.refs \in 0 .. 1
  /\ r.prog # <<>> /\ Head(r.prog) = "incStart" => r.refs = 0
  /\ r.prog # <<>> /\ Head(r.prog) = "postStart" => r.refs = 1 \/ down

\* A thread in Server::HandleStop: a connection that is still in use is ahead of it
StopperOK(r, S, down) ==
  /\ r.c = NoConn /\ r.refs = 0 /\ r.prog \in Seq(Conns) /\ down
  /\ \A c \in Conns : c \in S \/ \E n \in DOMAIN r.prog : r.prog[n] = c

\* A thread, by the handler it is in
ThreadOK(r, S, down) ==
  /\ r.h = "none" => r = Idle
  /\ r.h = "stopAll" => StopperOK(r, S, down)
  /\ r.h \in Regs => WorkerOK(r, S, down)
  /\ r.h = "finish" => r.c \in Conns /\ r.refs = 0 /\ RestOf(r.prog, FinishAt)
  /\ r.h = "accept" => StarterOK(r, down) /\ RestOf(r.prog, AcceptAt)
  /\ r.h = "connect" => StarterOK(r, down) /\ RestOf(r.prog, ConnectAt)

(***************************************************************************)
(* A connection c with the members cn and the pending operations pd, when  *)
(* the threads are T and the validations under way are K.                  *)
(***************************************************************************)
\* The references that threads hold on a connection
Held(T, c, n) == {t \in Threads : T[t].c = c /\ T[t].refs >= n}
HeldCount(T, c) == Cardinality(Held(T, c, 1)) + Cardinality(Held(T, c, 2)) + Cardinality(Held(T, c, 3))

\* The operations of a connection that are pending
PendCount(pd) == pd["start"] + pd["timer"] + pd["aborted"] + pd["read"] + pd["write"] + pd["proxyWrite"] + pd["proxyRead"]

\* Every reference is one of an operation that is pending or of a handler that runs
Counted(cn, pd, T, c) == cn.ops = PendCount(pd) + HeldCount(T, c)

\* How many operations of a kind can be pending
Bounded(cn, pd) ==
  /\ pd["start"] <= 1 /\ pd["read"] <= 1 /\ pd["proxyRead"] <= 1 /\ pd["finish"] <= 1
  /\ pd["timer"] + pd["aborted"] <= 1
  /\ pd["write"] + pd["proxyWrite"] <= 1
  /\ pd["write"] + pd["proxyWrite"] > 0 => cn.writing

\* Only one thing leads to the next read of a connection
OneDriver(pd, T, c) ==
  /\ \A k, j \in DriveKinds : pd[k] > 0 /\ pd[j] > 0 => k = j
  /\ \A t \in Threads : T[t].c = c /\ Driver(T[t]) => \A k \in DriveKinds : pd[k] = 0
  /\ \A t, u \in Threads : T[t].c = c /\ T[u].c = c /\ Driver(T[t]) /\ Driver(T[u]) => t = u
  /\ pd["start"] > 0 => pd["timer"] = 0 /\ pd["aborted"] = 0
  /\ \A t \in Threads : T[t].c = c /\ TimerAhead(T[t]) => pd["timer"] = 0 /\ pd["aborted"] = 0

\* HandleStop of a connection that is stopping is posted or runs, once, when nothing holds it
OneFinish(cn, pd, T, c) ==
  /\ cn.stopping = 1 /\ cn.ops = 0 => pd["finish"] = 1 \/ \E t \in Threads : T[t].c = c /\ Finishing(T[t])
  /\ pd["finish"] > 0 => cn.stopping = 1 /\ cn.ops = 0
  /\ \A t \in Threads : T[t].c = c /\ Finishing(T[t]) => cn.stopping = 1 /\ cn.ops = 0 /\ pd["finish"] = 0
  /\ \A t, u \in Threads : T[t].c = c /\ T[u].c = c /\ Finishing(T[t]) /\ Finishing(T[u]) => t = u

\* Between uses
UnusedOK(cn, T, c) ==
  /\ cn.free => cn.stopping = Unused
  /\ cn.stopping = Unused => cn.state = "STOPPED" /\ cn.ops = 0
  /\ \A t \in Threads : T[t].c = c /\ Freeing(T[t]) => cn.stopping = Unused /\ ~cn.free
  /\ \A t, u \in Threads : T[t].c = c /\ T[u].c = c /\ Freeing(T[t]) /\ Freeing(T[u]) => t = u

\* Nobody can stop a connection before it is started
StartOK(cn, pd, T, K, down, c) ==
  \A t \in Threads : T[t].c = c /\ Starting(T[t]) =>
    /\ ~cn.free /\ \A k \in Regs : pd[k] = 0
    /\ \A u \in Threads : u # t /\ T[u].c = c => T[u].refs = 0 /\ ~Starting(T[u])
    /\ \A x \in K : x.c = c => x.id # cn.useCount
    /\ ~down => cn.stopping = 0

\* A validation with the current m_use_count is one of the current use
TasksOK(cn, T, K, c) ==
  \A x \in K : x.c = c =>
    /\ x.id <= cn.useCount
    /\ x.id = cn.useCount => x.use = cn.use /\ cn.stopping # Unused
    /\ x.id = cn.useCount => \A t \in Threads : T[t].c = c /\ Finishing(T[t]) => Head(T[t].prog) = "bump"

\* All that is claimed of a connection
ConnOK(cn, pd, T, K, down, c) ==
  /\ Counted(cn, pd, T, c) /\ Bounded(cn, pd) /\ OneDriver(pd, T, c) /\ OneFinish(cn, pd, T, c)
  /\ UnusedOK(cn, T, c) /\ StartOK(cn, pd, T, K, down, c) /\ TasksOK(cn, T, K, c)

\* The connection that waits to be accepted into
AcceptOK ==
  /\ \A t, u \in Threads : Accepting(thr[t]) /\ Accepting(thr[u]) => t = u
  /\ \A t \in Threads : Accepting(thr[t]) => newConn # NoConn
  /\ listening => newConn # NoConn /\ isOpen /\ \A t \in Threads : ~Accepting(thr[t])
  /\ isOpen /\ newConn # NoConn /\ (\A t \in Threads : ~Accepting(thr[t])) =>
       /\ ~conn[newConn].free /\ conn[newConn].stopping = Unused
       /\ \A t \in Threads : thr[t].c = newConn => ~Freeing(thr[t])
  /\ isOpen /\ ~Down /\ newConn = NoConn /\ CanGet(TRUE) => \E t \in Threads : thr[t].h \in {"finish", "accept"} /\ thr[t].prog # <<>>

\* The incoming connections that are not in the pool
Busy == {c \in Conns : ~conn[c].free /\ conn[c].incoming}

\* The free list, and the number of incoming connections
PoolOK ==
  /\ \A c \in Conns : conn[c].free <=> \E n \in DOMAIN avail : avail[n] = c
  /\ \A m, n \in DOMAIN avail : avail[m] = avail[n] => m = n
  /\ inCount = Cardinality(Busy) /\ inCount <= MaxIncoming

\* The connections that nobody can start an operation on
NotInUse == {c \in Conns : conn[c].stopping # 0}

\* The inductive invariant
PoolIInv ==
  /\ PoolTypes /\ AcceptOK /\ PoolOK
  /\ \A t \in Threads : ThreadOK(thr[t], NotInUse, Down)
  /\ \A c \in Conns : ConnOK(conn[c], pend[c], thr, tasks, Down, c)

-----------------------------------------------------------------------------
(* What remains of a handler.                                                *)

\* What is left of the handler of an operation (HandleStart to HandleTimeout) after its next instruction is such a rest again
LEMMA TailWork ==
  ASSUME NEW p, WorkOK(p), p # <<>>
  PROVE  /\ WorkOK(Tail(p)) /\ Head(p) \in WorkInstr
         /\ DrivesOn(Tail(p)) => DrivesOn(p)
         /\ HasTimer(Tail(p)) => HasTimer(p)
         /\ Head(p) \in Drives => DrivesOn(p) /\ ~DrivesOn(Tail(p))
         /\ Head(p) = "goTimer" => DrivesOn(p) /\ HasTimer(p) /\ ~HasTimer(Tail(p))
         /\ Head(p) \in Incs => Tail(p) # <<>> /\ Head(Tail(p)) \in Gos
         /\ Tail(p) # <<>> /\ Head(Tail(p)) \in Gos => Head(p) \in Incs
<1> DEFINE q == Tail(p)
<1>1. p \in Seq(WorkInstr) /\ Len(p) \in Nat /\ Len(p) >= 1 /\ DOMAIN p = 1 .. Len(p) /\ Head(p) = p[1] /\ p[1] \in WorkInstr
  BY DEF WorkOK
<1>2. /\ q \in Seq(WorkInstr) /\ DOMAIN q = 1 .. Len(p) - 1 /\ \A n \in 1 .. Len(p) - 1 : q[n] = p[n + 1] /\ n + 1 \in DOMAIN p
      /\ q # <<>> <=> Len(p) >= 2
  <2>1. q \in Seq(WorkInstr) /\ Len(q) = Len(p) - 1
    BY <1>1
  <2>2. \A n \in 1 .. Len(p) - 1 : q[n] = p[n + 1]
    BY <1>1
  <2>3. DOMAIN q = 1 .. Len(p) - 1
    BY <2>1
  <2>4. \A n \in 1 .. Len(p) - 1 : n + 1 \in DOMAIN p
    BY <1>1
  <2>5. \A z \in Seq(WorkInstr) : z # <<>> <=> Len(z) >= 1
    OBVIOUS
  <2> HIDE DEF q
  <2>6. q # <<>> <=> Len(q) >= 1
    BY <2>1, <2>5
  <2>7. Len(q) >= 1 <=> Len(p) >= 2
    BY <1>1, <2>1
  <2> QED BY <2>1, <2>2, <2>3, <2>4, <2>6, <2>7
<1>3. q # <<>> => Head(q) = p[2] /\ 2 \in DOMAIN p
  BY <1>1, <1>2
<1> HIDE DEF q
<1>4. \A n \in DOMAIN p : /\ p[n] \in Incs => n + 1 \in DOMAIN p /\ p[n + 1] \in Gos
                          /\ p[n] \in Gos /\ n > 1 => p[n - 1] \in Incs
  BY DEF WorkOK
<1>5. \A m, n \in DOMAIN p : m < n => /\ p[m] \in Drives => p[n] \notin Drives \cup {"goTimer"}
                                      /\ p[m] = "goTimer" => p[n] # "goTimer"
  BY DEF WorkOK
<1>6. ASSUME NEW n \in DOMAIN q
      PROVE  /\ q[n] \in Incs => n + 1 \in DOMAIN q /\ q[n + 1] \in Gos
             /\ q[n] \in Gos /\ n > 1 => q[n - 1] \in Incs
  <2>1. n \in 1 .. Len(p) - 1 /\ q[n] = p[n + 1] /\ n + 1 \in DOMAIN p
    BY <1>1, <1>2
  <2>2. q[n] \in Incs => n + 1 \in DOMAIN q /\ q[n + 1] \in Gos
    <3>1. p[n + 1] \in Incs => n + 2 \in DOMAIN p /\ p[n + 2] \in Gos
      <4>1. p[n + 1] \in Incs => (n + 1) + 1 \in DOMAIN p /\ p[(n + 1) + 1] \in Gos
        BY <1>4, <2>1
      <4>2. (n + 1) + 1 = n + 2
        BY <2>1
      <4> QED BY <4>1, <4>2
    <3>2. n + 2 \in DOMAIN p => n + 1 \in 1 .. Len(p) - 1
      BY <1>1, <2>1
    <3>3. n + 1 \in 1 .. Len(p) - 1 => q[n + 1] = p[n + 2]
      <4>1. n + 1 \in 1 .. Len(p) - 1 => q[n + 1] = p[(n + 1) + 1]
        BY <1>2
      <4>2. (n + 1) + 1 = n + 2
        BY <2>1
      <4> QED BY <4>1, <4>2
    <3> QED BY <1>2, <2>1, <3>1, <3>2, <3>3
  <2>3. q[n] \in Gos /\ n > 1 => q[n - 1] \in Incs
    <3> SUFFICES ASSUME q[n] \in Gos, n > 1 PROVE q[n - 1] \in Incs
      OBVIOUS
    <3>1. p[n + 1] \in Gos /\ n + 1 > 1 /\ (n + 1) - 1 = n
      BY <1>1, <2>1
    <3>2. p[n] \in Incs
      BY <1>4, <2>1, <3>1
    <3>3. n - 1 \in 1 .. Len(p) - 1 /\ (n - 1) + 1 = n
      BY <1>1, <2>1
    <3> QED BY <1>2, <3>2, <3>3
  <2> QED BY <2>2, <2>3
<1>7. ASSUME NEW m \in DOMAIN q, NEW n \in DOMAIN q, m < n
      PROVE  /\ q[m] \in Drives => q[n] \notin Drives \cup {"goTimer"}
             /\ q[m] = "goTimer" => q[n] # "goTimer"
  <2>1. q[n] = p[n + 1] /\ n + 1 \in DOMAIN p /\ q[m] = p[m + 1] /\ m + 1 \in DOMAIN p /\ m + 1 < n + 1
    BY <1>1, <1>2, <1>7
  <2> QED BY <1>5, <2>1
<1>8. WorkOK(q)
  BY <1>2, <1>6, <1>7 DEF WorkOK
<1>9. \A n \in DOMAIN q : n + 1 \in DOMAIN p /\ q[n] = p[n + 1] /\ 1 < n + 1 /\ 1 \in DOMAIN p
  BY <1>1, <1>2
<1>10. (DrivesOn(q) => DrivesOn(p)) /\ (HasTimer(q) => HasTimer(p))
  BY <1>9 DEF DrivesOn, HasTimer
<1>11. Head(p) \in Drives => DrivesOn(p) /\ ~DrivesOn(q)
  BY <1>1, <1>5, <1>9 DEF DrivesOn
<1>12. Head(p) = "goTimer" => DrivesOn(p) /\ HasTimer(p) /\ ~HasTimer(q)
  BY <1>1, <1>5, <1>9 DEF DrivesOn, HasTimer
<1>13. Head(p) \in Incs => q # <<>> /\ Head(q) \in Gos
  <2>1. p[1] \in Incs => 2 \in DOMAIN p /\ p[2] \in Gos
    <3>1. 1 \in DOMAIN p /\ 1 + 1 = 2
      BY <1>1
    <3> QED BY <1>4, <3>1
  <2>2. 2 \in DOMAIN p => Len(p) >= 2
    BY <1>1
  <2> QED BY <1>1, <1>2, <1>3, <2>1, <2>2
<1>14. q # <<>> /\ Head(q) \in Gos => Head(p) \in Incs
  <2>1. 2 \in DOMAIN p /\ p[2] \in Gos => p[2 - 1] \in Incs
    BY <1>4
  <2>2. 2 - 1 = 1
    OBVIOUS
  <2> QED BY <1>1, <1>3, <2>1, <2>2
<1> QED BY <1>1, <1>8, <1>10, <1>11, <1>12, <1>13, <1>14 DEF q

\* The programs of a handler
LEMMA ProgramsOK ==
  ASSUME NEW c, NEW k \in Regs, NEW p \in Programs(c, k)
  PROVE  /\ WorkOK(p) /\ (DrivesOn(p) => k \in DriveKinds) /\ (HasTimer(p) => k = "start")
         /\ p # <<>> => Head(p) \notin Gos
<1> DEFINE Good(q, drives, timer) == /\ WorkOK(q) /\ (DrivesOn(q) => drives) /\ (HasTimer(q) => timer)
                                     /\ (q # <<>> => Head(q) \notin Gos)
<1>1. ASSUME NEW q, q = <<>> PROVE Good(q, FALSE, FALSE)
  BY <1>1 DEF WorkOK, DrivesOn, HasTimer
<1>2. ASSUME NEW q, q = <<"stop">> PROVE Good(q, FALSE, FALSE)
  <2>1. q \in Seq(WorkInstr) /\ DOMAIN q = {1} /\ q[1] = "stop" /\ Head(q) = "stop"
    BY <1>2 DEF WorkInstr
  <2> QED BY <2>1 DEF WorkOK, DrivesOn, HasTimer, Gos, Incs, Drives
<1>3. ASSUME NEW q, NEW i \in {"cancelTimer", "validate"}, q = <<i, "incRead", "goRead">> PROVE Good(q, TRUE, FALSE)
  <2>1. /\ q \in Seq(WorkInstr) /\ DOMAIN q = {1, 2, 3} /\ q[1] \in {"cancelTimer", "validate"} /\ q[2] = "incRead" /\ q[3] = "goRead"
        /\ Head(q) = q[1]
    BY <1>3 DEF WorkInstr, Gos, Incs
  <2> QED BY <2>1 DEF WorkOK, DrivesOn, HasTimer, Gos, Incs, Drives
<1>4. ASSUME NEW q, q = <<"incTimer", "goTimer">> \o StartConnection PROVE Good(q, TRUE, TRUE)
  <2>1. /\ q \in Seq(WorkInstr) /\ DOMAIN q = {1, 2, 3, 4, 5} /\ q[1] = "incTimer" /\ q[2] = "goTimer" /\ q[3] = "cancelTimer"
        /\ q[4] = "incRead" /\ q[5] = "goRead" /\ Head(q) = q[1]
    <3>1. PICK a : a = <<"incTimer", "goTimer">>
      OBVIOUS
    <3>2. PICK b : b = StartConnection
      OBVIOUS
    <3>3. a \in Seq(WorkInstr) /\ Len(a) = 2 /\ a[1] = "incTimer" /\ a[2] = "goTimer"
      BY <3>1 DEF WorkInstr, Gos, Incs
    <3>4. b \in Seq(WorkInstr) /\ Len(b) = 3 /\ b[1] = "cancelTimer" /\ b[2] = "incRead" /\ b[3] = "goRead"
      BY <3>2 DEF StartConnection, WorkInstr, Gos, Incs
    <3>5. q = a \o b
      BY <1>4, <3>1, <3>2
    <3>6. q \in Seq(WorkInstr) /\ Len(q) = 5
      <4>1. q \in Seq(WorkInstr) /\ Len(q) = Len(a) + Len(b)
        BY <3>3, <3>4, <3>5, ConcatProperties, Zenon
      <4> QED BY <3>3, <3>4, <4>1
    <3>7. q[1] = a[1] /\ q[2] = a[2] /\ q[3] = b[1] /\ q[4] = b[2] /\ q[5] = b[3]
      <4>1. \A i \in 1 .. Len(a) + Len(b) : q[i] = IF i <= Len(a) THEN a[i] ELSE b[i - Len(a)]
        BY <3>3, <3>4, <3>5, ConcatProperties
      <4> QED BY <3>3, <3>4, <4>1
    <3>8. DOMAIN q = {1, 2, 3, 4, 5} /\ Head(q) = q[1]
      BY <3>6
    <3> QED BY <3>3, <3>4, <3>6, <3>7, <3>8
  <2> QED BY <2>1 DEF WorkOK, DrivesOn, HasTimer, Gos, Incs, Drives
<1>5. ASSUME NEW q, q = <<"incTimer", "goTimer", "stop">> PROVE Good(q, TRUE, TRUE)
  <2>1. /\ q \in Seq(WorkInstr) /\ DOMAIN q = {1, 2, 3} /\ q[1] = "incTimer" /\ q[2] = "goTimer" /\ q[3] = "stop" /\ Head(q) = q[1]
    BY <1>5 DEF WorkInstr, Gos, Incs
  <2> QED BY <2>1 DEF WorkOK, DrivesOn, HasTimer, Gos, Incs, Drives
<1>6. ASSUME NEW q, q = <<"incTimer", "goTimer", "incWrite", "goProxyWrite">> PROVE Good(q, TRUE, TRUE)
  <2>1. /\ q \in Seq(WorkInstr) /\ DOMAIN q = {1, 2, 3, 4} /\ q[1] = "incTimer" /\ q[2] = "goTimer" /\ q[3] = "incWrite"
        /\ q[4] = "goProxyWrite" /\ Head(q) = q[1]
    BY <1>6 DEF WorkInstr, Gos, Incs
  <2> QED BY <2>1 DEF WorkOK, DrivesOn, HasTimer, Gos, Incs, Drives
<1>7. ASSUME NEW q, q = <<"incWrite", "goWrite", "incRead", "goRead">> PROVE Good(q, TRUE, FALSE)
  <2>1. /\ q \in Seq(WorkInstr) /\ DOMAIN q = {1, 2, 3, 4} /\ q[1] = "incWrite" /\ q[2] = "goWrite" /\ q[3] = "incRead"
        /\ q[4] = "goRead" /\ Head(q) = q[1]
    BY <1>7 DEF WorkInstr, Gos, Incs
  <2> QED BY <2>1 DEF WorkOK, DrivesOn, HasTimer, Gos, Incs, Drives
<1>8. ASSUME NEW q, q = <<"incRead", "goProxyRead">> PROVE Good(q, TRUE, FALSE)
  <2>1. q \in Seq(WorkInstr) /\ DOMAIN q = {1, 2} /\ q[1] = "incRead" /\ q[2] = "goProxyRead" /\ Head(q) = q[1]
    BY <1>8 DEF WorkInstr, Gos, Incs
  <2> QED BY <2>1 DEF WorkOK, DrivesOn, HasTimer, Gos, Incs, Drives
<1> HIDE DEF Good
<1>9. Good(p, k \in DriveKinds, k = "start")
  <2>1. CASE k = "start"
    <3>1. p \in {StartConnection, <<"incTimer", "goTimer">> \o StartConnection, <<"incTimer", "goTimer", "stop">>,
                 <<"incTimer", "goTimer", "incWrite", "goProxyWrite">>}
      BY <2>1 DEF Programs, StartPrograms
    <3>2. p = StartConnection => Good(p, TRUE, FALSE)
      BY <1>3 DEF StartConnection
    <3>3. Good(p, TRUE, FALSE) \/ Good(p, TRUE, TRUE)
      BY <1>4, <1>5, <1>6, <3>1, <3>2
    <3> QED BY <2>1, <3>3 DEF Good, DriveKinds
  <2>2. CASE k = "read"
    <3>1. p \in {<<"stop">>, <<"validate", "incRead", "goRead">>, <<"incWrite", "goWrite", "incRead", "goRead">>}
      BY <2>2 DEF Programs, ReadPrograms
    <3>2. Good(p, TRUE, FALSE) \/ Good(p, FALSE, FALSE)
      BY <1>2, <1>3, <1>7, <3>1
    <3> QED BY <2>2, <3>2 DEF Good, DriveKinds
  <2>3. CASE k \in {"proxyWrite", "proxyRead"}
    <3>1. p \in {<<"stop">>, <<"incRead", "goProxyRead">>, StartConnection}
      BY <2>3 DEF Programs, ProxyPrograms
    <3>2. Good(p, TRUE, FALSE) \/ Good(p, FALSE, FALSE)
      BY <1>2, <1>3, <1>8, <3>1 DEF StartConnection
    <3> QED BY <2>3, <3>2 DEF Good, DriveKinds
  <2>4. CASE k \in {"write", "timer", "aborted"}
    <3>1. p \in {<<>>, <<"stop">>}
      BY <2>4 DEF Programs, WritePrograms
    <3>2. Good(p, FALSE, FALSE)
      BY <1>1, <1>2, <3>1
    <3> QED BY <3>2 DEF Good
  <2> QED BY <2>1, <2>2, <2>3, <2>4 DEF Regs
<1> QED BY <1>9 DEF Good

-----------------------------------------------------------------------------
(* Counting references.                                                      *)

\* The references a thread holds on connection c
Own(r, c) == IF r.c = c THEN r.refs ELSE 0

\* When one thread moves, the references on a connection change by what that thread took or released (IncRef, DecRef)
LEMMA HeldChange ==
  ASSUME NEW T \in [Threads -> ThrRec], NEW U \in [Threads -> ThrRec], NEW t \in Threads, NEW c,
         \A u \in Threads : u # t => U[u] = T[u]
  PROVE  /\ HeldCount(T, c) \in Nat /\ HeldCount(U, c) \in Nat
         /\ HeldCount(U, c) + Own(T[t], c) = HeldCount(T, c) + Own(U[t], c)
<1> DEFINE One(r, n) == IF r.c = c /\ r.refs >= n THEN 1 ELSE 0
<1>1. ASSUME NEW n \in 1 .. 3
      PROVE  /\ Cardinality(Held(T, c, n)) \in Nat /\ Cardinality(Held(U, c, n)) \in Nat
             /\ Cardinality(Held(U, c, n)) + One(T[t], n) = Cardinality(Held(T, c, n)) + One(U[t], n)
  <2> DEFINE B == {u \in Threads : u # t /\ T[u].c = c /\ T[u].refs >= n}
  <2>1. IsFiniteSet(B)
    <3>1. B \subseteq Threads
      OBVIOUS
    <3> QED BY <3>1, PoolAssumption, FS_Subset
  <2>2. Cardinality(B) \in Nat /\ Cardinality(B \cup {t}) = Cardinality(B) + 1
    <3>1. t \notin B
      OBVIOUS
    <3> HIDE DEF B
    <3>2. Cardinality(B) \in Nat
      BY <2>1, FS_CardinalityType
    <3> QED BY <2>1, <3>1, <3>2, FS_AddElement
  <2>3. ASSUME NEW V \in [Threads -> ThrRec], \A u \in Threads : u # t => V[u] = T[u]
        PROVE  Cardinality(Held(V, c, n)) = Cardinality(B) + One(V[t], n)
    <3>1. CASE V[t].c = c /\ V[t].refs >= n
      <4>1. Held(V, c, n) = B \cup {t}
        BY <2>3, <3>1 DEF Held
      <4>2. One(V[t], n) = 1
        BY <3>1
      <4> QED BY <2>2, <4>1, <4>2
    <3>2. CASE ~(V[t].c = c /\ V[t].refs >= n)
      <4>1. Held(V, c, n) = B
        BY <2>3, <3>2 DEF Held
      <4>2. One(V[t], n) = 0
        BY <3>2
      <4> HIDE DEF B, One
      <4> QED BY <2>2, <4>1, <4>2
    <3> QED BY <3>1, <3>2
  <2> HIDE DEF B
  <2>4. Cardinality(Held(T, c, n)) = Cardinality(B) + One(T[t], n)
    BY <2>3
  <2>5. Cardinality(Held(U, c, n)) = Cardinality(B) + One(U[t], n)
    BY <2>3
  <2>6. One(T[t], n) \in Nat /\ One(U[t], n) \in Nat
    OBVIOUS
  <2> HIDE DEF One
  <2> QED BY <2>2, <2>4, <2>5, <2>6
<1>2. ASSUME NEW r \in ThrRec PROVE Own(r, c) = One(r, 1) + One(r, 2) + One(r, 3) /\ One(r, 1) \in Nat /\ One(r, 2) \in Nat /\ One(r, 3) \in Nat
  <2>1. r.refs \in 0 .. 3
    BY DEF ThrRec
  <2> QED BY <2>1 DEF Own
<1>3. T[t] \in ThrRec /\ U[t] \in ThrRec
  OBVIOUS
<1> HIDE DEF One
<1> QED BY <1>1, <1>2, <1>3 DEF HeldCount

\* When no references are held on a connection, none of the threads in its handlers holds one
LEMMA HeldPositive ==
  ASSUME NEW T \in [Threads -> ThrRec], NEW c
  PROVE  /\ HeldCount(T, c) \in Nat
         /\ HeldCount(T, c) = 0 => \A t \in Threads : T[t].c = c => T[t].refs = 0
<1>1. ASSUME NEW n \in 1 .. 3 PROVE IsFiniteSet(Held(T, c, n)) /\ Cardinality(Held(T, c, n)) \in Nat
  <2>1. Held(T, c, n) \subseteq Threads
    BY DEF Held
  <2>2. IsFiniteSet(Held(T, c, n))
    BY <2>1, PoolAssumption, FS_Subset
  <2> QED BY <2>2, FS_CardinalityType
<1>2. HeldCount(T, c) \in Nat
  BY <1>1 DEF HeldCount
<1>3. ASSUME HeldCount(T, c) = 0, NEW t \in Threads, T[t].c = c PROVE T[t].refs = 0
  <2>1. Cardinality(Held(T, c, 1)) = 0
    BY <1>1, <1>3 DEF HeldCount
  <2>2. Held(T, c, 1) = {}
    BY <1>1, <2>1, FS_EmptySet
  <2>3. T[t].refs \in 0 .. 3
    BY DEF ThrRec
  <2> QED BY <1>3, <2>2, <2>3 DEF Held
<1> QED BY <1>2, <1>3

\* What of a handler is left, for the three that are no operation's
LEMMA RestTail ==
  ASSUME NEW p, NEW at, RestOf(p, at), p # <<>>
  PROVE  /\ RestOf(Tail(p), at) /\ Len(p) \in Nat /\ Len(p) >= 1 /\ Len(p) - 1 \in DOMAIN at /\ Head(p) = at[Len(p) - 1]
         /\ Tail(p) # <<>> <=> Len(p) >= 2
         /\ Tail(p) # <<>> => Len(p) - 2 \in DOMAIN at /\ Head(Tail(p)) = at[Len(p) - 2]
<1> DEFINE q == Tail(p)
<1>1. p \in Seq(RestInstr) /\ Len(p) \in Nat /\ Len(p) >= 1 /\ DOMAIN p = 1 .. Len(p) /\ Head(p) = p[1]
  BY DEF RestOf
<1>2. q \in Seq(RestInstr) /\ Len(q) = Len(p) - 1 /\ \A n \in 1 .. Len(p) - 1 : q[n] = p[n + 1]
  <2>1. q \in Seq(RestInstr) /\ Len(q) = Len(p) - 1
    BY <1>1
  <2>2. \A n \in 1 .. Len(p) - 1 : q[n] = p[n + 1]
    BY <1>1
  <2> QED BY <2>1, <2>2
<1>3. \A n \in 1 .. Len(p) : Len(p) - n \in DOMAIN at /\ p[n] = at[Len(p) - n]
  BY <1>1 DEF RestOf
<1>4. \A z \in Seq(RestInstr) : (z # <<>> <=> Len(z) >= 1) /\ DOMAIN z = 1 .. Len(z) /\ (z # <<>> => Head(z) = z[1])
  OBVIOUS
<1> HIDE DEF q
<1>5. DOMAIN q = 1 .. Len(p) - 1 /\ (q # <<>> <=> Len(p) >= 2) /\ (q # <<>> => Head(q) = q[1])
  <2>1. DOMAIN q = 1 .. Len(q) /\ (q # <<>> <=> Len(q) >= 1) /\ (q # <<>> => Head(q) = q[1])
    BY <1>2, <1>4
  <2>2. Len(q) >= 1 <=> Len(p) >= 2
    BY <1>1, <1>2
  <2> QED BY <1>2, <2>1, <2>2
<1>6. ASSUME NEW n \in DOMAIN q PROVE Len(q) - n \in DOMAIN at /\ q[n] = at[Len(q) - n]
  <2>1. n \in 1 .. Len(p) - 1 /\ n + 1 \in 1 .. Len(p) /\ Len(p) - (n + 1) = Len(q) - n
    BY <1>1, <1>2, <1>5
  <2> QED BY <1>2, <1>3, <2>1
<1>7. RestOf(q, at)
  BY <1>2, <1>6 DEF RestOf
<1>8. Len(p) - 1 \in DOMAIN at /\ Head(p) = at[Len(p) - 1]
  BY <1>1, <1>3
<1>9. q # <<>> => Len(p) - 2 \in DOMAIN at /\ Head(q) = at[Len(p) - 2]
  <2>1. q # <<>> => 1 \in DOMAIN q
    BY <1>1, <1>5
  <2>2. Len(q) - 1 = Len(p) - 2
    BY <1>1, <1>2
  <2> QED BY <1>5, <1>6, <2>1, <2>2
<1> QED BY <1>1, <1>5, <1>7, <1>8, <1>9 DEF q

\* The instructions of HandleStop follow each other in order
LEMMA FinishTail ==
  ASSUME NEW p, RestOf(p, FinishAt), p # <<>>
  PROVE  /\ RestOf(Tail(p), FinishAt) /\ Head(p) \in {"bump", "stopped", "free", "acceptMore"}
         /\ Head(p) = "bump" => Tail(p) # <<>> /\ Head(Tail(p)) = "stopped"
         /\ Head(p) = "stopped" => Tail(p) # <<>> /\ Head(Tail(p)) = "free"
         /\ Head(p) = "free" => Tail(p) # <<>> /\ Head(Tail(p)) = "acceptMore"
         /\ Head(p) = "acceptMore" => Tail(p) = <<>>
<1> DEFINE n == Len(p)
<1>1. /\ RestOf(Tail(p), FinishAt) /\ n \in Nat /\ n >= 1 /\ n - 1 \in 0 .. 3 /\ Head(p) = FinishAt[n - 1]
      /\ Tail(p) # <<>> <=> n >= 2
      /\ Tail(p) # <<>> => Head(Tail(p)) = FinishAt[n - 2]
  <2>1. DOMAIN FinishAt = 0 .. 3
    BY DEF FinishAt
  <2> QED BY <2>1, RestTail
<1>2. FinishAt[0] = "acceptMore" /\ FinishAt[1] = "free" /\ FinishAt[2] = "stopped" /\ FinishAt[3] = "bump"
  BY DEF FinishAt
<1> HIDE DEF n
<1>3. n \in {1, 2, 3, 4}
  BY <1>1
<1> QED BY <1>1, <1>2, <1>3

\* The instructions of HandleAccept and Connect follow each other in order
LEMMA StartTail ==
  ASSUME NEW p, NEW at \in {AcceptAt, ConnectAt}, RestOf(p, at), p # <<>>
  PROVE  /\ RestOf(Tail(p), at) /\ Head(p) \in {"incStart", "postStart", "acceptNext"}
         /\ Head(p) = "incStart" => Tail(p) # <<>> /\ Head(Tail(p)) = "postStart"
         /\ Head(p) = "postStart" => IF at = AcceptAt THEN Tail(p) # <<>> /\ Head(Tail(p)) = "acceptNext" ELSE Tail(p) = <<>>
         /\ Head(p) = "acceptNext" => Tail(p) = <<>> /\ at = AcceptAt
<1> DEFINE n == Len(p)
<1>1. /\ RestOf(Tail(p), at) /\ n \in Nat /\ n >= 1 /\ n - 1 \in DOMAIN at /\ Head(p) = at[n - 1]
      /\ Tail(p) # <<>> <=> n >= 2
      /\ Tail(p) # <<>> => Head(Tail(p)) = at[n - 2]
  BY RestTail
<1> HIDE DEF n
<1>2. CASE at = AcceptAt
  <2>1. at[0] = "acceptNext" /\ at[1] = "postStart" /\ at[2] = "incStart" /\ DOMAIN at = 0 .. 2
    BY <1>2 DEF AcceptAt
  <2>2. n \in {1, 2, 3}
    BY <1>1, <2>1
  <2> QED BY <1>1, <1>2, <2>1, <2>2
<1>3. CASE at = ConnectAt /\ at # AcceptAt
  <2>1. at[0] = "postStart" /\ at[1] = "incStart" /\ DOMAIN at = 0 .. 1
    BY <1>3 DEF ConnectAt
  <2>2. n \in {1, 2}
    BY <1>1, <2>1
  <2> QED BY <1>1, <1>3, <2>1, <2>2
<1> QED BY <1>2, <1>3

\* They begin with their first instruction
LEMMA RestFull ==
  /\ RestOf(<<"bump", "stopped", "free", "acceptMore">>, FinishAt) /\ RestOf(<<"incStart", "postStart", "acceptNext">>, AcceptAt)
  /\ RestOf(<<"incStart", "postStart">>, ConnectAt) /\ AcceptAt # ConnectAt
  /\ \A at : RestOf(<<>>, at)
<1>1. RestOf(<<"bump", "stopped", "free", "acceptMore">>, FinishAt)
  <2>1. PICK p : p = <<"bump", "stopped", "free", "acceptMore">>
    OBVIOUS
  <2>2. p \in Seq(RestInstr) /\ Len(p) = 4 /\ DOMAIN p = {1, 2, 3, 4} /\ p[1] = "bump" /\ p[2] = "stopped" /\ p[3] = "free" /\ p[4] = "acceptMore"
    BY <2>1 DEF RestInstr
  <2>3. RestOf(p, FinishAt)
    BY <2>2 DEF RestOf, FinishAt
  <2> QED BY <2>1, <2>3
<1>2. RestOf(<<"incStart", "postStart", "acceptNext">>, AcceptAt)
  <2>1. PICK p : p = <<"incStart", "postStart", "acceptNext">>
    OBVIOUS
  <2>2. p \in Seq(RestInstr) /\ Len(p) = 3 /\ DOMAIN p = {1, 2, 3} /\ p[1] = "incStart" /\ p[2] = "postStart" /\ p[3] = "acceptNext"
    BY <2>1 DEF RestInstr
  <2>3. RestOf(p, AcceptAt)
    BY <2>2 DEF RestOf, AcceptAt
  <2> QED BY <2>1, <2>3
<1>3. RestOf(<<"incStart", "postStart">>, ConnectAt)
  <2>1. PICK p : p = <<"incStart", "postStart">>
    OBVIOUS
  <2>2. p \in Seq(RestInstr) /\ Len(p) = 2 /\ DOMAIN p = {1, 2} /\ p[1] = "incStart" /\ p[2] = "postStart"
    BY <2>1 DEF RestInstr
  <2>3. RestOf(p, ConnectAt)
    BY <2>2 DEF RestOf, ConnectAt
  <2> QED BY <2>1, <2>3
<1>4. AcceptAt # ConnectAt
  <2>1. AcceptAt[0] = "acceptNext" /\ ConnectAt[0] = "postStart"
    BY DEF AcceptAt, ConnectAt
  <2> QED BY <2>1
<1>5. \A at : RestOf(<<>>, at)
  BY DEF RestOf
<1> QED BY <1>1, <1>2, <1>3, <1>4, <1>5

-----------------------------------------------------------------------------
(* What a step of a thread leaves of the claim about a connection.           *)

\* A thread goes from r to s, which makes no difference to connection c
Like(r, s, c) ==
  \/ r = s
  \/ r.c # c /\ s.c # c
  \/ /\ r.c = c /\ s.c = c /\ s.refs = r.refs
     /\ (Driver(s) => Driver(r)) /\ (TimerAhead(s) => TimerAhead(r)) /\ (Starting(s) => Starting(r)) /\ (Freeing(s) => Freeing(r))
     /\ (Finishing(s) <=> Finishing(r)) /\ (Finishing(r) => Head(s.prog) = Head(r.prog))
  \/ r.c = c /\ s.c # c /\ r.refs = 0 /\ ~Finishing(r)

\* A step that makes no difference to connection c, and may end validations or begin the shutdown, keeps the claim about c
LEMMA Quiet ==
  ASSUME NEW T \in [Threads -> ThrRec], NEW U \in [Threads -> ThrRec], NEW K, NEW L, NEW down \in BOOLEAN, NEW up \in BOOLEAN, NEW c,
         NEW cn, NEW pd, ConnOK(cn, pd, T, K, down, c), \A u \in Threads : Like(T[u], U[u], c),
         \A x \in L : x.c = c => x \in K, down => up
  PROVE  ConnOK(cn, pd, U, L, up, c)
<1> USE DEF ConnOK
<1>1. \A u \in Threads : U[u].c = c =>
        /\ T[u].c = c /\ U[u].refs = T[u].refs
        /\ (Driver(U[u]) => Driver(T[u])) /\ (TimerAhead(U[u]) => TimerAhead(T[u])) /\ (Starting(U[u]) => Starting(T[u]))
        /\ (Freeing(U[u]) => Freeing(T[u]))
        /\ (Finishing(U[u]) => Finishing(T[u])) /\ (Finishing(U[u]) => Head(U[u].prog) = Head(T[u].prog))
  BY DEF Like
<1>2. \A u \in Threads : T[u].c = c => U[u].c = c \/ (T[u].refs = 0 /\ ~Finishing(T[u]))
  BY DEF Like
<1>3. \A u \in Threads : T[u].c = c /\ Finishing(T[u]) => U[u].c = c /\ Finishing(U[u])
  BY DEF Like
<1>4. Counted(cn, pd, U, c)
  <2>1. ASSUME NEW n \in 1 .. 3 PROVE Held(U, c, n) = Held(T, c, n)
    <3>1. ASSUME NEW u \in Threads PROVE T[u].c = c /\ T[u].refs >= n <=> U[u].c = c /\ U[u].refs >= n
      BY <1>1, <1>2
    <3> QED BY <3>1 DEF Held
  <2>2. HeldCount(U, c) = HeldCount(T, c)
    BY <2>1 DEF HeldCount
  <2> QED BY <2>2 DEF Counted
<1>5. Bounded(cn, pd)
  OBVIOUS
<1>6. OneDriver(pd, U, c)
  BY <1>1 DEF OneDriver
<1>7. OneFinish(cn, pd, U, c)
  BY <1>1, <1>3 DEF OneFinish
<1>8. UnusedOK(cn, U, c)
  BY <1>1 DEF UnusedOK
<1>9. StartOK(cn, pd, U, L, up, c)
  <2> SUFFICES ASSUME NEW t \in Threads, U[t].c = c, Starting(U[t])
      PROVE  /\ ~cn.free /\ \A k \in Regs : pd[k] = 0
             /\ \A u \in Threads : u # t /\ U[u].c = c => U[u].refs = 0 /\ ~Starting(U[u])
             /\ \A x \in L : x.c = c => x.id # cn.useCount
             /\ ~up => cn.stopping = 0
    BY DEF StartOK
  <2>1. T[t].c = c /\ Starting(T[t])
    BY <1>1
  <2>2. /\ ~cn.free /\ \A k \in Regs : pd[k] = 0
        /\ \A u \in Threads : u # t /\ T[u].c = c => T[u].refs = 0 /\ ~Starting(T[u])
        /\ \A x \in K : x.c = c => x.id # cn.useCount
        /\ ~down => cn.stopping = 0
    BY <2>1 DEF StartOK
  <2> QED BY <1>1, <2>2
<1>10. TasksOK(cn, U, L, c)
  <2> SUFFICES ASSUME NEW x \in L, x.c = c
      PROVE  /\ x.id <= cn.useCount
             /\ x.id = cn.useCount => x.use = cn.use /\ cn.stopping # Unused
             /\ x.id = cn.useCount => \A t \in Threads : U[t].c = c /\ Finishing(U[t]) => Head(U[t].prog) = "bump"
    BY DEF TasksOK
  <2>1. /\ x.id <= cn.useCount
        /\ x.id = cn.useCount => x.use = cn.use /\ cn.stopping # Unused
        /\ x.id = cn.useCount => \A t \in Threads : T[t].c = c /\ Finishing(T[t]) => Head(T[t].prog) = "bump"
    BY DEF TasksOK
  <2> QED BY <1>1, <2>1
<1> QED BY <1>4, <1>5, <1>6, <1>7, <1>8, <1>9, <1>10

\* A thread that does not move keeps its claim when connections are stopped, or when one that it does not hold is taken
LEMMA ThreadMono ==
  ASSUME NEW r, NEW S, NEW R, NEW down \in BOOLEAN, NEW up \in BOOLEAN, ThreadOK(r, S, down), down => up,
         \A d \in S : d \in R \/ (~down /\ (r.c = d => r.refs = 0))
  PROVE  ThreadOK(r, R, up)
<1>1. r.h = "none" => r = Idle
  BY DEF ThreadOK
<1>2. r.h = "stopAll" => StopperOK(r, R, up)
  BY DEF ThreadOK, StopperOK
<1>3. r.h \in Regs => WorkerOK(r, R, up)
  <2> SUFFICES ASSUME WorkerOK(r, S, down) PROVE WorkerOK(r, R, up)
    BY DEF ThreadOK
  <2>1. r.c \in S => r.c \in R
    BY DEF WorkerOK
  <2> QED BY <2>1 DEF WorkerOK
<1>4. r.h = "finish" => r.c \in Conns /\ r.refs = 0 /\ RestOf(r.prog, FinishAt)
  BY DEF ThreadOK
<1>5. StarterOK(r, down) => StarterOK(r, up)
  BY DEF StarterOK
<1> QED BY <1>1, <1>2, <1>3, <1>4, <1>5 DEF ThreadOK

\* A connection that somebody holds
LEMMA Active ==
  ASSUME NEW cn, NEW pd \in [Kinds -> Nat], NEW T, NEW K, NEW down, NEW c, ConnOK(cn, pd, T, K, down, c), cn.ops # 0
  PROVE  /\ pd["finish"] = 0 /\ cn.stopping # Unused /\ ~cn.free
         /\ \A u \in Threads : T[u].c = c => ~Finishing(T[u]) /\ ~Freeing(T[u])
<1>1. cn.stopping # Unused
  BY DEF ConnOK, UnusedOK
<1>2. ~(pd["finish"] > 0) /\ \A u \in Threads : T[u].c = c => ~Finishing(T[u])
  BY DEF ConnOK, OneFinish
<1>3. pd["finish"] = 0
  BY <1>2 DEF Kinds
<1> QED BY <1>1, <1>2, <1>3 DEF ConnOK, UnusedOK

\* A thread that holds a reference: no other is about to start the connection
LEMMA Holder ==
  ASSUME NEW T \in [Threads -> ThrRec], NEW K, NEW down, NEW c, NEW cn \in ConnRec, NEW pd \in [Kinds -> Nat],
         ConnOK(cn, pd, T, K, down, c), NEW t \in Threads, T[t].c = c, T[t].refs >= 1
  PROVE  /\ cn.ops # 0 /\ cn.ops > PendCount(pd) /\ PendCount(pd) \in Nat
         /\ \A u \in Threads : u # t /\ T[u].c = c => ~Starting(T[u])
<1>1. PendCount(pd) \in Nat
  BY DEF PendCount, Kinds
<1>2. HeldCount(T, c) \in Nat /\ HeldCount(T, c) # 0
  <2>1. T[t].refs # 0
    BY DEF ThrRec
  <2> QED BY <2>1, HeldPositive
<1>3. cn.ops # 0 /\ cn.ops > PendCount(pd)
  BY <1>1, <1>2 DEF ConnOK, Counted
<1>4. ASSUME NEW u \in Threads, u # t, T[u].c = c PROVE ~Starting(T[u])
  <2>1. SUFFICES ASSUME Starting(T[u]) PROVE FALSE
    OBVIOUS
  <2>2. T[t].refs = 0
    BY <1>4, <2>1 DEF ConnOK, StartOK
  <2> QED BY <2>2
<1> QED BY <1>1, <1>3, <1>4

\* A connection with an operation under way
LEMMA Underway ==
  ASSUME NEW T \in [Threads -> ThrRec], NEW K, NEW down, NEW c, NEW cn \in ConnRec, NEW pd \in [Kinds -> Nat],
         ConnOK(cn, pd, T, K, down, c), NEW k \in Regs, pd[k] > 0
  PROVE  /\ cn.ops # 0
         /\ \A u \in Threads : T[u].c = c => ~Starting(T[u])
<1>1. PendCount(pd) \in Nat /\ PendCount(pd) # 0
  BY DEF PendCount, Kinds, Regs
<1>2. HeldCount(T, c) \in Nat
  BY HeldPositive
<1>3. cn.ops # 0
  BY <1>1, <1>2 DEF ConnOK, Counted
<1>4. pd[k] # 0
  BY DEF Kinds, Regs
<1>5. \A u \in Threads : T[u].c = c => ~Starting(T[u])
  BY <1>4 DEF ConnOK, StartOK
<1> QED BY <1>3, <1>5

\* The claim about a connection in use that no thread starts or finishes
LEMMA Working ==
  ASSUME NEW T, NEW K, NEW down, NEW c, NEW cn, NEW pd \in [Kinds -> Nat],
         Counted(cn, pd, T, c), Bounded(cn, pd), OneDriver(pd, T, c),
         \A u \in Threads : T[u].c = c => ~Finishing(T[u]) /\ ~Freeing(T[u]) /\ ~Starting(T[u]),
         ~cn.free, cn.stopping # Unused, pd["finish"] = IF cn.stopping = 1 /\ cn.ops = 0 THEN 1 ELSE 0,
         \A x \in K : x.c = c => x.id <= cn.useCount /\ (x.id = cn.useCount => x.use = cn.use)
  PROVE  ConnOK(cn, pd, T, K, down, c)
<1>1. OneFinish(cn, pd, T, c)
  <2>1. (pd["finish"] > 0 => cn.stopping = 1 /\ cn.ops = 0) /\ (cn.stopping = 1 /\ cn.ops = 0 => pd["finish"] = 1)
    OBVIOUS
  <2> QED BY <2>1 DEF OneFinish
<1>2. UnusedOK(cn, T, c)
  BY DEF UnusedOK
<1>3. StartOK(cn, pd, T, K, down, c)
  BY DEF StartOK
<1>4. TasksOK(cn, T, K, c)
  BY DEF TasksOK
<1> QED BY <1>1, <1>2, <1>3, <1>4 DEF ConnOK

\* What the pending operations of a connection are when its timer is cancelled
CancelledOf(pd) == [pd EXCEPT !["timer"] = 0, !["aborted"] = @ + pd["timer"]]

\* A cancelled timer leaves the number of pending operations and what leads to the next read as they were (TimerCancel)
LEMMA CancelOf ==
  ASSUME NEW T \in [Threads -> ThrRec], NEW c, NEW pd \in [Kinds -> Nat], NEW cn, Bounded(cn, pd), OneDriver(pd, T, c)
  PROVE  LET new == CancelledOf(pd) IN
         /\ new \in [Kinds -> Nat] /\ PendCount(new) = PendCount(pd) /\ Bounded(cn, new) /\ OneDriver(new, T, c)
         /\ new["finish"] = pd["finish"]
         /\ (\A k \in Regs : pd[k] = 0) => \A k \in Regs : new[k] = 0
<1> DEFINE new == CancelledOf(pd)
<1>1. new \in [Kinds -> Nat]
  BY DEF CancelledOf, Kinds
<1>2. /\ new["timer"] = 0 /\ new["aborted"] = pd["aborted"] + pd["timer"]
      /\ \A k \in Kinds \ {"timer", "aborted"} : new[k] = pd[k]
  BY DEF CancelledOf, Kinds
<1>3. pd["timer"] \in Nat /\ pd["aborted"] \in Nat
  BY DEF Kinds
<1> HIDE DEF new
<1>4. /\ new["start"] = pd["start"] /\ new["read"] = pd["read"] /\ new["write"] = pd["write"]
      /\ new["proxyRead"] = pd["proxyRead"] /\ new["proxyWrite"] = pd["proxyWrite"] /\ new["finish"] = pd["finish"]
  BY <1>2 DEF Kinds
<1>5. PendCount(new) = PendCount(pd)
  BY <1>2, <1>3, <1>4 DEF PendCount, Kinds
<1>6. Bounded(cn, new)
  BY <1>2, <1>3, <1>4 DEF Bounded
<1>7. \A k \in DriveKinds : new[k] = pd[k]
  BY <1>2 DEF Kinds, DriveKinds
<1>8. pd["timer"] = 0 /\ pd["aborted"] = 0 => new["timer"] = 0 /\ new["aborted"] = 0
  BY <1>2
<1>9. OneDriver(new, T, c)
  BY <1>4, <1>7, <1>8 DEF OneDriver
<1>10. (\A k \in Regs : pd[k] = 0) => \A k \in Regs : new[k] = 0
  <2>1. "timer" \in Regs /\ "aborted" \in Regs /\ \A k \in Regs : k \in {"timer", "aborted"} \/ k \in Kinds \ {"timer", "aborted"}
    BY DEF Regs, Kinds
  <2> QED BY <1>2, <1>8, <2>1
<1> QED BY <1>1, <1>4, <1>5, <1>6, <1>9, <1>10 DEF new

\* The members and the operations of a connection that is stopped
StoppedOf(cn) == [cn EXCEPT !.stopping = 1, !.state = "STOPPING"]
StopOf(cn, pd) == [CancelledOf(pd) EXCEPT !["finish"] = IF cn.ops = 0 THEN @ + 1 ELSE @]

\* Stop of a connection in use that no thread is about to start, or at shutdown
LEMMA StopConn ==
  ASSUME NEW T \in [Threads -> ThrRec], NEW K, NEW down \in BOOLEAN, NEW c, NEW cn \in ConnRec, NEW pd \in [Kinds -> Nat],
         ConnOK(cn, pd, T, K, down, c), cn.stopping = 0,
         down \/ \A u \in Threads : T[u].c = c => ~Starting(T[u])
  PROVE  /\ StoppedOf(cn) \in ConnRec /\ StopOf(cn, pd) \in [Kinds -> Nat]
         /\ ConnOK(StoppedOf(cn), StopOf(cn, pd), T, K, down, c)
<1> DEFINE cm == StoppedOf(cn)
           pc == CancelledOf(pd)
           pm == StopOf(cn, pd)
<1>1. cm \in ConnRec
  BY DEF StoppedOf, ConnRec
<1>2. /\ cm.stopping = 1 /\ cm.ops = cn.ops /\ cm.useCount = cn.useCount /\ cm.use = cn.use /\ cm.free = cn.free
      /\ cm.writing = cn.writing
  BY DEF StoppedOf, ConnRec
<1>3. Bounded(cn, pd) /\ OneDriver(pd, T, c) /\ Counted(cn, pd, T, c) /\ OneFinish(cn, pd, T, c) /\ UnusedOK(cn, T, c)
      /\ StartOK(cn, pd, T, K, down, c) /\ TasksOK(cn, T, K, c)
  BY DEF ConnOK
<1>4. /\ pc \in [Kinds -> Nat] /\ PendCount(pc) = PendCount(pd) /\ Bounded(cn, pc) /\ OneDriver(pc, T, c)
      /\ pc["finish"] = pd["finish"] /\ ((\A k \in Regs : pd[k] = 0) => \A k \in Regs : pc[k] = 0)
  BY <1>3, CancelOf
<1>5. pd["finish"] = 0 /\ \A u \in Threads : T[u].c = c => ~Finishing(T[u]) /\ ~Freeing(T[u])
  <2>1. ~(pd["finish"] > 0) /\ \A u \in Threads : T[u].c = c => ~Finishing(T[u])
    BY <1>3 DEF OneFinish
  <2>2. 0 # Unused
    BY DEF Unused
  <2>3. \A u \in Threads : T[u].c = c => ~Freeing(T[u])
    BY <1>3, <2>2 DEF UnusedOK
  <2>4. pd["finish"] \in Nat
    BY DEF Kinds
  <2> QED BY <2>1, <2>3, <2>4
<1>6. /\ pm \in [Kinds -> Nat] /\ pm["finish"] = (IF cn.ops = 0 THEN 1 ELSE 0) /\ \A k \in Kinds : k # "finish" => pm[k] = pc[k]
  <2> HIDE DEF pc
  <2>1. pm = [pc EXCEPT !["finish"] = IF cn.ops = 0 THEN @ + 1 ELSE @]
    BY DEF StopOf, pc
  <2> HIDE DEF pm
  <2> QED BY <1>4, <1>5, <2>1 DEF Kinds
<1> HIDE DEF cm, pc, pm
<1>7. pm["finish"] <= 1
  BY <1>6
<1>8. \A k \in Regs : pm[k] = pc[k]
  BY <1>6 DEF Regs, Kinds
<1>9. Counted(cm, pm, T, c)
  <2>1. PendCount(pm) = PendCount(pc)
    BY <1>8 DEF PendCount, Regs
  <2> QED BY <1>2, <1>3, <1>4, <2>1 DEF Counted
<1>10. Bounded(cm, pm)
  BY <1>2, <1>4, <1>7, <1>8 DEF Bounded, Regs
<1>11. OneDriver(pm, T, c)
  <2>1. \A k \in DriveKinds : pm[k] = pc[k]
    BY <1>8 DEF DriveKinds, Regs
  <2>2. pm["start"] = pc["start"] /\ pm["timer"] = pc["timer"] /\ pm["aborted"] = pc["aborted"]
    BY <1>8 DEF Regs
  <2> QED BY <1>4, <2>1, <2>2 DEF OneDriver
<1>12. OneFinish(cm, pm, T, c)
  <2>1. cm.ops = 0 => pm["finish"] = 1
    BY <1>2, <1>6
  <2>2. pm["finish"] > 0 => cm.ops = 0
    BY <1>2, <1>6
  <2> QED BY <1>2, <1>5, <2>1, <2>2 DEF OneFinish
<1>13. UnusedOK(cm, T, c)
  <2>1. 1 # Unused /\ 0 # Unused
    BY DEF Unused
  <2> QED BY <1>2, <1>3, <1>5, <2>1 DEF UnusedOK
<1>14. StartOK(cm, pm, T, K, down, c)
  <2> SUFFICES ASSUME NEW t \in Threads, T[t].c = c, Starting(T[t])
      PROVE  /\ ~cm.free /\ \A k \in Regs : pm[k] = 0
             /\ \A u \in Threads : u # t /\ T[u].c = c => T[u].refs = 0 /\ ~Starting(T[u])
             /\ \A x \in K : x.c = c => x.id # cm.useCount
             /\ ~down => cm.stopping = 0
    BY DEF StartOK
  <2>1. down
    OBVIOUS
  <2>2. /\ ~cn.free /\ \A k \in Regs : pd[k] = 0
        /\ \A u \in Threads : u # t /\ T[u].c = c => T[u].refs = 0 /\ ~Starting(T[u])
        /\ \A x \in K : x.c = c => x.id # cn.useCount
    BY <1>3 DEF StartOK
  <2>3. \A k \in Regs : pm[k] = 0
    BY <1>4, <1>8, <2>2
  <2> QED BY <1>2, <2>1, <2>2, <2>3
<1>15. TasksOK(cm, T, K, c)
  <2>1. 1 # Unused
    BY DEF Unused
  <2> QED BY <1>2, <1>3, <1>5, <2>1 DEF TasksOK
<1> QED BY <1>1, <1>6, <1>9, <1>10, <1>11, <1>12, <1>13, <1>14, <1>15 DEF ConnOK, cm, pm

-----------------------------------------------------------------------------
(* A step that touches one connection.                                       *)

\* A thread goes from r to s, in a step that touches no connection but c; was is what m_stopping of c was
Moved(r, s, c, was, down) ==
  /\ r.c \in {c, NoConn} /\ s.c \in {c, NoConn}
  /\ Accepting(s) <=> Accepting(r)
  /\ Freeing(s) => Freeing(r) \/ was # Unused
  /\ r.h \in {"finish", "accept"} /\ r.prog # <<>> => down \/ (s.h \in {"finish", "accept"} /\ s.prog # <<>>)

\* A step that touches connection c alone, and not the pool, keeps the inductive invariant when it keeps the claim about c
LEMMA LocalStep ==
  ASSUME PoolIInv, NEW c \in Conns, NEW cn \in ConnRec, NEW pd \in [Kinds -> Nat],
         conn' = [conn EXCEPT ![c] = cn], pend' = [pend EXCEPT ![c] = pd], thr' \in [Threads -> ThrRec], tasks' \subseteq TaskRec,
         \A x \in tasks' : x.c # c => x \in tasks, Same,
         cn.free = conn[c].free, cn.incoming = conn[c].incoming,
         conn[c].stopping = Unused => cn.stopping = Unused, conn[c].stopping # 0 => cn.stopping # 0,
         \A u \in Threads : \/ thr'[u] = thr[u]
                            \/ Moved(thr[u], thr'[u], c, conn[c].stopping, Down) /\ ThreadOK(thr'[u], NotInUse', Down),
         ConnOK(cn, pd, thr', tasks', Down, c)
  PROVE  PoolIInv'
<1>1. PoolTypes /\ AcceptOK /\ PoolOK
  BY DEF PoolIInv
<1>2. /\ avail' = avail /\ inCount' = inCount /\ newConn' = newConn /\ listening' = listening /\ isOpen' = isOpen
      /\ shutdown' = shutdown /\ uses' = uses /\ Down' = Down /\ CanGet(TRUE)' = CanGet(TRUE) /\ Down \in BOOLEAN
  BY DEF Same, Down, CanGet
<1>3. conn \in [Conns -> ConnRec] /\ pend \in [Conns -> [Kinds -> Nat]] /\ thr \in [Threads -> ThrRec]
  BY <1>1 DEF PoolTypes
<1>4. /\ conn' \in [Conns -> ConnRec] /\ conn'[c] = cn /\ \A d \in Conns : d # c => conn'[d] = conn[d]
      /\ pend' \in [Conns -> [Kinds -> Nat]] /\ pend'[c] = pd /\ \A d \in Conns : d # c => pend'[d] = pend[d]
  BY <1>3
<1>5. \A d \in Conns : conn'[d].free = conn[d].free /\ conn'[d].incoming = conn[d].incoming
  BY <1>4
<1>6. PoolTypes'
  BY <1>1, <1>2, <1>4 DEF PoolTypes
<1>7. PoolOK'
  <2>1. Busy' = Busy
    BY <1>5 DEF Busy
  <2> QED BY <1>1, <1>2, <1>5, <2>1 DEF PoolOK
<1>8. \A u \in Threads : thr'[u] = thr[u] \/ Moved(thr[u], thr'[u], c, conn[c].stopping, Down)
  OBVIOUS
<1>9. \A u \in Threads : thr[u].h = "finish" => thr[u].c \in Conns
  BY DEF PoolIInv, ThreadOK
<1>10. \A u \in Threads : Accepting(thr'[u]) <=> Accepting(thr[u])
  BY <1>8 DEF Moved
<1>11. AcceptOK'
  <2>1. /\ \A t, u \in Threads : Accepting(thr'[t]) /\ Accepting(thr'[u]) => t = u
        /\ \A t \in Threads : Accepting(thr'[t]) => newConn' # NoConn
    BY <1>1, <1>2, <1>10 DEF AcceptOK
  <2>2. listening' => newConn' # NoConn /\ isOpen' /\ \A t \in Threads : ~Accepting(thr'[t])
    BY <1>1, <1>2, <1>10 DEF AcceptOK
  <2>3. ASSUME isOpen', newConn' # NoConn, \A t \in Threads : ~Accepting(thr'[t])
        PROVE  /\ ~conn'[newConn'].free /\ conn'[newConn'].stopping = Unused
               /\ \A t \in Threads : thr'[t].c = newConn' => ~Freeing(thr'[t])
    <3>1. /\ newConn \in Conns /\ ~conn[newConn].free /\ conn[newConn].stopping = Unused
          /\ \A t \in Threads : thr[t].c = newConn => ~Freeing(thr[t])
      BY <1>1, <1>2, <1>10, <2>3 DEF AcceptOK, PoolTypes
    <3>2. conn'[newConn].stopping = Unused
      BY <1>4, <3>1
    <3>3. ASSUME NEW t \in Threads, thr'[t].c = newConn PROVE ~Freeing(thr'[t])
      <4>1. CASE thr'[t] = thr[t]
        BY <3>1, <3>3, <4>1
      <4>2. CASE Moved(thr[t], thr'[t], c, conn[c].stopping, Down)
        <5>1. c = newConn
          BY <3>1, <3>3, <4>2, PoolAssumption DEF Moved
        <5>2. Freeing(thr'[t]) => Freeing(thr[t])
          BY <3>1, <4>2, <5>1 DEF Moved
        <5>3. Freeing(thr[t]) => thr[t].c = c
          BY <1>9, <4>2, PoolAssumption DEF Moved, Freeing
        <5> QED BY <3>1, <5>1, <5>2, <5>3
      <4> QED BY <1>8, <4>1, <4>2
    <3> QED BY <1>2, <1>5, <3>1, <3>2, <3>3
  <2>4. ASSUME isOpen', ~Down', newConn' = NoConn, CanGet(TRUE)'
        PROVE  \E t \in Threads : thr'[t].h \in {"finish", "accept"} /\ thr'[t].prog # <<>>
    <3>1. PICK t \in Threads : thr[t].h \in {"finish", "accept"} /\ thr[t].prog # <<>>
      BY <1>1, <1>2, <2>4 DEF AcceptOK
    <3>2. thr'[t].h \in {"finish", "accept"} /\ thr'[t].prog # <<>>
      BY <1>2, <1>8, <2>4, <3>1 DEF Moved
    <3> QED BY <3>2
  <2> QED BY <2>1, <2>2, <2>3, <2>4 DEF AcceptOK
<1>12. ASSUME NEW u \in Threads PROVE ThreadOK(thr'[u], NotInUse', Down)
  <2>1. NotInUse \subseteq NotInUse'
    BY <1>4 DEF NotInUse
  <2>2. ThreadOK(thr[u], NotInUse, Down)
    BY DEF PoolIInv
  <2>3. \A d \in NotInUse : d \in NotInUse' \/ (~Down /\ (thr[u].c = d => thr[u].refs = 0))
    BY <2>1
  <2>4. ThreadOK(thr[u], NotInUse', Down)
    BY <1>2, <2>2, <2>3, ThreadMono
  <2> QED BY <2>4
<1>13. ASSUME NEW d \in Conns PROVE ConnOK(conn'[d], pend'[d], thr', tasks', Down, d)
  <2>1. CASE d = c
    BY <1>4, <2>1
  <2>2. CASE d # c
    <3>1. ConnOK(conn[d], pend[d], thr, tasks, Down, d)
      BY DEF PoolIInv
    <3>2. \A u \in Threads : Like(thr[u], thr'[u], d)
      BY <1>8, <2>2, PoolAssumption DEF Moved, Like
    <3>3. \A x \in tasks' : x.c = d => x \in tasks
      BY <2>2
    <3>4. ConnOK(conn[d], pend[d], thr', tasks', Down, d)
      BY <1>2, <1>3, <3>1, <3>2, <3>3, Quiet
    <3> QED BY <1>4, <2>2, <3>4
  <2> QED BY <2>1, <2>2
<1> QED BY <1>2, <1>6, <1>7, <1>11, <1>12, <1>13 DEF PoolIInv

-----------------------------------------------------------------------------
(* Threads in the handler of an operation.                                   *)

\* A thread in the handler of an operation neither starts, finishes, frees nor accepts a connection
LEMMA Workers ==
  ASSUME NEW r, r.h \in Regs
  PROVE  /\ ~Starting(r) /\ ~Finishing(r) /\ ~Freeing(r) /\ ~Accepting(r)
         /\ r.h \notin {"finish", "accept", "connect", "none", "stopAll"}
BY DEF Regs, Starting, Finishing, Freeing, Accepting

\* An instruction belongs to one kind of handler
LEMMA AtWork ==
  ASSUME NEW r \in ThrRec, NEW S, NEW down, ThreadOK(r, S, down), r.h # "stopAll", r.prog # <<>>
  PROVE  /\ Head(r.prog) \in WorkInstr => r.h \in Regs
         /\ Head(r.prog) \in {"incStart", "postStart", "acceptNext"} => r.h \in {"accept", "connect"}
         /\ Head(r.prog) \in {"bump", "stopped", "free", "acceptMore"} => r.h = "finish"
<1>1. r.h \in Regs \/ r.h \in {"finish", "accept", "connect", "none"}
  BY DEF ThrRec
<1>2. r.h # "none"
  BY DEF ThreadOK, Idle
<1>3. r.h \in Regs => Head(r.prog) \in WorkInstr
  BY TailWork DEF ThreadOK, WorkerOK
<1>4. r.h = "finish" => Head(r.prog) \in {"bump", "stopped", "free", "acceptMore"}
  BY FinishTail DEF ThreadOK
<1>5. r.h \in {"accept", "connect"} => Head(r.prog) \in {"incStart", "postStart", "acceptNext"}
  BY StartTail DEF ThreadOK
<1>6. \A i \in WorkInstr : i \notin {"bump", "stopped", "free", "acceptMore"} /\ i \notin {"incStart", "postStart", "acceptNext"}
  BY DEF WorkInstr, Gos, Incs
<1> QED BY <1>1, <1>2, <1>3, <1>4, <1>5, <1>6

\* What holds of a thread in a handler and of its connection
LEMMA AtThread ==
  ASSUME PoolIInv, NEW t \in Threads, thr[t].h # "stopAll", thr[t].c # NoConn
  PROVE  /\ thr[t] \in ThrRec /\ thr[t].c \in Conns /\ ThreadOK(thr[t], NotInUse, Down)
         /\ thr[t].refs \in 0 .. 3 /\ thr[t].prog \in Seq(WorkInstr \cup RestInstr \cup Conns)
         /\ conn[thr[t].c] \in ConnRec /\ pend[thr[t].c] \in [Kinds -> Nat]
         /\ ConnOK(conn[thr[t].c], pend[thr[t].c], thr, tasks, Down, thr[t].c)
         /\ thr \in [Threads -> ThrRec] /\ conn \in [Conns -> ConnRec] /\ pend \in [Conns -> [Kinds -> Nat]] /\ tasks \subseteq TaskRec
         /\ Down \in BOOLEAN
BY DEF PoolIInv, PoolTypes, ThrRec, Down

\* A connection with a reference held by a thread that is past its start is in use and not being finished
LEMMA HolderParts ==
  ASSUME NEW T \in [Threads -> ThrRec], NEW K, NEW down, NEW c, NEW cn \in ConnRec, NEW pd \in [Kinds -> Nat],
         ConnOK(cn, pd, T, K, down, c), NEW t \in Threads, T[t].c = c, T[t].refs >= 1, ~Starting(T[t])
  PROVE  /\ Counted(cn, pd, T, c) /\ Bounded(cn, pd) /\ OneDriver(pd, T, c)
         /\ \A u \in Threads : T[u].c = c => ~Finishing(T[u]) /\ ~Freeing(T[u]) /\ ~Starting(T[u])
         /\ ~cn.free /\ cn.stopping # Unused /\ pd["finish"] = 0 /\ cn.ops # 0
         /\ \A x \in K : x.c = c => x.id <= cn.useCount /\ (x.id = cn.useCount => x.use = cn.use)
<1>1. cn.ops # 0 /\ \A u \in Threads : u # t /\ T[u].c = c => ~Starting(T[u])
  BY Holder
<1>2. /\ pd["finish"] = 0 /\ cn.stopping # Unused /\ ~cn.free
      /\ \A u \in Threads : T[u].c = c => ~Finishing(T[u]) /\ ~Freeing(T[u])
  BY <1>1, Active
<1>3. \A x \in K : x.c = c => x.id <= cn.useCount /\ (x.id = cn.useCount => x.use = cn.use)
  BY DEF ConnOK, TasksOK
<1> QED BY <1>1, <1>2, <1>3 DEF ConnOK

\* Fewer pending operations and fewer threads with a read ahead keep what leads to the next read single
LEMMA DriverLess ==
  ASSUME NEW T, NEW U, NEW c, NEW pd \in [Kinds -> Nat], NEW pm \in [Kinds -> Nat], OneDriver(pd, T, c),
         \A u \in Threads : U[u].c = c => (Driver(U[u]) => T[u].c = c /\ Driver(T[u])) /\ (TimerAhead(U[u]) => T[u].c = c /\ TimerAhead(T[u])),
         \A k \in DriveKinds : pm[k] <= pd[k],
         pd["timer"] = 0 /\ pd["aborted"] = 0 => pm["timer"] = 0 /\ pm["aborted"] = 0
  PROVE  OneDriver(pm, U, c)
<1>1. \A k \in DriveKinds : (pm[k] > 0 => pd[k] > 0) /\ (pd[k] = 0 => pm[k] = 0)
  BY DEF DriveKinds, Kinds
<1>2. pm["start"] > 0 => pd["start"] > 0
  BY <1>1 DEF DriveKinds
<1> QED BY <1>1, <1>2 DEF OneDriver

\* The rest of a program of instructions is one
LEMMA SeqTail ==
  ASSUME NEW p \in Seq(WorkInstr \cup RestInstr \cup Conns), p # <<>>
  PROVE  Tail(p) \in Seq(WorkInstr \cup RestInstr \cup Conns)
OBVIOUS

\* A worker that goes on, and one that is done with an instruction that takes no reference
LEMMA WorkerMoved ==
  ASSUME NEW r, NEW s, NEW c, NEW was, NEW down, r.h \in Regs, r.c = c,
         (s.h = r.h /\ s.c = c) \/ s = Idle
  PROVE  Moved(r, s, c, was, down)
<1>1. ~Accepting(r) /\ ~Freeing(r) /\ r.h \notin {"finish", "accept"}
  BY Workers
<1>2. ~Accepting(s) /\ ~Freeing(s) /\ s.c \in {c, NoConn}
  <2>1. CASE s.h = r.h /\ s.c = c
    BY <2>1, Workers
  <2>2. CASE s = Idle
    BY <2>2 DEF Idle, Accepting, Freeing
  <2> QED BY <2>1, <2>2
<1> QED BY <1>1, <1>2 DEF Moved

\* An instruction of a handler that takes no reference keeps what is claimed of its thread
LEMMA WorkerNext ==
  ASSUME NEW r, NEW s, NEW S, NEW down, r.h \in Regs, ThreadOK(r, S, down), r.prog # <<>>, Head(r.prog) \notin Gos \cup Incs,
         s.h = r.h, s.c = r.c, s.refs = r.refs, s.prog = Tail(r.prog)
  PROVE  ThreadOK(s, S, down) /\ r.refs >= 1 /\ Like(r, s, r.c)
<1>1. WorkerOK(r, S, down)
  BY DEF ThreadOK
<1>2. s.h = r.h /\ s.c = r.c /\ s.refs = r.refs /\ s.prog = Tail(r.prog)
  OBVIOUS
<1>3. /\ WorkOK(Tail(r.prog)) /\ (DrivesOn(Tail(r.prog)) => DrivesOn(r.prog)) /\ (HasTimer(Tail(r.prog)) => HasTimer(r.prog))
      /\ (Tail(r.prog) # <<>> => Head(Tail(r.prog)) \notin Gos)
  BY <1>1, TailWork DEF WorkerOK
<1>4. r.refs \in 1 .. 3
  BY <1>1 DEF WorkerOK
<1>5. Tail(r.prog) # <<>> => r.refs = 2
  <2>1. r.refs = 2 \/ (r.refs = 1 /\ r.prog = <<"stop">>)
    BY <1>1 DEF WorkerOK
  <2>2. r.prog = <<"stop">> => Tail(r.prog) = <<>>
    OBVIOUS
  <2> QED BY <2>1, <2>2
<1>6. WorkerOK(s, S, down)
  BY <1>1, <1>2, <1>3, <1>4, <1>5 DEF WorkerOK
<1>7. ThreadOK(s, S, down)
  BY <1>2, <1>6, Workers DEF ThreadOK
<1>9. Like(r, s, r.c)
  <2>1. ~Starting(s) /\ ~Finishing(s) /\ ~Freeing(s) /\ ~Finishing(r)
    BY <1>2, Workers
  <2>2. (Driver(s) => Driver(r)) /\ (TimerAhead(s) => TimerAhead(r))
    BY <1>2, <1>3 DEF Driver, TimerAhead
  <2> QED BY <1>2, <2>1, <2>2 DEF Like
<1> QED BY <1>4, <1>7, <1>9

\* A thread that holds a reference changes its connection
LEMMA WorkerStep ==
  ASSUME PoolIInv, NEW t \in Threads, NEW c \in Conns, thr[t].c = c, thr[t].h \in Regs \/ thr[t].prog = <<>>, thr[t].refs >= 1,
         NEW s \in ThrRec, (s.h = thr[t].h /\ s.c = c /\ (s.h \in Regs \/ s.prog = <<>>)) \/ s = Idle, ThreadOK(s, NotInUse, Down),
         NEW cn \in ConnRec, NEW pd \in [Kinds -> Nat],
         thr' = [thr EXCEPT ![t] = s], conn' = [conn EXCEPT ![c] = cn], pend' = [pend EXCEPT ![c] = pd], Same,
         tasks' \subseteq TaskRec, \A x \in tasks' : x \in tasks \/ (x.c = c /\ x.id = conn[c].useCount /\ x.use = conn[c].use),
         cn.free = conn[c].free, cn.incoming = conn[c].incoming, cn.useCount = conn[c].useCount, cn.use = conn[c].use,
         cn.stopping = conn[c].stopping \/ (conn[c].stopping = 0 /\ cn.stopping = 1),
         Counted(cn, pd, thr', c), Bounded(cn, pd), OneDriver(pd, thr', c),
         pd["finish"] = IF cn.stopping = 1 /\ cn.ops = 0 THEN 1 ELSE 0
  PROVE  PoolIInv'
<1>1. /\ ConnOK(conn[c], pend[c], thr, tasks, Down, c) /\ thr \in [Threads -> ThrRec] /\ conn \in [Conns -> ConnRec]
      /\ pend \in [Conns -> [Kinds -> Nat]] /\ tasks \subseteq TaskRec /\ Down \in BOOLEAN
  BY DEF PoolIInv, PoolTypes, Down
<1>2. thr' \in [Threads -> ThrRec] /\ thr'[t] = s /\ \A u \in Threads : u # t => thr'[u] = thr[u]
  BY <1>1
<1>3. ASSUME NEW q, q.h \in Regs \/ q.prog = <<>> PROVE ~Starting(q) /\ ~Finishing(q) /\ ~Freeing(q) /\ ~Accepting(q)
  BY <1>3, Workers DEF Starting, Finishing, Freeing, Accepting
<1>4. s.h \in Regs \/ s.prog = <<>>
  BY DEF Idle
<1>5. /\ \A u \in Threads : thr[u].c = c => ~Finishing(thr[u]) /\ ~Freeing(thr[u]) /\ ~Starting(thr[u])
      /\ ~conn[c].free /\ conn[c].stopping # Unused
      /\ \A x \in tasks : x.c = c => x.id <= conn[c].useCount /\ (x.id = conn[c].useCount => x.use = conn[c].use)
  <2>1. /\ ~Starting(thr[t]) /\ conn[c] \in ConnRec /\ pend[c] \in [Kinds -> Nat]
        /\ t \in Threads /\ thr[t].c = c /\ thr[t].refs >= 1
    BY <1>1, <1>3
  <2> QED BY ONLY <1>1, <2>1, HolderParts
<1>6. \A u \in Threads : thr'[u].c = c => ~Finishing(thr'[u]) /\ ~Freeing(thr'[u]) /\ ~Starting(thr'[u])
  BY <1>2, <1>3, <1>4, <1>5
<1>7. \A x \in tasks' : x.c = c => x.id <= cn.useCount /\ (x.id = cn.useCount => x.use = cn.use)
  <2>1. conn[c].useCount \in Nat
    BY <1>1 DEF ConnRec
  <2> QED BY <1>5, <2>1
<1>8. cn.stopping # Unused
  BY <1>5 DEF Unused
<1>9. ConnOK(cn, pd, thr', tasks', Down, c)
  BY <1>5, <1>6, <1>7, <1>8, Working
<1>10. ThreadOK(s, NotInUse', Down)
  <2>1. NotInUse \subseteq NotInUse'
    BY <1>1 DEF NotInUse
  <2>2. \A d \in NotInUse : d \in NotInUse' \/ (~Down /\ (s.c = d => s.refs = 0))
    BY <2>1
  <2> QED BY <1>1, <2>2, ThreadMono
<1>11. Moved(thr[t], s, c, conn[c].stopping, Down)
  <2>1. ~Accepting(thr[t]) /\ ~Accepting(s) /\ ~Freeing(s)
    BY <1>3, <1>4
  <2>2. s.c \in {c, NoConn}
    BY DEF Idle
  <2>3. ~(thr[t].h \in {"finish", "accept"} /\ thr[t].prog # <<>>)
    BY Workers
  <2> QED BY <2>1, <2>2, <2>3 DEF Moved
<1>12. \A u \in Threads : \/ thr'[u] = thr[u]
                          \/ Moved(thr[u], thr'[u], c, conn[c].stopping, Down) /\ ThreadOK(thr'[u], NotInUse', Down)
  BY <1>2, <1>10, <1>11
<1>13. (conn[c].stopping = Unused => cn.stopping = Unused) /\ (conn[c].stopping # 0 => cn.stopping # 0)
  BY <1>5
<1>14. \A x \in tasks' : x.c # c => x \in tasks
  OBVIOUS
<1> QED BY <1>2, <1>9, <1>12, <1>13, <1>14, LocalStep

\* A thread after its next instruction
Onward(r) == [r EXCEPT !.prog = Tail(r.prog)]

\* A worker that is done with an instruction that takes no reference
LEMMA WorkerAt ==
  ASSUME PoolIInv, NEW t \in Threads, thr[t].h # "stopAll", thr[t].c # NoConn, thr[t].prog # <<>>,
         Head(thr[t].prog) \in {"cancelTimer", "validate", "stop"}, NEW s, s = Onward(thr[t]),
         thr' = [thr EXCEPT ![t] = s], NEW c, c = thr[t].c
  PROVE  /\ c \in Conns /\ thr[t].h \in Regs /\ thr[t].refs >= 1 /\ s \in ThrRec /\ s.h = thr[t].h /\ s.c = c
         /\ ThreadOK(s, NotInUse, Down) /\ thr' \in [Threads -> ThrRec]
         /\ conn \in [Conns -> ConnRec] /\ pend \in [Conns -> [Kinds -> Nat]] /\ conn[c] \in ConnRec /\ pend[c] \in [Kinds -> Nat]
         /\ tasks \subseteq TaskRec /\ Down \in BOOLEAN
         /\ ConnOK(conn[c], pend[c], thr', tasks, Down, c)
         /\ Counted(conn[c], pend[c], thr', c) /\ Bounded(conn[c], pend[c]) /\ OneDriver(pend[c], thr', c)
         /\ pend[c]["finish"] = 0 /\ conn[c].ops # 0
         /\ \A u \in Threads : thr'[u].c = c => ~Starting(thr'[u])
<1>1. /\ thr[t] \in ThrRec /\ c \in Conns /\ ThreadOK(thr[t], NotInUse, Down) /\ conn[c] \in ConnRec /\ pend[c] \in [Kinds -> Nat]
      /\ ConnOK(conn[c], pend[c], thr, tasks, Down, c) /\ thr \in [Threads -> ThrRec] /\ conn \in [Conns -> ConnRec]
      /\ pend \in [Conns -> [Kinds -> Nat]] /\ tasks \subseteq TaskRec /\ Down \in BOOLEAN
  BY AtThread
<1>2. Head(thr[t].prog) \in WorkInstr /\ Head(thr[t].prog) \notin Gos \cup Incs
  BY DEF WorkInstr, Gos, Incs
<1>3. thr[t].h \in Regs
  BY <1>1, <1>2, AtWork
<1>4. s \in ThrRec /\ ThreadOK(s, NotInUse, Down) /\ s.h = thr[t].h /\ s.c = c /\ s.refs = thr[t].refs /\ thr[t].refs >= 1 /\ Like(thr[t], s, c)
  <2>1. s.h = thr[t].h /\ s.c = thr[t].c /\ s.refs = thr[t].refs /\ s.prog = Tail(thr[t].prog)
    BY <1>1 DEF ThrRec, Onward
  <2>2. s \in ThrRec
    BY <1>1, SeqTail DEF ThrRec, Onward
  <2>3. thr[t].prog # <<>> /\ Head(thr[t].prog) \notin Gos \cup Incs /\ c = thr[t].c
    BY <1>2
  <2> QED BY ONLY <1>1, <1>3, <2>1, <2>2, <2>3, WorkerNext
<1>5. thr' \in [Threads -> ThrRec] /\ thr'[t] = s /\ \A u \in Threads : u # t => thr'[u] = thr[u]
  BY <1>1, <1>4
<1>6. ConnOK(conn[c], pend[c], thr', tasks, Down, c)
  <2>1. \A u \in Threads : Like(thr[u], thr'[u], c)
    BY <1>4, <1>5 DEF Like
  <2>2. (\A x \in tasks : x.c = c => x \in tasks) /\ (Down => Down)
    OBVIOUS
  <2> QED BY ONLY <1>1, <1>5, <2>1, <2>2, Quiet
<1>7. ~Starting(s)
  BY <1>3, <1>4, Workers
<1>8. thr'[t].c = c /\ thr'[t].refs >= 1 /\ ~Starting(thr'[t])
  BY <1>4, <1>5, <1>7
<1>9. /\ Counted(conn[c], pend[c], thr', c) /\ Bounded(conn[c], pend[c]) /\ OneDriver(pend[c], thr', c)
      /\ \A u \in Threads : thr'[u].c = c => ~Starting(thr'[u])
      /\ pend[c]["finish"] = 0 /\ conn[c].ops # 0
  <2>1. t \in Threads /\ thr' \in [Threads -> ThrRec] /\ conn[c] \in ConnRec /\ pend[c] \in [Kinds -> Nat]
    BY <1>1, <1>5
  <2> QED BY ONLY <1>6, <1>8, <2>1, HolderParts
<1> QED BY <1>1, <1>3, <1>4, <1>5, <1>6, <1>9

\* StartConnection, which cancels the timer, keeps the inductive invariant
LEMMA CancelTimerStep ==
  ASSUME PoolIInv, NEW t \in Threads, thr[t].h # "stopAll", thr[t].c # NoConn, CancelTimer(t, thr[t].c)
  PROVE  PoolIInv'
<1>1. PICK c : c = thr[t].c
  OBVIOUS
<1>2. PICK s : s = Onward(thr[t])
  OBVIOUS
<1>3. thr[t].prog # <<>> /\ Head(thr[t].prog) = "cancelTimer" /\ thr' = [thr EXCEPT ![t] = s]
      /\ PoolIInv /\ t \in Threads /\ thr[t].h # "stopAll" /\ thr[t].c # NoConn
  BY <1>2 DEF CancelTimer, At, Next1, Onward
<1>4. /\ c \in Conns /\ thr[t].h \in Regs /\ thr[t].refs >= 1 /\ s \in ThrRec /\ s.h = thr[t].h /\ s.c = c
      /\ ThreadOK(s, NotInUse, Down) /\ thr' \in [Threads -> ThrRec]
      /\ conn \in [Conns -> ConnRec] /\ pend \in [Conns -> [Kinds -> Nat]] /\ conn[c] \in ConnRec /\ pend[c] \in [Kinds -> Nat]
      /\ tasks \subseteq TaskRec
      /\ Counted(conn[c], pend[c], thr', c) /\ Bounded(conn[c], pend[c]) /\ OneDriver(pend[c], thr', c)
      /\ pend[c]["finish"] = 0 /\ conn[c].ops # 0
  BY ONLY <1>1, <1>2, <1>3, WorkerAt
<1>5. PICK cn : cn = [conn[c] EXCEPT !.state = "CONNECTED"]
  OBVIOUS
<1>6. PICK pd : pd = CancelledOf(pend[c])
  OBVIOUS
<1>7. conn' = [conn EXCEPT ![c] = cn] /\ pend' = [pend EXCEPT ![c] = pd] /\ tasks' = tasks /\ Same
  BY <1>1, <1>4, <1>5, <1>6 DEF CancelTimer, Cancelled, CancelledOf
<1>8. cn \in ConnRec /\ cn.free = conn[c].free /\ cn.incoming = conn[c].incoming /\ cn.stopping = conn[c].stopping /\ cn.ops = conn[c].ops
      /\ cn.useCount = conn[c].useCount /\ cn.use = conn[c].use /\ cn.writing = conn[c].writing
  BY <1>4, <1>5 DEF ConnRec
<1>9. /\ pd \in [Kinds -> Nat] /\ PendCount(pd) = PendCount(pend[c]) /\ Bounded(conn[c], pd) /\ OneDriver(pd, thr', c)
      /\ pd["finish"] = pend[c]["finish"]
  BY ONLY <1>4, <1>6, CancelOf
<1>10. Counted(cn, pd, thr', c) /\ Bounded(cn, pd) /\ pd["finish"] = IF cn.stopping = 1 /\ cn.ops = 0 THEN 1 ELSE 0
  <2>1. Counted(cn, pd, thr', c)
    BY <1>4, <1>8, <1>9 DEF Counted
  <2>2. Bounded(cn, pd)
    BY <1>8, <1>9 DEF Bounded
  <2> QED BY <1>4, <1>8, <1>9, <2>1, <2>2
<1>11. tasks' \subseteq TaskRec /\ \A x \in tasks' : x \in tasks \/ (x.c = c /\ x.id = conn[c].useCount /\ x.use = conn[c].use)
  BY <1>4, <1>7
<1>12. PoolIInv /\ t \in Threads
  OBVIOUS
<1> QED BY ONLY <1>1, <1>3, <1>4, <1>7, <1>8, <1>9, <1>10, <1>11, <1>12, WorkerStep

\* Queueing a message for validation keeps the inductive invariant
LEMMA ValidateStep ==
  ASSUME PoolIInv, NEW t \in Threads, thr[t].h # "stopAll", thr[t].c # NoConn, Validate(t, thr[t].c)
  PROVE  PoolIInv'
<1>1. PICK c : c = thr[t].c
  OBVIOUS
<1>2. PICK s : s = Onward(thr[t])
  OBVIOUS
<1>3. thr[t].prog # <<>> /\ Head(thr[t].prog) = "validate" /\ thr' = [thr EXCEPT ![t] = s]
      /\ PoolIInv /\ t \in Threads /\ thr[t].h # "stopAll" /\ thr[t].c # NoConn
  BY <1>2 DEF Validate, At, Next1, Onward
<1>4. /\ c \in Conns /\ thr[t].h \in Regs /\ thr[t].refs >= 1 /\ s \in ThrRec /\ s.h = thr[t].h /\ s.c = c
      /\ ThreadOK(s, NotInUse, Down) /\ thr' \in [Threads -> ThrRec]
      /\ conn \in [Conns -> ConnRec] /\ pend \in [Conns -> [Kinds -> Nat]] /\ conn[c] \in ConnRec /\ pend[c] \in [Kinds -> Nat]
      /\ tasks \subseteq TaskRec
      /\ Counted(conn[c], pend[c], thr', c) /\ Bounded(conn[c], pend[c]) /\ OneDriver(pend[c], thr', c)
      /\ pend[c]["finish"] = 0 /\ conn[c].ops # 0
  BY ONLY <1>1, <1>2, <1>3, WorkerAt
<1>5. conn' = [conn EXCEPT ![c] = conn[c]] /\ pend' = [pend EXCEPT ![c] = pend[c]] /\ Same
  BY <1>4 DEF Validate
<1>6. tasks' = tasks \cup {[c |-> c, id |-> conn[c].useCount, use |-> conn[c].use]}
  BY <1>1 DEF Validate
<1>7. tasks' \subseteq TaskRec /\ \A x \in tasks' : x \in tasks \/ (x.c = c /\ x.id = conn[c].useCount /\ x.use = conn[c].use)
  BY <1>4, <1>6 DEF TaskRec, ConnRec
<1>8. PoolIInv /\ t \in Threads /\ pend[c]["finish"] = IF conn[c].stopping = 1 /\ conn[c].ops = 0 THEN 1 ELSE 0
  BY <1>4
<1> QED BY ONLY <1>1, <1>3, <1>4, <1>5, <1>7, <1>8, WorkerStep

\* Stop, called by a handler, keeps the inductive invariant
LEMMA StopStep ==
  ASSUME PoolIInv, NEW t \in Threads, thr[t].h # "stopAll", thr[t].c # NoConn, Stop(t, thr[t].c)
  PROVE  PoolIInv'
<1>1. PICK c : c = thr[t].c
  OBVIOUS
<1>2. PICK s : s = Onward(thr[t])
  OBVIOUS
<1>3. thr[t].prog # <<>> /\ Head(thr[t].prog) = "stop" /\ thr' = [thr EXCEPT ![t] = s]
      /\ PoolIInv /\ t \in Threads /\ thr[t].h # "stopAll" /\ thr[t].c # NoConn
  BY <1>2 DEF Stop, At, Next1, Onward
<1>4. /\ c \in Conns /\ thr[t].h \in Regs /\ thr[t].refs >= 1 /\ s \in ThrRec /\ s.h = thr[t].h /\ s.c = c
      /\ ThreadOK(s, NotInUse, Down) /\ thr' \in [Threads -> ThrRec]
      /\ conn \in [Conns -> ConnRec] /\ pend \in [Conns -> [Kinds -> Nat]] /\ conn[c] \in ConnRec /\ pend[c] \in [Kinds -> Nat]
      /\ tasks \subseteq TaskRec
      /\ Counted(conn[c], pend[c], thr', c) /\ Bounded(conn[c], pend[c]) /\ OneDriver(pend[c], thr', c)
      /\ pend[c]["finish"] = 0 /\ conn[c].ops # 0
  BY ONLY <1>1, <1>2, <1>3, WorkerAt
<1>5. Same /\ tasks' = tasks /\ StopWithConnLock(c)
  BY <1>1 DEF Stop
<1>6. tasks' \subseteq TaskRec /\ \A x \in tasks' : x \in tasks \/ (x.c = c /\ x.id = conn[c].useCount /\ x.use = conn[c].use)
  BY <1>4, <1>5
<1>7. CASE conn[c].stopping # 0
  <2>1. conn' = [conn EXCEPT ![c] = conn[c]] /\ pend' = [pend EXCEPT ![c] = pend[c]]
    BY <1>4, <1>5, <1>7 DEF StopWithConnLock
  <2>2. PoolIInv /\ t \in Threads /\ pend[c]["finish"] = IF conn[c].stopping = 1 /\ conn[c].ops = 0 THEN 1 ELSE 0
    BY <1>4
  <2> QED BY ONLY <1>1, <1>3, <1>4, <1>5, <1>6, <2>1, <2>2, WorkerStep
<1>8. CASE conn[c].stopping = 0
  <2>1. PICK cn : cn = StoppedOf(conn[c])
    OBVIOUS
  <2>2. PICK pd : pd = CancelledOf(pend[c])
    OBVIOUS
  <2>3. /\ pd \in [Kinds -> Nat] /\ PendCount(pd) = PendCount(pend[c]) /\ Bounded(conn[c], pd) /\ OneDriver(pd, thr', c)
        /\ pd["finish"] = pend[c]["finish"]
    BY ONLY <1>4, <2>2, CancelOf
  <2>4. cn \in ConnRec /\ cn.free = conn[c].free /\ cn.incoming = conn[c].incoming /\ cn.stopping = 1 /\ cn.ops = conn[c].ops
        /\ cn.useCount = conn[c].useCount /\ cn.use = conn[c].use /\ cn.writing = conn[c].writing
    BY <1>4, <2>1 DEF StoppedOf, ConnRec
  <2>5. conn' = [conn EXCEPT ![c] = cn]
    BY <1>4, <1>5, <1>8, <2>1 DEF StopWithConnLock, StoppedOf
  <2>6. pend' = [pend EXCEPT ![c] = pd]
    <3>1. pend' = [Cancelled(c) EXCEPT ![c]["finish"] = @]
      BY <1>4, <1>5, <1>8 DEF StopWithConnLock
    <3>2. Cancelled(c) = [pend EXCEPT ![c] = pd]
      BY <1>4, <2>2 DEF Cancelled, CancelledOf
    <3> QED BY <1>4, <2>3, <3>1, <3>2
  <2>7. Counted(cn, pd, thr', c) /\ Bounded(cn, pd) /\ pd["finish"] = IF cn.stopping = 1 /\ cn.ops = 0 THEN 1 ELSE 0
    <3>1. Counted(cn, pd, thr', c)
      BY <1>4, <2>3, <2>4 DEF Counted
    <3>2. Bounded(cn, pd)
      BY <2>3, <2>4 DEF Bounded
    <3> QED BY <1>4, <2>3, <2>4, <3>1, <3>2
  <2>8. PoolIInv /\ t \in Threads
    OBVIOUS
  <2> QED BY ONLY <1>1, <1>3, <1>4, <1>5, <1>6, <1>8, <2>3, <2>4, <2>5, <2>6, <2>7, <2>8, WorkerStep
<1> QED BY <1>7, <1>8

\* References that come and go
LEMMA CountedStep ==
  ASSUME NEW T \in [Threads -> ThrRec], NEW U \in [Threads -> ThrRec], NEW t \in Threads, NEW c,
         \A u \in Threads : u # t => U[u] = T[u], NEW cn \in ConnRec, NEW cm \in ConnRec, NEW pd \in [Kinds -> Nat], NEW pm \in [Kinds -> Nat],
         Counted(cn, pd, T, c), cm.ops + PendCount(pd) + Own(T[t], c) = cn.ops + PendCount(pm) + Own(U[t], c)
  PROVE  Counted(cm, pm, U, c)
<1>1. /\ HeldCount(T, c) \in Nat /\ HeldCount(U, c) \in Nat
      /\ HeldCount(U, c) + Own(T[t], c) = HeldCount(T, c) + Own(U[t], c)
  BY HeldChange
<1>2. PendCount(pd) \in Nat /\ PendCount(pm) \in Nat
  BY DEF PendCount, Kinds
<1>3. cn.ops \in Nat /\ cm.ops \in Nat
  BY DEF ConnRec
<1>4. T[t].refs \in Nat /\ U[t].refs \in Nat
  <2>1. \A r \in ThrRec : r.refs \in Nat
    BY DEF ThrRec
  <2> QED BY <2>1
<1>5. Own(T[t], c) \in Nat /\ Own(U[t], c) \in Nat
  BY <1>4 DEF Own
<1>6. cn.ops = PendCount(pd) + HeldCount(T, c)
  BY DEF Counted
<1>7. cm.ops = PendCount(pm) + HeldCount(U, c)
  BY <1>1, <1>2, <1>3, <1>5, <1>6
<1> QED BY <1>7 DEF Counted

\* A thread between handlers satisfies its claim
LEMMA IdleOK ==
  ASSUME NEW S, NEW down
  PROVE  Idle \in ThrRec /\ ThreadOK(Idle, S, down) /\ Idle.c = NoConn /\ Idle.refs = 0 /\ Idle.prog = <<>> /\ Idle.h = "none"
<1>1. Idle.c = NoConn /\ Idle.refs = 0 /\ Idle.prog = <<>> /\ Idle.h = "none"
  BY DEF Idle
<1>2. Idle \in ThrRec
  BY DEF Idle, ThrRec
<1>3. ThreadOK(Idle, S, down)
  BY <1>1 DEF ThreadOK, Regs
<1> QED BY <1>1, <1>2, <1>3

\* A thread with nothing left to do but to let go of the connection
LEMMA AtEnd ==
  ASSUME NEW r, r.prog = <<>>
  PROVE  ~Driver(r) /\ ~TimerAhead(r) /\ ~Starting(r) /\ ~Finishing(r) /\ ~Freeing(r) /\ ~Accepting(r)
BY DEF Driver, TimerAhead, DrivesOn, HasTimer, Starting, Finishing, Freeing, Accepting

\* DecRef keeps the inductive invariant: the last reference of a stopping connection posts HandleStop
LEMMA DecRefStep ==
  ASSUME PoolIInv, NEW t \in Threads, thr[t].h # "stopAll", thr[t].c # NoConn, DecRef(t, thr[t].c)
  PROVE  PoolIInv'
<1>1. PICK c : c = thr[t].c
  OBVIOUS
<1>2. /\ thr[t] \in ThrRec /\ c \in Conns /\ ThreadOK(thr[t], NotInUse, Down) /\ conn[c] \in ConnRec /\ pend[c] \in [Kinds -> Nat]
      /\ ConnOK(conn[c], pend[c], thr, tasks, Down, c) /\ thr \in [Threads -> ThrRec] /\ conn \in [Conns -> ConnRec]
      /\ pend \in [Conns -> [Kinds -> Nat]] /\ tasks \subseteq TaskRec /\ thr[t].refs \in 0 .. 3
  BY <1>1, AtThread
<1>3. PICK s : s = IF thr[t].refs = 1 THEN Idle ELSE [thr[t] EXCEPT !.refs = thr[t].refs - 1]
  OBVIOUS
<1>4. PICK cn : cn = [conn[c] EXCEPT !.ops = conn[c].ops - 1]
  OBVIOUS
<1>5. PICK pd : pd = [pend[c] EXCEPT !["finish"] = IF Stopping(c) /\ conn[c].ops = 1 THEN @ + 1 ELSE @]
  OBVIOUS
<1>6. thr[t].prog = <<>> /\ thr[t].refs >= 1
  BY <1>1, <1>2 DEF DecRef
<1>7. thr' = [thr EXCEPT ![t] = s] /\ tasks' = tasks /\ Same /\ conn' = [conn EXCEPT ![c] = cn] /\ pend' = [pend EXCEPT ![c] = pd]
  <2>1. thr' = [thr EXCEPT ![t] = s]
    <3>1. thr' = [thr EXCEPT ![t] = IF thr[t].refs = 1 THEN Idle ELSE [thr[t] EXCEPT !.refs = thr[t].refs - 1]]
      BY DEF DecRef
    <3> QED BY <1>3, <3>1
  <2>2. conn' = [conn EXCEPT ![c] = cn]
    BY <1>1, <1>2, <1>4 DEF DecRef
  <2>3. pend' = [pend EXCEPT ![c] = pd]
    BY <1>1, <1>2, <1>5 DEF DecRef
  <2> QED BY <2>1, <2>2, <2>3 DEF DecRef
<1>8. /\ Counted(conn[c], pend[c], thr, c) /\ Bounded(conn[c], pend[c]) /\ OneDriver(pend[c], thr, c)
      /\ conn[c].stopping # Unused /\ pend[c]["finish"] = 0 /\ conn[c].ops # 0
  <2>1. ~Starting(thr[t]) /\ t \in Threads /\ thr[t].c = c /\ thr[t].refs >= 1
    BY <1>1, <1>6, AtEnd
  <2>2. /\ conn[c] \in ConnRec /\ pend[c] \in [Kinds -> Nat] /\ ConnOK(conn[c], pend[c], thr, tasks, Down, c)
        /\ thr \in [Threads -> ThrRec]
    BY <1>2
  <2> QED BY ONLY <2>1, <2>2, HolderParts
<1>9. /\ cn \in ConnRec /\ cn.free = conn[c].free /\ cn.incoming = conn[c].incoming /\ cn.stopping = conn[c].stopping
      /\ cn.ops = conn[c].ops - 1 /\ cn.useCount = conn[c].useCount /\ cn.use = conn[c].use /\ cn.writing = conn[c].writing
  <2>1. conn[c].ops - 1 \in Nat
    <3>1. conn[c].ops \in Nat
      BY <1>2 DEF ConnRec
    <3> QED BY <1>8, <3>1
  <2> QED BY <1>2, <1>4, <2>1 DEF ConnRec
<1>10. /\ pd \in [Kinds -> Nat] /\ \A k \in Regs : pd[k] = pend[c][k]
       /\ pd["finish"] = IF cn.stopping = 1 /\ cn.ops = 0 THEN 1 ELSE 0
  <2>1. pd \in [Kinds -> Nat] /\ \A k \in Regs : pd[k] = pend[c][k]
    BY <1>2, <1>5 DEF Kinds, Regs
  <2>2. pd["finish"] = IF Stopping(c) /\ conn[c].ops = 1 THEN 1 ELSE 0
    BY <1>2, <1>5, <1>8 DEF Kinds
  <2>3. Stopping(c) <=> conn[c].stopping = 1
    BY <1>2, <1>8 DEF Stopping, ConnRec
  <2>4. cn.ops = 0 <=> conn[c].ops = 1
    BY <1>2, <1>9 DEF ConnRec
  <2> QED BY <1>9, <2>1, <2>2, <2>3, <2>4
<1>11. thr[t].h \in Regs \/ (thr[t].h \in {"accept", "connect"} /\ thr[t].refs = 1)
  <2>1. thr[t].h \in Regs \cup {"none", "finish", "accept", "connect"}
    BY <1>2 DEF ThrRec
  <2>2. thr[t].h # "none"
    BY <1>2, <1>6 DEF ThreadOK, Idle
  <2>3. thr[t].h # "finish"
    BY <1>2, <1>6 DEF ThreadOK
  <2>4. thr[t].h \in {"accept", "connect"} => thr[t].refs = 1
    BY <1>2, <1>6 DEF ThreadOK, StarterOK
  <2> QED BY <2>1, <2>2, <2>3, <2>4
<1>12. /\ s \in ThrRec /\ ThreadOK(s, NotInUse, Down) /\ s.prog = <<>> /\ Own(s, c) = thr[t].refs - 1
       /\ (s.h = thr[t].h /\ s.c = c /\ (s.h \in Regs \/ s.prog = <<>>)) \/ s = Idle
  <2>1. CASE thr[t].refs = 1
    <3>1. s = Idle
      BY <1>3, <2>1
    <3>2. Idle.c # c
      BY <1>2, IdleOK, PoolAssumption
    <3> QED BY <2>1, <3>1, <3>2, IdleOK DEF Own
  <2>2. CASE thr[t].refs # 1
    <3>1. s.h = thr[t].h /\ s.c = c /\ s.prog = <<>> /\ s.refs = thr[t].refs - 1
      BY <1>1, <1>2, <1>3, <1>6, <2>2 DEF ThrRec
    <3>2. s.refs \in 1 .. 2
      BY <1>2, <1>6, <2>2, <3>1
    <3>3. s \in ThrRec
      <4>1. thr[t].refs - 1 \in 0 .. 3
        BY <3>1, <3>2
      <4> QED BY <1>2, <1>3, <2>2, <4>1 DEF ThrRec
    <3>4. s.h \in Regs
      BY <1>11, <2>2, <3>1
    <3>5. WorkerOK(s, NotInUse, Down)
      <4>1. WorkOK(s.prog)
        BY <1>2, <1>6, <3>1, <3>4 DEF ThreadOK, WorkerOK
      <4>2. s.refs \in 1 .. 3
        BY <3>2
      <4> QED BY <1>2, <3>1, <4>1, <4>2 DEF WorkerOK
    <3>6. ThreadOK(s, NotInUse, Down)
      BY <3>4, <3>5, Workers DEF ThreadOK
    <3> QED BY <3>1, <3>3, <3>4, <3>6 DEF Own
  <2> QED BY <2>1, <2>2
<1>13. thr' \in [Threads -> ThrRec] /\ thr'[t] = s /\ \A u \in Threads : u # t => thr'[u] = thr[u]
  BY <1>2, <1>7, <1>12
<1>14. Counted(cn, pd, thr', c)
  <2>1. PendCount(pd) = PendCount(pend[c]) /\ PendCount(pd) \in Nat
    BY <1>2, <1>10 DEF PendCount, Regs, Kinds
  <2>2. Own(thr[t], c) = thr[t].refs
    BY <1>1 DEF Own
  <2>3. conn[c].ops \in Nat
    BY <1>2 DEF ConnRec
  <2>4. cn.ops + PendCount(pend[c]) + Own(thr[t], c) = conn[c].ops + PendCount(pd) + Own(thr'[t], c)
    BY <1>2, <1>9, <1>12, <1>13, <2>1, <2>2, <2>3
  <2>5. t \in Threads
    OBVIOUS
  <2> QED BY ONLY <1>2, <1>8, <1>9, <1>10, <1>13, <2>4, <2>5, CountedStep
<1>15. Bounded(cn, pd)
  <2>1. pd["finish"] <= 1
    BY <1>10
  <2> QED BY <1>8, <1>9, <1>10, <2>1 DEF Bounded, Regs
<1>16. OneDriver(pd, thr', c)
  <2>1. ~Driver(s) /\ ~TimerAhead(s)
    BY <1>12, AtEnd
  <2>2. \A u \in Threads : thr'[u].c = c => (Driver(thr'[u]) => thr[u].c = c /\ Driver(thr[u]))
                                            /\ (TimerAhead(thr'[u]) => thr[u].c = c /\ TimerAhead(thr[u]))
    BY <1>13, <2>1
  <2>3. (\A k \in DriveKinds : pd[k] <= pend[c][k]) /\ pd["timer"] = pend[c]["timer"] /\ pd["aborted"] = pend[c]["aborted"]
    <3>1. \A k \in Regs : pend[c][k] \in Nat
      BY <1>2 DEF Regs, Kinds
    <3> QED BY <1>10, <3>1 DEF DriveKinds, Regs
  <2>4. pend[c]["timer"] = 0 /\ pend[c]["aborted"] = 0 => pd["timer"] = 0 /\ pd["aborted"] = 0
    BY <2>3
  <2> QED BY ONLY <1>2, <1>8, <1>10, <2>2, <2>3, <2>4, DriverLess
<1>17. tasks' \subseteq TaskRec /\ \A x \in tasks' : x \in tasks \/ (x.c = c /\ x.id = conn[c].useCount /\ x.use = conn[c].use)
  BY <1>2, <1>7
<1>18. PoolIInv /\ t \in Threads /\ (thr[t].h \in Regs \/ thr[t].prog = <<>>)
  BY <1>6
<1> QED BY ONLY <1>1, <1>2, <1>6, <1>7, <1>9, <1>10, <1>12, <1>14, <1>15, <1>16, <1>17, <1>18, WorkerStep

\* A step that makes no difference to any connection
LEMMA QuietStep ==
  ASSUME PoolIInv, NEW t \in Threads, NEW c \in Conns, NEW s \in ThrRec, thr' = [thr EXCEPT ![t] = s],
         conn' = conn, pend' = pend, tasks' = tasks, Same,
         Like(thr[t], s, c), Moved(thr[t], s, c, conn[c].stopping, Down), ThreadOK(s, NotInUse, Down)
  PROVE  PoolIInv'
<1>1. /\ ConnOK(conn[c], pend[c], thr, tasks, Down, c) /\ thr \in [Threads -> ThrRec] /\ conn \in [Conns -> ConnRec]
      /\ pend \in [Conns -> [Kinds -> Nat]] /\ tasks \subseteq TaskRec /\ Down \in BOOLEAN /\ conn[c] \in ConnRec /\ pend[c] \in [Kinds -> Nat]
  BY DEF PoolIInv, PoolTypes, Down
<1>2. thr' \in [Threads -> ThrRec] /\ thr'[t] = s /\ \A u \in Threads : u # t => thr'[u] = thr[u]
  BY <1>1
<1>3. ConnOK(conn[c], pend[c], thr', tasks', Down, c)
  <2>1. \A u \in Threads : Like(thr[u], thr'[u], c)
    BY <1>2 DEF Like
  <2>2. (\A x \in tasks' : x.c = c => x \in tasks) /\ (Down => Down)
    OBVIOUS
  <2> QED BY ONLY <1>1, <1>2, <2>1, <2>2, Quiet
<1>4. NotInUse' = NotInUse
  BY DEF NotInUse
<1>5. \A u \in Threads : \/ thr'[u] = thr[u]
                         \/ Moved(thr[u], thr'[u], c, conn[c].stopping, Down) /\ ThreadOK(thr'[u], NotInUse', Down)
  BY <1>2, <1>4
<1>6. PoolIInv /\ c \in Conns /\ conn' = [conn EXCEPT ![c] = conn[c]] /\ pend' = [pend EXCEPT ![c] = pend[c]] /\ Same
      /\ tasks' \subseteq TaskRec /\ \A x \in tasks' : x.c # c => x \in tasks
  BY <1>1
<1> QED BY ONLY <1>1, <1>2, <1>3, <1>5, <1>6, LocalStep

\* The end of a handler keeps the inductive invariant
LEMMA DoneStep ==
  ASSUME PoolIInv, NEW t \in Threads, thr[t].h # "stopAll", thr[t].c # NoConn, Done(t, thr[t].c)
  PROVE  PoolIInv'
<1>1. PICK c : c = thr[t].c
  OBVIOUS
<1>2. /\ c \in Conns /\ thr[t].prog = <<>> /\ thr[t].refs = 0 /\ thr' = [thr EXCEPT ![t] = Idle]
      /\ conn' = conn /\ pend' = pend /\ tasks' = tasks /\ Same /\ PoolIInv /\ t \in Threads
  BY <1>1, AtThread DEF Done
<1>3. Idle.c = NoConn /\ Idle.c # c /\ Idle \in ThrRec /\ ThreadOK(Idle, NotInUse, Down) /\ ~Accepting(Idle) /\ ~Freeing(Idle)
  BY <1>2, IdleOK, AtEnd, PoolAssumption
<1>4. ~Finishing(thr[t]) /\ ~Accepting(thr[t])
  BY <1>2, AtEnd
<1>5. Like(thr[t], Idle, c)
  BY <1>1, <1>2, <1>3, <1>4 DEF Like
<1>6. Moved(thr[t], Idle, c, conn[c].stopping, Down)
  BY <1>1, <1>2, <1>3, <1>4 DEF Moved
<1> QED BY ONLY <1>2, <1>3, <1>5, <1>6, QuietStep

-----------------------------------------------------------------------------
(* Starting a connection.                                                    *)

\* Thread r goes on to s with its next instruction
Follows(r, s) == s.h = r.h /\ s.c = r.c /\ s.prog = Tail(r.prog)

\* A thread that starts a connection goes on to its next instruction
LEMMA StarterNext ==
  ASSUME NEW r, NEW s, NEW S, NEW down \in BOOLEAN, r.h \in {"accept", "connect"}, ThreadOK(r, S, down), r.prog # <<>>,
         Head(r.prog) \in {"incStart", "postStart"},
         Follows(r, s), s.refs \in 0 .. 1, Head(r.prog) = "incStart" => s.refs = 1 \/ down
  PROVE  /\ ThreadOK(s, S, down) /\ ~Driver(s) /\ ~TimerAhead(s) /\ ~Finishing(s) /\ ~Freeing(s) /\ Starting(r) /\ ~Finishing(r)
         /\ (Starting(s) <=> Head(r.prog) = "incStart") /\ (Accepting(s) <=> Accepting(r)) /\ (r.h = "accept" => s.prog # <<>>)
         /\ r.refs \in 0 .. 1 /\ (Head(r.prog) = "incStart" => r.refs = 0) /\ (Head(r.prog) = "postStart" => r.refs = 1 \/ down)
<1> USE DEF Follows
<1>1. r.h \notin Regs /\ r.h \notin {"none", "stopAll", "finish"}
  BY DEF Regs
<1>2. StarterOK(r, down)
  BY DEF ThreadOK
<1>3. PICK at \in {AcceptAt, ConnectAt} : RestOf(r.prog, at) /\ (r.h = "accept" <=> at = AcceptAt)
  <2>1. CASE r.h = "accept"
    BY <2>1 DEF ThreadOK
  <2>2. CASE r.h = "connect"
    BY <2>2, RestFull DEF ThreadOK
  <2> QED BY <2>1, <2>2
<1>4. /\ RestOf(s.prog, at)
      /\ Head(r.prog) = "incStart" => s.prog # <<>> /\ Head(s.prog) = "postStart"
      /\ Head(r.prog) = "postStart" => IF at = AcceptAt THEN s.prog # <<>> /\ Head(s.prog) = "acceptNext" ELSE s.prog = <<>>
  BY <1>3, StartTail
<1>5. /\ r.refs \in 0 .. 1 /\ r.c \in Conns /\ (Head(r.prog) = "incStart" => r.refs = 0) /\ (Head(r.prog) = "postStart" => r.refs = 1 \/ down)
  BY <1>2 DEF StarterOK
<1>6. StarterOK(s, down)
  BY <1>4, <1>5 DEF StarterOK
<1>7. ThreadOK(s, S, down)
  BY <1>1, <1>3, <1>4, <1>6 DEF ThreadOK
<1>8. ~Driver(s) /\ ~TimerAhead(s) /\ ~Finishing(s) /\ ~Freeing(s) /\ Starting(r) /\ ~Finishing(r)
  BY <1>1 DEF Driver, TimerAhead, Finishing, Freeing, Starting
<1>9. Starting(s) <=> Head(r.prog) = "incStart"
  BY <1>4 DEF Starting
<1>10. (Accepting(s) <=> Accepting(r)) /\ (r.h = "accept" => s.prog # <<>>)
  BY <1>3, <1>4 DEF Accepting
<1> QED BY <1>5, <1>7, <1>8, <1>9, <1>10

\* What holds of a connection that thread t is about to start
LEMMA StartFacts ==
  ASSUME NEW T, NEW K, NEW down \in BOOLEAN, NEW c, NEW cn, NEW pd, ConnOK(cn, pd, T, K, down, c),
         NEW t \in Threads, T[t].c = c, Starting(T[t])
  PROVE  /\ ~cn.free /\ \A k \in Regs : pd[k] = 0
         /\ \A u \in Threads : u # t /\ T[u].c = c => T[u].refs = 0 /\ ~Starting(T[u])
         /\ \A x \in K : x.c = c => x.id # cn.useCount
         /\ ~down => cn.stopping = 0
BY DEF ConnOK, StartOK

-----------------------------------------------------------------------------
(* Taking a reference.                                                       *)

\* A thread after IncRef: with a reference more, or without
Gained(r, got) == [r EXCEPT !.prog = Tail(r.prog), !.refs = IF got THEN r.refs + 1 ELSE r.refs]
Referenced(cn, got, i) == [cn EXCEPT !.ops = IF got THEN cn.ops + 1 ELSE cn.ops, !.state = IF i = "incTimer" THEN "CONNECTING" ELSE cn.state]

\* The members of a thread after IncRef
LEMMA GainedFields ==
  ASSUME NEW r \in ThrRec, NEW got \in BOOLEAN, r.prog # <<>>, r.refs < 3
  PROVE  /\ Gained(r, got) \in ThrRec /\ Gained(r, got).h = r.h /\ Gained(r, got).c = r.c /\ Gained(r, got).prog = Tail(r.prog)
         /\ Gained(r, got).refs = IF got THEN r.refs + 1 ELSE r.refs
<1>1. r.refs \in 0 .. 3 /\ r.prog \in Seq(WorkInstr \cup RestInstr \cup Conns)
  BY DEF ThrRec
<1>2. (IF got THEN r.refs + 1 ELSE r.refs) \in 0 .. 3
  BY <1>1
<1>3. Tail(r.prog) \in Seq(WorkInstr \cup RestInstr \cup Conns)
  BY <1>1, SeqTail
<1> QED BY <1>2, <1>3 DEF ThrRec, Gained

\* The members of a connection after IncRef
LEMMA ReferencedFields ==
  ASSUME NEW cn \in ConnRec, NEW got \in BOOLEAN, NEW i
  PROVE  LET cm == Referenced(cn, got, i) IN
         /\ cm \in ConnRec /\ cm.free = cn.free /\ cm.incoming = cn.incoming /\ cm.stopping = cn.stopping
         /\ cm.useCount = cn.useCount /\ cm.use = cn.use /\ cm.writing = cn.writing /\ cm.ops = IF got THEN cn.ops + 1 ELSE cn.ops
<1>1. (IF got THEN cn.ops + 1 ELSE cn.ops) \in Nat
  BY DEF ConnRec
<1> QED BY <1>1 DEF ConnRec, Referenced

\* IncRef keeps the inductive invariant, whether it got the reference or not
LEMMA IncRefStep ==
  ASSUME PoolIInv, NEW t \in Threads, thr[t].h # "stopAll", thr[t].c # NoConn, NEW i, IncRef(t, thr[t].c, i)
  PROVE  PoolIInv'
<1>1. PICK c : c = thr[t].c
  OBVIOUS
<1>2. /\ thr[t] \in ThrRec /\ c \in Conns /\ ThreadOK(thr[t], NotInUse, Down) /\ conn[c] \in ConnRec /\ pend[c] \in [Kinds -> Nat]
      /\ ConnOK(conn[c], pend[c], thr, tasks, Down, c) /\ thr \in [Threads -> ThrRec] /\ conn \in [Conns -> ConnRec]
      /\ pend \in [Conns -> [Kinds -> Nat]] /\ tasks \subseteq TaskRec /\ thr[t].refs \in 0 .. 3 /\ Down \in BOOLEAN
  BY <1>1, AtThread
<1>3. PICK got \in BOOLEAN : got <=> conn[c].stopping = 0 /\ ~Down
  OBVIOUS
<1>4. PICK s : s = Gained(thr[t], got)
  OBVIOUS
<1>5. PICK cn : cn = Referenced(conn[c], got, i)
  OBVIOUS
<1>6. thr[t].prog # <<>> /\ Head(thr[t].prog) = i /\ i \in {"incStart", "incTimer", "incRead", "incWrite"}
  BY DEF IncRef, At
<1>7. /\ thr' = [thr EXCEPT ![t] = s] /\ tasks' = tasks /\ Same /\ conn' = [conn EXCEPT ![c] = cn] /\ pend' = pend
  <2>1. (~Stopping(c) /\ ~Down) <=> got
    BY <1>3 DEF Stopping
  <2>2. thr' = [thr EXCEPT ![t].prog = Tail(@), ![t].refs = IF got THEN @ + 1 ELSE @]
    BY <1>1, <2>1 DEF IncRef
  <2>3. conn' = [conn EXCEPT ![c].ops = IF got THEN @ + 1 ELSE @, ![c].state = IF i = "incTimer" THEN "CONNECTING" ELSE @]
    BY <1>1, <2>1 DEF IncRef
  <2>4. thr' = [thr EXCEPT ![t] = s]
    BY <1>2, <1>4, <2>2 DEF Gained
  <2>5. conn' = [conn EXCEPT ![c] = cn]
    BY <1>2, <1>5, <2>3 DEF Referenced
  <2> QED BY <2>4, <2>5 DEF IncRef
<1>8. /\ cn \in ConnRec /\ cn.free = conn[c].free /\ cn.incoming = conn[c].incoming /\ cn.stopping = conn[c].stopping
      /\ cn.useCount = conn[c].useCount /\ cn.use = conn[c].use /\ cn.writing = conn[c].writing
      /\ cn.ops = IF got THEN conn[c].ops + 1 ELSE conn[c].ops
  BY ONLY <1>2, <1>5, ReferencedFields
<1>9. PoolIInv /\ t \in Threads /\ thr[t].h # "stopAll" /\ pend' = [pend EXCEPT ![c] = pend[c]]
  BY <1>2, <1>7
<1>10. ASSUME thr[t].refs < 3
       PROVE  /\ s \in ThrRec /\ s.h = thr[t].h /\ s.c = c /\ s.prog = Tail(thr[t].prog)
              /\ s.refs = (IF got THEN thr[t].refs + 1 ELSE thr[t].refs)
              /\ thr' \in [Threads -> ThrRec] /\ thr'[t] = s /\ \A u \in Threads : u # t => thr'[u] = thr[u]
              /\ Counted(cn, pend[c], thr', c)
  <2>1. s \in ThrRec /\ s.h = thr[t].h /\ s.c = c /\ s.prog = Tail(thr[t].prog) /\ s.refs = IF got THEN thr[t].refs + 1 ELSE thr[t].refs
    BY <1>1, <1>2, <1>4, <1>6, <1>10, GainedFields
  <2>2. thr' \in [Threads -> ThrRec] /\ thr'[t] = s /\ \A u \in Threads : u # t => thr'[u] = thr[u]
    BY <1>2, <1>7, <2>1
  <2>3. Own(thr[t], c) = thr[t].refs /\ Own(thr'[t], c) = s.refs
    BY <1>1, <2>1, <2>2 DEF Own
  <2>4. PendCount(pend[c]) \in Nat /\ conn[c].ops \in Nat
    BY <1>2 DEF PendCount, Kinds, ConnRec
  <2>5. cn.ops + PendCount(pend[c]) + Own(thr[t], c) = conn[c].ops + PendCount(pend[c]) + Own(thr'[t], c)
    BY <1>2, <1>8, <2>1, <2>3, <2>4
  <2>6. Counted(conn[c], pend[c], thr, c)
    BY <1>2 DEF ConnOK
  <2>7. Counted(cn, pend[c], thr', c)
    BY ONLY <1>2, <1>8, <1>9, <2>2, <2>5, <2>6, CountedStep
  <2> QED BY <2>1, <2>2, <2>7
<1>11. CASE i # "incStart"
  <2>1. i \in Incs /\ i \in WorkInstr /\ i \notin Gos /\ i # "stop"
    BY <1>6, <1>11 DEF Incs, WorkInstr, Gos
  <2>2. thr[t].h \in Regs
    BY <1>2, <1>6, <1>9, <2>1, AtWork
  <2>3. WorkerOK(thr[t], NotInUse, Down) /\ WorkOK(thr[t].prog)
    BY <1>2, <2>2 DEF ThreadOK, WorkerOK
  <2>4. thr[t].refs = 2
    <3>1. Head(<<"stop">>) = "stop"
      OBVIOUS
    <3>2. thr[t].prog # <<"stop">>
      BY <1>6, <2>1, <3>1
    <3> QED BY <1>6, <2>1, <2>3, <3>2 DEF WorkerOK
  <2>5. /\ s \in ThrRec /\ s.h = thr[t].h /\ s.c = c /\ s.prog = Tail(thr[t].prog) /\ s.refs = (IF got THEN 3 ELSE 2)
        /\ thr' \in [Threads -> ThrRec] /\ thr'[t] = s /\ \A u \in Threads : u # t => thr'[u] = thr[u]
        /\ Counted(cn, pend[c], thr', c)
    BY <1>10, <2>4
  <2>6. /\ WorkOK(s.prog) /\ (DrivesOn(s.prog) => DrivesOn(thr[t].prog)) /\ (HasTimer(s.prog) => HasTimer(thr[t].prog))
        /\ s.prog # <<>> /\ Head(s.prog) \in Gos
    BY <1>6, <2>1, <2>3, <2>5, TailWork
  <2>7. ~got => c \in NotInUse \/ Down
    BY <1>2, <1>3 DEF NotInUse
  <2>8. WorkerOK(s, NotInUse, Down)
    BY <1>2, <2>5, <2>6, <2>7 DEF WorkerOK
  <2>9. ThreadOK(s, NotInUse, Down)
    BY <2>2, <2>5, <2>8, Workers DEF ThreadOK
  <2>10. /\ Bounded(conn[c], pend[c]) /\ OneDriver(pend[c], thr, c) /\ pend[c]["finish"] = 0 /\ conn[c].ops # 0
    <3>1. ~Starting(thr[t]) /\ t \in Threads /\ thr[t].c = c /\ thr[t].refs >= 1
      BY <1>1, <2>2, <2>4, Workers
    <3>2. /\ conn[c] \in ConnRec /\ pend[c] \in [Kinds -> Nat] /\ ConnOK(conn[c], pend[c], thr, tasks, Down, c)
          /\ thr \in [Threads -> ThrRec]
      BY <1>2
    <3> QED BY ONLY <3>1, <3>2, HolderParts
  <2>11. Bounded(cn, pend[c])
    BY <1>8, <2>10 DEF Bounded
  <2>12. OneDriver(pend[c], thr', c)
    <3>1. (Driver(s) => Driver(thr[t])) /\ (TimerAhead(s) => TimerAhead(thr[t]))
      BY <2>5, <2>6 DEF Driver, TimerAhead
    <3>2. \A u \in Threads : thr'[u].c = c => (Driver(thr'[u]) => thr[u].c = c /\ Driver(thr[u]))
                                              /\ (TimerAhead(thr'[u]) => thr[u].c = c /\ TimerAhead(thr[u]))
      BY <1>1, <2>5, <3>1
    <3>3. \A k \in DriveKinds : pend[c][k] <= pend[c][k]
      BY <1>2 DEF DriveKinds, Kinds
    <3>4. pend[c]["timer"] = 0 /\ pend[c]["aborted"] = 0 => pend[c]["timer"] = 0 /\ pend[c]["aborted"] = 0
      OBVIOUS
    <3> QED BY ONLY <1>2, <2>10, <3>2, <3>3, <3>4, DriverLess
  <2>13. pend[c]["finish"] = IF cn.stopping = 1 /\ cn.ops = 0 THEN 1 ELSE 0
    <3>1. cn.ops # 0
      BY <1>2, <1>8, <2>10 DEF ConnRec
    <3> QED BY <2>10, <3>1
  <2>14. tasks' \subseteq TaskRec /\ \A x \in tasks' : x \in tasks \/ (x.c = c /\ x.id = conn[c].useCount /\ x.use = conn[c].use)
    BY <1>2, <1>7
  <2>15. thr[t].refs >= 1
    BY <2>4
  <2> QED BY ONLY <1>1, <1>2, <1>7, <1>8, <1>9, <2>2, <2>5, <2>9, <2>11, <2>12, <2>13, <2>14, <2>15, WorkerStep
<1>12. CASE i = "incStart"
  <2>1. thr[t].h \in {"accept", "connect"}
    BY <1>2, <1>6, <1>9, <1>12, AtWork
  <2>2. thr[t].refs = 0 /\ Starting(thr[t])
    BY <1>2, <1>6, <1>12, <2>1 DEF ThreadOK, StarterOK, Starting
  <2>3. /\ s \in ThrRec /\ s.h = thr[t].h /\ s.c = c /\ s.prog = Tail(thr[t].prog) /\ s.refs = (IF got THEN 1 ELSE 0)
        /\ thr' \in [Threads -> ThrRec] /\ thr'[t] = s /\ \A u \in Threads : u # t => thr'[u] = thr[u]
        /\ Counted(cn, pend[c], thr', c)
    BY <1>10, <2>2
  <2>4. /\ ~conn[c].free /\ \A k \in Regs : pend[c][k] = 0
        /\ \A u \in Threads : u # t /\ thr[u].c = c => thr[u].refs = 0 /\ ~Starting(thr[u])
        /\ \A x \in tasks : x.c = c => x.id # conn[c].useCount
        /\ ~Down => conn[c].stopping = 0
    <3>1. ConnOK(conn[c], pend[c], thr, tasks, Down, c) /\ t \in Threads /\ thr[t].c = c /\ Starting(thr[t]) /\ Down \in BOOLEAN
      BY <1>1, <1>2, <2>2
    <3> QED BY <3>1 DEF ConnOK, StartOK
  <2>5. s.refs = 1 \/ Down
    BY <1>3, <2>3, <2>4
  <2>6. /\ ThreadOK(s, NotInUse, Down) /\ ~Driver(s) /\ ~TimerAhead(s) /\ ~Finishing(s) /\ ~Freeing(s) /\ ~Finishing(thr[t])
        /\ Starting(s) /\ (Accepting(s) <=> Accepting(thr[t])) /\ (thr[t].h = "accept" => s.prog # <<>>)
    <3>1. PICK r : r = thr[t]
      OBVIOUS
    <3>2. PICK D \in BOOLEAN : D = Down
      BY <1>2
    <3>3. r.h \in {"accept", "connect"} /\ ThreadOK(r, NotInUse, D)
      BY <1>2, <2>1, <3>1, <3>2
    <3>4. r.prog # <<>> /\ Head(r.prog) = "incStart" /\ Head(r.prog) \in {"incStart", "postStart"}
      BY <1>6, <1>12, <3>1
    <3>5. Follows(r, s) /\ s.refs \in 0 .. 1 /\ (Head(r.prog) = "incStart" => s.refs = 1 \/ D)
      BY <1>1, <2>3, <2>5, <3>1, <3>2 DEF Follows
    <3>6. /\ ThreadOK(s, NotInUse, D) /\ ~Driver(s) /\ ~TimerAhead(s) /\ ~Finishing(s) /\ ~Freeing(s) /\ ~Finishing(r)
          /\ Starting(s) /\ (Accepting(s) <=> Accepting(r)) /\ (r.h = "accept" => s.prog # <<>>)
      BY ONLY <3>2, <3>3, <3>4, <3>5, StarterNext
    <3> QED BY <3>1, <3>2, <3>6
  <2>7. Moved(thr[t], s, c, conn[c].stopping, Down)
    BY <1>1, <2>1, <2>3, <2>6 DEF Moved
  <2>8. CASE ~got
    <3>1. Like(thr[t], s, c)
      BY <1>1, <2>2, <2>3, <2>6, <2>8 DEF Like
    <3>2. conn' = conn
      <4>1. cn = conn[c]
        BY <1>2, <1>5, <1>12, <2>8 DEF Referenced, ConnRec
      <4> QED BY <1>2, <1>7, <4>1
    <3> QED BY ONLY <1>2, <1>7, <1>9, <2>3, <2>6, <2>7, <3>1, <3>2, QuietStep
  <2>9. CASE got
    <3>1. conn[c].stopping = 0 /\ 0 # Unused /\ cn.stopping = 0 /\ ~cn.free
      BY <1>3, <1>8, <2>4, <2>9 DEF Unused
    <3>2. /\ Bounded(conn[c], pend[c]) /\ OneDriver(pend[c], thr, c) /\ OneFinish(conn[c], pend[c], thr, c)
          /\ UnusedOK(conn[c], thr, c) /\ TasksOK(conn[c], thr, tasks, c)
      BY <1>2 DEF ConnOK
    <3>3. ~(pend[c]["finish"] > 0) /\ \A u \in Threads : thr[u].c = c => ~Finishing(thr[u]) /\ ~Freeing(thr[u])
      BY <3>1, <3>2 DEF OneFinish, UnusedOK
    <3>4. \A u \in Threads : thr'[u].c = c => ~Finishing(thr'[u]) /\ ~Freeing(thr'[u])
      BY <2>3, <2>6, <3>3
    <3>5. OneDriver(pend[c], thr', c)
      <4>1. \A u \in Threads : thr'[u].c = c => (Driver(thr'[u]) => thr[u].c = c /\ Driver(thr[u]))
                                                /\ (TimerAhead(thr'[u]) => thr[u].c = c /\ TimerAhead(thr[u]))
        BY <2>3, <2>6
      <4>2. \A k \in DriveKinds : pend[c][k] <= pend[c][k]
        BY <1>2 DEF DriveKinds, Kinds
      <4>3. pend[c]["timer"] = 0 /\ pend[c]["aborted"] = 0 => pend[c]["timer"] = 0 /\ pend[c]["aborted"] = 0
        OBVIOUS
      <4> QED BY ONLY <1>2, <3>2, <4>1, <4>2, <4>3, DriverLess
    <3>6. Bounded(cn, pend[c])
      BY <1>8, <3>2 DEF Bounded
    <3>7. OneFinish(cn, pend[c], thr', c)
      BY <3>1, <3>3, <3>4 DEF OneFinish
    <3>8. UnusedOK(cn, thr', c)
      BY <3>1, <3>4 DEF UnusedOK
    <3>9. StartOK(cn, pend[c], thr', tasks', Down, c)
      <4>1. \A u \in Threads : u # t /\ thr'[u].c = c => thr'[u].refs = 0 /\ ~Starting(thr'[u])
        BY <2>3, <2>4
      <4>2. \A x \in tasks' : x.c = c => x.id # cn.useCount
        BY <1>7, <1>8, <2>4
      <4> QED BY <2>4, <3>1, <4>1, <4>2 DEF StartOK
    <3>10. TasksOK(cn, thr', tasks', c)
      <4>1. \A x \in tasks' : x.c = c => x.id <= cn.useCount /\ x.id # cn.useCount
        BY <1>7, <1>8, <2>4, <3>2 DEF TasksOK
      <4> QED BY <4>1 DEF TasksOK
    <3>11. ConnOK(cn, pend[c], thr', tasks', Down, c)
      BY <2>3, <3>5, <3>6, <3>7, <3>8, <3>9, <3>10 DEF ConnOK
    <3>12. NotInUse' = NotInUse
      BY <1>2, <1>7, <1>8 DEF NotInUse
    <3>13. \A u \in Threads : \/ thr'[u] = thr[u]
                              \/ Moved(thr[u], thr'[u], c, conn[c].stopping, Down) /\ ThreadOK(thr'[u], NotInUse', Down)
      BY <2>3, <2>6, <2>7, <3>12
    <3>14. tasks' \subseteq TaskRec /\ \A x \in tasks' : x.c # c => x \in tasks
      BY <1>2, <1>7
    <3> QED BY ONLY <1>2, <1>7, <1>8, <1>9, <2>3, <3>11, <3>13, <3>14, LocalStep
  <2> QED BY <2>8, <2>9
<1> QED BY <1>11, <1>12

-----------------------------------------------------------------------------
(* Starting an operation.                                                    *)

\* The operations that the instructions start
LEMMA PendingIs ==
  /\ DOMAIN Pending = Gos \cup {"postStart"}
  /\ Pending["postStart"] = "start" /\ Pending["goTimer"] = "timer" /\ Pending["goRead"] = "read" /\ Pending["goWrite"] = "write"
  /\ Pending["goProxyWrite"] = "proxyWrite" /\ Pending["goProxyRead"] = "proxyRead"
BY DEF Pending, Gos

\* One operation of kind k more
OneMore(pd, pm, k) == pm \in [Kinds -> Nat] /\ pm[k] = pd[k] + 1 /\ \A j \in Kinds : j # k => pm[j] = pd[j]

\* One operation more counts as one more
LEMMA MoreCount ==
  ASSUME NEW pd \in [Kinds -> Nat], NEW pm, NEW k \in Regs, OneMore(pd, pm, k)
  PROVE  PendCount(pm) = PendCount(pd) + 1 /\ pm["finish"] = pd["finish"]
<1>1. /\ pd["start"] \in Nat /\ pd["timer"] \in Nat /\ pd["aborted"] \in Nat /\ pd["read"] \in Nat /\ pd["write"] \in Nat
      /\ pd["proxyWrite"] \in Nat /\ pd["proxyRead"] \in Nat
  BY DEF Kinds
<1>2. pm["finish"] = pd["finish"]
  BY DEF OneMore, Kinds, Regs
<1>3. k \in {"start", "timer", "aborted", "read", "write", "proxyWrite", "proxyRead"}
  BY DEF Regs
<1>4. PendCount(pm) = PendCount(pd) + 1
  BY <1>1, <1>3 DEF OneMore, Kinds, PendCount
<1> QED BY <1>2, <1>4

\* Thread t starts an operation and goes from T[t] to U[t]
Launching(T, U, c, pd, pm, cn, cm, i, t) ==
  /\ pd \in [Kinds -> Nat] /\ i \in Gos /\ t \in Threads
  /\ T[t].c = c /\ T[t].h \in Regs /\ WorkOK(T[t].prog) /\ T[t].prog # <<>> /\ Head(T[t].prog) = i
  /\ Follows(T[t], U[t]) /\ \A u \in Threads : u # t => U[u] = T[u]
  /\ Bounded(cn, pd) /\ OneDriver(pd, T, c)
  /\ (i \in Writes => ~cn.writing) /\ (cn.writing => cm.writing) /\ (i \in Writes => cm.writing)
  /\ OneMore(pd, pm, Pending[i])

\* The operation drives the connection instead of the thread
LEMMA LaunchOK ==
  ASSUME NEW T, NEW U, NEW c, NEW pd, NEW pm, NEW cn, NEW cm, NEW i, NEW t, Launching(T, U, c, pd, pm, cn, cm, i, t)
  PROVE  Bounded(cm, pm) /\ OneDriver(pm, U, c) /\ Pending[i] \in Regs
<1> SUFFICES ASSUME pd \in [Kinds -> Nat], i \in Gos, t \in Threads,
                    T[t].c = c, T[t].h \in Regs, WorkOK(T[t].prog), T[t].prog # <<>>, Head(T[t].prog) = i,
                    Follows(T[t], U[t]), \A u \in Threads : u # t => U[u] = T[u],
                    Bounded(cn, pd), OneDriver(pd, T, c), i \in Writes => ~cn.writing, cn.writing => cm.writing, i \in Writes => cm.writing,
                    OneMore(pd, pm, Pending[i])
             PROVE  Bounded(cm, pm) /\ OneDriver(pm, U, c) /\ Pending[i] \in Regs
  BY DEF Launching
<1>1. /\ WorkOK(U[t].prog) /\ U[t].h \in Regs /\ U[t].c = c
      /\ (Driver(U[t]) => Driver(T[t])) /\ (TimerAhead(U[t]) => TimerAhead(T[t]))
      /\ (i \in Drives => Driver(T[t]) /\ ~Driver(U[t])) /\ (i = "goTimer" => Driver(T[t]) /\ TimerAhead(T[t]) /\ ~TimerAhead(U[t]))
  BY TailWork DEF Follows, Driver, TimerAhead
<1>2. /\ pd["start"] \in Nat /\ pd["timer"] \in Nat /\ pd["aborted"] \in Nat /\ pd["read"] \in Nat /\ pd["write"] \in Nat
      /\ pd["proxyWrite"] \in Nat /\ pd["proxyRead"] \in Nat /\ pd["finish"] \in Nat
  BY DEF Kinds
<1>3. ASSUME NEW r, TimerAhead(r) PROVE Driver(r)
  BY <1>3 DEF TimerAhead, Driver, HasTimer, DrivesOn
<1>4. Driver(T[t]) => (\A k \in DriveKinds : pd[k] = 0) /\ \A u \in Threads : T[u].c = c /\ Driver(T[u]) => u = t
  BY DEF OneDriver
<1>5. \A u \in Threads : U[u].c = c => T[u].c = c /\ (Driver(U[u]) => Driver(T[u])) /\ (TimerAhead(U[u]) => TimerAhead(T[u]))
  BY <1>1
<1>6. CASE i \in Drives
  <2>1. PICK k \in DriveKinds : k = Pending[i] /\ k # "start"
    BY <1>6, PendingIs DEF Drives, DriveKinds
  <2>2. pm[k] = 1 /\ \A j \in Kinds : j # k => pm[j] = pd[j]
    BY <1>1, <1>4, <1>6, <2>1 DEF OneMore, DriveKinds
  <2>3. \A j \in DriveKinds : j # k => pm[j] = 0
    BY <1>1, <1>4, <1>6, <2>1, <2>2 DEF DriveKinds, Kinds
  <2>4. \A u \in Threads : U[u].c = c => ~Driver(U[u])
    BY <1>1, <1>4, <1>5, <1>6
  <2>5. \A u \in Threads : U[u].c = c => ~TimerAhead(U[u])
    BY <1>3, <2>4
  <2>6. pm["start"] = 0
    BY <2>1, <2>3 DEF DriveKinds
  <2>7. OneDriver(pm, U, c)
    BY <2>3, <2>4, <2>5, <2>6 DEF OneDriver
  <2>8. Bounded(cm, pm)
    <3>1. CASE k = "proxyWrite"
      <4>1. i \in Writes
        BY <1>6, <2>1, <3>1, PendingIs DEF Drives, Writes
      <4>2. pd["write"] = 0
        BY <1>2, <4>1 DEF Bounded
      <4> QED BY <1>2, <2>2, <3>1, <4>1, <4>2 DEF Bounded, Kinds
    <3>2. CASE k \in {"read", "proxyRead"}
      <4>1. /\ pm["start"] = pd["start"] /\ pm["timer"] = pd["timer"] /\ pm["aborted"] = pd["aborted"] /\ pm["write"] = pd["write"]
            /\ pm["proxyWrite"] = pd["proxyWrite"] /\ pm["finish"] = pd["finish"]
        BY <2>2, <3>2 DEF Kinds
      <4>2. pm["read"] <= 1 /\ pm["proxyRead"] <= 1
        BY <1>2, <2>2, <2>3, <3>2 DEF DriveKinds
      <4> QED BY <4>1, <4>2 DEF Bounded
    <3> QED BY <2>1, <3>1, <3>2 DEF DriveKinds
  <2> QED BY <2>1, <2>7, <2>8 DEF DriveKinds, Regs
<1>7. CASE i = "goTimer"
  <2>1. pd["timer"] = 0 /\ pd["aborted"] = 0 /\ pd["start"] = 0
    BY <1>1, <1>4, <1>7 DEF OneDriver, DriveKinds
  <2>2. Pending[i] = "timer" /\ pm["timer"] = 1 /\ \A j \in Kinds : j # "timer" => pm[j] = pd[j]
    BY <1>7, <2>1, PendingIs DEF OneMore
  <2>3. /\ pm["start"] = pd["start"] /\ pm["aborted"] = pd["aborted"] /\ pm["read"] = pd["read"] /\ pm["proxyRead"] = pd["proxyRead"]
        /\ pm["write"] = pd["write"] /\ pm["proxyWrite"] = pd["proxyWrite"] /\ pm["finish"] = pd["finish"]
    BY <2>2 DEF Kinds
  <2>4. Bounded(cm, pm)
    BY <2>1, <2>2, <2>3 DEF Bounded
  <2>5. \A u \in Threads : U[u].c = c => ~TimerAhead(U[u])
    BY <1>1, <1>3, <1>4, <1>5, <1>7
  <2>6. \A k \in DriveKinds : pm[k] = pd[k]
    BY <2>3 DEF DriveKinds
  <2>7. pm["start"] = 0
    BY <2>1, <2>3
  <2>8. OneDriver(pm, U, c)
    BY <1>5, <2>5, <2>6, <2>7 DEF OneDriver
  <2> QED BY <2>2, <2>4, <2>8 DEF Regs
<1>8. CASE i = "goWrite"
  <2>1. Pending[i] = "write" /\ i \in Writes
    BY <1>8, PendingIs DEF Writes
  <2>2. pd["write"] = 0 /\ pd["proxyWrite"] = 0
    BY <1>2, <2>1 DEF Bounded
  <2>3. pm["write"] = 1 /\ \A j \in Kinds : j # "write" => pm[j] = pd[j]
    BY <2>1, <2>2 DEF OneMore
  <2>4. /\ pm["start"] = pd["start"] /\ pm["aborted"] = pd["aborted"] /\ pm["read"] = pd["read"] /\ pm["proxyRead"] = pd["proxyRead"]
        /\ pm["timer"] = pd["timer"] /\ pm["proxyWrite"] = pd["proxyWrite"] /\ pm["finish"] = pd["finish"]
    BY <2>3 DEF Kinds
  <2>5. Bounded(cm, pm)
    BY <2>1, <2>2, <2>3, <2>4 DEF Bounded
  <2>6. \A k \in DriveKinds : pm[k] = pd[k]
    BY <2>4 DEF DriveKinds
  <2>7. OneDriver(pm, U, c)
    BY <1>5, <2>4, <2>6 DEF OneDriver
  <2> QED BY <2>1, <2>5, <2>7 DEF Regs
<1> QED BY <1>6, <1>7, <1>8 DEF Gos, Drives

\* An operation that is refused (Post, TimerWaitAsync, ReadAsync, WriteAsync on a stopping connection) keeps the inductive invariant
LEMMA RefusedStep ==
  ASSUME PoolIInv, NEW t \in Threads, thr[t].h # "stopAll", thr[t].c # NoConn, NEW i \in DOMAIN Pending, At(t, i),
         Stopping(thr[t].c) \/ Down, Refused(t, i), tasks' = tasks, Same
  PROVE  PoolIInv'
<1>1. PICK c : c = thr[t].c
  OBVIOUS
<1>2. /\ thr[t] \in ThrRec /\ c \in Conns /\ ThreadOK(thr[t], NotInUse, Down) /\ conn[c] \in ConnRec /\ pend[c] \in [Kinds -> Nat]
      /\ ConnOK(conn[c], pend[c], thr, tasks, Down, c) /\ thr \in [Threads -> ThrRec] /\ conn \in [Conns -> ConnRec]
      /\ pend \in [Conns -> [Kinds -> Nat]] /\ tasks \subseteq TaskRec /\ thr[t].refs \in 0 .. 3 /\ Down \in BOOLEAN
  BY <1>1, AtThread
<1>3. thr[t].prog # <<>> /\ Head(thr[t].prog) = i /\ i \in Gos \cup {"postStart"}
  BY PendingIs DEF At
<1>4. conn' = conn /\ pend' = pend /\ PoolIInv /\ t \in Threads /\ tasks' = tasks /\ Same /\ thr[t].h # "stopAll"
  BY DEF Refused
<1>5. CASE i = "postStart"
  <2>1. PICK s : s = Onward(thr[t])
    OBVIOUS
  <2>2. thr' = [thr EXCEPT ![t] = s]
    BY <1>5, <2>1 DEF Refused, Onward
  <2>3. /\ s \in ThrRec /\ s.h = thr[t].h /\ s.c = c /\ s.prog = Tail(thr[t].prog) /\ s.refs = thr[t].refs
    <3>1. Tail(thr[t].prog) \in Seq(WorkInstr \cup RestInstr \cup Conns)
      BY <1>2, <1>3, SeqTail DEF ThrRec
    <3> QED BY <1>1, <1>2, <2>1, <3>1 DEF ThrRec, Onward
  <2>4. thr[t].h \in {"accept", "connect"}
    BY <1>2, <1>3, <1>4, <1>5, AtWork
  <2>5. thr[t].refs \in 0 .. 1
    BY <1>2, <2>4 DEF ThreadOK, StarterOK
  <2>6. /\ ThreadOK(s, NotInUse, Down) /\ ~Driver(s) /\ ~TimerAhead(s) /\ ~Finishing(s) /\ ~Freeing(s) /\ ~Finishing(thr[t])
        /\ ~Starting(s) /\ (Accepting(s) <=> Accepting(thr[t])) /\ (thr[t].h = "accept" => s.prog # <<>>)
    <3>1. PICK r : r = thr[t]
      OBVIOUS
    <3>2. PICK D \in BOOLEAN : D = Down
      BY <1>2
    <3>3. r.h \in {"accept", "connect"} /\ ThreadOK(r, NotInUse, D)
      BY <1>2, <2>4, <3>1, <3>2
    <3>4. r.prog # <<>> /\ Head(r.prog) # "incStart" /\ Head(r.prog) \in {"incStart", "postStart"}
      BY <1>3, <1>5, <3>1
    <3>5. Follows(r, s) /\ s.refs \in 0 .. 1 /\ (Head(r.prog) = "incStart" => s.refs = 1 \/ D)
      BY <1>1, <2>3, <2>5, <3>1, <3>4 DEF Follows
    <3>6. /\ ThreadOK(s, NotInUse, D) /\ ~Driver(s) /\ ~TimerAhead(s) /\ ~Finishing(s) /\ ~Freeing(s) /\ ~Finishing(r)
          /\ ~Starting(s) /\ (Accepting(s) <=> Accepting(r)) /\ (r.h = "accept" => s.prog # <<>>)
      BY ONLY <3>2, <3>3, <3>4, <3>5, StarterNext
    <3> QED BY <3>1, <3>2, <3>6
  <2>7. Moved(thr[t], s, c, conn[c].stopping, Down)
    BY <1>1, <2>3, <2>4, <2>6 DEF Moved
  <2>8. Like(thr[t], s, c)
    BY <1>1, <2>3, <2>6 DEF Like
  <2> QED BY ONLY <1>2, <1>4, <2>2, <2>3, <2>6, <2>7, <2>8, QuietStep
<1>6. CASE i # "postStart"
  <2>1. i \in Gos /\ i \in WorkInstr
    BY <1>3, <1>6 DEF WorkInstr
  <2>2. thr[t].h \in Regs
    BY <1>2, <1>3, <1>4, <2>1, AtWork
  <2>3. WorkerOK(thr[t], NotInUse, Down)
    BY <1>2, <2>2 DEF ThreadOK
  <2>4. thr[t].refs \in 1 .. 3
    BY <2>3 DEF WorkerOK
  <2>5. PICK s : s = [thr[t] EXCEPT !.prog = <<>>]
    OBVIOUS
  <2>6. thr' = [thr EXCEPT ![t] = s]
    BY <1>6, <2>5 DEF Refused, Abandoned
  <2>7. s.h = thr[t].h /\ s.c = c /\ s.prog = <<>> /\ s.refs = thr[t].refs /\ s \in ThrRec
    <3>1. PICK e \in Seq(WorkInstr \cup RestInstr \cup Conns) : e = <<>>
      BY EmptySeq
    <3>2. s = [thr[t] EXCEPT !.prog = e]
      BY <2>5, <3>1
    <3>3. s.h = thr[t].h /\ s.c = c /\ s.prog = e /\ s.refs = thr[t].refs /\ s \in ThrRec
      BY <1>1, <1>2, <3>2 DEF ThrRec
    <3> QED BY <3>1, <3>3
  <2>8. ThreadOK(s, NotInUse, Down)
    <3>1. WorkOK(<<>>)
      BY DEF WorkOK
    <3>2. WorkerOK(s, NotInUse, Down)
      BY <1>2, <2>4, <2>7, <3>1 DEF WorkerOK
    <3> QED BY <2>2, <2>7, <3>2, Workers DEF ThreadOK
  <2>9. ~Driver(s) /\ ~TimerAhead(s) /\ ~Finishing(s) /\ ~Freeing(s) /\ ~Starting(s) /\ ~Accepting(s)
    BY <2>7, AtEnd
  <2>10. ~Finishing(thr[t]) /\ ~Accepting(thr[t]) /\ thr[t].h \notin {"finish", "accept"}
    BY <2>2, Workers
  <2>11. Moved(thr[t], s, c, conn[c].stopping, Down)
    BY <1>1, <2>7, <2>9, <2>10 DEF Moved
  <2>12. Like(thr[t], s, c)
    BY <1>1, <2>7, <2>9, <2>10 DEF Like
  <2> QED BY ONLY <1>2, <1>4, <2>6, <2>7, <2>8, <2>11, <2>12, QuietStep
<1> QED BY <1>5, <1>6

\* A thread that gives its reference away
Lent(r) == [r EXCEPT !.prog = Tail(r.prog), !.refs = r.refs - 1]

\* The members of a thread that gave its reference away
LEMMA LentFields ==
  ASSUME NEW r \in ThrRec, r.prog # <<>>, r.refs >= 1
  PROVE  Lent(r) \in ThrRec /\ Follows(r, Lent(r)) /\ Lent(r).refs = r.refs - 1
<1>1. r.refs - 1 \in 0 .. 3 /\ r.prog \in Seq(WorkInstr \cup RestInstr \cup Conns)
  BY DEF ThrRec
<1>2. Tail(r.prog) \in Seq(WorkInstr \cup RestInstr \cup Conns)
  BY <1>1, SeqTail
<1> QED BY <1>1, <1>2 DEF ThrRec, Lent, Follows

\* What Launch changes
LEMMA LaunchIs ==
  ASSUME NEW t \in Threads, NEW c \in Conns, NEW i \in DOMAIN Pending, Launch(t, c, i), thr \in [Threads -> ThrRec],
         conn \in [Conns -> ConnRec], pend \in [Conns -> [Kinds -> Nat]],
         i = "goTimer" => pend[c]["timer"] = 0 /\ pend[c]["aborted"] = 0
  PROVE  /\ thr' = [thr EXCEPT ![t] = Lent(thr[t])]
         /\ conn' = [conn EXCEPT ![c] = [conn[c] EXCEPT !.writing = conn[c].writing \/ i \in Writes]]
         /\ \E pm : pend' = [pend EXCEPT ![c] = pm] /\ OneMore(pend[c], pm, Pending[i])
<1>1. thr' = [thr EXCEPT ![t] = Lent(thr[t])]
  BY DEF Launch, Lent
<1>2. conn' = [conn EXCEPT ![c] = [conn[c] EXCEPT !.writing = conn[c].writing \/ i \in Writes]]
  BY DEF Launch
<1>3. PICK k \in Kinds : k = Pending[i] /\ k # "aborted" /\ (k = "timer" <=> i = "goTimer")
  BY PendingIs DEF Kinds, Gos
<1>4. PICK pm : pm = [pend[c] EXCEPT ![k] = pend[c][k] + 1]
  OBVIOUS
<1>5. pm \in [Kinds -> Nat] /\ pm[k] = pend[c][k] + 1 /\ \A j \in Kinds : j # k => pm[j] = pend[c][j]
  BY <1>4
<1>6. pend' = [pend EXCEPT ![c] = pm]
  <2>1. pend' \in [Conns -> [Kinds -> Nat]] /\ \A d \in Conns : d # c => pend'[d] = pend[d]
    BY <1>3 DEF Launch, Kinds
  <2>2. \A j \in Kinds : pend'[c][j] = pm[j]
    BY <1>3, <1>5 DEF Launch, Kinds
  <2>3. pend'[c] = pm
    BY <1>5, <2>1, <2>2
  <2> QED BY <1>5, <2>1, <2>3
<1>7. OneMore(pend[c], pm, Pending[i])
  BY <1>3, <1>5 DEF OneMore
<1> QED BY <1>1, <1>2, <1>6, <1>7

\* An operation that is started keeps the inductive invariant: its reference goes from the thread to the operation
LEMMA LaunchStep ==
  ASSUME PoolIInv, NEW t \in Threads, thr[t].h # "stopAll", thr[t].c # NoConn, NEW i \in DOMAIN Pending, At(t, i),
         ~Stopping(thr[t].c), ~Down, i \in Writes => ~conn[thr[t].c].writing, Launch(t, thr[t].c, i), tasks' = tasks, Same
  PROVE  PoolIInv'
<1>1. PICK c : c = thr[t].c
  OBVIOUS
<1>2. /\ thr[t] \in ThrRec /\ c \in Conns /\ ThreadOK(thr[t], NotInUse, Down) /\ conn[c] \in ConnRec /\ pend[c] \in [Kinds -> Nat]
      /\ ConnOK(conn[c], pend[c], thr, tasks, Down, c) /\ thr \in [Threads -> ThrRec] /\ conn \in [Conns -> ConnRec]
      /\ pend \in [Conns -> [Kinds -> Nat]] /\ tasks \subseteq TaskRec /\ thr[t].refs \in 0 .. 3 /\ Down \in BOOLEAN
  BY <1>1, AtThread
<1>3. thr[t].prog # <<>> /\ Head(thr[t].prog) = i /\ i \in Gos \cup {"postStart"}
  BY PendingIs DEF At
<1>4. conn[c].stopping = 0 /\ c \notin NotInUse /\ (i \in Writes => ~conn[c].writing)
  BY <1>1 DEF Stopping, NotInUse
<1>5. PICK cn : cn = [conn[c] EXCEPT !.writing = conn[c].writing \/ i \in Writes]
  OBVIOUS
<1>6. PICK s : s = Lent(thr[t])
  OBVIOUS
<1>7. /\ cn \in ConnRec /\ cn.free = conn[c].free /\ cn.incoming = conn[c].incoming /\ cn.stopping = conn[c].stopping
      /\ cn.useCount = conn[c].useCount /\ cn.use = conn[c].use /\ cn.ops = conn[c].ops /\ cn.writing = (conn[c].writing \/ i \in Writes)
  <2>1. (conn[c].writing \/ i \in Writes) \in BOOLEAN
    OBVIOUS
  <2> QED BY <1>2, <1>5, <2>1 DEF ConnRec
<1>8. /\ Counted(conn[c], pend[c], thr, c) /\ Bounded(conn[c], pend[c]) /\ OneDriver(pend[c], thr, c)
      /\ OneFinish(conn[c], pend[c], thr, c) /\ UnusedOK(conn[c], thr, c) /\ TasksOK(conn[c], thr, tasks, c)
  BY <1>2 DEF ConnOK
<1>9. PoolIInv /\ t \in Threads /\ thr[t].h # "stopAll" /\ tasks' = tasks /\ Same /\ Launch(t, c, i) /\ i \in DOMAIN Pending
  BY <1>1
<1>10. tasks' \subseteq TaskRec /\ (\A x \in tasks' : x \in tasks \/ (x.c = c /\ x.id = conn[c].useCount /\ x.use = conn[c].use))
       /\ \A x \in tasks' : x.c # c => x \in tasks
  BY <1>2, <1>9
<1>11. ASSUME NEW pm, OneMore(pend[c], pm, Pending[i]), Pending[i] \in Regs, thr' = [thr EXCEPT ![t] = s],
              s \in ThrRec, s.c = c, s.refs = thr[t].refs - 1
       PROVE  /\ thr' \in [Threads -> ThrRec] /\ thr'[t] = s /\ (\A u \in Threads : u # t => thr'[u] = thr[u])
              /\ Counted(cn, pm, thr', c) /\ pm \in [Kinds -> Nat] /\ pm["finish"] = pend[c]["finish"]
  <2>1. thr' \in [Threads -> ThrRec] /\ thr'[t] = s /\ \A u \in Threads : u # t => thr'[u] = thr[u]
    BY <1>2, <1>11
  <2>2. Own(thr[t], c) = thr[t].refs /\ Own(thr'[t], c) = s.refs
    BY <1>1, <1>11, <2>1 DEF Own
  <2>3. PendCount(pend[c]) \in Nat /\ conn[c].ops \in Nat
    BY <1>2 DEF PendCount, Kinds, ConnRec
  <2>4. PendCount(pm) = PendCount(pend[c]) + 1 /\ pm["finish"] = pend[c]["finish"] /\ pm \in [Kinds -> Nat]
    BY <1>2, <1>11, MoreCount DEF OneMore
  <2>5. cn.ops + PendCount(pend[c]) + Own(thr[t], c) = conn[c].ops + PendCount(pm) + Own(thr'[t], c)
    <3>1. cn.ops = conn[c].ops /\ Own(thr[t], c) = thr[t].refs /\ Own(thr'[t], c) = thr[t].refs - 1 /\ thr[t].refs \in 0 .. 3
      BY <1>2, <1>7, <1>11, <2>2
    <3> QED BY ONLY <2>3, <2>4, <3>1
  <2>6. Counted(cn, pm, thr', c)
    <3>1. /\ cn \in ConnRec /\ conn[c] \in ConnRec /\ pend[c] \in [Kinds -> Nat] /\ Counted(conn[c], pend[c], thr, c)
          /\ thr \in [Threads -> ThrRec] /\ pm \in [Kinds -> Nat] /\ t \in Threads
      BY <1>2, <1>7, <1>8, <2>4
    <3> QED BY ONLY <2>1, <2>5, <3>1, CountedStep
  <2> QED BY <2>1, <2>4, <2>6
<1>12. CASE i # "postStart"
  <2>1. i \in Gos /\ i \in WorkInstr /\ i \notin Incs
    BY <1>3, <1>12 DEF WorkInstr, Gos, Incs
  <2>2. thr[t].h \in Regs
    BY <1>2, <1>3, <1>9, <2>1, AtWork
  <2>3. WorkerOK(thr[t], NotInUse, Down) /\ WorkOK(thr[t].prog)
    BY <1>2, <2>2 DEF ThreadOK, WorkerOK
  <2>4. thr[t].refs = 3
    BY <1>1, <1>3, <1>4, <2>1, <2>3 DEF WorkerOK
  <2>5. i = "goTimer" => pend[c]["timer"] = 0 /\ pend[c]["aborted"] = 0
    <3>1. i = "goTimer" => TimerAhead(thr[t])
      BY <1>3, <2>2, <2>3, TailWork DEF TimerAhead
    <3> QED BY <1>1, <1>8, <3>1 DEF OneDriver
  <2>6. PICK pm : pend' = [pend EXCEPT ![c] = pm] /\ OneMore(pend[c], pm, Pending[i]) /\ thr' = [thr EXCEPT ![t] = s]
                  /\ conn' = [conn EXCEPT ![c] = cn]
    BY ONLY <1>2, <1>5, <1>6, <1>9, <2>5, LaunchIs
  <2>7. s \in ThrRec /\ Follows(thr[t], s) /\ s.refs = 2
    <3>1. thr[t].refs >= 1 /\ 3 - 1 = 2
      BY <2>4
    <3> QED BY <1>2, <1>3, <1>6, <2>4, <3>1, LentFields
  <2>8. s.h = thr[t].h /\ s.c = c /\ s.prog = Tail(thr[t].prog) /\ s.refs = thr[t].refs - 1
    BY <1>1, <2>4, <2>7 DEF Follows
  <2>9. Pending[i] \in Regs
    BY <2>1, PendingIs DEF Gos, Regs
  <2>10. /\ thr' \in [Threads -> ThrRec] /\ thr'[t] = s /\ (\A u \in Threads : u # t => thr'[u] = thr[u])
         /\ Counted(cn, pm, thr', c) /\ pm \in [Kinds -> Nat] /\ pm["finish"] = pend[c]["finish"]
    BY <1>11, <2>6, <2>7, <2>8, <2>9
  <2>11. Bounded(cn, pm) /\ OneDriver(pm, thr', c)
    <3>1. /\ thr[t].c = c /\ Follows(thr[t], thr'[t]) /\ (i \in Writes => ~conn[c].writing) /\ (conn[c].writing => cn.writing)
          /\ (i \in Writes => cn.writing) /\ t \in Threads
      BY <1>1, <1>4, <1>7, <2>7, <2>10
    <3>2. /\ thr[t].prog # <<>> /\ Head(thr[t].prog) = i /\ pend[c] \in [Kinds -> Nat] /\ Bounded(conn[c], pend[c])
          /\ OneDriver(pend[c], thr, c)
      BY <1>2, <1>3, <1>8
    <3>3. /\ i \in Gos /\ thr[t].h \in Regs /\ WorkOK(thr[t].prog) /\ OneMore(pend[c], pm, Pending[i])
          /\ \A u \in Threads : u # t => thr'[u] = thr[u]
      BY <2>1, <2>2, <2>3, <2>6, <2>10
    <3>4. Launching(thr, thr', c, pend[c], pm, conn[c], cn, i, t)
      BY <3>1, <3>2, <3>3 DEF Launching
    <3> QED BY ONLY <3>4, LaunchOK
  <2>12. ThreadOK(s, NotInUse, Down)
    <3>1. WorkOK(s.prog) /\ (s.prog # <<>> => Head(s.prog) \notin Gos)
      BY <1>3, <2>1, <2>3, <2>8, TailWork
    <3>2. WorkerOK(s, NotInUse, Down)
      BY <1>2, <2>7, <2>8, <3>1 DEF WorkerOK
    <3> QED BY <2>2, <2>8, <3>2, Workers DEF ThreadOK
  <2>13. pm["finish"] = IF cn.stopping = 1 /\ cn.ops = 0 THEN 1 ELSE 0
    <3>1. ~(pend[c]["finish"] > 0) /\ pend[c]["finish"] \in Nat
      BY <1>2, <1>4, <1>8 DEF OneFinish, Kinds
    <3> QED BY <1>4, <1>7, <2>10, <3>1
  <2>14. thr[t].refs >= 1
    BY <2>4
  <2> QED BY ONLY <1>1, <1>2, <1>7, <1>9, <1>10, <2>2, <2>6, <2>7, <2>8, <2>10, <2>11, <2>12, <2>13, <2>14, WorkerStep
<1>13. CASE i = "postStart"
  <2>1. thr[t].h \in {"accept", "connect"}
    BY <1>2, <1>3, <1>9, <1>13, AtWork
  <2>2. thr[t].refs = 1 /\ Starting(thr[t])
    BY <1>2, <1>3, <1>13, <2>1 DEF ThreadOK, StarterOK, Starting
  <2>3. i = "goTimer" => pend[c]["timer"] = 0 /\ pend[c]["aborted"] = 0
    BY <1>13
  <2>4. PICK pm : pend' = [pend EXCEPT ![c] = pm] /\ OneMore(pend[c], pm, Pending[i]) /\ thr' = [thr EXCEPT ![t] = s]
                  /\ conn' = [conn EXCEPT ![c] = cn]
    BY ONLY <1>2, <1>5, <1>6, <1>9, <2>3, LaunchIs
  <2>5. s \in ThrRec /\ Follows(thr[t], s) /\ s.refs = 0
    <3>1. thr[t].refs >= 1 /\ 1 - 1 = 0
      BY <2>2
    <3> QED BY <1>2, <1>3, <1>6, <2>2, <3>1, LentFields
  <2>6. s.h = thr[t].h /\ s.c = c /\ s.prog = Tail(thr[t].prog) /\ s.refs = thr[t].refs - 1
    BY <1>1, <2>2, <2>5 DEF Follows
  <2>7. Pending[i] = "start" /\ Pending[i] \in Regs
    BY <1>13, PendingIs DEF Regs
  <2>8. /\ thr' \in [Threads -> ThrRec] /\ thr'[t] = s /\ (\A u \in Threads : u # t => thr'[u] = thr[u])
        /\ Counted(cn, pm, thr', c) /\ pm \in [Kinds -> Nat] /\ pm["finish"] = pend[c]["finish"]
    BY <1>11, <2>4, <2>5, <2>6, <2>7
  <2>9. /\ ~conn[c].free /\ \A k \in Regs : pend[c][k] = 0
        /\ \A u \in Threads : u # t /\ thr[u].c = c => thr[u].refs = 0 /\ ~Starting(thr[u])
    <3>1. ConnOK(conn[c], pend[c], thr, tasks, Down, c) /\ t \in Threads /\ thr[t].c = c /\ Starting(thr[t])
      BY <1>1, <1>2, <2>2
    <3> QED BY <3>1 DEF ConnOK, StartOK
  <2>10. /\ ThreadOK(s, NotInUse, Down) /\ ~Driver(s) /\ ~TimerAhead(s) /\ ~Finishing(s) /\ ~Freeing(s)
         /\ ~Starting(s) /\ (Accepting(s) <=> Accepting(thr[t])) /\ (thr[t].h = "accept" => s.prog # <<>>)
    <3>1. PICK r : r = thr[t]
      OBVIOUS
    <3>2. PICK D \in BOOLEAN : D = Down
      BY <1>2
    <3>3. r.h \in {"accept", "connect"} /\ ThreadOK(r, NotInUse, D)
      BY <1>2, <2>1, <3>1, <3>2
    <3>4. r.prog # <<>> /\ Head(r.prog) # "incStart" /\ Head(r.prog) \in {"incStart", "postStart"}
      BY <1>3, <1>13, <3>1
    <3>5. Follows(r, s) /\ s.refs \in 0 .. 1 /\ (Head(r.prog) = "incStart" => s.refs = 1 \/ D)
      BY <2>5, <3>1, <3>4
    <3>6. /\ ThreadOK(s, NotInUse, D) /\ ~Driver(s) /\ ~TimerAhead(s) /\ ~Finishing(s) /\ ~Freeing(s)
          /\ ~Starting(s) /\ (Accepting(s) <=> Accepting(r)) /\ (r.h = "accept" => s.prog # <<>>)
      BY ONLY <3>2, <3>3, <3>4, <3>5, StarterNext
    <3> QED BY <3>1, <3>2, <3>6
  <2>11. pm["start"] = 1 /\ \A k \in Regs : k # "start" => pm[k] = 0
    <3>1. \A k \in Regs : k \in Kinds
      BY DEF Regs, Kinds
    <3> QED BY <2>4, <2>7, <2>9, <3>1 DEF OneMore
  <2>12. \A u \in Threads : thr'[u].c = c => ~Driver(thr'[u]) /\ ~TimerAhead(thr'[u])
    <3>1. ASSUME NEW u \in Threads, u # t, thr[u].c = c PROVE ~Driver(thr[u]) /\ ~TimerAhead(thr[u])
      <4>1. ThreadOK(thr[u], NotInUse, Down) /\ thr[u].refs = 0
        BY <2>9, <3>1 DEF PoolIInv
      <4>2. thr[u].h \notin Regs
        BY <4>1 DEF ThreadOK, WorkerOK
      <4> QED BY <4>2 DEF Driver, TimerAhead
    <3> QED BY <2>8, <2>10, <3>1
  <2>13. OneDriver(pm, thr', c)
    <3>1. \A k \in DriveKinds : k # "start" => pm[k] = 0
      BY <2>11 DEF DriveKinds, Regs
    <3>2. pm["timer"] = 0 /\ pm["aborted"] = 0
      BY <2>11 DEF Regs
    <3>3. \A k, j \in DriveKinds : pm[k] > 0 /\ pm[j] > 0 => k = j
      BY <3>1
    <3> QED BY <2>12, <3>2, <3>3 DEF OneDriver
  <2>14. pm["finish"] = 0 /\ \A u \in Threads : thr[u].c = c => ~Finishing(thr[u]) /\ ~Freeing(thr[u])
    <3>1. ~(pend[c]["finish"] > 0) /\ pend[c]["finish"] \in Nat
      BY <1>2, <1>4, <1>8 DEF OneFinish, Kinds
    <3>2. \A u \in Threads : thr[u].c = c => ~Finishing(thr[u]) /\ ~Freeing(thr[u])
      BY <1>4, <1>8 DEF OneFinish, UnusedOK, Unused
    <3> QED BY <2>8, <3>1, <3>2
  <2>15. Bounded(cn, pm)
    BY <2>11, <2>14 DEF Bounded, Regs
  <2>16. \A u \in Threads : thr'[u].c = c => ~Finishing(thr'[u]) /\ ~Freeing(thr'[u]) /\ ~Starting(thr'[u])
    BY <2>8, <2>9, <2>10, <2>14
  <2>17. ~cn.free /\ cn.stopping # Unused /\ pm["finish"] = IF cn.stopping = 1 /\ cn.ops = 0 THEN 1 ELSE 0
    BY <1>4, <1>7, <2>9, <2>14 DEF Unused
  <2>18. \A x \in tasks' : x.c = c => x.id <= cn.useCount /\ (x.id = cn.useCount => x.use = cn.use)
    BY <1>7, <1>8, <1>9 DEF TasksOK
  <2>19. ConnOK(cn, pm, thr', tasks', Down, c)
    BY ONLY <2>8, <2>13, <2>15, <2>16, <2>17, <2>18, Working
  <2>20. Moved(thr[t], s, c, conn[c].stopping, Down)
    BY <1>1, <2>1, <2>6, <2>10 DEF Moved
  <2>21. NotInUse' = NotInUse
    BY <1>2, <1>7, <2>4 DEF NotInUse
  <2>22. \A u \in Threads : \/ thr'[u] = thr[u]
                            \/ Moved(thr[u], thr'[u], c, conn[c].stopping, Down) /\ ThreadOK(thr'[u], NotInUse', Down)
    BY <2>8, <2>10, <2>20, <2>21
  <2> QED BY ONLY <1>2, <1>7, <1>9, <1>10, <2>4, <2>8, <2>19, <2>22, LocalStep
<1> QED BY <1>12, <1>13

\* Post, TimerWaitAsync, ReadAsync and WriteAsync keep the inductive invariant
LEMMA AsyncStep ==
  ASSUME PoolIInv, NEW t \in Threads, thr[t].h # "stopAll", thr[t].c # NoConn, NEW i \in DOMAIN Pending, Async(t, thr[t].c, i)
  PROVE  PoolIInv'
<1>1. At(t, i) /\ tasks' = tasks /\ Same
  BY DEF Async
<1>2. CASE Stopping(thr[t].c) \/ Down
  BY <1>1, <1>2, RefusedStep DEF Async
<1>3. CASE ~(Stopping(thr[t].c) \/ Down)
  BY <1>1, <1>3, LaunchStep DEF Async
<1> QED BY <1>2, <1>3

-----------------------------------------------------------------------------
(* Taking up a completed operation.                                          *)

\* Thread t takes up an operation of kind k and goes from T[t] to U[t]
TakingUp(T, U, c, pd, pm, cn, cm, k, t) ==
  /\ pd \in [Kinds -> Nat] /\ pm \in [Kinds -> Nat] /\ k \in Regs /\ t \in Threads
  /\ T[t] = Idle /\ c # NoConn /\ (\A u \in Threads : u # t => U[u] = T[u])
  /\ Bounded(cn, pd) /\ OneDriver(pd, T, c) /\ OneMore(pm, pd, k)
  /\ (k \in {"write", "proxyWrite"} \/ (cn.writing => cm.writing))
  /\ (Driver(U[t]) => k \in DriveKinds) /\ (TimerAhead(U[t]) => k = "start")

\* The thread drives the connection instead of the operation
LEMMA TakenUp ==
  ASSUME NEW T, NEW U, NEW c, NEW pd, NEW pm, NEW cn, NEW cm, NEW k, NEW t, TakingUp(T, U, c, pd, pm, cn, cm, k, t)
  PROVE  Bounded(cm, pm) /\ OneDriver(pm, U, c)
<1> SUFFICES ASSUME pd \in [Kinds -> Nat], pm \in [Kinds -> Nat], k \in Regs, t \in Threads,
                    T[t] = Idle, c # NoConn, \A u \in Threads : u # t => U[u] = T[u], Bounded(cn, pd), OneDriver(pd, T, c), OneMore(pm, pd, k),
                    k \in {"write", "proxyWrite"} \/ (cn.writing => cm.writing),
                    Driver(U[t]) => k \in DriveKinds, TimerAhead(U[t]) => k = "start"
             PROVE  Bounded(cm, pm) /\ OneDriver(pm, U, c)
  BY DEF TakingUp
<1>1. /\ pm["start"] \in Nat /\ pm["timer"] \in Nat /\ pm["aborted"] \in Nat /\ pm["read"] \in Nat /\ pm["write"] \in Nat
      /\ pm["proxyWrite"] \in Nat /\ pm["proxyRead"] \in Nat /\ pm["finish"] \in Nat
  BY DEF Kinds
<1>2. \A j \in Kinds : pd[j] = IF j = k THEN pm[j] + 1 ELSE pm[j]
  BY DEF OneMore, Regs, Kinds
<1>3. /\ pd["start"] \in {pm["start"], pm["start"] + 1} /\ pd["timer"] \in {pm["timer"], pm["timer"] + 1}
      /\ pd["aborted"] \in {pm["aborted"], pm["aborted"] + 1} /\ pd["read"] \in {pm["read"], pm["read"] + 1}
      /\ pd["write"] \in {pm["write"], pm["write"] + 1} /\ pd["proxyWrite"] \in {pm["proxyWrite"], pm["proxyWrite"] + 1}
      /\ pd["proxyRead"] \in {pm["proxyRead"], pm["proxyRead"] + 1} /\ pd["finish"] = pm["finish"]
  BY <1>2 DEF Kinds, Regs
<1>4. Bounded(cm, pm)
  <2>1. /\ pm["start"] <= 1 /\ pm["read"] <= 1 /\ pm["proxyRead"] <= 1 /\ pm["finish"] <= 1
        /\ pm["timer"] + pm["aborted"] <= 1 /\ pm["write"] + pm["proxyWrite"] <= 1
    BY <1>1, <1>3 DEF Bounded
  <2>2. pm["write"] + pm["proxyWrite"] > 0 => cm.writing
    <3>1. CASE k = "write"
      <4>1. pd["write"] = pm["write"] + 1 /\ pd["proxyWrite"] = pm["proxyWrite"]
        BY <1>2, <3>1 DEF Kinds
      <4> QED BY <1>1, <4>1 DEF Bounded
    <3>2. CASE k = "proxyWrite"
      <4>1. pd["write"] = pm["write"] /\ pd["proxyWrite"] = pm["proxyWrite"] + 1
        BY <1>2, <3>2 DEF Kinds
      <4> QED BY <1>1, <4>1 DEF Bounded
    <3>3. CASE k \notin {"write", "proxyWrite"}
      <4>1. pd["write"] = pm["write"] /\ pd["proxyWrite"] = pm["proxyWrite"]
        BY <1>2, <3>3 DEF Kinds
      <4> QED BY <3>3, <4>1 DEF Bounded
    <3> QED BY <3>1, <3>2, <3>3
  <2> QED BY <2>1, <2>2 DEF Bounded
<1>5. \A j \in DriveKinds : pm[j] \in Nat /\ (pm[j] > 0 => pd[j] > 0) /\ (pd[j] = 0 => pm[j] = 0)
  BY <1>1, <1>3 DEF DriveKinds
<1>6. pd["timer"] = 0 /\ pd["aborted"] = 0 => pm["timer"] = 0 /\ pm["aborted"] = 0
  BY <1>1, <1>3
<1>7. pd[k] > 0 /\ pd[k] # 0
  BY <1>2 DEF Regs, Kinds
<1>8. T[t].c # c
  BY IdleOK
<1>9. k \in DriveKinds => /\ \A j \in DriveKinds : pm[j] = 0
                          /\ \A u \in Threads : T[u].c = c => ~Driver(T[u])
  <2> SUFFICES ASSUME k \in DriveKinds
               PROVE  (\A j \in DriveKinds : pm[j] = 0) /\ \A u \in Threads : T[u].c = c => ~Driver(T[u])
    OBVIOUS
  <2>1. pm[k] = 0
    <3>1. pd[k] = pm[k] + 1 /\ pm[k] \in Nat
      BY <1>2, <1>5 DEF Regs, Kinds
    <3>2. pd[k] <= 1
      BY <1>1, <1>3 DEF Bounded, DriveKinds
    <3> QED BY <3>1, <3>2
  <2>2. \A j \in DriveKinds : j # k => ~(pd[j] > 0)
    BY <1>7 DEF OneDriver
  <2>3. \A j \in DriveKinds : pm[j] = 0
    BY <1>5, <2>1, <2>2
  <2> QED BY <1>7, <2>3 DEF OneDriver
<1>10. k = "start" => pd["timer"] = 0 /\ pd["aborted"] = 0
  BY <1>7 DEF OneDriver
<1>11. \A u \in Threads : u # t /\ U[u].c = c => T[u].c = c /\ U[u] = T[u]
  OBVIOUS
<1>12. \A j, i \in DriveKinds : pm[j] > 0 /\ pm[i] > 0 => j = i
  BY <1>5 DEF OneDriver
<1>13. \A u \in Threads : U[u].c = c /\ Driver(U[u]) => \A j \in DriveKinds : pm[j] = 0
  BY <1>5, <1>9, <1>11 DEF OneDriver
<1>14. \A u, v \in Threads : U[u].c = c /\ U[v].c = c /\ Driver(U[u]) /\ Driver(U[v]) => u = v
  BY <1>9, <1>11 DEF OneDriver
<1>15. pm["start"] > 0 => pm["timer"] = 0 /\ pm["aborted"] = 0
  BY <1>5, <1>6 DEF OneDriver, DriveKinds
<1>16. \A u \in Threads : U[u].c = c /\ TimerAhead(U[u]) => pm["timer"] = 0 /\ pm["aborted"] = 0
  BY <1>6, <1>10, <1>11 DEF OneDriver
<1> QED BY <1>4, <1>12, <1>13, <1>14, <1>15, <1>16 DEF OneDriver

\* Idle thread t becomes s, in the handler of an operation of kind k of connection c, whose members become cn
TakesUp(t, c, k, pm, cn, s) ==
  /\ thr[t] = Idle /\ pend[c][k] > 0 /\ OneMore(pm, pend[c], k) /\ pend' = [pend EXCEPT ![c] = pm]
  /\ conn' = [conn EXCEPT ![c] = cn] /\ tasks' = tasks /\ Same
  /\ thr' = [thr EXCEPT ![t] = s] /\ s.h = k /\ s.c = c /\ s.refs + conn[c].ops = 1 + cn.ops
  /\ ThreadOK(s, NotInUse, Down) /\ (Driver(s) => k \in DriveKinds) /\ (TimerAhead(s) => k = "start")
  /\ cn.free = conn[c].free /\ cn.incoming = conn[c].incoming /\ cn.useCount = conn[c].useCount /\ cn.use = conn[c].use
  /\ cn.stopping = conn[c].stopping /\ cn.ops # 0
  /\ (k \in {"write", "proxyWrite"} \/ (conn[c].writing => cn.writing))

\* A thread that takes up a completed operation, with the reference of the operation, keeps the inductive invariant
LEMMA TakeUpStep ==
  ASSUME PoolIInv, NEW t \in Threads, NEW c \in Conns, NEW k \in Regs, NEW pm \in [Kinds -> Nat], NEW cn \in ConnRec, NEW s \in ThrRec,
         TakesUp(t, c, k, pm, cn, s)
  PROVE  PoolIInv'
<1> /\ thr[t] = Idle /\ pend[c][k] > 0 /\ OneMore(pm, pend[c], k) /\ pend' = [pend EXCEPT ![c] = pm]
    /\ conn' = [conn EXCEPT ![c] = cn] /\ tasks' = tasks /\ Same
    /\ thr' = [thr EXCEPT ![t] = s] /\ s.h = k /\ s.c = c /\ s.refs + conn[c].ops = 1 + cn.ops
    /\ ThreadOK(s, NotInUse, Down) /\ (Driver(s) => k \in DriveKinds) /\ (TimerAhead(s) => k = "start")
    /\ cn.free = conn[c].free /\ cn.incoming = conn[c].incoming /\ cn.useCount = conn[c].useCount /\ cn.use = conn[c].use
    /\ cn.stopping = conn[c].stopping /\ cn.ops # 0
    /\ (k \in {"write", "proxyWrite"} \/ (conn[c].writing => cn.writing))
  BY DEF TakesUp
<1>1. /\ ConnOK(conn[c], pend[c], thr, tasks, Down, c) /\ thr \in [Threads -> ThrRec] /\ conn \in [Conns -> ConnRec]
      /\ pend \in [Conns -> [Kinds -> Nat]] /\ tasks \subseteq TaskRec /\ Down \in BOOLEAN /\ conn[c] \in ConnRec /\ pend[c] \in [Kinds -> Nat]
  BY DEF PoolIInv, PoolTypes, Down
<1>2. thr' \in [Threads -> ThrRec] /\ thr'[t] = s /\ \A u \in Threads : u # t => thr'[u] = thr[u]
  BY <1>1
<1>3. conn[c].ops # 0 /\ \A u \in Threads : thr[u].c = c => ~Starting(thr[u])
  <2>1. k \in Regs /\ pend[c][k] > 0
    OBVIOUS
  <2> QED BY ONLY <1>1, <2>1, Underway
<1>4. /\ pend[c]["finish"] = 0 /\ conn[c].stopping # Unused /\ ~conn[c].free
      /\ \A u \in Threads : thr[u].c = c => ~Finishing(thr[u]) /\ ~Freeing(thr[u])
  BY ONLY <1>1, <1>3, Active
<1>5. ~Starting(s) /\ ~Finishing(s) /\ ~Freeing(s) /\ ~Accepting(s)
  BY Workers
<1>6. \A u \in Threads : thr'[u].c = c => ~Finishing(thr'[u]) /\ ~Freeing(thr'[u]) /\ ~Starting(thr'[u])
  BY <1>2, <1>3, <1>4, <1>5
<1>7. PendCount(pend[c]) = PendCount(pm) + 1 /\ pm["finish"] = 0
  <2>1. PendCount(pend[c]) = PendCount(pm) + 1 /\ pend[c]["finish"] = pm["finish"]
    BY MoreCount
  <2> QED BY <1>4, <2>1
<1>8. Counted(cn, pm, thr', c)
  <2>1. Own(thr[t], c) = 0 /\ Own(thr'[t], c) = s.refs
    <3>1. thr[t].c # c
      BY IdleOK, PoolAssumption
    <3> QED BY <1>2, <3>1 DEF Own
  <2>2. PendCount(pm) \in Nat /\ conn[c].ops \in Nat /\ cn.ops \in Nat /\ s.refs \in 0 .. 3
    <3>1. PendCount(pm) \in Nat
      BY DEF PendCount, Kinds
    <3>2. conn[c].ops \in Nat /\ cn.ops \in Nat
      BY <1>1 DEF ConnRec
    <3>3. s.refs \in 0 .. 3
      BY DEF ThrRec
    <3> QED BY <3>1, <3>2, <3>3
  <2>3. cn.ops + PendCount(pend[c]) + Own(thr[t], c) = conn[c].ops + PendCount(pm) + Own(thr'[t], c)
    <3>1. s.refs + conn[c].ops = 1 + cn.ops
      OBVIOUS
    <3> QED BY ONLY <1>7, <2>1, <2>2, <3>1
  <2>4. /\ cn \in ConnRec /\ conn[c] \in ConnRec /\ pend[c] \in [Kinds -> Nat] /\ Counted(conn[c], pend[c], thr, c)
        /\ thr \in [Threads -> ThrRec] /\ pm \in [Kinds -> Nat] /\ t \in Threads
    BY <1>1 DEF ConnOK
  <2> QED BY ONLY <1>2, <2>3, <2>4, CountedStep
<1>9. Bounded(cn, pm) /\ OneDriver(pm, thr', c)
  <2>1. Bounded(conn[c], pend[c]) /\ OneDriver(pend[c], thr, c)
    BY <1>1 DEF ConnOK
  <2>2. c # NoConn /\ (Driver(thr'[t]) => k \in DriveKinds) /\ (TimerAhead(thr'[t]) => k = "start")
    BY <1>2, PoolAssumption
  <2>3. /\ pend[c] \in [Kinds -> Nat] /\ pm \in [Kinds -> Nat] /\ k \in Regs /\ t \in Threads /\ thr[t] = Idle
        /\ OneMore(pm, pend[c], k) /\ (k \in {"write", "proxyWrite"} \/ (conn[c].writing => cn.writing))
        /\ \A u \in Threads : u # t => thr'[u] = thr[u]
    BY <1>1, <1>2
  <2>4. TakingUp(thr, thr', c, pend[c], pm, conn[c], cn, k, t)
    BY ONLY <2>1, <2>2, <2>3 DEF TakingUp
  <2> QED BY ONLY <2>4, TakenUp
<1>10. \A x \in tasks' : x.c = c => x.id <= cn.useCount /\ (x.id = cn.useCount => x.use = cn.use)
  BY <1>1 DEF ConnOK, TasksOK
<1>11. ConnOK(cn, pm, thr', tasks', Down, c)
  <2>1. ~cn.free /\ cn.stopping # Unused /\ pm["finish"] = (IF cn.stopping = 1 /\ cn.ops = 0 THEN 1 ELSE 0) /\ pm \in [Kinds -> Nat]
    BY <1>4, <1>7
  <2> QED BY ONLY <1>6, <1>8, <1>9, <1>10, <2>1, Working
<1>12. Moved(thr[t], s, c, conn[c].stopping, Down)
  BY <1>5, IdleOK, AtEnd DEF Moved
<1>13. NotInUse' = NotInUse
  BY <1>1 DEF NotInUse
<1>14. \A u \in Threads : \/ thr'[u] = thr[u]
                          \/ Moved(thr[u], thr'[u], c, conn[c].stopping, Down) /\ ThreadOK(thr'[u], NotInUse', Down)
  BY <1>2, <1>12, <1>13
<1>15. /\ PoolIInv /\ c \in Conns /\ cn \in ConnRec /\ pm \in [Kinds -> Nat] /\ conn' = [conn EXCEPT ![c] = cn] /\ pend' = [pend EXCEPT ![c] = pm]
       /\ tasks' \subseteq TaskRec /\ (\A x \in tasks' : x.c # c => x \in tasks) /\ Same
       /\ cn.free = conn[c].free /\ cn.incoming = conn[c].incoming /\ cn.stopping = conn[c].stopping
  BY <1>1
<1> QED BY ONLY <1>2, <1>11, <1>14, <1>15, LocalStep

\* Taking up a completed operation keeps the inductive invariant, whatever its handler will do
LEMMA DispatchStep ==
  ASSUME PoolIInv, NEW t \in Threads, NEW c \in Conns, NEW k \in Regs, Dispatch(t, c, k)
  PROVE  PoolIInv'
<1>1. /\ thr \in [Threads -> ThrRec] /\ conn \in [Conns -> ConnRec] /\ pend \in [Conns -> [Kinds -> Nat]] /\ tasks \subseteq TaskRec
      /\ Down \in BOOLEAN /\ conn[c] \in ConnRec /\ pend[c] \in [Kinds -> Nat] /\ ConnOK(conn[c], pend[c], thr, tasks, Down, c)
  BY DEF PoolIInv, PoolTypes, Down
<1>2. k \in Kinds /\ k # "finish"
  BY DEF Regs, Kinds
<1>3. PICK pm : pm = [pend[c] EXCEPT ![k] = pend[c][k] - 1]
  OBVIOUS
<1>4. thr[t] = Idle /\ pend[c][k] > 0 /\ pend' = [pend EXCEPT ![c] = pm] /\ tasks' = tasks /\ Same
  BY <1>3 DEF Dispatch, Same
<1>5. pm \in [Kinds -> Nat] /\ OneMore(pm, pend[c], k)
  <2>1. pend[c][k] \in Nat /\ pend[c][k] - 1 \in Nat /\ (pend[c][k] - 1) + 1 = pend[c][k]
    BY <1>1, <1>2, <1>4
  <2>2. pm \in [Kinds -> Nat] /\ pm[k] = pend[c][k] - 1 /\ \A j \in Kinds : j # k => pm[j] = pend[c][j]
    BY <1>1, <1>2, <1>3, <2>1
  <2> QED BY <1>1, <2>1, <2>2 DEF OneMore
<1>6. conn[c].ops # 0 /\ conn[c].ops \in Nat
  <2>1. k \in Regs /\ pend[c][k] > 0
    BY <1>4
  <2>2. conn[c].ops # 0
    BY ONLY <1>1, <2>1, Underway
  <2> QED BY <1>1, <2>2 DEF ConnRec
<1>7. PoolIInv /\ t \in Threads /\ c \in Conns /\ k \in Regs
  OBVIOUS
<1>8. k \in Regs \cup {"none", "finish", "accept", "connect", "stopAll"}
  OBVIOUS
<1>9. CASE Stopping(c) \/ Down
  <2>1. PICK p : p = IF k = "timer" THEN <<"stop">> ELSE <<>>
    OBVIOUS
  <2>2. PICK s : s = [c |-> c, prog |-> p, refs |-> 1, h |-> k]
    OBVIOUS
  <2>3. thr' = [thr EXCEPT ![t] = s] /\ conn' = [conn EXCEPT ![c] = conn[c]]
    BY <1>1, <1>2, <1>9, <2>1, <2>2 DEF Dispatch, Run, Abandoned
  <2>4. WorkOK(p) /\ ~DrivesOn(p) /\ ~HasTimer(p) /\ (p # <<>> => p = <<"stop">> /\ Head(p) \notin Gos)
    <3>1. CASE p = <<>>
      BY <3>1 DEF WorkOK, DrivesOn, HasTimer
    <3>2. CASE p = <<"stop">>
      <4>1. p \in Seq(WorkInstr) /\ DOMAIN p = {1} /\ p[1] = "stop" /\ Head(p) = "stop"
        BY <3>2 DEF WorkInstr
      <4> QED BY <3>2, <4>1 DEF WorkOK, DrivesOn, HasTimer, Gos, Incs, Drives
    <3> QED BY <2>1, <3>1, <3>2
  <2>5. p \in Seq(WorkInstr \cup RestInstr \cup Conns)
    <3>1. p \in Seq(WorkInstr)
      BY <2>4 DEF WorkOK
    <3>2. \A z \in Seq(WorkInstr) : z \in Seq(WorkInstr \cup RestInstr \cup Conns)
      OBVIOUS
    <3> QED BY <3>1, <3>2
  <2>6. s.c = c /\ s.prog = p /\ s.refs = 1 /\ s.h = k /\ s \in ThrRec
    BY <1>8, <2>2, <2>5 DEF ThrRec
  <2>7. WorkerOK(s, NotInUse, Down)
    BY <2>4, <2>6 DEF WorkerOK
  <2>8. ThreadOK(s, NotInUse, Down)
    BY <2>6, <2>7, Workers DEF ThreadOK
  <2>9. ~Driver(s) /\ ~TimerAhead(s)
    BY <2>4, <2>6 DEF Driver, TimerAhead
  <2>10. s.refs + conn[c].ops = 1 + conn[c].ops
    BY <2>6
  <2>11. TakesUp(t, c, k, pm, conn[c], s)
    BY ONLY <1>4, <1>5, <1>6, <2>3, <2>6, <2>8, <2>9, <2>10 DEF TakesUp
  <2>12. conn[c] \in ConnRec /\ s \in ThrRec /\ pm \in [Kinds -> Nat]
    BY <1>1, <1>5, <2>6
  <2> QED BY ONLY <1>7, <2>11, <2>12, TakeUpStep
<1>10. CASE ~(Stopping(c) \/ Down)
  <2>1. PICK p \in Programs(c, k) : Run(t, c, k, 2, p)
    BY <1>2, <1>10 DEF Dispatch
  <2>2. PICK s : s = [c |-> c, prog |-> p, refs |-> 2, h |-> k]
    OBVIOUS
  <2>3. PICK cn : cn = [conn[c] EXCEPT !.ops = conn[c].ops + 1,
                                       !.writing = IF k \in {"write", "proxyWrite"} THEN FALSE ELSE conn[c].writing,
                                       !.msgs = IF k = "read" /\ conn[c].msgs < MaxMsgs THEN conn[c].msgs + 1 ELSE conn[c].msgs]
    OBVIOUS
  <2>4. thr' = [thr EXCEPT ![t] = s]
    BY <2>1, <2>2 DEF Run
  <2>5. conn' = [conn EXCEPT ![c] = cn]
    <3>1. conn' = [conn EXCEPT ![c].ops = @ + 1, ![c].writing = IF k \in {"write", "proxyWrite"} THEN FALSE ELSE @,
                               ![c].msgs = IF k = "read" /\ @ < MaxMsgs THEN @ + 1 ELSE @]
      BY <1>2, <1>10 DEF Dispatch
    <3> QED BY <1>1, <2>3, <3>1
  <2>6. /\ cn \in ConnRec /\ cn.free = conn[c].free /\ cn.incoming = conn[c].incoming /\ cn.stopping = conn[c].stopping
        /\ cn.useCount = conn[c].useCount /\ cn.use = conn[c].use /\ cn.ops = conn[c].ops + 1
        /\ (k \in {"write", "proxyWrite"} \/ cn.writing = conn[c].writing)
    <3>1. (IF k = "read" /\ conn[c].msgs < MaxMsgs THEN conn[c].msgs + 1 ELSE conn[c].msgs) \in Nat
      BY <1>1 DEF ConnRec
    <3>2. (IF k \in {"write", "proxyWrite"} THEN FALSE ELSE conn[c].writing) \in BOOLEAN
      BY <1>1 DEF ConnRec
    <3>3. conn[c].ops + 1 \in Nat
      BY <1>6
    <3> QED BY <1>1, <2>3, <3>1, <3>2, <3>3 DEF ConnRec
  <2>7. WorkOK(p) /\ (DrivesOn(p) => k \in DriveKinds) /\ (HasTimer(p) => k = "start") /\ (p # <<>> => Head(p) \notin Gos)
    BY <2>1, ProgramsOK
  <2>8. p \in Seq(WorkInstr \cup RestInstr \cup Conns)
    <3>1. p \in Seq(WorkInstr)
      BY <2>7 DEF WorkOK
    <3>2. \A z \in Seq(WorkInstr) : z \in Seq(WorkInstr \cup RestInstr \cup Conns)
      OBVIOUS
    <3> QED BY <3>1, <3>2
  <2>9. s.c = c /\ s.prog = p /\ s.refs = 2 /\ s.h = k /\ s \in ThrRec
    BY <1>8, <2>2, <2>8 DEF ThrRec
  <2>10. WorkerOK(s, NotInUse, Down)
    BY <2>7, <2>9 DEF WorkerOK
  <2>11. ThreadOK(s, NotInUse, Down)
    BY <2>9, <2>10, Workers DEF ThreadOK
  <2>12. (Driver(s) => k \in DriveKinds) /\ (TimerAhead(s) => k = "start")
    BY <2>7, <2>9 DEF Driver, TimerAhead
  <2>13. s.refs + conn[c].ops = 1 + cn.ops /\ cn.ops # 0
    BY <1>6, <2>6, <2>9
  <2>14. k \in {"write", "proxyWrite"} \/ (conn[c].writing => cn.writing)
    BY <2>6
  <2>15. /\ cn \in ConnRec /\ cn.free = conn[c].free /\ cn.incoming = conn[c].incoming /\ cn.stopping = conn[c].stopping
         /\ cn.useCount = conn[c].useCount /\ cn.use = conn[c].use
    BY <2>6
  <2>16. s \in ThrRec /\ s.c = c /\ s.h = k
    BY <2>9
  <2>17. TakesUp(t, c, k, pm, cn, s)
    BY ONLY <1>4, <1>5, <2>4, <2>5, <2>11, <2>12, <2>13, <2>14, <2>15, <2>16 DEF TakesUp
  <2>18. cn \in ConnRec /\ s \in ThrRec /\ pm \in [Kinds -> Nat]
    BY <1>5, <2>15, <2>16
  <2> QED BY ONLY <1>7, <2>17, <2>18, TakeUpStep
<1> QED BY <1>9, <1>10

-----------------------------------------------------------------------------
(* Finishing a connection.                                                   *)

\* A thread in HandleStop of a connection
LEMMA FinishNext ==
  ASSUME NEW r \in ThrRec, NEW S, NEW down, ThreadOK(r, S, down), r.h = "finish", r.prog # <<>>
  PROVE  /\ Onward(r) \in ThrRec /\ ThreadOK(Onward(r), S, down) /\ Onward(r).c = r.c /\ Onward(r).h = "finish"
         /\ Onward(r).refs = 0 /\ r.refs = 0 /\ r.c \in Conns
         /\ ~Driver(Onward(r)) /\ ~TimerAhead(Onward(r)) /\ ~Starting(Onward(r)) /\ ~Accepting(Onward(r)) /\ ~Accepting(r)
         /\ (Finishing(r) <=> Head(r.prog) \in {"bump", "stopped"}) /\ (Finishing(Onward(r)) <=> Head(r.prog) = "bump")
         /\ (Freeing(r) <=> Head(r.prog) = "free") /\ (Freeing(Onward(r)) <=> Head(r.prog) = "stopped")
         /\ Head(r.prog) \in {"bump", "stopped", "free", "acceptMore"}
         /\ (Head(r.prog) # "acceptMore" => Onward(r).prog # <<>>)
         /\ (Head(r.prog) = "acceptMore" => Onward(r).prog = <<>>)
<1>1. PICK s : s = Onward(r)
  OBVIOUS
<1>2. r.c \in Conns /\ r.refs = 0 /\ RestOf(r.prog, FinishAt)
  BY DEF ThreadOK
<1>3. s.c = r.c /\ s.h = "finish" /\ s.refs = 0 /\ s.prog = Tail(r.prog) /\ s \in ThrRec
  <2>1. Tail(r.prog) \in Seq(WorkInstr \cup RestInstr \cup Conns)
    BY SeqTail DEF ThrRec
  <2> QED BY <1>1, <1>2, <2>1 DEF ThrRec, Onward
<1>4. /\ RestOf(s.prog, FinishAt) /\ Head(r.prog) \in {"bump", "stopped", "free", "acceptMore"}
      /\ Head(r.prog) = "bump" => s.prog # <<>> /\ Head(s.prog) = "stopped"
      /\ Head(r.prog) = "stopped" => s.prog # <<>> /\ Head(s.prog) = "free"
      /\ Head(r.prog) = "free" => s.prog # <<>> /\ Head(s.prog) = "acceptMore"
      /\ Head(r.prog) = "acceptMore" => s.prog = <<>>
  BY <1>2, <1>3, FinishTail
<1>5. ThreadOK(s, S, down)
  BY <1>2, <1>3, <1>4 DEF ThreadOK, Regs
<1>6. ~Driver(s) /\ ~TimerAhead(s) /\ ~Starting(s) /\ ~Accepting(s) /\ ~Accepting(r)
  BY <1>3 DEF Driver, TimerAhead, Starting, Accepting, Regs
<1>7. (Finishing(r) <=> Head(r.prog) \in {"bump", "stopped"}) /\ (Freeing(r) <=> Head(r.prog) = "free")
  BY DEF Finishing, Freeing
<1>8. (Finishing(s) <=> Head(r.prog) = "bump") /\ (Freeing(s) <=> Head(r.prog) = "stopped")
  BY <1>3, <1>4 DEF Finishing, Freeing
<1> QED BY <1>1, <1>2, <1>3, <1>4, <1>5, <1>6, <1>7, <1>8

\* Taking up HandleStop keeps the inductive invariant
LEMMA DispatchFinishStep ==
  ASSUME PoolIInv, NEW t \in Threads, NEW c \in Conns, Dispatch(t, c, "finish")
  PROVE  PoolIInv'
<1>1. /\ thr \in [Threads -> ThrRec] /\ conn \in [Conns -> ConnRec] /\ pend \in [Conns -> [Kinds -> Nat]] /\ tasks \subseteq TaskRec
      /\ Down \in BOOLEAN /\ conn[c] \in ConnRec /\ pend[c] \in [Kinds -> Nat] /\ ConnOK(conn[c], pend[c], thr, tasks, Down, c)
  BY DEF PoolIInv, PoolTypes, Down
<1>2. PICK p : p = <<"bump", "stopped", "free", "acceptMore">>
  OBVIOUS
<1>3. PICK s : s = [c |-> c, prog |-> p, refs |-> 0, h |-> "finish"]
  OBVIOUS
<1>4. PICK pm : pm = [pend[c] EXCEPT !["finish"] = pend[c]["finish"] - 1]
  OBVIOUS
<1>5. /\ thr[t] = Idle /\ pend[c]["finish"] > 0 /\ pend' = [pend EXCEPT ![c] = pm] /\ tasks' = tasks /\ Same /\ conn' = conn
      /\ thr' = [thr EXCEPT ![t] = s]
  <2>1. thr[t] = Idle /\ pend[c]["finish"] > 0 /\ pend' = [pend EXCEPT ![c] = pm] /\ tasks' = tasks /\ Same /\ conn' = conn
    BY <1>4 DEF Dispatch, Same
  <2>2. PICK q \in Programs(c, "finish") : Run(t, c, "finish", 0, q)
    BY DEF Dispatch
  <2>3. q = p
    BY <1>2, <2>2 DEF Programs
  <2> QED BY <1>3, <2>1, <2>2, <2>3 DEF Run
<1>6. /\ Counted(conn[c], pend[c], thr, c) /\ Bounded(conn[c], pend[c]) /\ OneDriver(pend[c], thr, c) /\ OneFinish(conn[c], pend[c], thr, c)
      /\ UnusedOK(conn[c], thr, c) /\ StartOK(conn[c], pend[c], thr, tasks, Down, c) /\ TasksOK(conn[c], thr, tasks, c)
  BY <1>1 DEF ConnOK
<1>7. pend[c]["finish"] = 1 /\ conn[c].stopping = 1 /\ conn[c].ops = 0 /\ \A u \in Threads : thr[u].c = c => ~Finishing(thr[u])
  <2>1. pend[c]["finish"] = 1
    BY <1>1, <1>5, <1>6 DEF Bounded, Kinds
  <2>2. \A u \in Threads : thr[u].c = c => ~Finishing(thr[u])
    BY <1>6, <2>1 DEF OneFinish
  <2> QED BY <1>5, <1>6, <2>1, <2>2 DEF OneFinish
<1>8. pm \in [Kinds -> Nat] /\ pm["finish"] = 0 /\ \A k \in Regs : pm[k] = pend[c][k]
  <2>1. 1 - 1 = 0 /\ 0 \in Nat
    OBVIOUS
  <2>2. pm = [pend[c] EXCEPT !["finish"] = 0]
    BY <1>4, <1>7, <2>1
  <2> QED BY <1>1, <2>2 DEF Kinds, Regs
<1>9. RestOf(p, FinishAt) /\ p # <<>> /\ Head(p) = "bump" /\ p \in Seq(WorkInstr \cup RestInstr \cup Conns)
  <2>1. RestOf(p, FinishAt) /\ p # <<>> /\ Head(p) = "bump"
    BY <1>2, RestFull
  <2>2. p \in Seq(RestInstr)
    BY <2>1 DEF RestOf
  <2>3. \A z \in Seq(RestInstr) : z \in Seq(WorkInstr \cup RestInstr \cup Conns)
    OBVIOUS
  <2> QED BY <2>1, <2>2, <2>3
<1>10. s.c = c /\ s.prog = p /\ s.refs = 0 /\ s.h = "finish" /\ s \in ThrRec
  BY <1>3, <1>9 DEF ThrRec
<1>11. ThreadOK(s, NotInUse, Down)
  BY <1>9, <1>10 DEF ThreadOK, Regs
<1>12. ~Driver(s) /\ ~TimerAhead(s) /\ ~Starting(s) /\ ~Accepting(s) /\ ~Freeing(s) /\ Finishing(s)
  BY <1>9, <1>10 DEF Driver, TimerAhead, Starting, Accepting, Freeing, Finishing, Regs
<1>13. thr' \in [Threads -> ThrRec] /\ thr'[t] = s /\ \A u \in Threads : u # t => thr'[u] = thr[u]
  BY <1>1, <1>5, <1>10
<1>14. Counted(conn[c], pm, thr', c)
  <2>1. Own(thr[t], c) = 0 /\ Own(thr'[t], c) = 0
    <3>1. thr[t].c # c
      BY <1>5, IdleOK, PoolAssumption
    <3> QED BY <1>10, <1>13, <3>1 DEF Own
  <2>2. PendCount(pm) = PendCount(pend[c])
    BY <1>8 DEF PendCount, Regs
  <2>3. conn[c].ops + PendCount(pend[c]) + Own(thr[t], c) = conn[c].ops + PendCount(pm) + Own(thr'[t], c)
    BY <2>1, <2>2
  <2>4. t \in Threads
    OBVIOUS
  <2> QED BY ONLY <1>1, <1>6, <1>8, <1>13, <2>3, <2>4, CountedStep
<1>15. Bounded(conn[c], pm)
  BY <1>6, <1>8 DEF Bounded, Regs
<1>16. OneDriver(pm, thr', c)
  <2>1. \A u \in Threads : thr'[u].c = c => (Driver(thr'[u]) => thr[u].c = c /\ Driver(thr[u]))
                                            /\ (TimerAhead(thr'[u]) => thr[u].c = c /\ TimerAhead(thr[u]))
    BY <1>12, <1>13
  <2>2. \A k \in DriveKinds : pm[k] <= pend[c][k]
    <3>1. \A k \in DriveKinds : k \in Regs /\ k \in Kinds
      BY DEF DriveKinds, Regs, Kinds
    <3>2. \A k \in DriveKinds : pm[k] = pend[c][k] /\ pend[c][k] \in Nat
      BY <1>1, <1>8, <3>1
    <3> QED BY <3>2
  <2>3. pend[c]["timer"] = 0 /\ pend[c]["aborted"] = 0 => pm["timer"] = 0 /\ pm["aborted"] = 0
    BY <1>8 DEF Regs
  <2> QED BY ONLY <1>1, <1>6, <1>8, <2>1, <2>2, <2>3, DriverLess
<1>17. OneFinish(conn[c], pm, thr', c)
  BY <1>7, <1>8, <1>10, <1>12, <1>13 DEF OneFinish
<1>18. UnusedOK(conn[c], thr', c)
  BY <1>6, <1>12, <1>13 DEF UnusedOK
<1>19. StartOK(conn[c], pm, thr', tasks', Down, c)
  <2> SUFFICES ASSUME NEW u \in Threads, thr'[u].c = c, Starting(thr'[u])
      PROVE  /\ ~conn[c].free /\ \A k \in Regs : pm[k] = 0
             /\ \A v \in Threads : v # u /\ thr'[v].c = c => thr'[v].refs = 0 /\ ~Starting(thr'[v])
             /\ \A x \in tasks' : x.c = c => x.id # conn[c].useCount
             /\ ~Down => conn[c].stopping = 0
    BY DEF StartOK
  <2>1. u # t /\ thr'[u] = thr[u]
    BY <1>12, <1>13
  <2>2. /\ ~conn[c].free /\ \A k \in Regs : pend[c][k] = 0
        /\ \A v \in Threads : v # u /\ thr[v].c = c => thr[v].refs = 0 /\ ~Starting(thr[v])
        /\ \A x \in tasks : x.c = c => x.id # conn[c].useCount
        /\ ~Down => conn[c].stopping = 0
    BY <1>6, <2>1 DEF StartOK
  <2> QED BY <1>5, <1>8, <1>10, <1>12, <1>13, <2>1, <2>2
<1>20. TasksOK(conn[c], thr', tasks', c)
  BY <1>5, <1>6, <1>7, <1>9, <1>10, <1>13 DEF TasksOK
<1>21. ConnOK(conn[c], pm, thr', tasks', Down, c)
  BY <1>14, <1>15, <1>16, <1>17, <1>18, <1>19, <1>20 DEF ConnOK
<1>22. Moved(thr[t], s, c, conn[c].stopping, Down)
  BY <1>5, <1>10, <1>12, IdleOK, AtEnd DEF Moved
<1>23. NotInUse' = NotInUse
  BY <1>5 DEF NotInUse
<1>24. \A u \in Threads : \/ thr'[u] = thr[u]
                          \/ Moved(thr[u], thr'[u], c, conn[c].stopping, Down) /\ ThreadOK(thr'[u], NotInUse', Down)
  BY <1>11, <1>13, <1>22, <1>23
<1>25. /\ PoolIInv /\ c \in Conns /\ conn' = [conn EXCEPT ![c] = conn[c]] /\ conn[c] \in ConnRec /\ tasks' \subseteq TaskRec /\ Same
       /\ (\A x \in tasks' : x.c # c => x \in tasks) /\ pend' = [pend EXCEPT ![c] = pm]
  BY <1>1, <1>5
<1> QED BY ONLY <1>8, <1>13, <1>21, <1>24, <1>25, LocalStep

\* The first two steps of HandleStop keep the inductive invariant: m_use_count is raised before the connection is idle
LEMMA HandleStopStep ==
  ASSUME PoolIInv, NEW t \in Threads, thr[t].h # "stopAll", thr[t].c # NoConn, HandleStop(t, thr[t].c)
  PROVE  PoolIInv'
<1>1. PICK c : c = thr[t].c
  OBVIOUS
<1>2. /\ thr[t] \in ThrRec /\ c \in Conns /\ ThreadOK(thr[t], NotInUse, Down) /\ conn[c] \in ConnRec /\ pend[c] \in [Kinds -> Nat]
      /\ ConnOK(conn[c], pend[c], thr, tasks, Down, c) /\ thr \in [Threads -> ThrRec] /\ conn \in [Conns -> ConnRec]
      /\ pend \in [Conns -> [Kinds -> Nat]] /\ tasks \subseteq TaskRec /\ Down \in BOOLEAN
  BY <1>1, AtThread
<1>3. thr[t].prog # <<>> /\ Head(thr[t].prog) \in {"bump", "stopped"} /\ pend' = pend /\ tasks' = tasks /\ Same
  BY DEF HandleStop, At
<1>4. thr[t].h = "finish"
  BY <1>2, <1>3, AtWork
<1>5. PICK s : s = Onward(thr[t])
  OBVIOUS
<1>6. thr' = [thr EXCEPT ![t] = s]
  BY <1>5 DEF HandleStop, Next1, Onward
<1>7. /\ s \in ThrRec /\ ThreadOK(s, NotInUse, Down) /\ s.c = c /\ s.h = "finish" /\ s.refs = 0 /\ thr[t].refs = 0
      /\ ~Driver(s) /\ ~TimerAhead(s) /\ ~Starting(s) /\ ~Accepting(s) /\ ~Accepting(thr[t]) /\ Finishing(thr[t])
      /\ (Finishing(s) <=> Head(thr[t].prog) = "bump") /\ (Freeing(s) <=> Head(thr[t].prog) = "stopped") /\ s.prog # <<>>
  <2>1. Head(thr[t].prog) # "acceptMore"
    BY <1>3
  <2> QED BY <1>1, <1>2, <1>3, <1>4, <1>5, <2>1, FinishNext
<1>8. /\ Counted(conn[c], pend[c], thr, c) /\ Bounded(conn[c], pend[c]) /\ OneDriver(pend[c], thr, c) /\ OneFinish(conn[c], pend[c], thr, c)
      /\ UnusedOK(conn[c], thr, c) /\ StartOK(conn[c], pend[c], thr, tasks, Down, c) /\ TasksOK(conn[c], thr, tasks, c)
  BY <1>2 DEF ConnOK
<1>9. /\ conn[c].stopping = 1 /\ conn[c].ops = 0 /\ pend[c]["finish"] = 0
      /\ \A u \in Threads : u # t /\ thr[u].c = c => ~Finishing(thr[u])
  BY <1>1, <1>7, <1>8 DEF OneFinish
<1>10. ~conn[c].free /\ \A u \in Threads : thr[u].c = c => ~Freeing(thr[u])
  <2>1. 1 # Unused
    BY DEF Unused
  <2> QED BY <1>8, <1>9, <2>1 DEF UnusedOK
<1>11. thr' \in [Threads -> ThrRec] /\ thr'[t] = s /\ \A u \in Threads : u # t => thr'[u] = thr[u]
  BY <1>2, <1>6, <1>7
<1>12. ASSUME NEW cn \in ConnRec, cn.ops = conn[c].ops PROVE Counted(cn, pend[c], thr', c)
  <2>1. Own(thr[t], c) = 0 /\ Own(thr'[t], c) = 0
    BY <1>1, <1>7, <1>11 DEF Own
  <2>2. cn.ops + PendCount(pend[c]) + Own(thr[t], c) = conn[c].ops + PendCount(pend[c]) + Own(thr'[t], c)
    BY <1>12, <2>1
  <2>3. t \in Threads /\ cn \in ConnRec
    OBVIOUS
  <2> QED BY ONLY <1>2, <1>8, <1>11, <2>2, <2>3, CountedStep
<1>13. OneDriver(pend[c], thr', c)
  <2>1. \A u \in Threads : thr'[u].c = c => (Driver(thr'[u]) => thr[u].c = c /\ Driver(thr[u]))
                                            /\ (TimerAhead(thr'[u]) => thr[u].c = c /\ TimerAhead(thr[u]))
    BY <1>7, <1>11
  <2>2. \A k \in DriveKinds : pend[c][k] <= pend[c][k]
    BY <1>2 DEF DriveKinds, Kinds
  <2>3. pend[c]["timer"] = 0 /\ pend[c]["aborted"] = 0 => pend[c]["timer"] = 0 /\ pend[c]["aborted"] = 0
    OBVIOUS
  <2> QED BY ONLY <1>2, <1>8, <2>1, <2>2, <2>3, DriverLess
<1>14. Moved(thr[t], s, c, conn[c].stopping, Down)
  <2>1. 1 # Unused
    BY DEF Unused
  <2> QED BY <1>1, <1>7, <1>9, <2>1 DEF Moved
<1>15. ASSUME NEW u \in Threads, thr'[u].c = c, Starting(thr'[u])
       PROVE  /\ Down /\ ~conn[c].free /\ \A k \in Regs : pend[c][k] = 0
              /\ \A v \in Threads : v # u /\ thr'[v].c = c => thr'[v].refs = 0 /\ ~Starting(thr'[v])
              /\ \A x \in tasks' : x.c = c => x.id # conn[c].useCount
  <2>1. u # t /\ thr'[u] = thr[u]
    BY <1>7, <1>11, <1>15
  <2>2. /\ ~conn[c].free /\ \A k \in Regs : pend[c][k] = 0
        /\ \A v \in Threads : v # u /\ thr[v].c = c => thr[v].refs = 0 /\ ~Starting(thr[v])
        /\ \A x \in tasks : x.c = c => x.id # conn[c].useCount
        /\ ~Down => conn[c].stopping = 0
    BY <1>8, <1>15, <2>1 DEF StartOK
  <2> QED BY <1>3, <1>7, <1>9, <1>11, <2>1, <2>2
<1>16. ASSUME NEW cn \in ConnRec, conn' = [conn EXCEPT ![c] = cn], ConnOK(cn, pend[c], thr', tasks', Down, c),
              cn.free = conn[c].free, cn.incoming = conn[c].incoming, cn.stopping # 0
       PROVE  PoolIInv'
  <2>1. NotInUse' = NotInUse
    BY <1>2, <1>9, <1>16 DEF NotInUse
  <2>2. \A u \in Threads : \/ thr'[u] = thr[u]
                           \/ Moved(thr[u], thr'[u], c, conn[c].stopping, Down) /\ ThreadOK(thr'[u], NotInUse', Down)
    BY <1>7, <1>11, <1>14, <2>1
  <2>3. /\ PoolIInv /\ pend' = [pend EXCEPT ![c] = pend[c]] /\ tasks' \subseteq TaskRec /\ Same
        /\ (\A x \in tasks' : x.c # c => x \in tasks) /\ c \in Conns /\ cn \in ConnRec /\ pend[c] \in [Kinds -> Nat]
    BY <1>2, <1>3
  <2>4. (conn[c].stopping = Unused => cn.stopping = Unused) /\ (conn[c].stopping # 0 => cn.stopping # 0)
    BY <1>9, <1>16 DEF Unused
  <2> QED BY ONLY <1>11, <1>16, <2>2, <2>3, <2>4, LocalStep
<1>17. CASE Head(thr[t].prog) = "bump"
  <2>1. PICK cn : cn = [conn[c] EXCEPT !.useCount = conn[c].useCount + 1]
    OBVIOUS
  <2>2. conn' = [conn EXCEPT ![c] = cn]
    BY <1>1, <1>2, <1>17, <2>1 DEF HandleStop, At
  <2>3. /\ cn \in ConnRec /\ cn.free = conn[c].free /\ cn.incoming = conn[c].incoming /\ cn.stopping = conn[c].stopping
        /\ cn.useCount = conn[c].useCount + 1 /\ cn.ops = conn[c].ops /\ cn.writing = conn[c].writing /\ cn.state = conn[c].state
        /\ conn[c].useCount \in Nat
    <3>1. conn[c].useCount \in Nat
      BY <1>2 DEF ConnRec
    <3>2. conn[c].useCount + 1 \in Nat
      BY <3>1
    <3> QED BY ONLY <1>2, <2>1, <3>1, <3>2 DEF ConnRec
  <2>4. Bounded(cn, pend[c])
    BY <1>8, <2>3 DEF Bounded
  <2>5. OneFinish(cn, pend[c], thr', c)
    BY <1>7, <1>9, <1>11, <1>17, <2>3 DEF OneFinish
  <2>6. UnusedOK(cn, thr', c)
    <3>1. ~Freeing(s) /\ 1 # Unused
      BY <1>7, <1>17 DEF Unused
    <3> QED BY <1>9, <1>10, <1>11, <2>3, <3>1 DEF UnusedOK
  <2>7. \A x \in tasks' : x.c = c => x.id <= cn.useCount /\ x.id # cn.useCount
    <3>1. \A x \in tasks' : x.id \in Nat
      BY <1>2, <1>3 DEF TaskRec
    <3>2. \A x \in tasks' : x.c = c => x.id <= conn[c].useCount
      BY <1>3, <1>8 DEF TasksOK
    <3> QED BY <2>3, <3>1, <3>2
  <2>8. TasksOK(cn, thr', tasks', c)
    BY <2>7 DEF TasksOK
  <2>9. StartOK(cn, pend[c], thr', tasks', Down, c)
    BY <1>15, <2>3, <2>7 DEF StartOK
  <2>10. ConnOK(cn, pend[c], thr', tasks', Down, c)
    BY <1>12, <1>13, <2>3, <2>4, <2>5, <2>6, <2>8, <2>9 DEF ConnOK
  <2>11. cn \in ConnRec /\ cn.stopping # 0 /\ cn.free = conn[c].free /\ cn.incoming = conn[c].incoming
    BY <1>9, <2>3
  <2> QED BY ONLY <1>16, <2>2, <2>10, <2>11
<1>18. CASE Head(thr[t].prog) = "stopped"
  <2>1. PICK cn : cn = [conn[c] EXCEPT !.stopping = Unused, !.state = "STOPPED"]
    OBVIOUS
  <2>2. conn' = [conn EXCEPT ![c] = cn]
    BY <1>1, <1>2, <1>18, <2>1 DEF HandleStop, At
  <2>3. /\ cn \in ConnRec /\ cn.free = conn[c].free /\ cn.incoming = conn[c].incoming /\ cn.stopping = Unused /\ cn.state = "STOPPED"
        /\ cn.useCount = conn[c].useCount /\ cn.ops = conn[c].ops /\ cn.writing = conn[c].writing
    BY <1>2, <2>1 DEF ConnRec
  <2>4. Bounded(cn, pend[c])
    BY <1>8, <2>3 DEF Bounded
  <2>5. Unused # 1 /\ Unused # 0 /\ ~Finishing(s) /\ Freeing(s)
    BY <1>7, <1>18 DEF Unused
  <2>6. OneFinish(cn, pend[c], thr', c)
    BY <1>9, <1>11, <2>3, <2>5 DEF OneFinish
  <2>7. UnusedOK(cn, thr', c)
    BY <1>9, <1>10, <1>11, <2>3 DEF UnusedOK
  <2>8. \A x \in tasks' : x.c = c => x.id <= cn.useCount /\ x.id # cn.useCount
    BY <1>1, <1>3, <1>7, <1>8, <1>18, <2>3 DEF TasksOK
  <2>9. TasksOK(cn, thr', tasks', c)
    BY <2>8 DEF TasksOK
  <2>10. StartOK(cn, pend[c], thr', tasks', Down, c)
    BY <1>15, <2>3, <2>8 DEF StartOK
  <2>11. ConnOK(cn, pend[c], thr', tasks', Down, c)
    BY <1>12, <1>13, <2>3, <2>4, <2>6, <2>7, <2>9, <2>10 DEF ConnOK
  <2> QED BY <1>16, <2>2, <2>3, <2>5, <2>11
<1> QED BY <1>3, <1>17, <1>18

-----------------------------------------------------------------------------
(* The pool.                                                                 *)

\* A connection without references: nothing is pending, and nobody holds it
LEMMA NoReferences ==
  ASSUME NEW T \in [Threads -> ThrRec], NEW c, NEW cn, NEW pd \in [Kinds -> Nat], Counted(cn, pd, T, c), cn.ops = 0
  PROVE  /\ \A k \in Regs : pd[k] = 0
         /\ \A u \in Threads : T[u].c = c => T[u].refs = 0
<1>1. HeldCount(T, c) = 0 /\ \A k \in Regs : pd[k] = 0
  <2>1. HeldCount(T, c) \in Nat
    BY HeldPositive
  <2>2. /\ pd["start"] \in Nat /\ pd["timer"] \in Nat /\ pd["aborted"] \in Nat /\ pd["read"] \in Nat /\ pd["write"] \in Nat
        /\ pd["proxyWrite"] \in Nat /\ pd["proxyRead"] \in Nat
    BY DEF Kinds
  <2>3. 0 = PendCount(pd) + HeldCount(T, c)
    BY DEF Counted
  <2>4. /\ pd["start"] = 0 /\ pd["timer"] = 0 /\ pd["aborted"] = 0 /\ pd["read"] = 0 /\ pd["write"] = 0
        /\ pd["proxyWrite"] = 0 /\ pd["proxyRead"] = 0 /\ HeldCount(T, c) = 0
    <3>1. PICK a \in Nat : a = pd["start"]
      BY <2>2
    <3>2. PICK b \in Nat : b = pd["timer"]
      BY <2>2
    <3>3. PICK d \in Nat : d = pd["aborted"]
      BY <2>2
    <3>4. PICK e \in Nat : e = pd["read"]
      BY <2>2
    <3>5. PICK f \in Nat : f = pd["write"]
      BY <2>2
    <3>6. PICK g \in Nat : g = pd["proxyWrite"]
      BY <2>2
    <3>7. PICK h \in Nat : h = pd["proxyRead"]
      BY <2>2
    <3>8. PICK i \in Nat : i = HeldCount(T, c)
      BY <2>1
    <3>9. 0 = (a + b + d + e + f + g + h) + i
      BY ONLY <2>3, <3>1, <3>2, <3>3, <3>4, <3>5, <3>6, <3>7, <3>8 DEF PendCount
    <3>10. a = 0 /\ b = 0 /\ d = 0 /\ e = 0 /\ f = 0 /\ g = 0 /\ h = 0 /\ i = 0
      BY ONLY <3>9, a \in Nat, b \in Nat, d \in Nat, e \in Nat, f \in Nat, g \in Nat, h \in Nat, i \in Nat
    <3> QED BY ONLY <3>1, <3>2, <3>3, <3>4, <3>5, <3>6, <3>7, <3>8, <3>10
  <2> QED BY <2>4 DEF Regs
<1> QED BY <1>1, HeldPositive

\* A connection between uses: nothing is pending, nobody holds it, and no validation has its m_use_count
LEMMA UnusedFacts ==
  ASSUME NEW T \in [Threads -> ThrRec], NEW K, NEW down \in BOOLEAN, NEW c, NEW cn \in ConnRec, NEW pd \in [Kinds -> Nat],
         ConnOK(cn, pd, T, K, down, c), cn.stopping = Unused
  PROVE  /\ cn.ops = 0 /\ \A k \in Kinds : pd[k] = 0
         /\ \A u \in Threads : T[u].c = c => T[u].refs = 0 /\ ~Finishing(T[u]) /\ (~down => ~Starting(T[u])) /\ (cn.free => ~Starting(T[u]) /\ ~Freeing(T[u]))
         /\ \A x \in K : x.c = c => x.id # cn.useCount /\ x.id <= cn.useCount
<1>1. /\ Counted(cn, pd, T, c) /\ OneFinish(cn, pd, T, c) /\ UnusedOK(cn, T, c) /\ StartOK(cn, pd, T, K, down, c) /\ TasksOK(cn, T, K, c)
  BY DEF ConnOK
<1>2. cn.ops = 0 /\ Unused # 0 /\ Unused # 1
  BY <1>1 DEF UnusedOK, Unused
<1>3. (\A k \in Regs : pd[k] = 0) /\ \A u \in Threads : T[u].c = c => T[u].refs = 0
  BY <1>1, <1>2, NoReferences
<1>4. pd["finish"] = 0
  <2>1. pd["finish"] \in Nat
    BY DEF Kinds
  <2> QED BY <1>1, <1>2, <2>1 DEF OneFinish
<1>5. \A k \in Kinds : pd[k] = 0
  BY <1>3, <1>4 DEF Kinds, Regs
<1>7. \A u \in Threads : T[u].c = c => ~Finishing(T[u])
  BY <1>1, <1>2 DEF OneFinish
<1>8. \A u \in Threads : T[u].c = c => (~down => ~Starting(T[u])) /\ (cn.free => ~Starting(T[u]) /\ ~Freeing(T[u]))
  BY <1>1, <1>2 DEF StartOK, UnusedOK
<1>9. \A x \in K : x.c = c => x.id # cn.useCount /\ x.id <= cn.useCount
  BY <1>1 DEF TasksOK
<1> QED BY <1>2, <1>3, <1>5, <1>7, <1>8, <1>9

\* A connection that is put into the pool or taken from it, and not yet initialised
LEMMA PoolConn ==
  ASSUME NEW T \in [Threads -> ThrRec], NEW K, NEW down \in BOOLEAN, NEW c, NEW cn \in ConnRec, NEW pd \in [Kinds -> Nat],
         ConnOK(cn, pd, T, K, down, c), cn.stopping = Unused, \A u \in Threads : T[u].c = c => ~Freeing(T[u]) /\ ~Starting(T[u]),
         NEW cm \in ConnRec, cm.stopping = Unused, cm.state = cn.state, cm.ops = cn.ops, cm.useCount = cn.useCount
  PROVE  ConnOK(cm, pd, T, K, down, c)
<1>1. /\ Counted(cn, pd, T, c) /\ Bounded(cn, pd) /\ OneDriver(pd, T, c) /\ OneFinish(cn, pd, T, c) /\ UnusedOK(cn, T, c)
  BY DEF ConnOK
<1>2. down \in BOOLEAN
  OBVIOUS
<1>3. /\ \A k \in Kinds : pd[k] = 0
      /\ \A u \in Threads : T[u].c = c => ~Starting(T[u]) /\ ~Finishing(T[u])
      /\ \A x \in K : x.c = c => x.id # cn.useCount /\ x.id <= cn.useCount
  BY <1>2, UnusedFacts
<1>4. Counted(cm, pd, T, c)
  BY <1>1 DEF Counted
<1>5. Bounded(cm, pd)
  BY <1>3 DEF Bounded, Kinds
<1>6. OneFinish(cm, pd, T, c)
  <2>1. Unused # 1 /\ pd["finish"] = 0
    BY <1>3 DEF Unused, Kinds
  <2> QED BY <1>3, <2>1 DEF OneFinish
<1>7. UnusedOK(cm, T, c)
  BY <1>1 DEF UnusedOK
<1>8. StartOK(cm, pd, T, K, down, c) /\ TasksOK(cm, T, K, c)
  BY <1>3 DEF StartOK, TasksOK
<1> QED BY <1>1, <1>4, <1>5, <1>6, <1>7, <1>8 DEF ConnOK

\* A connection that is initialised, by a thread that will start it
LEMMA BeginConn ==
  ASSUME NEW T \in [Threads -> ThrRec], NEW U \in [Threads -> ThrRec], NEW K, NEW down \in BOOLEAN, ~down, NEW c, NEW cn \in ConnRec, NEW pd \in [Kinds -> Nat],
         ConnOK(cn, pd, T, K, down, c), cn.stopping = Unused, \A u \in Threads : T[u].c = c => ~Freeing(T[u]),
         NEW t \in Threads, T[t].refs = 0, U[t].refs = 0, U[t].h \in {"accept", "connect"}, \A u \in Threads : u # t => U[u] = T[u],
         NEW cm \in ConnRec, cm.stopping = 0, ~cm.free, cm.ops = cn.ops, cm.useCount = cn.useCount
  PROVE  ConnOK(cm, pd, U, K, down, c)
<1>1. /\ Counted(cn, pd, T, c) /\ Bounded(cn, pd) /\ OneDriver(pd, T, c)
  BY DEF ConnOK
<1>2. down \in BOOLEAN /\ ~down
  OBVIOUS
<1>3. /\ cn.ops = 0 /\ \A k \in Kinds : pd[k] = 0
      /\ \A u \in Threads : T[u].c = c => T[u].refs = 0 /\ ~Starting(T[u]) /\ ~Finishing(T[u])
      /\ \A x \in K : x.c = c => x.id # cn.useCount /\ x.id <= cn.useCount
  <2>1. /\ T \in [Threads -> ThrRec] /\ cn \in ConnRec /\ pd \in [Kinds -> Nat] /\ ConnOK(cn, pd, T, K, down, c) /\ cn.stopping = Unused
    OBVIOUS
  <2> QED BY ONLY <1>2, <2>1, UnusedFacts
<1>4. ~Driver(U[t]) /\ ~TimerAhead(U[t]) /\ ~Finishing(U[t]) /\ ~Freeing(U[t])
  BY DEF Driver, TimerAhead, Finishing, Freeing, Regs
<1>5. Counted(cm, pd, U, c)
  <2>1. Own(T[t], c) = 0 /\ Own(U[t], c) = 0
    BY DEF Own
  <2>2. cm.ops + PendCount(pd) + Own(T[t], c) = cn.ops + PendCount(pd) + Own(U[t], c)
    BY <2>1
  <2> QED BY <1>1, <2>2, CountedStep
<1>6. Bounded(cm, pd)
  BY <1>1, <1>3 DEF Bounded, Kinds
<1>7. OneDriver(pd, U, c)
  <2>1. pd["timer"] = 0 /\ pd["aborted"] = 0 /\ \A k \in DriveKinds : pd[k] = 0
    BY <1>3 DEF Kinds, DriveKinds
  <2>2. \A u \in Threads : U[u].c = c => (Driver(U[u]) => T[u].c = c /\ Driver(T[u])) /\ (TimerAhead(U[u]) => T[u].c = c /\ TimerAhead(T[u]))
    BY <1>4
  <2>3. \A k \in DriveKinds : pd[k] <= pd[k]
    BY <2>1
  <2>4. pd["timer"] = 0 /\ pd["aborted"] = 0 => pd["timer"] = 0 /\ pd["aborted"] = 0
    OBVIOUS
  <2>5. pd \in [Kinds -> Nat]
    OBVIOUS
  <2> QED BY ONLY <1>1, <2>2, <2>3, <2>4, <2>5, DriverLess
<1>8. OneFinish(cm, pd, U, c)
  <2>1. pd["finish"] = 0
    BY <1>3 DEF Kinds
  <2>2. \A u \in Threads : U[u].c = c => ~Finishing(U[u])
    BY <1>3, <1>4
  <2> QED BY <2>1, <2>2 DEF OneFinish
<1>9. UnusedOK(cm, U, c)
  <2>1. 0 # Unused /\ \A u \in Threads : U[u].c = c => ~Freeing(U[u])
    BY <1>4 DEF Unused
  <2> QED BY <2>1 DEF UnusedOK
<1>10. StartOK(cm, pd, U, K, down, c)
  <2>1. \A u \in Threads : u # t /\ U[u].c = c => U[u].refs = 0 /\ ~Starting(U[u])
    BY <1>3
  <2>2. \A k \in Regs : pd[k] = 0
    BY <1>3 DEF Regs, Kinds
  <2> QED BY <1>3, <2>1, <2>2 DEF StartOK
<1>11. TasksOK(cm, U, K, c)
  BY <1>3 DEF TasksOK
<1> QED BY <1>5, <1>6, <1>7, <1>8, <1>9, <1>10, <1>11 DEF ConnOK

\* A step that touches no connection but c keeps the claims about all of them
LEMMA Others ==
  ASSUME PoolIInv, NEW c \in Conns, NEW cn, ConnOK(cn, pend[c], thr', tasks, Down', c), conn' = [conn EXCEPT ![c] = cn], pend' = pend, tasks' = tasks,
         thr' \in [Threads -> ThrRec], Down => Down',
         \A u \in Threads : thr'[u] = thr[u] \/ (\A d \in Conns : d # c => Like(thr[u], thr'[u], d))
  PROVE  \A d \in Conns : ConnOK(conn'[d], pend'[d], thr', tasks', Down', d)
<1> SUFFICES ASSUME NEW d \in Conns PROVE ConnOK(conn'[d], pend'[d], thr', tasks', Down', d)
  OBVIOUS
<1>1. /\ conn \in [Conns -> ConnRec] /\ thr \in [Threads -> ThrRec] /\ ConnOK(conn[d], pend[d], thr, tasks, Down, d)
      /\ Down \in BOOLEAN /\ Down' \in BOOLEAN
  BY DEF PoolIInv, PoolTypes, Down
<1>2. CASE d = c
  BY <1>1, <1>2
<1>3. CASE d # c
  <2>1. \A u \in Threads : Like(thr[u], thr'[u], d)
    BY <1>3 DEF Like
  <2>2. \A x \in tasks' : x.c = d => x \in tasks
    OBVIOUS
  <2>3. thr' \in [Threads -> ThrRec] /\ (Down => Down')
    OBVIOUS
  <2>4. ConnOK(conn[d], pend[d], thr', tasks', Down', d)
    BY ONLY <1>1, <2>1, <2>2, <2>3, Quiet
  <2> QED BY <1>1, <1>3, <2>4
<1> QED BY <1>2, <1>3

\* The pool after a connection was put into it
LEMMA GivenPool ==
  ASSUME PoolTypes, PoolOK, NEW c \in Conns, ~conn[c].free, NEW cn \in ConnRec, cn.free, conn' = [conn EXCEPT ![c] = cn],
         avail' = Append(avail, c), inCount' = IF conn[c].incoming THEN inCount - 1 ELSE inCount
  PROVE  PoolOK' /\ avail' \in Seq(Conns) /\ inCount' \in Nat
<1>1. conn \in [Conns -> ConnRec] /\ avail \in Seq(Conns) /\ inCount \in Nat
  BY DEF PoolTypes
<1>2. conn'[c] = cn /\ \A d \in Conns : d # c => conn'[d] = conn[d]
  BY <1>1
<1>3. /\ avail' \in Seq(Conns) /\ DOMAIN avail = 1 .. Len(avail) /\ DOMAIN avail' = 1 .. Len(avail) + 1 /\ Len(avail) \in Nat
      /\ avail'[Len(avail) + 1] = c /\ \A n \in 1 .. Len(avail) : avail'[n] = avail[n]
  BY <1>1
<1>4. \A n \in DOMAIN avail : avail[n] # c
  BY DEF PoolOK
<1>5. \A d \in Conns : conn'[d].free <=> \E n \in DOMAIN avail' : avail'[n] = d
  <2> SUFFICES ASSUME NEW d \in Conns PROVE conn'[d].free <=> \E n \in DOMAIN avail' : avail'[n] = d
    OBVIOUS
  <2>1. CASE d = c
    <3>1. Len(avail) + 1 \in DOMAIN avail'
      BY <1>3
    <3> QED BY <1>2, <1>3, <2>1, <3>1
  <2>2. CASE d # c
    <3>1. conn[d].free <=> \E n \in DOMAIN avail : avail[n] = d
      BY DEF PoolOK
    <3>2. \A n \in DOMAIN avail' : n \in DOMAIN avail \/ avail'[n] = c
      BY <1>3
    <3>3. \A n \in DOMAIN avail : n \in DOMAIN avail' /\ avail'[n] = avail[n]
      BY <1>3
    <3> QED BY <1>2, <2>2, <3>1, <3>2, <3>3
  <2> QED BY <2>1, <2>2
<1>6. ASSUME NEW m \in DOMAIN avail', NEW n \in DOMAIN avail', avail'[m] = avail'[n] PROVE m = n
  <2>1. \A i \in DOMAIN avail' : (i \in DOMAIN avail /\ avail'[i] = avail[i]) \/ (i = Len(avail) + 1 /\ avail'[i] = c)
    BY <1>3
  <2>2. \A i, j \in DOMAIN avail : avail[i] = avail[j] => i = j
    BY DEF PoolOK
  <2> QED BY <1>4, <1>6, <2>1, <2>2
<1>7. inCount' = Cardinality(Busy') /\ inCount' <= MaxIncoming /\ inCount' \in Nat
  <2>1. IsFiniteSet(Busy) /\ inCount = Cardinality(Busy) /\ inCount <= MaxIncoming /\ MaxIncoming \in Nat
    <3>1. Busy \subseteq Conns
      BY DEF Busy
    <3> QED BY <3>1, FS_Subset, PoolAssumption DEF PoolOK
  <2>2. Busy' = Busy \ {c} /\ (c \in Busy <=> conn[c].incoming)
    BY <1>2 DEF Busy
  <2>3. Cardinality(Busy \ {c}) = IF c \in Busy THEN Cardinality(Busy) - 1 ELSE Cardinality(Busy)
    BY <2>1, FS_RemoveElement
  <2>4. Cardinality(Busy \ {c}) \in Nat
    BY <2>1, FS_RemoveElement, FS_CardinalityType
  <2>5. inCount' = Cardinality(Busy')
    BY <2>1, <2>2, <2>3
  <2>6. inCount' <= inCount
    BY <1>1
  <2>7. inCount' \in Nat
    BY <2>2, <2>4, <2>5
  <2> QED BY <1>1, <2>1, <2>5, <2>6, <2>7
<1> QED BY <1>3, <1>5, <1>6, <1>7 DEF PoolOK

\* The pool after a connection was taken from it
LEMMA TakenPool ==
  ASSUME PoolTypes, PoolOK, avail # <<>>, NEW inc \in BOOLEAN, inc => inCount < MaxIncoming, NEW c, c = avail[Len(avail)],
         NEW cn \in ConnRec, ~cn.free, cn.incoming = inc, conn' = [conn EXCEPT ![c] = cn],
         avail' = SubSeq(avail, 1, Len(avail) - 1), inCount' = IF inc THEN inCount + 1 ELSE inCount
  PROVE  PoolOK' /\ avail' \in Seq(Conns) /\ inCount' \in Nat
<1>1. conn \in [Conns -> ConnRec] /\ avail \in Seq(Conns) /\ inCount \in Nat
  BY DEF PoolTypes
<1>2. PICK L \in Nat : L = Len(avail) /\ L >= 1 /\ DOMAIN avail = 1 .. L /\ avail[L] = c /\ L \in DOMAIN avail
  BY <1>1
<1>3. /\ avail' \in Seq(Conns) /\ DOMAIN avail' = 1 .. L - 1 /\ \A n \in 1 .. L - 1 : avail'[n] = avail[n]
  <2>1. L - 1 \in Int /\ \A i \in 1 .. L - 1 : avail[i] \in Conns
    BY <1>1, <1>2
  <2>2. Len(avail') = L - 1 /\ \A n \in 1 .. L - 1 : avail'[n] = avail[n]
    BY <1>1, <1>2
  <2>3. avail' \in Seq(Conns)
    BY <1>1, <1>2
  <2> QED BY <2>2, <2>3
<1>4. c \in Conns /\ conn[c].free
  BY <1>1, <1>2 DEF PoolOK
<1>5. conn'[c] = cn /\ \A d \in Conns : d # c => conn'[d] = conn[d]
  BY <1>1, <1>4
<1>6. \A i, j \in DOMAIN avail : avail[i] = avail[j] => i = j
  BY DEF PoolOK
<1>7. \A n \in DOMAIN avail' : n \in DOMAIN avail /\ avail'[n] = avail[n] /\ n # L
  BY <1>2, <1>3
<1>8. \A n \in DOMAIN avail : n = L \/ n \in DOMAIN avail'
  BY <1>2, <1>3
<1>9. \A d \in Conns : conn'[d].free <=> \E n \in DOMAIN avail' : avail'[n] = d
  <2> SUFFICES ASSUME NEW d \in Conns PROVE conn'[d].free <=> \E n \in DOMAIN avail' : avail'[n] = d
    OBVIOUS
  <2>1. CASE d = c
    BY <1>2, <1>5, <1>6, <1>7, <2>1
  <2>2. CASE d # c
    <3>1. conn[d].free <=> \E n \in DOMAIN avail : avail[n] = d
      BY DEF PoolOK
    <3> QED BY <1>2, <1>5, <1>7, <1>8, <2>2, <3>1
  <2> QED BY <2>1, <2>2
<1>10. \A m, n \in DOMAIN avail' : avail'[m] = avail'[n] => m = n
  BY <1>6, <1>7
<1>11. inCount' = Cardinality(Busy') /\ inCount' <= MaxIncoming /\ inCount' \in Nat
  <2>1. IsFiniteSet(Busy) /\ inCount = Cardinality(Busy) /\ inCount <= MaxIncoming /\ MaxIncoming \in Nat /\ c \notin Busy
    <3>1. Busy \subseteq Conns /\ c \notin Busy
      BY <1>4 DEF Busy
    <3> QED BY <3>1, FS_Subset, PoolAssumption DEF PoolOK
  <2>2. CASE inc
    <3>1. Busy' = Busy \cup {c}
      BY <1>4, <1>5, <2>2 DEF Busy
    <3>2. Cardinality(Busy \cup {c}) = Cardinality(Busy) + 1
      BY <2>1, FS_AddElement
    <3> QED BY <1>1, <2>1, <2>2, <3>1, <3>2
  <2>3. CASE ~inc
    <3>1. Busy' = Busy
      BY <1>4, <1>5, <2>1, <2>3 DEF Busy
    <3> QED BY <1>1, <2>1, <2>3, <3>1
  <2> QED BY <2>2, <2>3
<1> QED BY <1>3, <1>9, <1>10, <1>11 DEF PoolOK

\* A thread that gives up what it was doing
Ended(r) == [r EXCEPT !.prog = <<>>]

\* FreeConnection keeps the inductive invariant
LEMMA FreeConnectionStep ==
  ASSUME PoolIInv, NEW t \in Threads, thr[t].h # "stopAll", thr[t].c # NoConn, FreeConnection(t, thr[t].c)
  PROVE  PoolIInv'
<1>1. PICK c : c = thr[t].c
  OBVIOUS
<1>2. /\ thr[t] \in ThrRec /\ c \in Conns /\ ThreadOK(thr[t], NotInUse, Down) /\ conn[c] \in ConnRec /\ pend[c] \in [Kinds -> Nat]
      /\ ConnOK(conn[c], pend[c], thr, tasks, Down, c) /\ thr \in [Threads -> ThrRec] /\ conn \in [Conns -> ConnRec]
      /\ pend \in [Conns -> [Kinds -> Nat]] /\ tasks \subseteq TaskRec /\ Down \in BOOLEAN
  BY <1>1, AtThread
<1>3. thr[t].prog # <<>> /\ Head(thr[t].prog) = "free" /\ pend' = pend /\ tasks' = tasks
  BY DEF FreeConnection, At
<1>4. thr[t].h = "finish"
  BY <1>2, <1>3, AtWork
<1>5. PICK s : s = Onward(thr[t])
  OBVIOUS
<1>6. /\ s \in ThrRec /\ ThreadOK(s, NotInUse, Down) /\ s.c = c /\ s.h = "finish" /\ s.refs = 0 /\ thr[t].refs = 0
      /\ ~Driver(s) /\ ~TimerAhead(s) /\ ~Starting(s) /\ ~Accepting(s) /\ ~Accepting(thr[t])
      /\ ~Finishing(thr[t]) /\ ~Finishing(s) /\ Freeing(thr[t]) /\ ~Freeing(s) /\ s.prog # <<>>
  BY <1>1, <1>2, <1>3, <1>4, <1>5, FinishNext
<1>7. ~conn[c].free /\ conn[c].stopping = Unused /\ \A u \in Threads : u # t /\ thr[u].c = c => ~Freeing(thr[u])
  BY <1>1, <1>2, <1>6 DEF ConnOK, UnusedOK
<1>8. CASE Down
  <2>1. PICK q : q = Ended(thr[t])
    OBVIOUS
  <2>2. thr' = [thr EXCEPT ![t] = q] /\ conn' = conn /\ Same
    <3>1. thr' = [thr EXCEPT ![t].prog = <<>>] /\ conn' = conn /\ Same
      BY <1>1, <1>8 DEF FreeConnection, Quit, Abandoned, Same
    <3> QED BY <1>2, <2>1, <3>1 DEF Ended
  <2>3. <<>> \in Seq(WorkInstr \cup RestInstr \cup Conns)
    BY EmptySeq
  <2>4. q \in ThrRec /\ q.prog = <<>> /\ q.c = c /\ q.refs = 0 /\ q.h = "finish"
    BY <1>1, <1>2, <1>4, <1>6, <2>1, <2>3 DEF ThrRec, Ended
  <2>5. ThreadOK(q, NotInUse, Down)
    BY <1>2, <2>4, RestFull DEF ThreadOK, Regs
  <2>6. ~Driver(q) /\ ~TimerAhead(q) /\ ~Starting(q) /\ ~Finishing(q) /\ ~Freeing(q) /\ ~Accepting(q)
    BY <2>4, AtEnd
  <2>7. Like(thr[t], q, c)
    BY <1>1, <1>6, <2>4, <2>6 DEF Like
  <2>8. Moved(thr[t], q, c, conn[c].stopping, Down)
    BY <1>1, <1>6, <1>8, <2>4, <2>6 DEF Moved
  <2>9. PoolIInv /\ t \in Threads
    OBVIOUS
  <2> QED BY ONLY <1>2, <1>3, <2>2, <2>4, <2>5, <2>7, <2>8, <2>9, QuietStep
<1>9. CASE ~Down
  <2>1. PICK cn : cn = [conn[c] EXCEPT !.free = TRUE]
    OBVIOUS
  <2>2. /\ conn' = [conn EXCEPT ![c] = cn] /\ avail' = Append(avail, c) /\ inCount' = IF conn[c].incoming THEN inCount - 1 ELSE inCount
        /\ thr' = [thr EXCEPT ![t] = s] /\ newConn' = newConn /\ listening' = listening /\ isOpen' = isOpen /\ shutdown' = shutdown /\ uses' = uses
    <3>1. /\ conn' = [conn EXCEPT ![c].free = TRUE] /\ avail' = Append(avail, c) /\ inCount' = IF conn[c].incoming THEN inCount - 1 ELSE inCount
          /\ thr' = Next1(t) /\ newConn' = newConn /\ listening' = listening /\ isOpen' = isOpen /\ shutdown' = shutdown /\ uses' = uses
      BY <1>1, <1>7, <1>9 DEF FreeConnection
    <3> QED BY <1>2, <1>5, <2>1, <3>1 DEF Next1, Onward
  <2>3. /\ cn \in ConnRec /\ cn.free /\ cn.stopping = Unused /\ cn.state = conn[c].state /\ cn.ops = conn[c].ops /\ cn.useCount = conn[c].useCount
    BY <1>2, <1>7, <2>1 DEF ConnRec
  <2>4. thr' \in [Threads -> ThrRec] /\ thr'[t] = s /\ \A u \in Threads : u # t => thr'[u] = thr[u]
    BY <1>2, <1>6, <2>2
  <2>5. Down' = Down
    BY <2>2 DEF Down
  <2>6. \A d \in Conns : Like(thr[t], s, d)
    BY <1>1, <1>6 DEF Like
  <2>7. ConnOK(conn[c], pend[c], thr', tasks, Down, c)
    <3>1. \A u \in Threads : Like(thr[u], thr'[u], c)
      BY <1>2, <2>4, <2>6 DEF Like
    <3>2. (\A x \in tasks : x.c = c => x \in tasks) /\ (Down => Down)
      OBVIOUS
    <3> QED BY ONLY <1>2, <2>4, <3>1, <3>2, Quiet
  <2>8. ConnOK(cn, pend[c], thr', tasks, Down, c)
    <3>1. \A u \in Threads : thr'[u].c = c => ~Freeing(thr'[u]) /\ ~Starting(thr'[u])
      <4>1. \A u \in Threads : thr'[u].c = c => ~Starting(thr'[u])
        BY ONLY <1>2, <1>7, <1>9, <2>4, <2>7, UnusedFacts
      <4> QED BY <1>6, <1>7, <2>4, <4>1
    <3> QED BY ONLY <1>2, <1>7, <2>3, <2>4, <2>7, <3>1, PoolConn
  <2>9. \A d \in Conns : ConnOK(conn'[d], pend'[d], thr', tasks', Down', d)
    <3>1. \A u \in Threads : thr'[u] = thr[u] \/ (\A d \in Conns : d # c => Like(thr[u], thr'[u], d))
      BY <2>4, <2>6
    <3>2. PoolIInv /\ (Down => Down') /\ ConnOK(cn, pend[c], thr', tasks, Down', c)
      BY <2>5, <2>8
    <3> QED BY ONLY <1>2, <1>3, <2>2, <2>4, <3>1, <3>2, Others
  <2>10. PoolTypes /\ PoolOK /\ AcceptOK
    BY DEF PoolIInv
  <2>11. PoolOK' /\ avail' \in Seq(Conns) /\ inCount' \in Nat
    BY ONLY <1>2, <1>7, <2>2, <2>3, <2>10, GivenPool
  <2>12. conn' \in [Conns -> ConnRec] /\ conn'[c] = cn /\ \A d \in Conns : d # c => conn'[d] = conn[d]
    BY <1>2, <2>2, <2>3
  <2>13. PoolTypes'
    BY <1>3, <2>2, <2>4, <2>10, <2>11, <2>12 DEF PoolTypes
  <2>14. NotInUse' = NotInUse
    BY <1>7, <2>3, <2>12 DEF NotInUse
  <2>15. \A u \in Threads : ThreadOK(thr'[u], NotInUse', Down')
    <3>1. \A u \in Threads : ThreadOK(thr[u], NotInUse, Down)
      BY DEF PoolIInv
    <3> QED BY <1>6, <2>4, <2>5, <2>14, <3>1
  <2>16. AcceptOK'
    <3>1. \A u \in Threads : Accepting(thr'[u]) <=> Accepting(thr[u])
      BY <1>6, <2>4
    <3>2. /\ \A u, v \in Threads : Accepting(thr'[u]) /\ Accepting(thr'[v]) => u = v
          /\ \A u \in Threads : Accepting(thr'[u]) => newConn' # NoConn
          /\ listening' => newConn' # NoConn /\ isOpen' /\ \A u \in Threads : ~Accepting(thr'[u])
      BY <2>2, <2>10, <3>1 DEF AcceptOK
    <3>3. ASSUME isOpen', newConn' # NoConn, \A u \in Threads : ~Accepting(thr'[u])
          PROVE  /\ ~conn'[newConn'].free /\ conn'[newConn'].stopping = Unused
                 /\ \A u \in Threads : thr'[u].c = newConn' => ~Freeing(thr'[u])
      <4>1. /\ newConn \in Conns /\ ~conn[newConn].free /\ conn[newConn].stopping = Unused
            /\ \A u \in Threads : thr[u].c = newConn => ~Freeing(thr[u])
        BY <2>2, <2>10, <3>1, <3>3 DEF AcceptOK, PoolTypes
      <4>2. newConn # c
        BY <1>1, <1>6, <4>1
      <4> QED BY <1>6, <2>2, <2>4, <2>12, <4>1, <4>2
    <3>4. thr'[t].h \in {"finish", "accept"} /\ thr'[t].prog # <<>>
      BY <1>6, <2>4
    <3> QED BY <3>2, <3>3, <3>4 DEF AcceptOK
  <2> QED BY <2>9, <2>11, <2>13, <2>15, <2>16 DEF PoolIInv
<1> QED BY <1>8, <1>9

\* A thread with nothing left but to call StartAccept
LEMMA LastInstr ==
  ASSUME NEW r \in ThrRec, NEW S, NEW down, ThreadOK(r, S, down), r.h # "stopAll", r.prog # <<>>, Head(r.prog) \in {"acceptMore", "acceptNext"},
         NEW s, s = Onward(r)
  PROVE  /\ s \in ThrRec /\ ThreadOK(s, S, down) /\ s.c = r.c /\ s.h = r.h /\ s.prog = <<>> /\ s.refs = r.refs
         /\ (Head(r.prog) = "acceptMore" => r.h = "finish") /\ (Head(r.prog) = "acceptNext" => r.h = "accept")
         /\ ~Finishing(r) /\ (\A d : Like(r, s, d))
<1>1. s.c = r.c /\ s.h = r.h /\ s.prog = Tail(r.prog) /\ s.refs = r.refs /\ s \in ThrRec
  BY SeqTail DEF ThrRec, Onward
<1>2. CASE Head(r.prog) = "acceptMore"
  <2>1. r.h = "finish"
    BY <1>2, AtWork
  <2>2. r.c \in Conns /\ r.refs = 0 /\ RestOf(r.prog, FinishAt)
    BY <2>1 DEF ThreadOK
  <2>3. Tail(r.prog) = <<>> /\ RestOf(Tail(r.prog), FinishAt)
    BY <1>2, <2>2, FinishTail
  <2>4. ThreadOK(s, S, down)
    BY <1>1, <2>1, <2>2, <2>3 DEF ThreadOK, Regs
  <2>5. ~Finishing(r)
    BY <1>2 DEF Finishing
  <2>6. ~Driver(s) /\ ~TimerAhead(s) /\ ~Starting(s) /\ ~Finishing(s) /\ ~Freeing(s)
    BY <1>1, <2>3, AtEnd
  <2>7. \A d : Like(r, s, d)
    BY <1>1, <2>5, <2>6 DEF Like
  <2> QED BY <1>1, <1>2, <2>1, <2>3, <2>4, <2>5, <2>7
<1>3. CASE Head(r.prog) = "acceptNext"
  <2>1. r.h \in {"accept", "connect"}
    BY <1>3, AtWork
  <2>2. r.h = "accept" /\ Tail(r.prog) = <<>> /\ RestOf(Tail(r.prog), AcceptAt)
    <3>1. CASE r.h = "accept"
      <4>1. RestOf(r.prog, AcceptAt)
        BY <3>1 DEF ThreadOK
      <4> QED BY <1>3, <3>1, <4>1, StartTail
    <3>2. CASE r.h = "connect"
      <4>1. RestOf(r.prog, ConnectAt)
        BY <3>2 DEF ThreadOK
      <4>2. ConnectAt = AcceptAt
        BY <1>3, <4>1, StartTail
      <4> QED BY <4>2, RestFull
    <3> QED BY <2>1, <3>1, <3>2
  <2>3. StarterOK(r, down)
    BY <2>2 DEF ThreadOK
  <2>4. StarterOK(s, down)
    BY <1>1, <2>2, <2>3 DEF StarterOK
  <2>5. ThreadOK(s, S, down)
    BY <1>1, <2>2, <2>4 DEF ThreadOK, Regs
  <2>6. ~Finishing(r)
    BY <1>3 DEF Finishing
  <2>7. ~Driver(s) /\ ~TimerAhead(s) /\ ~Starting(s) /\ ~Finishing(s) /\ ~Freeing(s)
    BY <1>1, <2>2, AtEnd
  <2>8. \A d : Like(r, s, d)
    BY <1>1, <2>6, <2>7 DEF Like
  <2> QED BY <1>1, <1>3, <2>2, <2>5, <2>6, <2>8
<1> QED BY <1>2, <1>3

\* The pool and the threads do not change: only the acceptor
LEMMA AcceptorStep ==
  ASSUME PoolIInv, conn' = conn, pend' = pend, tasks' = tasks, avail' = avail, inCount' = inCount, uses' = uses,
         thr' \in [Threads -> ThrRec], \A u \in Threads : thr'[u] = thr[u] \/ ((\A d \in Conns : Like(thr[u], thr'[u], d)) /\ ThreadOK(thr'[u], NotInUse, Down')),
         Down => Down', shutdown' \in {"no", "wanted", "stopping", "done"},
         newConn' \in Conns \cup {NoConn}, listening' \in BOOLEAN, isOpen' \in BOOLEAN, AcceptOK'
  PROVE  PoolIInv'
<1>1. PoolTypes /\ PoolOK /\ thr \in [Threads -> ThrRec] /\ Down \in BOOLEAN /\ Down' \in BOOLEAN
  BY DEF PoolIInv, PoolTypes, Down
<1>2. PoolTypes'
  BY <1>1 DEF PoolTypes
<1>3. PoolOK'
  <2>1. Busy' = Busy
    BY DEF Busy
  <2> QED BY <1>1, <2>1 DEF PoolOK
<1>4. NotInUse' = NotInUse
  BY DEF NotInUse
<1>5. ASSUME NEW u \in Threads PROVE ThreadOK(thr'[u], NotInUse', Down')
  <2>1. ThreadOK(thr[u], NotInUse, Down)
    BY DEF PoolIInv
  <2>2. \A d \in NotInUse : d \in NotInUse \/ (~Down /\ (thr[u].c = d => thr[u].refs = 0))
    OBVIOUS
  <2>3. Down => Down'
    OBVIOUS
  <2>4. ThreadOK(thr[u], NotInUse, Down')
    BY ONLY <1>1, <2>1, <2>2, <2>3, ThreadMono
  <2> QED BY <1>4, <2>4
<1>6. ASSUME NEW d \in Conns PROVE ConnOK(conn'[d], pend'[d], thr', tasks', Down', d)
  <2>1. ConnOK(conn[d], pend[d], thr, tasks, Down, d)
    BY DEF PoolIInv
  <2>2. \A u \in Threads : Like(thr[u], thr'[u], d)
    BY DEF Like
  <2>3. thr' \in [Threads -> ThrRec] /\ (Down => Down') /\ \A x \in tasks' : x.c = d => x \in tasks
    OBVIOUS
  <2>4. ConnOK(conn[d], pend[d], thr', tasks', Down', d)
    BY ONLY <1>1, <2>1, <2>2, <2>3, Quiet
  <2> QED BY <2>4
<1> QED BY <1>2, <1>3, <1>5, <1>6 DEF PoolIInv

\* The members of a connection that is taken from the pool
TakenOf(cn, inc, init, n) ==
  [cn EXCEPT !.free = FALSE, !.incoming = inc, !.use = n, !.stopping = IF init THEN 0 ELSE cn.stopping, !.writing = FALSE, !.msgs = 0]

\* What GetFreeConnection does
LEMMA GetIs ==
  ASSUME PoolIInv, NEW inc \in BOOLEAN, NEW init \in BOOLEAN, CanGet(inc), GetFreeConnection(inc, init), NEW c, c = avail[Len(avail)],
         NEW cn, cn = TakenOf(conn[c], inc, init, uses + 1)
  PROVE  /\ c \in Conns /\ conn[c].free /\ conn[c].stopping = Unused /\ conn' = [conn EXCEPT ![c] = cn] /\ uses' = uses + 1 /\ uses' \in Nat
         /\ cn \in ConnRec /\ ~cn.free /\ cn.incoming = inc /\ cn.stopping = (IF init THEN 0 ELSE Unused) /\ cn.state = conn[c].state
         /\ cn.ops = conn[c].ops /\ cn.useCount = conn[c].useCount
         /\ conn' \in [Conns -> ConnRec] /\ conn'[c] = cn /\ (\A d \in Conns : d # c => conn'[d] = conn[d])
         /\ PoolOK' /\ avail' \in Seq(Conns) /\ inCount' \in Nat
         /\ \A u \in Threads : thr[u].c = c => ~Freeing(thr[u])
<1>1. PoolTypes /\ PoolOK /\ conn \in [Conns -> ConnRec] /\ avail \in Seq(Conns) /\ uses \in Nat
  BY DEF PoolIInv, PoolTypes
<1>2. avail # <<>> /\ (inc => inCount < MaxIncoming)
  BY DEF CanGet
<1>3. c \in Conns /\ conn[c].free
  <2>1. Len(avail) \in DOMAIN avail /\ c \in Conns
    BY <1>1, <1>2
  <2> QED BY <1>1, <2>1 DEF PoolOK
<1>4. conn[c] \in ConnRec /\ uses + 1 \in Nat
  BY <1>1, <1>3
<1>5. conn[c].stopping = Unused /\ \A u \in Threads : thr[u].c = c => ~Freeing(thr[u])
  <2>1. UnusedOK(conn[c], thr, c)
    BY <1>3 DEF PoolIInv, ConnOK
  <2> QED BY <1>3, <2>1 DEF UnusedOK
<1>6. /\ cn \in ConnRec /\ ~cn.free /\ cn.incoming = inc /\ cn.stopping = (IF init THEN 0 ELSE Unused) /\ cn.state = conn[c].state
      /\ cn.ops = conn[c].ops /\ cn.useCount = conn[c].useCount
  BY <1>4, <1>5 DEF ConnRec, TakenOf
<1>7. /\ conn' = [conn EXCEPT ![c] = cn] /\ uses' = uses + 1 /\ avail' = SubSeq(avail, 1, Len(avail) - 1)
      /\ inCount' = IF inc THEN inCount + 1 ELSE inCount
  <2>1. conn' = Taken(c, inc, init) /\ uses' = uses + 1 /\ avail' = SubSeq(avail, 1, Len(avail) - 1) /\ inCount' = IF inc THEN inCount + 1 ELSE inCount
    BY DEF GetFreeConnection
  <2>2. Taken(c, inc, init) = [conn EXCEPT ![c] = cn]
    BY <1>1, <1>3 DEF Taken, TakenOf
  <2> QED BY <2>1, <2>2
<1>8. PoolOK' /\ avail' \in Seq(Conns) /\ inCount' \in Nat
  <2>1. inc \in BOOLEAN /\ c = avail[Len(avail)]
    OBVIOUS
  <2> QED BY ONLY <1>1, <1>2, <1>6, <1>7, <2>1, TakenPool
<1>9. conn' \in [Conns -> ConnRec] /\ conn'[c] = cn /\ (\A d \in Conns : d # c => conn'[d] = conn[d])
  BY <1>1, <1>3, <1>6, <1>7
<1> QED BY <1>3, <1>4, <1>5, <1>6, <1>7, <1>8, <1>9

\* StartAccept keeps the inductive invariant: the acceptor gets a connection that is free, or somebody will call it again
LEMMA StartAcceptStep ==
  ASSUME PoolIInv, NEW t \in Threads, thr[t].h # "stopAll", thr[t].c # NoConn, StartAccept(t)
  PROVE  PoolIInv'
<1>1. /\ thr[t] \in ThrRec /\ ThreadOK(thr[t], NotInUse, Down) /\ thr \in [Threads -> ThrRec] /\ Down \in BOOLEAN
      /\ thr[t].c \in Conns /\ pend \in [Conns -> [Kinds -> Nat]]
  BY AtThread
<1>2. PICK s : s = Onward(thr[t])
  OBVIOUS
<1>3. /\ thr[t].prog # <<>> /\ Head(thr[t].prog) \in {"acceptMore", "acceptNext"} /\ thr' = [thr EXCEPT ![t] = s]
      /\ pend' = pend /\ tasks' = tasks /\ isOpen' = isOpen /\ shutdown' = shutdown /\ Down' = Down
      /\ (Head(thr[t].prog) = "acceptMore" => StartAcceptWithLock(FALSE)) /\ (Head(thr[t].prog) = "acceptNext" => StartAcceptWithLock(TRUE))
  BY <1>2 DEF StartAccept, At, Next1, Onward, Down
<1>4. /\ s \in ThrRec /\ ThreadOK(s, NotInUse, Down) /\ s.c = thr[t].c /\ s.h = thr[t].h /\ s.prog = <<>>
      /\ (Head(thr[t].prog) = "acceptMore" => thr[t].h = "finish") /\ (Head(thr[t].prog) = "acceptNext" => thr[t].h = "accept")
      /\ (\A d : Like(thr[t], s, d))
  BY ONLY <1>1, <1>2, <1>3, thr[t].h # "stopAll", LastInstr
<1>5. thr' \in [Threads -> ThrRec] /\ thr'[t] = s /\ \A u \in Threads : u # t => thr'[u] = thr[u]
  BY <1>1, <1>3, <1>4
<1>6. PoolTypes /\ PoolOK /\ AcceptOK
  BY DEF PoolIInv
<1>7. ~Accepting(s) /\ ~Freeing(s) /\ (Accepting(thr[t]) <=> Head(thr[t].prog) = "acceptNext")
  BY <1>3, <1>4 DEF Accepting, Freeing
<1>8. \A u \in Threads : Accepting(thr'[u]) => Accepting(thr[u]) /\ u # t
  BY <1>5, <1>7
<1>9. \A u, v \in Threads : Accepting(thr[u]) /\ Accepting(thr[v]) => u = v
  BY <1>6 DEF AcceptOK
<1>10. \A u \in Threads : thr'[u] = thr[u] \/ ((\A d \in Conns : Like(thr[u], thr'[u], d)) /\ ThreadOK(thr'[u], NotInUse, Down'))
  BY <1>3, <1>4, <1>5
<1>11. CASE conn' = conn /\ avail' = avail /\ inCount' = inCount /\ uses' = uses /\ newConn' = newConn /\ listening' = listening
            /\ ~(isOpen /\ (newConn = NoConn \/ Head(thr[t].prog) = "acceptNext"))
  <2>1. AcceptOK'
    <3>1. /\ \A u, v \in Threads : Accepting(thr'[u]) /\ Accepting(thr'[v]) => u = v
          /\ \A u \in Threads : Accepting(thr'[u]) => newConn' # NoConn
          /\ listening' => newConn' # NoConn /\ isOpen' /\ \A u \in Threads : ~Accepting(thr'[u])
      BY <1>3, <1>6, <1>8, <1>11 DEF AcceptOK
    <3>2. ASSUME isOpen', newConn' # NoConn, \A u \in Threads : ~Accepting(thr'[u])
          PROVE  /\ ~conn'[newConn'].free /\ conn'[newConn'].stopping = Unused
                 /\ \A u \in Threads : thr'[u].c = newConn' => ~Freeing(thr'[u])
      <4>1. \A u \in Threads : ~Accepting(thr[u])
        BY <1>3, <1>5, <1>7, <1>11, <3>2
      <4>2. /\ ~conn[newConn].free /\ conn[newConn].stopping = Unused
            /\ \A u \in Threads : thr[u].c = newConn => ~Freeing(thr[u])
        BY <1>3, <1>6, <1>11, <3>2, <4>1 DEF AcceptOK
      <4> QED BY <1>5, <1>7, <1>11, <4>2
    <3>3. ~(isOpen' /\ newConn' = NoConn)
      BY <1>3, <1>11
    <3> QED BY <3>1, <3>2, <3>3 DEF AcceptOK
  <2>2. newConn' \in Conns \cup {NoConn} /\ listening' \in BOOLEAN /\ isOpen' \in BOOLEAN /\ shutdown' \in {"no", "wanted", "stopping", "done"} /\ (Down => Down') /\ PoolIInv
    BY <1>3, <1>6, <1>11 DEF PoolTypes
  <2> QED BY ONLY <1>3, <1>5, <1>10, <1>11, <2>1, <2>2, AcceptorStep
<1>12. ASSUME isOpen, newConn = NoConn \/ Head(thr[t].prog) = "acceptNext"
       PROVE  \A u \in Threads : ~Accepting(thr'[u])
  <2>1. newConn = NoConn => \A u \in Threads : ~Accepting(thr[u])
    BY <1>6 DEF AcceptOK
  <2> QED BY <1>7, <1>8, <1>9, <1>12, <2>1
<1>13. CASE isOpen /\ (newConn = NoConn \/ Head(thr[t].prog) = "acceptNext") /\ ~CanGet(TRUE) /\ newConn' = NoConn /\ listening' = FALSE
            /\ conn' = conn /\ avail' = avail /\ inCount' = inCount /\ uses' = uses
  <2>1. CanGet(TRUE)' = CanGet(TRUE)
    BY <1>13 DEF CanGet
  <2>2. AcceptOK'
    BY <1>12, <1>13, <2>1 DEF AcceptOK
  <2>3. newConn' \in Conns \cup {NoConn} /\ listening' \in BOOLEAN /\ isOpen' \in BOOLEAN /\ shutdown' \in {"no", "wanted", "stopping", "done"} /\ (Down => Down') /\ PoolIInv
    BY <1>3, <1>6, <1>13 DEF PoolTypes
  <2> QED BY ONLY <1>3, <1>5, <1>10, <1>13, <2>2, <2>3, AcceptorStep
<1>14. CASE isOpen /\ (newConn = NoConn \/ Head(thr[t].prog) = "acceptNext") /\ CanGet(TRUE) /\ GetFreeConnection(TRUE, FALSE)
            /\ newConn' = avail[Len(avail)] /\ listening' = TRUE
  <2>1. PICK c : c = avail[Len(avail)]
    OBVIOUS
  <2>2. PICK yes \in BOOLEAN : yes = TRUE
    OBVIOUS
  <2>3. PICK no \in BOOLEAN : no = FALSE
    OBVIOUS
  <2>4. CanGet(yes) /\ GetFreeConnection(yes, no)
    BY <1>14, <2>2, <2>3, Zenon
  <2>5. PICK cn : cn = TakenOf(conn[c], yes, no, uses + 1)
    OBVIOUS
  <2>6. /\ c \in Conns /\ conn[c].free /\ conn[c].stopping = Unused /\ conn' = [conn EXCEPT ![c] = cn] /\ uses' \in Nat
        /\ cn \in ConnRec /\ ~cn.free /\ cn.stopping = Unused /\ cn.state = conn[c].state
        /\ cn.ops = conn[c].ops /\ cn.useCount = conn[c].useCount
        /\ conn' \in [Conns -> ConnRec] /\ conn'[c] = cn /\ (\A d \in Conns : d # c => conn'[d] = conn[d])
        /\ PoolOK' /\ avail' \in Seq(Conns) /\ inCount' \in Nat
        /\ \A u \in Threads : thr[u].c = c => ~Freeing(thr[u])
    <3>1. PoolIInv /\ yes \in BOOLEAN /\ no \in BOOLEAN
      OBVIOUS
    <3>2. PICK want : want = (IF no THEN 0 ELSE Unused)
      OBVIOUS
    <3>3. want = Unused
      BY <2>3, <3>2
    <3> QED BY ONLY <2>1, <2>4, <2>5, <3>1, <3>2, <3>3, GetIs
  <2>7. \A d \in Conns : Like(thr[t], s, d)
    BY <1>4
  <2>8. /\ conn[c] \in ConnRec /\ pend[c] \in [Kinds -> Nat] /\ ConnOK(conn[c], pend[c], thr, tasks, Down, c)
    BY <2>6 DEF PoolIInv, PoolTypes
  <2>9. \A u \in Threads : thr[u].c = c => ~Starting(thr[u])
    <3>1. conn[c].stopping = Unused /\ conn[c].free
      BY <2>6
    <3>2. thr \in [Threads -> ThrRec] /\ Down \in BOOLEAN
      BY <1>1
    <3> QED BY ONLY <2>8, <3>1, <3>2, UnusedFacts
  <2>10. \A u \in Threads : thr'[u].c = c => ~Freeing(thr'[u]) /\ ~Starting(thr'[u])
    <3>1. ~Starting(s)
      BY <1>4, AtEnd
    <3> QED BY <1>5, <1>7, <2>6, <2>9, <3>1
  <2>11. ConnOK(cn, pend[c], thr', tasks, Down, c)
    <3>1. \A u \in Threads : Like(thr[u], thr'[u], c)
      BY <1>5, <2>6, <2>7 DEF Like
    <3>2. (\A x \in tasks : x.c = c => x \in tasks) /\ (Down => Down)
      OBVIOUS
    <3>3. ConnOK(conn[c], pend[c], thr', tasks, Down, c)
      BY ONLY <1>1, <1>5, <2>8, <3>1, <3>2, Quiet
    <3>4. /\ conn[c].stopping = Unused /\ cn \in ConnRec /\ cn.stopping = Unused /\ cn.state = conn[c].state
          /\ cn.ops = conn[c].ops /\ cn.useCount = conn[c].useCount
      BY <2>6
    <3>5. thr' \in [Threads -> ThrRec] /\ Down \in BOOLEAN
      BY <1>1, <1>5
    <3> QED BY ONLY <2>8, <2>10, <3>3, <3>4, <3>5, PoolConn
  <2>12. \A d \in Conns : ConnOK(conn'[d], pend'[d], thr', tasks', Down', d)
    <3>1. \A u \in Threads : thr'[u] = thr[u] \/ (\A d \in Conns : d # c => Like(thr[u], thr'[u], d))
      BY <1>5, <2>7
    <3>2. PoolIInv /\ (Down => Down') /\ ConnOK(cn, pend[c], thr', tasks, Down', c)
      BY <1>3, <2>11
    <3> QED BY ONLY <1>3, <1>5, <2>6, <3>1, <3>2, Others
  <2>13. PoolTypes'
    BY <1>3, <1>5, <1>6, <1>14, <2>1, <2>6 DEF PoolTypes
  <2>14. NotInUse' = NotInUse
    BY <2>6 DEF NotInUse
  <2>15. \A u \in Threads : ThreadOK(thr'[u], NotInUse', Down')
    <3>1. \A u \in Threads : ThreadOK(thr[u], NotInUse, Down)
      BY DEF PoolIInv
    <3> QED BY <1>3, <1>4, <1>5, <2>14, <3>1
  <2>16. newConn' = c /\ c # NoConn /\ \A u \in Threads : ~Accepting(thr'[u])
    BY <1>12, <1>14, <2>1, <2>6, PoolAssumption
  <2>17. AcceptOK'
    BY <1>3, <1>14, <2>6, <2>10, <2>16 DEF AcceptOK
  <2> QED BY <2>6, <2>12, <2>13, <2>15, <2>17 DEF PoolIInv
<1> QED BY <1>3, <1>11, <1>13, <1>14 DEF StartAcceptWithLock

-----------------------------------------------------------------------------
(* The acceptor and the shutdown.                                            *)

\* HandleAccept with an error keeps the inductive invariant
LEMMA HandleAcceptErrorStep ==
  ASSUME PoolIInv, HandleAcceptError
  PROVE  PoolIInv'
<1>1. /\ conn' = conn /\ pend' = pend /\ tasks' = tasks /\ avail' = avail /\ inCount' = inCount /\ uses' = uses /\ thr' = thr
      /\ newConn' = newConn /\ isOpen' = isOpen /\ shutdown' = shutdown /\ listening' = FALSE /\ Down' = Down
  BY DEF HandleAcceptError, Down
<1>2. PoolTypes /\ AcceptOK
  BY DEF PoolIInv
<1>3. CanGet(TRUE)' = CanGet(TRUE)
  BY <1>1 DEF CanGet
<1>4. AcceptOK'
  BY <1>1, <1>2, <1>3 DEF AcceptOK
<1>5. /\ thr' \in [Threads -> ThrRec] /\ (\A u \in Threads : thr'[u] = thr[u]) /\ (Down => Down') /\ shutdown' \in {"no", "wanted", "stopping", "done"}
      /\ newConn' \in Conns \cup {NoConn} /\ listening' \in BOOLEAN /\ isOpen' \in BOOLEAN /\ PoolIInv
  BY <1>1, <1>2 DEF PoolTypes
<1> QED BY ONLY <1>1, <1>4, <1>5, AcceptorStep

\* The request to shut down keeps the inductive invariant
LEMMA StartShutdownStep ==
  ASSUME PoolIInv, StartShutdown
  PROVE  PoolIInv'
<1>1. /\ conn' = conn /\ pend' = pend /\ tasks' = tasks /\ avail' = avail /\ inCount' = inCount /\ uses' = uses /\ thr' = thr
      /\ newConn' = newConn /\ isOpen' = isOpen /\ shutdown' = "wanted" /\ listening' = listening /\ Down'
  BY DEF StartShutdown, Down
<1>2. PoolTypes /\ AcceptOK
  BY DEF PoolIInv
<1>3. AcceptOK'
  BY <1>1, <1>2 DEF AcceptOK
<1>4. /\ thr' \in [Threads -> ThrRec] /\ (\A u \in Threads : thr'[u] = thr[u]) /\ (Down => Down') /\ shutdown' \in {"no", "wanted", "stopping", "done"}
      /\ newConn' \in Conns \cup {NoConn} /\ listening' \in BOOLEAN /\ isOpen' \in BOOLEAN /\ PoolIInv
  BY <1>1, <1>2 DEF PoolTypes
<1> QED BY ONLY <1>1, <1>3, <1>4, AcceptorStep

\* The first connection of a thread that stops them all
LEMMA StopperNext ==
  ASSUME NEW r \in ThrRec, NEW S, NEW R, NEW down \in BOOLEAN, ThreadOK(r, S, down), r.h = "stopAll", r.prog # <<>>, NEW s, s = Onward(r),
         S \subseteq R, Head(r.prog) \in R
  PROVE  s \in ThrRec /\ ThreadOK(s, R, down) /\ s.c = NoConn /\ s.refs = 0 /\ s.h = "stopAll"
<1>1. StopperOK(r, S, down)
  BY DEF ThreadOK
<1>2. s.c = r.c /\ s.h = r.h /\ s.prog = Tail(r.prog) /\ s.refs = r.refs /\ s \in ThrRec
  BY SeqTail DEF ThrRec, Onward
<1>3. r.c = NoConn /\ r.refs = 0 /\ r.prog \in Seq(Conns) /\ down /\ \A c \in Conns : c \in S \/ \E n \in DOMAIN r.prog : r.prog[n] = c
  BY <1>1 DEF StopperOK
<1>4. PICK p \in Seq(Conns) : p = r.prog /\ p # <<>>
  BY <1>3
<1>5. PICK q : q = Tail(p)
  OBVIOUS
<1>6. q \in Seq(Conns) /\ Head(p) = p[1] /\ \A n \in DOMAIN p : n = 1 \/ (n - 1 \in DOMAIN q /\ q[n - 1] = p[n])
  <2>1. q \in Seq(Conns) /\ Len(q) = Len(p) - 1 /\ Head(p) = p[1]
    BY <1>4, <1>5
  <2>2. \A i \in 1 .. Len(p) - 1 : q[i] = p[i + 1]
    BY <1>4, <1>5
  <2>3. ASSUME NEW n \in DOMAIN p, n # 1 PROVE n - 1 \in DOMAIN q /\ q[n - 1] = p[n]
    <3>1. n - 1 \in 1 .. Len(p) - 1 /\ (n - 1) + 1 = n
      BY <1>4, <2>3
    <3> QED BY <2>1, <2>2, <3>1
  <2> QED BY <2>1, <2>3
<1>7. \A c \in Conns : c \in R \/ \E n \in DOMAIN q : q[n] = c
  BY <1>3, <1>4, <1>6
<1>8. StopperOK(s, R, down)
  BY <1>2, <1>3, <1>4, <1>5, <1>6, <1>7 DEF StopperOK
<1>9. ThreadOK(s, R, down)
  BY <1>2, <1>8 DEF ThreadOK, Regs
<1> QED BY <1>2, <1>3, <1>9

\* Server::HandleStop, which stops all connections, keeps the inductive invariant
LEMMA StopAllStep ==
  ASSUME PoolIInv, NEW t \in Threads, StopAllConnections(t)
  PROVE  PoolIInv'
<1>1. /\ PoolTypes /\ AcceptOK /\ thr \in [Threads -> ThrRec] /\ conn \in [Conns -> ConnRec] /\ pend \in [Conns -> [Kinds -> Nat]]
      /\ thr[t] \in ThrRec /\ ThreadOK(thr[t], NotInUse, Down) /\ Down \in BOOLEAN /\ tasks \subseteq TaskRec
  BY DEF PoolIInv, PoolTypes, Down
<1>2. CASE /\ shutdown = "wanted" /\ thr[t] = Idle
           /\ isOpen' = FALSE /\ listening' = FALSE /\ shutdown' = "stopping"
           /\ \E p \in [1..Cardinality(Conns) -> Conns] :
                {p[i] : i \in DOMAIN p} = Conns /\ thr' = [thr EXCEPT ![t] = [Idle EXCEPT !.h = "stopAll", !.prog = p]]
           /\ UNCHANGED <<conn, pend, avail, inCount, newConn, tasks, uses>>
  <2>1. PICK p \in [1..Cardinality(Conns) -> Conns] :
               {p[i] : i \in DOMAIN p} = Conns /\ thr' = [thr EXCEPT ![t] = [Idle EXCEPT !.h = "stopAll", !.prog = p]]
    BY <1>2
  <2>2. PICK s : s = [Idle EXCEPT !.h = "stopAll", !.prog = p]
    OBVIOUS
  <2>3. p \in Seq(Conns) /\ p \in Seq(WorkInstr \cup RestInstr \cup Conns) /\ \A c \in Conns : \E n \in DOMAIN p : p[n] = c
    <3>1. Cardinality(Conns) \in Nat
      BY PoolAssumption, FS_CardinalityType
    <3>2. p \in Seq(Conns)
      BY <3>1
    <3>3. \A z \in Seq(Conns) : z \in Seq(WorkInstr \cup RestInstr \cup Conns)
      OBVIOUS
    <3> QED BY <2>1, <3>2, <3>3
  <2>4. s.c = NoConn /\ s.refs = 0 /\ s.h = "stopAll" /\ s.prog = p /\ s \in ThrRec
    <3>1. s = [c |-> NoConn, prog |-> p, refs |-> 0, h |-> "stopAll"]
      BY <2>2 DEF Idle
    <3>2. NoConn \in Conns \cup {NoConn} /\ 0 \in 0 .. 3
      OBVIOUS
    <3> QED BY <2>3, <3>1, <3>2 DEF ThrRec
  <2>5. Down' /\ Down
    BY <1>2 DEF Down
  <2>6. StopperOK(s, NotInUse, Down')
    BY <2>3, <2>4, <2>5 DEF StopperOK
  <2>7. ThreadOK(s, NotInUse, Down')
    BY <2>4, <2>6 DEF ThreadOK, Regs
  <2>8. thr' \in [Threads -> ThrRec] /\ thr'[t] = s /\ \A u \in Threads : u # t => thr'[u] = thr[u]
    BY <1>1, <2>1, <2>2, <2>4
  <2>9. \A d \in Conns : Like(thr[t], s, d)
    BY <1>2, <2>4, IdleOK, PoolAssumption DEF Like
  <2>10. \A u \in Threads : Accepting(thr'[u]) => Accepting(thr[u])
    BY <2>4, <2>8 DEF Accepting
  <2>11. AcceptOK'
    BY <1>1, <1>2, <2>10 DEF AcceptOK
  <2>12. \A u \in Threads : thr'[u] = thr[u] \/ ((\A d \in Conns : Like(thr[u], thr'[u], d)) /\ ThreadOK(thr'[u], NotInUse, Down'))
    BY <2>7, <2>8, <2>9
  <2>13. /\ newConn' \in Conns \cup {NoConn} /\ listening' \in BOOLEAN /\ isOpen' \in BOOLEAN /\ shutdown' \in {"no", "wanted", "stopping", "done"}
         /\ (Down => Down') /\ PoolIInv /\ conn' = conn /\ pend' = pend /\ tasks' = tasks /\ avail' = avail /\ inCount' = inCount /\ uses' = uses
    BY <1>1, <1>2, <2>5 DEF PoolTypes
  <2> QED BY ONLY <2>8, <2>11, <2>12, <2>13, AcceptorStep
<1>3. CASE /\ thr[t].h = "stopAll" /\ thr[t].prog # <<>> /\ StopWithConnLock(Head(thr[t].prog))
           /\ thr' = Next1(t) /\ UNCHANGED tasks /\ Same
  <2>1. PICK c : c = Head(thr[t].prog)
    OBVIOUS
  <2>2. StopperOK(thr[t], NotInUse, Down)
    BY <1>1, <1>3 DEF ThreadOK
  <2>3. c \in Conns /\ Down /\ thr[t].c = NoConn
    BY <1>3, <2>1, <2>2 DEF StopperOK
  <2>4. PICK s : s = Onward(thr[t])
    OBVIOUS
  <2>5. thr' = [thr EXCEPT ![t] = s]
    BY <1>3, <2>4 DEF Next1, Onward
  <2>6. ASSUME NEW R, NotInUse \subseteq R, c \in R PROVE s \in ThrRec /\ ThreadOK(s, R, Down) /\ s.c = NoConn /\ s.refs = 0 /\ s.h = "stopAll"
    <3>1. thr[t] \in ThrRec /\ ThreadOK(thr[t], NotInUse, Down) /\ Down \in BOOLEAN /\ thr[t].h = "stopAll" /\ thr[t].prog # <<>>
      BY <1>1, <1>3
    <3>2. Head(thr[t].prog) \in R
      BY <2>1, <2>6
    <3> QED BY ONLY <2>4, <2>6, <3>1, <3>2, StopperNext
  <2>7. s \in ThrRec /\ s.c = NoConn /\ s.h = "stopAll"
    <3>1. PICK R : R = NotInUse \cup {c}
      OBVIOUS
    <3>2. NotInUse \subseteq R /\ c \in R
      BY <3>1
    <3> QED BY <2>6, <3>2
  <2>8. Moved(thr[t], s, c, conn[c].stopping, Down)
    BY <1>3, <2>3, <2>7 DEF Moved, Accepting, Freeing
  <2>9. CASE conn[c].stopping # 0
    <3>1. conn' = conn /\ pend' = pend /\ tasks' = tasks
      BY <1>3, <2>1, <2>9 DEF StopWithConnLock
    <3>2. c \in NotInUse
      BY <2>3, <2>9 DEF NotInUse
    <3>3. ThreadOK(s, NotInUse, Down)
      BY <2>6, <3>2
    <3>4. Like(thr[t], s, c)
      BY <2>3, <2>7, PoolAssumption DEF Like
    <3>5. PoolIInv /\ t \in Threads /\ Same /\ c \in Conns /\ s \in ThrRec
      BY <1>3, <2>3, <2>7
    <3> QED BY ONLY <2>5, <2>8, <3>1, <3>3, <3>4, <3>5, QuietStep
  <2>10. CASE conn[c].stopping = 0
    <3>1. PICK cn : cn = StoppedOf(conn[c])
      OBVIOUS
    <3>2. PICK pd : pd = StopOf(conn[c], pend[c])
      OBVIOUS
    <3>3. conn' = [conn EXCEPT ![c] = cn] /\ pend' = [pend EXCEPT ![c] = pd] /\ tasks' = tasks
      <4>1. /\ conn' = [conn EXCEPT ![c].stopping = 1, ![c].state = "STOPPING"]
            /\ pend' = [Cancelled(c) EXCEPT ![c]["finish"] = IF conn[c].ops = 0 THEN @ + 1 ELSE @] /\ tasks' = tasks
        BY <1>3, <2>1, <2>10 DEF StopWithConnLock
      <4>2. conn' = [conn EXCEPT ![c] = cn]
        BY <1>1, <2>3, <3>1, <4>1 DEF StoppedOf
      <4>3. pend' = [pend EXCEPT ![c] = pd]
        BY <1>1, <2>3, <3>2, <4>1 DEF StopOf, CancelledOf, Cancelled
      <4> QED BY <4>1, <4>2, <4>3
    <3>4. conn[c] \in ConnRec /\ pend[c] \in [Kinds -> Nat] /\ ConnOK(conn[c], pend[c], thr, tasks, Down, c)
      BY <1>1, <2>3 DEF PoolIInv
    <3>5. thr' \in [Threads -> ThrRec] /\ thr'[t] = s /\ \A u \in Threads : u # t => thr'[u] = thr[u]
      BY <1>1, <2>5, <2>7
    <3>6. ConnOK(conn[c], pend[c], thr', tasks, Down, c)
      <4>1. \A u \in Threads : Like(thr[u], thr'[u], c)
        BY <2>3, <2>7, <3>5, PoolAssumption DEF Like
      <4>2. (\A x \in tasks : x.c = c => x \in tasks) /\ (Down => Down)
        OBVIOUS
      <4> QED BY ONLY <1>1, <3>4, <3>5, <4>1, <4>2, Quiet
    <3>7. cn \in ConnRec /\ pd \in [Kinds -> Nat] /\ ConnOK(cn, pd, thr', tasks, Down, c)
      BY ONLY <1>1, <2>3, <2>10, <3>1, <3>2, <3>4, <3>5, <3>6, StopConn
    <3>8. cn.free = conn[c].free /\ cn.incoming = conn[c].incoming /\ cn.stopping = 1
      BY <3>1, <3>4 DEF StoppedOf, ConnRec
    <3>9. NotInUse \subseteq NotInUse' /\ c \in NotInUse'
      BY <1>1, <2>3, <3>3, <3>8 DEF NotInUse
    <3>10. \A u \in Threads : \/ thr'[u] = thr[u]
                              \/ Moved(thr[u], thr'[u], c, conn[c].stopping, Down) /\ ThreadOK(thr'[u], NotInUse', Down)
      BY <2>6, <2>8, <3>5, <3>9
    <3>11. /\ (conn[c].stopping = Unused => cn.stopping = Unused) /\ (conn[c].stopping # 0 => cn.stopping # 0)
      BY <2>10, <3>8 DEF Unused
    <3>12. /\ ConnOK(cn, pd, thr', tasks', Down, c) /\ tasks' \subseteq TaskRec /\ (\A x \in tasks' : x.c # c => x \in tasks)
           /\ PoolIInv /\ Same /\ c \in Conns
      BY <1>1, <1>3, <2>3, <3>3, <3>7
    <3> QED BY ONLY <3>3, <3>5, <3>7, <3>8, <3>10, <3>11, <3>12, LocalStep
  <2> QED BY <2>9, <2>10
<1>4. CASE /\ thr[t].h = "stopAll" /\ thr[t].prog = <<>> /\ thr' = [thr EXCEPT ![t] = Idle] /\ shutdown' = "done"
           /\ UNCHANGED <<conn, pend, avail, inCount, newConn, listening, isOpen, tasks, uses>>
  <2>1. StopperOK(thr[t], NotInUse, Down)
    BY <1>1, <1>4 DEF ThreadOK
  <2>2. thr[t].c = NoConn /\ Down' /\ Down
    BY <1>4, <2>1 DEF StopperOK, Down
  <2>3. thr' \in [Threads -> ThrRec] /\ thr'[t] = Idle /\ \A u \in Threads : u # t => thr'[u] = thr[u]
    BY <1>1, <1>4, IdleOK
  <2>4. \A d \in Conns : Like(thr[t], Idle, d)
    BY <2>2, IdleOK, PoolAssumption DEF Like
  <2>5. \A u \in Threads : thr'[u] = thr[u] \/ ((\A d \in Conns : Like(thr[u], thr'[u], d)) /\ ThreadOK(thr'[u], NotInUse, Down'))
    BY <2>3, <2>4, IdleOK
  <2>6. \A u \in Threads : (Accepting(thr'[u]) <=> Accepting(thr[u])) /\ (Freeing(thr'[u]) => thr'[u] = thr[u])
    BY <1>4, <2>3, IdleOK DEF Accepting, Freeing
  <2>7. AcceptOK'
    BY <1>1, <1>4, <2>2, <2>6 DEF AcceptOK
  <2>8. /\ newConn' \in Conns \cup {NoConn} /\ listening' \in BOOLEAN /\ isOpen' \in BOOLEAN /\ shutdown' \in {"no", "wanted", "stopping", "done"}
        /\ (Down => Down') /\ PoolIInv /\ conn' = conn /\ pend' = pend /\ tasks' = tasks /\ avail' = avail /\ inCount' = inCount /\ uses' = uses
    BY <1>1, <1>4, <2>2 DEF PoolTypes
  <2> QED BY ONLY <2>3, <2>5, <2>7, <2>8, AcceptorStep
<1> QED BY <1>2, <1>3, <1>4 DEF StopAllConnections

-----------------------------------------------------------------------------
(* New connections.                                                          *)

\* A thread that will start a connection
LEMMA NewStarter ==
  ASSUME NEW c \in Conns, NEW s, NEW S, NEW down,
         \/ s = [c |-> c, prog |-> <<"incStart", "postStart", "acceptNext">>, refs |-> 0, h |-> "accept"]
         \/ s = [c |-> c, prog |-> <<"incStart", "postStart">>, refs |-> 0, h |-> "connect"]
  PROVE  s \in ThrRec /\ ThreadOK(s, S, down) /\ s.c = c /\ s.refs = 0 /\ s.h \in {"accept", "connect"} /\ s.prog # <<>> /\ ~Freeing(s)
<1>1. \A z \in Seq(RestInstr) : z \in Seq(WorkInstr \cup RestInstr \cup Conns)
  OBVIOUS
<1>2. CASE s = [c |-> c, prog |-> <<"incStart", "postStart", "acceptNext">>, refs |-> 0, h |-> "accept"]
  <2>1. PICK p : p = <<"incStart", "postStart", "acceptNext">>
    OBVIOUS
  <2>2. RestOf(p, AcceptAt) /\ p # <<>> /\ Head(p) = "incStart"
    BY <2>1, RestFull
  <2>3. p \in Seq(WorkInstr \cup RestInstr \cup Conns)
    BY <1>1, <2>2 DEF RestOf
  <2>4. s.c = c /\ s.prog = p /\ s.refs = 0 /\ s.h = "accept" /\ s \in ThrRec
    BY <1>2, <2>1, <2>3 DEF ThrRec
  <2>5. StarterOK(s, down)
    BY <2>2, <2>4 DEF StarterOK
  <2>6. ThreadOK(s, S, down)
    BY <2>2, <2>4, <2>5 DEF ThreadOK, Regs
  <2> QED BY <2>2, <2>4, <2>6 DEF Freeing
<1>3. CASE s = [c |-> c, prog |-> <<"incStart", "postStart">>, refs |-> 0, h |-> "connect"]
  <2>1. PICK p : p = <<"incStart", "postStart">>
    OBVIOUS
  <2>2. RestOf(p, ConnectAt) /\ p # <<>> /\ Head(p) = "incStart"
    BY <2>1, RestFull
  <2>3. p \in Seq(WorkInstr \cup RestInstr \cup Conns)
    BY <1>1, <2>2 DEF RestOf
  <2>4. s.c = c /\ s.prog = p /\ s.refs = 0 /\ s.h = "connect" /\ s \in ThrRec
    BY <1>3, <2>1, <2>3 DEF ThrRec
  <2>5. StarterOK(s, down)
    BY <2>2, <2>4 DEF StarterOK
  <2>6. ThreadOK(s, S, down)
    BY <2>2, <2>4, <2>5 DEF ThreadOK, Regs
  <2> QED BY <2>2, <2>4, <2>6 DEF Freeing
<1> QED BY <1>2, <1>3

\* Threads and connections when an idle thread t has initialised connection c
LEMMA BeginStep ==
  ASSUME PoolIInv, NEW t \in Threads, thr[t] = Idle, ~Down, ~Down', NEW c \in Conns, conn[c].stopping = Unused,
         \A u \in Threads : thr[u].c = c => ~Freeing(thr[u]), pend' = pend, tasks' = tasks,
         NEW cn \in ConnRec, conn' = [conn EXCEPT ![c] = cn], cn.stopping = 0, ~cn.free, cn.ops = conn[c].ops, cn.useCount = conn[c].useCount,
         NEW s, thr' = [thr EXCEPT ![t] = s],
         \/ s = [c |-> c, prog |-> <<"incStart", "postStart", "acceptNext">>, refs |-> 0, h |-> "accept"]
         \/ s = [c |-> c, prog |-> <<"incStart", "postStart">>, refs |-> 0, h |-> "connect"]
  PROVE  /\ thr' \in [Threads -> ThrRec] /\ thr'[t] = s /\ (\A u \in Threads : u # t => thr'[u] = thr[u])
         /\ conn' \in [Conns -> ConnRec] /\ conn'[c] = cn /\ (\A d \in Conns : d # c => conn'[d] = conn[d])
         /\ (\A d \in Conns : ConnOK(conn'[d], pend'[d], thr', tasks', Down', d))
         /\ \A u \in Threads : ThreadOK(thr'[u], NotInUse', Down')
<1>1. /\ thr \in [Threads -> ThrRec] /\ conn \in [Conns -> ConnRec] /\ pend \in [Conns -> [Kinds -> Nat]] /\ conn[c] \in ConnRec
      /\ pend[c] \in [Kinds -> Nat] /\ Down \in BOOLEAN /\ Down' \in BOOLEAN /\ ConnOK(conn[c], pend[c], thr, tasks, Down, c)
  BY DEF PoolIInv, PoolTypes, Down
<1>2. \A S, down : s \in ThrRec /\ ThreadOK(s, S, down) /\ s.c = c /\ s.refs = 0 /\ s.h \in {"accept", "connect"}
  BY NewStarter
<1>3. s \in ThrRec /\ ThreadOK(s, NotInUse', Down') /\ s.c = c /\ s.refs = 0 /\ s.h \in {"accept", "connect"}
  BY <1>2
<1>4. thr' \in [Threads -> ThrRec] /\ thr'[t] = s /\ (\A u \in Threads : u # t => thr'[u] = thr[u])
  BY <1>1, <1>3
<1>5. conn' \in [Conns -> ConnRec] /\ conn'[c] = cn /\ (\A d \in Conns : d # c => conn'[d] = conn[d])
  BY <1>1
<1>6. thr[t].refs = 0 /\ thr[t].c = NoConn
  BY IdleOK
<1>7. ConnOK(cn, pend[c], thr', tasks, Down, c)
  <2>1. thr'[t].refs = 0 /\ thr'[t].h \in {"accept", "connect"}
    BY <1>3, <1>4
  <2>2. /\ conn[c].stopping = Unused /\ (\A u \in Threads : thr[u].c = c => ~Freeing(thr[u])) /\ cn \in ConnRec /\ cn.stopping = 0 /\ ~cn.free
        /\ cn.ops = conn[c].ops /\ cn.useCount = conn[c].useCount /\ ~Down /\ t \in Threads
    OBVIOUS
  <2> QED BY ONLY <1>1, <1>4, <1>6, <2>1, <2>2, BeginConn
<1>8. \A d \in Conns : ConnOK(conn'[d], pend'[d], thr', tasks', Down', d)
  <2>1. \A u \in Threads : thr'[u] = thr[u] \/ (\A d \in Conns : d # c => Like(thr[u], thr'[u], d))
    BY <1>3, <1>4, <1>6, PoolAssumption DEF Like
  <2>2. Down' = Down
    BY <1>1
  <2>3. ConnOK(cn, pend[c], thr', tasks, Down', c) /\ (Down => Down')
    BY <1>7, <2>2
  <2>4. PoolIInv /\ c \in Conns /\ conn' = [conn EXCEPT ![c] = cn] /\ pend' = pend /\ tasks' = tasks
    OBVIOUS
  <2> QED BY ONLY <1>4, <2>1, <2>3, <2>4, Others
<1>9. ASSUME NEW u \in Threads PROVE ThreadOK(thr'[u], NotInUse', Down')
  <2>1. CASE u = t
    BY <1>3, <1>4, <2>1
  <2>2. CASE u # t
    <3>1. ThreadOK(thr[u], NotInUse, Down)
      BY DEF PoolIInv
    <3>2. \A v \in Threads : thr[v].c = c => thr[v].refs = 0
      <4>1. conn[c].stopping = Unused
        OBVIOUS
      <4>2. thr \in [Threads -> ThrRec] /\ Down \in BOOLEAN /\ conn[c] \in ConnRec /\ pend[c] \in [Kinds -> Nat]
        BY <1>1
      <4>3. ConnOK(conn[c], pend[c], thr, tasks, Down, c)
        BY <1>1
      <4> QED BY ONLY <4>1, <4>2, <4>3, UnusedFacts
    <3>3. \A d \in NotInUse : d \in NotInUse' \/ (~Down /\ (thr[u].c = d => thr[u].refs = 0))
      BY <1>5, <3>2 DEF NotInUse
    <3>4. Down => Down'
      OBVIOUS
    <3>5. ThreadOK(thr[u], NotInUse', Down')
      BY ONLY <1>1, <3>1, <3>3, <3>4, ThreadMono
    <3> QED BY <1>4, <2>2, <3>5
  <2> QED BY <2>1, <2>2
<1> QED BY <1>4, <1>5, <1>8, <1>9

\* HandleAccept with a peer keeps the inductive invariant
LEMMA HandleAcceptStep ==
  ASSUME PoolIInv, NEW t \in Threads, HandleAccept(t)
  PROVE  PoolIInv'
<1>1. PICK c : c = newConn
  OBVIOUS
<1>2. PICK s : s = [c |-> c, prog |-> <<"incStart", "postStart", "acceptNext">>, refs |-> 0, h |-> "accept"]
  OBVIOUS
<1>3. PICK cn : cn = [conn[c] EXCEPT !.stopping = 0, !.writing = FALSE]
  OBVIOUS
<1>4. PoolTypes /\ PoolOK /\ AcceptOK /\ conn \in [Conns -> ConnRec] /\ newConn \in Conns \cup {NoConn}
  BY DEF PoolIInv, PoolTypes
<1>5. listening /\ isOpen /\ newConn # NoConn /\ \A u \in Threads : ~Accepting(thr[u])
  BY <1>4 DEF HandleAccept, AcceptOK
<1>6. c \in Conns /\ c # NoConn /\ ~conn[c].free /\ conn[c].stopping = Unused /\ \A u \in Threads : thr[u].c = c => ~Freeing(thr[u])
  BY <1>1, <1>4, <1>5 DEF AcceptOK
<1>7. /\ thr[t] = Idle /\ ~Down /\ ~Down' /\ conn' = [conn EXCEPT ![c] = cn] /\ listening' = FALSE /\ thr' = [thr EXCEPT ![t] = s]
      /\ pend' = pend /\ avail' = avail /\ inCount' = inCount /\ newConn' = newConn /\ isOpen' = isOpen /\ shutdown' = shutdown /\ tasks' = tasks /\ uses' = uses
  <2>1. /\ thr[t] = Idle /\ ~Down /\ ~Down' /\ conn' = Begun(c) /\ listening' = FALSE /\ thr' = [thr EXCEPT ![t] = s]
        /\ pend' = pend /\ avail' = avail /\ inCount' = inCount /\ newConn' = newConn /\ isOpen' = isOpen /\ shutdown' = shutdown /\ tasks' = tasks /\ uses' = uses
    BY <1>1, <1>2 DEF HandleAccept, Run, Down
  <2>2. Begun(c) = [conn EXCEPT ![c] = cn]
    BY <1>3, <1>4, <1>6 DEF Begun
  <2> QED BY <2>1, <2>2
<1>8. /\ cn \in ConnRec /\ cn.stopping = 0 /\ ~cn.free /\ cn.ops = conn[c].ops /\ cn.useCount = conn[c].useCount /\ cn.incoming = conn[c].incoming
      /\ cn.free = conn[c].free
  <2>1. conn[c] \in ConnRec
    BY <1>4, <1>6
  <2> QED BY <1>3, <1>6, <2>1 DEF ConnRec
<1>9. /\ thr' \in [Threads -> ThrRec] /\ thr'[t] = s /\ (\A u \in Threads : u # t => thr'[u] = thr[u])
      /\ conn' \in [Conns -> ConnRec] /\ conn'[c] = cn /\ (\A d \in Conns : d # c => conn'[d] = conn[d])
      /\ (\A d \in Conns : ConnOK(conn'[d], pend'[d], thr', tasks', Down', d))
      /\ \A u \in Threads : ThreadOK(thr'[u], NotInUse', Down')
  <2>1. PoolIInv /\ t \in Threads
    OBVIOUS
  <2> QED BY ONLY <1>2, <1>6, <1>7, <1>8, <2>1, BeginStep
<1>10. PoolTypes'
  BY <1>4, <1>7, <1>9 DEF PoolTypes
<1>11. PoolOK'
  <2>1. \A d \in Conns : conn'[d].free = conn[d].free /\ conn'[d].incoming = conn[d].incoming
    BY <1>8, <1>9
  <2>2. Busy' = Busy
    BY <2>1 DEF Busy
  <2> QED BY <1>4, <1>7, <2>1, <2>2 DEF PoolOK
<1>12. Accepting(thr'[t])
  <2>1. \A S, down : s.prog # <<>>
    BY <1>2, <1>6, NewStarter
  <2>2. s.h = "accept" /\ s.prog # <<>>
    BY <1>2, <2>1
  <2> QED BY <1>9, <2>2 DEF Accepting
<1>13. AcceptOK'
  BY <1>1, <1>5, <1>6, <1>7, <1>9, <1>12 DEF AcceptOK
<1> QED BY <1>9, <1>10, <1>11, <1>13 DEF PoolIInv

\* Server::Connect keeps the inductive invariant
LEMMA ConnectStep ==
  ASSUME PoolIInv, NEW t \in Threads, Connect(t)
  PROVE  PoolIInv'
<1>1. PICK c : c = avail[Len(avail)]
  OBVIOUS
<1>2. PICK s : s = [c |-> c, prog |-> <<"incStart", "postStart">>, refs |-> 0, h |-> "connect"]
  OBVIOUS
<1>3. PICK yes \in BOOLEAN : yes = TRUE
  OBVIOUS
<1>4. PICK no \in BOOLEAN : no = FALSE
  OBVIOUS
<1>5. PICK cn : cn = TakenOf(conn[c], no, yes, uses + 1)
  OBVIOUS
<1>6. CanGet(no) /\ GetFreeConnection(no, yes)
  <2>1. CanGet(FALSE) /\ GetFreeConnection(FALSE, TRUE)
    BY DEF Connect
  <2> QED BY <1>3, <1>4, <2>1, Zenon
<1>7. /\ thr[t] = Idle /\ ~Down /\ ~Down' /\ thr' = [thr EXCEPT ![t] = s]
      /\ pend' = pend /\ newConn' = newConn /\ listening' = listening /\ isOpen' = isOpen /\ shutdown' = shutdown /\ tasks' = tasks
  BY <1>1, <1>2 DEF Connect, Run, Down
<1>8. /\ c \in Conns /\ conn[c].free /\ conn[c].stopping = Unused /\ conn' = [conn EXCEPT ![c] = cn] /\ uses' = uses + 1 /\ uses' \in Nat
      /\ cn \in ConnRec /\ ~cn.free /\ cn.stopping = 0 /\ cn.ops = conn[c].ops /\ cn.useCount = conn[c].useCount
      /\ PoolOK' /\ avail' \in Seq(Conns) /\ inCount' \in Nat
      /\ \A u \in Threads : thr[u].c = c => ~Freeing(thr[u])
  <2>1. PoolIInv /\ yes \in BOOLEAN /\ no \in BOOLEAN
    OBVIOUS
  <2>2. PICK want : want = (IF yes THEN 0 ELSE Unused)
    OBVIOUS
  <2>3. want = 0
    BY <1>3, <2>2
  <2> QED BY ONLY <1>1, <1>5, <1>6, <2>1, <2>2, <2>3, GetIs
<1>9. /\ thr' \in [Threads -> ThrRec] /\ thr'[t] = s /\ (\A u \in Threads : u # t => thr'[u] = thr[u])
      /\ conn' \in [Conns -> ConnRec] /\ conn'[c] = cn /\ (\A d \in Conns : d # c => conn'[d] = conn[d])
      /\ (\A d \in Conns : ConnOK(conn'[d], pend'[d], thr', tasks', Down', d))
      /\ \A u \in Threads : ThreadOK(thr'[u], NotInUse', Down')
  <2>1. PoolIInv /\ t \in Threads
    OBVIOUS
  <2> QED BY ONLY <1>2, <1>7, <1>8, <2>1, BeginStep
<1>10. PoolTypes /\ AcceptOK
  BY DEF PoolIInv
<1>11. PoolTypes'
  BY <1>7, <1>8, <1>9, <1>10 DEF PoolTypes
<1>12. s.h = "connect" /\ s.c = c /\ ~Freeing(s) /\ ~Accepting(s)
  BY <1>2 DEF Freeing, Accepting
<1>13. \A u \in Threads : Accepting(thr'[u]) <=> Accepting(thr[u])
  BY <1>7, <1>9, <1>12, IdleOK DEF Accepting
<1>14. AcceptOK'
  <2>1. /\ \A u, v \in Threads : Accepting(thr'[u]) /\ Accepting(thr'[v]) => u = v
        /\ \A u \in Threads : Accepting(thr'[u]) => newConn' # NoConn
        /\ listening' => newConn' # NoConn /\ isOpen' /\ \A u \in Threads : ~Accepting(thr'[u])
    BY <1>7, <1>10, <1>13 DEF AcceptOK
  <2>2. ASSUME isOpen', newConn' # NoConn, \A u \in Threads : ~Accepting(thr'[u])
        PROVE  /\ ~conn'[newConn'].free /\ conn'[newConn'].stopping = Unused
               /\ \A u \in Threads : thr'[u].c = newConn' => ~Freeing(thr'[u])
    <3>1. /\ newConn \in Conns /\ ~conn[newConn].free /\ conn[newConn].stopping = Unused
          /\ \A u \in Threads : thr[u].c = newConn => ~Freeing(thr[u])
      BY <1>7, <1>10, <1>13, <2>2 DEF AcceptOK, PoolTypes
    <3>2. newConn # c
      BY <1>8, <3>1
    <3> QED BY <1>7, <1>9, <1>12, <3>1, <3>2
  <2>3. ASSUME isOpen', ~Down', newConn' = NoConn, CanGet(TRUE)'
        PROVE  \E u \in Threads : thr'[u].h \in {"finish", "accept"} /\ thr'[u].prog # <<>>
    <3>1. CanGet(TRUE)
      <4>1. avail # <<>>
        BY <1>6 DEF CanGet
      <4>2. inCount' = inCount
        BY <1>4, <1>6 DEF GetFreeConnection
      <4>3. inCount' < MaxIncoming /\ uses' < MaxUses
        BY <2>3 DEF CanGet
      <4>4. uses < MaxUses
        BY <1>6 DEF CanGet
      <4> QED BY <4>1, <4>2, <4>3, <4>4 DEF CanGet
    <3>2. PICK u \in Threads : thr[u].h \in {"finish", "accept"} /\ thr[u].prog # <<>>
      BY <1>7, <1>10, <2>3, <3>1 DEF AcceptOK
    <3>3. u # t
      BY <1>7, <3>2, IdleOK
    <3> QED BY <1>9, <3>2, <3>3
  <2> QED BY <2>1, <2>2, <2>3 DEF AcceptOK
<1> QED BY <1>8, <1>9, <1>11, <1>14 DEF PoolIInv

\* HandleValidateDone keeps the inductive invariant: it stops the connection only in the use its message came in
LEMMA HandleValidateDoneStep ==
  ASSUME PoolIInv, NEW x \in tasks, HandleValidateDone(x)
  PROVE  PoolIInv'
<1>1. PICK c : c = x.c
  OBVIOUS
<1>2. /\ thr \in [Threads -> ThrRec] /\ conn \in [Conns -> ConnRec] /\ pend \in [Conns -> [Kinds -> Nat]] /\ tasks \subseteq TaskRec
      /\ Down \in BOOLEAN /\ c \in Conns /\ conn[c] \in ConnRec /\ pend[c] \in [Kinds -> Nat] /\ ConnOK(conn[c], pend[c], thr, tasks, Down, c)
  <2>1. thr \in [Threads -> ThrRec] /\ conn \in [Conns -> ConnRec] /\ pend \in [Conns -> [Kinds -> Nat]] /\ tasks \subseteq TaskRec /\ Down \in BOOLEAN
    BY DEF PoolIInv, PoolTypes, Down
  <2>2. c \in Conns
    BY <1>1, <2>1 DEF TaskRec
  <2> QED BY <2>1, <2>2 DEF PoolIInv
<1>3. tasks' = tasks \ {x} /\ thr' = thr /\ Same
  BY DEF HandleValidateDone
<1>4. ConnOK(conn[c], pend[c], thr, tasks', Down, c)
  <2>1. (\A y \in tasks' : y.c = c => y \in tasks) /\ (Down => Down)
    BY <1>3
  <2>2. \A u \in Threads : Like(thr[u], thr[u], c)
    BY DEF Like
  <2> QED BY ONLY <1>2, <2>1, <2>2, Quiet
<1>5. ASSUME NEW cn \in ConnRec, NEW pd \in [Kinds -> Nat], conn' = [conn EXCEPT ![c] = cn], pend' = [pend EXCEPT ![c] = pd],
             ConnOK(cn, pd, thr, tasks', Down, c), cn.free = conn[c].free, cn.incoming = conn[c].incoming,
             conn[c].stopping = Unused => cn.stopping = Unused, conn[c].stopping # 0 => cn.stopping # 0
      PROVE  PoolIInv'
  <2>1. /\ thr' \in [Threads -> ThrRec] /\ tasks' \subseteq TaskRec /\ (\A y \in tasks' : y.c # c => y \in tasks) /\ Same
        /\ (\A u \in Threads : thr'[u] = thr[u]) /\ ConnOK(cn, pd, thr', tasks', Down, c) /\ PoolIInv
    BY <1>2, <1>3, <1>5
  <2> QED BY ONLY <1>2, <1>5, <2>1, LocalStep
<1>6. CASE conn' = conn /\ pend' = pend
  <2>1. conn' = [conn EXCEPT ![c] = conn[c]] /\ pend' = [pend EXCEPT ![c] = pend[c]]
    BY <1>2, <1>6
  <2> QED BY ONLY <1>2, <1>4, <1>5, <2>1
<1>7. CASE x.id = conn[c].useCount /\ StopWithConnLock(c) /\ conn[c].stopping = 0
  <2>1. PICK cn : cn = StoppedOf(conn[c])
    OBVIOUS
  <2>2. PICK pd : pd = StopOf(conn[c], pend[c])
    OBVIOUS
  <2>3. conn' = [conn EXCEPT ![c] = cn] /\ pend' = [pend EXCEPT ![c] = pd]
    <3>1. /\ conn' = [conn EXCEPT ![c].stopping = 1, ![c].state = "STOPPING"]
          /\ pend' = [Cancelled(c) EXCEPT ![c]["finish"] = IF conn[c].ops = 0 THEN @ + 1 ELSE @]
      BY <1>7 DEF StopWithConnLock
    <3>2. conn' = [conn EXCEPT ![c] = cn]
      BY <1>2, <2>1, <3>1 DEF StoppedOf
    <3>3. pend' = [pend EXCEPT ![c] = pd]
      <4>1. pend \in [Conns -> [Kinds -> Nat]] /\ c \in Conns
        BY <1>2
      <4> QED BY ONLY <2>2, <3>1, <4>1 DEF StopOf, CancelledOf, Cancelled
    <3> QED BY <3>2, <3>3
  <2>4. \A u \in Threads : thr[u].c = c => ~Starting(thr[u])
    <3>1. StartOK(conn[c], pend[c], thr, tasks, Down, c)
      BY <1>2 DEF ConnOK
    <3> QED BY <1>1, <1>7, <3>1 DEF StartOK
  <2>5. conn[c].stopping = 0
    BY <1>7
  <2>6. cn \in ConnRec /\ pd \in [Kinds -> Nat] /\ ConnOK(cn, pd, thr, tasks', Down, c)
    <3>1. thr \in [Threads -> ThrRec] /\ Down \in BOOLEAN /\ conn[c] \in ConnRec /\ pend[c] \in [Kinds -> Nat]
      BY <1>2
    <3> QED BY ONLY <1>4, <2>1, <2>2, <2>4, <2>5, <3>1, StopConn
  <2>7. cn.free = conn[c].free /\ cn.incoming = conn[c].incoming /\ cn.stopping = 1
    BY <1>2, <2>1 DEF StoppedOf, ConnRec
  <2>8. (conn[c].stopping = Unused => cn.stopping = Unused) /\ (conn[c].stopping # 0 => cn.stopping # 0)
    BY <2>5, <2>7 DEF Unused
  <2> QED BY ONLY <1>5, <2>3, <2>6, <2>7, <2>8
<1>8. CASE x.id = conn[c].useCount /\ StopWithConnLock(c) /\ conn[c].stopping # 0
  BY <1>6, <1>8 DEF StopWithConnLock
<1> QED BY <1>1, <1>6, <1>7, <1>8 DEF HandleValidateDone

-----------------------------------------------------------------------------
(* The theorem.                                                              *)

\* Every step of the connection pool keeps the inductive invariant
LEMMA PoolNextStep ==
  ASSUME PoolIInv, [PoolNext]_poolVars
  PROVE  PoolIInv'
<1>1. CASE UNCHANGED poolVars
  <2>1. /\ conn' = conn /\ pend' = pend /\ thr' = thr /\ tasks' = tasks /\ avail' = avail /\ inCount' = inCount /\ newConn' = newConn
        /\ listening' = listening /\ isOpen' = isOpen /\ shutdown' = shutdown /\ uses' = uses
    BY <1>1 DEF poolVars
  <2>2. Down' = Down /\ NotInUse' = NotInUse /\ Busy' = Busy /\ CanGet(TRUE)' = CanGet(TRUE)
    BY <2>1 DEF Down, NotInUse, Busy, CanGet
  <2>3. PoolTypes /\ AcceptOK /\ PoolOK
    BY DEF PoolIInv
  <2>4. PoolTypes' /\ PoolOK'
    BY <2>1, <2>2, <2>3 DEF PoolTypes, PoolOK
  <2>5. AcceptOK'
    BY <2>1, <2>2, <2>3 DEF AcceptOK
  <2>6. (\A t \in Threads : ThreadOK(thr'[t], NotInUse', Down')) /\ (\A c \in Conns : ConnOK(conn'[c], pend'[c], thr', tasks', Down', c))
    BY <2>1, <2>2 DEF PoolIInv
  <2> QED BY <2>4, <2>5, <2>6 DEF PoolIInv
<1>2. ASSUME NEW t \in Threads, Step(t) PROVE PoolIInv'
  <2>1. ASSUME NEW c \in Conns, NEW k \in Kinds, Dispatch(t, c, k) PROVE PoolIInv'
    <3>1. k \in Regs \/ k = "finish"
      BY DEF Kinds, Regs
    <3>2. CASE k \in Regs
      BY <2>1, <3>2, DispatchStep
    <3>3. CASE k = "finish"
      <4>1. Dispatch(t, c, "finish")
        BY <2>1, <3>3
      <4> QED BY <4>1, DispatchFinishStep
    <3> QED BY <3>1, <3>2, <3>3
  <2>2. ASSUME thr[t].h # "stopAll", thr[t].c # NoConn,
               \/ CancelTimer(t, thr[t].c) \/ Validate(t, thr[t].c) \/ Stop(t, thr[t].c)
               \/ DecRef(t, thr[t].c) \/ Done(t, thr[t].c) \/ HandleStop(t, thr[t].c) \/ FreeConnection(t, thr[t].c) \/ StartAccept(t)
               \/ \E i \in {"incStart", "incTimer", "incRead", "incWrite"} : IncRef(t, thr[t].c, i)
               \/ \E i \in DOMAIN Pending : Async(t, thr[t].c, i)
        PROVE  PoolIInv'
    BY <2>2, CancelTimerStep, ValidateStep, StopStep, DecRefStep, DoneStep, HandleStopStep, FreeConnectionStep, StartAcceptStep,
       IncRefStep, AsyncStep
  <2>3. ASSUME StopAllConnections(t) PROVE PoolIInv'
    BY <2>3, StopAllStep
  <2> QED BY <1>2, <2>1, <2>2, <2>3 DEF Step
<1>3. ASSUME NEW t \in Threads, Connect(t) \/ HandleAccept(t) PROVE PoolIInv'
  BY <1>3, ConnectStep, HandleAcceptStep
<1>4. ASSUME HandleAcceptError \/ StartShutdown PROVE PoolIInv'
  BY <1>4, HandleAcceptErrorStep, StartShutdownStep
<1>5. ASSUME NEW x \in tasks, HandleValidateDone(x) PROVE PoolIInv'
  BY <1>5, HandleValidateDoneStep
<1> QED BY <1>1, <1>2, <1>3, <1>4, <1>5 DEF PoolNext

\* Nobody runs on a connection: no references are held
LEMMA HeldNone ==
  ASSUME NEW T, NEW c, \A u \in Threads : T[u].c # c
  PROVE  HeldCount(T, c) = 0
<1>1. Held(T, c, 1) = {} /\ Held(T, c, 2) = {} /\ Held(T, c, 3) = {}
  BY DEF Held
<1> QED BY <1>1, FS_EmptySet DEF HeldCount

\* The inductive invariant holds after Service::Start
LEMMA PoolInitOK ==
  ASSUME PoolInit
  PROVE  PoolIInv
<1>1. PICK c \in Conns, s \in [1..Cardinality(Conns) - 1 -> Conns] :
        /\ {s[i] : i \in DOMAIN s} = Conns \ {c}
        /\ avail = s /\ newConn = c
        /\ conn = [d \in Conns |-> IF d = c THEN [Fresh EXCEPT !.free = FALSE, !.incoming = TRUE, !.use = 1] ELSE Fresh]
  BY DEF PoolInit
<1>2. /\ pend = [d \in Conns |-> [k \in Kinds |-> 0]] /\ thr = [t \in Threads |-> Idle]
      /\ inCount = 1 /\ listening = TRUE /\ isOpen = TRUE /\ shutdown = "no" /\ tasks = {} /\ uses = 1 /\ ~Down
  BY DEF PoolInit, Down
<1>3. PICK N \in Nat : N = Cardinality(Conns) - 1 /\ Cardinality(Conns \ {c}) = N
  <2>1. Cardinality(Conns) \in Nat /\ Cardinality(Conns \ {c}) = Cardinality(Conns) - 1 /\ Cardinality(Conns \ {c}) \in Nat
    BY PoolAssumption, FS_RemoveElement, FS_CardinalityType
  <2> QED BY <2>1
<1>4. /\ avail \in Seq(Conns) /\ DOMAIN avail = 1 .. N /\ avail \in [1 .. N -> Conns \ {c}]
      /\ \A d \in Conns \ {c} : \E n \in 1 .. N : avail[n] = d
  <2>1. avail \in [1 .. N -> Conns] /\ {avail[i] : i \in 1 .. N} = Conns \ {c}
    BY <1>1, <1>3
  <2>2. avail \in Seq(Conns) /\ DOMAIN avail = 1 .. N
    BY <2>1
  <2>3. \A i \in 1 .. N : avail[i] \in Conns \ {c}
    BY <2>1
  <2>4. \A d \in Conns \ {c} : \E n \in 1 .. N : avail[n] = d
    BY <2>1
  <2> QED BY <2>1, <2>2, <2>3, <2>4
<1>5. \A m, n \in DOMAIN avail : avail[m] = avail[n] => m = n
  <2>1. avail \in Surjection(1 .. N, Conns \ {c})
    BY <1>4 DEF Surjection
  <2>2. IsFiniteSet(1 .. N) /\ Cardinality(1 .. N) = N
    BY FS_Interval
  <2>3. avail \in Injection(1 .. N, Conns \ {c})
    BY <1>3, <2>1, <2>2, FS_Surjection
  <2> QED BY <1>4, <2>3 DEF Injection, IsInjective
<1>6. PICK fr : fr = [Fresh EXCEPT !.free = FALSE, !.incoming = TRUE, !.use = 1]
  OBVIOUS
<1>7. /\ fr \in ConnRec /\ ~fr.free /\ fr.incoming /\ fr.stopping = Unused /\ fr.ops = 0 /\ fr.state = "STOPPED"
      /\ Fresh \in ConnRec /\ Fresh.free /\ ~Fresh.incoming /\ Fresh.stopping = Unused /\ Fresh.ops = 0 /\ Fresh.state = "STOPPED"
  <2>1. fr = [state |-> "STOPPED", stopping |-> Unused, ops |-> 0, useCount |-> 0, use |-> 1, free |-> FALSE,
              incoming |-> TRUE, writing |-> FALSE, msgs |-> 0]
    BY <1>6 DEF Fresh
  <2> QED BY <2>1 DEF Fresh, ConnRec, Unused
<1>8. conn \in [Conns -> ConnRec] /\ conn[c] = fr /\ \A d \in Conns : d # c => conn[d] = Fresh
  BY <1>1, <1>6, <1>7
<1>9. \A d \in Conns : pend[d] \in [Kinds -> Nat] /\ \A k \in Kinds : pend[d][k] = 0
  BY <1>2
<1>10. thr \in [Threads -> ThrRec] /\ \A t \in Threads : thr[t] = Idle /\ ThreadOK(thr[t], NotInUse, Down) /\ thr[t].c = NoConn /\ thr[t].prog = <<>>
  BY <1>2, IdleOK
<1>11. PoolTypes
  <2>1. pend \in [Conns -> [Kinds -> Nat]]
    BY <1>2
  <2> QED BY <1>1, <1>2, <1>4, <1>8, <1>10, <2>1 DEF PoolTypes
<1>12. PoolOK
  <2>1. \A d \in Conns : conn[d].free <=> \E n \in DOMAIN avail : avail[n] = d
    BY <1>4, <1>7, <1>8
  <2>2. Busy = {c}
    BY <1>7, <1>8 DEF Busy
  <2>3. inCount = Cardinality(Busy) /\ inCount <= MaxIncoming
    <3>1. Cardinality({c}) = 1
      BY FS_Singleton
    <3>2. 1 <= MaxIncoming
      BY PoolAssumption
    <3> QED BY <1>2, <2>2, <3>1, <3>2
  <2> QED BY <1>5, <2>1, <2>3 DEF PoolOK
<1>13. \A t \in Threads : ~Accepting(thr[t]) /\ ~Freeing(thr[t])
  BY <1>10, AtEnd
<1>14. AcceptOK
  BY <1>1, <1>2, <1>7, <1>8, <1>13, PoolAssumption DEF AcceptOK
<1>15. ASSUME NEW d \in Conns PROVE ConnOK(conn[d], pend[d], thr, tasks, Down, d)
  <2>1. \A u \in Threads : thr[u].c # d
    BY <1>10, PoolAssumption
  <2>2. conn[d].ops = 0 /\ conn[d].stopping = Unused /\ conn[d].state = "STOPPED"
    BY <1>7, <1>8
  <2>3. /\ pend[d]["start"] = 0 /\ pend[d]["timer"] = 0 /\ pend[d]["aborted"] = 0 /\ pend[d]["read"] = 0 /\ pend[d]["write"] = 0
        /\ pend[d]["proxyWrite"] = 0 /\ pend[d]["proxyRead"] = 0 /\ pend[d]["finish"] = 0
    BY <1>9 DEF Kinds
  <2>4. Counted(conn[d], pend[d], thr, d)
    <3>1. PendCount(pend[d]) = 0
      BY <2>3 DEF PendCount
    <3> QED BY <2>1, <2>2, <3>1, HeldNone DEF Counted
  <2>5. Bounded(conn[d], pend[d])
    BY <2>3 DEF Bounded
  <2>6. OneDriver(pend[d], thr, d)
    BY <2>1, <2>3 DEF OneDriver, DriveKinds
  <2>7. OneFinish(conn[d], pend[d], thr, d)
    <3>1. Unused # 1
      BY DEF Unused
    <3> QED BY <2>1, <2>2, <2>3, <3>1 DEF OneFinish
  <2>8. UnusedOK(conn[d], thr, d)
    BY <2>1, <2>2 DEF UnusedOK
  <2>9. StartOK(conn[d], pend[d], thr, tasks, Down, d) /\ TasksOK(conn[d], thr, tasks, d)
    BY <1>2, <2>1 DEF StartOK, TasksOK
  <2> QED BY <2>4, <2>5, <2>6, <2>7, <2>8, <2>9 DEF ConnOK
<1> QED BY <1>10, <1>11, <1>12, <1>14, <1>15 DEF PoolIInv

\* The inductive invariant implies PoolInv
LEMMA PoolIInvPoolInv ==
  ASSUME PoolIInv
  PROVE  PoolInv
<1>1. /\ PoolTypes /\ AcceptOK /\ PoolOK /\ conn \in [Conns -> ConnRec] /\ pend \in [Conns -> [Kinds -> Nat]] /\ thr \in [Threads -> ThrRec] /\ Down \in BOOLEAN
  BY DEF PoolIInv, PoolTypes, Down
<1>2. \A t \in Threads : thr[t] \in ThrRec /\ ThreadOK(thr[t], NotInUse, Down)
  BY <1>1 DEF PoolIInv
<1>3. \A c \in Conns : conn[c] \in ConnRec /\ pend[c] \in [Kinds -> Nat] /\ ConnOK(conn[c], pend[c], thr, tasks, Down, c)
  BY <1>1 DEF PoolIInv
<1>4. PoolTypeOK
  <2>1. ASSUME NEW c \in Conns, NEW k \in Kinds PROVE pend[c][k] \in 0 .. 3
    <3>1. Bounded(conn[c], pend[c]) /\ pend[c] \in [Kinds -> Nat]
      BY <1>3 DEF ConnOK
    <3>2. /\ pend[c]["start"] \in Nat /\ pend[c]["timer"] \in Nat /\ pend[c]["aborted"] \in Nat /\ pend[c]["read"] \in Nat
          /\ pend[c]["write"] \in Nat /\ pend[c]["proxyWrite"] \in Nat /\ pend[c]["proxyRead"] \in Nat /\ pend[c]["finish"] \in Nat
      BY <3>1 DEF Kinds
    <3>3. /\ pend[c]["start"] \in 0 .. 3 /\ pend[c]["timer"] \in 0 .. 3 /\ pend[c]["aborted"] \in 0 .. 3 /\ pend[c]["read"] \in 0 .. 3
          /\ pend[c]["write"] \in 0 .. 3 /\ pend[c]["proxyWrite"] \in 0 .. 3 /\ pend[c]["proxyRead"] \in 0 .. 3 /\ pend[c]["finish"] \in 0 .. 3
      <4>1. /\ pend[c]["start"] <= 1 /\ pend[c]["read"] <= 1 /\ pend[c]["proxyRead"] <= 1 /\ pend[c]["finish"] <= 1
        BY <3>1 DEF Bounded
      <4>2. pend[c]["timer"] + pend[c]["aborted"] <= 1
        BY <3>1 DEF Bounded
      <4>3. pend[c]["write"] + pend[c]["proxyWrite"] <= 1
        BY <3>1 DEF Bounded
      <4>4. pend[c]["timer"] \in 0 .. 3 /\ pend[c]["aborted"] \in 0 .. 3
        BY ONLY <3>2, <4>2
      <4>5. pend[c]["write"] \in 0 .. 3 /\ pend[c]["proxyWrite"] \in 0 .. 3
        BY ONLY <3>2, <4>3
      <4>6. pend[c]["start"] \in 0 .. 3 /\ pend[c]["read"] \in 0 .. 3 /\ pend[c]["proxyRead"] \in 0 .. 3 /\ pend[c]["finish"] \in 0 .. 3
        BY ONLY <3>2, <4>1
      <4> QED BY <4>4, <4>5, <4>6
    <3> QED BY <3>3 DEF Kinds
  <2>2. \A c \in Conns : /\ conn[c].ops \in Nat /\ conn[c].stopping \in {0, 1, Unused}
                         /\ conn[c].state \in {"STOPPED", "CONNECTING", "CONNECTED", "STOPPING"}
    BY <1>3 DEF ConnRec
  <2>3. \A t \in Threads : thr[t].c \in Conns \cup {NoConn} /\ thr[t].refs \in 0..3
    BY <1>2 DEF ThrRec
  <2> QED BY <1>1, <2>1, <2>2, <2>3 DEF PoolTypeOK, PoolTypes
<1>5. FinishOnce
  <2> SUFFICES ASSUME NEW c \in Conns
      PROVE  LET n == pend[c]["finish"] + Cardinality({t \in RunningOn(c) : thr[t].h = "finish" /\ thr[t].prog # <<>> /\ Head(thr[t].prog) \in {"bump", "stopped"}}) IN
             n > 0 => /\ n = 1 /\ conn[c].ops = 0 /\ conn[c].stopping = 1
                      /\ \A k \in Kinds \ {"finish"} : pend[c][k] = 0
    BY DEF FinishOnce
  <2>1. PICK F : F = {t \in RunningOn(c) : thr[t].h = "finish" /\ thr[t].prog # <<>> /\ Head(thr[t].prog) \in {"bump", "stopped"}}
    OBVIOUS
  <2>2. F = {t \in Threads : thr[t].c = c /\ Finishing(thr[t])}
    BY <2>1 DEF RunningOn, Finishing
  <2>3. OneFinish(conn[c], pend[c], thr, c) /\ Counted(conn[c], pend[c], thr, c) /\ Bounded(conn[c], pend[c]) /\ pend[c]["finish"] \in Nat
    BY <1>3 DEF ConnOK, Kinds
  <2>4. conn[c].ops = 0 => \A k \in Kinds \ {"finish"} : pend[c][k] = 0
    <3>1. conn[c].ops = 0 => \A k \in Regs : pend[c][k] = 0
      BY <1>1, <1>3, <2>3, NoReferences
    <3> QED BY <3>1 DEF Kinds, Regs
  <2>5. CASE F = {}
    <3>1. Cardinality(F) = 0
      BY <2>5, FS_EmptySet
    <3>2. pend[c]["finish"] > 0 => pend[c]["finish"] = 1 /\ conn[c].ops = 0 /\ conn[c].stopping = 1
      BY <2>3 DEF OneFinish, Bounded
    <3> QED BY <2>1, <2>3, <2>4, <3>1, <3>2
  <2>6. ASSUME NEW t \in F PROVE F = {t} /\ conn[c].ops = 0 /\ conn[c].stopping = 1 /\ pend[c]["finish"] = 0
    BY <2>2, <2>3 DEF OneFinish
  <2>7. CASE F # {}
    <3>1. PICK t \in F : TRUE
      BY <2>7
    <3>2. F = {t} /\ conn[c].ops = 0 /\ conn[c].stopping = 1 /\ pend[c]["finish"] = 0
      BY <2>6
    <3>3. Cardinality(F) = 1
      BY <3>2, FS_Singleton
    <3> QED BY <2>1, <2>4, <3>2, <3>3
  <2> QED BY <2>5, <2>7
<1>6. FreeIsQuiet
  <2> SUFFICES ASSUME NEW c \in Conns, conn[c].free
      PROVE  /\ \A k \in Kinds : pend[c][k] = 0
             /\ \A t \in RunningOn(c) : thr[t].refs = 0 /\ (thr[t].prog = <<>> \/ thr[t].h \in {"finish", "accept"})
             /\ conn[c].stopping = Unused /\ conn[c].ops = 0
    BY DEF FreeIsQuiet
  <2>1. conn[c] \in ConnRec /\ pend[c] \in [Kinds -> Nat] /\ ConnOK(conn[c], pend[c], thr, tasks, Down, c) /\ conn[c].free
    BY <1>3
  <2>2. conn[c].stopping = Unused
    BY <2>1 DEF ConnOK, UnusedOK
  <2>3. /\ conn[c].ops = 0 /\ (\A k \in Kinds : pend[c][k] = 0)
        /\ \A u \in Threads : thr[u].c = c => thr[u].refs = 0 /\ ~Starting(thr[u])
    <3>1. thr \in [Threads -> ThrRec] /\ Down \in BOOLEAN
      BY <1>1
    <3> QED BY ONLY <2>1, <2>2, <3>1, UnusedFacts
  <2>4. ASSUME NEW t \in RunningOn(c) PROVE thr[t].refs = 0 /\ (thr[t].prog = <<>> \/ thr[t].h \in {"finish", "accept"})
    <3>1. t \in Threads /\ thr[t].c = c /\ c # NoConn
      BY PoolAssumption DEF RunningOn
    <3>2. thr[t] \in ThrRec /\ ThreadOK(thr[t], NotInUse, Down) /\ thr[t].refs = 0 /\ ~Starting(thr[t])
      BY <1>2, <2>3, <3>1
    <3>3. thr[t].h \notin Regs
      BY <3>2 DEF ThreadOK, WorkerOK
    <3>4. thr[t].h # "none" /\ thr[t].h # "stopAll"
      BY <3>1, <3>2, IdleOK DEF ThreadOK, StopperOK
    <3>5. thr[t].h = "connect" => thr[t].prog = <<>>
      <4> SUFFICES ASSUME thr[t].h = "connect", thr[t].prog # <<>> PROVE FALSE
        OBVIOUS
      <4>1. RestOf(thr[t].prog, ConnectAt)
        BY <3>2 DEF ThreadOK
      <4>2. Head(thr[t].prog) \in {"incStart", "postStart", "acceptNext"} /\ (Head(thr[t].prog) = "acceptNext" => ConnectAt = AcceptAt)
        BY <4>1, StartTail
      <4>3. Head(thr[t].prog) # "acceptNext"
        BY <4>2, RestFull
      <4> QED BY <3>2, <4>2, <4>3 DEF Starting
    <3>6. thr[t].h \in Regs \cup {"none", "finish", "accept", "connect", "stopAll"}
      BY <3>2 DEF ThrRec
    <3> QED BY <3>2, <3>3, <3>4, <3>5, <3>6
  <2> QED BY <2>2, <2>3, <2>4
<1>7. IncomingExact
  BY <1>1 DEF PoolOK, Busy, IncomingExact
<1>8. OneWrite
  BY <1>3 DEF ConnOK, Bounded, OneWrite
<1>9. AcceptorNotForgotten
  <2> SUFFICES ASSUME isOpen, ~Down, newConn = NoConn, CanGet(TRUE)
      PROVE  \E t \in Threads : thr[t].prog # <<>> /\ thr[t].prog[Len(thr[t].prog)] \in {"acceptMore", "acceptNext"}
    BY DEF AcceptorNotForgotten
  <2>1. PICK t \in Threads : thr[t].h \in {"finish", "accept"} /\ thr[t].prog # <<>>
    BY <1>1 DEF AcceptOK
  <2>2. RestOf(thr[t].prog, FinishAt) \/ RestOf(thr[t].prog, AcceptAt)
    BY <1>2, <2>1 DEF ThreadOK
  <2>3. ASSUME NEW at, RestOf(thr[t].prog, at) PROVE thr[t].prog[Len(thr[t].prog)] = at[0]
    <3>1. PICK p : p = thr[t].prog
      OBVIOUS
    <3>2. p \in Seq(RestInstr) /\ p # <<>> /\ \A n \in DOMAIN p : p[n] = at[Len(p) - n]
      BY <2>1, <2>3, <3>1 DEF RestOf
    <3>3. Len(p) \in DOMAIN p /\ Len(p) - Len(p) = 0
      BY <3>2
    <3> QED BY <3>1, <3>2, <3>3
  <2>4. FinishAt[0] = "acceptMore" /\ AcceptAt[0] = "acceptNext"
    BY DEF FinishAt, AcceptAt
  <2>5. thr[t].prog[Len(thr[t].prog)] = FinishAt[0] \/ thr[t].prog[Len(thr[t].prog)] = AcceptAt[0]
    BY <2>2, <2>3
  <2> QED BY <2>1, <2>4, <2>5
<1>10. ShutdownNotStuck
  <2> SUFFICES ASSUME NEW t \in Threads, thr[t].h = "stopAll", thr[t].prog = <<>>, NEW c \in Conns,
                      conn[c].state # "STOPPED", \A k \in Kinds : ~(pend[c][k] > 0), RunningOn(c) = {}
      PROVE  FALSE
    BY DEF ShutdownNotStuck
  <2>1. c \in NotInUse
    BY <1>2 DEF ThreadOK, StopperOK
  <2>2. conn[c] \in ConnRec /\ pend[c] \in [Kinds -> Nat] /\ Counted(conn[c], pend[c], thr, c) /\ OneFinish(conn[c], pend[c], thr, c) /\ UnusedOK(conn[c], thr, c)
    BY <1>3 DEF ConnOK
  <2>3. conn[c].stopping = 1
    <3>1. conn[c].stopping \in {0, 1, Unused} /\ conn[c].stopping # 0
      BY <2>1, <2>2 DEF NotInUse, ConnRec
    <3> QED BY <2>2, <3>1 DEF UnusedOK
  <2>4. \A k \in Kinds : pend[c][k] = 0
    BY <2>2
  <2>5. \A u \in Threads : thr[u].c # c
    BY DEF RunningOn
  <2>6. PendCount(pend[c]) = 0
    BY <2>4 DEF PendCount, Kinds
  <2>7. conn[c].ops = 0
    BY <2>2, <2>5, <2>6, HeldNone DEF Counted
  <2>8. pend[c]["finish"] = 0
    BY <2>4 DEF Kinds
  <2> QED BY <2>2, <2>3, <2>5, <2>7, <2>8 DEF OneFinish
<1> QED BY <1>4, <1>5, <1>6, <1>7, <1>8, <1>9, <1>10 DEF PoolInv

\* For any number of connections, threads, uses and messages HandleStop is posted once in a use of a
\* connection and only when nothing is pending on it, free connections are quiet, the incoming ones are
\* counted exactly, a socket has one write at a time, the acceptor is told of a free connection and a
\* shutdown finds no connection that will never stop (Connection, ConnectionManager, Server).
THEOREM PoolCorrect == PoolSpec => []PoolInv
<1>1. PoolInit => PoolIInv
  BY PoolInitOK
<1>2. PoolIInv /\ [PoolNext]_poolVars => PoolIInv'
  BY PoolNextStep
<1>3. PoolIInv => PoolInv
  BY PoolIInvPoolInv
<1> QED BY <1>1, <1>2, <1>3, PTL DEF PoolSpec

\* A validation ends in HandleValidateDone only
LEMMA TasksKept ==
  ASSUME [PoolNext]_poolVars, NEW x \in tasks, x \notin tasks'
  PROVE  HandleValidateDone(x)
<1>1. ~UNCHANGED poolVars
  BY DEF poolVars
<1>2. ASSUME NEW t \in Threads, Step(t) PROVE FALSE
  <2>1. ASSUME NEW c, NEW k, Dispatch(t, c, k) PROVE FALSE
    BY <2>1 DEF Dispatch
  <2>2. ASSUME NEW c, CancelTimer(t, c) \/ Stop(t, c) \/ DecRef(t, c) \/ Done(t, c) \/ HandleStop(t, c) \/ FreeConnection(t, c) \/ StartAccept(t)
        PROVE  FALSE
    BY <2>2 DEF CancelTimer, Stop, DecRef, Done, HandleStop, FreeConnection, StartAccept
  <2>3. ASSUME NEW c, Validate(t, c) PROVE FALSE
    BY <2>3 DEF Validate
  <2>4. ASSUME NEW c, NEW i, IncRef(t, c, i) \/ Async(t, c, i) PROVE FALSE
    BY <2>4 DEF IncRef, Async
  <2>5. ASSUME StopAllConnections(t) PROVE FALSE
    BY <2>5 DEF StopAllConnections
  <2> QED BY <1>2, <2>1, <2>2, <2>3, <2>4, <2>5 DEF Step
<1>3. ASSUME NEW t \in Threads, Connect(t) \/ HandleAccept(t) PROVE FALSE
  BY <1>3 DEF Connect, HandleAccept
<1>4. ASSUME HandleAcceptError \/ StartShutdown PROVE FALSE
  BY <1>4 DEF HandleAcceptError, StartShutdown
<1>5. ASSUME NEW y \in tasks, HandleValidateDone(y) PROVE HandleValidateDone(x)
  <2>1. y = x
    BY <1>5 DEF HandleValidateDone
  <2> QED BY <1>5, <2>1
<1> QED BY <1>1, <1>2, <1>3, <1>4, <1>5 DEF PoolNext

\* For any number of connections, threads, uses and messages a validation that fails stops the
\* connection in the use it was received in, never in a later one (Connection::HandleValidateDone).
THEOREM CallbackSafe == PoolSpec => CallbackHitsOwnUse
<1> DEFINE OwnUse == \A x \in tasks \ tasks' : conn'[x.c].stopping # conn[x.c].stopping => x.use = conn[x.c].use
<1>1. PoolInit => PoolIInv
  BY PoolInitOK
<1>2. PoolIInv /\ [PoolNext]_poolVars => PoolIInv'
  BY PoolNextStep
<1>3. ASSUME PoolIInv, [PoolNext]_poolVars PROVE OwnUse
  <2> SUFFICES ASSUME NEW x \in tasks, x \notin tasks', conn'[x.c].stopping # conn[x.c].stopping PROVE x.use = conn[x.c].use
    OBVIOUS
  <2>1. HandleValidateDone(x)
    BY <1>3, TasksKept
  <2>2. x.id = conn[x.c].useCount
    BY <2>1 DEF HandleValidateDone
  <2>3. x.c \in Conns
    BY <1>3 DEF PoolIInv, PoolTypes, TaskRec
  <2>4. TasksOK(conn[x.c], thr, tasks, x.c)
    BY <1>3, <2>3 DEF PoolIInv, ConnOK
  <2> QED BY <2>2, <2>4 DEF TasksOK
<1>4. PoolIInv /\ [PoolNext]_poolVars => [OwnUse]_poolVars
  BY <1>3
<1> HIDE DEF OwnUse
<1>5. PoolSpec => [][OwnUse]_poolVars
  BY <1>1, <1>2, <1>4, PTL DEF PoolSpec
<1> QED BY <1>5 DEF CallbackHitsOwnUse, OwnUse
=============================================================================
