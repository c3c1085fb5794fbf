------------------------------- MODULE Relay -------------------------------
(***************************************************************************)
(* The relay of blocks and transactions between nodes                      *)
(* (ccnode/src/relay.cpp, dbconn-relay.cpp, and the announcements of       *)
(* dbconn-validobjs.cpp): one node that downloads, and its peers, which    *)
(* run the same code in the serving role.  A peer announces the objects it *)
(* holds; the node records them in the tables Relay_Objs and Relay_Peers,  *)
(* asks for some of them, and matches what arrives with what it asked for. *)
(*                                                                         *)
(* Messages of a connection arrive in order (TCP); a connection may be     *)
(* lost at any time.  Sizes and times are choices: how many objects fit in *)
(* a request, when the retry timeout of an object and the timeout of a     *)
(* connection have passed.                                                 *)
(***************************************************************************)
EXTENDS Naturals, Sequences, FiniteSets, SequencesExt

CONSTANTS Peers, Blocks, Txs,
          Own,          \* what this node may make itself, or be given by a client
          Early,        \* the transactions whose parameter level is not indelible at first
          SendMax,      \* CC_TX_SEND_MAX
          HighWater,    \* RELAY_DOWNLOAD_HIGH_WATER
          LowWater,     \* RELAY_DOWNLOAD_LOW_WATER
          Witness,      \* IsWitness(): blocks are not held back for their timeout
          AnnounceOld,  \* a new connection is told of the transactions already there
          MaxLosses     \* bound: connections lost, and objects expired here or at a peer

Objs == Blocks \cup Txs

ASSUME RelayAssumption ==
  /\ Blocks \cap Txs = {} /\ Early \subseteq Txs /\ Own \subseteq Blocks \cup Txs
  /\ SendMax \in Nat /\ HighWater \in Nat /\ LowWater \in Nat /\ HighWater + LowWater < SendMax

VARIABLES objs,     \* Relay_Objs: ObjId -> Seqnum, Status and whether its Timeout runs
          rows,     \* Relay_Peers: the row of an object: Peer and PeerStatus
          nextSeq,  \* the next relay sequence number
          early,    \* the transactions whose level is still above the last indelible level
          link,     \* link[p]: the connection to peer p, at this node
          toPeer,   \* toPeer[p]: requests on their way
          fromPeer, \* fromPeer[p]: messages on their way to the node
          has,      \* has[p]: the valid objects of peer p
          told,     \* told[p]: the objects the announcement cursors of p have passed
          sendQ,    \* sendQ[p]: the send_queue of p
          got,      \* objects recorded as downloaded since they were last forgotten
          refused,  \* a peer that follows the protocol was cut off for breaking it
          drops, expires

relayVars == <<objs, rows, nextSeq, early, link, toPeer, fromPeer, has, told, sendQ, got, refused, drops, expires>>

Without(f, o) == [x \in DOMAIN f \ {o} |-> f[x]]
With(f, o, v) == [x \in DOMAIN f \cup {o} |-> IF x = o THEN v ELSE f[x]]

\* RelayConnection::StartConnection at this node.
NewLink == [up |-> TRUE, reqQ |-> <<>>, pending |-> 0, owed |-> 0, bufInUse |-> FALSE]

RelayInit ==
  /\ objs = <<>> /\ rows = <<>> /\ nextSeq = 1 /\ early = Early
  /\ link = [p \in Peers |-> NewLink]
  /\ toPeer = [p \in Peers |-> <<>>] /\ fromPeer = [p \in Peers |-> <<>>]
  /\ has \in [Peers -> SUBSET Objs]
  /\ told = [p \in Peers |-> IF AnnounceOld THEN {} ELSE has[p] \cap Txs]
  /\ sendQ = [p \in Peers |-> <<>>]
  /\ got = {} /\ refused = FALSE /\ drops = 0 /\ expires = 0

\* Blocks have the smaller sequence numbers (seqnum.cpp:31).
Before(o, x) == \/ o \in Blocks /\ x \in Txs
                \/ (o \in Blocks <=> x \in Blocks) /\ objs[o].seq < objs[x].seq

(***************************************************************************)
(* The tables.                                                             *)
(***************************************************************************)
\* RelayObjsInsert of an announcement: a downloaded object is ignored; a new one gets a
\* sequence number; Seqnum is the primary key of Relay_Peers, so that the insert of a
\* second peer fails and the transaction is rolled back.
RelayObjsInsert(p, o) ==
  IF (o \in DOMAIN objs /\ objs[o].status = "DOWNLOADED") \/ o \in DOMAIN rows
  THEN UNCHANGED <<objs, rows, nextSeq>>
  ELSE /\ IF o \in DOMAIN objs THEN UNCHANGED <<objs, nextSeq>>
          ELSE /\ objs' = With(objs, o, [seq |-> nextSeq, status |-> "ANNOUNCED", waiting |-> FALSE])
               /\ nextSeq' = nextSeq + 1
       /\ rows' = With(rows, o, [peer |-> p, status |-> "READY"])

\* RelayObjsInsert with peer 0: an object of our own making is recorded as downloaded,
\* unless it is there already.
InsertOwn(o) ==
  /\ o \notin DOMAIN objs
  /\ objs' = With(objs, o, [seq |-> nextSeq, status |-> "DOWNLOADED", waiting |-> FALSE])
  /\ nextSeq' = nextSeq + 1
  /\ UNCHANGED <<rows, early, link, toPeer, fromPeer, has, told, sendQ, got, refused, drops, expires>>

\* What Relay_Objs_select_download finds for a peer.
Downloads(p) ==
  {o \in DOMAIN rows : /\ rows[o] = [peer |-> p, status |-> "READY"]
                       /\ objs[o].status = "ANNOUNCED" /\ ~objs[o].waiting
                       /\ o \notin early}

\* The first n of them by Seqnum, blocks and transactions not mixed.
Chosen(p, n) ==
  LET D == IF Downloads(p) \cap Blocks # {} THEN Downloads(p) \cap Blocks ELSE Downloads(p)
      rank(o) == Cardinality({x \in D : Before(x, o)}) + 1
      m == IF Cardinality(D) < n THEN Cardinality(D) ELSE n
  IN [i \in 1..m |-> CHOOSE o \in D : rank(o) = i]

\* A mutation of RelayObjsSetStatus: the status is left as it was.
BuggyRelayObjsSetStatus(o) == UNCHANGED objs /\ rows' = IF o \in Txs THEN Without(rows, o) ELSE rows

\* RelayObjsSetStatus(DOWNLOADED): the peers' row of a transaction is deleted, that of a
\* block stays.
RelayObjsSetStatus(o) ==
  /\ objs' = IF o \in DOMAIN objs THEN With(objs, o, [objs[o] EXCEPT !.status = "DOWNLOADED", !.waiting = FALSE]) ELSE objs
  /\ rows' = IF o \in Txs THEN Without(rows, o) ELSE rows

\* A mutation of RelayObjsDeletePeer: only what was not asked for yet is deleted.
BuggyRelayObjsDeletePeer(p) == rows' = [o \in {x \in DOMAIN rows : rows[x] # [peer |-> p, status |-> "READY"]} |-> rows[o]]

\* RelayObjsDeletePeer.
RelayObjsDeletePeer(p) == rows' = [o \in {x \in DOMAIN rows : rows[x].peer # p} |-> rows[o]]

\* RelayObjsDeleteSeqnum, when the object has aged: the node forgets it.
RelayObjsDeleteSeqnum(o) ==
  /\ o \in DOMAIN objs /\ drops + expires < MaxLosses
  /\ objs' = Without(objs, o) /\ rows' = Without(rows, o)
  /\ got' = got \ {o} /\ expires' = expires + 1
  /\ UNCHANGED <<nextSeq, early, link, toPeer, fromPeer, has, told, sendQ, refused, drops>>

(***************************************************************************)
(* A peer: announcing and serving.                                         *)
(***************************************************************************)
\* HandleHeartbeat and ValidObjsFindNew: blocks that are new to this connection, else
\* transactions.
Announce(p) ==
  LET new == has[p] \ told[p]
      msg == IF new \cap Blocks # {} THEN new \cap Blocks ELSE new
  IN /\ link[p].up /\ new # {}
     /\ told' = [told EXCEPT ![p] = @ \cup msg]
     /\ fromPeer' = [fromPeer EXCEPT ![p] = Append(@, [k |-> "have", o |-> SetToSeq(msg)])]
     /\ UNCHANGED <<objs, rows, nextSeq, early, link, toPeer, has, sendQ, got, refused, drops, expires>>

\* CC_CMD_SEND_BLOCK and CC_CMD_SEND_TX: the objects asked for are queued, or the request
\* is answered with CC_RESULT_BUFFER_FULL.
HandleSend(p) ==
  /\ link[p].up /\ toPeer[p] # <<>>
  /\ toPeer' = [toPeer EXCEPT ![p] = Tail(@)]
  /\ IF Len(sendQ[p]) + Len(Head(toPeer[p])) > SendMax
     THEN /\ fromPeer' = [fromPeer EXCEPT ![p] = Append(@, [k |-> "full", o |-> <<>>])]
          /\ UNCHANGED sendQ
     ELSE /\ sendQ' = [sendQ EXCEPT ![p] = @ \o Head(toPeer[p])]
          /\ UNCHANGED fromPeer
  /\ UNCHANGED <<objs, rows, nextSeq, early, link, has, told, got, refused, drops, expires>>

\* A mutation of CheckToSend: two threads send the same object.
BuggyCheckToSend(p) ==
  /\ link[p].up /\ sendQ[p] # <<>>
  /\ sendQ' = [sendQ EXCEPT ![p] = Tail(@)]
  /\ fromPeer' = [fromPeer EXCEPT ![p] = @ \o IF Head(sendQ[p]) \in has[p]
                                              THEN [i \in 1..2 |-> [k |-> "obj", o |-> <<Head(sendQ[p])>>]]
                                              ELSE <<[k |-> "none", o |-> <<>>]>>]
  /\ UNCHANGED <<objs, rows, nextSeq, early, link, toPeer, has, told, got, refused, drops, expires>>

\* CheckToSend, one object: it is written, or CC_NO_OBJ when it is no longer valid.
CheckToSend(p) ==
  /\ link[p].up /\ sendQ[p] # <<>>
  /\ sendQ' = [sendQ EXCEPT ![p] = Tail(@)]
  /\ fromPeer' = [fromPeer EXCEPT ![p] = Append(@, IF Head(sendQ[p]) \in has[p]
                                                   THEN [k |-> "obj", o |-> <<Head(sendQ[p])>>]
                                                   ELSE [k |-> "none", o |-> <<>>])]
  /\ UNCHANGED <<objs, rows, nextSeq, early, link, toPeer, has, told, got, refused, drops, expires>>

\* ValidObjsExpire at the peer.
ExpireAtPeer(p, o) ==
  /\ o \in has[p] /\ drops + expires < MaxLosses
  /\ has' = [has EXCEPT ![p] = @ \ {o}] /\ expires' = expires + 1
  /\ UNCHANGED <<objs, rows, nextSeq, early, link, toPeer, fromPeer, told, sendQ, got, refused, drops>>

(***************************************************************************)
(* The node: receiving and asking.                                         *)
(***************************************************************************)
Got(p, k) == link[p].up /\ link[p].owed = 0 /\ fromPeer[p] # <<>> /\ Head(fromPeer[p]).k = k

\* CC_MSG_HAVE_BLOCK and CC_MSG_HAVE_TX, one object of the message: a transaction is
\* ignored when memory is short.
HandleHave(p) ==
  LET m == Head(fromPeer[p]).o IN
  /\ Got(p, "have")
  /\ fromPeer' = [fromPeer EXCEPT ![p] = IF Len(m) = 1 THEN Tail(@) ELSE <<[k |-> "have", o |-> Tail(m)]>> \o Tail(@)]
  /\ \/ RelayObjsInsert(p, Head(m))
     \/ Head(m) \in Txs /\ UNCHANGED <<objs, rows, nextSeq>>
  /\ UNCHANGED <<early, link, toPeer, has, told, sendQ, got, refused, drops, expires>>

\* A mutation of CheckForDownload: what is pending is not counted.
BuggyCheckForDownload(p) ==
  /\ link[p].up /\ ~link[p].bufInUse /\ link[p].pending <= LowWater
  /\ Downloads(p) # {}
  /\ \E n \in 1..(SendMax - HighWater) :
       LET ask == Chosen(p, n) IN
       /\ rows' = [o \in DOMAIN rows |-> IF \E i \in DOMAIN ask : ask[i] = o THEN [rows[o] EXCEPT !.status = "STARTED"] ELSE rows[o]]
       /\ objs' = objs
       /\ link' = [link EXCEPT ![p].reqQ = @ \o ask, ![p].pending = @ + Len(ask), ![p].bufInUse = TRUE]
       /\ toPeer' = [toPeer EXCEPT ![p] = Append(@, ask)]
  /\ UNCHANGED <<nextSeq, early, fromPeer, has, told, sendQ, got, refused, drops, expires>>

\* A mutation of CheckForDownload: what is asked for is not added to what is pending.
BuggyCheckUncounted(p) ==
  /\ link[p].up /\ ~link[p].bufInUse /\ link[p].pending <= LowWater
  /\ Downloads(p) # {}
  /\ LET ask == Chosen(p, 1) IN
     /\ rows' = [rows EXCEPT ![ask[1]].status = "STARTED"]
     /\ link' = [link EXCEPT ![p].reqQ = @ \o ask, ![p].bufInUse = TRUE]
     /\ toPeer' = [toPeer EXCEPT ![p] = Append(@, ask)]
  /\ UNCHANGED <<objs, nextSeq, early, fromPeer, has, told, sendQ, got, refused, drops, expires>>

\* CheckForDownload, by the reader and by the heartbeat, one at a time
\* (request_msg_buf_in_use): RelayObjsFindDownloads marks the row of each object, and
\* starts its timeout so that another peer is not asked meanwhile; the requests are
\* remembered in order before they are written.
CheckForDownload(p) ==
  /\ link[p].up /\ ~link[p].bufInUse /\ link[p].pending <= LowWater
  /\ Downloads(p) # {}
  /\ \E n \in 1..(SendMax - HighWater - link[p].pending) :
       LET ask == Chosen(p, n)
           asked == {ask[i] : i \in DOMAIN ask} IN
       /\ rows' = [o \in DOMAIN rows |-> IF o \in asked THEN [rows[o] EXCEPT !.status = "STARTED"] ELSE rows[o]]
       /\ objs' = [o \in DOMAIN objs |-> IF o \in asked /\ (~Witness \/ o \in Txs) THEN [objs[o] EXCEPT !.waiting = TRUE] ELSE objs[o]]
       /\ link' = [link EXCEPT ![p].reqQ = @ \o ask, ![p].pending = @ + Len(ask), ![p].bufInUse = TRUE]
       /\ toPeer' = [toPeer EXCEPT ![p] = Append(@, ask)]
  /\ UNCHANGED <<nextSeq, early, fromPeer, has, told, sendQ, got, refused, drops, expires>>

\* HandleSendMsgWrite.
HandleSendMsgWrite(p) ==
  /\ link[p].up /\ link[p].bufInUse
  /\ link' = [link EXCEPT ![p].bufInUse = FALSE]
  /\ UNCHANGED <<objs, rows, nextSeq, early, toPeer, fromPeer, has, told, sendQ, got, refused, drops, expires>>

\* Stop and FinishConnection: the rows of the peer go.
Cut(p) ==
  /\ link' = [link EXCEPT ![p] = [NewLink EXCEPT !.up = FALSE]]
  /\ toPeer' = [toPeer EXCEPT ![p] = <<>>] /\ fromPeer' = [fromPeer EXCEPT ![p] = <<>>]
  /\ sendQ' = [sendQ EXCEPT ![p] = <<>>]
  /\ RelayObjsDeletePeer(p)

\* The object is one that was asked for: the requests before it count as not sent.
Position(p, o) == {i \in DOMAIN link[p].reqQ : link[p].reqQ[i] = o}

\* An object arrives: requests are popped until one matches (none left: Stop); it is
\* recorded as downloaded and queued for validation.  request_objs_pending is lowered
\* outside the lock of the queue.
HandleObject(p) ==
  LET o == Head(fromPeer[p]).o[1] IN
  /\ Got(p, "obj")
  /\ IF Position(p, o) = {}
     THEN refused' = TRUE /\ Cut(p) /\ drops' = drops + 1 /\ UNCHANGED <<objs, got>>
     ELSE LET k == Min(Position(p, o)) IN
          /\ link' = [link EXCEPT ![p].reqQ = SubSeq(@, k + 1, Len(@)), ![p].owed = k]
          /\ fromPeer' = [fromPeer EXCEPT ![p] = Tail(@)]
          /\ RelayObjsSetStatus(o)
          /\ got' = got \cup ({o} \cap DOMAIN objs)
          /\ UNCHANGED <<toPeer, sendQ, refused, drops>>
  /\ UNCHANGED <<nextSeq, early, has, told, expires>>

\* A mutation of HandleNoObj: request_objs_pending is not lowered.
BuggyHandleNoObj(p) ==
  /\ Got(p, "none") /\ link[p].reqQ # <<>>
  /\ link' = [link EXCEPT ![p].reqQ = Tail(@)]
  /\ fromPeer' = [fromPeer EXCEPT ![p] = Tail(@)]
  /\ UNCHANGED <<objs, rows, nextSeq, early, toPeer, has, told, sendQ, got, refused, drops, expires>>

\* CC_NO_OBJ takes one request off the queue (none left: Stop).
HandleNoObj(p) ==
  /\ Got(p, "none")
  /\ IF link[p].reqQ = <<>>
     THEN refused' = TRUE /\ Cut(p) /\ drops' = drops + 1
     ELSE /\ link' = [link EXCEPT ![p].reqQ = Tail(@), ![p].owed = 1]
          /\ fromPeer' = [fromPeer EXCEPT ![p] = Tail(@)]
          /\ UNCHANGED <<rows, toPeer, sendQ, refused, drops>>
  /\ UNCHANGED <<objs, nextSeq, early, has, told, got, expires>>

\* request_objs_pending is lowered by what was popped.
CountDown(p) ==
  /\ link[p].owed > 0
  /\ link' = [link EXCEPT ![p].pending = @ - link[p].owed, ![p].owed = 0]
  /\ UNCHANGED <<objs, rows, nextSeq, early, toPeer, fromPeer, has, told, sendQ, got, refused, drops, expires>>

\* CC_RESULT_BUFFER_FULL and unknown messages are ignored.
HandleOther(p) ==
  /\ Got(p, "full")
  /\ fromPeer' = [fromPeer EXCEPT ![p] = Tail(@)]
  /\ UNCHANGED <<objs, rows, nextSeq, early, link, toPeer, has, told, sendQ, got, refused, drops, expires>>

\* The connection is lost, or HandleHeartbeat stops it because what was asked for does
\* not come.
RelayDrop(p) ==
  /\ link[p].up /\ drops + expires < MaxLosses
  /\ Cut(p) /\ drops' = drops + 1
  /\ UNCHANGED <<objs, nextSeq, early, has, told, got, refused, expires>>

\* A new connection: all blocks are announced again, and the transactions if AnnounceOld.
StartRelay(p) ==
  /\ ~link[p].up
  /\ link' = [link EXCEPT ![p] = NewLink]
  /\ told' = [told EXCEPT ![p] = IF AnnounceOld THEN {} ELSE has[p] \cap Txs]
  /\ UNCHANGED <<objs, rows, nextSeq, early, toPeer, fromPeer, has, sendQ, got, refused, drops, expires>>

\* Time: the retry timeout of an object passes; the level of a transaction is reached.
PassTimeout(o) ==
  /\ o \in DOMAIN objs /\ objs[o].waiting
  /\ objs' = [objs EXCEPT ![o].waiting = FALSE]
  /\ UNCHANGED <<rows, nextSeq, early, link, toPeer, fromPeer, has, told, sendQ, got, refused, drops, expires>>

ReachLevel ==
  /\ early # {} /\ early' = {}
  /\ UNCHANGED <<objs, rows, nextSeq, link, toPeer, fromPeer, has, told, sendQ, got, refused, drops, expires>>

Serve(p) == HandleSend(p) \/ CheckToSend(p)
Receive(p) == HandleHave(p) \/ HandleObject(p) \/ HandleNoObj(p) \/ CountDown(p) \/ HandleOther(p)

RelayNext ==
  \/ \E p \in Peers : \/ Announce(p) \/ Serve(p) \/ Receive(p) \/ CheckForDownload(p) \/ HandleSendMsgWrite(p)
                      \/ RelayDrop(p) \/ StartRelay(p) \/ \E o \in Objs : ExpireAtPeer(p, o)
  \/ (\E o \in Own : InsertOwn(o)) \/ \E o \in Objs : RelayObjsDeleteSeqnum(o) \/ PassTimeout(o)
  \/ ReachLevel

(***************************************************************************)
(* Properties.                                                             *)
(***************************************************************************)
\* Every variable has its type.
RelayTypeOK ==
  /\ \A o \in DOMAIN objs : objs[o].status \in {"ANNOUNCED", "DOWNLOADED"} /\ objs[o].waiting \in BOOLEAN
  /\ \A o \in DOMAIN rows : rows[o].peer \in Peers /\ rows[o].status \in {"READY", "STARTED"}
  /\ \A p \in Peers : link[p].pending \in Nat /\ link[p].owed \in Nat /\ has[p] \subseteq Objs

\* Flow control: the queue of requests never overflows (relay.cpp:1010 stops the
\* connection), and neither does the queue of the peer that serves them, so that
\* CC_RESULT_BUFFER_FULL, which the requester would ignore, is never sent.
RequestsFit ==
  \A p \in Peers : Len(link[p].reqQ) <= SendMax /\ (\A i \in DOMAIN fromPeer[p] : fromPeer[p][i].k # "full")

\* request_objs_pending is the number of requests that were not answered: what is on its
\* way, queued at the peer, or coming back.
RelayPendingExact ==
  \A p \in Peers : link[p].up =>
    /\ link[p].pending = Len(link[p].reqQ) + link[p].owed
    /\ Len(link[p].reqQ) = MapThenSumSet(LAMBDA i : Len(toPeer[p][i]), DOMAIN toPeer[p])
                           + Len(sendQ[p]) + Cardinality({i \in DOMAIN fromPeer[p] : fromPeer[p][i].k \in {"obj", "none"}})

\* A peer that runs this protocol is never cut off as one that breaks it: each object that
\* arrives answers a request, though objects expire and requests queue up.
NoProtocolStop == ~refused

\* A row of Relay_Peers is of an object in Relay_Objs, and of a peer that is connected: no
\* request waits for a peer that is gone.
RowsAreLive == \A o \in DOMAIN rows : o \in DOMAIN objs /\ link[rows[o].peer].up

\* What was downloaded is not asked for again, from this peer or another, until the node
\* has forgotten it.
NoRefetch ==
  [][\A p \in Peers : Len(link'[p].reqQ) > Len(link[p].reqQ) =>
       \A i \in Len(link[p].reqQ) + 1 .. Len(link'[p].reqQ) : link'[p].reqQ[i] \notin got]_relayVars

\* The relay's counts of requested objects are exact and within the peer's limit, no peer has
\* reason to close the connection, objects are kept only while a peer can send them, and
\* nothing is requested that has arrived (RelayConnection, DbConnRelayObjs).
RelayCorrect == [](RelayTypeOK /\ RequestsFit /\ RelayPendingExact /\ NoProtocolStop /\ RowsAreLive) /\ NoRefetch
=============================================================================
