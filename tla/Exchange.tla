----------------------------- MODULE Exchange -----------------------------
(* The exchange of one node: the block thread that enters blocks into the database, the matching thread *)
(* that works on the table in memory between them (ProcessXreqs), the threads that add pending requests, *)
(* the end of the process at any moment and its restart.                                                 *)
EXTENDS ExchangeBlock

CONSTANTS Chains,    \* the chains a node may start from
          MaxLevel,    \* bound: blocks
          BlockGaps,   \* bound: the times between two blocks
          Pendings,    \* the requests that also arrive as pending ones
          MaxStops     \* bound: ends of the process

VARIABLES db,       \* the committed database
          tbl,      \* the Xreqs table
          seq,      \* g_seqnum[XREQSEQ][VALIDSEQ]
          mem,      \* ExchangeMining::saved
          dirty,    \* saved_data_update_counter # copy_data_update_counter
          saved,    \* m_saved
          state,    \* m_matching_state: "START", "IDLE", or "RUN" while the matching thread is in MatchReqs
          rnd,      \* the locals of MatchReqs
          passnum,  \* its static passnum
          mt, ep,   \* m_matching_block_time, m_last_matching_epoch
          mmax,     \* m_matching_max_xreqnum
          blk,      \* the block thread
          half,     \* the second insert of an AddPendingRequest that is under way
          stop,     \* g_shutdown
          stops

xvars == <<db, tbl, seq, mem, dirty, saved, state, rnd, passnum, mt, ep, mmax, blk, half, stop, stops>>

NoRnd == [pass |-> 0, idx |-> 0, first |-> TRUE, any |-> FALSE]
NoBlk == [pc |-> "idle"]

(* The working state of the block thread; only the block thread writes what it holds beside the table.   *)
W(d) == [db |-> d, t |-> tbl, seq |-> seq, dirty |-> dirty, saved |-> saved]
SetW(w) == tbl' = w.t /\ seq' = w.seq /\ dirty' = w.dirty /\ saved' = w.saved

---------------------------------------------------------------------------
(* AddPendingRequest: a mining trade is added with two inserts, each under the table's own lock.         *)
PendingRow(id, buy, link) == NewRow(id, buy, 0, link, 0, Order[id].max)

AddPending(id) ==
    /\ ~stop /\ half = {}
    /\ SameObj(tbl, id, Order[id].kind # "sell") = {}
    /\ LET trade == Order[id].kind = "trade"
           q     == InsertSeq(tbl, id, Order[id].kind # "sell", seq)
       IN  /\ tbl' = XreqsInsert(tbl, q, PendingRow(id, Order[id].kind # "sell", IF trade THEN seq + 1 ELSE 0))
           /\ half' = IF trade THEN {[id |-> id, q |-> seq + 1, link |-> q]} ELSE {}
           /\ seq' = seq + 2
    /\ UNCHANGED <<db, mem, dirty, saved, state, rnd, passnum, mt, ep, mmax, blk, stop, stops>>

AddPendingSell ==
    /\ \E h \in half : tbl' = XreqsInsert(tbl, h.q, PendingRow(h.id, FALSE, h.link))
    /\ half' = {}
    /\ UNCHANGED <<db, seq, mem, dirty, saved, state, rnd, passnum, mt, ep, mmax, blk, stop, stops>>

---------------------------------------------------------------------------
(* The matching thread: WaitForCondition(START), MatchReqs pass by pass, SetCondition(IDLE).             *)
MatchOnePass ==
    /\ ~stop
    /\ state = "START" \/ (state = "RUN" /\ rnd.any)
    /\ LET from == IF state = "START" THEN [pass |-> passnum, idx |-> 1, first |-> TRUE] ELSE rnd
       IN  \E r \in {MatchPass([t |-> tbl, pass |-> from.pass, idx |-> from.idx, first |-> from.first, any |-> TRUE], mt, mmax)} :
           /\ tbl' = r.t
           /\ rnd' = [pass |-> r.pass, idx |-> r.idx, first |-> FALSE, any |-> r.any]
           /\ passnum' = r.pass
    /\ state' = "RUN"
    /\ UNCHANGED <<db, seq, mem, dirty, saved, mt, ep, mmax, blk, half, stop, stops>>

MatchDone ==
    /\ state = "RUN" /\ (~rnd.any \/ stop)
    /\ tbl' = IF stop THEN tbl ELSE MatchEnd([t |-> tbl, idx |-> rnd.idx], mt, mmax)
    /\ state' = "IDLE" /\ rnd' = NoRnd
    /\ UNCHANGED <<db, seq, mem, dirty, saved, passnum, mt, ep, mmax, blk, half, stop, stops>>

---------------------------------------------------------------------------
(* The block thread.  A block is a valid one of the chain: its transactions passed validation against    *)
(* the database of the block before.                                                                     *)
BeginBlock ==
    /\ blk.pc = "idle" /\ ~stop /\ db.level < MaxLevel
    /\ \E tx \in Txs(db), dt \in BlockGaps : LET time == db.time + dt IN
          \E w \in {IndexTx(W([db EXCEPT !.mining = mem]), tx, time)} :
              /\ SetW(w)
              /\ blk' = [pc |-> IF EpochOf(time) = ep THEN "finish" ELSE "sync", db |-> w.db, time |-> time, new |-> db.next, tx |-> tx]
    /\ UNCHANGED <<db, mem, state, rnd, passnum, mt, ep, mmax, half, stop, stops>>

(* SynchronizeMatching returns at once within an epoch (BeginBlock has done it then); at the first block  *)
(* of an epoch it waits for the matching thread, and starts it again.                                    *)
SyncEpoch ==
    /\ blk.pc = "sync" /\ ~stop /\ state = "IDLE"
    /\ \E w \in {SynchronizeMatching(W(blk.db), mt, EpochTime(blk.time), blk.new)} :
          /\ SetW(w)
          /\ mmax' = w.db.max
          /\ blk' = [blk EXCEPT !.pc = "finish", !.db = w.db]
    /\ ep' = EpochOf(blk.time) /\ mt' = EpochTime(blk.time) /\ state' = "START"
    /\ UNCHANGED <<db, mem, rnd, passnum, half, stop, stops>>

(* SaveNextNums .. PruneMatchingReqs, and the test of g_shutdown before anything is committed.           *)
FinishWork ==
    /\ blk.pc = "finish" /\ ~stop
    /\ \E w \in {FinishBlock(W(blk.db), blk.time)} :
          SetW(w) /\ blk' = [blk EXCEPT !.pc = "save", !.db = [w.db EXCEPT !.tx = blk.tx]]
    /\ UNCHANGED <<db, mem, state, rnd, passnum, mt, ep, mmax, half, stop, stops>>

(* SaveMining, then EndWrite, which commits nothing under g_shutdown.                                    *)
Commit ==
    /\ blk.pc = "save" /\ ~stop
    /\ db' = [blk.db EXCEPT !.mining = IF dirty THEN blk.db.mining ELSE db.mining]
    /\ dirty' = FALSE
    /\ mem' = blk.db.mining /\ blk' = NoBlk
    /\ UNCHANGED <<tbl, seq, saved, state, rnd, passnum, mt, ep, mmax, half, stop, stops>>

---------------------------------------------------------------------------
(* g_shutdown, the end of the process (also without it: a crash), and the start of the next one.         *)
Shutdown ==
    /\ ~stop /\ stops < MaxStops
    /\ stop' = TRUE
    /\ UNCHANGED <<db, tbl, seq, mem, dirty, saved, state, rnd, passnum, mt, ep, mmax, blk, half, stops>>

(* The time of the block that added request n: the first row of next numbers beyond n.                   *)
GetXreqBlockTime(nums, n) == LET over == {r \in nums : r.next > n} IN (CHOOSE r \in over : \A x \in over : r.level <= x.level).time

(* Exchange::Init: the next numbers are those of the last row written.                                   *)
LastNums(nums) == IF nums = {} THEN [next |-> 1, nextm |-> 1] ELSE CHOOSE r \in nums : \A x \in nums : x.level <= r.level

(* Exchange::Restore: the open requests by xreqnum, with new sequence numbers; both parts of a mining    *)
(* trade are linked when they have sequential xreqnums.                                                  *)
Restore(d) ==
    LET s    == Sorted(OpenReqs(d), <)
        Trade(i) == Order[d.reqs[s[i]].id].kind = "trade"
        Link(i)  == IF ~Trade(i) THEN 0
                    ELSE IF d.reqs[s[i]].buy THEN i + 1
                    ELSE IF i > 1 /\ s[i - 1] = s[i] - 1 THEN i - 1 ELSE 0
    IN  [i \in DOMAIN s |-> RestoreRow(d, s[i], i, Link(i), GetXreqBlockTime(d.nums, s[i]))]

(* A process that starts: what is in memory comes from the database d.                                   *)
Starting(d) ==
    [tbl |-> Restore(d), seq |-> Cardinality(OpenReqs(d)) + 1, mem |-> d.mining, mt |-> EpochTime(d.time),
     ep |-> EpochOf(d.time), mmax |-> d.max]

XInit ==
    /\ db \in {Replay(p) : p \in Chains}
    /\ tbl = Starting(db).tbl /\ seq = Starting(db).seq /\ mem = Starting(db).mem
    /\ mt = Starting(db).mt /\ ep = Starting(db).ep /\ mmax = Starting(db).mmax
    /\ dirty = TRUE /\ saved = FALSE /\ state = "START" /\ rnd = NoRnd /\ passnum = 1
    /\ blk = NoBlk /\ half = {} /\ stop = FALSE /\ stops = 0

Restart ==
    /\ stops < MaxStops /\ stops' = stops + 1
    /\ stop' = FALSE /\ blk' = NoBlk /\ half' = {} /\ rnd' = NoRnd /\ passnum' = 1
    /\ db' = [db EXCEPT !.next = LastNums(db.nums).next, !.nextm = LastNums(db.nums).nextm]
    /\ tbl' = Starting(db).tbl /\ seq' = Starting(db).seq /\ mem' = Starting(db).mem
    /\ mt' = Starting(db).mt /\ ep' = Starting(db).ep /\ mmax' = Starting(db).mmax
    /\ dirty' = TRUE /\ saved' = FALSE /\ state' = "START"
---------------------------------------------------------------------------
MatchStep == MatchOnePass \/ MatchDone
BlockStep == SyncEpoch \/ FinishWork \/ Commit

XNext == \/ \E id \in Pendings : AddPending(id)
         \/ AddPendingSell \/ MatchStep \/ BeginBlock \/ BlockStep \/ Shutdown \/ Restart

XSpec == XInit /\ [][XNext]_xvars
---------------------------------------------------------------------------
(* Type correctness of the exchange's variables.                                                         *)
XTypeOK ==
    /\ db.level \in 0..MaxLevel /\ db.max < db.next
    /\ \A q \in DOMAIN tbl : q < seq /\ tbl[q].open > 0 /\ tbl[q].num \in 0..Len(IF blk.pc = "idle" THEN db.reqs ELSE blk.db.reqs)
    /\ state \in {"START", "RUN", "IDLE"} /\ blk.pc \in {"idle", "sync", "finish", "save"}
    /\ Cardinality(half) <= 1 /\ stop \in BOOLEAN /\ stops \in 0..MaxStops

(* A node that matches incrementally, keeps its requests in memory and may stop at any time ends up with *)
(* the ledger that is a function of the blocks alone (process-xreq.cpp: "Recalc is an optimization").    *)
L == INSTANCE ExchangeLedger WITH ledger <- Agreed(db)
Implements == L!Ledger

Unsettled(d) == {m \in DOMAIN d.matches : d.matches[m].deadline > 0}
SumOver(S, Val(_)) == FoldSet(LAMBDA x, a : Val(x) + a, 0, S)
Deposit(d, n)  == IF d.reqs[n].buy THEN Pledge(d.reqs[n].id, Order[d.reqs[n].id].max) ELSE Order[d.reqs[n].id].max
StillOpen(d, n) == IF IsClosed(d.reqs[n].disp) THEN 0
                   ELSE IF d.reqs[n].buy THEN Pledge(d.reqs[n].id, d.reqs[n].open) ELSE d.reqs[n].open
Escrow(d, m)   == d.matches[m].amt + Pledge(d.matches[m].buy, d.matches[m].amt)

(* What was paid out, what is held for open requests and unsettled matches and what was donated is never *)
(* more than what was put in and mined (SettleMatch, ExpireXreq and MakeMatchesPersistent).              *)
NoMoneyCreated ==
    SumOver(Ids, LAMBDA id : db.out[id]) + db.don + SumOver(DOMAIN db.reqs, LAMBDA n : StillOpen(db, n))
        + SumOver(Unsettled(db), LAMBDA m : Escrow(db, m))
      <= SumOver(DOMAIN db.reqs, LAMBDA n : Deposit(db, n)) + db.mining.mined

(* A foreign address is never awaited by two requests: a payment to it belongs to one match at most      *)
(* (ValidateXreq with XcxUniqueForeignAddressSelect, and XmatchingreqPrune).                             *)
Awaited(d) == {n \in DOMAIN d.reqs : ~d.reqs[n].buy /\ (~IsClosed(d.reqs[n].disp) \/ \E m \in Unsettled(d) : d.matches[m].snum = n)}
AddressHeldByOne == \A n, k \in Awaited(db) : n # k => Order[db.reqs[n].id].addr # Order[db.reqs[k].id].addr

(* A match never costs a party more than its net rate allows at the matched amount, is never made before *)
(* both hold times are over, nor once a request has expired, nor beyond what was open (CheckMatch).      *)
MatchRespectsBoth ==
    /\ \A m \in DOMAIN db.matches :
        LET k == db.matches[m]
            Fine(id, n) == Order[id].min <= Order[id].max /\ db.reqs[n].time + HoldTime <= k.time /\ k.time < Order[id].expire
        IN  /\ k.amt > 0 /\ Fine(k.buy, k.bnum) /\ Fine(k.sell, k.snum)
            /\ k.rate * k.amt + Order[k.buy].cost <= Order[k.buy].rate * k.amt
            /\ k.rate * k.amt - Order[k.sell].cost >= Order[k.sell].rate * k.amt
    /\ \A n \in DOMAIN db.reqs : SumOver({m \in DOMAIN db.matches : n \in {db.matches[m].bnum, db.matches[m].snum}},
                                         LAMBDA m : db.matches[m].amt) <= Order[db.reqs[n].id].max

(* The details of both requests are kept until their match is settled (SettleMatch asserts it).          *)
SettleFindsRequests == \A m \in Unsettled(db) : db.reqs[db.matches[m].bnum].kept /\ db.reqs[db.matches[m].snum].kept

(* Mining adds up: what is left is the total less what the paid matches earned.                          *)
MiningAddsUp ==
    /\ db.mining.mined + db.mining.remaining = MineTotal /\ db.mining.remaining >= 0 /\ db.mining.avail >= 0
    /\ db.mining.mined = SumOver({m \in DOMAIN db.matches : db.matches[m].status = "paid"}, LAMBDA m : db.matches[m].mine)

(* Between blocks the table in memory holds exactly the open requests of the database.                   *)
TableMatchesDb ==
    blk.pc = "idle" => /\ {tbl[q].num : q \in DOMAIN tbl} \ {0} = OpenReqs(db)
                       /\ \A q \in DOMAIN tbl : tbl[q].num > 0 => tbl[q].open = db.reqs[tbl[q].num].open
                       /\ CountPersistent(tbl) = Cardinality(OpenReqs(db))

(* What requests put in covers what matches, refunds and open requests hold, no match gives a buyer or   *)
(* seller less than it asked for, and mining takes no more than there is (SettleMatch, MatchReqs,        *)
(* ExchangeMining).                                                                                      *)
AmountsAddUp == NoMoneyCreated /\ MatchRespectsBoth /\ MiningAddsUp

(* The exchange tables of the database and the table in memory belong together, a foreign address has    *)
(* one request, and unsettled matches find their requests (AddXreq, PruneMatchingReqs, ExpireXreqs).     *)
ExchangeInv == XTypeOK /\ TableMatchesDb /\ AddressHeldByOne /\ SettleFindsRequests
===========================================================================
