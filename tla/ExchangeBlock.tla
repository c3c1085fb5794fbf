-------------------------- MODULE ExchangeBlock  --------------------------
(* The exchange part of the persistent database, and what a block does to it: ccnode/src/blockchain.cpp *)
(* (AddXreq .. ExpireMatches), process-xreq.cpp (SynchronizeMatching and what it calls), exchange.cpp   *)
(* and the Exchange_* tables of dbconn-persistent.cpp.                                                   *)
EXTENDS XreqMatch, ExchangeMining

CONSTANTS PayTime,     \* payment_time of every request
          MaxPersist,  \* XREQ_MAX_PERSISTENT_COUNT
          MinPending,  \* XREQ_MIN_NON_PERSISTENT_COUNT
          PostHold,    \* XREQ_MIN_POSTHOLD_TIME
          DonXcx,      \* donation_per_xcx_pay
          Grain        \* the smallest amount of an output

Ids == DOMAIN Order
Pledge(id, amt) == (amt * Order[id].pledge) \div 100     \* pledge amounts always rounded down

EmptyDb == [level |-> 0, time |-> Epoch, next |-> 1, nextm |-> 1, max |-> 0, reqs |-> <<>>, matches |-> <<>>,
            nums |-> {}, tx |-> [kind |-> "none"], out |-> [id \in Ids |-> 0], don |-> 0, mining |-> MiningInit]

(* A working state w is the database inside its write transaction, and the table in memory: w.seq is    *)
(* the next sequence number, w.dirty stands for saved_data_update_counter, w.saved for m_saved.          *)
Work(db, t) == [db |-> db, t |-> t, seq |-> Larger(1, Max(DOMAIN t \cup {0}) + 1), dirty |-> FALSE, saved |-> FALSE]

BuggyCreateTxOutputs(db, id, amt) == [db EXCEPT !.out[id] = @ + ((amt + Grain - 1) \div Grain) * Grain]
(* CreateTxOutputs: outputs of encodable amounts; what cannot be encoded stays behind.                   *)
Residual(amt) == amt % Grain
CreateTxOutputs(db, id, amt) == [db EXCEPT !.out[id] = @ + amt - Residual(amt)]

---------------------------------------------------------------------------
(* AddOneXreq: the row, and its record in Exchange_Match_Reqs and Exchange_Matching_Reqs.                *)
Disposition(open, max, buy) ==
    IF open = max THEN "open_all" ELSE IF open > 0 /\ ~buy THEN "matched_part"
    ELSE IF open > 0 THEN "open_part" ELSE "matched_all"
IsClosed(disp) == disp \notin {"open_all", "open_part"}

AddOneXreq(w, id, buy, q, link, time) ==
    LET num == w.db.next
    IN  [w EXCEPT !.t = XreqsInsert(@, q, NewRow(id, buy, num, link, time, Order[id].max)),
                  !.seq = Larger(@, q + 1), !.saved = FALSE,
                  !.db.next = num + 1,
                  !.db.reqs = Append(@, [id |-> id, buy |-> buy, time |-> time, open |-> Order[id].max,
                                         disp |-> "open_all", kept |-> TRUE, del |-> Order[id].expire + PayTime])]

AddXreq(w, id, time) ==
    LET o  == Order[id]
        q1 == InsertSeq(w.t, id, o.kind # "sell", IF o.kind = "trade" THEN w.seq + 1 ELSE w.seq)
    IN  IF o.kind # "trade" THEN AddOneXreq(w, id, o.kind = "buy", q1, 0, time)
        ELSE AddOneXreq(AddOneXreq(w, id, TRUE, q1, w.seq, time), id, FALSE, w.seq, q1, time)

BuggyAddressInUse(db, addr) == \E n \in DOMAIN db.reqs : /\ ~IsClosed(db.reqs[n].disp) /\ ~db.reqs[n].buy
                                                         /\ Order[db.reqs[n].id].addr = addr
(* ValidateXreq, in a block: not too close to its expiry, and a foreign address no kept request has.     *)
AddressInUse(db, addr) == \E n \in DOMAIN db.reqs : /\ db.reqs[n].kept /\ ~db.reqs[n].buy
                                                    /\ Order[db.reqs[n].id].addr = addr
                                                    /\ db.reqs[n].del >= db.time
(* Its serial number is new, so it is in the chain once.                                                 *)
ValidateXreq(db, id) ==
    /\ \A n \in DOMAIN db.reqs : db.reqs[n].id # id
    /\ Order[id].expire > db.time + HoldTime + PostHold
    /\ Order[id].kind = "buy" \/ ~AddressInUse(db, Order[id].addr)

(* ValidateXpay, in a block.                                                                             *)
ValidateXpay(db, m) ==
    /\ m \in DOMAIN db.matches
    /\ db.matches[m].status \in {"accepted", "part_paid_open"}
    /\ db.matches[m].deadline >= db.time

---------------------------------------------------------------------------
(* ComputeMatchSplit: the buyer gets the part of the match that is paid for.                             *)
QuoteAmount(mt) == mt.amt * mt.rate
BuyerPart(mt) ==
    IF mt.status = "paid" THEN mt.amt
    ELSE IF mt.paid <= 0 THEN 0
    ELSE LET qc == Order[mt.sell].cost
             net == ((mt.paid - qc) * mt.amt) \div (QuoteAmount(mt) - qc)
         IN  Smaller(Larger(net, 0), mt.amt)

(* SettleMatch: the match amount and the buyer's pledge are shared out, the mined amount is added.       *)
SettleMatch(w, m) ==
    LET mt     == w.db.matches[m]
        buyer0 == BuyerPart(mt)
        seller0 == mt.amt - buyer0
        pledge == Pledge(mt.buy, mt.amt)
        mined  == IF mt.status = "paid" /\ pledge > 0 THEN GetAdjustedMiningAmount(w.db.mining, mt.mine) ELSE 0
        split  == Smaller((seller0 * Order[mt.buy].pledge + 99) \div 100, pledge)
        toSell == IF mt.paid = 0 THEN pledge ELSE IF mt.status = "paid" THEN 0 ELSE split
        buyer1 == buyer0 + (pledge - toSell) + mined
        don    == IF mt.status = "paid" THEN Smaller(DonXcx, buyer1) ELSE 0
        buyer2 == buyer1 - don
        seller == seller0 + toSell + Residual(buyer2)
        rest   == Residual(seller)
        final  == IF rest > mined THEN 0 ELSE mined - rest
        g1     == UpdateMatchStats(w.db.mining, mt.paid)
        db1    == CreateTxOutputs(CreateTxOutputs(w.db, mt.buy, buyer2), mt.sell, seller)
    IN  [w EXCEPT !.db = [db1 EXCEPT !.don = @ + don,
                                     !.mining = IF mt.status = "paid" /\ mt.mine > 0
                                                THEN FinalizeMiningAmount(g1, final) ELSE g1,
                                     !.matches[m] = [@ EXCEPT !.deadline = 0, !.settled = @ + 1,
                                                              !.mine = IF mt.status = "paid" THEN final ELSE @]],
                  !.dirty = @ \/ (mt.status = "paid" /\ mt.mine > 0)]

(* ProcessXpayment.  A payment for a match that is settled already is ignored.                           *)
ProcessXpayment(w, m, amt) ==
    LET mt   == w.db.matches[m]
        paid == mt.paid + amt
        full == paid >= QuoteAmount(mt)
        w1   == [w EXCEPT !.db.matches[m] = [@ EXCEPT !.paid = paid, !.status = IF full THEN "paid" ELSE "part_paid_open"]]
    IN  IF mt.status \notin {"accepted", "part_paid_open"} THEN w
        ELSE IF full THEN SettleMatch(w1, m) ELSE w1


SelectNextDeadlines(db, time) == {m \in DOMAIN db.matches : db.matches[m].deadline > 0 /\ db.matches[m].deadline < time}

(* ExpireMatches: every open match whose deadline has passed, in the order of the deadlines.             *)
ExpireMatches(w, time) ==
    LET due == SelectNextDeadlines(w.db, time)
        Expire(v, m) == SettleMatch([v EXCEPT !.db.matches[m].status =
                                        IF @ = "accepted" THEN "unpaid_expired" ELSE "part_paid_expired"], m)
        Before(a, b) == \/ w.db.matches[a].deadline < w.db.matches[b].deadline
                        \/ (w.db.matches[a].deadline = w.db.matches[b].deadline /\ a < b)
    IN  FoldLeft(Expire, w, Sorted(due, Before))

BuggyPruneMatchingReqs(w, time) ==
    [w EXCEPT !.db.reqs = [n \in DOMAIN @ |-> [@[n] EXCEPT !.kept = @ /\ Order[w.db.reqs[n].id].expire >= time]]]
(* PruneMatchingReqs: details of requests that no settlement needs any more.                             *)
XmatchingreqPrune(reqs, time) == Built([n \in DOMAIN reqs |-> [reqs[n] EXCEPT !.kept = @ /\ reqs[n].del >= time]])
PruneMatchingReqs(w, time) == [w EXCEPT !.db.reqs = XmatchingreqPrune(@, time)]

---------------------------------------------------------------------------
BuggyExpireXreq(w, q) ==
    LET r == w.t[q]
    IN  IF r.num = 0 THEN w
        ELSE [w EXCEPT !.t = XreqsDelete(@, q), !.db = CreateTxOutputs(@, r.id, IF r.buy THEN Pledge(r.id, r.open) ELSE r.open)]
(* ExpireXreq: the row goes; what is still open of a request in the chain is given back.                 *)
ExpireXreq(w, q) ==
    LET r      == w.t[q]
        refund == IF r.buy THEN Pledge(r.id, r.open) ELSE r.open
        w1     == [w EXCEPT !.t = XreqsDelete(@, q)]
    IN  IF r.num = 0 \/ r.open = 0 THEN w1
        ELSE [w1 EXCEPT !.db = [CreateTxOutputs(@, r.id, refund) EXCEPT
                                   !.reqs[r.num].disp = IF r.open < Ord(r).max THEN "expired_rem" ELSE "expired_all"]]

RowsBy(t, Q, Key(_)) == Sorted(Q, LAMBDA p, q : \/ Key(p) < Key(q)
                                                      \/ (Key(p) = Key(q) /\ t[p].num < t[q].num)
                                                      \/ (Key(p) = Key(q) /\ t[p].num = t[q].num /\ p < q))

ExpireXreqs(w, time) == FoldLeft(ExpireXreq, w, RowsBy(w.t, {q \in DOMAIN w.t : Ord(w.t[q]).expire <= time}, LAMBDA q : Ord(w.t[q]).expire))

(* PruneXreqs.  p = [w, n, go]: the table, the next xreqnum to look at and whether to go on.  The first  *)
(* pass spares requests of the new block and requests with a pending match; the second spares none.      *)
PruneStep(p, pass, newnum) ==
    LET t      == p.w.t
        over   == CountPersistent(t) > MaxPersist
        full   == over \/ Cardinality(DOMAIN t) > MaxPersist + MinPending
        from   == {q \in DOMAIN t : t[q].num >= (IF over THEN p.n ELSE 0)}
        q      == RowsBy(t, from, LAMBDA x : t[x].num)[1]
        spared == pass = 0 /\ over /\ t[q].open = Ord(t[q]).max /\ t[q].pend.rate # 0
        w1     == ExpireXreq(p.w, q)
        w2     == IF t[q].link \in DOMAIN w1.t THEN ExpireXreq(w1, t[q].link) ELSE w1
    IN  IF ~full \/ from = {} \/ (pass = 0 /\ over /\ t[q].num >= newnum) THEN [p EXCEPT !.go = FALSE]
        ELSE [w |-> IF spared THEN p.w ELSE w2, n |-> t[q].num + 1, go |-> TRUE]

PruneXreqs(w, newnum) ==
    LET Steps == 1..(Cardinality(DOMAIN w.t) + 1)
        Pass(v, pass) == FoldLeft(LAMBDA p, i : IF p.go THEN PruneStep(p, pass, newnum) ELSE p,
                                  [w |-> v, n |-> 1, go |-> TRUE], [i \in Steps |-> i]).w
    IN  Pass(Pass(w, 0), 1)

---------------------------------------------------------------------------
(* MakeMatchesPersistent: the pending matches without a hold, in their order.  A seller's remaining      *)
(* amount is given back at once; what a buyer has left stays open.                                       *)
AfterMatch(db, r, open, deadline) ==
    [db EXCEPT !.reqs[r.num] = [@ EXCEPT !.open = open, !.disp = Disposition(open, Ord(r).max, r.buy),
                                         !.del = Larger(Ord(r).expire + PayTime, deadline)]]
BuggySaveXreq(t, q, open) == [t EXCEPT ![q] = [@ EXCEPT !.open = open, !.rtime = RECALC_NEXT]]
XreqsUpdate(t, q, row) == [t EXCEPT ![q] = row]
SaveXreq(t, q, open) == IF open = 0 THEN XreqsDelete(t, q)
                        ELSE XreqsUpdate(t, q, [t[q] EXCEPT !.open = open, !.rtime = RECALC_NEXT])

XmatchInsert(matches, mt) == Append(matches, mt)

(* Xmatch::Init: a new match is accepted at once and waits for the payment.                              *)
MatchRecord(B, S, time) ==
    [buy |-> B.id, sell |-> S.id, bnum |-> B.num, snum |-> S.num, amt |-> S.pend.amt, rate |-> S.pend.rate, paid |-> 0,
     status |-> "accepted", deadline |-> time + PayTime, mine |-> 0, settled |-> 0, time |-> time]

MakePersistent(w, s, time) ==
    LET S     == w.t[s]
        b     == S.best.seq
        B     == w.t[b]
        amt   == S.pend.amt
        left  == S.open - amt
        req   == MatchRateRequired(B, amt) * (IF IsTrade(B) THEN 2 ELSE 1)
        mine  == IF Ord(B).simple THEN SetMiningAmount(w.db.mining, time, amt, req) ELSE [g |-> w.db.mining, amt |-> 0]
        db1   == [w.db EXCEPT !.nextm = @ + 1, !.mining = mine.g,
                     !.matches = XmatchInsert(@, [MatchRecord(B, S, time) EXCEPT !.mine = mine.amt])]
        db2   == AfterMatch(db1, B, B.open - amt, time + PayTime)
        db3   == AfterMatch(db2, S, left, time + PayTime)
        db4   == [CreateTxOutputs(db3, S.id, left) EXCEPT !.reqs[S.num].open = 0]
    IN  [w EXCEPT !.db = db4, !.t = SaveXreq(SaveXreq(@, b, B.open - amt), s, 0), !.saved = FALSE, !.dirty = TRUE]

MakeMatchesPersistent(w, time) ==
    LET ready == {s \in DOMAIN w.t : w.t[s].pend.order > 0 /\ w.t[s].best.seq \in DOMAIN w.t}
    IN  FoldLeft(LAMBDA v, s : MakePersistent(v, s, time), w,
                 Sorted(ready, LAMBDA p, q : w.t[p].pend.order < w.t[q].pend.order))

(* What the mining account has gained since, and the largest number the next round looks at.             *)
MiningTimePassed(w, mt) ==
    [w EXCEPT !.db.mining = UpdateMiningTime(@, mt), !.dirty = @ \/ UpdateMiningTime(w.db.mining, mt) # w.db.mining]
SetMatchingMax(w) == [w EXCEPT !.db.max = w.db.next - 1]

(* SynchronizeMatching, at the first block of an epoch; time is the epoch time of the block and mt the   *)
(* time the round that has ended was for.                                                                *)
SynchronizeMatching(w, mt, time, newnum) ==
    SetMatchingMax(PruneXreqs(ExpireXreqs(MiningTimePassed(MakeMatchesPersistent(w, mt), mt), time), newnum))

XcxNumsInsert(db, level, time) ==
    [db EXCEPT !.nums = @ \cup {[level |-> level, time |-> time, next |-> db.next, nextm |-> db.nextm]}]
SaveNextNums(w, level, time) ==
    IF w.saved THEN w ELSE [w EXCEPT !.db = XcxNumsInsert(@, level, time), !.saved = TRUE]

---------------------------------------------------------------------------
(* What a block carries: nothing, a request, or a payment.                                               *)
NoTx == [kind |-> "none"]
Txs(db) == {NoTx} \cup {[kind |-> "xreq", id |-> id] : id \in {i \in Ids : ValidateXreq(db, i)}}
                  \cup {[kind |-> "xpay", m |-> m, part |-> p] : m \in {k \in DOMAIN db.matches : ValidateXpay(db, k)}, p \in {1, 2}}

(* A payment pays what is due, or half of the quote amount.                                              *)
PayAmount(mt, part) == IF part = 1 THEN QuoteAmount(mt) - mt.paid ELSE QuoteAmount(mt) \div 2

IndexTx(w, tx, time) ==
    CASE tx.kind = "none" -> w
      [] tx.kind = "xreq" -> AddXreq(w, tx.id, time)
      [] tx.kind = "xpay" -> ProcessXpayment(w, tx.m, PayAmount(w.db.matches[tx.m], tx.part))

FinishBlock(w, time) ==
    LET level == w.db.level + 1
        w1    == PruneMatchingReqs(ExpireMatches(SaveNextNums(w, level, time), time), time)
    IN  [w1 EXCEPT !.db.level = level, !.db.time = time]

(* Exchange::Restore, with the block time of a request as its block had it.                              *)
OpenReqs(db) == {n \in DOMAIN db.reqs : db.reqs[n].kept /\ ~IsClosed(db.reqs[n].disp) /\ db.reqs[n].open > 0}
RestoreRow(db, n, q, link, time) == NewRow(db.reqs[n].id, db.reqs[n].buy, n, link, time, db.reqs[n].open)
RestoreExact(db) ==
    LET Link(n) == IF Order[db.reqs[n].id].kind # "trade" THEN 0 ELSE IF db.reqs[n].buy THEN n + 1 ELSE n - 1
    IN  [n \in OpenReqs(db) |-> RestoreRow(db, n, n, Link(n), db.reqs[n].time)]

(* The abstract block: matches from scratch, then all that the block changes.                            *)
ApplyBlock(db, tx, time) ==
    LET Indexed == IndexTx(Work(db, MatchReqs(RestoreExact(db), 1, EpochTime(db.time), db.max)), tx, time)
        Synced(w) == IF EpochOf(time) = EpochOf(db.time) THEN w
                     ELSE SynchronizeMatching(w, EpochTime(db.time), EpochTime(time), db.next)
    IN  [FinishBlock(Synced(Indexed), time).db EXCEPT !.tx = tx]

(* The database after a sequence of blocks.                                                              *)
Replay(p) == FoldLeft(LAMBDA d, x : ApplyBlock(d, x.tx, d.time + x.dt), EmptyDb, p)

(* Two nodes agree on everything but when they wrote down their next numbers and the rates paid, which   *)
(* are only reported.                                                                                     *)
Agreed(db) == [db EXCEPT !.nums = {}, !.mining.paid = 0]

===========================================================================
