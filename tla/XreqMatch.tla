---------------------------- MODULE XreqMatch ----------------------------
(* The table of exchange requests (Xreqs) and one round of matching over it:                            *)
(* ccnode/src/dbconn-xreqs.cpp and ccnode/src/process-xreq.cpp.                                         *)
(*                                                                                                      *)
(* A table is a function from sequence numbers to rows.  What a request says once and for all is        *)
(* Order[row.id]; a row holds what the node adds to it.  Rates are integers; the orders are chosen so   *)
(* that the divisions below are exact, which stands for UniFloat's fixed precision arithmetic.          *)
(* Matching for a witness is "not yet implemented" (MatchReqs asserts it) and is left out.              *)
EXTENDS Integers, FiniteSets, FiniteSetsExt, SequencesExt, TLC

CONSTANTS Order,     \* the requests: [kind, simple, max, min, rate, cost, pledge, pay, expire, addr]
          Epoch,     \* XCX_MATCHING_SECS_PER_EPOCH
          HoldTime   \* XREQ_SIMPLE_HOLD_TIME, of every request that ValidateXreq admits

RECALC_NOT  == 0
RECALC_NEXT == 1

(* The rows of a select, in its order.                                                                   *)
Sorted(Q, Before(_, _)) == [i \in 1..Cardinality(Q) |-> CHOOSE q \in Q : Cardinality({p \in Q : Before(p, q)}) = i - 1]

(* f itself: f @@ <<>> is f, and makes TLC build the whole function once.                                *)
Built(f) == f @@ <<>>

EpochOf(t)   == t \div Epoch
EpochTime(t) == EpochOf(t) * Epoch

NoBest == [self |-> 0, other |-> 0, amt |-> 0, oamt |-> 0, num |-> 0, seq |-> 0, rate |-> 0]
NoPend == [epoch |-> 0, order |-> 0, amt |-> 0, rate |-> 0, hold |-> 0]

(* A request as AddRequest fills it in; a mining trade is entered as its buy and its sell part.          *)
NewRow(id, buy, num, link, time, open) ==
    [id |-> id, buy |-> buy, num |-> num, link |-> link, time |-> time, open |-> open, amt |-> 0,
     rtime |-> RECALC_NEXT, recalc |-> FALSE, last |-> 0, best |-> NoBest, pend |-> NoPend]

Ord(r)     == Order[r.id]
IsTrade(r) == Ord(r).kind = "trade"
HasAddr(r) == ~r.buy                      \* crosschain sellers name a foreign address, buyers do not

Smaller(a, b) == IF a <= b THEN a ELSE b
Larger(a, b)  == IF a >= b THEN a ELSE b

---------------------------------------------------------------------------
(* Rates: Xreq::MatchRateRequired and Xreq::NetRate, with the costs in quote units.                      *)
MatchRateRequired(r, amt) ==
    IF r.buy THEN Ord(r).rate - Ord(r).cost \div amt ELSE Ord(r).rate + Ord(r).cost \div amt

NetRate(r, amt, rate) == IF r.buy THEN rate + Ord(r).cost \div amt ELSE rate - Ord(r).cost \div amt

SignedOpenRate(r) == IF r.buy THEN -MatchRateRequired(r, r.open) ELSE MatchRateRequired(r, r.open)

ComputeHold(elapsed, required) == IF required <= elapsed THEN 0 ELSE required - elapsed

(* Both requests hold for HoldTime after the time of the block that added them.                          *)
ComputeMatchHold(b, s, time) ==
    LET Hold(r) == ComputeHold(IF time <= r.time THEN 0 ELSE time - r.time, HoldTime)
    IN  Larger(Hold(b), Hold(s))

---------------------------------------------------------------------------
(* XreqsInsert: a pending row with the same ObjId is replaced, and gives its seqnum away unless the      *)
(* caller brings one.                                                                                    *)
SameObj(t, id, buy) == {q \in DOMAIN t : t[q].id = id /\ t[q].buy = buy}
XreqsDelete(t, q)   == Built([x \in DOMAIN t \ {q} |-> t[x]])
Replaced(t, id, buy) ==
    LET old == SameObj(t, id, buy) IN IF old # {} /\ t[Min(old)].num = 0 THEN {Min(old)} ELSE {}
XreqsInsert(t, q, row) ==
    Built([x \in (DOMAIN t \ Replaced(t, row.id, row.buy)) \cup {q} |-> IF x = q THEN row ELSE t[x]])
InsertSeq(t, id, buy, fresh) == Min(Replaced(t, id, buy) \cup {fresh})

CountPersistent(t) == Cardinality({q \in DOMAIN t : t[q].num > 0})
CountPending(t)    == Cardinality({q \in DOMAIN t : t[q].num = 0})

---------------------------------------------------------------------------
BuggyMustRecalc(t, q, first, prior, time) ==
    \/ first /\ t[q].rtime >= RECALC_NEXT /\ t[q].rtime <= time
    \/ t[q].last = prior
(* MatchingInit: what a pass starts from.  recalc is set for a request whose time has come, that was     *)
(* matched in the pass before, or whose best counterpart was matched then or is gone.                    *)
MustRecalc(t, q, first, prior, time) ==
    \/ first /\ t[q].rtime >= RECALC_NEXT /\ t[q].rtime <= time
    \/ t[q].last = prior
    \/ t[q].best.amt > 0 /\ (t[q].best.seq \notin DOMAIN t \/ t[t[q].best.seq].last = prior)

MatchingInit(t, first, prior, time, max) ==
    LET Start(q) ==
            LET re == MustRecalc(t, q, first, prior, time)
            IN  [t[q] EXCEPT !.recalc = re,
                             !.rtime  = IF first /\ re THEN RECALC_NOT ELSE @,
                             !.amt    = IF first THEN t[q].open ELSE @,
                             !.best   = IF re THEN [@ EXCEPT !.amt = 0] ELSE @]
    IN  Built([q \in DOMAIN t |-> IF t[q].num > max THEN t[q] ELSE Start(q)])

(* MatchingInitTypeRange: simple and mining buys look at simple sells only.                              *)
TypesFit(b, s) == Ord(b).simple => Ord(s).kind = "sell" /\ Ord(s).simple

(* MatchingSelectMajor and MatchingSelectMinor.                                                          *)
Selected(t, b, s, max) ==
    /\ t[b].buy /\ ~t[s].buy
    /\ t[b].num \in 1..max /\ t[s].num \in 1..max
    /\ t[b].amt > 0 /\ t[s].amt > 0
    /\ MatchRateRequired(t[b], t[b].amt) >= 0
    /\ TypesFit(t[b], t[s])
    /\ Ord(t[s]).pledge <= Ord(t[b]).pledge /\ Ord(t[s]).pay <= Ord(t[b]).pay
    /\ Ord(t[s]).min <= t[b].amt /\ t[s].amt >= Ord(t[b]).min
    /\ MatchRateRequired(t[s], t[s].amt) <= MatchRateRequired(t[b], t[b].amt)
    /\ t[b].recalc \/ t[s].recalc

(* The two selects walk the table by the rate required of the open amount, then by xreqnum.             *)
RowBefore(t, p, q) == \/ SignedOpenRate(t[p]) < SignedOpenRate(t[q])
                      \/ SignedOpenRate(t[p]) = SignedOpenRate(t[q]) /\ t[p].num < t[q].num
PairBefore(t, p, q) == RowBefore(t, p[1], q[1]) \/ (p[1] = q[1] /\ RowBefore(t, p[2], q[2]))
Pairs(t, max) ==
    Sorted({p \in (DOMAIN t) \X (DOMAIN t) : Selected(t, p[1], p[2], max)}, LAMBDA p, q : PairBefore(t, p, q))

(* CompareRates: is offer c better for the row than the best it has?                                     *)
CompareRates(r, c) ==
    LET d == r.best
    IN  IF d.amt = 0 THEN TRUE
        ELSE IF c.self # d.self THEN IF r.buy THEN c.self < d.self ELSE c.self > d.self
        ELSE IF c.other # d.other THEN IF r.buy THEN c.other > d.other ELSE c.other < d.other
        ELSE IF c.amt # d.amt THEN c.amt > d.amt
        ELSE IF c.oamt # d.oamt THEN c.oamt > d.oamt
        ELSE c.num < d.num

(* SetMatch: a best offer that is still on hold makes the next round compute it again.                   *)
SetMatch(r, c, hold) == [r EXCEPT !.best = c, !.rtime = IF hold > 0 THEN RECALC_NEXT ELSE @]

(* CheckMatch: the deal a buyer and a seller can make, offered to both.  The wait discount never applies: *)
(* ValidateXreq only admits requests whose hold time is not above their minimum wait time.               *)
CheckMatch(t, b, s, time) ==
    LET B    == t[b]
        S    == t[s]
        amt  == Smaller(B.amt, S.amt)
        breq == MatchRateRequired(B, amt)
        sreq == MatchRateRequired(S, amt)
        rate == (breq + sreq) \div 2
        hold == ComputeMatchHold(B, S, time)
        bnet == NetRate(B, amt, rate)
        snet == NetRate(S, amt, rate)
        cb   == [self |-> bnet, other |-> snet, amt |-> amt, oamt |-> S.amt, num |-> S.num, seq |-> s, rate |-> rate]
        cs   == [self |-> snet, other |-> bnet, amt |-> amt, oamt |-> B.amt, num |-> B.num, seq |-> b, rate |-> rate]
    IN  IF \/ breq < MatchRateRequired(S, S.amt)
           \/ sreq > breq
           \/ Ord(B).expire <= time + hold
           \/ Ord(S).expire <= time + hold
        THEN t
        ELSE [t EXCEPT ![b] = IF CompareRates(@, cb) THEN SetMatch(@, cb, hold) ELSE @,
                       ![s] = IF CompareRates(@, cs) THEN SetMatch(@, cs, hold) ELSE @]

(* UpdateMutualMatch: a request with a foreign address takes part in one match only.                     *)
UpdateMutualMatch(r, amt, rate, hold, pass, time) ==
    [r EXCEPT !.amt  = IF HasAddr(r) THEN 0 ELSE @ - amt,
              !.pend = IF @.epoch = EpochOf(time) THEN @
                       ELSE [@ EXCEPT !.epoch = EpochOf(time), !.amt = amt, !.rate = rate, !.hold = hold],
              !.last = pass]

BuggyMutual(m, b, s, pass, time) ==
    LET best == m.t[b].best
        Upd(r) == UpdateMutualMatch(r, best.amt, best.rate, 0, pass, time)
    IN  [t   |-> [m.t EXCEPT ![b] = Upd(@), ![s] = Upd([@ EXCEPT !.pend.order = m.idx])], idx |-> m.idx + 1, any |-> TRUE]
(* The match of buyer b with seller s; without a hold it gets a place in the order of persistence.       *)
Mutual(m, b, s, pass, time) ==
    LET hold == ComputeMatchHold(m.t[b], m.t[s], time)
        best == m.t[b].best
        Upd(r) == UpdateMutualMatch(r, best.amt, best.rate, hold, pass, time)
    IN  [t   |-> [m.t EXCEPT ![b] = Upd(@),
                             ![s] = Upd(IF hold = 0 THEN [@ EXCEPT !.pend.order = m.idx] ELSE @)],
         idx |-> IF hold = 0 THEN m.idx + 1 ELSE m.idx,
         any |-> TRUE]

ByNum(t, Q) == Sorted(Q, LAMBDA p, q : t[p].num < t[q].num)

(* FindMutualMatches: the buyers that are the best of their own best seller, by xreqnum.                 *)
FindMutualMatches(t, idx, pass, time) ==
    LET mutual == {b \in DOMAIN t : /\ t[b].buy /\ t[b].num > 0 /\ t[b].best.amt > 0
                                    /\ t[b].best.seq \in DOMAIN t
                                    /\ t[t[b].best.seq].best.seq = b}
    IN  FoldLeft(LAMBDA m, b : Mutual(m, b, m.t[b].best.seq, pass, time),
                 [t |-> t, idx |-> idx, any |-> FALSE], ByNum(t, mutual))

(* One pass of MatchReqs over the round's state r = [t, pass, idx, first, any].                          *)
MatchPass(r, time, max) ==
    LET Offered(t)     == FoldLeft(LAMBDA u, p : CheckMatch(u, p[1], p[2], time), t, Pairs(t, max))
        Matched(t, u)  == IF \E q \in DOMAIN u : u[q].best # t[q].best
                          THEN FindMutualMatches(u, r.idx, r.pass + 1, time)
                          ELSE [t |-> u, idx |-> r.idx, any |-> FALSE]
        Round(t)       == Matched(t, Offered(t))
        Passed(m)      == [t |-> m.t, pass |-> r.pass + 1, idx |-> m.idx, first |-> FALSE, any |-> m.any]
    IN  Passed(Round(MatchingInit(r.t, r.first, r.pass, time, max)))

(* AddMiningMatches: a mining trade whose two parts are both unmatched trades with itself.               *)
AddMining(m, b, time, max) ==
    LET s   == m.t[b].link
        t1  == [m.t EXCEPT ![b].best.amt = 0, ![s].best.amt = 0, ![b].recalc = TRUE]
        t2  == CheckMatch(t1, b, s, time)
    IN  IF m.t[b].num > max \/ Ord(m.t[b]).expire <= time \/ m.t[b].amt = 0 \/ s = 0 THEN m
        ELSE IF s \notin DOMAIN m.t THEN [m EXCEPT !.t[b].link = 0]
        ELSE IF \/ m.t[s].num > max \/ Ord(m.t[s]).expire <= time \/ m.t[s].amt = 0
                \/ m.t[s].link # b \/ ComputeMatchHold(m.t[b], m.t[s], time) > 0
             THEN m
             ELSE Mutual([m EXCEPT !.t = t2], b, s, 0, time)

AddMiningMatches(t, idx, time, max) ==
    FoldLeft(LAMBDA m, b : AddMining(m, b, time, max), [t |-> t, idx |-> idx, any |-> FALSE],
             ByNum(t, {q \in DOMAIN t : t[q].buy /\ IsTrade(t[q]) /\ t[q].num > 0})).t

ClearOldPendingMatches(t, time, max) ==
    Built([q \in DOMAIN t |-> IF t[q].num <= max /\ t[q].pend.epoch # EpochOf(time)
                              THEN [t[q] EXCEPT !.pend.rate = 0] ELSE t[q]])

(* The end of MatchReqs, after a pass that found nothing.                                                *)
MatchEnd(r, time, max) == ClearOldPendingMatches(AddMiningMatches(r.t, r.idx, time, max), time, max)

(* A whole round at once.  Each pass but the last makes a match, so a pass for each row is enough.       *)
MatchReqs(t, pass, time, max) ==
    LET Step(r, i) == IF r.any THEN MatchPass(r, time, max) ELSE r
    IN  MatchEnd(FoldLeft(Step, [t |-> t, pass |-> pass, idx |-> 1, first |-> TRUE, any |-> TRUE],
                          [i \in 1..(Cardinality(DOMAIN t) + 2) |-> i]), time, max)
=============================================================================
