------------------------------- MODULE Wallet -------------------------------
(***************************************************************************)
(* ccwallet: threads that build and submit payments, the polling thread    *)
(* and the maintenance commands, all working on one database, against a    *)
(* network in which other copies of the wallet may spend the same billets. *)
(*                                                                         *)
(*   w      the database and the process totals (WalletDb)                 *)
(*   list   g_txbuildlist: per reference id the holders of its entry       *)
(*   bld    the threads inside CreateTxPay                                 *)
(*   net    transactions the network took and has not put on the chain     *)
(*   used   serial numbers on the chain: <<billet, spending transaction>>  *)
(*   chain  outputs on the chain, in commitnum order                       *)
(*   budget faults and outside events that may still happen                *)
(*   hist   the requests of this scenario, and what makes totals inexact:  *)
(*          a reset, a restart, the part of the pending total that a       *)
(*          dropped subtransaction leaves                                  *)
(***************************************************************************)
EXTENDS WalletDb, TxBuild

CONSTANTS Builders, Refs,
          RequestOf,      \* per reference id the amount and whether it goes to this wallet
          Amounts,        \* amounts paid to this wallet from outside
          Scenarios,      \* amounts of the billets the wallet starts with, and the
                          \* reference ids it is asked to pay by so many threads
          MaxFaults,      \* bound on faults and outside events
          MaxRetry        \* 1400 in DoCreateTxPay

ASSUME WalletAssumption == MaxFaults \in Nat /\ MaxRetry \in Nat

VARIABLES w, list, bld, net, used, chain, budget, hist
vars == <<w, list, bld, net, used, chain, budget, hist>>

----------------------------------------------------------------------------
(* Threads *)

\* the request a final transaction pays for, kept through parent_id
NoPay == [ref |-> "none", amt |-> 0]

Idle == [pc |-> "idle", ref |-> "none", subs |-> <<>>, ins |-> <<>>, paid |-> 0,
         inter |-> FALSE, si |-> 0,
         cnt |-> 0, req |-> 0, tries |-> 0]

InitFrom(amts, refs, threads) ==
    /\ w = [bills |-> [i \in DOMAIN amts |->
                [status |-> "cleared", mine |-> TRUE, trusted |-> FALSE, amt |-> amts[i],
                 ctx |-> 1, txid |-> -i, notxid |-> FALSE, cn |-> i]],
            txs |-> << [status |-> "cleared", ref |-> "none", pay |-> NoPay] >>, spends |-> {},
            bal |-> FoldSeq(+, 0, amts), alloc |-> 0, pend |-> 0,
            nwPend |-> 0, nwReq |-> 0, count |-> 0]
    /\ list = [r \in Refs |-> [holders |-> 0, done |-> FALSE]]
    /\ bld = [b \in Builders |-> Idle]
    /\ net = {} /\ used = {} /\ budget = MaxFaults
    /\ chain = [i \in DOMAIN amts |-> [txid |-> -i, amt |-> amts[i], mine |-> TRUE]]
    /\ hist = [refs |-> refs, threads |-> threads, reset |-> FALSE, crashed |-> FALSE, leak |-> 0]

Init == \E s \in Scenarios : InitFrom(s.bills, s.refs, s.threads)

\* One of the things that may go wrong or come from outside happens.
Fault == budget > 0 /\ budget' = budget - 1
NoFault == budget' = budget

SpentOnChain == {p[1] : p \in used}
InNet == UNION {InsOf(w, t) : t \in net}

To(b, r) == bld' = [bld EXCEPT ![b] = r]
At(b, pc) == bld[b].pc = pc
Go(b, pc) == To(b, [bld[b] EXCEPT !.pc = pc])

\* the rows with this reference id; the index on RefId is unique
TxsWithRef(r) == {t \in DOMAIN w.txs : w.txs[t].ref = r}

\* StartBuild: join the entry of the same reference id, return the transaction
\* of an earlier build (no state changes, so no step), or start a new build.
Request(b, r) ==
    /\ At(b, "idle") /\ Cardinality({c \in Builders : ~At(c, "idle")}) < hist.threads
    /\ \/ /\ list[r].holders > 0
          /\ To(b, [Idle EXCEPT !.pc = "await", !.ref = r])
          /\ list' = [list EXCEPT ![r].holders = @ + 1]
       \/ /\ list[r].holders = 0 /\ TxsWithRef(r) = {}
          /\ To(b, [Idle EXCEPT !.pc = "start", !.ref = r])
          /\ list' = [list EXCEPT ![r] = [holders |-> 1, done |-> FALSE]]
    /\ NoFault /\ UNCHANGED <<w, net, used, chain, hist>>

\* Mutant: the entry is released without being marked done.
BuggySetDone(b) == [list EXCEPT ![bld[b].ref].holders = @ - 1]

\* SetDone, then ReleaseEntry; the last holder deletes the entry.
SetDone(b) ==
    [list EXCEPT ![bld[b].ref] = [holders |-> @.holders - 1, done |-> @.holders > 1]]

EndBuild(b) == list' = SetDone(b) /\ To(b, Idle)

\* WaitForCompletion reads the result by reference id and releases the entry.
WaitForCompletion(b) ==
    /\ At(b, "await") /\ list[bld[b].ref].done
    /\ EndBuild(b)
    /\ NoFault /\ UNCHANGED <<w, net, used, chain, hist>>

----------------------------------------------------------------------------
(* StartCreateTxPay: find inputs *)

InputsOf(ins) == FoldSeq(LAMBDA i, s : s + (IF i = 0 THEN 0 ELSE w.bills[i].amt), 0, ins)
Held(ins) == SelectSeq(ins, LAMBDA i : i # 0)
ReqAmt(b) == RequestOf[bld[b].ref].amt

\* a subtransaction that is not complete; cleanup releases its inputs
Partial(ins) == [ins |-> Held(ins), outs |-> <<>>, type |-> "none", state |-> "null", tx |-> 0]

Start(b) ==
    /\ At(b, "start")
    /\ IF ReqAmt(b) > GetTotalBalance(w) THEN Go(b, "fail")
       ELSE To(b, [bld[b] EXCEPT !.pc = "fund", !.ins = <<0>>])
    /\ NoFault /\ UNCHANGED <<w, list, net, used, chain, hist>>

ToPay(b) == ReqAmt(b) - bld[b].paid
SubAmount(b) == Capped(ToPay(b))

\* Add a finished subtransaction and go on with the next one, if any.
AddSubTx(b, ins, outs, type) ==
    LET sub == [ins |-> ins, outs |-> outs, type |-> type, state |-> "ready", tx |-> 0]
        paid == bld[b].paid + outs[1]
    IN  [bld[b] EXCEPT !.subs = Append(@, sub), !.paid = paid, !.ins = <<0>>, !.si = 1,
                       !.inter = type = "consolidate",
                       !.pc = IF paid < ReqAmt(b) THEN "fund" ELSE "total"]

\* What follows once the last input is in place.  Inputs that cover the
\* subtransaction finish it; after a consolidation, one with several inputs is
\* consolidated too, and one with a single input is the "unexpected condition"
\* that ends the build.  Otherwise one more input is needed, or a consolidation
\* when the transaction is full.  (What is asked for does not change with the
\* billet that was found, so the last billet is never exchanged for another.)
WithInput(b, ins) ==
    LET cc == ComputeChange(InputsOf(ins), SubAmount(b), 1, Len(ins))
        cons == ComputeChange(InputsOf(ins), 0, 0, Len(ins))
    IN  CASE cc.ok /\ ~bld[b].inter -> AddSubTx(b, ins, <<SubAmount(b)>> \o cc.change, "final")
          [] cc.ok /\ bld[b].inter /\ Len(ins) = 1 ->
                [bld[b] EXCEPT !.pc = "fail", !.subs = Append(@, Partial(ins))]
          [] ~cc.ok /\ Len(ins) < MaxIn -> [bld[b] EXCEPT !.ins = Append(ins, 0)]
          [] OTHER -> AddSubTx(b, ins, cons.change, "consolidate")

\* Mutant: a billet that another thread has allocated may be taken.
BuggyLocateBillet(b) ==
    LET free == [w EXCEPT !.bills = [x \in DOMAIN w.bills |->
                    IF w.bills[x].status = "allocated"
                    THEN [w.bills[x] EXCEPT !.status = "cleared"] ELSE w.bills[x]]]
        loc == Located(free, SubAmount(b), 1)
    IN  /\ At(b, "fund") /\ loc # 0
        /\ w' = SetBill(w, loc, "allocated")
        /\ To(b, WithInput(b, Append(Front(bld[b].ins), loc)))
        /\ NoFault /\ UNCHANGED <<list, net, used, chain, hist>>

\* LocateBillet: allocate the smallest billet of at least the amount, or the
\* largest if it pays for itself; otherwise wait for a billet if enough is
\* pending, or give up.  (ComputeSplitTx is called when nothing is paid yet and
\* then finds no subtransaction to split, so giving up is its only outcome.)
LocateBillet(b) ==
    LET ins == bld[b].ins
        nin == Len(ins)
        short == ComputeChange(InputsOf(ins), SubAmount(b), 1, nin).short
        lastDon == IF nin = 1 THEN 0 ELSE ComputeDonation(MinNout, nin - 1)
        loc == Located(w, short, 1 + PosPart(ComputeDonation(MinNout, nin) - lastDon))
        required == ToPay(b) + short - SubAmount(b)
        stop == [bld[b] EXCEPT !.subs = Append(@, Partial(ins))]
    IN  /\ At(b, "fund")
        /\ \/ /\ loc # 0
              /\ w' = SetBill(w, loc, "allocated")
              /\ To(b, WithInput(b, Append(Front(ins), loc)))
           \/ /\ loc = 0 /\ ~NoWaitRefused(w, 0, TRUE, required)
              /\ w' = AddNoWaitAmounts(w, 0, TRUE, required, TRUE)
              /\ To(b, [stop EXCEPT !.pc = "wait", !.cnt = w.count, !.req = required])
           \/ /\ loc = 0 /\ NoWaitRefused(w, 0, TRUE, required)
              /\ w' = w
              /\ To(b, [stop EXCEPT !.pc = "fail"])
        /\ NoFault /\ UNCHANGED <<list, net, used, chain, hist>>

\* Wait until another billet was cleared, or time out.
WaitNewBillet(b) ==
    /\ At(b, "wait")
    /\ w' = AddNoWaitAmounts(w, 0, TRUE, bld[b].req, FALSE)
    /\ Go(b, IF w.count # bld[b].cnt THEN "retry" ELSE "fail")
    /\ NoFault /\ UNCHANGED <<list, net, used, chain, hist>>

----------------------------------------------------------------------------
(* FinishCreateTxPay: account, check, save, submit *)

Sub(b) == bld[b].subs[bld[b].si]
Active(b, sub) == sub.state # "null" /\ (sub.type # "final") = bld[b].inter

\* outputs that come back to this wallet: change, and the first output of a
\* final transaction when its destination is one of the wallet's own
IsOwn(b, sub, i) == i > 1 \/ sub.type # "final" \/ RequestOf[bld[b].ref].own
OwnOutAmt(b, sub) ==
    FoldSeq(+, 0, [i \in DOMAIN sub.outs |-> IF IsOwn(b, sub, i) THEN sub.outs[i] ELSE 0])

SumOver(subs, Amt(_)) == FoldSeq(+, 0, [i \in DOMAIN subs |-> Amt(subs[i])])
ActiveSubs(b) == SelectSeq(bld[b].subs, LAMBDA s : Active(b, s))
InsAmt(sub) == InputsOf(sub.ins)

SetPendingBalances(b) ==
    /\ At(b, "total")
    /\ w' = AddBalances(AddBalances(w, "alloc", TRUE, SumOver(ActiveSubs(b), InsAmt)),
                        "pend", TRUE, SumOver(ActiveSubs(b), LAMBDA s : OwnOutAmt(b, s)))
    /\ Go(b, "nowait")
    /\ NoFault /\ UNCHANGED <<list, net, used, chain, hist>>

\* The no-wait total follows, and the subtransactions count as totaled.  Only
\* the active ones go on; the others are kept for cleanup.
AddNoWait(b) ==
    LET totaled == [i \in DOMAIN ActiveSubs(b) |->
                        [ActiveSubs(b)[i] EXCEPT !.state = "totaled"]]
        rest == SelectSeq(bld[b].subs, LAMBDA s : ~Active(b, s))
    IN  /\ At(b, "nowait")
        /\ w' = AddNoWaitAmounts(w, SumOver(ActiveSubs(b), LAMBDA s : OwnOutAmt(b, s)),
                                 TRUE, 0, TRUE)
        /\ To(b, [bld[b] EXCEPT !.pc = "check", !.subs = totaled \o rest, !.si = 1])
        /\ NoFault /\ UNCHANGED <<list, net, used, chain, hist>>

\* What the node says is spent is marked spent, by the transaction it names.
MarkSpent(bs) ==
    FoldSet(LAMBDA p, acc : IF acc.bills[p[1]].status = "spent" THEN acc
                            ELSE SetStatusSpent(acc, p[1], p[2]),
            w, {p \in used : p[1] \in bs})

\* Mutant: the answer of the node is only used to mark billets.
BuggyCheckIfBilletsSpent(b) ==
    /\ At(b, "check") /\ w' = MarkSpent(Range(Sub(b).ins))
    /\ To(b, [bld[b] EXCEPT !.pc = "save", !.si = 1])
    /\ NoFault /\ UNCHANGED <<list, net, used, chain, hist>>

\* CheckIfBilletsSpent for the inputs of one subtransaction: spent, or being
\* spent, sends the build back to the start.
CheckIfBilletsSpent(b) ==
    LET bs == Range(Sub(b).ins)
        last == bld[b].si = Len(ActiveSubs(b))
    IN  /\ At(b, "check")
        /\ w' = MarkSpent(bs)
        /\ To(b, IF bs \cap (SpentOnChain \union InNet) # {} THEN [bld[b] EXCEPT !.pc = "retry"]
                 ELSE IF last THEN [bld[b] EXCEPT !.pc = "save", !.si = 1]
                 ELSE [bld[b] EXCEPT !.si = @ + 1])
        /\ NoFault /\ UNCHANGED <<list, net, used, chain, hist>>

\* FillOutTx and SetAddresses: the node cannot be asked, the time is over or an
\* address cannot be made (the build fails), or the parameters changed (retry).
FillOutTxFails(b) ==
    /\ At(b, "save") /\ bld[b].si = 1 /\ Fault
    /\ \E pc \in {"fail", "retry"} : Go(b, pc)
    /\ UNCHANGED <<w, list, net, used, chain, hist>>

\* The rows SaveOutgoingTx writes: the transaction, its spends and its outputs.
\* An input that was released meanwhile is allocated again, and its amount is
\* taken off the allocated total.
SaveOutgoingTx(b, sub, ref, pay) ==
    LET t == Len(w.txs) + 1
        again == {x \in Range(sub.ins) : w.bills[x].status = "cleared"}
        n == Len(w.bills)
        out == [i \in DOMAIN sub.outs |->
                  [status |-> "pending", mine |-> IsOwn(b, sub, i), trusted |-> TRUE,
                   amt |-> sub.outs[i], ctx |-> t, txid |-> n + i, notxid |-> FALSE, cn |-> 0]]
        w1 == TransactionInsert(w, [status |-> "pending", ref |-> ref, pay |-> pay])
        w2 == SetBills(BilletSpendInsert(w1, t, Range(sub.ins)), again, "allocated")
        w3 == AddBalances(w2, "alloc", FALSE, SumAmt(w, again))
    IN  [w3 EXCEPT !.bills = @ \o out]

\* An input was spent meanwhile, or a reset let this thread allocate it twice.
Gone(b) ==
    \/ \E x \in Range(Sub(b).ins) : w.bills[x].status = "spent"
    \/ Cardinality(Range(Sub(b).ins)) < Len(Sub(b).ins)

\* An input is gone: the build starts over, or, when an earlier
\* subtransaction of the payment was already submitted, it ends here and the
\* remaining totaled subtransactions are dropped without cleanup.
InputGone(b) ==
    LET late == bld[b].si > 1 /\ ~bld[b].inter
        lost == SumOver(SubSeq(bld[b].subs, bld[b].si, Len(bld[b].subs)),
                        LAMBDA s : IF s.state = "totaled" THEN OwnOutAmt(b, s) ELSE 0)
    IN  /\ At(b, "save") /\ Gone(b)
        /\ \/ ~late /\ Go(b, "retry") /\ UNCHANGED <<list, hist>>
           \/ late /\ EndBuild(b) /\ hist' = [hist EXCEPT !.leak = @ + lost]
        /\ NoFault /\ UNCHANGED <<w, net, used, chain>>

Save(b) ==
    /\ At(b, "save") /\ ~Gone(b)
    /\ w' = SaveOutgoingTx(b, Sub(b),
                           IF bld[b].si = 1 /\ ~bld[b].inter THEN bld[b].ref ELSE "none",
                           IF bld[b].inter THEN NoPay ELSE [ref |-> bld[b].ref, amt |-> ReqAmt(b)])
    /\ To(b, [bld[b] EXCEPT !.pc = "submit", !.subs[bld[b].si].state = "saved",
                            !.subs[bld[b].si].tx = Len(w.txs) + 1])
    /\ NoFault /\ UNCHANGED <<list, net, used, chain, hist>>

Refused(t) == InsOf(w, t) \cap (SpentOnChain \union InNet) # {}

\* Mutant: an unacknowledged transaction is built again.
BuggyAfterSubmit(b, st) ==
    IF st = "unknown" THEN "retry" ELSE IF st = "ok" THEN "finish" ELSE "fail"

\* Where the build goes after a submission: the next subtransaction, the wait
\* for the billets of an intermediate one (it ends with a new billet or a
\* timeout, and both try again), or the end.  A failure ends it, except that of
\* a later part of a payment whose first part was submitted.
AfterSubmit(b, st) ==
    IF st \in {"saved", "invalid"} /\ (bld[b].si = 1 \/ bld[b].inter) THEN "fail"
    ELSE IF bld[b].si < Len(ActiveSubs(b)) THEN "save"
    ELSE IF bld[b].inter THEN "retry" ELSE "finish"

\* TrySubmitTx leaves one of four build states: ok, unknown (perhaps sent, and
\* taken for sent), invalid (the node refused it), or still saved (not sent; or
\* perhaps sent, when the transaction is an intermediate one).  SetObjId then
\* stores the object id; if that fails the build fails, submitted or not.
Submit(b) ==
    LET t == Sub(b).tx
        With(st, pc) == [bld[b] EXCEPT !.pc = pc, !.subs[bld[b].si].state = st,
                                       !.si = IF pc = "save" THEN @ + 1 ELSE @]
        Result(st) ==
            IF AfterSubmit(b, st) = "finish" THEN EndBuild(b)
            ELSE list' = list /\ To(b, With(st, AfterSubmit(b, st)))
        PerhapsSent == net' = net \/ (~Refused(t) /\ net' = net \union {t})
    IN  /\ At(b, "submit")
        /\ \/ ~Refused(t) /\ net' = net \union {t} /\ Result("ok") /\ NoFault
           \/ Refused(t) /\ net' = net /\ Result("invalid") /\ NoFault
           \/ ~bld[b].inter /\ PerhapsSent /\ Result("unknown") /\ Fault
           \/ bld[b].inter /\ PerhapsSent /\ Result("saved") /\ Fault
           \/ ~bld[b].inter /\ net' = net /\ Result("saved") /\ Fault
           \/ /\ ~Refused(t) /\ net' = net \union {t} /\ Fault        \* SetObjId failed
              /\ To(b, With("ok", "fail")) /\ list' = list
        /\ UNCHANGED <<w, used, chain, hist>>

\* Mutant: the outputs of a failed transaction stay pending.
BuggyCleanupSubTx(b, sub, acc) ==
    [acc EXCEPT !.w = SetBills(@, {x \in Range(sub.ins) : w.bills[x].status = "allocated"}, "cleared")]

\* Mutant: the inputs are released without reading their status again.
BuggyReleaseSubTx(b, sub, acc) ==
    [acc EXCEPT !.w = SetBills(@, Range(sub.ins), "cleared")]

\* Undo one subtransaction that was not submitted: inputs are released, saved
\* outputs and the transaction become errors, and the totals it had entered are
\* summed up for CleanupSubTxs.
CleanupSubTx(b, sub, acc) ==
    LET counted == Active(b, sub) /\ sub.state # "ready"
        saved == sub.state \in {"saved", "invalid"}
        freed == {x \in Range(sub.ins) : acc.w.bills[x].status = "allocated"}
        outs == IF saved THEN {x \in OutsOf(acc.w, sub.tx) : acc.w.bills[x].status = "pending"} ELSE {}
        w1 == SetBills(SetBills(acc.w, freed, "cleared"), outs, "error")
    IN  IF sub.state \in {"ok", "unknown"} THEN acc
        ELSE [w |-> IF saved THEN [w1 EXCEPT !.txs[sub.tx].status = "error"] ELSE w1,
              alloc |-> acc.alloc + (IF counted THEN SumAmt(acc.w, freed) ELSE 0),
              pend |-> acc.pend + (IF saved THEN SumAmt(acc.w, {x \in outs : acc.w.bills[x].mine})
                                   ELSE IF counted THEN OwnOutAmt(b, sub) ELSE 0)]

CleanupSubTxs(b) ==
    LET acc == FoldLeft(LAMBDA a, s : CleanupSubTx(b, s, a),
                        [w |-> w, alloc |-> 0, pend |-> 0], bld[b].subs)
        w1 == AddBalances(AddBalances(acc.w, "alloc", FALSE, acc.alloc), "pend", FALSE, acc.pend)
    IN  NotifyNewBillet(AddNoWaitAmounts(w1, acc.pend, FALSE, 0, TRUE), FALSE)

\* The loop of DoCreateTxPay; it also ends when its time is over.
Retry(b) ==
    /\ At(b, "retry")
    /\ \/ /\ NoFault
          /\ w' = CleanupSubTxs(b)
          /\ To(b, [Idle EXCEPT !.pc = IF bld[b].tries < MaxRetry THEN "start" ELSE "saveerr",
                       !.ref = bld[b].ref, !.tries = bld[b].tries + 1])
       \/ Fault /\ Go(b, "fail") /\ w' = w
    /\ UNCHANGED <<list, net, used, chain, hist>>

Fail(b) ==
    /\ At(b, "fail")
    /\ w' = CleanupSubTxs(b)
    /\ To(b, [bld[b] EXCEPT !.pc = "saveerr", !.subs = <<>>])
    /\ NoFault /\ UNCHANGED <<list, net, used, chain, hist>>

\* The transaction with this reference id is an error, whether or not it was
\* submitted; if there is none, one is saved.
SaveErrorTx(b) ==
    LET ts == TxsWithRef(bld[b].ref)
    IN  /\ At(b, "saveerr")
        /\ w' = IF ts = {} THEN TransactionInsert(w, [status |-> "error", ref |-> bld[b].ref, pay |-> NoPay])
                ELSE [w EXCEPT !.txs[CHOOSE t \in ts : TRUE].status = "error"]
        /\ EndBuild(b)
        /\ NoFault /\ UNCHANGED <<net, used, chain, hist>>

BuilderStep(b) ==
    \/ WaitForCompletion(b) \/ Start(b) \/ LocateBillet(b) \/ WaitNewBillet(b)
    \/ SetPendingBalances(b) \/ AddNoWait(b) \/ CheckIfBilletsSpent(b) \/ FillOutTxFails(b)
    \/ InputGone(b) \/ Save(b) \/ Submit(b) \/ Retry(b) \/ Fail(b) \/ SaveErrorTx(b)

----------------------------------------------------------------------------
(* The polling thread *)

\* Mutant: the commitnum is not looked up first.
BuggyPollResult(n) ==
    LET match == {x \in DOMAIN w.bills : w.bills[x].txid = chain[n].txid /\ ~w.bills[x].notxid}
        x == CHOOSE y \in match : TRUE
    IN  IF match # {} /\ BillIsPending(w.bills[x]) THEN UpdateStatus(w, w.bills[x].ctx, x, n)
        ELSE CreateTxFromAddressQueryResult(w, chain[n], n, match # {})

\* What the wallet does with output n of the chain: nothing if it has that
\* commitnum; a billet with its txid that still waits is updated, unless its
\* transaction is an error; otherwise a payment is created.
PollResult(n) ==
    LET out == chain[n]
        match == {x \in DOMAIN w.bills : w.bills[x].txid = out.txid /\ ~w.bills[x].notxid}
        x == CHOOSE y \in match : TRUE
        waits == match # {} /\ BillIsPending(w.bills[x])
    IN  IF \E y \in DOMAIN w.bills : w.bills[y].cn = n THEN w
        ELSE IF match = {} /\ ~out.mine THEN w
        ELSE IF waits /\ w.txs[w.bills[x].ctx].status # "error"
        THEN UpdateStatus(w, w.bills[x].ctx, x, n)
        ELSE CreateTxFromAddressQueryResult(w, out, n, match # {})

\* PollAddress: one result of an address query.  Addresses are polled
\* independently and again after an error, so any output may come at any time.
PollAddress(n) ==
    /\ w' = PollResult(n) /\ w' # w
    /\ NoFault /\ UNCHANGED <<list, bld, net, used, chain, hist>>

\* PollUnspent asks the node about every cleared or allocated billet.
PollUnspent(x) ==
    /\ w.bills[x].status \in {"cleared", "allocated"} /\ x \in SpentOnChain
    /\ w' = MarkSpent({x})
    /\ NoFault /\ UNCHANGED <<list, bld, net, used, chain, hist>>

----------------------------------------------------------------------------
(* Commands *)

Abandon(t) ==
    /\ Abandonable(w, t) /\ Fault
    /\ w' = AbandonTx(w, t)
    /\ UNCHANGED <<list, bld, net, used, chain, hist>>

\* cc_transaction_cancel: a transaction that spends one of the inputs of t to
\* an address of this wallet.  It is saved as abandoned, then submitted.
Cancellable(t) ==
    /\ TxCouldClear(w.txs[t]) /\ InsOf(w, t) # {}
    /\ \A x \in InsOf(w, t) : w.bills[x].status # "spent"
    /\ \A x \in OutsOf(w, t) : w.bills[x].status \in {"pending", "abandoned"}

Cancel(t, x) ==
    LET c == Len(w.txs) + 1
        cc == ComputeChange(w.bills[x].amt, 0, 0, 1)
        out(st) == [i \in DOMAIN cc.change |->
                      [status |-> st, mine |-> TRUE, trusted |-> TRUE, amt |-> cc.change[i],
                       ctx |-> c, txid |-> Len(w.bills) + i, notxid |-> FALSE, cn |-> 0]]
        Saved(st) == [BilletSpendInsert(TransactionInsert(w, [status |-> st, ref |-> "none", pay |-> NoPay]),
                                        c, {x}) EXCEPT !.bills = @ \o out(st)]
    IN  /\ Cancellable(t) /\ x \in InsOf(w, t) /\ cc.ok /\ Fault
        /\ \/ x \notin SpentOnChain \union InNet /\ w' = Saved("abandoned") /\ net' = net \union {c}
           \/ w' = Saved("error") /\ net' = net
        /\ UNCHANGED <<list, bld, used, chain, hist>>

\* cc_billets_release_allocated: zero the totals and release every billet
Reset(resetBalance) ==
    /\ Fault /\ w' = ResetAllocated(w, resetBalance)
    /\ hist' = [hist EXCEPT !.reset = TRUE]
    /\ UNCHANGED <<list, bld, net, used, chain>>

\* The process ends at any point and starts again: only the database is left.
Crash ==
    /\ Fault
    /\ w' = [w EXCEPT !.nwPend = 0, !.nwReq = 0, !.count = 0]
    /\ bld' = [b \in Builders |-> Idle]
    /\ list' = [r \in Refs |-> [holders |-> 0, done |-> FALSE]]
    /\ hist' = [hist EXCEPT !.crashed = TRUE]
    /\ UNCHANGED <<net, used, chain>>

----------------------------------------------------------------------------
(* The network *)

\* A transaction becomes indelible; the network never takes a serial number twice.
Accept(t) ==
    /\ InsOf(w, t) \cap SpentOnChain = {}
    /\ net' = {u \in net : InsOf(w, u) \cap InsOf(w, t) = {}}
    /\ used' = used \union {<<x, t>> : x \in InsOf(w, t)}
    /\ chain' = chain \o [i \in 1 .. Cardinality(OutsOf(w, t)) |->
                   LET x == Min(OutsOf(w, t)) + i - 1
                   IN  [txid |-> w.bills[x].txid, amt |-> w.bills[x].amt, mine |-> w.bills[x].mine]]
    /\ NoFault /\ UNCHANGED <<w, list, bld, hist>>

\* Another copy of this wallet spends a billet, or someone pays this wallet.
OtherSpend(x) ==
    /\ w.bills[x].mine /\ w.bills[x].status \in {"cleared", "allocated"}
    /\ x \notin SpentOnChain /\ Fault
    /\ used' = used \union {<<x, 0>>} /\ net' = {t \in net : x \notin InsOf(w, t)}
    /\ UNCHANGED <<w, list, bld, chain, hist>>

Receive(amt) ==
    /\ Fault /\ chain' = Append(chain, [txid |-> -(Len(chain) + 1), amt |-> amt, mine |-> TRUE])
    /\ UNCHANGED <<w, list, bld, net, used, hist>>

Next ==
    \/ \E b \in Builders, r \in hist.refs : Request(b, r)
    \/ \E b \in Builders : BuilderStep(b)
    \/ \E n \in DOMAIN chain : PollAddress(n)
    \/ \E x \in DOMAIN w.bills : PollUnspent(x) \/ OtherSpend(x)
    \/ \E t \in DOMAIN w.txs : Abandon(t) \/ \E x \in InsOf(w, t) : Cancel(t, x)
    \/ \E rb \in BOOLEAN : Reset(rb)
    \/ Crash
    \/ \E t \in net : Accept(t)
    \/ \E amt \in Amounts : Receive(amt)

Spec == Init /\ [][Next]_vars

----------------------------------------------------------------------------
(* Properties *)

BillsIn(sts) == {x \in DOMAIN w.bills : w.bills[x].status \in sts}

\* Type invariant: rows, totals and threads have their types.
TypeOK ==
    /\ \A x \in DOMAIN w.bills : w.bills[x].status \in BillStatus /\ w.bills[x].ctx \in DOMAIN w.txs
    /\ \A t \in DOMAIN w.txs : w.txs[t].status \in TxStatus
    /\ w.spends \subseteq (DOMAIN w.txs) \X (DOMAIN w.bills)
    /\ {w.bal, w.alloc, w.pend, w.nwPend, w.nwReq} \subseteq Nat
    /\ net \subseteq DOMAIN w.txs /\ budget \in 0 .. MaxFaults
    /\ \A r \in Refs : list[r].holders \in 0 .. Cardinality(Builders)

\* The balance row is exactly the sum of the billets the wallet holds as cleared
\* or allocated, whatever order builds, polling, cancels, resets and restarts
\* take (AddBalances runs beside every status change, never from a sum).
BalanceExact ==
    w.bal = SumAmt(w, {x \in BillsIn({"cleared", "allocated"}) : w.bills[x].mine})

\* amounts a thread has added to the pending total and not yet saved as billets
InFlight(b) ==
    IF bld[b].pc = "idle" THEN 0
    ELSE SumOver(bld[b].subs, LAMBDA s :
            IF Active(b, s) /\ (s.state = "totaled" \/ (s.state = "ready" /\ bld[b].pc = "nowait"))
            THEN OwnOutAmt(b, s) ELSE 0)

\* The pending row is the pending billets that come back to the wallet, plus
\* what threads have announced, plus what dropped subtransactions left behind,
\* until a reset or a restart.
PendingExact ==
    hist.reset \/ hist.crashed
    \/ w.pend = SumAmt(w, {x \in BillsIn({"pending"}) : w.bills[x].mine /\ w.bills[x].trusted})
                + MapThenSumSet(InFlight, Builders) + hist.leak

\* Two pending transactions never spend the same billet (LocateBillet allocates
\* under the write lock, and every release is of a billet nobody else took).
NoSharedInput ==
    hist.reset \/ \A t, u \in DOMAIN w.txs :
        t # u /\ w.txs[t].status = "pending" /\ w.txs[u].status = "pending"
            => InsOf(w, t) \cap InsOf(w, u) = {}

\* A cleared transaction has spent all its inputs.
ClearedSpent ==
    \A t \in DOMAIN w.txs : w.txs[t].status = "cleared" =>
        \A x \in InsOf(w, t) : w.bills[x].status = "spent"

\* Whatever is polled again, an output of the chain is one billet at most.
CommitOnce ==
    \A x, y \in DOMAIN w.bills : w.bills[x].cn = w.bills[y].cn /\ w.bills[x].cn # 0 => x = y

\* What one reference id pays is at most what was asked for, through retries,
\* unacknowledged submissions, repeated requests and restarts.
PaidOnce ==
    \A r \in Refs :
        LET sent == {t \in DOMAIN w.txs : w.txs[t].pay.ref = r
                        /\ (t \in net \/ \E p \in used : p[2] = t)}
        IN  \A t \in sent :
              MapThenSumSet(LAMBDA u : w.bills[Min(OutsOf(w, u))].amt, sent) <= w.txs[t].pay.amt

\* A billet that was spent stays spent.
SpentStays ==
    [][\A x \in DOMAIN w.bills : w.bills[x].status = "spent" => w'.bills[x].status = "spent"]_vars

\* A thread that waits for a build of its reference id has somebody to wait for,
\* or the build is done: no lost wakeup and no entry released too early.
WaiterServed ==
    \A b \in Builders : bld[b].pc = "await" =>
        \/ list[bld[b].ref].done
        \/ \E c \in Builders : bld[c].ref = bld[b].ref /\ bld[c].pc # "await"

\* The totals the wallet keeps are the sums over its billets and transactions, whatever was
\* retried, released or found spent (Total::AddBalances and its callers).
TotalsExact == TypeOK /\ BalanceExact /\ PendingExact

\* A billet is an input of one transaction at most, one that cleared has spent its inputs, an
\* output is entered once, and a spent billet stays spent (LocateBillet, SetStatusSpent, PollResult).
BilletsSpentOnce == [](NoSharedInput /\ ClearedSpent /\ CommitOnce) /\ SpentStays

\* A request is paid once, however often it is retried, and a second call with its reference
\* id is served (CreateTxPay, TxBuildList).
RequestsPaidOnce == PaidOnce /\ WaiterServed
=============================================================================
