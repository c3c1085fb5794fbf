------------------------------ MODULE WalletDb ------------------------------
(***************************************************************************)
(* The tables of the ccwallet database and the operations on them that run *)
(* inside one BeginWrite ... Commit.  A wallet w is a record:              *)
(*   bills   Billets, the sequence of rows in Id order                     *)
(*   txs     Transactions, in Id order                                     *)
(*   spends  Billet_Spends: rows <<SpendTx, Billet>>; the Hashkey column is *)
(*           drawn once per saved transaction, so the transaction's Id     *)
(*           stands for it and 0 for the key of another wallet             *)
(*   bal, alloc, pend   the Totals rows of type 0, ALLOCATED and PENDING   *)
(*   nwPend, nwReq, count   the process globals nowait_amount_pending,     *)
(*           nowait_amount_required and billet_available_count             *)
(* Every operator returns the wallet after the transaction it models.      *)
(***************************************************************************)
EXTENDS Integers, Sequences, FiniteSets, FiniteSetsExt, SequencesExt

BillStatus == {"error", "abandoned", "pending", "prealloc", "sent",
               "cleared", "allocated", "spent"}

\* Only transactions that are not errors have billets worth reading.
TxStatus == {"error", "conflicted", "abandoned", "pending", "cleared"}

BillIsPending(bill) == bill.status \in {"error", "abandoned", "pending", "prealloc"}
TxCouldClear(tx) == tx.status \in {"pending", "abandoned"}

\* output_bills and input_bills of a transaction, as ReadTxBillets selects them.
OutsOf(w, t) == {b \in DOMAIN w.bills : w.bills[b].ctx = t}
InsOf(w, t) == {b \in DOMAIN w.bills : <<t, b>> \in w.spends}

SumAmt(w, bs) ==
    LET upTo[b \in 0 .. Len(w.bills)] ==
            IF b = 0 THEN 0 ELSE upTo[b - 1] + (IF b \in bs THEN w.bills[b].amt ELSE 0)
    IN  upTo[Len(w.bills)]

\* Mutant: the subtraction is not guarded.
BuggyLess(total, amount) == total - amount

\* A total never goes below zero.
Less(total, amount) == IF total > amount THEN total - amount ELSE 0

SetBill(w, b, st) == [w EXCEPT !.bills[b].status = st]
SetBills(w, bs, st) ==
    [w EXCEPT !.bills = [b \in DOMAIN w.bills |->
        IF b \in bs THEN [w.bills[b] EXCEPT !.status = st] ELSE w.bills[b]]]

BilletInsert(w, bill) == [w EXCEPT !.bills = Append(@, bill)]
TransactionInsert(w, tx) == [w EXCEPT !.txs = Append(@, tx)]
BilletSpendInsert(w, t, bs) == [w EXCEPT !.spends = @ \union {<<t, b>> : b \in bs}]

----------------------------------------------------------------------------
(* Totals *)

\* The column of Totals that a type bit selects.
AddBalances(w, col, add, amount) ==
    [w EXCEPT ![col] = IF add THEN @ + amount ELSE Less(@, amount)]

\* What the wallet may spend: cleared - allocated + pending, and a negative
\* sum is reported as zero.
GetTotalBalance(w) == Max({0, w.bal - w.alloc + w.pend})

\* The amount is added to the required amount only when it stays covered.
NoWaitRefused(w, pending, addPending, required) ==
    LET p == IF addPending THEN w.nwPend + pending ELSE Less(w.nwPend, pending)
    IN  w.nwReq + required > p

AddNoWaitAmounts(w, pending, addPending, required, addRequired) ==
    LET p == IF addPending THEN w.nwPend + pending ELSE Less(w.nwPend, pending)
    IN  [w EXCEPT
          !.nwPend = p,
          !.nwReq = IF ~addRequired THEN Less(@, required)
                    ELSE IF @ + required <= p THEN @ + required ELSE @]

\* waiters on billet_available_condition_variable leave when the count moves
NotifyNewBillet(w, increment) == [w EXCEPT !.count = IF increment THEN @ + 1 ELSE @]

----------------------------------------------------------------------------
(* Selecting a billet to spend *)

Cleared(w) == {b \in DOMAIN w.bills : w.bills[b].status = "cleared"}

\* smallest cleared billet of at least the amount, then the lowest Id
BilletSelectAmount(w, amount) ==
    {b \in Cleared(w) :
        /\ w.bills[b].amt >= amount
        /\ \A c \in Cleared(w) : w.bills[c].amt >= amount =>
              \/ w.bills[b].amt < w.bills[c].amt
              \/ w.bills[b].amt = w.bills[c].amt /\ b <= c}

\* largest cleared billet, then the highest Id
BilletSelectAmountMax(w) ==
    {b \in Cleared(w) : \A c \in Cleared(w) :
        \/ w.bills[b].amt > w.bills[c].amt
        \/ w.bills[b].amt = w.bills[c].amt /\ b >= c}

\* The billet LocateBillet would allocate, 0 when there is none.
Located(w, amount, minAmount) ==
    LET fit == BilletSelectAmount(w, amount)
        top == {b \in BilletSelectAmountMax(w) : w.bills[b].amt >= minAmount}
    IN  IF fit # {} THEN CHOOSE b \in fit : TRUE
        ELSE IF top # {} THEN CHOOSE b \in top : TRUE
        ELSE 0

----------------------------------------------------------------------------
(* Status changes *)

\* An output billet is on the blockchain.  A billet this wallet cannot spend is
\* only marked sent; a spendable one enters the balance and, if it was counted
\* as pending, leaves the pending total.
SetStatusCleared(w, b, cn) ==
    LET bill == w.bills[b]
        w1 == [w EXCEPT !.bills[b].status = IF bill.mine THEN "cleared" ELSE "sent",
                        !.bills[b].cn = cn]
        w2 == AddNoWaitAmounts(w1, IF bill.trusted THEN bill.amt ELSE 0, FALSE,
                               bill.amt, FALSE)
        w3 == AddBalances(w2, "bal", TRUE, bill.amt)
        w4 == IF bill.status = "pending" /\ bill.trusted
              THEN AddBalances(w3, "pend", FALSE, bill.amt) ELSE w3
    IN  IF bill.mine THEN NotifyNewBillet(w4, bill.amt > 0) ELSE w1

\* Another transaction spent one of the inputs of t.  Its outputs will not
\* arrive.  The loop over its inputs never sets release_input, so inputs that
\* are still allocated stay allocated.
SetConflicted(w, t) ==
    LET outs == {b \in OutsOf(w, t) : w.bills[b].status = "pending"}
        lost == SumAmt(w, {b \in outs : w.bills[b].mine /\ w.bills[b].trusted})
        w1 == [SetBills(w, outs, "abandoned") EXCEPT !.txs[t].status = "conflicted"]
        w2 == AddBalances(w1, "pend", FALSE, lost)
    IN  IF ~TxCouldClear(w.txs[t]) THEN w
        ELSE AddNoWaitAmounts(w2, lost, FALSE, 0, TRUE)

\* Mutant: the allocated total is left alone.
BuggySetStatusSpent(w, b, key) ==
    [SetBill(w, b, "spent") EXCEPT !.bal = @]

\* The serial number of b is on the blockchain, spent by the transaction whose
\* hash key is key.  Every other transaction that spends b is conflicted.
SetStatusSpent(w, b, key) ==
    LET amt == w.bills[b].amt
        w1 == IF w.bills[b].status = "allocated"
              THEN AddBalances(w, "alloc", FALSE, amt) ELSE w
        w2 == AddBalances(SetBill(w1, b, "spent"), "bal", FALSE, amt)
        others == SelectSeq([t \in DOMAIN w.txs |-> t],
                            LAMBDA t : <<t, b>> \in w.spends /\ t # key)
    IN  FoldSeq(LAMBDA t, acc : SetConflicted(acc, t), w2, others)

SetSpentAll(w, bs, key) ==
    FoldSeq(LAMBDA b, acc : SetStatusSpent(acc, b, key), w,
            SelectSeq([b \in DOMAIN w.bills |-> b],
                      LAMBDA b : b \in bs /\ w.bills[b].status # "spent"))

\* Mutant: the transaction is cleared with its first output.
BuggyUpdateStatus(w, t, b, cn) ==
    [SetStatusCleared(w, b, cn) EXCEPT !.txs[t].status = "cleared"]

\* One output of t cleared; when it was the last one, the inputs are spent and
\* the transaction is cleared, whatever its status was before.
UpdateStatus(w, t, b, cn) ==
    LET w1 == SetStatusCleared(w, b, cn)
        waiting == {c \in OutsOf(w, t) \ {b} : BillIsPending(w.bills[c])}
        w2 == SetSpentAll(w1, InsOf(w, t), t)
    IN  IF waiting # {} THEN w1 ELSE [w2 EXCEPT !.txs[t].status = "cleared"]

\* A payment this wallet has no billet for: to one of its own destinations, or a
\* second one to a send destination.  Zero amounts are ignored.
CreateTxFromAddressQueryResult(w, out, cn, duplicate) ==
    LET w1 == TransactionInsert(w, [status |-> "cleared", ref |-> "none",
                                   pay |-> [ref |-> "none", amt |-> 0]])
        bill == [status |-> "error", mine |-> out.mine, trusted |-> FALSE, amt |-> out.amt,
                 ctx |-> Len(w1.txs), txid |-> out.txid, notxid |-> duplicate, cn |-> 0]
        w2 == BilletInsert(w1, bill)
    IN  IF out.amt = 0 THEN w ELSE SetStatusCleared(w2, Len(w2.bills), cn)

Abandonable(w, t) ==
    /\ w.txs[t].status = "pending"
    /\ \A b \in InsOf(w, t) : w.bills[b].status = "allocated"
    /\ \A b \in OutsOf(w, t) : w.bills[b].status = "pending"

AbandonTx(w, t) ==
    LET freed == SumAmt(w, InsOf(w, t))
        lost == SumAmt(w, {b \in OutsOf(w, t) : w.bills[b].mine /\ w.bills[b].trusted})
        w1 == SetBills(SetBills(w, InsOf(w, t), "cleared"), OutsOf(w, t), "abandoned")
        w2 == AddBalances(AddBalances(w1, "alloc", FALSE, freed), "pend", FALSE, lost)
        w3 == AddNoWaitAmounts(w2, lost, FALSE, 0, TRUE)
    IN  NotifyNewBillet([w3 EXCEPT !.txs[t].status = "abandoned"], freed > 0)

\* The last-resort command: every allocated billet is released and the
\* allocated and pending totals are zeroed; the balance is recomputed from the
\* cleared billets when asked for.
BilletsResetAllocated(w) ==
    [w EXCEPT !.bills = [b \in DOMAIN w.bills |->
                  [w.bills[b] EXCEPT !.status =
                     IF @ = "allocated" THEN "cleared"
                     ELSE IF @ = "prealloc" THEN "pending" ELSE @]],
              !.alloc = 0, !.pend = 0]

ResetAllocated(w, resetBalance) ==
    LET w1 == BilletsResetAllocated(w)
    IN  [w1 EXCEPT !.bal = IF resetBalance THEN SumAmt(w1, Cleared(w1)) ELSE @]
=============================================================================
