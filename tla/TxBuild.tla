------------------------------ MODULE TxBuild ------------------------------
(***************************************************************************)
(* The arithmetic of building one ccwallet transaction: the donation, the  *)
(* change outputs and what is missing.  An amount is representable when it *)
(* is at most MaxAmount (outvalmax); below that bound the floating point   *)
(* encoding is taken as exact, so tx_amount_encode is Min with MaxAmount.  *)
(***************************************************************************)
EXTENDS Integers, Sequences, FiniteSets, FiniteSetsExt

CONSTANTS MaxAmount,      \* largest amount one output can hold
          MaxIn,          \* WALLET_TX_MAXIN
          MaxNout,        \* TX_MAXOUT
          DonIn, DonOut   \* donation per input and per output

ASSUME TxBuildAssumption ==
    /\ MaxAmount \in Nat \ {0} /\ MaxIn \in Nat \ {0} /\ MaxNout \in Nat
    /\ DonIn \in Nat /\ DonOut \in Nat

MinNout == 2              \* WALLET_TX_MINOUT

Capped(x) == IF x > MaxAmount THEN MaxAmount ELSE x
PosPart(x) == IF x > 0 THEN x ELSE 0

\* A donation grows with the inputs and the outputs of the transaction.
ComputeDonation(nout, nin) == nin * DonIn + nout * DonOut

ResetNout(start) == IF start > MinNout THEN start ELSE MinNout

\* What is left for change with nout outputs (negative: missing).
Excess(inputs, paid, nout, nin) == inputs - paid - ComputeDonation(nout, nin)

\* Change is filled greedily from output start + 1 on, and an output is added
\* as long as something remains and the transaction may have one more.
ComputeChange(inputs, paid, start, nin) ==
    LET fits(n) == Excess(inputs, paid, n, nin) <= (n - start) * MaxAmount
        nouts == {n \in ResetNout(start) .. Max({MaxNout, ResetNout(start)}) :
                     fits(n) \/ n >= MaxNout}
        nout == Min(nouts)
        left == Excess(inputs, paid, nout, nin)
        outs == [i \in 1 .. nout - start |-> Capped(PosPart(left - (i - 1) * MaxAmount))]
    IN  [ok |-> left >= 0 /\ fits(nout), short |-> PosPart(-left),
         donation |-> ComputeDonation(nout, nin), change |-> outs]
=============================================================================
