----------------------------- MODULE MCTransact -----------------------------
(***************************************************************************)
(* What a wallet asks a node's transaction service: to take a transaction  *)
(* (TxService), how it decides about one (TxValidate), and for outputs and *)
(* Merkle paths (Polling, CommitTree) in messages both sides must read the *)
(* same way (QueryFormat), and for what became of its exchange requests    *)
(* (XWatch).  These share no state, so a behaviour is one of them, picked  *)
(* by part, while the others stay in their initial state.  In part "tree"  *)
(* the node does everything it can and no wallet polls; in part "pay" the  *)
(* node only commits blocks that pay the wallet.  In part "buy" the wallet *)
(* has only bought, in part "trade" it may be matched with itself.         *)
(***************************************************************************)
EXTENDS TxService, Polling, TxValidate, QueryFormat, XWatch, TLC

CONSTANTS TreePaid,     \* the addresses paid in part "tree"
          PollLevels,   \* bound: block levels in part "pay"
          PollCommits   \* bound: outputs in part "pay"

VARIABLE part

Init ==
  /\ part \in {"submit", "validate", "tree", "pay", "format", "buy", "trade"}
  /\ (part # "validate" => txs = [id \in Ids |-> Tx("pay", <<"a">>, 0, {})])
  /\ (part # "format" => fq = CHOOSE q \in Queries : TRUE)
  /\ SvcInit /\ TreeInit /\ PollInit /\ ValInit /\ FmtInit /\ XwInit

Pay == (BeginBlock /\ level < PollLevels) \/ CommitBlock \/ \E a \in Addresses : nextNum < PollCommits /\ CreateTxOutputs(a)

Next ==
  /\ UNCHANGED part
  /\ \/ part = "submit" /\ SvcNext /\ UNCHANGED <<treeVars, pollVars, valVars, fmtVars, xwVars>>
     \/ part = "validate" /\ ValNext /\ UNCHANGED <<svcVars, treeVars, pollVars, fmtVars, xwVars>>
     \/ part = "tree" /\ NodeNext(TreePaid) /\ UNCHANGED <<svcVars, pollVars, valVars, fmtVars, xwVars>>
     \/ part = "pay" /\ Pay /\ UNCHANGED <<svcVars, pollVars, valVars, fmtVars, xwVars>>
     \/ part = "pay" /\ WalletPolls /\ UNCHANGED <<svcVars, valVars, fmtVars, xwVars>>
     \/ part = "format" /\ FmtNext /\ UNCHANGED <<svcVars, treeVars, pollVars, valVars, xwVars>>
     \/ part = "buy" /\ XwNext(MyBuys, MaxMatches) /\ UNCHANGED <<svcVars, treeVars, pollVars, valVars, fmtVars>>
     \/ part = "trade" /\ XwNext(MyRequests, 1) /\ UNCHANGED <<svcVars, treeVars, pollVars, valVars, fmtVars>>

Spec == Init /\ [][Next]_<<part, svcVars, treeVars, pollVars, valVars, fmtVars, xwVars>>

Symmetry == Permutations(Clients)
=============================================================================
