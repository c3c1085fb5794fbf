----------------------------- MODULE TxValidate -----------------------------
(***************************************************************************)
(* The validation of one transaction (ccnode/src/processtx.cpp,            *)
(* TxValidate and the functions it calls).  The checks come in the order   *)
(* of the code, and each read of the database is a step of its own: no     *)
(* read transaction is open, so blocks become indelible between them.      *)
(*                                                                         *)
(* The transaction "tx" is validated, over and over; it and a "rival" that *)
(* wants the same inputs, match or foreign address can become part of the  *)
(* chain.  What the sender got wrong is a set of checks that fail.         *)
(***************************************************************************)
EXTENDS Naturals, Sequences, FiniteSets, FiniteSetsExt

CONSTANTS MaxParamAge,   \* g_params.max_param_age
          PaymentTime,   \* how long after a match its payment is awaited
          Confirmations, \* foreign_confirmations_required
          MaxTime        \* bound: blocks after the first; a block takes one unit of time

ASSUME TxValidateAssumption == {MaxParamAge, PaymentTime, Confirmations, MaxTime} \subseteq Nat

VARIABLES txs,     \* txs["tx"], txs["rival"]: what the transactions say
          chain,   \* the transactions that became indelible
          serials, \* the table of spent serial numbers
          roots,   \* the table of Merkle roots: the timestamps of their levels, from level 0
          xmatch,  \* status of the match that a payment is for
          holders, \* the requests whose foreign address is in use, until they end
          fconf,   \* confirmations of the payment in the foreign blockchain
          val      \* the validation

valVars == <<txs, chain, serials, roots, xmatch, holders, fconf, val>>

Ids == {"tx", "rival"}

(***************************************************************************)
(* The checks of what a transaction says, in order, with their results.    *)
(***************************************************************************)
FormatChecks == << <<"wire", "BINARY_DATA_INVALID">>, <<"header", "OPTION_NOT_SUPPORTED">> >>

OutputChecks == << <<"outputs", "OPTION_NOT_SUPPORTED">> >>

InputChecks == << <<"inputs", "OPTION_NOT_SUPPORTED">> >>

ExtractXtx == << <<"xtx", "BINARY_DATA_INVALID">> >>

XpayChecks == << <<"xpay", "INVALID_VALUE">> >>

XreqValueChecks == << <<"xreq", "INVALID_VALUE">> >>

XreqTermChecks == << <<"terms", "OPTION_NOT_SUPPORTED">> >>

XreqDonation == << <<"donation", "INSUFFICIENT_DONATION">> >>

XreqCarryAndWork == << <<"work", "INVALID_VALUE">> >>

MintAndTxpayDonation == << <<"donation", "INSUFFICIENT_DONATION">> >>

VerifyProof == << <<"proof", "PROOF_VERIFICATION_FAILED">> >>

\* The result of the first check that fails, "ok" when none does.
FirstFailure(checks, bad) ==
  LET failing == {i \in DOMAIN checks : checks[i][1] \in bad}
  IN  IF failing = {} THEN "ok" ELSE checks[Min(failing)][2]

\* Types with a bare message have no proof, and no inputs.
TypeHasBareMsg(k) == k \in {"buy", "xpay"}

(***************************************************************************)
(* The transactions: payments, sell requests, naked buy requests, payments *)
(* of a match and mints.                                                   *)
(***************************************************************************)
Bad == {{}} \cup {{c} : c \in {"wire", "header", "outputs", "inputs", "xtx", "xpay", "xreq", "terms", "donation", "work", "proof"}}

Tx(kind, ins, level, bad) == [kind |-> kind, ins |-> ins, level |-> level, bad |-> bad]

Payments == {Tx("pay", ins, l, {}) : ins \in {<<"a">>, <<"a", "b">>, <<"b", "a">>, <<"a", "a">>}, l \in 0..2}

Sells == {Tx("sell", ins, l, {}) : ins \in {<<"a">>}, l \in 0..1}

Bares == {Tx("xpay", <<p>>, 0, {}) : p \in {"p1", "p2"}} \cup {Tx("buy", <<>>, 0, {})}

Faulty == {Tx(k, <<"a">>, 0, bad) : k \in {"pay", "sell", "mint"}, bad \in Bad}
          \cup {Tx("xpay", <<"p1">>, 0, bad) : bad \in Bad} \cup {Tx("buy", <<>>, 0, bad) : bad \in Bad}

\* CheckCreatePseudoSerialnum: a payment of a match is known by its payment id, a transaction
\* without inputs by its hash; while it is validated, a crosschain sell request also by its address.
CheckCreatePseudoSerialnum(id, persistent) ==
  CASE txs[id].kind = "sell" /\ ~persistent -> Append(txs[id].ins, "address")
    [] txs[id].kind \in {"mint", "buy"} -> <<id>>
    [] OTHER -> txs[id].ins

ValInit ==
  /\ \E t \in Payments \cup Sells \cup Bares \cup Faulty, r \in Payments \cup Sells \cup Bares :
       /\ r.level = 0 /\ ~\E i, j \in DOMAIN r.ins : i # j /\ r.ins[i] = r.ins[j]
       /\ (t.bad # {} => r = Tx("pay", <<"a">>, 0, {}))
       /\ txs = [id \in Ids |-> IF id = "tx" THEN t ELSE r]
  /\ chain = {} /\ serials = <<>> /\ roots = <<0>> /\ xmatch = "accepted" /\ holders = {} /\ fconf = 0
  /\ val = [pc |-> "idle"]

Time == Len(roots) - 1

LastIndelibleTimestamp == roots[Len(roots)]

(***************************************************************************)
(* A block becomes indelible, perhaps with a transaction that its          *)
(* validation allowed: the serial numbers, the root, the match and the     *)
(* foreign addresses change in one database transaction.  The match        *)
(* expires when it is not paid in time.                                    *)
(***************************************************************************)
MayCommit(id) ==
  LET t == txs[id]
      ins == CheckCreatePseudoSerialnum(id, TRUE)
  IN  /\ id \notin chain /\ t.bad = {} /\ t.level < Len(roots)
      /\ ~\E i, j \in DOMAIN ins : i # j /\ ins[i] = ins[j]
      /\ {ins[i] : i \in DOMAIN ins} \cap DOMAIN serials = {}
      /\ (t.kind = "sell" => holders = {})
      /\ (t.kind = "xpay" => xmatch = "accepted")

BuggyIndexTx(id) ==
  LET ins == CheckCreatePseudoSerialnum(id, FALSE)
      new == {ins[i] : i \in DOMAIN ins}
  IN  [s \in DOMAIN serials \cup new |-> IF s \in new THEN [by |-> id, commitnum |-> Len(roots)] ELSE serials[s]]

IndexTx(id) ==
  LET ins == CheckCreatePseudoSerialnum(id, TRUE)
      new == {ins[i] : i \in DOMAIN ins}
  IN  [s \in DOMAIN serials \cup new |-> IF s \in new THEN [by |-> id, commitnum |-> Len(roots)] ELSE serials[s]]

Block ==
  /\ Time < MaxTime
  /\ roots' = Append(roots, Len(roots))
  /\ \/ /\ xmatch' = IF xmatch = "accepted" /\ PaymentTime < Len(roots) THEN "expired" ELSE xmatch
        /\ UNCHANGED <<chain, serials, holders>>
     \/ \E id \in Ids :
          /\ MayCommit(id)
          /\ chain' = chain \cup {id}
          /\ serials' = IndexTx(id)
          /\ xmatch' = IF txs[id].kind = "xpay" THEN "paid" ELSE IF PaymentTime < Len(roots) /\ xmatch = "accepted" THEN "expired" ELSE xmatch
          /\ holders' = IF txs[id].kind = "sell" THEN {id} ELSE holders
  /\ UNCHANGED <<txs, fconf, val>>

\* A request ends, by expiring or with its last match.
RequestEnds ==
  /\ holders # {} /\ holders' = {}
  /\ UNCHANGED <<txs, chain, serials, roots, xmatch, fconf, val>>

\* The foreign blockchain grows.
ForeignBlock ==
  /\ \E id \in Ids : txs[id].kind = "xpay"
  /\ fconf < Confirmations /\ fconf' = fconf + 1
  /\ UNCHANGED <<txs, chain, serials, roots, xmatch, holders, val>>

(***************************************************************************)
(* The validation.  Ends with a result; "duplicate" is the code's 1.       *)
(* BeginValidate remembers, for the properties, what the chain was.        *)
(***************************************************************************)
Reads == UNCHANGED <<txs, chain, serials, roots, xmatch, holders, fconf>>

Return(code) == val' = [val EXCEPT !.pc = "done", !.result = code]

\* Goes on when no check failed, else returns the first failure's code.
GoOn(code, pc) == IF code = "ok" THEN val' = [val EXCEPT !.pc = pc] ELSE Return(code)

BeginValidate ==
  /\ val.pc = "idle"
  /\ \E in_block \in BOOLEAN, ahead \in 0..1 :
       /\ ahead > 0 => in_block
       /\ val' = [pc |-> "format", in_block |-> in_block, prior_blocktime |-> LastIndelibleTimestamp + ahead, already_paid |-> FALSE,
                  found_spent |-> FALSE, found_not_spent |-> FALSE, commitnum |-> 0, i |-> 1, result |-> "none",
                  chain0 |-> chain, spent0 |-> DOMAIN serials, started |-> LastIndelibleTimestamp]
  /\ Reads

ValidateFormat ==
  /\ val.pc = "format"
  /\ GoOn(FirstFailure(FormatChecks \o OutputChecks \o InputChecks \o (IF txs["tx"].kind \in {"sell", "buy", "xpay"} THEN ExtractXtx ELSE <<>>), txs["tx"].bad),
          CASE txs["tx"].kind = "xpay" -> "xpay" [] txs["tx"].kind \in {"sell", "buy"} -> "xreq" [] OTHER -> "donation")
  /\ Reads

BuggyValidateXpay ==
  /\ val.pc = "xpay"
  /\ LET code == FirstFailure(XpayChecks, txs["tx"].bad)
     IN  IF code # "ok" THEN Return(code)
         ELSE IF xmatch \notin {"accepted", "paid"} THEN Return("INVALID_VALUE")
         ELSE IF PaymentTime < val.prior_blocktime THEN Return("EXPIRED")
         ELSE IF xmatch = "paid" THEN Return("ALREADY_PAID") ELSE val' = [val EXCEPT !.pc = "age"]
  /\ Reads

\* ValidateXpay.  A match that was paid is reported only after the serial numbers are checked.
ValidateXpay ==
  /\ val.pc = "xpay"
  /\ LET code == FirstFailure(XpayChecks, txs["tx"].bad)
     IN  IF code # "ok" THEN Return(code)
         ELSE IF xmatch \notin {"accepted", "paid"} THEN Return("INVALID_VALUE")
         ELSE IF PaymentTime < val.prior_blocktime THEN Return("EXPIRED")
         ELSE val' = [val EXCEPT !.pc = "age", !.already_paid = xmatch = "paid"]
  /\ Reads

\* ValidateXreq.  The address may also be refused because a request waits at this node that has it, because
\* it is blocked, or because the foreign blockchain does not know it or cannot be asked.
ValidateXreq ==
  /\ val.pc = "xreq"
  /\ LET t == txs["tx"]
         before == FirstFailure(XreqValueChecks \o XreqTermChecks, t.bad)
         donation == FirstFailure(IF TypeHasBareMsg(t.kind) THEN <<>> ELSE XreqDonation, t.bad)
     IN  IF before # "ok" THEN Return(before)
         ELSE IF t.kind = "sell" /\ holders # {} THEN Return("ADDRESS_IN_USE")
         ELSE \/ t.kind = "sell" /\ ~val.in_block /\ Return("ADDRESS_IN_USE")
              \/ t.kind = "sell" /\ \E code \in {"INVALID_VALUE", "FOREIGN_ERROR"} : Return(code)
              \/ IF donation # "ok" THEN Return(donation)
                 ELSE Return("EXPIRED") \/ GoOn(FirstFailure(XreqCarryAndWork, t.bad), "age")
  /\ Reads

ValidateDonation ==
  /\ val.pc = "donation"
  /\ GoOn(FirstFailure(MintAndTxpayDonation, txs["tx"].bad), "age")
  /\ Reads

BuggyRootReplaced(level) == IF level + 2 < Len(roots) THEN roots[level + 3] ELSE val.prior_blocktime

\* The levels of the roots are 0 .. Len(roots) - 1.
RootReplaced(level) == IF level + 1 < Len(roots) THEN roots[level + 2] ELSE val.prior_blocktime

CheckRootAge ==
  /\ val.pc = "age"
  /\ IF val.prior_blocktime > RootReplaced(txs["tx"].level) + MaxParamAge /\ ~TypeHasBareMsg(txs["tx"].kind)
     THEN Return("PARAM_LEVEL_TOO_OLD") ELSE val' = [val EXCEPT !.pc = "root"]
  /\ Reads

LookUpRoot ==
  /\ val.pc = "root"
  /\ IF txs["tx"].level >= Len(roots) THEN Return("PARAM_LEVEL_INVALID")
     ELSE LET code == FirstFailure(IF TypeHasBareMsg(txs["tx"].kind) THEN <<>> ELSE VerifyProof, txs["tx"].bad)
          IN  IF txs["tx"].kind = "mint" THEN Return(code) ELSE GoOn(code, "serials")
  /\ Reads

BuggyCheckInput(ins) ==
  LET s == ins[val.i]
      spent == s \in DOMAIN serials
      conflict == spent /\ (serials[s].by # "tx" \/ (serials[s].commitnum # val.commitnum))
      found_spent == val.found_spent \/ spent
      found_not_spent == val.found_not_spent \/ ~spent
  IN  IF \E j \in 1..(val.i - 1) : ins[j] = s THEN Return("DUPLICATE_SERIALNUM")
      ELSE IF conflict \/ (found_spent /\ found_not_spent) THEN Return("ALREADY_SPENT")
      ELSE val' = [val EXCEPT !.i = @ + 1, !.found_spent = found_spent, !.found_not_spent = found_not_spent,
                              !.commitnum = IF spent /\ ~val.found_spent THEN serials[s].commitnum ELSE @]

\* One round of the loop over the inputs.  A hash key tells the transactions apart.
CheckInput(ins) ==
  LET s == ins[val.i]
      spent == s \in DOMAIN serials
      conflict == spent /\ (serials[s].by # "tx" \/ (val.found_spent /\ serials[s].commitnum # val.commitnum))
      found_spent == val.found_spent \/ spent
      found_not_spent == val.found_not_spent \/ ~spent
  IN  IF \E j \in 1..(val.i - 1) : ins[j] = s THEN Return("DUPLICATE_SERIALNUM")
      ELSE IF conflict \/ (found_spent /\ found_not_spent) THEN Return("ALREADY_SPENT")
      ELSE val' = [val EXCEPT !.i = @ + 1, !.found_spent = found_spent, !.found_not_spent = found_not_spent,
                              !.commitnum = IF spent /\ ~val.found_spent THEN serials[s].commitnum ELSE @]

BuggyAfterInputs ==
  IF val.already_paid THEN Return("ALREADY_PAID")
  ELSE IF txs["tx"].kind = "xpay" THEN val' = [val EXCEPT !.pc = "foreign"]
  ELSE Return("ok")

AfterInputs ==
  IF val.found_spent THEN Return("duplicate")
  ELSE IF val.already_paid THEN Return("ALREADY_PAID")
  ELSE IF txs["tx"].kind = "xpay" THEN val' = [val EXCEPT !.pc = "foreign"]
  ELSE Return("ok")

CheckSerials ==
  /\ val.pc = "serials"
  /\ LET ins == CheckCreatePseudoSerialnum("tx", FALSE) IN IF val.i <= Len(ins) THEN CheckInput(ins) ELSE AfterInputs
  /\ Reads

\* ValidateForeign: the query finds the payment, finds that there is none, or fails, which a node may be
\* told to ignore; in a block half of the confirmations are enough.
ValidateForeign ==
  /\ val.pc = "foreign"
  /\ \/ \E code \in {"INVALID_VALUE", "FOREIGN_ERROR", "ok"} : Return(code)
     \/ IF fconf < Confirmations \div (IF val.in_block THEN 2 ELSE 1) THEN Return("FOREIGN_VERIFICATION_FAILED")
        ELSE \E code \in {"ok", "FOREIGN_VERIFICATION_FAILED"} : Return(code)
  /\ Reads

\* The next validation of the transaction.
ValidateAgain ==
  /\ val.pc = "done" /\ val' = [pc |-> "idle"]
  /\ Reads

ValNext ==
  \/ Block \/ RequestEnds \/ ForeignBlock
  \/ BeginValidate \/ ValidateFormat \/ ValidateXpay \/ ValidateXreq \/ ValidateDonation
  \/ CheckRootAge \/ LookUpRoot \/ CheckSerials \/ ValidateForeign \/ ValidateAgain

ValSpec == ValInit /\ [][ValNext]_valVars

(***************************************************************************)
(* Properties.                                                             *)
(***************************************************************************)
Result(code) == val.pc = "done" /\ val.result = code

Inputs(id) == LET ins == CheckCreatePseudoSerialnum(id, TRUE) IN {ins[i] : i \in DOMAIN ins}

ValTypeOK ==
  /\ chain \subseteq Ids /\ holders \subseteq Ids /\ fconf \in 0..Confirmations /\ xmatch \in {"accepted", "paid", "expired"}
  /\ \A s \in DOMAIN serials : serials[s].by \in chain /\ s \in Inputs(serials[s].by) /\ serials[s].commitnum \in 1..Time
  /\ Len(roots) \in 1..(MaxTime + 1)
  /\ val.pc \in {"idle", "format", "xpay", "xreq", "donation", "age", "root", "serials", "foreign", "done"}
  /\ val.pc = "serials" => val.i <= Len(CheckCreatePseudoSerialnum("tx", FALSE)) + 1 /\ val.commitnum <= Time

\* A transaction found valid had none of its serial numbers in the chain when its validation began, whatever
\* blocks became indelible meanwhile (processtx.cpp 1361-1431).  Mints are the exception: their serial number
\* is only checked in their block (processtx.cpp 1356).
AcceptedUnspent == Result("ok") /\ txs["tx"].kind # "mint" => Inputs("tx") \cap val.spent0 = {}

\* "Merkle root can be used until max_param_age seconds after it is replaced with a new Merkle root"
\* (processtx.cpp 1275): a transaction with a proof is accepted only with such a root, and one of the chain.
FreshRoot ==
  (Result("ok") \/ Result("duplicate")) /\ ~TypeHasBareMsg(txs["tx"].kind)
    => /\ txs["tx"].level < Len(roots)
       /\ \A l \in (txs["tx"].level + 1)..(Len(roots) - 1) : roots[l + 1] <= val.started => val.prior_blocktime <= roots[l + 1] + MaxParamAge

\* A transaction that is in the chain when its validation begins is not called invalid: it is a duplicate, or
\* too old by now (comment of processtx.cpp 1417).  A sell request is the exception: its address is no longer
\* free, or it has a serial number that is not in the table.
DuplicateKnown ==
  val.pc = "done" /\ "tx" \in val.chain0 /\ txs["tx"].kind \in {"pay", "xpay"}
    => val.result \in {"duplicate", "PARAM_LEVEL_TOO_OLD", "EXPIRED"}

\* A transaction is said to be already spent only if another one spent an input, or if it became part of the
\* chain between two reads of its serial numbers (or is such a sell request).
ConflictIsReal ==
  Result("ALREADY_SPENT")
    => \/ \E s \in Inputs("tx") \cap DOMAIN serials : serials[s].by # "tx"
       \/ "tx" \in chain /\ ("tx" \notin val.chain0 \/ txs["tx"].kind = "sell")

\* The answer of TxValidate is true of some moment of the validation, though blocks become
\* indelible between its reads: nothing spent or too old is accepted, a transaction that is
\* in the chain is called known, and a conflict is one.
ValInv == ValTypeOK /\ AcceptedUnspent /\ FreshRoot /\ DuplicateKnown /\ ConflictIsReal
=============================================================================
