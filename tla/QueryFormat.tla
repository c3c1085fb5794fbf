---------------------------- MODULE QueryFormat ----------------------------
(***************************************************************************)
(* What a wallet and a node say to each other in the queries of the        *)
(* transaction service.  The wallet composes a binary message              *)
(* (cclib/src/txquery.cpp), the node reads it and streams a JSON report    *)
(* (ccnode/src/transact.cpp), and the wallet removes from the report the   *)
(* keys that it knows and mostly refuses what is left                      *)
(* (ccwallet/src/txquery.cpp).  The two programs are built separately;     *)
(* each side is written here from its own source.                          *)
(*                                                                         *)
(* A message is a sequence of fields, <<name, width>>.  An object of a     *)
(* report is a function on its keys, whose value is V where it does not    *)
(* matter.                                                                 *)
(***************************************************************************)
EXTENDS Naturals, Sequences, FiniteSets, TLC

CONSTANTS QueryRetries   \* tx_query_retries

ASSUME QueryFormatAssumption == QueryRetries \in Nat

VARIABLES fq,      \* the wallet's query
          fpc,     \* what is to happen: "create", "serve", "parse", "done"
          fmsg,    \* the message
          fnode,   \* what the node had when it answered
          frep,    \* the node's answer
          ftry,    \* the number of the attempt, from 0
          fres     \* what the wallet returns: code, and what it took from the report

fmtVars == <<fq, fpc, fmsg, fnode, frep, ftry, fres>>

V == "v"

Obj(keys) == [k \in keys |-> V]

\* The object that has the key k, with the value v, and the given others.
With(k, v, obj) == (k :> v) @@ obj

(***************************************************************************)
(* The queries.                                                            *)
(***************************************************************************)
XreqsFlags == {"none", "only-pending", "include-pending", "both"}

Queries ==
       [kind : {"params", "address", "xmatch", "xmining"}]
  \cup [kind : {"inputs"}, n : 1..2]
  \cup [kind : {"serials"}, n : 1..2]
  \cup [kind : {"xreqs"}, buyer : BOOLEAN, foreign : BOOLEAN, flags : XreqsFlags]
  \cup [kind : {"xmatchreq"}, byNum : BOOLEAN]

Header(tag) == <<<<"size", 4>>, <<tag, 4>>, <<"pow", "POW">>>>

Blockchain == <<"blockchain", "CHAIN">>

Repeat(n, field) == [i \in 1..n |-> field]

tx_query_parameters_create == Header("params")

\* A mutation of tx_query_address_create.
Buggy_address_create ==
  Header("address") \o <<Blockchain, <<"address", "ADDRESS">>, <<"maxret", 2>>, <<"commitstart", 8>>>>

tx_query_address_create ==
  Header("address") \o <<Blockchain, <<"address", "ADDRESS">>, <<"commitstart", 8>>, <<"maxret", 2>>>>

tx_query_inputs_create(n) == Header("inputs") \o <<Blockchain>> \o Repeat(n, <<"commitnum", 8>>)

tx_query_serialnum_create(n) == Header("serials") \o <<Blockchain>> \o Repeat(n, <<"serialnum", "SERIALNUM">>)

tx_query_xreqs_create(q) ==
     Header("xreqs")
  \o << <<"type", 1>>, <<"min_amount", "BIGINT">>, <<"max_amount", "BIGINT">>, <<"rate", "UNIFLOAT">>, <<"base_asset", 8>>,
        <<"quote_asset", 8>>, <<"maxret", 2>>, <<"offset", 2>>, <<q.flags, 1>> >>
  \o IF q.foreign THEN << <<"foreign_asset", "REST">> >> ELSE <<>>

tx_query_xmatch_objid_create == Header("xmatch_objid") \o <<Blockchain, <<"objid", "OBJID">>, <<"maxret", 2>>>>

tx_query_xmatch_xreqnum_create ==
  Header("xmatch_reqnum") \o <<Blockchain, <<"xreqnum", 8>>, <<"maxret", 2>>, <<"xmatchnum", 8>>>>

tx_query_xmatch_xmatchnum_create == Header("xmatch") \o <<Blockchain, <<"xmatchnum", 8>>>>

tx_query_xmining_info_create == Header("xmining")

\* The function that each query of TxQuery calls first.
Message(q) ==
  CASE q.kind = "params" -> tx_query_parameters_create
    [] q.kind = "address" -> tx_query_address_create
    [] q.kind = "inputs" -> tx_query_inputs_create(q.n)
    [] q.kind = "serials" -> tx_query_serialnum_create(q.n)
    [] q.kind = "xreqs" -> tx_query_xreqs_create(q)
    [] q.kind = "xmatchreq" -> IF q.byNum THEN tx_query_xmatch_xreqnum_create ELSE tx_query_xmatch_objid_create
    [] q.kind = "xmatch" -> tx_query_xmatch_xmatchnum_create
    [] q.kind = "xmining" -> tx_query_xmining_info_create

(***************************************************************************)
(* The node reads the fields that it expects.  A message is misread if its *)
(* size is another one (the node answers that it is malformed) or if a     *)
(* field is taken for another.                                             *)
(***************************************************************************)
Body(m) == SubSeq(m, 4, Len(m))

ReadsAll(m, fields) == Body(m) = fields

ReadsRepeated(m, field, min) ==
  /\ Len(m) >= 4 + min /\ m[4] = Blockchain
  /\ \A i \in 5..Len(m) : m[i] = field

Misread(m) ==
  CASE m[2][1] \in {"params", "xmining"} -> FALSE
    [] m[2][1] = "address" -> ~ReadsAll(m, <<Blockchain, <<"address", "ADDRESS">>, <<"commitstart", 8>>, <<"maxret", 2>>>>)
    [] m[2][1] = "inputs" -> ~ReadsRepeated(m, <<"commitnum", 8>>, 0)
    [] m[2][1] = "serials" -> ~ReadsRepeated(m, <<"serialnum", "SERIALNUM">>, 1)
    [] m[2][1] = "xreqs" ->
         LET fixed == << <<"type", 1>>, <<"min_amount", "BIGINT">>, <<"max_amount", "BIGINT">>, <<"rate", "UNIFLOAT">>,
                         <<"base_asset", 8>>, <<"quote_asset", 8>>, <<"maxret", 2>>, <<"offset", 2>> >>
         IN ~(Len(m) >= 12 /\ SubSeq(m, 4, 11) = fixed /\ m[12][2] = 1)
    [] m[2][1] = "xmatch_objid" -> ~ReadsAll(m, <<Blockchain, <<"objid", "OBJID">>, <<"maxret", 2>>>>)
    [] m[2][1] = "xmatch_reqnum" -> ~ReadsAll(m, <<Blockchain, <<"xreqnum", 8>>, <<"maxret", 2>>, <<"xmatchnum", 8>>>>)
    [] m[2][1] = "xmatch" -> ~ReadsAll(m, <<Blockchain, <<"xmatchnum", 8>>>>)

(***************************************************************************)
(* The groups of keys that the node streams.                               *)
(***************************************************************************)
StreamNetParams == {"server-timestamp", "connected-to-network", "blockchain-number", "parameters-last-modified-level"}

StreamServerParams == {"server-version", "server-protocol-version", "server-queries-only"}

StreamBlockChainStatus ==
  {"blockchain-highest-indelible-level", "blockchain-highest-indelible-timestamp",
   "blockchain-last-matching-completed-blocktime", "blockchain-last-matching-start-blocktime"}

StreamTxParams ==
  {"query-work-difficulty", "tx-work-difficulty", "xcx-naked-buy-work-difficulty", "xcx-pay-work-difficulty",
   "xcx-request-minimum-expiration-time", "merkle-tree-oldest-commitment-number", "merkle-tree-next-commitment-number"}

StreamAmountBits(include_donation_bits) ==
  {"asset-bits", "amount-bits", "exponent-bits"} \cup IF include_donation_bits THEN {"donation-bits"} ELSE {}

StreamValueLimits == {"minimum-output-exponent", "maximum-output-exponent", "maximum-input-exponent"}

StreamDomainParams == {"default-output-billet-domain-id"}

StreamDonationParams ==
  {"minimum-donation-per-transaction", "donation-per-transaction", "donation-per-byte", "donation-per-output",
   "donation-per-input", "donation-per-crosschain-exchange-request"}

StreamParams == StreamNetParams \cup StreamServerParams \cup StreamTxParams \cup StreamAmountBits(TRUE) \cup StreamDonationParams

\* The keys that are named after the side that offers or requires.
Sided(isbuyer) ==
  IF isbuyer THEN {"pledge-offered", "payment-time-offered", "confirmations-offered"}
             ELSE {"pledge-required", "payment-time-required", "confirmations-required"}

Flags5 == {"add-immediately-to-blockchain", "auto-accept-matches", "no-minimum-after-first-match",
           "must-liquidate-crossing-minimum", "must-liquidate-below-minimum"}

OptionalMatchKeys == {"buyer-consideration", "seller-consideration", "match-pledge", "next-deadline",
                      "match-timestamp", "accept-timestamp", "final-timestamp"}

If(cond, keys) == IF cond THEN keys ELSE {}

(***************************************************************************)
(* The node's reports.  What the node has for a query:                     *)
(***************************************************************************)
Outputs == [special : BOOLEAN, plain : BOOLEAN]

SerialStatus == {"unspent", "pending", "indelible", "indelible-tx"}

Xreqs == [number : 0..1, address : BOOLEAN, pending : BOOLEAN]

\* The request asked for is number 1, and those that it is matched with 2.
Matches == [buyer : BOOLEAN, matching : BOOLEAN, foreign : BOOLEAN, more : BOOLEAN,
            has : {h \in SUBSET OptionalMatchKeys : Cardinality(h) \in {0, 1, Cardinality(OptionalMatchKeys)}}]

Contents(q) ==
  CASE q.kind = "params" -> [connected : BOOLEAN, queriesOnly : BOOLEAN]
    [] q.kind = "address" -> {c \in [outs : UNION {[1..n -> Outputs] : n \in 0..2}, more : BOOLEAN] : c.more => c.outs # <<>>}
    [] q.kind = "inputs" -> [found : BOOLEAN]
    [] q.kind = "serials" -> [status : [1..q.n -> SerialStatus]]
    [] q.kind = "xreqs" -> [reqs : {<<>>} \cup [1..1 -> Xreqs], more : BOOLEAN, stepBack : BOOLEAN]
    [] q.kind = "xmatchreq" -> {c \in [known : {TRUE, q.byNum}, matches : {<<>>} \cup [1..1 -> Matches]] : c.matches # <<>> => c.known}
    [] q.kind = "xmatch" -> [matches : {<<>>} \cup [1..1 -> Matches]]
    [] q.kind = "xmining" -> {V}

NotFound == [text |-> "Not Found"]

Report(name, obj) == [text |-> "report", root |-> name, obj |-> obj]

HandleTxQueryParams(c) ==
  Report("tx-parameters-query-results",
         With("connected-to-network", c.connected,
         With("server-queries-only", c.queriesOnly,
              Obj(StreamParams \cup StreamBlockChainStatus \cup StreamValueLimits \cup StreamDomainParams))))

AddressEntry(o) ==
  With("encrypted", ~o.plain,
       Obj({"domain", "blockchain", "commitment-iv", "commitment", "commitment-number"}
           \cup If(o.special, {"is-special-domain"}) \cup StreamAmountBits(FALSE)
           \cup IF o.plain THEN {"asset", "amount"} ELSE {"encrypted-asset", "encrypted-amount"}))

HandleTxQueryAddress(c) ==
  IF c.outs = <<>> THEN NotFound
  ELSE Report("tx-address-query-report",
              With("more-results-available", c.more,
              With("tx-address-query-results", [i \in DOMAIN c.outs |-> AddressEntry(c.outs[i])],
                   Obj({"server-timestamp", "address", "commitment-number-start"}))))

HandleTxQueryInputs(q, c) ==
  LET entry(i) == With("commitment-number", i, Obj({"merkle-path"}))
      results == With("inputs", [i \in 1..q.n |-> entry(i)],
                      Obj({"parameter-level", "parameter-time", "merkle-root"} \cup StreamValueLimits \cup StreamDomainParams))
  IN IF ~c.found THEN NotFound
     ELSE Report("tx-input-query-report",
                 With("tx-input-query-results", results,
                 With("connected-to-network", TRUE, With("server-queries-only", FALSE, Obj(StreamParams)))))

\* A mutation of SerialEntry.
BuggySerialEntry(i, st) ==
  With("serial-number", i,
  With("status", IF st = "indelible-tx" THEN "indelible" ELSE st,
       Obj(If(st # "unspent", {"hashkey"}) \cup If(st = "indelible-tx", {"transaction-commitment-number"}))))

SerialEntry(i, st) ==
  With("serial-number", i,
  With("status", IF st = "indelible-tx" THEN "indelible" ELSE st,
       Obj(If(st \in {"indelible", "indelible-tx"}, {"hashkey"}) \cup If(st = "indelible-tx", {"transaction-commitment-number"}))))

HandleTxQuerySerials(q, c) ==
  Report("tx-serial-number-query-results", [i \in 1..q.n |-> SerialEntry(i, c.status[i])])

\* An entry of the report on the requests that a request of the given side would match.
XreqEntry(q, x) ==
  Obj({"exchange-request-type", "request-number", "object-id", "expire-time", "base-asset", "quote-asset",
       "minimum-amount", "maximum-amount", "net-rate-required", "wait-discount", "base-costs", "quote-costs", "destination",
       "consideration-required", "consideration-offered", "hold-time", "hold-time-required", "minimum-wait-time",
       "accept-time-required", "accept-time-offered", "open-amount", "open-rate-required"}
      \cup Flags5 \cup Sided(~q.buyer)
      \cup If(q.foreign, {"foreign-asset"}) \cup If(x.address, {"foreign-address"}) \cup If(x.number # 0, {"blocktime"})
      \cup If(x.pending, {"pending-match-amount", "pending-match-rate", "pending-match-hold-time"}))

HandleTxQueryXreqs(q, c) ==
  LET select_buyers == ~q.buyer IN
  IF q.flags = "both" THEN [text |-> "ERROR:invalid exchange-requests-query flags"]
  ELSE Report("exchange-requests-query-report",
         With("more-results-available", c.more,
         With("exchange-requests-query-results", [i \in DOMAIN c.reqs |-> XreqEntry(q, c.reqs[i])],
              Obj({"server-timestamp", "blockchain-number", "base-asset", "quote-asset", "exchange-request-matching-type",
                   "type-minimum", "type-maximum", "minimum-amount", "maximum-amount",
                   "consideration-required", "consideration-offered", "accept-time-required", "accept-time-offered", "results-offset"}
                  \cup If(q.flags = "only-pending", {"include-only-pending-matched"})
                  \cup If(q.flags = "include-pending", {"include-pending-matched"})
                  \cup If(q.foreign, {"foreign-asset"}) \cup If(c.stepBack, {"debug-rate-step-back"})
                  \cup Sided(~select_buyers)
                  \cup IF select_buyers THEN {"type-is-buyer", "maximum-rate", "maximum-rate-step"}
                                        ELSE {"type-is-seller", "minimum-rate", "minimum-rate-step"}))))

\* The key and the object of one request of a match.
RequestKey(isbuyer) == IF isbuyer THEN "buy-request" ELSE "sell-request"

StreamXmatchreq(number, isbuyer, have_xreqs, have_matching) ==
  With("number", number,
       Obj(If(have_xreqs,
              {"object-id", "type", "minimum-amount", "maximum-amount", "net-rate-required", "wait-discount", "base-costs",
               "quote-costs", "consideration-required", "consideration-offered", "hold-time", "hold-time-required",
               "minimum-wait-time", "accept-time-required", "accept-time-offered"}
              \cup Flags5 \cup Sided(isbuyer) \cup If(have_matching /\ ~isbuyer, {"foreign-address"}))))

StreamXmatch(m) ==
  Obj({"number", "type", "status", "base-asset", "quote-asset", "base-amount", "rate", "accept-time", "amount-paid", "mining-amount"}
      \cup m.has \cup If(m.foreign, {"foreign-asset"}))

\* The request that the query is about is number 1; the report shows the other one.
MatchEntry(m) ==
  With("match", With(RequestKey(~m.buyer), StreamXmatchreq(2, ~m.buyer, TRUE, m.matching), StreamXmatch(m)), <<>>)

\* The report starts with what the first match shows of the request.
HandleTxQueryXmatchreq(q, c) ==
  LET some == c.matches # <<>> IN
  Report("exchange-matchreq-query-report",
    With("exchange-matchreq-query-results", [i \in DOMAIN c.matches |-> MatchEntry(c.matches[i])],
    With("more-results-available", some /\ c.matches[1].more,
         Obj({"server-timestamp", "blockchain-number", "request-match-number-start"} \cup StreamBlockChainStatus
             \cup If(~q.byNum, {"request-object-id"}) \cup If(c.known, {"request-number"})
             \cup If(some, {"disposition"}) \cup If(some /\ c.matches[1].matching, {"open-amount"})))))

HandleTxQueryXmatch(c) ==
  LET match == IF c.matches = <<>> THEN <<>>
               ELSE With("buy-request", StreamXmatchreq(IF c.matches[1].buyer THEN 1 ELSE 2, TRUE, FALSE, FALSE),
                    With("sell-request", StreamXmatchreq(IF c.matches[1].buyer THEN 2 ELSE 1, FALSE, FALSE, FALSE),
                         StreamXmatch(c.matches[1])))
  IN Report("exchange-match-query-report",
       With("exchange-match-query-results", match,
            Obj({"server-timestamp", "blockchain-number", "match-number"} \cup StreamBlockChainStatus)))

HandleTxQueryXminingInfo ==
  Report("exchange-mining-info-query-results",
    Obj(StreamNetParams \cup StreamBlockChainStatus \cup
        {"mining-start-time", "mining-update-time-increment", "total-mined", "total-remaining-to-mine", "mining-amount-multiplier",
         "currently-mineable-amount-increment", "currently-mineable-amount", "currently-mineable-amount-maximum",
         "mining-fraction-per-match-maximum", "mining-fraction-per-match-minimum", "mining-match-average-amount",
         "mining-match-average-rate", "mining-request-average-match-rate-required", "mining-request-minimum-expiration-time"}))

Answer(q, c) ==
  CASE q.kind = "params" -> HandleTxQueryParams(c)
    [] q.kind = "address" -> HandleTxQueryAddress(c)
    [] q.kind = "inputs" -> HandleTxQueryInputs(q, c)
    [] q.kind = "serials" -> HandleTxQuerySerials(q, c)
    [] q.kind = "xreqs" -> HandleTxQueryXreqs(q, c)
    [] q.kind = "xmatchreq" -> HandleTxQueryXmatchreq(q, c)
    [] q.kind = "xmatch" -> HandleTxQueryXmatch(c)
    [] q.kind = "xmining" -> HandleTxQueryXminingInfo

(***************************************************************************)
(* The wallet's parsers.  A parser removes the keys that it must find and  *)
(* those that it may find; most refuse an object that has others.          *)
(***************************************************************************)
Rejected == [ok |-> FALSE]

Another == [ok |-> FALSE, another |-> TRUE]

Took(what) == [ok |-> TRUE, took |-> what]

Has(obj, keys) == keys \subseteq DOMAIN obj

HasOnly(obj, keys, optional) == Has(obj, keys) /\ DOMAIN obj \subseteq keys \cup optional

ParseServerParamsKeys ==
  {"server-timestamp", "connected-to-network", "parameters-last-modified-level", "blockchain-number",
   "server-version", "server-protocol-version"}

ParseTxParamsKeys ==
  {"query-work-difficulty", "tx-work-difficulty", "xcx-naked-buy-work-difficulty", "xcx-pay-work-difficulty",
   "xcx-request-minimum-expiration-time", "merkle-tree-oldest-commitment-number", "merkle-tree-next-commitment-number",
   "asset-bits", "amount-bits", "donation-bits", "exponent-bits",
   "minimum-donation-per-transaction", "donation-per-transaction", "donation-per-byte", "donation-per-output",
   "donation-per-input", "donation-per-crosschain-exchange-request"}

ParseParamsKeys == ParseServerParamsKeys \cup ParseTxParamsKeys

ParseBlockChainStatusKeys ==
  {"blockchain-highest-indelible-level", "blockchain-highest-indelible-timestamp",
   "blockchain-last-matching-completed-blocktime", "blockchain-last-matching-start-blocktime"}

ParseInputParamsKeys ==
  {"minimum-output-exponent", "maximum-output-exponent", "maximum-input-exponent", "default-output-billet-domain-id"}

\* QueryParams asks another server when this one only answers queries and is not
\* connected, unless it was the last attempt.
QueryParams(rep, last) ==
  IF rep.root # "tx-parameters-query-results" \/ ~Has(rep.obj, ParseParamsKeys) THEN Rejected
  ELSE IF rep.obj["server-queries-only"] /\ ~rep.obj["connected-to-network"] /\ ~last THEN Another
  ELSE IF Has(rep.obj, ParseBlockChainStatusKeys \cup ParseInputParamsKeys)
       THEN Took([connected |-> rep.obj["connected-to-network"], queriesOnly |-> rep.obj["server-queries-only"]])
       ELSE Rejected

QuerySerialnums(rep, n) ==
  LET entries == rep.obj
      spent(e) == e["status"] = "indelible"
      good(i) == /\ Has(entries[i], {"serial-number", "status"}) /\ entries[i]["serial-number"] = i
                 /\ HasOnly(entries[i], {"serial-number", "status"} \cup If(spent(entries[i]), {"hashkey"}),
                            If(spent(entries[i]), {"transaction-commitment-number"}))
      status(e) == CASE e["status"] = "unspent" -> "SERIALNUM_STATUS_UNSPENT"
                     [] e["status"] = "pending" -> "SERIALNUM_STATUS_PENDING"
                     [] spent(e) -> "SERIALNUM_STATUS_SPENT"
  IN IF rep.root = "tx-serial-number-query-results" /\ Len(entries) = n /\ \A i \in 1..n : good(i)
     THEN Took([i \in 1..n |-> <<status(entries[i]), "transaction-commitment-number" \in DOMAIN entries[i]>>])
     ELSE Rejected

ParseInputs(array, n) ==
  /\ Len(array) = n
  /\ \A i \in 1..n : HasOnly(array[i], {"commitment-number", "merkle-path"}, {}) /\ array[i]["commitment-number"] = i

QueryInputs(rep, n) ==
  IF /\ rep.root = "tx-input-query-report"
     /\ HasOnly(rep.obj, ParseParamsKeys \cup {"tx-input-query-results"}, {"server-queries-only"})
     /\ LET results == rep.obj["tx-input-query-results"] IN
          /\ HasOnly(results, ParseInputParamsKeys \cup {"parameter-level", "parameter-time", "merkle-root", "inputs"}, {})
          /\ ParseInputs(results["inputs"], n)
  THEN Took(n) ELSE Rejected

ParseAddressEntry(e) ==
  /\ Has(e, {"blockchain", "domain", "asset-bits", "amount-bits", "exponent-bits", "encrypted",
             "commitment-iv", "commitment", "commitment-number"})
  /\ Has(e, IF e["encrypted"] THEN {"encrypted-asset", "encrypted-amount"} ELSE {"asset", "amount"})

ParseQueryAddressResults(rep) ==
  LET results == rep.obj["tx-address-query-results"]
  IN IF /\ rep.root = "tx-address-query-report"
        /\ Has(rep.obj, {"address", "commitment-number-start", "more-results-available", "tx-address-query-results"})
        /\ \A i \in DOMAIN results : ParseAddressEntry(results[i])
     THEN Took([n |-> Len(results), more |-> rep.obj["more-results-available"],
                special |-> {i \in DOMAIN results : "is-special-domain" \in DOMAIN results[i]}])
     ELSE Rejected

ParseXreqTerms(e, q) ==
  /\ Has(e, {"exchange-request-type", "base-asset", "quote-asset", "minimum-amount", "maximum-amount", "open-amount"}
            \cup If(q.foreign, {"foreign-asset"}))
  /\ "foreign-asset" \in DOMAIN e => q.foreign

ParseXreqRates(e) ==
  /\ Has(e, {"net-rate-required", "open-rate-required", "wait-discount", "base-costs", "quote-costs"})
  /\ "pending-match-rate" \in DOMAIN e => Has(e, {"pending-match-amount", "pending-match-hold-time"})

ParseQueryXreqsResults(rep, q) ==
  LET foreign == If(q.foreign, {"foreign-asset"})
      results == rep.obj["exchange-requests-query-results"]
  IN IF /\ rep.root = "exchange-requests-query-report"
        /\ Has(rep.obj, {"server-timestamp", "blockchain-number", "exchange-request-matching-type", "minimum-amount", "maximum-amount",
                         "base-asset", "quote-asset", "more-results-available", "exchange-requests-query-results"}
                        \cup foreign
                        \cup IF q.buyer THEN {"minimum-rate", "minimum-rate-step"} ELSE {"maximum-rate", "maximum-rate-step"})
        /\ \A i \in DOMAIN results : ParseXreqTerms(results[i], q) /\ ParseXreqRates(results[i])
     THEN Took([n |-> Len(results), more |-> rep.obj["more-results-available"]])
     ELSE Rejected

XmatchreqFlags ==
  {"add-immediately-to-blockchain", "auto-accept-matches", "no-minimum-after-first-match",
   "must-liquidate-crossing-minimum", "must-liquidate-below-minimum", "foreign-address"}

\* The side is taken from the type, which is only streamed with the other terms.
ParseQueryXmatchreq(r, isbuyer) ==
  /\ Has(r, {"number"})
  /\ "type" \in DOMAIN r =>
       HasOnly(r, {"number", "type", "object-id", "minimum-amount", "maximum-amount", "net-rate-required", "wait-discount",
                   "base-costs", "quote-costs", "consideration-required", "consideration-offered", "hold-time",
                   "hold-time-required", "minimum-wait-time", "accept-time-required", "accept-time-offered"}
                  \cup IF isbuyer THEN {"pledge-offered", "payment-time-offered", "confirmations-offered"}
                                  ELSE {"pledge-required", "payment-time-required", "confirmations-required"},
               XmatchreqFlags)

XmatchMayHave ==
  {"foreign-asset", "buyer-consideration", "seller-consideration", "match-pledge", "next-deadline", "match-timestamp",
   "accept-timestamp", "final-timestamp", "amount-paid", "mining-amount"}

ParseQueryXmatch(m) ==
  /\ HasOnly(m, {"number", "type", "status", "base-asset", "quote-asset", "base-amount", "rate", "accept-time"},
             XmatchMayHave \cup {"buy-request", "sell-request"})
  /\ "buy-request" \in DOMAIN m => ParseQueryXmatchreq(m["buy-request"], TRUE)
  /\ "sell-request" \in DOMAIN m => ParseQueryXmatchreq(m["sell-request"], FALSE)

\* The numbers of the buyer and the seller; the one that is not in the report is the
\* request that was asked for.
BuggyXmatchParties(m, xreqnum) ==
  <<IF "buy-request" \in DOMAIN m THEN m["buy-request"]["number"] ELSE xreqnum, xreqnum>>

XmatchParties(m, xreqnum) ==
  <<IF "buy-request" \in DOMAIN m THEN m["buy-request"]["number"] ELSE xreqnum,
    IF "sell-request" \in DOMAIN m THEN m["sell-request"]["number"] ELSE xreqnum>>

ParseMatchEntry(e) == HasOnly(e, {"match"}, {}) /\ ParseQueryXmatch(e["match"])

ParseQueryXmatchreqResults(rep, q) ==
  LET results == rep.obj["exchange-matchreq-query-results"]
      known == "request-number" \in DOMAIN rep.obj
  IN IF ~(/\ rep.root = "exchange-matchreq-query-report"
          /\ Has(rep.obj, {"server-timestamp", "blockchain-number", "request-match-number-start"} \cup ParseBlockChainStatusKeys
                          \cup If(~q.byNum, {"request-object-id"}))
          /\ q.byNum => known)
     THEN Rejected
     ELSE IF ~known THEN Took([known |-> FALSE])
     ELSE IF /\ Has(rep.obj, {"more-results-available", "exchange-matchreq-query-results"})
             /\ \A i \in DOMAIN results : ParseMatchEntry(results[i])
          THEN Took([known |-> TRUE, more |-> rep.obj["more-results-available"], told |-> "disposition" \in DOMAIN rep.obj,
                     parties |-> [i \in DOMAIN results |-> XmatchParties(results[i]["match"], 1)]])
          ELSE Rejected

ParseQueryXmatchResults(rep) ==
  IF /\ rep.root = "exchange-match-query-report"
     /\ HasOnly(rep.obj, {"server-timestamp", "blockchain-number", "match-number", "exchange-match-query-results"}
                         \cup ParseBlockChainStatusKeys, {})
     /\ ParseQueryXmatch(rep.obj["exchange-match-query-results"])
  THEN Took([parties |-> XmatchParties(rep.obj["exchange-match-query-results"], 0)]) ELSE Rejected

ParseQueryXminingInfoResults(rep) ==
  IF rep.root = "exchange-mining-info-query-results" /\ Has(rep.obj, {"server-timestamp", "blockchain-number"})
  THEN Took(V) ELSE Rejected

Parse(q, rep, last) ==
  CASE q.kind = "address" /\ rep = NotFound -> Took([n |-> 0, more |-> FALSE, special |-> {}])
    [] rep.text = "report" /\ q.kind = "address" -> ParseQueryAddressResults(rep)
    [] rep.text = "report" /\ q.kind = "params" -> QueryParams(rep, last)
    [] rep.text = "report" /\ q.kind = "inputs" -> QueryInputs(rep, q.n)
    [] rep.text = "report" /\ q.kind = "serials" -> QuerySerialnums(rep, q.n)
    [] rep.text = "report" /\ q.kind = "xreqs" -> ParseQueryXreqsResults(rep, q)
    [] rep.text = "report" /\ q.kind = "xmatchreq" -> ParseQueryXmatchreqResults(rep, q)
    [] rep.text = "report" /\ q.kind = "xmatch" -> ParseQueryXmatchResults(rep)
    [] rep.text = "report" /\ q.kind = "xmining" -> ParseQueryXminingInfoResults(rep)
    [] OTHER -> Rejected

(***************************************************************************)
(* A query: the message is made once, and sent to one server after the     *)
(* other until an answer is accepted.                                      *)
(***************************************************************************)
NoReply == [text |-> "none"]

Failed == [code |-> "fail"]

FmtInit == /\ fq \in Queries /\ fpc = "create" /\ fmsg = <<>> /\ fnode = V /\ frep = NoReply /\ ftry = 0 /\ fres = Failed

Create == /\ fpc = "create" /\ fpc' = "serve" /\ fmsg' = Message(fq)
          /\ UNCHANGED <<fq, fnode, frep, ftry, fres>>

Serve(c) ==
  /\ fpc = "serve" /\ fpc' = "parse" /\ fnode' = c
  /\ frep' = IF Misread(fmsg) THEN [text |-> "ERROR:malformed"] ELSE Answer(fq, c)
  /\ UNCHANGED <<fq, fmsg, ftry, fres>>

\* The server is busy or has an error, or the connection is lost.
ServeFails ==
  /\ fpc = "serve" /\ fpc' = "parse" /\ fnode' = V /\ frep' = [text |-> "ERROR:server error"]
  /\ UNCHANGED <<fq, fmsg, ftry, fres>>

\* A mutation of ParseReply.
BuggyParseReply ==
  LET last == ftry > QueryRetries
      p == Parse(fq, frep, last)
      ends == p.ok \/ last
  IN /\ fpc = "parse"
     /\ fpc' = IF ends THEN "done" ELSE "serve"
     /\ ftry' = IF ends THEN ftry ELSE ftry + 1
     /\ fres' = IF p.ok THEN [code |-> "ok", took |-> p.took] ELSE fres
     /\ UNCHANGED <<fq, fmsg, fnode, frep>>

\* Only a parser sets the result, so that QueryParams, having taken a part of the report of
\* a server that it did not like, returns that part when no other server answers.
ParseReply ==
  LET last == ftry = QueryRetries
      p == Parse(fq, frep, last)
      ends == p.ok \/ last
  IN /\ fpc = "parse"
     /\ fpc' = IF ends THEN "done" ELSE "serve"
     /\ ftry' = IF ends THEN ftry ELSE ftry + 1
     /\ fres' = IF p.ok THEN [code |-> "ok", took |-> p.took]
                ELSE IF p = Another THEN [code |-> "part"]
                ELSE IF frep.text = "report" THEN Failed ELSE fres
     /\ UNCHANGED <<fq, fmsg, fnode, frep>>

FmtNext == Create \/ ServeFails \/ ParseReply \/ \E c \in Contents(fq) : Serve(c)

FmtSpec == FmtInit /\ [][FmtNext]_fmtVars

(***************************************************************************)
(* Properties.                                                             *)
(***************************************************************************)
\* The attempts are counted up to the limit, and a result is what a query may return: only
\* QueryParams returns a part.
FmtTypeOK ==
  /\ fq \in Queries /\ fpc \in {"create", "serve", "parse", "done"} /\ ftry \in 0..QueryRetries
  /\ fres.code \in {"fail", "ok", "part"}
  /\ fres.code = "part" => fq.kind = "params"
  /\ fpc = "create" <=> fmsg = <<>>

\* The node reads every message of the wallet as it was meant
\* (tx_query_*_create and the copy_from_buf sequences of TransactConnection).
QueriesRead == frep.text # "ERROR:malformed"

\* The wallet accepts every report that a node can stream, whatever it found and whatever
\* options the query had; but it does refuse the report on a match that the node does not
\* know, and passes over a server that only answers queries while it is not connected.
ReportAccepted ==
  fpc = "parse" /\ frep.text = "report" =>
    \/ Parse(fq, frep, ftry = QueryRetries).ok
    \/ fq.kind = "params" /\ fnode.queriesOnly /\ ~fnode.connected
    \/ fq.kind = "xmatch" /\ fnode.matches = <<>>

\* The buyer and the seller of a match.
PartiesOf(m) == IF m.buyer THEN <<1, 2>> ELSE <<2, 1>>

\* What the node's contents mean to the wallet.
Meaning(q, c) ==
  CASE q.kind = "params" -> c
    [] q.kind = "address" -> [n |-> Len(c.outs), more |-> c.more, special |-> {i \in DOMAIN c.outs : c.outs[i].special}]
    [] q.kind = "inputs" -> q.n
    [] q.kind = "serials" ->
         [i \in 1..q.n |-> CASE c.status[i] = "unspent" -> <<"SERIALNUM_STATUS_UNSPENT", FALSE>>
                             [] c.status[i] = "pending" -> <<"SERIALNUM_STATUS_PENDING", FALSE>>
                             [] OTHER -> <<"SERIALNUM_STATUS_SPENT", c.status[i] = "indelible-tx">>]
    [] q.kind = "xreqs" -> [n |-> Len(c.reqs), more |-> c.more]
    [] q.kind = "xmatchreq" ->
         IF ~c.known THEN [known |-> FALSE]
         ELSE [known |-> TRUE, more |-> c.matches # <<>> /\ c.matches[1].more, told |-> c.matches # <<>>,
               parties |-> [i \in DOMAIN c.matches |-> PartiesOf(c.matches[i])]]
    [] q.kind = "xmatch" -> [parties |-> PartiesOf(c.matches[1])]
    [] q.kind = "xmining" -> V

\* A query that succeeds returns what the node has: the status of each serial number, both
\* parties of a match although the report on a request names only the other one, whether
\* there are more results (the parsers of TxQuery against the handlers of TransactConnection).
ResultFaithful == fpc = "done" /\ fres.code = "ok" => fres.took = Meaning(fq, fnode)

\* Wallet and node agree on every query and report: queries are read as composed, reports are
\* accepted, and the wallet takes from them what the node put in.
FmtInv == FmtTypeOK /\ QueriesRead /\ ReportAccepted /\ ResultFaithful
=============================================================================
