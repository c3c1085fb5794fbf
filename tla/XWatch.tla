------------------------------- MODULE XWatch -------------------------------
(***************************************************************************)
(* How a wallet follows its exchange requests (ccwallet/src/exchange.cpp,  *)
(* walletdb-exchange.cpp, polling.cpp, txrpc.cpp): it polls each request   *)
(* until it is closed, saves the matches it is told of, polls each match   *)
(* until it is paid or expires, and adds up what it mined.  The queries    *)
(* are answered by a node's transaction service (ccnode/src/transact.cpp), *)
(* whose exchange is reduced here to what the answers show.  The polls     *)
(* work on copies of rows that other threads may save meanwhile.           *)
(*                                                                         *)
(* Every match is taken to be a mined one.                                 *)
(***************************************************************************)
EXTENDS Naturals, Sequences, FiniteSets, FiniteSetsExt

CONSTANTS MyBuys, MySells,    \* the wallet's own requests
          Other,          \* a request of somebody else
          XPollers,       \* threads: the polling threads and those that serve RPCs
          XPage,          \* the matches that one report holds
          MaxMatches,     \* bound: matches
          MaxXPolls       \* bound: polls started

ASSUME XWatchAssumption == MyBuys \cap MySells = {} /\ Other \notin MyBuys \cup MySells /\ XPage \in Nat \ {0} /\ MaxMatches \in Nat

VARIABLES xreqs,    \* xreqs[r]: the request in the node: added, full (nothing left to match), expired
          xms,      \* the matches in the node, by number
          xrow,     \* xrow[r]: the wallet's row of Exchange_Requests, see NewRequest
          xwm,      \* the wallet's rows of Exchange_Matches: status, whether it is polled, WalletPaid
          mined,    \* mined[m]: how often match m was added to the total mined, up to 2
          xpoll,    \* xpoll[x]: what thread x is doing
          xpolls    \* polls started

xwVars == <<xreqs, xms, xrow, xwm, mined, xpoll, xpolls>>

MyRequests == MyBuys \cup MySells

\* SaveOutgoingTx saves the request; PollTime is set when its transaction is sent.
NewRequest == [num |-> FALSE, q |-> 1, disp |-> "open", poll |-> TRUE, abandoned |-> FALSE]

IdleX == [pc |-> "idle"]

XwInit ==
  /\ xreqs = [r \in MyRequests |-> [added |-> FALSE, full |-> FALSE, expired |-> FALSE]]
  /\ xms = <<>> /\ xwm = <<>>
  /\ xrow = [r \in MyRequests |-> NewRequest]
  /\ mined = [m \in 1..MaxMatches |-> 0]
  /\ xpoll = [x \in XPollers |-> IdleX] /\ xpolls = 0

Parties(m) == {xms[m].buy, xms[m].sell}

MatchClosed(st) == st \in {"paid", "expired"}

(***************************************************************************)
(* The node: a request is added, matched and expires; a match is paid or   *)
(* expires.  An expired request is neither added nor matched any more.     *)
(***************************************************************************)
Live(r) == r \in MyRequests => xreqs[r].added /\ ~xreqs[r].full /\ ~xreqs[r].expired

AddRequest(r) ==
  /\ ~xreqs[r].added /\ ~xreqs[r].expired
  /\ xreqs' = [xreqs EXCEPT ![r].added = TRUE]
  /\ UNCHANGED <<xms, xrow, xwm, mined, xpoll, xpolls>>

ExpireRequest(r) ==
  /\ ~xreqs[r].expired
  /\ xreqs' = [xreqs EXCEPT ![r].expired = TRUE]
  /\ UNCHANGED <<xms, xrow, xwm, mined, xpoll, xpolls>>

MatchRequests(b, s) ==
  /\ Len(xms) < MaxMatches /\ Live(b) /\ Live(s) /\ {b, s} # {Other}
  /\ xms' = Append(xms, [buy |-> b, sell |-> s, st |-> "open"])
  /\ \E full \in SUBSET ({b, s} \cap MyRequests) : xreqs' = [r \in MyRequests |-> [xreqs[r] EXCEPT !.full = @ \/ r \in full]]
  /\ UNCHANGED <<xrow, xwm, mined, xpoll, xpolls>>

SettleMatch(m, st) ==
  /\ xms[m].st = "open"
  /\ xms' = [xms EXCEPT ![m].st = st]
  /\ UNCHANGED <<xreqs, xrow, xwm, mined, xpoll, xpolls>>

(***************************************************************************)
(* The wallet's tables.                                                    *)
(***************************************************************************)
MatchSaved(m) == m \in DOMAIN xwm

\* Exchange_Matches_select joins the rows of both requests by Xreqnum, which the row of an
\* own request has once a poll of it has ended.
ExchangeMatchSelect(m) == MatchSaved(m) /\ \A r \in Parties(m) \cap MyRequests : xrow[r].num

\* ExchangeMatchInsert writes the status and the poll time over what is saved, but only
\* ever adds to WalletPaid.
BuggyExchangeMatchInsert(m, row) == xwm' = [i \in DOMAIN xwm \cup {m} |-> IF i = m THEN row ELSE xwm[i]]

ExchangeMatchInsert(m, row) ==
  xwm' = [i \in DOMAIN xwm \cup {m} |->
            IF i # m THEN xwm[i] ELSE [row EXCEPT !.marked = @ \/ (MatchSaved(m) /\ xwm[m].marked)]]

\* A mutation of UpdateTotalMined: called after the match was saved.
BuggyUpdateTotalMined(m, st) == UNCHANGED mined

\* UpdateTotalMined, for a match whose buyer is this wallet's: only a match that is not yet
\* saved as closed is counted.
UpdateTotalMined(m, st) ==
  LET counts == /\ st = "paid" /\ xms[m].buy \in MyRequests
                /\ ~(ExchangeMatchSelect(m) /\ MatchClosed(xwm[m].st))
  IN mined' = IF counts /\ mined[m] < 2 THEN [mined EXCEPT ![m] = @ + 1] ELSE mined

(***************************************************************************)
(* Polling a request.                                                      *)
(***************************************************************************)
ExchangeRequestSelectNextPoll == {r \in MyRequests : xrow[r].poll}

\* The copy of the row of request r that PollXmatchreq works on.
ExchangeRequestSelect(r) == [pc |-> "status", r |-> r, num |-> xrow[r].num, q |-> xrow[r].q, disp |-> xrow[r].disp,
                             save |-> FALSE, exp |-> FALSE, got |-> <<>>, more |-> FALSE]

\* DoPoll takes a request whose poll time has come, in one transaction, and calls
\* PollXmatchreq with the row it read.
StartXmatchreq(x, r) ==
  /\ xpoll[x] = IdleX /\ xpolls < MaxXPolls /\ r \in ExchangeRequestSelectNextPoll
  /\ xpolls' = xpolls + 1
  /\ xpoll' = [xpoll EXCEPT ![x] = ExchangeRequestSelect(r)]
  /\ UNCHANGED <<xreqs, xms, xrow, xwm, mined>>

\* HandleTxQueryXmatchreq reads the status of the blockchain before it reads the database.
QueryStatus(x) ==
  /\ xpoll[x].pc = "status"
  /\ xpoll' = [xpoll EXCEPT ![x].pc = "page", ![x].exp = xreqs[xpoll[x].r].expired]
  /\ UNCHANGED <<xreqs, xms, xrow, xwm, mined, xpolls>>

\* The node's rows: a request by its object id, and the matches of request r from number q on.
BuggyXmatchreqSelectObjId(r) == TRUE

XmatchreqSelectObjId(r) == xreqs[r].added

XmatchSelectReqnum(r, q) == {m \in q..Len(xms) : r \in Parties(m)}

\* A mutation of MatchPage.
BuggyMatchPage(r, q) ==
  LET all == XmatchSelectReqnum(r, q)
      got == {m \in all : Cardinality({i \in all : i < m}) < XPage}
  IN [got |-> [m \in got |-> xms[m].st], more |-> Cardinality(all) > XPage + 1]

\* A report: up to XPage matches, and whether there is another one.
MatchPage(r, q) ==
  LET all == XmatchSelectReqnum(r, q)
      got == {m \in all : Cardinality({i \in all : i < m}) < XPage}
  IN [got |-> [m \in got |-> xms[m].st], more |-> all # got]

\* The disposition is reported with the first match found; a request that is still open is
\* closed by the wallet itself when its time has passed.
Disposition(l, found) ==
  LET told == IF ~found THEN l.disp ELSE IF xreqs[l.r].full \/ xreqs[l.r].expired THEN "closed" ELSE "open"
  IN IF told = "open" /\ l.exp THEN "closed" ELSE told

QueryMatches(x) ==
  LET l == xpoll[x]
      page == MatchPage(l.r, l.q)
      found == DOMAIN page.got # {}
      num == l.num \/ XmatchreqSelectObjId(l.r)
      disp == Disposition(l, found)
  IN /\ l.pc = "page"
     /\ xpoll' = [xpoll EXCEPT ![x] = [l EXCEPT !.pc = IF found THEN "match" ELSE "finish", !.num = num, !.disp = disp,
                                                !.save = @ \/ num # l.num \/ disp # l.disp,
                                                !.got = page.got, !.more = page.more]]
     /\ UNCHANGED <<xreqs, xms, xrow, xwm, mined, xpolls>>

\* One match, in a transaction of its own: the total mined, then the match, which is polled
\* whatever its status; the next report is asked for after the last match of this one.
SaveMatch(x) ==
  LET l == xpoll[x]
      m == Min(DOMAIN l.got)
      rest == DOMAIN l.got \ {m}
  IN /\ l.pc = "match"
     /\ UpdateTotalMined(m, l.got[m])
     /\ ExchangeMatchInsert(m, [st |-> l.got[m], poll |-> TRUE, marked |-> FALSE])
     /\ xpoll' = [xpoll EXCEPT ![x] = [l EXCEPT !.q = m + 1, !.save = TRUE, !.got = [i \in rest |-> l.got[i]],
                                                !.pc = IF rest # {} THEN "match" ELSE IF l.more THEN "status" ELSE "finish"]]
     /\ UNCHANGED <<xreqs, xms, xrow, xpolls>>

\* The end of PollXmatchreq, in three transactions: a closed request is not polled again;
\* its transaction is abandoned if no node ever knew it; the row is saved.
EndPolling(x) ==
  LET l == xpoll[x] IN
  /\ l.pc = "finish"
  /\ xrow' = IF l.disp = "closed" THEN [xrow EXCEPT ![l.r].poll = FALSE] ELSE xrow
  /\ xpoll' = [xpoll EXCEPT ![x].pc = IF l.disp = "closed" THEN "abandon" ELSE "update"]
  /\ UNCHANGED <<xreqs, xms, xwm, mined, xpolls>>

BuggyAbandonTx(x) ==
  LET l == xpoll[x] IN
  /\ l.pc = "abandon"
  /\ xrow' = [xrow EXCEPT ![l.r].abandoned = TRUE]
  /\ xpoll' = [xpoll EXCEPT ![x].pc = "update"]
  /\ UNCHANGED <<xreqs, xms, xwm, mined, xpolls>>

AbandonTx(x) ==
  LET l == xpoll[x] IN
  /\ l.pc = "abandon"
  /\ xrow' = IF l.num THEN xrow ELSE [xrow EXCEPT ![l.r].abandoned = TRUE]
  /\ xpoll' = [xpoll EXCEPT ![x].pc = "update"]
  /\ UNCHANGED <<xreqs, xms, xwm, mined, xpolls>>

\* ExchangeRequestUpdateStatus keeps the larger Xreqnum and overwrites the rest.
ExchangeRequestUpdateStatus(x) ==
  LET l == xpoll[x] IN
  /\ l.pc = "update"
  /\ xrow' = IF l.save THEN [xrow EXCEPT ![l.r].num = @ \/ l.num, ![l.r].q = l.q, ![l.r].disp = l.disp] ELSE xrow
  /\ xpoll' = [xpoll EXCEPT ![x] = IdleX]
  /\ UNCHANGED <<xreqs, xms, xwm, mined, xpolls>>

(***************************************************************************)
(* Polling a match.                                                        *)
(***************************************************************************)
\* DoPoll: UpdatePollTime ends the polling of a match that is saved as closed.
StartXmatch(x, m) ==
  /\ xpoll[x] = IdleX /\ xpolls < MaxXPolls /\ ExchangeMatchSelect(m) /\ xwm[m].poll
  /\ xpolls' = xpolls + 1
  /\ ExchangeMatchInsert(m, [xwm[m] EXCEPT !.poll = ~MatchClosed(xwm[m].st)])
  /\ xpoll' = [xpoll EXCEPT ![x] = [pc |-> "query", m |-> m, row |-> xwm[m]]]
  /\ UNCHANGED <<xreqs, xms, xrow, mined>>

\* cc_crosschain_payment_claim polls an open match from the thread of the RPC.
PaymentClaim(x, m) ==
  /\ xpoll[x] = IdleX /\ xpolls < MaxXPolls /\ ExchangeMatchSelect(m) /\ ~MatchClosed(xwm[m].st)
  /\ xpolls' = xpolls + 1
  /\ xpoll' = [xpoll EXCEPT ![x] = [pc |-> "query", m |-> m, row |-> xwm[m]]]
  /\ UNCHANGED <<xreqs, xms, xrow, xwm, mined>>

\* The report of HandleTxQueryXmatch.
XmatchSelect(m) == xms[m].st

\* Only a match that was read as open is asked for.
QueryXmatch(x) ==
  LET l == xpoll[x]
      st == IF MatchClosed(l.row.st) THEN l.row.st ELSE XmatchSelect(l.m)
  IN /\ l.pc = "query"
     /\ xpoll' = [xpoll EXCEPT ![x] = [l EXCEPT !.row.st = st, !.pc = "result"]]
     /\ UNCHANGED <<xreqs, xms, xrow, xwm, mined, xpolls>>

\* A mutation of PollXmatch.
BuggyPollXmatch(x) ==
  LET l == xpoll[x]
      row == [l.row EXCEPT !.poll = FALSE]
  IN /\ l.pc = "result"
     /\ IF MatchClosed(l.row.st) THEN UpdateTotalMined(l.m, l.row.st) ELSE UNCHANGED mined
     /\ ExchangeMatchInsert(l.m, row)
     /\ xpoll' = [xpoll EXCEPT ![x] = IdleX]
     /\ UNCHANGED <<xreqs, xms, xrow, xpolls>>

\* The end of PollXmatch: an open match is saved as it is; a closed one is not polled again
\* and is saved together with the total mined.
PollXmatch(x) ==
  LET l == xpoll[x]
      row == [l.row EXCEPT !.poll = @ /\ ~MatchClosed(l.row.st)]
  IN /\ l.pc = "result"
     /\ IF MatchClosed(l.row.st) THEN UpdateTotalMined(l.m, l.row.st) ELSE UNCHANGED mined
     /\ ExchangeMatchInsert(l.m, row)
     /\ xpoll' = [xpoll EXCEPT ![x] = IdleX]
     /\ UNCHANGED <<xreqs, xms, xrow, xpolls>>

\* cc_crosschain_match_mark_paid reads and saves the match in one transaction.
MarkPaid(m) ==
  /\ ExchangeMatchSelect(m) /\ ~xwm[m].marked
  /\ ExchangeMatchInsert(m, [xwm[m] EXCEPT !.marked = TRUE])
  /\ UNCHANGED <<xreqs, xms, xrow, mined, xpoll, xpolls>>

\* A query or a statement fails, a poll of an address fails, or the wallet stops.
PollFails(x) ==
  /\ xpoll[x] # IdleX
  /\ xpoll' = [xpoll EXCEPT ![x] = IdleX]
  /\ UNCHANGED <<xreqs, xms, xrow, xwm, mined, xpolls>>

\* The steps when the wallet made the requests reqs and the node makes up to max matches.
XwNext(reqs, max) ==
  \/ \E r \in reqs : AddRequest(r) \/ ExpireRequest(r)
  \/ \E b \in (MyBuys \cap reqs) \cup {Other}, s \in (MySells \cap reqs) \cup {Other} :
       Len(xms) < max /\ MatchRequests(b, s)
  \/ \E m \in DOMAIN xms : SettleMatch(m, "paid") \/ SettleMatch(m, "expired") \/ MarkPaid(m)
  \/ \E x \in XPollers :
       \/ \E r \in reqs : StartXmatchreq(x, r)
       \/ \E m \in DOMAIN xms : StartXmatch(x, m) \/ PaymentClaim(x, m)
       \/ QueryStatus(x) \/ QueryMatches(x) \/ SaveMatch(x)
       \/ EndPolling(x) \/ AbandonTx(x) \/ ExchangeRequestUpdateStatus(x)
       \/ QueryXmatch(x) \/ PollXmatch(x) \/ PollFails(x)

XwSpec == XwInit /\ [][XwNext(MyRequests, MaxMatches)]_xwVars

(***************************************************************************)
(* Properties.                                                             *)
(***************************************************************************)
\* The rows have their types, and a match in the wallet is one that the node reported.
XwTypeOK ==
  /\ \A r \in MyRequests : /\ xrow[r].q \in 1..MaxMatches + 1 /\ xrow[r].disp \in {"open", "closed"}
                    /\ {xrow[r].num, xrow[r].poll, xrow[r].abandoned} \subseteq BOOLEAN
                    /\ xrow[r].num => xreqs[r].added
  /\ DOMAIN xwm \subseteq DOMAIN xms
  /\ \A m \in DOMAIN xwm : xwm[m].st \in {"open", xms[m].st} /\ {xwm[m].poll, xwm[m].marked} \subseteq BOOLEAN
  /\ \A m \in 1..MaxMatches : mined[m] \in 0..2

\* No match is lost: those before the saved QueryXmatchnum are in the wallet, and so are all
\* matches of a request that is not polled any more, although the position is saved long
\* after the matches and by several threads (PollXmatchreq).
AllMatchesKept ==
  \A r \in MyRequests : \A m \in DOMAIN xms :
    r \in Parties(m) /\ (m < xrow[r].q \/ ~xrow[r].poll) => MatchSaved(m)

\* A match that this wallet bought and that is saved as paid is in the total mined
\* (UpdateTotalMined runs in the transaction that saves the status).
MinedCounted == \A m \in DOMAIN xwm : xwm[m].st = "paid" /\ xms[m].buy \in MyRequests => mined[m] >= 1

\* A transaction is abandoned only if the exchange never knew its request
\* (PollXmatchreq with the status read before the database).
NoFalseAbandon == \A r \in MyRequests : xrow[r].abandoned => ~xreqs[r].added

\* A match that is not polled any more is closed in the blockchain: no copy of a row that
\* is saved late ends the polling of an open match (PollXmatch, ExchangeMatch::UpdatePollTime).
WatchedUntilClosed == \A m \in DOMAIN xwm : ~xwm[m].poll => MatchClosed(xms[m].st)

\* A match stays marked as paid, whatever copy of its row another thread saves later
\* (cc_crosschain_match_mark_paid, ExchangeMatchInsert).
MarkStays == [][\A m \in DOMAIN xwm : xwm[m].marked => xwm'[m].marked]_xwVars

\* The wallet keeps every match it is told of, counts what it mined, abandons no request that
\* is in the chain, polls a match until it is closed, and keeps its mark (Exchange::PollXreq,
\* PollXmatch, ExchangeMatchInsert).
XwCorrect == [](XwTypeOK /\ AllMatchesKept /\ MinedCounted /\ NoFalseAbandon /\ WatchedUntilClosed) /\ MarkStays
=============================================================================
