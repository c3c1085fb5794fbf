------------------------------ MODULE Polling ------------------------------
(***************************************************************************)
(* How the wallet finds payments: it derives the addresses of a            *)
(* destination by number, keeps a row for each in Secrets, and its poll    *)
(* threads (ccwallet/src/polling.cpp) ask the node for outputs paid to     *)
(* them (secrets.cpp, txquery.cpp), from query_commitnum on.  A payment to *)
(* an address makes the wallet watch further addresses.  The node is       *)
(* CommitTree, of which a query sees only what is committed.               *)
(***************************************************************************)
EXTENDS CommitTree

CONSTANTS PollThreads,   \* threads of polling.cpp
          Callers,       \* callers of PollDestination
          Ahead,         \* g_params.polling_addresses, and what a caller asks for
          PageSize,      \* WALLET_QUERY_ADDRESS_MAX_RESULTS
          MaxPolls,      \* bound: polls begun by threads and by callers
          MaxRestarts    \* bound: restarts of the wallet

Pollers == PollThreads \cup Callers

ASSUME PollAssumption ==
  /\ Addresses = 0..Cardinality(Addresses) - 1 /\ Ahead \in Nat \ {0} /\ PageSize \in Nat \ {0, 1}
  /\ PollThreads \cap Callers = {}

VARIABLES sec,       \* sec[n]: the Secrets row of the address with number n
          bills,     \* the commitment numbers of the wallet's billets
          poll,      \* poll[p]: what thread p is doing
          polls,     \* polls so far
          restarts

pollVars == <<sec, bills, poll, polls, restarts>>

\* first says that first_receive and last_receive are set.  When an address is polled next
\* depends on the clock, which is not modelled: it may be at any time.
NoRow == [type |-> "none", first |-> FALSE, qnum |-> 0]

NewRow(type) == [type |-> type, first |-> FALSE, qnum |-> 0]

\* qnum and got are the thread's own copy of the row; left are the results of the page that
\* it has yet to go through; upd is a caller's update_address, -1 when update_addresses is
\* not set.
IdlePoll == [pc |-> "idle", n |-> 0, qnum |-> 0, isFirst |-> FALSE, got |-> FALSE, error |-> FALSE,
             page |-> FALSE, left |-> {}, more |-> FALSE, upd |-> -1]

LastNumber == Cardinality(Addresses) - 1

(***************************************************************************)
(* SetPollingAddresses(number): with update_current the row of that number *)
(* becomes a receive address, and the next ones get a row if they have     *)
(* none.                                                                   *)
(***************************************************************************)
\* A mutation of SetPollingAddresses.
BuggyFewAddresses(s, number, current) ==
  [n \in Addresses |->
     IF n = number THEN (IF ~current THEN s[n] ELSE IF s[n].type = "none" THEN NewRow("recv") ELSE [s[n] EXCEPT !.type = "recv"])
     ELSE IF n \in number + 1..number + Ahead - 1 /\ s[n].type = "none" THEN NewRow("poll")
     ELSE s[n]]

SetPollingAddresses(s, number, current) ==
  [n \in Addresses |->
     IF n = number THEN (IF ~current THEN s[n] ELSE IF s[n].type = "none" THEN NewRow("recv") ELSE [s[n] EXCEPT !.type = "recv"])
     ELSE IF n \in number + 1..number + Ahead /\ s[n].type = "none" THEN NewRow("poll")
     ELSE s[n]]

\* UpdatePollTime: an address that received is a receive address.
UpdatePollTime(row) == [row EXCEPT !.type = IF row.first /\ @ = "poll" THEN "recv" ELSE @]

\* CreatePollingAddresses made the first rows.
CreatePollingAddresses == SetPollingAddresses([n \in Addresses |-> NoRow], 0, TRUE)

PollInit ==
  /\ sec = CreatePollingAddresses
  /\ bills = {} /\ poll = [p \in Pollers |-> IdlePoll] /\ polls = 0 /\ restarts = 0

\* PollAddress begins with the row as it was read.
Started(n, upd) == [IdlePoll EXCEPT !.pc = "query", !.n = n, !.qnum = sec[n].qnum, !.isFirst = ~sec[n].first, !.upd = upd]

\* DoPoll selects a row whose time has come and saves when it is polled next, before it asks.
DoPoll(p, n) ==
  /\ p \in PollThreads /\ poll[p].pc = "idle" /\ polls < MaxPolls /\ sec[n].type # "none"
  /\ sec' = [sec EXCEPT ![n] = UpdatePollTime(@)]
  /\ poll' = [poll EXCEPT ![p] = Started(n, -1)] /\ polls' = polls + 1
  /\ UNCHANGED <<treeVars, bills, restarts>>

\* PollDestination asks for every address of the destination in turn, due or not.
PollDestination(p) ==
  /\ p \in Callers /\ poll[p].pc = "idle" /\ polls < MaxPolls
  /\ poll' = [poll EXCEPT ![p] = Started(0, -1)] /\ polls' = polls + 1
  /\ UNCHANGED <<treeVars, sec, bills, restarts>>

\* QueryAddress: a page of results, "Not Found" being none.
QueryAddress(p) ==
  LET r == TxOutputsSelect(tdb, poll[p].n, poll[p].qnum, PageSize) IN
  /\ poll[p].pc = "query"
  /\ poll' = [poll EXCEPT ![p].left = r.nums, ![p].page = r.nums # {}, ![p].more = r.more, ![p].pc = "results"]
  /\ UNCHANGED <<treeVars, sec, bills, polls, restarts>>

\* The loop over the results: each is added in a transaction of its own unless the wallet
\* has it, and the copy of query_commitnum moves on.
AddResult(p) ==
  LET num == CHOOSE x \in poll[p].left : \A y \in poll[p].left : x <= y IN
  /\ poll[p].pc = "results" /\ poll[p].left # {}
  /\ bills' = bills \cup {num}
  /\ poll' = [poll EXCEPT ![p].left = @ \ {num}, ![p].qnum = IF @ <= num THEN num + 1 ELSE @]
  /\ UNCHANGED <<treeVars, sec, polls, restarts>>

\* A mutation of Returned.
BuggyReturned(p, q, s) ==
  LET upd == IF s[q.n].type # "poll" \/ q.got THEN q.n ELSE q.upd IN
  IF p \in PollThreads \/ q.error THEN IdlePoll
  ELSE IF q.n < LastNumber THEN [IdlePoll EXCEPT !.pc = "next", !.n = q.n + 1, !.upd = upd]
  ELSE IF upd = -1 THEN IdlePoll ELSE [IdlePoll EXCEPT !.pc = "more", !.n = q.n, !.upd = upd]

\* After PollAddress a poll thread is done, and so is a caller after an error.  A caller goes
\* on to the next address; after the last one it has more addresses made, once for each time
\* that it met one that is in use.
Returned(p, q, s) ==
  LET upd == IF s[q.n].type # "poll" \/ q.got THEN q.n ELSE q.upd IN
  IF p \in PollThreads \/ q.error THEN IdlePoll
  ELSE IF q.n < LastNumber /\ s[q.n + 1].type # "none" THEN [IdlePoll EXCEPT !.pc = "next", !.n = q.n + 1, !.upd = upd]
  ELSE IF upd = -1 THEN IdlePoll ELSE [IdlePoll EXCEPT !.pc = "more", !.n = q.n, !.upd = upd]

NextAddress(p) ==
  /\ poll[p].pc = "next"
  /\ poll' = [poll EXCEPT ![p] = Started(@.n, @.upd)]
  /\ UNCHANGED <<treeVars, sec, bills, polls, restarts>>

MoreAddresses(p) ==
  LET q == poll[p]
      s == SetPollingAddresses(sec, q.upd, FALSE) IN
  /\ q.pc = "more"
  /\ sec' = s
  /\ poll' = [poll EXCEPT ![p] = IF q.n < LastNumber /\ s[q.n + 1].type # "none" THEN [IdlePoll EXCEPT !.pc = "next", !.n = q.n + 1]
                                 ELSE IdlePoll]
  /\ UNCHANGED <<treeVars, bills, polls, restarts>>

\* The page is done: the next one, or the row is saved if a payment was seen or the caller
\* asked for it.
PageDone(p) ==
  LET q == [poll[p] EXCEPT !.got = @ \/ poll[p].page, !.page = FALSE] IN
  /\ q.pc = "results" /\ q.left = {}
  /\ poll' = [poll EXCEPT ![p] = IF q.more THEN [q EXCEPT !.pc = "query"]
                                 ELSE IF q.got \/ p \in Callers THEN [q EXCEPT !.pc = "save"] ELSE IdlePoll]
  /\ UNCHANGED <<treeVars, sec, bills, polls, restarts>>

\* A query or a database error: the rest of the page is given up and the row is saved.
PollError(p) ==
  /\ poll[p].pc = "query" \/ (poll[p].pc = "results" /\ poll[p].left # {})
  /\ poll' = [poll EXCEPT ![p].pc = "save", ![p].left = {}, ![p].page = FALSE, ![p].error = TRUE]
  /\ UNCHANGED <<treeVars, sec, bills, polls, restarts>>

\* A mutation of UpdateSavePollTime.
BuggyUpdateSavePollTime(p) ==
  LET q == poll[p]
      row == UpdatePollTime([sec[q.n] EXCEPT !.qnum = q.qnum, !.first = q.got])
      s == [sec EXCEPT ![q.n] = row] IN
  /\ q.pc = "save"
  /\ sec' = s
  /\ poll' = [poll EXCEPT ![p] = IF row.first /\ q.isFirst THEN [q EXCEPT !.pc = "extend"] ELSE Returned(p, q, s)]
  /\ UNCHANGED <<treeVars, bills, polls, restarts>>

\* UpdateSavePollTime: the row is read again and only moves forward, since another thread
\* may have saved it meanwhile.
UpdateSavePollTime(p) ==
  LET q == poll[p]
      row == UpdatePollTime([sec[q.n] EXCEPT !.qnum = IF @ < q.qnum THEN q.qnum ELSE @, !.first = @ \/ q.got])
      s == [sec EXCEPT ![q.n] = row] IN
  /\ q.pc = "save"
  /\ sec' = s
  /\ poll' = [poll EXCEPT ![p] = IF row.first /\ q.isFirst THEN [q EXCEPT !.pc = "extend"] ELSE Returned(p, q, s)]
  /\ UNCHANGED <<treeVars, bills, polls, restarts>>

\* UpdatePollingAddresses, after the first payment to an address.
UpdatePollingAddresses(p) ==
  LET q == poll[p]
      s == IF q.n < LastNumber THEN SetPollingAddresses(sec, q.n + 1, TRUE) ELSE sec IN
  /\ q.pc = "extend"
  /\ sec' = s
  /\ poll' = [poll EXCEPT ![p] = Returned(p, q, s)]
  /\ UNCHANGED <<treeVars, bills, polls, restarts>>

\* The wallet stops, or crashes, and starts again.
WalletRestart ==
  /\ restarts < MaxRestarts /\ \E p \in Pollers : poll[p] # IdlePoll
  /\ poll' = [p \in Pollers |-> IdlePoll] /\ restarts' = restarts + 1
  /\ UNCHANGED <<treeVars, sec, bills, polls>>

WalletPolls ==
  \/ \E p \in Pollers : \/ QueryAddress(p) \/ AddResult(p) \/ PageDone(p) \/ PollError(p)
                        \/ UpdateSavePollTime(p) \/ UpdatePollingAddresses(p)
                        \/ PollDestination(p) \/ NextAddress(p) \/ MoreAddresses(p)
                        \/ \E n \in Addresses : DoPoll(p, n)
  \/ WalletRestart

(***************************************************************************)
(* Properties.                                                             *)
(***************************************************************************)
\* The variables have their types; only a row that exists is polled.
PollTypeOK ==
  /\ \A n \in Addresses : /\ sec[n].type \in {"none", "recv", "poll"}
                          /\ sec[n].qnum \in Nat /\ sec[n].first \in BOOLEAN
                          /\ sec[n].type = "none" => sec[n] = NoRow
  /\ \A p \in Pollers : poll[p].pc # "idle" => sec[poll[p].n].type # "none"
  /\ bills \subseteq {o.num : o \in tdb.outs} /\ polls \in 0..MaxPolls /\ restarts \in 0..MaxRestarts

\* Nothing below query_commitnum is missed: every output to an address that is below the
\* saved query_commitnum is a billet of the wallet, whatever threads polled the address at
\* the same time, in pages, with blocks committed and restarts in between.
NothingSkipped == \A n \in Addresses : \A o \in tdb.outs : o.addr = n /\ o.num < sec[n].qnum => o.num \in bills

\* Unless the wallet was restarted, an address that received a payment is followed by a
\* receive address and Ahead more that are watched ("create next address for destination",
\* secrets.cpp:1588).
AddressesAhead ==
  restarts = 0 => \A n \in Addresses :
    sec[n].first /\ (\A p \in Pollers : ~(poll[p].pc = "extend" /\ poll[p].n = n)) =>
      \A m \in Addresses \cap (n + 1..n + 1 + Ahead) : sec[m].type # "none"

\* A row never goes back: what was queried stays queried, and a receive address stays one.
RowsForward ==
  [][\A n \in Addresses : /\ sec'[n].qnum >= sec[n].qnum
                          /\ sec[n].first => sec'[n].first
                          /\ sec[n].type = "recv" => sec'[n].type = "recv"]_sec

\* Polling skips no payment, keeps enough addresses ahead of those that were paid, and never
\* sets a row of Secrets back (PollDestination, UpdateSavePollTime, SetPollingAddresses).
PollCorrect == [](PollTypeOK /\ NothingSkipped /\ AddressesAhead) /\ RowsForward
=============================================================================
