----------------------------- MODULE Directory -----------------------------
(***************************************************************************)
(* The rendezvous server (cctracker/src/dir.cpp, dirserver.cpp) and the    *)
(* nodes that ask it for hosts (ccnode/src/hostdir.cpp).                   *)
(*                                                                         *)
(* The server keeps the host names in a circular list, in the order they   *)
(* were added, and finds them with a hash table with linear probing, whose *)
(* slots are NULL, CHAINED (expired, but entries follow) or the position   *)
(* in the list.  A name that comes again is moved to the end of the list,  *)
(* which leaves a cleared entry behind; a thread expires the entries at    *)
(* the head, as many in a period as were added EXPIRE_ENTRIES periods ago. *)
(* Add and ExpireHead hold m_dir_lock.                                     *)
(***************************************************************************)
EXTENDS Naturals, Sequences, FiniteSets, FiniteSetsExt, SequencesExt

CONSTANTS Hosts,          \* the hosts that announce themselves
          HashSize,       \* m_hash_size
          ListSize,       \* m_list_size
          ExpireEntries,  \* EXPIRE_ENTRIES
          QueryMax,       \* RELAY_QUERY_MAX_NAMES
          MaxSaved,       \* MAX_SAVED_HOSTS
          TimeAllowance,  \* g_time_allowance in units of 10 minutes
          MaxPeriods      \* bound: periods

ASSUME DirectoryAssumption ==
  {HashSize, ListSize, ExpireEntries, QueryMax, MaxSaved, TimeAllowance, MaxPeriods} \subseteq Nat /\ ListSize \in 1..(HashSize - 1) /\ ExpireEntries > 0

VARIABLES hashOf,   \* the slot each name hashes to; the key is picked when the server starts
          slots,    \* m_hashtable: slots[i] is NULL, CHAINED or Used(position, host)
          names,    \* m_namelist: names[i] is a host, or Cleared
          born,     \* born[i]: the period in which names[i] was added
          ring,     \* m_list_head and m_list_nentries
          expiry,   \* m_expire_count, its index, expired and m_expire_last_list_nentries
          period,   \* periods that passed
          spins,    \* a loop over the slots does not end, with m_dir_lock held
          hostnames     \* HostDir::hostnames of a node

dirVars == <<hashOf, slots, names, born, ring, expiry, period, spins, hostnames>>

NULL == [st |-> "null"]
CHAINED == [st |-> "chained"]
Used(p, h) == [st |-> "used", at |-> p, name |-> h]
Cleared == "cleared"

InUse(s) == s.st = "used"

Positions == 0..(ListSize - 1)
Slots == 0..(HashSize - 1)

DirInit ==
  /\ hashOf \in [Hosts -> Slots]
  /\ slots = [i \in Slots |-> NULL] /\ names = [i \in Positions |-> Cleared] /\ born = [i \in Positions |-> 0]
  /\ ring = [head |-> 0, n |-> 0]
  /\ expiry = [count |-> [i \in 0..(ExpireEntries - 1) |-> 0], index |-> 0, expired |-> 0, last |-> 0]
  /\ period = 0 /\ spins = FALSE /\ hostnames = <<>>

(***************************************************************************)
(* Probing.  The k-th slot that is looked at from slot i on.               *)
(***************************************************************************)
Probe(i, k) == (i + k) % HashSize

\* The slots from i to the first NULL, HashSize of them when there is none.
Reach(i) ==
  LET ends == {k \in 0..(HashSize - 1) : slots[Probe(i, k)] = NULL}
  IN  IF ends = {} THEN HashSize ELSE Min(ends)

Holds(i, h) == InUse(slots[i]) /\ slots[i].name = h

\* Find2, for a name of the list; HashSize: no slot is found.
Find2(h) ==
  LET found == {k \in 0..(Reach(hashOf[h]) - 1) : Holds(Probe(hashOf[h], k), h)}
  IN  IF found = {} THEN HashSize ELSE Probe(hashOf[h], Min(found))

\* The slot where Add puts a new name: the first CHAINED one of the probe, or the NULL that ends it.
FreeSlot(h) ==
  LET chained == {k \in 0..(Reach(hashOf[h]) - 1) : slots[Probe(hashOf[h], k)] = CHAINED}
  IN  Probe(hashOf[h], IF chained = {} THEN Reach(hashOf[h]) ELSE Min(chained))

ListEnd == (ring.head + ring.n) % ListSize

\* AddList: at the end of the list, with slot i pointing there.
AddList(h, i, list) ==
  /\ names' = [list EXCEPT ![ListEnd] = h]
  /\ born' = [born EXCEPT ![ListEnd] = period]
  /\ ring' = [ring EXCEPT !.n = @ + 1]
  /\ slots' = [slots EXCEPT ![i] = Used(ListEnd, h)]

\* FindExpire: the periods until position p expires, from the counts.  It does not wrap around, so a position
\* before the head is not found.
FindExpire(p) ==
  LET count(k) == expiry.count[(expiry.index + k) % ExpireEntries]
      upTo(k) == ring.head + FoldSet(LAMBDA j, acc : acc + count(j), 0, 0..(k - 1))
      hits == {k \in 0..(ExpireEntries - 1) : upTo(k) <= p /\ p < upTo(k + 1)}
  IN  IF hits = {} THEN [found |-> FALSE, periods |-> 0] ELSE [found |-> TRUE, periods |-> Min(hits)]

BuggyUpdate(h, i) ==
  LET p == slots[i].at
      e == FindExpire(p)
  IN  IF ~e.found \/ e.periods * 2 > ExpireEntries THEN UNCHANGED <<slots, names, born, ring>>
      ELSE AddList(h, i, names)

\* Update: a name is moved to the end of the list when half of its time is over.
Update(h, i) ==
  LET p == slots[i].at
      e == FindExpire(p)
  IN  IF names[p] # h \/ ~e.found \/ e.periods * 2 > ExpireEntries THEN UNCHANGED <<slots, names, born, ring>>
      ELSE AddList(h, i, [names EXCEPT ![p] = Cleared])

\* Add.  A full list refuses every name, those it holds too.  With no NULL in the table the loop ends only
\* if it finds the name.
Add(h) ==
  \/ /\ ring.n = ListSize /\ UNCHANGED <<slots, names, born, ring, spins>>
  \/ /\ ring.n < ListSize
     /\ IF Find2(h) < HashSize THEN Update(h, Find2(h)) /\ UNCHANGED spins
        ELSE IF Reach(hashOf[h]) = HashSize THEN spins' = TRUE /\ UNCHANGED <<slots, names, born, ring>>
        ELSE AddList(h, FreeSlot(h), names) /\ UNCHANGED spins

(***************************************************************************)
(* Expiry.                                                                 *)
(***************************************************************************)
\* What follows slot i: the first slot that is not CHAINED, i itself when all others are.
NextNotChained(i) ==
  LET ks == {k \in 1..(HashSize - 1) : slots[Probe(i, k)] # CHAINED}
  IN  IF ks = {} THEN 0 ELSE Min(ks)

\* The slots that become NULL with slot i when a NULL follows: i and the CHAINED ones around it.
ChainBefore(i) ==
  {Probe(i, HashSize - k) : k \in {n \in 1..(HashSize - 1) : \A m \in 1..n : slots[Probe(i, HashSize - m)] = CHAINED}}

ChainAfter(i) == {Probe(i, k) : k \in {n \in 1..(HashSize - 1) : \A m \in 1..n : slots[Probe(i, m)] = CHAINED}}

BuggyKeepChained(i) == slots' = [slots EXCEPT ![i] = CHAINED] /\ UNCHANGED spins

BuggyReleaseSlot(i) ==
  /\ slots' = [j \in Slots |-> IF j = i THEN NULL ELSE slots[j]]
  /\ UNCHANGED spins

\* The end of ExpireHead.
ReleaseSlot(i) ==
  LET k == NextNotChained(i)
  IN  IF k = 0 THEN spins' = TRUE /\ slots' = [slots EXCEPT ![i] = CHAINED]
      ELSE /\ UNCHANGED spins
           /\ slots' = IF InUse(slots[Probe(i, k)]) THEN [slots EXCEPT ![i] = CHAINED]
                       ELSE [j \in Slots |-> IF j \in {i} \cup ChainBefore(i) \cup ChainAfter(i) THEN NULL ELSE slots[j]]

\* A cleared entry has no slot of its own any more.
ExpireHead ==
  IF ring.n = 0 THEN UNCHANGED <<slots, names, born, ring, spins>>
  ELSE /\ ring' = [head |-> (ring.head + 1) % ListSize, n |-> ring.n - 1]
       /\ born' = [born EXCEPT ![ring.head] = 0] /\ UNCHANGED names
       /\ LET h == names[ring.head]
          IN  IF h = Cleared \/ Find2(h) = HashSize THEN UNCHANGED <<slots, spins>> ELSE ReleaseSlot(Find2(h))

Expire ==
  /\ ~spins /\ expiry.expired < expiry.count[expiry.index]
  /\ ExpireHead
  /\ expiry' = [expiry EXCEPT !.expired = @ + 1]
  /\ UNCHANGED <<hashOf, period, hostnames>>

BuggyEndPeriod ==
  /\ ~spins /\ expiry.expired = expiry.count[expiry.index] /\ period < MaxPeriods
  /\ period' = period + 1
  /\ expiry' = [count |-> [expiry.count EXCEPT ![expiry.index] = ring.n - expiry.last],
                index |-> (expiry.index + 1) % ExpireEntries, expired |-> 0, last |-> ring.n]
  /\ UNCHANGED <<hashOf, slots, names, born, ring, spins, hostnames>>

\* The period ends when everything due in it has expired.
EndPeriod ==
  /\ ~spins /\ expiry.expired = expiry.count[expiry.index] /\ period < MaxPeriods
  /\ period' = period + 1
  /\ expiry' = [count |-> [expiry.count EXCEPT ![expiry.index] = (expiry.expired + ring.n) - expiry.last],
                index |-> (expiry.index + 1) % ExpireEntries, expired |-> 0, last |-> ring.n]
  /\ UNCHANGED <<hashOf, slots, names, born, ring, spins, hostnames>>

(***************************************************************************)
(* Queries.                                                                *)
(***************************************************************************)
BuggyPickPositions(seed, max) ==
  LET ne == ring.n
      n == IF max > ne THEN ne ELSE max
      live(p) == ring.head + p >= ListSize \/ names[ring.head + p] # Cleared
      pick(i) == LET ks == {k \in 0..(ne - 1) : live((seed + i + k) % ne)} IN IF ks = {} THEN {} ELSE {(seed + i + Min(ks)) % ne}
  IN  IF ne = 0 THEN <<>> ELSE [i \in 1..n |-> pick(i - 1)]

\* PickN: from a random position on, one name from each of n stretches of the list, the first that is not
\* cleared.  The positions do not wrap around at the end of the list: past it, they are not names.
PickPositions(seed, max) ==
  LET ne == ring.n
      n == IF max > ne THEN ne ELSE max
      step == ne \div n
      pos(i) == (seed + i * step) % ne
      width == IF ne = 1 THEN 1 ELSE IF n = 1 THEN 0 ELSE step
      live(p) == ring.head + p >= ListSize \/ names[ring.head + p] # Cleared
      pick(i) == LET ks == {k \in 0..(width - 1) : live((pos(i) + k) % ne)} IN IF ks = {} THEN {} ELSE {(pos(i) + Min(ks)) % ne}
  IN  IF ne = 0 THEN <<>> ELSE [i \in 1..n |-> pick(i - 1)]

Picked(seed) == UNION {PickPositions(seed, QueryMax)[i] : i \in DOMAIN PickPositions(seed, QueryMax)}

\* PrepareQuery: what a node sends; a service that is off has no name.
PrepareQuery(relay, block, time) ==
  << [tag |-> "T", time |-> time] >> \o (IF relay THEN <<[tag |-> "R"]>> ELSE <<>>)
    \o (IF block THEN <<[tag |-> "B"]>> ELSE <<>>) \o << [tag |-> "W"], [tag |-> "Q"] >>

BuggyRequestAccepted(q, now) == \A i \in DOMAIN q : q[i].tag = "T" => now < q[i].time + TimeAllowance

\* HandleReadComplete: the proof of work is there and comes after what it covers, and the time is near.
RequestAccepted(q, now) ==
  LET work == {i \in DOMAIN q : q[i].tag = "W"}
  IN  /\ work # {} /\ \A i \in DOMAIN q : q[i].tag \in {"T", "R", "B"} => \A w \in work : i < w
      /\ \A i \in DOMAIN q : q[i].tag \in {"T", "R", "B", "W", "Q"}
      /\ \E i \in DOMAIN q : q[i].tag = "T"
      /\ \A i \in DOMAIN q : q[i].tag = "T" => now <= q[i].time + TimeAllowance /\ q[i].time <= now + TimeAllowance

BuggyParseNameArray(hs) == hostnames \o hs

\* ParseNameArray: the oldest name makes room for one that does not fit.
ParseNameArray(hs) ==
  LET add(kept, h) == Append(IF Len(kept) > MaxSaved THEN Tail(kept) ELSE kept, h)
  IN  FoldLeft(add, hostnames, hs)

\* QueryServer: the query can fail, and then nothing was added, or only the answer is lost.
QueryServer(h) ==
  \/ UNCHANGED <<slots, names, born, ring, spins, hostnames>>
  \/ Add(h) /\ UNCHANGED hostnames
  \/ /\ Add(h) /\ ~spins'
     /\ \E seed \in 0..(ListSize - 1) :
          LET inList == {p \in Picked(seed) : ring.head + p < ListSize}
          IN  hostnames' = ParseNameArray(SetToSeq({names[ring.head + p] : p \in inList}))

\* GetHostName, without a type only to announce the node; else it asks the server when no name is left, and
\* passes over the node's own name.
GetHostName(h, typed) ==
  /\ ~spins
  /\ IF typed /\ hostnames # <<>>
     THEN /\ hostnames' = LET others == {i \in DOMAIN hostnames : hostnames[i] # h}
                      IN  IF others = {} THEN <<>> ELSE SubSeq(hostnames, Min(others) + 1, Len(hostnames))
          /\ UNCHANGED <<slots, names, born, ring, spins>>
     ELSE QueryServer(h)
  /\ UNCHANGED <<hashOf, expiry, period>>

DirNext == (\E h \in Hosts, typed \in BOOLEAN : GetHostName(h, typed)) \/ Expire \/ EndPeriod

DirSpec == DirInit /\ [][DirNext]_dirVars

(***************************************************************************)
(* Properties.                                                             *)
(***************************************************************************)
Listed == {(ring.head + k) % ListSize : k \in 0..(ring.n - 1)}

Live == {p \in Listed : names[p] # Cleared}

DirTypeOK ==
  /\ ring.head \in Positions /\ ring.n \in 0..ListSize
  /\ \A p \in Positions : names[p] \in Hosts \cup {Cleared}
  /\ expiry.expired <= expiry.count[expiry.index]
  /\ spins \in BOOLEAN /\ Len(hostnames) <= MaxSaved + 1 /\ \A i \in DOMAIN hostnames : hostnames[i] \in Hosts

\* The list and the table agree: every name in the list has one entry that is not cleared, and the probe from
\* the slot it hashes to finds it there, whatever was expired around it; no slot is in use without an entry
\* (dir.cpp 148-254, 341-405).
TableMatchesList ==
  /\ \A p \in Live : Find2(names[p]) < HashSize /\ slots[Find2(names[p])].at = p
  /\ Cardinality({i \in Slots : InUse(slots[i])}) = Cardinality(Live)

\* A CHAINED slot is left behind only where an entry follows: the table is emptied again (dir.cpp 391).
NoUselessChain == spins \/ \A i \in Slots : slots[i] = CHAINED => InUse(slots[Probe(i, NextNotChained(i))])

\* An entry expires in the period that is EXPIRE_ENTRIES after the one it was added in, not earlier and not
\* later, however many names came in between (dir.cpp 408-455, comment of cctracker.cpp 87).
ExpiresOnTime ==
  /\ \A p \in Listed : born[p] + ExpireEntries >= period
  /\ expiry.expired < expiry.count[expiry.index] => ring.n > 0 /\ born[ring.head] + ExpireEntries = period

\* As long as the list has not wrapped around, an answer names no host twice, and no cleared entry.
PicksDistinct ==
  ring.head + ring.n <= ListSize
    => \A seed \in 0..(ListSize - 1) :
         LET picks == PickPositions(seed, QueryMax)
         IN  \A i, j \in DOMAIN picks : /\ \A p \in picks[i] : names[ring.head + p] # Cleared
                                        /\ i # j => picks[i] \cap picks[j] = {}

\* The server takes what a node sends whose clock is near enough, whichever services it has (hostdir.cpp
\* 144-203, dirserver.cpp 62-165).
QueriesAccepted ==
  \A relay, block \in BOOLEAN, time, now \in 0..(2 * TimeAllowance + 1) :
    time <= now + TimeAllowance /\ now <= time + TimeAllowance => RequestAccepted(PrepareQuery(relay, block, time), now)

\* The directory: hash table and list agree, no slot is chained for nothing, entries expire
\* when they should, the hosts of an answer are different ones, and what a node asks is
\* understood (Dir::Add, ExpireHead, PickN, DirServer, HostDir).
DirInv == DirTypeOK /\ TableMatchesList /\ NoUselessChain /\ ExpiresOnTime /\ PicksDistinct /\ QueriesAccepted
=============================================================================
