-------------------------- MODULE SerialNumsProofs --------------------------
(***************************************************************************)
(* Proofs about module SerialNums, for any tree of blocks, any             *)
(* transactions, thresholds and prune trail, and calls on the tables that  *)
(* may fail.  What makes the double-spend check work is not visible in     *)
(* SerialInv: rows of Temp_Serials are kept down to the level last pruned, *)
(* the persistent database holds all of the last indelible chain, a number *)
(* not found there was not spent on the chain of the snapshot, and what a  *)
(* thread has checked for its block stays unspent below that block.        *)
(***************************************************************************)
EXTENDS SerialNums, WellFoundedInduction, TLAPS

-----------------------------------------------------------------------------
(* The tree of blocks.                                                       *)

\* A set of numbers has a least one
LEMMA LeastNumber ==
    ASSUME NEW T \in SUBSET Nat, T # {}
    PROVE  \E n \in T : \A m \in T : n <= m
<1>1. PICK n \in T : \A m \in T : ~(<<m, n>> \in OpToRel(<, Nat))
  BY NatLessThanWellFounded, WFMin
<1>2. \A m \in T : ~(m < n)
  BY <1>1 DEF OpToRel
<1> QED BY <1>2

\* Induction from the genesis block upwards, over sets of blocks
LEMMA TreeInduction ==
    ASSUME NEW S, Root \in S, \A b \in Blocks \ {Root} : PriorOf[b] \in S => b \in S
    PROVE  Blocks \subseteq S
<1> SUFFICES ASSUME NEW x \in Blocks \ S PROVE FALSE
  OBVIOUS
<1> DEFINE T == {LevelOf[b] : b \in Blocks \ S}
<1>1. T \in SUBSET Nat /\ T # {}
  BY TreeAssumption
<1>2. PICK n \in T : \A m \in T : n <= m
  BY <1>1, LeastNumber
<1>3. PICK b \in Blocks \ S : LevelOf[b] = n
  BY <1>2
<1>4. b # Root /\ PriorOf[b] \in Blocks /\ PriorOf[b] \notin S /\ LevelOf[b] = LevelOf[PriorOf[b]] + 1
  BY <1>3, TreeAssumption
<1>5. LevelOf[PriorOf[b]] \in T /\ LevelOf[PriorOf[b]] \in Nat
  BY <1>4, TreeAssumption
<1>6. n <= LevelOf[PriorOf[b]]
  BY <1>2, <1>5
<1> QED BY <1>3, <1>4, <1>5, <1>6

\* The blocks that every set with b and the prior blocks of its members has
Below(b) == {c \in Blocks : \A S \in SUBSET Blocks : b \in S /\ (\A x \in S \ {Root} : PriorOf[x] \in S) => c \in S}

\* So the recursive definition of Chain has a solution, and Chain is one
LEMMA ChainIs ==
    /\ Chain[Root] = {Root}
    /\ \A b \in Blocks \ {Root} : Chain[b] = {b} \cup Chain[PriorOf[b]]
<1> DEFINE f == [b \in Blocks |-> Below(b)]
<1>1. Below(Root) = {Root}
  <2>1. {Root} \in SUBSET Blocks /\ \A x \in {Root} \ {Root} : PriorOf[x] \in {Root}
    BY TreeAssumption
  <2>2. Below(Root) \subseteq {Root}
    BY <2>1 DEF Below
  <2>3. Root \in Below(Root)
    BY TreeAssumption DEF Below
  <2> QED BY <2>2, <2>3
<1>2. \A b \in Blocks \ {Root} : Below(b) = {b} \cup Below(PriorOf[b])
  <2> SUFFICES ASSUME NEW b \in Blocks \ {Root} PROVE Below(b) = {b} \cup Below(PriorOf[b])
    OBVIOUS
  <2>0. PriorOf[b] \in Blocks
    BY TreeAssumption
  <2>1. b \in Below(b)
    BY DEF Below
  <2>2. Below(PriorOf[b]) \subseteq Below(b)
    <3> SUFFICES ASSUME NEW c \in Below(PriorOf[b]), NEW S \in SUBSET Blocks, b \in S, \A x \in S \ {Root} : PriorOf[x] \in S
                 PROVE  c \in S
      BY DEF Below
    <3>1. PriorOf[b] \in S
      OBVIOUS
    <3> QED BY <3>1 DEF Below
  <2>3. Below(b) \subseteq {b} \cup Below(PriorOf[b])
    <3> DEFINE S == {b} \cup Below(PriorOf[b])
    <3>1. S \in SUBSET Blocks /\ b \in S
      BY DEF Below
    <3>2. PriorOf[b] \in Below(PriorOf[b])
      BY <2>0 DEF Below
    <3>3. ASSUME NEW x \in Below(PriorOf[b]), x # Root PROVE PriorOf[x] \in Below(PriorOf[b])
      <4>1. PriorOf[x] \in Blocks
        BY TreeAssumption DEF Below
      <4> QED BY <3>3, <4>1 DEF Below
    <3>4. \A x \in S \ {Root} : PriorOf[x] \in S
      BY <3>2, <3>3
    <3> HIDE DEF S
    <3>5. \A c \in Below(b) : c \in S
      BY <3>1, <3>4 DEF Below
    <3> QED BY <3>5 DEF S
  <2> QED BY <2>1, <2>2, <2>3
<1>3. \A b \in Blocks : f[b] = IF b = Root THEN {Root} ELSE {b} \cup f[PriorOf[b]]
  BY <1>1, <1>2, TreeAssumption
<1>4. f = [b \in Blocks |-> IF b = Root THEN {Root} ELSE {b} \cup f[PriorOf[b]]]
  BY <1>3
<1>5. \E g : g = [b \in Blocks |-> IF b = Root THEN {Root} ELSE {b} \cup g[PriorOf[b]]]
  BY <1>4
<1>6. Chain = [b \in Blocks |-> IF b = Root THEN {Root} ELSE {b} \cup Chain[PriorOf[b]]]
  BY <1>5 DEF Chain
<1> QED BY <1>6, TreeAssumption

LEMMA PriorFacts ==
    ASSUME NEW b \in Blocks \ {Root}
    PROVE  PriorOf[b] \in Blocks /\ LevelOf[PriorOf[b]] \in Nat /\ LevelOf[b] = LevelOf[PriorOf[b]] + 1
BY TreeAssumption

\* A chain is a set of blocks with the genesis block and its top
LEMMA ChainMembers == ASSUME NEW b \in Blocks PROVE Chain[b] \subseteq Blocks /\ b \in Chain[b] /\ Root \in Chain[b]
<1> DEFINE S == {x \in Blocks : Chain[x] \subseteq Blocks /\ x \in Chain[x] /\ Root \in Chain[x]}
<1>1. Root \in S
  BY ChainIs, TreeAssumption
<1>2. \A x \in Blocks \ {Root} : PriorOf[x] \in S => x \in S
  BY ChainIs, PriorFacts
<1>3. Blocks \subseteq S
  <2> HIDE DEF S
  <2> QED BY <1>1, <1>2, TreeInduction
<1> QED BY <1>3

\* All blocks below the top are on lower levels, and on the chain of its prior block
LEMMA ChainLevels ==
    ASSUME NEW b \in Blocks, NEW c \in Chain[b]
    PROVE  /\ c \in Blocks /\ LevelOf[c] \in Nat /\ LevelOf[b] \in Nat /\ LevelOf[c] <= LevelOf[b]
           /\ c # b => b # Root /\ LevelOf[c] < LevelOf[b] /\ c \in Chain[PriorOf[b]]
<1> DEFINE S == {x \in Blocks : \A y \in Chain[x] : LevelOf[y] <= LevelOf[x] /\ (y # x => LevelOf[y] < LevelOf[x])}
<1>1. Root \in S
  BY ChainIs, TreeAssumption
<1>2. ASSUME NEW x \in Blocks \ {Root}, PriorOf[x] \in S PROVE x \in S
  <2> SUFFICES ASSUME NEW y \in Chain[x] PROVE LevelOf[y] <= LevelOf[x] /\ (y # x => LevelOf[y] < LevelOf[x])
    OBVIOUS
  <2>1. CASE y = x
    BY <2>1, TreeAssumption
  <2>2. CASE y # x
    <3>1. y \in Chain[PriorOf[x]] /\ PriorOf[x] \in Blocks
      BY <2>2, ChainIs, PriorFacts
    <3>2. y \in Blocks /\ LevelOf[y] \in Nat
      BY <3>1, ChainMembers, TreeAssumption
    <3>3. LevelOf[y] <= LevelOf[PriorOf[x]]
      BY <1>2, <3>1
    <3> QED BY <3>2, <3>3, PriorFacts
  <2> QED BY <2>1, <2>2
<1>3. Blocks \subseteq S
  <2> HIDE DEF S
  <2> QED BY <1>1, <1>2, TreeInduction
<1>4. LevelOf[c] <= LevelOf[b] /\ (c # b => LevelOf[c] < LevelOf[b])
  BY <1>3
<1>5. c \in Blocks /\ LevelOf[c] \in Nat /\ LevelOf[b] \in Nat
  BY ChainMembers, TreeAssumption
<1>6. c # b => b # Root /\ c \in Chain[PriorOf[b]]
  BY ChainIs
<1> QED BY <1>4, <1>5, <1>6

\* A set that has the prior blocks of its members has their chains
LEMMA ChainInside ==
    ASSUME NEW V \in SUBSET Blocks, \A x \in V \ {Root} : PriorOf[x] \in V, NEW b \in V
    PROVE  Chain[b] \subseteq V
<1> DEFINE S == {x \in Blocks : x \in V => Chain[x] \subseteq V}
<1>1. Root \in S
  BY ChainIs, TreeAssumption
<1>2. \A x \in Blocks \ {Root} : PriorOf[x] \in S => x \in S
  BY ChainIs
<1>3. Blocks \subseteq S
  <2> HIDE DEF S
  <2> QED BY <1>1, <1>2, TreeInduction
<1> QED BY <1>3

LEMMA ChainClosed ==
    ASSUME NEW b \in Blocks
    PROVE  Chain[b] \in SUBSET Blocks /\ \A x \in Chain[b] \ {Root} : PriorOf[x] \in Chain[b]
<1> DEFINE S == {x \in Blocks : \A y \in Chain[x] \ {Root} : PriorOf[y] \in Chain[x]}
<1>1. Root \in S
  BY ChainIs, TreeAssumption
<1>2. ASSUME NEW x \in Blocks \ {Root}, PriorOf[x] \in S PROVE x \in S
  <2>1. Chain[x] = {x} \cup Chain[PriorOf[x]] /\ PriorOf[x] \in Chain[PriorOf[x]]
    BY ChainIs, ChainMembers, PriorFacts
  <2> QED BY <1>2, <2>1
<1>3. Blocks \subseteq S
  <2> HIDE DEF S
  <2> QED BY <1>1, <1>2, TreeInduction
<1> QED BY <1>3, ChainMembers

LEMMA ChainOfMember == ASSUME NEW b \in Blocks, NEW c \in Chain[b] PROVE Chain[c] \subseteq Chain[b]
BY ChainClosed, ChainInside

\* Of two blocks of a chain the lower one is on the chain of the other
LEMMA ChainOrder ==
    ASSUME NEW b \in Blocks, NEW a \in Chain[b], NEW c \in Chain[b], LevelOf[a] <= LevelOf[c]
    PROVE  a \in Chain[c]
<1> DEFINE S == {x \in Blocks : \A y, z \in Chain[x] : LevelOf[y] <= LevelOf[z] => y \in Chain[z]}
<1>1. Root \in S
  BY ChainIs, TreeAssumption
<1>2. ASSUME NEW x \in Blocks \ {Root}, PriorOf[x] \in S PROVE x \in S
  <2> SUFFICES ASSUME NEW y \in Chain[x], NEW z \in Chain[x], LevelOf[y] <= LevelOf[z] PROVE y \in Chain[z]
    OBVIOUS
  <2>1. CASE z = x
    BY <2>1
  <2>2. CASE z # x
    <3>1. LevelOf[z] < LevelOf[x] /\ z \in Chain[PriorOf[x]] /\ LevelOf[z] \in Nat /\ LevelOf[x] \in Nat
      BY <2>2, ChainLevels
    <3>2. y # x
      BY <3>1
    <3>3. y \in Chain[PriorOf[x]]
      BY <3>2, ChainLevels
    <3> QED BY <1>2, <3>1, <3>3
  <2> QED BY <2>1, <2>2
<1>3. Blocks \subseteq S
  <2> HIDE DEF S
  <2> QED BY <1>1, <1>2, TreeInduction
<1> QED BY <1>3

-----------------------------------------------------------------------------
(* Where the threads are, and what they have in hand.                        *)

Working == {"check", "persistent", "temp", "insert"}
Building == Working \cup {"build", "update"}
Making == Building \cup {"insertvalid"}
Confirming == {"confirm", "begin", "commit", "setlast"}
Points == Making \cup Confirming \cup {"idle", "prune"}

\* The block of a thread is new until it is inserted, and the witness's own or a peer's
PlaceOK(t) ==
    /\ pc[t] = "build" => t = Witness
    /\ pc[t] \in Making => cur[t] \notin valid /\ PriorOf[cur[t]] \in valid /\ (cur[t] \in Own <=> t = Witness)
    /\ pc[t] \in Confirming => cur[t] \in valid
    /\ (pc[t] \in {"commit", "setlast"}) <=> (mutex = t)

\* What is checked one after the other, and how much of it is behind
Source(t) == IF t = ProcessBlock THEN spends[cur[t]] ELSE tx
Done(t) == Len(Source(t)) - Len(todo[t])

\* What is still to do is the rest of it
HandOK(t) ==
    pc[t] \in Working =>
        /\ todo[t] # << >> /\ Len(todo[t]) <= Len(Source(t))
        /\ \A i \in 1 .. Len(todo[t]) : todo[t][i] = Source(t)[Done(t) + i]
        /\ t = Witness => tx \in Txs

\* With a block its prior block is valid
ValidTree == Root \in valid /\ \A b \in valid \ {Root} : PriorOf[b] \in valid

\* The blocks of others stay as they came
PeersFixed == \A b \in Blocks \ Own : spends[b] = SpendsOf[b]

\* A block that was refused came from a peer
Refused == rejected \cap Own = {} /\ Root \notin rejected /\ \A b \in rejected : PriorOf[b] \in valid

Shape == SerialTypeOK /\ ValidTree /\ PeersFixed /\ Refused /\ \A t \in Threads : PlaceOK(t) /\ HandOK(t)

LEMMA ThreadsAre == ProcessBlock # Witness /\ Threads = {ProcessBlock, Witness} /\ None \notin Threads
BY SerialsAssumption DEF Threads, ProcessBlock, Witness

LEMMA PcPoints == ASSUME SerialTypeOK PROVE pc \in [Threads -> Points]
BY DEF SerialTypeOK, Points, Making, Building, Working, Confirming

\* A thread goes on to another point
LEMMA Moved ==
    ASSUME SerialTypeOK, NEW t \in Threads, NEW x \in Points, Goto(t, x)
    PROVE  pc' \in [Threads -> Points] /\ pc'[t] = x /\ \A u \in Threads \ {t} : pc'[u] = pc[u]
BY PcPoints DEF Goto

LEMMA PointsType == ASSUME pc' \in [Threads -> Points]
    PROVE  pc' \in [Threads -> {"idle", "build", "check", "persistent", "temp", "insert", "update",
                                "insertvalid", "confirm", "begin", "commit", "setlast", "prune"}]
BY DEF Points, Making, Building, Working, Confirming

\* The thread that does not move keeps its place and what it has in hand
LEMMA OtherThread ==
    ASSUME Shape, NEW u \in Threads, pc'[u] = pc[u], cur'[u] = cur[u], todo'[u] = todo[u], u = Witness => tx' = tx,
           SerialTypeOK', PeersFixed', valid \subseteq valid', (mutex' = u) <=> (mutex = u),
           pc[u] \in Making => cur[u] \notin valid'
    PROVE  PlaceOK(u)' /\ HandOK(u)'
<1>1. PlaceOK(u) /\ HandOK(u) /\ cur[u] \in Blocks
  BY DEF Shape, SerialTypeOK
<1>2. PlaceOK(u)'
  BY <1>1 DEF PlaceOK
<1>3. HandOK(u)'
  <2> SUFFICES ASSUME pc[u] \in Working PROVE HandOK(u)'
    BY DEF HandOK
  <2>1. CASE u = ProcessBlock
    <3>1. cur[u] \notin Own
      BY <1>1, <2>1, ThreadsAre DEF PlaceOK, Making, Building
    <3>2. spends'[cur'[u]] = spends[cur[u]]
      BY <1>1, <3>1 DEF Shape, PeersFixed
    <3>3. u # Witness
      BY <2>1, ThreadsAre
    <3> QED BY <1>1, <2>1, <3>2, <3>3 DEF HandOK, Source, Done
  <2>2. CASE u # ProcessBlock
    <3>1. tx' = tx
      BY <2>2 DEF Threads
    <3> QED BY <1>1, <2>2, <3>1 DEF HandOK, Source, Done
  <2> QED BY <2>1, <2>2
<1> QED BY <1>2, <1>3

\* So a step of one thread is examined for that thread
LEMMA ThreadStep ==
    ASSUME Shape, NEW t \in Threads, SerialTypeOK', ValidTree', PeersFixed', Refused', PlaceOK(t)', HandOK(t)',
           \A u \in Threads \ {t} :
               /\ pc'[u] = pc[u] /\ cur'[u] = cur[u] /\ todo'[u] = todo[u] /\ (u = Witness => tx' = tx)
               /\ (mutex' = u) <=> (mutex = u)
               /\ pc[u] \in Making => cur[u] \notin valid',
           valid \subseteq valid'
    PROVE  Shape'
BY OtherThread DEF Shape

\* A step that moves a thread on and leaves the blocks and the chain alone
LEMMA LocalStep ==
    ASSUME Shape, NEW t \in Threads, NEW x \in Points, Goto(t, x), UNCHANGED << valid, spends, chain, cur, tx >>,
           UNCHANGED rejected \/ (Refused' /\ rejected' \subseteq Blocks),
           temp' \subseteq Serials \X Blocks /\ persistent' \subseteq Serials,
           open' \in [Threads -> SUBSET Serials] /\ failed' \in BOOLEAN,
           snap' \in [Threads -> Blocks] /\ first' \in [Threads -> Blocks],
           todo' \in [Threads -> Seq(Serials)], \A u \in Threads \ {t} : todo'[u] = todo[u],
           x = "build" => t = Witness,
           x \in {"commit", "setlast"} => pc[t] \in {"commit", "setlast"},
           x \in Making => pc[t] \in Making,
           x \in Confirming => pc[t] \in Confirming,
           pc[t] \in {"commit", "setlast"} => x \in {"commit", "setlast"},
           HandOK(t)'
    PROVE  Shape'
<1>1. pc' \in [Threads -> Points] /\ pc'[t] = x /\ \A u \in Threads \ {t} : pc'[u] = pc[u]
  BY Moved DEF Shape
<1>2. SerialTypeOK'
  BY <1>1, PointsType DEF Shape, SerialTypeOK, chain
<1>3. ValidTree' /\ PeersFixed'
  BY DEF Shape, ValidTree, PeersFixed
<1>4. Refused'
  BY DEF Shape, Refused
<1>5. PlaceOK(t)'
  <2>1. PlaceOK(t) /\ UNCHANGED << mutex, valid, cur >>
    BY DEF Shape, chain
  <2>2. x = "build" => t = Witness
    BY <2>1 DEF PlaceOK
  <2>3. (x \in {"commit", "setlast"}) <=> (mutex = t)
    BY <2>1 DEF PlaceOK
  <2> QED BY <1>1, <2>1, <2>2, <2>3 DEF PlaceOK
<1>6. \A u \in Threads \ {t} : (pc[u] \in Making => cur[u] \notin valid') /\ mutex' = mutex
  BY DEF Shape, PlaceOK, chain
<1> QED BY <1>1, <1>2, <1>3, <1>4, <1>5, <1>6, ThreadStep


LEMMA ShapeInit == ASSUME SerialInit PROVE Shape
<1>1. Root \in Blocks /\ Chain[Root] = {Root} /\ LevelOf[Root] = 0
  BY TreeAssumption, ChainIs
<1>2. SerialTypeOK
  <2>1. spends \in [Blocks -> Seq(Serials)]
    BY SerialsAssumption DEF SerialInit
  <2>2. lastPruned \in 0 .. LevelOf[last]
    BY <1>1 DEF SerialInit
  <2>3. tx \in Seq(Serials) /\ todo \in [Threads -> Seq(Serials)]
    <3>1. << >> \in Seq(Serials)
      OBVIOUS
    <3> QED BY <3>1 DEF SerialInit
  <2>4. open \in [Threads -> SUBSET Serials] /\ temp \subseteq Serials \X Blocks /\ persistent \subseteq Serials
    BY DEF SerialInit
  <2>5. /\ cur \in [Threads -> Blocks] /\ snap \in [Threads -> Blocks] /\ first \in [Threads -> Blocks]
        /\ marked \in valid /\ last \in Chain[marked] /\ mutex \in Threads \cup {None}
        /\ valid \subseteq Blocks /\ rejected \subseteq Blocks /\ failed \in BOOLEAN
    BY <1>1 DEF SerialInit
  <2>6. pc \in [Threads -> {"idle", "build", "check", "persistent", "temp", "insert", "update",
                            "insertvalid", "confirm", "begin", "commit", "setlast", "prune"}]
    BY DEF SerialInit
  <2> QED BY <2>1, <2>2, <2>3, <2>4, <2>5, <2>6 DEF SerialTypeOK
<1>3. ValidTree /\ PeersFixed /\ Refused
  BY DEF SerialInit, ValidTree, PeersFixed, Refused
<1>4. \A t \in Threads : PlaceOK(t) /\ HandOK(t)
  BY ThreadsAre DEF SerialInit, PlaceOK, HandOK, Making, Building, Working, Confirming
<1> QED BY <1>2, <1>3, <1>4 DEF Shape

\* The tables keep their types when a thread clears its rows
LEMMA ClearTypes ==
    ASSUME SerialTypeOK, NEW t \in Threads, TempSerialnumClear(t)
    PROVE  open' \in [Threads -> SUBSET Serials] /\ failed' \in BOOLEAN
BY DEF SerialTypeOK, TempSerialnumClear, Fail

LEMMA ShapeBlockValidate == ASSUME Shape, NEW b \in Blocks, BlockValidate(b) PROVE Shape'
<1> DEFINE x == IF spends[b] = << >> THEN "update" ELSE "check"
<1>0. ProcessBlock \in Threads /\ SerialTypeOK /\ spends[b] \in Seq(Serials) /\ x \in Points
  BY ThreadsAre DEF Shape, SerialTypeOK, Points, Making, Building, Working
<1>1. pc' \in [Threads -> Points] /\ pc'[ProcessBlock] = x /\ \A u \in Threads \ {ProcessBlock} : pc'[u] = pc[u]
  BY <1>0, Moved DEF BlockValidate
<1>2. open' \in [Threads -> SUBSET Serials] /\ failed' \in BOOLEAN
  BY <1>0, ClearTypes DEF BlockValidate
<1>3. /\ cur' \in [Threads -> Blocks] /\ todo' \in [Threads -> Seq(Serials)]
      /\ cur'[ProcessBlock] = b /\ todo'[ProcessBlock] = spends[b]
      /\ \A u \in Threads \ {ProcessBlock} : cur'[u] = cur[u] /\ todo'[u] = todo[u]
  BY <1>0 DEF BlockValidate, SerialTypeOK
<1>4. UNCHANGED << valid, spends, temp, persistent, marked, last, lastPruned, mutex, tx, snap, first, rejected >>
  BY DEF BlockValidate, chain
<1>5. SerialTypeOK'
  <2>1. pc' \in [Threads -> {"idle", "build", "check", "persistent", "temp", "insert", "update",
                             "insertvalid", "confirm", "begin", "commit", "setlast", "prune"}]
    BY <1>1, PointsType
  <2> QED BY <1>0, <1>2, <1>3, <1>4, <2>1 DEF SerialTypeOK
<1>6. ValidTree' /\ PeersFixed' /\ Refused'
  BY <1>4 DEF Shape, ValidTree, PeersFixed, Refused
<1>7. PlaceOK(ProcessBlock)'
  <2>1. b \notin valid /\ PriorOf[b] \in valid /\ b \notin Own /\ pc[ProcessBlock] = "idle"
    BY DEF BlockValidate
  <2>2. mutex # ProcessBlock
    BY <1>0, <2>1 DEF Shape, PlaceOK
  <2>3. pc'[ProcessBlock] \in {"update", "check"}
    BY <1>1
  <2>4. ProcessBlock # Witness
    BY ThreadsAre
  <2> QED BY <1>3, <1>4, <2>1, <2>2, <2>3, <2>4 DEF PlaceOK, Confirming
<1>8. HandOK(ProcessBlock)'
  <2>1. (Source(ProcessBlock))' = spends[b] /\ todo'[ProcessBlock] = spends[b]
    BY <1>3, <1>4 DEF Source
  <2>2. pc'[ProcessBlock] \in Working => spends[b] # << >>
    BY <1>1 DEF Working
  <2>3. Len(spends[b]) \in Nat /\ (Done(ProcessBlock))' = 0
    BY <1>0, <2>1 DEF Done
  <2> QED BY <2>1, <2>2, <2>3, ThreadsAre DEF HandOK
<1>9. \A u \in Threads \ {ProcessBlock} : pc[u] \in Making => cur[u] \notin valid'
  BY <1>4 DEF Shape, PlaceOK
<1> QED BY <1>0, <1>1, <1>3, <1>4, <1>5, <1>6, <1>7, <1>8, <1>9, ThreadStep

LEMMA ShapeStartNewBlock == ASSUME Shape, NEW b \in Blocks, StartNewBlock(b) PROVE Shape'
<1>0. Witness \in Threads /\ SerialTypeOK /\ "build" \in Points
  BY ThreadsAre DEF Shape, Points, Making, Building, Working
<1>1. pc' \in [Threads -> Points] /\ pc'[Witness] = "build" /\ \A u \in Threads \ {Witness} : pc'[u] = pc[u]
  BY <1>0, Moved DEF StartNewBlock
<1>2. open' \in [Threads -> SUBSET Serials] /\ failed' \in BOOLEAN
  BY <1>0, ClearTypes DEF StartNewBlock
<1>3. /\ cur' \in [Threads -> Blocks] /\ cur'[Witness] = b /\ \A u \in Threads \ {Witness} : cur'[u] = cur[u]
      /\ spends' \in [Blocks -> Seq(Serials)] /\ \A a \in Blocks \ {b} : spends'[a] = spends[a]
  BY <1>0 DEF StartNewBlock, SerialTypeOK
<1>4. UNCHANGED << valid, temp, persistent, marked, last, lastPruned, mutex, tx, todo, snap, first, rejected >>
  BY DEF StartNewBlock, chain
<1>5. SerialTypeOK'
  <2>1. pc' \in [Threads -> {"idle", "build", "check", "persistent", "temp", "insert", "update",
                             "insertvalid", "confirm", "begin", "commit", "setlast", "prune"}]
    BY <1>1, PointsType
  <2> QED BY <1>0, <1>2, <1>3, <1>4, <2>1 DEF SerialTypeOK
<1>6. b \in Own /\ b \notin valid /\ PriorOf[b] \in valid /\ pc[Witness] = "idle"
  BY DEF StartNewBlock
<1>7. ValidTree' /\ PeersFixed' /\ Refused'
  BY <1>3, <1>4, <1>6 DEF Shape, ValidTree, PeersFixed, Refused
<1>8. PlaceOK(Witness)'
  <2>1. mutex # Witness
    BY <1>0, <1>6 DEF Shape, PlaceOK
  <2> QED BY <1>1, <1>3, <1>4, <1>6, <2>1 DEF PlaceOK, Confirming
<1>9. HandOK(Witness)'
  BY <1>1 DEF HandOK, Working
<1>10. \A u \in Threads \ {Witness} : pc[u] \in Making => cur[u] \notin valid'
  BY <1>4 DEF Shape, PlaceOK
<1> QED BY <1>0, <1>1, <1>3, <1>4, <1>5, <1>7, <1>8, <1>9, <1>10, ThreadStep

LEMMA ShapeNextTx == ASSUME Shape, NEW inputs \in Txs, NextTx(inputs) PROVE Shape'
<1>0. Witness \in Threads /\ SerialTypeOK /\ "check" \in Points /\ inputs \in Seq(Serials) /\ inputs # << >>
  BY ThreadsAre, SerialsAssumption DEF Shape, Points, Making, Building, Working
<1>1. pc' \in [Threads -> Points] /\ pc'[Witness] = "check" /\ \A u \in Threads \ {Witness} : pc'[u] = pc[u]
  BY <1>0, Moved DEF NextTx
<1>3. /\ todo' \in [Threads -> Seq(Serials)] /\ todo'[Witness] = inputs
      /\ \A u \in Threads \ {Witness} : todo'[u] = todo[u]
  BY <1>0 DEF NextTx, SerialTypeOK
<1>4. /\ UNCHANGED << valid, spends, open, temp, persistent, marked, last, lastPruned, mutex, cur, snap, first >>
      /\ UNCHANGED << rejected, failed >> /\ tx' = inputs
  BY DEF NextTx, chain, tables, history
<1>5. SerialTypeOK'
  <2>1. pc' \in [Threads -> {"idle", "build", "check", "persistent", "temp", "insert", "update",
                             "insertvalid", "confirm", "begin", "commit", "setlast", "prune"}]
    BY <1>1, PointsType
  <2> QED BY <1>0, <1>3, <1>4, <2>1 DEF SerialTypeOK
<1>6. ValidTree' /\ PeersFixed' /\ Refused'
  BY <1>4 DEF Shape, ValidTree, PeersFixed, Refused
<1>7. PlaceOK(Witness)'
  <2>1. PlaceOK(Witness) /\ pc[Witness] = "build"
    BY <1>0 DEF Shape, NextTx
  <2> QED BY <1>1, <1>4, <2>1 DEF PlaceOK, Confirming, Making, Building, Working
<1>8. HandOK(Witness)'
  <2>1. (Source(Witness))' = inputs /\ todo'[Witness] = inputs
    BY <1>3, <1>4, ThreadsAre DEF Source
  <2>2. Len(inputs) \in Nat /\ (Done(Witness))' = 0
    BY <1>0, <2>1 DEF Done
  <2> QED BY <1>0, <1>4, <2>1, <2>2 DEF HandOK
<1>9. \A u \in Threads \ {Witness} : (pc[u] \in Making => cur[u] \notin valid') /\ cur'[u] = cur[u] /\ u # Witness
  BY <1>4 DEF Shape, PlaceOK
<1>10. \A u \in Threads \ {Witness} : (mutex' = u) <=> (mutex = u)
  BY <1>4
<1> QED BY <1>0, <1>1, <1>3, <1>4, <1>5, <1>6, <1>7, <1>8, <1>9, <1>10, ThreadStep

\* What a thread has in hand is not touched by a step to a point without it
LEMMA HandKept ==
    ASSUME Shape, NEW t \in Threads, NEW x \in Points, Goto(t, x), UNCHANGED << spends, cur, todo, tx >>,
           x \in Working => pc[t] \in Working
    PROVE  HandOK(t)'
<1>1. pc'[t] = x /\ HandOK(t)
  BY Moved DEF Shape
<1> QED BY <1>1 DEF HandOK, Source, Done

LEMMA ShapeSnapshotLast == ASSUME Shape, NEW t \in Threads, SnapshotLast(t) PROVE Shape'
<1>1. "persistent" \in Points /\ SerialTypeOK /\ last \in Blocks
  BY ChainMembers DEF Shape, SerialTypeOK, Points, Making, Building, Working
<1>2. pc[t] = "check" /\ Goto(t, "persistent") /\ snap' = [snap EXCEPT ![t] = last]
  BY DEF SnapshotLast
<1>3. UNCHANGED << valid, spends, chain, cur, tx, todo, first, rejected, failed, open, temp, persistent >>
  BY DEF SnapshotLast, tables, history
<1>4. HandOK(t)'
  BY <1>1, <1>2, <1>3, HandKept DEF Working
<1>5. snap' \in [Threads -> Blocks]
  BY <1>1, <1>2 DEF SerialTypeOK
<1>6. "persistent" \in Making /\ pc[t] \in Making /\ "persistent" \notin Confirming /\ pc[t] \notin Confirming
  BY <1>2 DEF Making, Building, Working, Confirming
<1> QED BY <1>1, <1>2, <1>3, <1>4, <1>5, <1>6, LocalStep DEF SerialTypeOK, Confirming

\* The thread gives up the block or the transaction it has in hand
LEMMA ShapeRefuse ==
    ASSUME Shape, NEW t \in Threads, Refuse(t), pc[t] \in Working, failed' \in BOOLEAN
    PROVE  Shape'
<1> DEFINE x == IF t = ProcessBlock THEN "idle" ELSE "build"
<1>1. x \in Points /\ SerialTypeOK /\ x \notin Working /\ x \notin Confirming /\ Goto(t, x)
  BY DEF Refuse, Shape, Points, Making, Building, Working, Confirming
<1>2. UNCHANGED << valid, spends, chain, cur, tx, todo, snap, first, open, temp, persistent >>
  BY DEF Refuse, tables, locals
<1>3. /\ x = "build" => t = Witness
      /\ x \in Making => pc[t] \in Making
      /\ pc[t] \notin {"commit", "setlast"} /\ x \notin {"commit", "setlast"}
  BY DEF Threads, Making, Building, Working, Confirming
<1>4. Refused' /\ rejected' \subseteq Blocks
  <2>1. CASE t = ProcessBlock
    <3>1. PlaceOK(t) /\ pc[t] \in Making /\ t # Witness
      BY <2>1, ThreadsAre DEF Shape, Making, Building
    <3>2. cur[t] \in Blocks /\ cur[t] \notin Own /\ cur[t] # Root /\ PriorOf[cur[t]] \in valid
      BY <1>1, <3>1 DEF PlaceOK, Shape, ValidTree, SerialTypeOK
    <3>3. rejected' = rejected \cup {cur[t]}
      BY <2>1 DEF Refuse
    <3> QED BY <1>2, <3>2, <3>3 DEF Shape, Refused, SerialTypeOK
  <2>2. CASE t # ProcessBlock
    BY <1>2, <2>2 DEF Refuse, Shape, Refused, SerialTypeOK
  <2> QED BY <2>1, <2>2
<1>5. HandOK(t)'
  BY <1>1, <1>2, HandKept
<1> HIDE DEF x
<1> QED BY <1>1, <1>2, <1>3, <1>4, <1>5, LocalStep DEF SerialTypeOK

LEMMA ShapeSerialnumSelect == ASSUME Shape, NEW t \in Threads, SerialnumSelect(t) PROVE Shape'
<1>1. CASE Head(todo[t]) \in persistent
  <2>1. Refuse(t) /\ pc[t] \in Working /\ failed' \in BOOLEAN
    BY <1>1 DEF SerialnumSelect, Working, Shape, SerialTypeOK
  <2> QED BY <2>1, ShapeRefuse
<1>2. CASE Head(todo[t]) \notin persistent
  <2>1. "temp" \in Points /\ SerialTypeOK
    BY DEF Shape, Points, Making, Building, Working
  <2>2. pc[t] = "persistent" /\ Goto(t, "temp")
    BY <1>2 DEF SerialnumSelect
  <2>3. UNCHANGED << valid, spends, chain, cur, tx, todo, snap, first, rejected, failed, open, temp, persistent >>
    BY <1>2 DEF SerialnumSelect, tables, history, locals
  <2>4. HandOK(t)'
    BY <2>1, <2>2, <2>3, HandKept DEF Working
  <2>5. "temp" \in Making /\ pc[t] \in Making /\ "temp" \notin Confirming /\ pc[t] \notin Confirming
    BY <2>2 DEF Making, Building, Working, Confirming
  <2> QED BY <2>1, <2>2, <2>3, <2>4, <2>5, LocalStep DEF SerialTypeOK, Confirming
<1> QED BY <1>1, <1>2

LEMMA EmptySeq == ASSUME NEW S, NEW u \in Seq(S) PROVE (u = << >>) <=> (Len(u) = 0)
OBVIOUS

\* The tail of what is still to do is the rest after one more
LEMMA TailFacts ==
    ASSUME NEW S, NEW s \in Seq(S), s # << >>
    PROVE  /\ Len(s) \in Nat \ {0} /\ Head(s) = s[1] /\ Head(s) \in S
           /\ Tail(s) \in Seq(S) /\ Len(Tail(s)) = Len(s) - 1
           /\ \A i \in 1 .. Len(s) - 1 : Tail(s)[i] = s[i + 1]
           /\ (Tail(s) = << >>) <=> (Len(s) = 1)
<1>1. Len(s) \in Nat \ {0} /\ Head(s) = s[1] /\ Head(s) \in S
  OBVIOUS
<1>2. Tail(s) \in Seq(S) /\ Len(Tail(s)) = Len(s) - 1 /\ \A i \in 1 .. Len(s) - 1 : Tail(s)[i] = s[i + 1]
  OBVIOUS
<1>3. (Tail(s) = << >>) <=> (Len(s) = 1)
  <2> DEFINE u == Tail(s)
  <2>0. u \in Seq(S)
    BY <1>2
  <2> HIDE DEF u
  <2>1. (u = << >>) <=> (Len(u) = 0)
    BY <2>0, EmptySeq
  <2>2. Len(u) = Len(s) - 1
    BY <1>2 DEF u
  <2>3. (u = << >>) <=> (Len(s) = 1)
    BY <1>1, <2>1, <2>2
  <2> QED BY <2>3 DEF u
<1> QED BY <1>1, <1>2, <1>3

LEMMA TailHand ==
    ASSUME Shape, NEW t \in Threads, pc[t] \in Working, Len(todo[t]) # 1, todo'[t] = Tail(todo[t]),
           UNCHANGED << spends, cur, tx >>
    PROVE  HandOK(t)'
<1> DEFINE s == todo[t]
           n == Len(Source(t))
<1>1. s \in Seq(Serials) /\ s # << >> /\ Source(t) \in Seq(Serials)
  BY DEF Shape, HandOK, SerialTypeOK, Source
<1>2. Len(s) \in Nat /\ Len(s) > 1 /\ n \in Nat
  BY <1>1, TailFacts
<1>3. /\ Len(s) <= n /\ \A i \in 1 .. Len(s) : s[i] = Source(t)[n - Len(s) + i]
      /\ t = Witness => tx \in Txs
  BY DEF Shape, HandOK, Done
<1>4. Tail(s) # << >> /\ Len(Tail(s)) = Len(s) - 1 /\ \A i \in 1 .. Len(s) - 1 : Tail(s)[i] = s[i + 1]
  BY <1>1, <1>2, TailFacts
<1>5. (Source(t))' = Source(t)
  BY DEF Source
<1>6. (Done(t))' = n - (Len(s) - 1)
  BY <1>4, <1>5 DEF Done
<1>7. \A i \in 1 .. Len(s) - 1 : Tail(s)[i] = Source(t)[n - (Len(s) - 1) + i]
  <2> SUFFICES ASSUME NEW i \in 1 .. Len(s) - 1 PROVE Tail(s)[i] = Source(t)[n - (Len(s) - 1) + i]
    OBVIOUS
  <2>1. i + 1 \in 1 .. Len(s) /\ n - Len(s) + (i + 1) = n - (Len(s) - 1) + i
    BY <1>2
  <2>2. Tail(s)[i] = s[i + 1] /\ s[i + 1] = Source(t)[n - Len(s) + (i + 1)]
    BY <1>3, <1>4, <2>1
  <2> QED BY <2>1, <2>2
<1>8. Len(s) - 1 <= n
  BY <1>2, <1>3
<1> HIDE DEF s, n
<1>9. todo'[t] = Tail(s) /\ tx' = tx
  BY DEF s
<1>10. (Source(t))' = Source(t) /\ Len(Source(t)) = n
  BY <1>5 DEF n
<1> QED BY <1>3, <1>4, <1>6, <1>7, <1>8, <1>9, <1>10 DEF HandOK

LEMMA ShapeTempSerialnumSelect == ASSUME Shape, NEW t \in Threads, TempSerialnumSelect(t) PROVE Shape'
<1>1. CASE Found(t, Head(todo[t]))
  <2>1. Refuse(t) /\ pc[t] \in Working /\ failed' \in BOOLEAN
    BY <1>1 DEF TempSerialnumSelect, Working, Shape, SerialTypeOK
  <2> QED BY <2>1, ShapeRefuse
<1>2. CASE ~Found(t, Head(todo[t]))
  <2> DEFINE x == IF t = ProcessBlock \/ Len(todo[t]) = 1 THEN "insert" ELSE "check"
             rest == IF t = ProcessBlock THEN todo[t] ELSE IF Len(todo[t]) = 1 THEN tx ELSE Tail(todo[t])
  <2>1. x \in Points /\ SerialTypeOK
    BY DEF Shape, Points, Making, Building, Working
  <2>2. pc[t] = "temp" /\ Goto(t, x) /\ todo' = [todo EXCEPT ![t] = rest]
    BY <1>2 DEF TempSerialnumSelect
  <2>3. UNCHANGED << valid, spends, chain, cur, tx, snap, first, rejected, failed, open, temp, persistent >>
    BY <1>2 DEF TempSerialnumSelect, tables, history
  <2>4. x \in Making /\ pc[t] \in Making /\ x \notin Confirming /\ pc[t] \notin Confirming
    BY <2>2 DEF Making, Building, Working, Confirming
  <2>5. pc[t] \in Working /\ HandOK(t) /\ todo[t] \in Seq(Serials) /\ todo[t] # << >> /\ tx \in Seq(Serials)
    BY <2>1, <2>2 DEF Shape, HandOK, Working, SerialTypeOK
  <2>6. Tail(todo[t]) \in Seq(Serials)
    BY <2>5, TailFacts
  <2>7. /\ todo' \in [Threads -> Seq(Serials)] /\ todo'[t] = rest
        /\ \A u \in Threads \ {t} : todo'[u] = todo[u]
    BY <2>1, <2>2, <2>5, <2>6 DEF SerialTypeOK
  <2>8. HandOK(t)'
    <3>1. CASE t = ProcessBlock
      <4>1. todo'[t] = todo[t] /\ UNCHANGED << spends, cur, tx >>
        BY <2>3, <2>7, <3>1
      <4> QED BY <2>5, <4>1 DEF HandOK, Source, Done
    <3>2. CASE t # ProcessBlock /\ Len(todo[t]) = 1
      <4>1. todo'[t] = tx /\ tx' = tx /\ t = Witness
        BY <2>3, <2>7, <3>2 DEF Threads
      <4>2. tx \in Txs /\ tx # << >> /\ Len(tx) \in Nat
        BY <2>5, <4>1, SerialsAssumption DEF HandOK
      <4>3. (Source(t))' = tx /\ (Done(t))' = 0
        BY <3>2, <4>1, <4>2 DEF Source, Done
      <4> QED BY <4>1, <4>2, <4>3 DEF HandOK
    <3>3. CASE t # ProcessBlock /\ Len(todo[t]) # 1
      <4>1. todo'[t] = Tail(todo[t]) /\ UNCHANGED << spends, cur, tx >>
        BY <2>3, <2>7, <3>3
      <4> QED BY <2>5, <3>3, <4>1, TailHand
    <3> QED BY <3>1, <3>2, <3>3
  <2> HIDE DEF x, rest
  <2>9. x = "build" => t = Witness
    BY DEF x
  <2>10. pc[t] \notin {"commit", "setlast"} /\ x \notin {"commit", "setlast"}
    BY <2>2, <2>4 DEF Confirming
  <2> QED BY <2>1, <2>2, <2>3, <2>4, <2>7, <2>8, <2>9, <2>10, LocalStep DEF SerialTypeOK
<1> QED BY <1>1, <1>2

LEMMA ShapeSelectError == ASSUME Shape, NEW t \in Threads, SelectError(t) PROVE Shape'
<1>1. Refuse(t) /\ pc[t] \in Working /\ failed' \in BOOLEAN
  BY DEF SelectError, Fail, Working
<1> QED BY <1>1, ShapeRefuse

LEMMA ShapeInsertError == ASSUME Shape, NEW t \in Threads, InsertError(t) PROVE Shape'
<1>1. Refuse(t) /\ pc[t] \in Working /\ failed' \in BOOLEAN
  BY DEF InsertError, Fail, Working
<1> QED BY <1>1, ShapeRefuse

\* What TempSerialnumInsert does to the rows and to what is in hand
LEMMA InsertFacts ==
    ASSUME Shape, NEW t \in Threads, TempSerialnumInsert(t)
    PROVE  /\ pc[t] \in Working /\ todo[t] \in Seq(Serials) /\ todo[t] # << >> /\ Tail(todo[t]) \in Seq(Serials)
           /\ open' \in [Threads -> SUBSET Serials] /\ open'[t] = open[t] \cup {Head(todo[t])}
           /\ todo' \in [Threads -> Seq(Serials)] /\ todo'[t] = Tail(todo[t])
           /\ \A u \in Threads \ {t} : open'[u] = open[u] /\ todo'[u] = todo[u]
<1>1. pc[t] \in Working /\ HandOK(t) /\ SerialTypeOK
  BY DEF TempSerialnumInsert, Shape, Working
<1>2. todo[t] \in Seq(Serials) /\ todo[t] # << >>
  BY <1>1 DEF HandOK, SerialTypeOK
<1>3. Tail(todo[t]) \in Seq(Serials) /\ Head(todo[t]) \in Serials
  BY <1>2, TailFacts
<1> QED BY <1>1, <1>2, <1>3 DEF TempSerialnumInsert, SerialTypeOK

LEMMA ShapeTempSerialnumInsert == ASSUME Shape, NEW t \in Threads, TempSerialnumInsert(t) PROVE Shape'
<1> DEFINE x == IF t = ProcessBlock THEN (IF Len(todo[t]) = 1 THEN "update" ELSE "check")
                ELSE (IF Len(todo[t]) = 1 THEN "build" ELSE "insert")
<1>1. x \in Points /\ SerialTypeOK /\ Goto(t, x) /\ pc[t] = "insert" /\ x \in Making /\ x \notin Confirming
  BY DEF TempSerialnumInsert, Shape, Points, Making, Building, Working, Confirming
<1>2. UNCHANGED << valid, temp, persistent, marked, last, lastPruned, mutex, cur, tx, snap, first, rejected, failed >>
  BY DEF TempSerialnumInsert, chain, history
<1>3. /\ todo[t] \in Seq(Serials) /\ todo[t] # << >>
      /\ open' \in [Threads -> SUBSET Serials] /\ todo' \in [Threads -> Seq(Serials)]
      /\ todo'[t] = Tail(todo[t]) /\ \A u \in Threads \ {t} : todo'[u] = todo[u]
  BY InsertFacts
<1>4. pc' \in [Threads -> Points] /\ pc'[t] = x /\ \A u \in Threads \ {t} : pc'[u] = pc[u]
  BY <1>1, Moved
<1>5. t # ProcessBlock => t = Witness
  BY DEF Threads
<1>6. PlaceOK(t) /\ HandOK(t) /\ pc[t] \in Making /\ pc[t] \in Working
  BY <1>1 DEF Shape, Making, Building, Working
<1>7. /\ spends' \in [Blocks -> Seq(Serials)] /\ \A b \in Blocks \ Own : spends'[b] = spends[b]
      /\ ~(t # ProcessBlock /\ Len(todo[t]) = 1) => spends' = spends
  <2>1. CASE t = ProcessBlock \/ Len(todo[t]) # 1
    BY <1>1, <2>1 DEF TempSerialnumInsert, SerialTypeOK
  <2>2. CASE t # ProcessBlock /\ Len(todo[t]) = 1
    <3>1. spends' = [spends EXCEPT ![cur[t]] = @ \o tx]
      BY <2>2 DEF TempSerialnumInsert
    <3>2. cur[t] \in Own /\ cur[t] \in Blocks /\ spends[cur[t]] \o tx \in Seq(Serials)
      BY <1>1, <1>5, <1>6, <2>2 DEF PlaceOK, SerialTypeOK
    <3> QED BY <1>1, <2>2, <3>1, <3>2 DEF SerialTypeOK
  <2> QED BY <2>1, <2>2
<1>8. SerialTypeOK'
  <2>1. pc' \in [Threads -> {"idle", "build", "check", "persistent", "temp", "insert", "update",
                             "insertvalid", "confirm", "begin", "commit", "setlast", "prune"}]
    BY <1>4, PointsType
  <2> QED BY <1>1, <1>2, <1>3, <1>7, <2>1 DEF SerialTypeOK
<1>9. ValidTree' /\ PeersFixed' /\ Refused'
  BY <1>2, <1>7 DEF Shape, ValidTree, PeersFixed, Refused
<1>10. PlaceOK(t)'
  <2>1. x = "build" => t = Witness
    BY <1>5
  <2>2. mutex # t /\ x \notin {"commit", "setlast"}
    BY <1>1, <1>6 DEF PlaceOK, Confirming
  <2> HIDE DEF x
  <2> QED BY <1>1, <1>2, <1>4, <1>6, <2>1, <2>2 DEF PlaceOK
<1>11. HandOK(t)'
  <2>1. CASE Len(todo[t]) = 1
    BY <1>4, <2>1 DEF HandOK, Working
  <2>2. CASE Len(todo[t]) # 1
    <3>1. UNCHANGED << spends, cur, tx >>
      BY <1>2, <1>7, <2>2
    <3> QED BY <1>3, <1>6, <2>2, <3>1, TailHand
  <2> QED BY <2>1, <2>2
<1>12. \A u \in Threads \ {t} : (pc[u] \in Making => cur[u] \notin valid') /\ cur'[u] = cur[u]
  BY <1>2 DEF Shape, PlaceOK
<1> HIDE DEF x
<1> QED BY <1>2, <1>3, <1>4, <1>8, <1>9, <1>10, <1>11, <1>12, ThreadStep

LEMMA ShapeFinishNewBlock == ASSUME Shape, FinishNewBlock PROVE Shape'
<1> SUFFICES ASSUME NEW x \in {"update", "idle"}, Goto(Witness, x) PROVE Shape'
  BY DEF FinishNewBlock
<1>1. Witness \in Threads /\ x \in Points /\ SerialTypeOK /\ x \notin Working /\ x \notin Confirming /\ x # "build"
  BY ThreadsAre DEF Shape, Points, Making, Building, Working, Confirming
<1>2. UNCHANGED << valid, spends, chain, cur, tx, todo, snap, first, rejected, failed, open, temp, persistent >>
  BY DEF FinishNewBlock, tables, history, locals
<1>3. HandOK(Witness)'
  BY <1>1, <1>2, HandKept
<1>4. pc[Witness] \in Making /\ pc[Witness] \notin {"commit", "setlast"} /\ x \notin {"commit", "setlast"}
  BY DEF FinishNewBlock, Making, Building
<1> QED BY <1>1, <1>2, <1>3, <1>4, LocalStep DEF SerialTypeOK

LEMMA ShapeTempSerialnumUpdate == ASSUME Shape, NEW t \in Threads, TempSerialnumUpdate(t) PROVE Shape'
<1>1. /\ "insertvalid" \in Points /\ SerialTypeOK /\ "insertvalid" \notin Working /\ "insertvalid" \notin Confirming
      /\ "insertvalid" \in Making
  BY DEF Shape, Points, Making, Building, Working, Confirming
<1>2. UNCHANGED << valid, spends, chain, cur, tx, todo, snap, first, rejected, failed, persistent >>
  BY DEF TempSerialnumUpdate, history, locals
<1>3. HandOK(t)'
  BY <1>1, <1>2, HandKept DEF TempSerialnumUpdate
<1>4. pc[t] = "update" /\ pc[t] \in Making /\ Goto(t, "insertvalid")
  BY DEF TempSerialnumUpdate, Making, Building
<1>5. open' \in [Threads -> SUBSET Serials] /\ temp' \subseteq Serials \X Blocks
  BY <1>1 DEF TempSerialnumUpdate, SerialTypeOK
<1> QED BY <1>1, <1>2, <1>3, <1>4, <1>5, LocalStep DEF SerialTypeOK

LEMMA ShapeUpdateError == ASSUME Shape, NEW t \in Threads, UpdateError(t) PROVE Shape'
<1>1. "idle" \in Points /\ SerialTypeOK /\ "idle" \notin Working /\ "idle" \notin Confirming /\ "idle" \notin Making
  BY DEF Shape, Points, Making, Building, Working, Confirming
<1>2. UNCHANGED << valid, spends, chain, cur, tx, todo, snap, first, open, temp, persistent >>
  BY DEF UpdateError, tables, locals
<1>3. HandOK(t)'
  BY <1>1, <1>2, HandKept DEF UpdateError
<1>4. pc[t] = "update" /\ pc[t] \in Making /\ Goto(t, "idle") /\ failed' \in BOOLEAN
  BY DEF UpdateError, Making, Building, Fail
<1>5. Refused' /\ rejected' \subseteq Blocks
  <2>1. CASE t = ProcessBlock
    <3>1. PlaceOK(t) /\ t # Witness
      BY <2>1, ThreadsAre DEF Shape
    <3>2. cur[t] \in Blocks /\ cur[t] \notin Own /\ cur[t] # Root /\ PriorOf[cur[t]] \in valid
      BY <1>1, <1>4, <3>1 DEF PlaceOK, Shape, ValidTree, SerialTypeOK
    <3>3. rejected' = rejected \cup {cur[t]}
      BY <2>1 DEF UpdateError
    <3> QED BY <1>2, <3>2, <3>3 DEF Shape, Refused, SerialTypeOK
  <2>2. CASE t # ProcessBlock
    BY <1>2, <2>2 DEF UpdateError, Shape, Refused, SerialTypeOK
  <2> QED BY <2>1, <2>2
<1> QED BY <1>1, <1>2, <1>3, <1>4, <1>5, LocalStep DEF SerialTypeOK

LEMMA ShapeValidObjsInsert == ASSUME Shape, NEW t \in Threads, ValidObjsInsert(t) PROVE Shape'
<1>1. "confirm" \in Points /\ SerialTypeOK /\ "confirm" \notin Working /\ "confirm" \notin Making /\ "confirm" \in Confirming
  BY DEF Shape, Points, Making, Building, Working, Confirming
<1>2. /\ UNCHANGED << spends, marked, last, lastPruned, mutex, cur, tx, todo, snap, first, rejected, failed >>
      /\ UNCHANGED << open, temp, persistent >>
  BY DEF ValidObjsInsert, history, locals, chain, tables
<1>3. HandOK(t)'
  BY <1>1, <1>2, HandKept DEF ValidObjsInsert
<1>4. pc' \in [Threads -> Points] /\ pc'[t] = "confirm" /\ \A u \in Threads \ {t} : pc'[u] = pc[u]
  BY <1>1, Moved DEF ValidObjsInsert
<1>5. PlaceOK(t) /\ pc[t] = "insertvalid" /\ pc[t] \in Making /\ cur[t] \in Blocks
  BY <1>1 DEF ValidObjsInsert, Making, Building, Shape, SerialTypeOK
<1>6. valid' = valid \cup {cur[t]} /\ PriorOf[cur[t]] \in valid /\ (cur[t] \in Own <=> t = Witness) /\ mutex # t
  BY <1>5 DEF ValidObjsInsert, PlaceOK
<1>7. SerialTypeOK'
  <2>1. pc' \in [Threads -> {"idle", "build", "check", "persistent", "temp", "insert", "update",
                             "insertvalid", "confirm", "begin", "commit", "setlast", "prune"}]
    BY <1>4, PointsType
  <2> QED BY <1>1, <1>2, <1>5, <1>6, <2>1 DEF SerialTypeOK
<1>8. ValidTree' /\ PeersFixed' /\ Refused'
  BY <1>2, <1>6 DEF Shape, ValidTree, PeersFixed, Refused
<1>9. PlaceOK(t)'
  BY <1>1, <1>2, <1>4, <1>6 DEF PlaceOK
<1>10. \A u \in Threads \ {t} : pc[u] \in Making => cur[u] \notin valid'
  <2> SUFFICES ASSUME NEW u \in Threads \ {t}, pc[u] \in Making PROVE cur[u] \notin valid'
    OBVIOUS
  <2>1. PlaceOK(u)
    BY DEF Shape
  <2>2. cur[u] \notin valid /\ (cur[u] \in Own <=> u = Witness)
    BY <2>1 DEF PlaceOK
  <2>3. (u = Witness) <=> ~(t = Witness)
    BY ThreadsAre
  <2> QED BY <1>6, <2>2, <2>3
<1> QED BY <1>2, <1>3, <1>4, <1>6, <1>7, <1>8, <1>9, <1>10, ThreadStep

LEMMA ShapeDoConfirmOne == ASSUME Shape, NEW t \in Threads, DoConfirmOne(t) PROVE Shape'
<1>1. PICK x \in {"idle", "begin"} : Goto(t, x)
  BY DEF DoConfirmOne
<1>2. x \in Points /\ SerialTypeOK /\ x \notin Working /\ x \notin Making /\ x \notin {"commit", "setlast", "build"}
  BY DEF Shape, Points, Making, Building, Working, Confirming
<1>3. UNCHANGED << valid, spends, chain, cur, tx, todo, snap, rejected, failed, open, temp, persistent >>
  BY DEF DoConfirmOne, tables, history
<1>4. HandOK(t)'
  BY <1>1, <1>2, <1>3, HandKept
<1>5. pc[t] = "confirm" /\ pc[t] \in Confirming
  BY DEF DoConfirmOne, Confirming
<1>6. first' \in [Threads -> Blocks]
  <2>1. NewlyIndelible(cur[t]) \subseteq Blocks
    BY <1>2, ChainMembers DEF NewlyIndelible, SerialTypeOK
  <2> QED BY <1>2, <2>1 DEF DoConfirmOne, SerialTypeOK
<1> QED BY <1>1, <1>2, <1>3, <1>4, <1>5, <1>6, LocalStep DEF SerialTypeOK

\* What BeginWrite marks is valid and above what was marked
LEMMA MarkedNext ==
    ASSUME Shape, NEW t \in Threads, pc[t] = "begin", NEW b \in NewlyIndelible(cur[t])
    PROVE  b \in valid /\ b \in Blocks /\ marked \in Chain[b] /\ Chain[marked] \subseteq Chain[b]
<1>1. cur[t] \in valid /\ valid \subseteq Blocks /\ \A a \in valid \ {Root} : PriorOf[a] \in valid
  BY DEF Shape, PlaceOK, Confirming, ValidTree, SerialTypeOK
<1>2. b \in valid
  BY <1>1, ChainInside DEF NewlyIndelible
<1>3. marked \in Chain[b]
  BY DEF NewlyIndelible
<1> QED BY <1>1, <1>2, <1>3, ChainOfMember

LEMMA ShapeBeginWrite == ASSUME Shape, NEW t \in Threads, BeginWrite(t) PROVE Shape'
<1>0. /\ UNCHANGED << valid, spends, last, lastPruned, cur, tx, todo, snap, first, rejected, failed >>
      /\ UNCHANGED << open, temp, persistent >> /\ pc[t] = "begin" /\ mutex = None /\ SerialTypeOK
  BY DEF BeginWrite, tables, history, locals, Shape
<1>1. CASE first[t] \in Chain[marked]
  <2>1. Goto(t, "idle") /\ UNCHANGED << marked, mutex >> /\ "idle" \in Points
    BY <1>1 DEF BeginWrite, Points
  <2>2. "idle" \notin Working /\ "idle" \notin Making /\ "idle" \notin Confirming
    BY DEF Making, Building, Working, Confirming
  <2>3. HandOK(t)'
    BY <1>0, <2>1, <2>2, HandKept
  <2>4. UNCHANGED chain
    BY <1>0, <2>1 DEF chain
  <2> QED BY <1>0, <2>1, <2>2, <2>3, <2>4, LocalStep DEF SerialTypeOK
<1>2. CASE first[t] \notin Chain[marked]
  <2>1. "commit" \in Points /\ "commit" \notin Working /\ "commit" \notin Making /\ "commit" \in Confirming
    BY DEF Points, Making, Building, Working, Confirming
  <2>2. Goto(t, "commit") /\ mutex' = t
    BY <1>2 DEF BeginWrite
  <2>3. PICK b \in NewlyIndelible(cur[t]) : marked' = b
    BY <1>2 DEF BeginWrite
  <2>4. b \in valid /\ Chain[marked] \subseteq Chain[b]
    BY <1>0, <2>3, MarkedNext
  <2>5. pc' \in [Threads -> Points] /\ pc'[t] = "commit" /\ \A u \in Threads \ {t} : pc'[u] = pc[u]
    BY <1>0, <2>1, <2>2, Moved
  <2>6. HandOK(t)'
    BY <1>0, <2>1, <2>2, HandKept
  <2>7. SerialTypeOK'
    <3>1. pc' \in [Threads -> {"idle", "build", "check", "persistent", "temp", "insert", "update",
                               "insertvalid", "confirm", "begin", "commit", "setlast", "prune"}]
      BY <2>5, PointsType
    <3>2. marked' \in valid' /\ last' \in Chain[marked'] /\ mutex' \in Threads \cup {None}
      BY <1>0, <2>2, <2>3, <2>4 DEF SerialTypeOK
    <3> QED BY <1>0, <3>1, <3>2 DEF SerialTypeOK
  <2>8. ValidTree' /\ PeersFixed' /\ Refused'
    BY <1>0 DEF Shape, ValidTree, PeersFixed, Refused
  <2>9. PlaceOK(t)'
    <3>1. cur[t] \in valid
      BY <1>0 DEF Shape, PlaceOK, Confirming
    <3> QED BY <1>0, <2>1, <2>2, <2>5, <3>1 DEF PlaceOK
  <2>10. \A u \in Threads \ {t} : (pc[u] \in Making => cur[u] \notin valid') /\ ((mutex' = u) <=> (mutex = u))
    BY <1>0, <2>2, ThreadsAre DEF Shape, PlaceOK
  <2> QED BY <1>0, <2>5, <2>6, <2>7, <2>8, <2>9, <2>10, ThreadStep
<1> QED BY <1>1, <1>2

LEMMA ShapeCommit == ASSUME Shape, NEW t \in Threads, Commit(t) PROVE Shape'
<1>1. "setlast" \in Points /\ SerialTypeOK /\ "setlast" \notin Working /\ "setlast" \notin Making
  BY DEF Shape, Points, Making, Building, Working, Confirming
<1>2. UNCHANGED << valid, spends, chain, cur, tx, todo, snap, first, rejected, failed, open, temp >>
  BY DEF Commit, history, locals
<1>3. HandOK(t)'
  BY <1>1, <1>2, HandKept DEF Commit
<1>4. pc[t] = "commit" /\ pc[t] \in Confirming /\ Goto(t, "setlast")
  BY DEF Commit, Confirming
<1>5. persistent' \subseteq Serials
  <2>1. \A b \in Chain[marked] : Inputs(spends[b]) \subseteq Serials
    <3>1. \A b \in Chain[marked] : spends[b] \in Seq(Serials)
      BY <1>1, ChainMembers DEF SerialTypeOK
    <3>2. \A s \in Seq(Serials) : \A i \in DOMAIN s : s[i] \in Serials
      OBVIOUS
    <3> QED BY <3>1, <3>2 DEF Inputs
  <2> QED BY <1>1, <2>1 DEF Commit, SerialTypeOK
<1> QED BY <1>1, <1>2, <1>3, <1>4, <1>5, LocalStep DEF SerialTypeOK

LEMMA ShapeSetLastIndelible == ASSUME Shape, NEW t \in Threads, SetLastIndelible(t) PROVE Shape'
<1>1. /\ "prune" \in Points /\ SerialTypeOK /\ "prune" \notin Working /\ "prune" \notin Making
      /\ "prune" \notin Confirming
  BY DEF Shape, Points, Making, Building, Working, Confirming
<1>2. /\ UNCHANGED << valid, spends, marked, lastPruned, cur, tx, todo, snap, first, rejected, failed >>
      /\ UNCHANGED << open, temp, persistent >> /\ last' = marked /\ mutex' = None
  BY DEF SetLastIndelible, tables, history, locals
<1>3. HandOK(t)'
  BY <1>1, <1>2, HandKept DEF SetLastIndelible
<1>4. pc' \in [Threads -> Points] /\ pc'[t] = "prune" /\ \A u \in Threads \ {t} : pc'[u] = pc[u]
  BY <1>1, Moved DEF SetLastIndelible
<1>5. mutex = t
  BY DEF SetLastIndelible, Shape, PlaceOK
<1>6. SerialTypeOK'
  <2>1. pc' \in [Threads -> {"idle", "build", "check", "persistent", "temp", "insert", "update",
                             "insertvalid", "confirm", "begin", "commit", "setlast", "prune"}]
    BY <1>4, PointsType
  <2>2. marked \in Blocks /\ last \in Chain[marked] /\ lastPruned \in 0 .. LevelOf[last]
    BY <1>1 DEF SerialTypeOK
  <2>3. marked \in Chain[marked] /\ LevelOf[last] \in Nat /\ LevelOf[marked] \in Nat /\ LevelOf[last] <= LevelOf[marked]
    BY <2>2, ChainMembers, ChainLevels
  <2>4. lastPruned' \in 0 .. LevelOf[last']
    BY <1>2, <2>2, <2>3
  <2> QED BY <1>1, <1>2, <2>1, <2>3, <2>4 DEF SerialTypeOK
<1>7. ValidTree' /\ PeersFixed' /\ Refused'
  BY <1>2 DEF Shape, ValidTree, PeersFixed, Refused
<1>8. PlaceOK(t)'
  BY <1>1, <1>2, <1>4, ThreadsAre DEF PlaceOK
<1>9. \A u \in Threads \ {t} : (pc[u] \in Making => cur[u] \notin valid') /\ ((mutex' = u) <=> (mutex = u))
  BY <1>2, <1>5, ThreadsAre DEF Shape, PlaceOK
<1> QED BY <1>2, <1>3, <1>4, <1>6, <1>7, <1>8, <1>9, ThreadStep

LEMMA PruneLevelIs == ASSUME SerialTypeOK PROVE PruneLevel \in 0 .. LevelOf[last]
<1>1. LevelOf[last] \in Nat
  BY ChainMembers, TreeAssumption DEF SerialTypeOK
<1> QED BY <1>1, SerialsAssumption DEF PruneLevel

LEMMA ShapePrune == ASSUME Shape, NEW t \in Threads, Prune(t) PROVE Shape'
<1>1. "idle" \in Points /\ SerialTypeOK /\ "idle" \notin Working /\ "idle" \notin Making /\ "idle" \notin Confirming
  BY DEF Shape, Points, Making, Building, Working, Confirming
<1>2. UNCHANGED << valid, spends, open, persistent, marked, last, mutex, cur, tx, todo, snap, first, rejected >>
  BY DEF Prune, locals
<1>3. Goto(t, "idle") /\ pc[t] = "prune" /\ pc[t] \notin {"commit", "setlast"}
  BY DEF Prune
<1>4. HandOK(t)'
  BY <1>1, <1>2, <1>3, HandKept
<1>5. pc' \in [Threads -> Points] /\ pc'[t] = "idle" /\ \A u \in Threads \ {t} : pc'[u] = pc[u]
  BY <1>1, <1>3, Moved
<1>6. temp' \subseteq temp /\ failed' \in BOOLEAN
  BY <1>1 DEF Prune, Fail, SerialTypeOK
<1>7. lastPruned' \in 0 .. LevelOf[last']
  <2>1. lastPruned' = lastPruned \/ lastPruned' = PruneLevel
    BY DEF Prune
  <2> QED BY <1>1, <1>2, <2>1, PruneLevelIs DEF SerialTypeOK
<1>8. SerialTypeOK'
  <2>1. pc' \in [Threads -> {"idle", "build", "check", "persistent", "temp", "insert", "update",
                             "insertvalid", "confirm", "begin", "commit", "setlast", "prune"}]
    BY <1>5, PointsType
  <2> QED BY <1>1, <1>2, <1>6, <1>7, <2>1 DEF SerialTypeOK
<1>9. ValidTree' /\ PeersFixed' /\ Refused'
  BY <1>2 DEF Shape, ValidTree, PeersFixed, Refused
<1>10. PlaceOK(t)'
  <2>1. mutex # t
    BY <1>3 DEF Shape, PlaceOK
  <2> QED BY <1>1, <1>2, <1>5, <2>1 DEF PlaceOK
<1>11. \A u \in Threads \ {t} : pc[u] \in Making => cur[u] \notin valid'
  BY <1>2 DEF Shape, PlaceOK
<1> QED BY <1>2, <1>4, <1>5, <1>8, <1>9, <1>10, <1>11, ThreadStep

LEMMA ShapeStutter == ASSUME Shape, UNCHANGED serialVars PROVE Shape'
<1>1. /\ UNCHANGED << valid, spends, open, temp, persistent, marked, last, lastPruned, mutex, pc, cur, tx, todo >>
      /\ UNCHANGED << snap, first, rejected, failed >>
  BY DEF serialVars, tables, chain, locals, history
<1> QED BY <1>1 DEF Shape, SerialTypeOK, ValidTree, PeersFixed, Refused, PlaceOK, HandOK, Source, Done

LEMMA ShapeStep == ASSUME Shape, [SerialNext]_serialVars PROVE Shape'
<1>1. ASSUME NEW b \in Blocks, BlockValidate(b) \/ StartNewBlock(b) PROVE Shape'
  BY <1>1, ShapeBlockValidate, ShapeStartNewBlock
<1>2. ASSUME NEW inputs \in Txs, NextTx(inputs) PROVE Shape'
  BY <1>2, ShapeNextTx
<1>3. ASSUME NEW t \in Threads,
             \/ SnapshotLast(t) \/ SerialnumSelect(t) \/ TempSerialnumSelect(t) \/ SelectError(t)
             \/ TempSerialnumInsert(t) \/ InsertError(t)
      PROVE  Shape'
  BY <1>3, ShapeSnapshotLast, ShapeSerialnumSelect, ShapeTempSerialnumSelect, ShapeSelectError,
     ShapeTempSerialnumInsert, ShapeInsertError
<1>4. ASSUME NEW t \in Threads,
             \/ TempSerialnumUpdate(t) \/ UpdateError(t) \/ ValidObjsInsert(t)
             \/ DoConfirmOne(t) \/ BeginWrite(t) \/ Commit(t) \/ SetLastIndelible(t) \/ Prune(t)
      PROVE  Shape'
  BY <1>4, ShapeTempSerialnumUpdate, ShapeUpdateError, ShapeValidObjsInsert, ShapeDoConfirmOne,
     ShapeBeginWrite, ShapeCommit, ShapeSetLastIndelible, ShapePrune
<1> QED BY <1>1, <1>2, <1>3, <1>4, ShapeFinishNewBlock, ShapeStutter DEF SerialNext

-----------------------------------------------------------------------------
(* What no step undoes, and what a step of one thread leaves the other.      *)

\* Blocks stay valid with the inputs they have, and the chain only grows
Grows ==
    /\ valid \subseteq valid' /\ persistent \subseteq persistent' /\ (failed => failed')
    /\ \A a \in valid : spends'[a] = spends[a]
    /\ Chain[marked] \subseteq Chain[marked'] /\ Chain[last] \subseteq Chain[last']

\* Thread t keeps its place, what it has in hand, its rows and its block
Still(t) ==
    /\ pc'[t] = pc[t] /\ cur'[t] = cur[t] /\ todo'[t] = todo[t] /\ snap'[t] = snap[t] /\ open'[t] = open[t]
    /\ t = Witness => tx' = tx
    /\ pc[t] \in Making => spends'[cur[t]] = spends[cur[t]]

PeerStep == \E b \in Blocks : BlockValidate(b)
OwnStep == (\E b \in Blocks : StartNewBlock(b)) \/ (\E inputs \in Txs : NextTx(inputs)) \/ FinishNewBlock
CheckStep(t) == SnapshotLast(t) \/ SerialnumSelect(t) \/ TempSerialnumSelect(t) \/ SelectError(t) \/ InsertError(t)
RowStep(t) == TempSerialnumInsert(t) \/ TempSerialnumUpdate(t) \/ UpdateError(t)
ChainStep(t) == ValidObjsInsert(t) \/ DoConfirmOne(t) \/ BeginWrite(t) \/ Commit(t) \/ SetLastIndelible(t) \/ Prune(t)

\* A step of thread t
StepOf(t) ==
    \/ t = ProcessBlock /\ PeerStep
    \/ t = Witness /\ OwnStep
    \/ CheckStep(t) \/ RowStep(t) \/ ChainStep(t)

LEMMA SomeThread == ASSUME SerialNext PROVE \E t \in Threads : StepOf(t)
BY ThreadsAre DEF SerialNext, StepOf, PeerStep, OwnStep, CheckStep, RowStep, ChainStep

LEMMA ChainGrows ==
    ASSUME Shape
    PROVE  marked \in Blocks /\ last \in Blocks /\ Chain[last] \subseteq Chain[marked]
<1>1. marked \in Blocks /\ last \in Chain[marked]
  BY DEF Shape, SerialTypeOK
<1> QED BY <1>1, ChainMembers, ChainOfMember

\* Steps that leave valid blocks and the chain alone
LEMMA GrowsLocally ==
    ASSUME UNCHANGED << valid, persistent, marked, last >>, failed => failed', \A a \in valid : spends'[a] = spends[a]
    PROVE  Grows
BY DEF Grows

LEMMA PeerStepGrows == ASSUME Shape, PeerStep PROVE Grows /\ \A u \in Threads \ {ProcessBlock} : Still(u)
<1> PICK b \in Blocks : BlockValidate(b)
  BY DEF PeerStep
<1>1. UNCHANGED << valid, spends, persistent, marked, last, tx, snap >> /\ (failed => failed')
  BY DEF BlockValidate, chain, TempSerialnumClear, Fail
<1>2. Grows
  BY <1>1, GrowsLocally
<1>3. \A u \in Threads \ {ProcessBlock} : pc'[u] = pc[u] /\ cur'[u] = cur[u] /\ todo'[u] = todo[u] /\ open'[u] = open[u]
  BY DEF BlockValidate, Goto, TempSerialnumClear, Shape, SerialTypeOK
<1> QED BY <1>1, <1>2, <1>3 DEF Still

LEMMA StartNewBlockGrows ==
    ASSUME Shape, NEW b \in Blocks, StartNewBlock(b)
    PROVE  Grows /\ \A u \in Threads \ {Witness} : Still(u)
<1>1. UNCHANGED << valid, persistent, marked, last, tx, todo, snap >> /\ (failed => failed') /\ b \notin valid /\ b \in Own
  BY DEF StartNewBlock, chain, TempSerialnumClear, Fail
<1>2. \A a \in Blocks \ {b} : spends'[a] = spends[a]
  BY DEF StartNewBlock, Shape, SerialTypeOK
<1>3. \A a \in valid : spends'[a] = spends[a]
  BY <1>1, <1>2 DEF Shape, SerialTypeOK
<1>4. Grows
  BY <1>1, <1>3, GrowsLocally
<1>5. \A u \in Threads \ {Witness} : pc'[u] = pc[u] /\ cur'[u] = cur[u] /\ open'[u] = open[u]
  BY DEF StartNewBlock, Goto, TempSerialnumClear, Shape, SerialTypeOK
<1>6. \A u \in Threads \ {Witness} : pc[u] \in Making => spends'[cur[u]] = spends[cur[u]]
  BY <1>1, <1>2 DEF Shape, PlaceOK, SerialTypeOK
<1> QED BY <1>1, <1>4, <1>5, <1>6 DEF Still

LEMMA OwnStepGrows == ASSUME Shape, OwnStep PROVE Grows /\ \A u \in Threads \ {Witness} : Still(u)
<1>1. ASSUME NEW b \in Blocks, StartNewBlock(b) PROVE Grows /\ \A u \in Threads \ {Witness} : Still(u)
  BY <1>1, StartNewBlockGrows
<1>2. ASSUME NEW inputs \in Txs, NextTx(inputs) PROVE Grows /\ \A u \in Threads \ {Witness} : Still(u)
  <2>1. UNCHANGED << valid, spends, persistent, marked, last, cur, open, snap, failed >>
    BY <1>2 DEF NextTx, chain, tables, history
  <2>2. \A u \in Threads \ {Witness} : pc'[u] = pc[u] /\ todo'[u] = todo[u]
    BY <1>2 DEF NextTx, Goto, Shape, SerialTypeOK
  <2> QED BY <2>1, <2>2, GrowsLocally DEF Still
<1>3. ASSUME FinishNewBlock PROVE Grows /\ \A u \in Threads \ {Witness} : Still(u)
  <2>1. UNCHANGED << valid, spends, persistent, marked, last, cur, open, snap, failed, todo >>
    BY <1>3 DEF FinishNewBlock, chain, tables, history, locals
  <2>2. \A u \in Threads \ {Witness} : pc'[u] = pc[u]
    BY <1>3 DEF FinishNewBlock, Goto, Shape, SerialTypeOK
  <2> QED BY <2>1, <2>2, GrowsLocally DEF Still
<1> QED BY <1>1, <1>2, <1>3 DEF OwnStep

LEMMA CheckStepGrows == ASSUME Shape, NEW t \in Threads, CheckStep(t) PROVE Grows /\ \A u \in Threads \ {t} : Still(u)
<1>1. UNCHANGED << valid, spends, open, persistent, marked, last, cur, tx >> /\ (failed => failed')
  BY DEF CheckStep, SnapshotLast, SerialnumSelect, TempSerialnumSelect, SelectError, InsertError, Refuse, Fail,
         tables, chain, locals, history
<1>2. \A u \in Threads \ {t} : pc'[u] = pc[u]
  BY DEF CheckStep, SnapshotLast, SerialnumSelect, TempSerialnumSelect, SelectError, InsertError, Refuse, Goto,
         Shape, SerialTypeOK
<1>3. \A u \in Threads \ {t} : todo'[u] = todo[u]
  BY DEF CheckStep, SnapshotLast, SerialnumSelect, TempSerialnumSelect, SelectError, InsertError, Refuse,
     locals,
         Shape, SerialTypeOK
<1>4. \A u \in Threads \ {t} : snap'[u] = snap[u]
  BY DEF CheckStep, SnapshotLast, SerialnumSelect, TempSerialnumSelect, SelectError, InsertError, Refuse,
     locals,
         Shape, SerialTypeOK
<1> QED BY <1>1, <1>2, <1>3, <1>4, GrowsLocally DEF Still

LEMMA InsertGrows ==
    ASSUME Shape, NEW t \in Threads, TempSerialnumInsert(t)
    PROVE  Grows /\ \A u \in Threads \ {t} : Still(u)
<1>1. UNCHANGED << valid, persistent, marked, last, cur, tx, snap, failed >> /\ pc[t] \in Making
  BY DEF TempSerialnumInsert, chain, history, Making, Building, Working
<1>2. \A u \in Threads \ {t} : pc'[u] = pc[u] /\ open'[u] = open[u] /\ todo'[u] = todo[u]
  BY DEF TempSerialnumInsert, Goto, Shape, SerialTypeOK
<1>3. cur[t] \notin valid /\ (cur[t] \in Own <=> t = Witness)
  BY <1>1 DEF Shape, PlaceOK
<1>4. \A a \in Blocks : a # cur[t] \/ t = ProcessBlock => spends'[a] = spends[a]
  BY DEF TempSerialnumInsert, Shape, SerialTypeOK
<1>5. Grows
  BY <1>1, <1>3, <1>4, GrowsLocally DEF Shape, SerialTypeOK
<1>6. \A u \in Threads \ {t} : pc[u] \in Making => spends'[cur[u]] = spends[cur[u]]
  <2> SUFFICES ASSUME NEW u \in Threads \ {t}, pc[u] \in Making PROVE spends'[cur[u]] = spends[cur[u]]
    OBVIOUS
  <2>1. cur[u] \in Own <=> u = Witness
    BY DEF Shape, PlaceOK
  <2>2. cur[u] # cur[t] /\ cur[u] \in Blocks
    BY <1>3, <2>1, ThreadsAre DEF Shape, SerialTypeOK
  <2> QED BY <1>4, <2>2
<1> QED BY <1>1, <1>2, <1>5, <1>6 DEF Still

LEMMA RowStepGrows == ASSUME Shape, NEW t \in Threads, RowStep(t) PROVE Grows /\ \A u \in Threads \ {t} : Still(u)
<1>1. CASE TempSerialnumUpdate(t) \/ UpdateError(t)
  <2>1. UNCHANGED << valid, spends, persistent, marked, last, cur, tx, todo, snap >> /\ (failed => failed')
    BY <1>1 DEF TempSerialnumUpdate, UpdateError, Fail, tables, chain, locals, history
  <2>2. \A u \in Threads \ {t} : pc'[u] = pc[u]
    BY <1>1 DEF TempSerialnumUpdate, UpdateError, Goto, Shape, SerialTypeOK
  <2>3. \A u \in Threads \ {t} : open'[u] = open[u]
    BY <1>1 DEF TempSerialnumUpdate, UpdateError, tables, Shape, SerialTypeOK
  <2> QED BY <2>1, <2>2, <2>3, GrowsLocally DEF Still
<1> QED BY <1>1, InsertGrows DEF RowStep

LEMMA ChainStepGrows == ASSUME Shape, NEW t \in Threads, ChainStep(t) PROVE Grows /\ \A u \in Threads \ {t} : Still(u)
<1>1. UNCHANGED << spends, open, cur, tx, todo, snap >> /\ (failed => failed')
  BY DEF ChainStep, ValidObjsInsert, DoConfirmOne, BeginWrite, Commit, SetLastIndelible, Prune, Fail,
         tables, locals, history
<1>2. \A u \in Threads \ {t} : pc'[u] = pc[u]
  BY DEF ChainStep, ValidObjsInsert, DoConfirmOne, BeginWrite, Commit, SetLastIndelible, Prune, Goto,
         Shape, SerialTypeOK
<1>3. valid \subseteq valid' /\ persistent \subseteq persistent'
  BY DEF ChainStep, ValidObjsInsert, DoConfirmOne, BeginWrite, Commit, SetLastIndelible, Prune, tables
<1>4. Chain[marked] \subseteq Chain[marked']
  <2>1. CASE UNCHANGED marked
    BY <2>1
  <2>2. CASE ~UNCHANGED marked
    <3>1. PICK b \in NewlyIndelible(cur[t]) : pc[t] = "begin" /\ marked' = b
      BY <2>2 DEF ChainStep, ValidObjsInsert, DoConfirmOne, BeginWrite, Commit, SetLastIndelible, Prune, chain
    <3> QED BY <3>1, MarkedNext
  <2> QED BY <2>1, <2>2
<1>5. Chain[last] \subseteq Chain[last']
  <2>1. last' = last \/ last' = marked
    BY DEF ChainStep, ValidObjsInsert, DoConfirmOne, BeginWrite, Commit, SetLastIndelible, Prune, chain
  <2> QED BY <2>1, ChainGrows
<1> QED BY <1>1, <1>2, <1>3, <1>4, <1>5 DEF Grows, Still

LEMMA StepGrows == ASSUME Shape, NEW t \in Threads, StepOf(t) PROVE Grows /\ \A u \in Threads \ {t} : Still(u)
BY PeerStepGrows, OwnStepGrows, CheckStepGrows, RowStepGrows, ChainStepGrows DEF StepOf

\* By which steps a thread gets where it is
LEMMA GetsTo ==
    ASSUME Shape, NEW t \in Threads, StepOf(t)
    PROVE  /\ pc'[t] = "setlast" => Commit(t)
           /\ pc'[t] = "persistent" => SnapshotLast(t)
           /\ pc'[t] = "temp" => SerialnumSelect(t) /\ Head(todo[t]) \notin persistent
           /\ pc'[t] = "insertvalid" => TempSerialnumUpdate(t)
<1>0. pc \in [Threads -> Points]
  BY PcPoints DEF Shape
<1>1. ASSUME t = ProcessBlock, PeerStep PROVE pc'[t] \in {"update", "check"}
  BY <1>0, <1>1 DEF PeerStep, BlockValidate, Goto
<1>2. ASSUME t = Witness, OwnStep PROVE pc'[t] \in {"build", "check", "update", "idle"}
  BY <1>0, <1>2 DEF OwnStep, StartNewBlock, NextTx, FinishNewBlock, Goto
<1>3. ASSUME CheckStep(t) PROVE \/ pc'[t] \in {"idle", "build", "check", "insert"}
                                \/ pc'[t] = "persistent" /\ SnapshotLast(t)
                                \/ pc'[t] = "temp" /\ SerialnumSelect(t) /\ Head(todo[t]) \notin persistent
  BY <1>0, <1>3 DEF CheckStep, SnapshotLast, SerialnumSelect, TempSerialnumSelect, SelectError, InsertError,
     Refuse, Goto
<1>4. ASSUME RowStep(t) PROVE \/ pc'[t] \in {"idle", "build", "check", "insert", "update"}
                              \/ pc'[t] = "insertvalid" /\ TempSerialnumUpdate(t)
  BY <1>0, <1>4 DEF RowStep, TempSerialnumInsert, TempSerialnumUpdate, UpdateError, Goto
<1>5. ASSUME ChainStep(t) PROVE \/ pc'[t] \in {"confirm", "begin", "idle", "commit", "prune"}
                                \/ pc'[t] = "setlast" /\ Commit(t)
  BY <1>0, <1>5 DEF ChainStep, ValidObjsInsert, DoConfirmOne, BeginWrite, Commit, SetLastIndelible, Prune, Goto
<1> QED BY <1>1, <1>2, <1>3, <1>4, <1>5 DEF StepOf

-----------------------------------------------------------------------------
(* The persistent database holds all of the last indelible chain.            *)

\* The serial numbers of the chain of b are committed
Stored(b) == \A a \in Chain[b] : Inputs(spends[a]) \subseteq persistent

Committed == Stored(last) /\ \A t \in Threads : pc[t] = "setlast" => Stored(marked)

LEMMA ValidChain == ASSUME Shape, NEW b \in valid PROVE b \in Blocks /\ Chain[b] \subseteq valid
BY ChainInside DEF Shape, SerialTypeOK, ValidTree

LEMMA ChainValid == ASSUME Shape PROVE Chain[marked] \subseteq valid /\ Chain[last] \subseteq valid
BY ChainGrows, ValidChain DEF Shape, SerialTypeOK

LEMMA RootEmpty == ASSUME PeersFixed PROVE Inputs(spends[Root]) = {}
<1>1. spends[Root] = << >>
  BY SerialsAssumption, TreeAssumption DEF PeersFixed
<1> QED BY <1>1 DEF Inputs

LEMMA StoredKept ==
    ASSUME Shape, Grows, NEW b \in Blocks, Chain[b] \subseteq valid, Stored(b)
    PROVE  \A a \in Chain[b] : Inputs(spends'[a]) \subseteq persistent'
BY DEF Grows, Stored

LEMMA CommittedInit == ASSUME SerialInit PROVE Committed
<1>1. PeersFixed /\ last = Root /\ \A t \in Threads : pc[t] = "idle"
  BY ShapeInit DEF SerialInit, Shape
<1> QED BY <1>1, ChainIs, RootEmpty DEF Committed, Stored

LEMMA CommittedStep == ASSUME Shape, Committed, NEW t \in Threads, StepOf(t) PROVE Committed'
<1>1. Grows /\ \A u \in Threads \ {t} : Still(u)
  BY StepGrows
<1>2. /\ marked \in Blocks /\ last \in Blocks
      /\ Chain[marked] \subseteq valid /\ Chain[last] \subseteq valid
  BY ChainGrows, ChainValid
<1>3. \A a \in Chain[last] : Inputs(spends'[a]) \subseteq persistent'
  BY <1>1, <1>2, StoredKept DEF Committed
<1>4. ASSUME NEW u \in Threads, pc[u] = "setlast" PROVE \A a \in Chain[marked] : Inputs(spends'[a]) \subseteq persistent'
  BY <1>1, <1>2, <1>4, StoredKept DEF Committed
<1>5. \A u \in Threads : pc[u] \in {"commit", "setlast"} => mutex = u
  BY DEF Shape, PlaceOK
<1>6. CASE SetLastIndelible(t)
  <2>1. pc[t] = "setlast" /\ last' = marked /\ mutex = t
    BY <1>5, <1>6 DEF SetLastIndelible
  <2>2. pc'[t] # "setlast"
    <3>1. ~Commit(t)
      BY <1>6 DEF SetLastIndelible, Commit
    <3> QED BY <3>1, GetsTo
  <2>3. \A u \in Threads : pc'[u] # "setlast"
    BY <1>1, <1>5, <2>1, <2>2 DEF Still
  <2> QED BY <1>4, <2>1, <2>3 DEF Committed, Stored
<1>7. CASE Commit(t)
  <2>1. last' = last /\ marked' = marked /\ spends' = spends
    BY <1>7 DEF Commit, chain
  <2>2. \A a \in Chain[marked] : Inputs(spends[a]) \subseteq persistent'
    BY <1>7 DEF Commit
  <2> QED BY <1>3, <2>1, <2>2 DEF Committed, Stored
<1>8. CASE ~SetLastIndelible(t) /\ ~Commit(t)
  <2>1. last' = last
    BY <1>8 DEF StepOf, PeerStep, OwnStep, CheckStep, RowStep, ChainStep, BlockValidate, StartNewBlock, NextTx,
       FinishNewBlock, SnapshotLast, SerialnumSelect, TempSerialnumSelect, SelectError, InsertError, Refuse,
       TempSerialnumInsert, TempSerialnumUpdate, UpdateError, ValidObjsInsert, DoConfirmOne, BeginWrite, Prune, chain
  <2>2. marked' = marked \/ mutex = None
    BY <1>8 DEF StepOf, PeerStep, OwnStep, CheckStep, RowStep, ChainStep, BlockValidate, StartNewBlock, NextTx,
       FinishNewBlock, SnapshotLast, SerialnumSelect, TempSerialnumSelect, SelectError, InsertError, Refuse,
       TempSerialnumInsert, TempSerialnumUpdate, UpdateError, ValidObjsInsert, DoConfirmOne, BeginWrite, Prune, chain
  <2>3. ASSUME NEW u \in Threads, pc'[u] = "setlast" PROVE \A a \in Chain[marked'] : Inputs(spends'[a]) \subseteq persistent'
    <3>1. u # t
      BY <1>8, <2>3, GetsTo
    <3>2. pc[u] = "setlast" /\ mutex = u
      BY <1>1, <1>5, <2>3, <3>1 DEF Still
    <3>3. marked' = marked
      BY <2>2, <3>2, ThreadsAre
    <3> QED BY <1>4, <3>2, <3>3
  <2> QED BY <1>3, <2>1, <2>3 DEF Committed, Stored
<1> QED BY <1>6, <1>7, <1>8

\* A number not in the persistent database was not spent up to the snapshot
Snapped(t) ==
    /\ pc[t] \in {"persistent", "temp"} => snap[t] \in Chain[last]
    /\ pc[t] = "temp" => \A a \in Chain[snap[t]] : Head(todo[t]) \notin Inputs(spends[a])

LEMMA SnappedStep ==
    ASSUME Shape, Committed, \A u \in Threads : Snapped(u), NEW t \in Threads, StepOf(t)
    PROVE  \A u \in Threads : Snapped(u)'
<1>1. Grows /\ \A u \in Threads \ {t} : Still(u)
  BY StepGrows
<1>2. last \in Blocks /\ Chain[last] \subseteq valid /\ SerialTypeOK
  BY ChainGrows, ChainValid DEF Shape
<1>3. ASSUME NEW u \in Threads \ {t} PROVE Snapped(u)'
  <2>1. pc'[u] = pc[u] /\ snap'[u] = snap[u] /\ todo'[u] = todo[u] /\ Snapped(u)
    BY <1>1 DEF Still
  <2>2. pc[u] \in {"persistent", "temp"} => snap[u] \in Chain[last']
    BY <1>1, <2>1 DEF Snapped, Grows
  <2>3. pc[u] = "temp" => \A a \in Chain[snap[u]] : spends'[a] = spends[a]
    BY <1>1, <1>2, <2>1, ChainOfMember DEF Snapped, Grows
  <2> QED BY <2>1, <2>2, <2>3 DEF Snapped
<1>4. Snapped(t)'
  <2>1. CASE pc'[t] = "persistent"
    <3>1. SnapshotLast(t)
      BY <2>1, GetsTo
    <3>2. snap'[t] = last /\ last' = last
      BY <1>2, <3>1 DEF SnapshotLast, chain, SerialTypeOK
    <3> QED BY <1>2, <2>1, <3>2, ChainMembers DEF Snapped
  <2>2. CASE pc'[t] = "temp"
    <3>1. SerialnumSelect(t) /\ Head(todo[t]) \notin persistent
      BY <2>2, GetsTo
    <3>2. UNCHANGED << snap, todo, spends, last >> /\ pc[t] = "persistent"
      BY <3>1 DEF SerialnumSelect, locals, chain
    <3>3. snap[t] \in Chain[last]
      BY <3>2 DEF Snapped
    <3>4. \A a \in Chain[snap[t]] : Inputs(spends[a]) \subseteq persistent
      BY <1>2, <3>3, ChainOfMember DEF Committed, Stored
    <3> QED BY <3>1, <3>2, <3>3, <3>4 DEF Snapped
  <2>3. CASE pc'[t] \notin {"persistent", "temp"}
    BY <2>3 DEF Snapped
  <2> QED BY <2>1, <2>2, <2>3
<1> QED BY <1>3, <1>4

-----------------------------------------------------------------------------
(* The rows of Temp_Serials.                                                 *)

\* Of what the thread has in hand, what it is done with
Behind(t) == {Source(t)[i] : i \in 1 .. Done(t)}

\* What the rows of the thread's own block must be
Covered(t) ==
    IF t = ProcessBlock
      THEN IF pc[t] \in Working THEN Behind(t) ELSE Inputs(spends[cur[t]])
      ELSE Inputs(spends[cur[t]]) \cup (IF pc[t] = "insert" THEN Behind(t) ELSE {})

\* They are all there, and unless a call has failed no others
Rows(t) == pc[t] \in Building => Covered(t) \subseteq open[t] /\ (~failed => open[t] \subseteq Covered(t))

LEMMA HandFacts ==
    ASSUME Shape, NEW t \in Threads, pc[t] \in Working
    PROVE  /\ Source(t) \in Seq(Serials) /\ todo[t] \in Seq(Serials) /\ todo[t] # << >>
           /\ Len(todo[t]) \in Nat \ {0} /\ Len(Source(t)) \in Nat /\ Done(t) \in Nat
           /\ Done(t) + Len(todo[t]) = Len(Source(t))
           /\ Head(todo[t]) = Source(t)[Done(t) + 1] /\ Done(t) + 1 \in 1 .. Len(Source(t))
           /\ Len(Tail(todo[t])) = Len(todo[t]) - 1
<1>1. HandOK(t) /\ SerialTypeOK
  BY DEF Shape
<1>2. Source(t) \in Seq(Serials) /\ todo[t] \in Seq(Serials) /\ todo[t] # << >>
  BY <1>1 DEF SerialTypeOK, Source, HandOK
<1>3. /\ Len(todo[t]) \in Nat \ {0} /\ Len(Source(t)) \in Nat /\ Head(todo[t]) = todo[t][1]
      /\ Len(Tail(todo[t])) = Len(todo[t]) - 1
  BY <1>2, TailFacts
<1>4. Len(todo[t]) <= Len(Source(t)) /\ todo[t][1] = Source(t)[Done(t) + 1]
  BY <1>1, <1>3 DEF HandOK
<1>5. PICK m, n : m = Len(todo[t]) /\ n = Len(Source(t))
  OBVIOUS
<1>6. m \in Nat \ {0} /\ n \in Nat /\ m <= n /\ Done(t) = n - m
  BY <1>3, <1>4, <1>5 DEF Done
<1>7. Done(t) \in Nat /\ Done(t) + m = n /\ Done(t) + 1 \in 1 .. n
  BY <1>6
<1> QED BY <1>2, <1>3, <1>4, <1>5, <1>7

\* One more is done
LEMMA BehindNext ==
    ASSUME Shape, NEW t \in Threads, pc[t] \in Working, todo'[t] = Tail(todo[t]), (Source(t))' = Source(t)
    PROVE  (Behind(t))' = Behind(t) \cup {Head(todo[t])}
<1>1. Done(t) \in Nat /\ Head(todo[t]) = Source(t)[Done(t) + 1]
  BY HandFacts
<1>2. (Done(t))' = Done(t) + 1
  <2>1. Len(todo[t]) \in Nat /\ Len(Source(t)) \in Nat /\ Len(Tail(todo[t])) = Len(todo[t]) - 1
    BY HandFacts
  <2>2. (Done(t))' = Len(Source(t)) - Len(Tail(todo[t]))
    BY DEF Done
  <2>3. PICK m, n : m = Len(todo[t]) /\ n = Len(Source(t))
    OBVIOUS
  <2>4. (Done(t))' = n - (m - 1) /\ Done(t) = n - m /\ m \in Nat /\ n \in Nat
    BY <2>1, <2>2, <2>3 DEF Done
  <2> QED BY <2>4
<1>3. 1 .. Done(t) + 1 = (1 .. Done(t)) \cup {Done(t) + 1}
  BY <1>1
<1>4. (Behind(t))' = {Source(t)[i] : i \in 1 .. Done(t) + 1}
  BY <1>2 DEF Behind
<1> QED BY <1>1, <1>3, <1>4 DEF Behind

\* The last one is done
LEMMA BehindAll ==
    ASSUME Shape, NEW t \in Threads, pc[t] \in Working, Len(todo[t]) = 1
    PROVE  Inputs(Source(t)) = Behind(t) \cup {Head(todo[t])}
<1>1. /\ Done(t) \in Nat /\ Head(todo[t]) = Source(t)[Done(t) + 1]
      /\ Source(t) \in Seq(Serials) /\ Len(Source(t)) = Done(t) + 1
  BY HandFacts
<1>2. DOMAIN Source(t) = 1 .. Done(t) + 1
  BY <1>1
<1> QED BY <1>1, <1>2 DEF Behind, Inputs

\* Nothing is done yet
LEMMA BehindNone ==
    ASSUME NEW t \in Threads, (Source(t))' \in Seq(Serials), todo'[t] = (Source(t))'
    PROVE  (Behind(t))' = {}
<1>1. (Done(t))' = 0
  BY DEF Done
<1> QED BY <1>1 DEF Behind

LEMMA ConcatInputs ==
    ASSUME NEW S, NEW s \in Seq(S), NEW r \in Seq(S)
    PROVE  /\ s \o r \in Seq(S) /\ Len(s \o r) = Len(s) + Len(r) /\ Len(s) \in Nat /\ Len(r) \in Nat
           /\ \A i \in 1 .. Len(s) : (s \o r)[i] = s[i]
           /\ \A i \in 1 .. Len(r) : (s \o r)[Len(s) + i] = r[i]
           /\ Inputs(s \o r) = Inputs(s) \cup Inputs(r)
<1>1. /\ s \o r \in Seq(S) /\ Len(s \o r) = Len(s) + Len(r) /\ Len(s) \in Nat /\ Len(r) \in Nat
      /\ \A i \in 1 .. Len(s) : (s \o r)[i] = s[i]
      /\ \A i \in 1 .. Len(r) : (s \o r)[Len(s) + i] = r[i]
  OBVIOUS
<1>2. DOMAIN s = 1 .. Len(s) /\ DOMAIN r = 1 .. Len(r) /\ DOMAIN (s \o r) = 1 .. Len(s) + Len(r)
  BY <1>1
<1> DEFINE q == s \o r
<1>3. Inputs(s) \cup Inputs(r) \subseteq Inputs(q)
  <2>1. \A i \in 1 .. Len(s) : i \in 1 .. Len(s) + Len(r)
    BY <1>1
  <2>2. \A i \in 1 .. Len(r) : Len(s) + i \in 1 .. Len(s) + Len(r)
    BY <1>1
  <2> QED BY <1>1, <1>2, <2>1, <2>2 DEF Inputs
<1>4. Inputs(q) \subseteq Inputs(s) \cup Inputs(r)
  <2> SUFFICES ASSUME NEW i \in 1 .. Len(s) + Len(r) PROVE q[i] \in Inputs(s) \cup Inputs(r)
    BY <1>2 DEF Inputs
  <2>1. CASE i <= Len(s)
    <3>1. i \in 1 .. Len(s)
      BY <1>1, <2>1
    <3> QED BY <1>1, <1>2, <3>1 DEF Inputs
  <2>2. CASE i > Len(s)
    <3>1. PICK k : k = i - Len(s)
      OBVIOUS
    <3>2. k \in 1 .. Len(r) /\ Len(s) + k = i
      BY <1>1, <2>2, <3>1
    <3>3. q[i] = r[k]
      BY <1>1, <3>2
    <3> QED BY <1>2, <3>2, <3>3 DEF Inputs
  <2> QED BY <1>1, <2>1, <2>2
<1> HIDE DEF q
<1>5. Inputs(q) = Inputs(s) \cup Inputs(r)
  BY <1>3, <1>4
<1> QED BY <1>1, <1>5 DEF q

LEMMA RowsOther ==
    ASSUME Shape, NEW u \in Threads, Rows(u), Still(u), failed => failed'
    PROVE  Rows(u)'
<1> SUFFICES ASSUME pc[u] \in Building PROVE Rows(u)'
  BY DEF Still, Rows
<1>1. pc[u] \in Making /\ spends'[cur'[u]] = spends[cur[u]]
  BY DEF Making, Still
<1>2. (Source(u))' = Source(u)
  BY <1>1 DEF Source, Still, Threads
<1>3. (Done(u))' = Done(u)
  BY <1>2 DEF Done, Still
<1>4. (Behind(u))' = Behind(u)
  BY <1>2, <1>3 DEF Behind
<1>5. (Covered(u))' = Covered(u)
  BY <1>1, <1>4 DEF Covered, Still
<1>6. pc'[u] = pc[u] /\ open'[u] = open[u]
  BY DEF Still
<1> QED BY <1>5, <1>6 DEF Rows

LEMMA RowsBlockValidate ==
    ASSUME Shape, Shape', NEW b \in Blocks, BlockValidate(b)
    PROVE  Rows(ProcessBlock)'
<1>1. ProcessBlock \in Threads /\ SerialTypeOK
  BY ThreadsAre DEF Shape
<1>2. (ProcessBlock \in Threads /\ open' = [open EXCEPT ![ProcessBlock] = {}]) \/ failed'
  BY <1>1 DEF BlockValidate, TempSerialnumClear, Fail
<1>3. open'[ProcessBlock] = {} \/ failed'
  BY <1>1, <1>2 DEF SerialTypeOK
<1>4. (Covered(ProcessBlock))' = {}
  <2>1. cur'[ProcessBlock] = b /\ todo'[ProcessBlock] = spends[b] /\ spends' = spends /\ spends[b] \in Seq(Serials)
    BY <1>1 DEF BlockValidate, SerialTypeOK
  <2>2. (Source(ProcessBlock))' = spends[b]
    BY <2>1 DEF Source
  <2>3. (Behind(ProcessBlock))' = {}
    BY <1>1, <2>1, <2>2, BehindNone
  <2>4. pc'[ProcessBlock] = IF spends[b] = << >> THEN "update" ELSE "check"
    BY <1>1, PcPoints DEF BlockValidate, Goto
  <2>5. CASE spends[b] = << >>
    BY <2>1, <2>4, <2>5 DEF Covered, Working, Inputs
  <2>6. CASE spends[b] # << >>
    BY <2>3, <2>4, <2>6 DEF Covered, Working
  <2> QED BY <2>5, <2>6
<1> QED BY <1>3, <1>4 DEF Rows

LEMMA RowsOwnStep == ASSUME Shape, Rows(Witness), OwnStep PROVE Rows(Witness)'
<1>1. Witness \in Threads /\ SerialTypeOK /\ Witness # ProcessBlock /\ pc \in [Threads -> Points]
  BY ThreadsAre, PcPoints DEF Shape
<1>2. ASSUME NEW b \in Blocks, StartNewBlock(b) PROVE Rows(Witness)'
  <2>1. open' = [open EXCEPT ![Witness] = {}] \/ failed'
    BY <1>2 DEF StartNewBlock, TempSerialnumClear, Fail
  <2>2. open'[Witness] = {} \/ failed'
    BY <1>1, <2>1 DEF SerialTypeOK
  <2>3. cur'[Witness] = b /\ spends'[b] = << >> /\ pc'[Witness] = "build"
    BY <1>1, <1>2 DEF StartNewBlock, Goto, SerialTypeOK
  <2>4. (Covered(Witness))' = {}
    BY <1>1, <2>3 DEF Covered, Inputs
  <2> QED BY <2>2, <2>4 DEF Rows
<1>3. ASSUME (\E inputs \in Txs : NextTx(inputs)) \/ FinishNewBlock PROVE Rows(Witness)'
  <2>1. UNCHANGED << spends, cur, open, failed >> /\ pc[Witness] = "build" /\ pc'[Witness] # "insert"
    BY <1>1, <1>3 DEF NextTx, FinishNewBlock, Goto, tables, locals, history
  <2>2. (Covered(Witness))' = Covered(Witness)
    BY <1>1, <2>1 DEF Covered
  <2> QED BY <2>1, <2>2 DEF Rows, Building
<1> QED BY <1>2, <1>3 DEF OwnStep

\* A refused block has no rows left, a refused transaction left none or failed on the way
LEMMA RowsRefuse ==
    ASSUME Shape, NEW t \in Threads, Rows(t), Refuse(t), pc[t] \in Working, failed => failed',
           pc[t] = "insert" => failed'
    PROVE  Rows(t)'
<1>1. UNCHANGED << spends, cur, open >> /\ pc'[t] = (IF t = ProcessBlock THEN "idle" ELSE "build")
  BY PcPoints DEF Refuse, tables, locals, Goto, Shape
<1>2. CASE t = ProcessBlock
  BY <1>1, <1>2 DEF Rows, Building, Working
<1>3. CASE t # ProcessBlock
  <2>1. (Covered(t))' = Inputs(spends[cur[t]]) /\ Inputs(spends[cur[t]]) \subseteq Covered(t)
    BY <1>1, <1>3 DEF Covered
  <2>2. pc[t] # "insert" => Covered(t) = Inputs(spends[cur[t]])
    BY <1>3 DEF Covered
  <2>3. pc[t] \in Building
    BY DEF Building
  <2> QED BY <1>1, <2>1, <2>2, <2>3 DEF Rows
<1> QED BY <1>2, <1>3

LEMMA RowsCheckStep == ASSUME Shape, NEW t \in Threads, Rows(t), CheckStep(t) PROVE Rows(t)'
<1>0. pc \in [Threads -> Points] /\ SerialTypeOK
  BY PcPoints DEF Shape
<1>1. CASE Refuse(t)
  <2>1. pc[t] \in Working /\ (failed => failed') /\ (pc[t] = "insert" => failed')
    BY DEF CheckStep, SnapshotLast, SerialnumSelect, TempSerialnumSelect, SelectError, InsertError, Fail,
       Working,
       history
  <2> QED BY <1>1, <2>1, RowsRefuse
<1>2. CASE ~Refuse(t)
  <2>1. UNCHANGED << spends, cur, open, failed, tx >> /\ pc[t] \in Working /\ pc[t] # "insert"
    BY <1>2 DEF CheckStep, SnapshotLast, SerialnumSelect, TempSerialnumSelect, SelectError, InsertError,
       Working,
       tables, history, locals
  <2>2. pc'[t] \in Working
    BY <1>0, <1>2 DEF CheckStep, SnapshotLast, SerialnumSelect, TempSerialnumSelect, SelectError, InsertError,
       Working, Goto
  <2>3. (Source(t))' = Source(t)
    BY <2>1 DEF Source
  <2>4. CASE t = ProcessBlock
    <3>1. todo'[t] = todo[t]
      BY <1>0, <1>2, <2>4 DEF CheckStep, SnapshotLast, SerialnumSelect, TempSerialnumSelect, SelectError,
         InsertError, SerialTypeOK, locals
    <3>2. (Covered(t))' = Covered(t)
      BY <2>1, <2>2, <2>3, <2>4, <3>1 DEF Covered, Behind, Done
    <3> QED BY <2>1, <3>2 DEF Rows, Building
  <2>5. CASE t # ProcessBlock
    <3>1. Covered(t) = Inputs(spends[cur[t]])
      BY <2>1, <2>5 DEF Covered
    <3>2. pc'[t] = "insert" => (Behind(t))' = {}
      <4> SUFFICES ASSUME pc'[t] = "insert" PROVE (Behind(t))' = {}
        OBVIOUS
      <4>1. TempSerialnumSelect(t) /\ ~Found(t, Head(todo[t]))
        BY <1>0, <1>2 DEF CheckStep, SnapshotLast, SerialnumSelect, TempSerialnumSelect, SelectError,
           InsertError, Goto
      <4>2. Len(todo[t]) = 1
        BY <1>0, <2>5, <4>1 DEF TempSerialnumSelect, Goto
      <4>3. todo'[t] = tx /\ Source(t) = tx /\ tx \in Seq(Serials)
        BY <1>0, <2>5, <4>1, <4>2 DEF TempSerialnumSelect, SerialTypeOK, Source
      <4> QED BY <2>3, <4>3, BehindNone
    <3>3. (Covered(t))' = Inputs(spends[cur[t]])
      BY <2>1, <2>5, <3>2 DEF Covered
    <3> QED BY <2>1, <3>1, <3>3 DEF Rows, Building
  <2> QED BY <2>4, <2>5
<1> QED BY <1>1, <1>2

LEMMA RowsInsert == ASSUME Shape, NEW t \in Threads, Rows(t), TempSerialnumInsert(t) PROVE Rows(t)'
<1>1. /\ pc[t] \in Working /\ pc[t] = "insert" /\ pc[t] \in Building /\ pc \in [Threads -> Points]
      /\ UNCHANGED << cur, tx, failed >> /\ SerialTypeOK
  BY PcPoints DEF TempSerialnumInsert, Shape, Working, Building, history
<1>2. open'[t] = open[t] \cup {Head(todo[t])} /\ todo'[t] = Tail(todo[t])
  BY InsertFacts
<1>3. CASE t = ProcessBlock
  <2>1. spends' = spends /\ pc'[t] = (IF Len(todo[t]) = 1 THEN "update" ELSE "check")
    BY <1>1, <1>3 DEF TempSerialnumInsert, Goto
  <2>2. (Source(t))' = Source(t) /\ Source(t) = spends[cur[t]]
    BY <1>1, <1>3, <2>1 DEF Source
  <2>3. (Behind(t))' = Behind(t) \cup {Head(todo[t])}
    BY <1>1, <1>2, <2>2, BehindNext
  <2>4. Len(todo[t]) = 1 => Inputs(spends[cur[t]]) = Behind(t) \cup {Head(todo[t])}
    BY <1>1, <2>2, BehindAll
  <2>5. Covered(t) = Behind(t)
    BY <1>1, <1>3 DEF Covered
  <2>6. (Covered(t))' = Behind(t) \cup {Head(todo[t])}
    <3>1. CASE Len(todo[t]) = 1
      BY <1>1, <1>3, <2>1, <2>4, <3>1 DEF Covered, Working
    <3>2. CASE Len(todo[t]) # 1
      BY <1>3, <2>1, <2>3, <3>2 DEF Covered, Working
    <3> QED BY <3>1, <3>2
  <2> QED BY <1>1, <1>2, <2>5, <2>6 DEF Rows
<1>4. CASE t # ProcessBlock
  <2>1. pc'[t] = (IF Len(todo[t]) = 1 THEN "build" ELSE "insert")
    BY <1>1, <1>4 DEF TempSerialnumInsert, Goto
  <2>2. (Source(t))' = Source(t) /\ Source(t) = tx
    BY <1>1, <1>4 DEF Source
  <2>3. (Behind(t))' = Behind(t) \cup {Head(todo[t])}
    BY <1>1, <1>2, <2>2, BehindNext
  <2>5. Covered(t) = Inputs(spends[cur[t]]) \cup Behind(t)
    BY <1>1, <1>4 DEF Covered
  <2>6. (Covered(t))' = Covered(t) \cup {Head(todo[t])}
    <3>1. CASE Len(todo[t]) = 1
      <4>1. Inputs(tx) = Behind(t) \cup {Head(todo[t])}
        BY <1>1, <2>2, <3>1, BehindAll
      <4>2. cur[t] \in Blocks /\ spends[cur[t]] \in Seq(Serials) /\ tx \in Seq(Serials)
        BY <1>1 DEF SerialTypeOK
      <4>3. spends'[cur[t]] = spends[cur[t]] \o tx
        BY <1>1, <1>4, <3>1, <4>2 DEF TempSerialnumInsert, SerialTypeOK
      <4>4. Inputs(spends'[cur'[t]]) = Inputs(spends[cur[t]]) \cup Inputs(tx)
        BY <1>1, <4>2, <4>3, ConcatInputs
      <4>5. (Covered(t))' = Inputs(spends'[cur'[t]])
        BY <1>4, <2>1, <3>1 DEF Covered
      <4> QED BY <2>5, <4>1, <4>4, <4>5
    <3>2. CASE Len(todo[t]) # 1
      <4>1. spends' = spends
        BY <1>4, <3>2 DEF TempSerialnumInsert
      <4> QED BY <1>1, <1>4, <2>1, <2>3, <2>5, <3>2, <4>1 DEF Covered
    <3> QED BY <3>1, <3>2
  <2> QED BY <1>1, <1>2, <2>5, <2>6 DEF Rows
<1> QED BY <1>3, <1>4

LEMMA RowsStep ==
    ASSUME Shape, Shape', \A u \in Threads : Rows(u), NEW t \in Threads, StepOf(t)
    PROVE  \A u \in Threads : Rows(u)'
<1>1. Grows /\ \A u \in Threads \ {t} : Still(u)
  BY StepGrows
<1>2. \A u \in Threads \ {t} : Rows(u)'
  BY <1>1, RowsOther DEF Grows
<1>3. Rows(t)'
  <2>1. CASE t = ProcessBlock /\ PeerStep
    BY <2>1, RowsBlockValidate DEF PeerStep
  <2>2. CASE t = Witness /\ OwnStep
    BY <2>2, RowsOwnStep
  <2>3. CASE CheckStep(t)
    BY <2>3, RowsCheckStep
  <2>4. CASE TempSerialnumInsert(t)
    BY <2>4, RowsInsert
  <2>5. CASE TempSerialnumUpdate(t) \/ UpdateError(t) \/ ChainStep(t)
    <3>1. pc'[t] \notin Building
      BY <2>5, PcPoints DEF TempSerialnumUpdate, UpdateError, ChainStep, ValidObjsInsert, DoConfirmOne,
         BeginWrite,
         Commit, SetLastIndelible, Prune, Goto, Shape, Building, Working
    <3> QED BY <3>1 DEF Rows
  <2> QED BY <2>1, <2>2, <2>3, <2>4, <2>5 DEF StepOf, RowStep
<1> QED BY <1>2, <1>3

-----------------------------------------------------------------------------
(* Rows bound to blocks.                                                     *)

\* The blocks with rows: the valid ones, and those about to become so
Bound == valid \cup {cur[t] : t \in {u \in Threads : pc[u] = "insertvalid"}}

\* Of the levels not pruned all rows are there, and unless a call has failed no others
Indexed == \A x \in Bound : LevelOf[x] >= lastPruned => \A s \in Inputs(spends[x]) : << s, x >> \in temp
Exact == ~failed => \A row \in temp : row[2] \in Bound /\ row[1] \in Inputs(spends[row[2]])

LEMMA BoundSteady ==
    ASSUME Shape, NEW t \in Threads, StepOf(t), ~TempSerialnumUpdate(t)
    PROVE  Bound' = Bound /\ \A x \in Bound : spends'[x] = spends[x]
<1>1. Grows /\ \A u \in Threads \ {t} : Still(u)
  BY StepGrows
<1>2. pc'[t] # "insertvalid"
  BY GetsTo
<1>3. pc[t] = "insertvalid" => ValidObjsInsert(t)
  BY DEF StepOf, PeerStep, OwnStep, CheckStep, RowStep, ChainStep, BlockValidate, StartNewBlock, NextTx,
     FinishNewBlock,
     SnapshotLast, SerialnumSelect, TempSerialnumSelect, SelectError, InsertError, TempSerialnumInsert, UpdateError,
     DoConfirmOne, BeginWrite, Commit, SetLastIndelible, Prune
<1>4. ValidObjsInsert(t) => pc[t] = "insertvalid" /\ valid' = valid \cup {cur[t]} /\ UNCHANGED spends
  BY DEF ValidObjsInsert
<1>5. ~ValidObjsInsert(t) => valid' = valid
  BY DEF StepOf, PeerStep, OwnStep, CheckStep, RowStep, ChainStep, BlockValidate, StartNewBlock, NextTx,
     FinishNewBlock,
     SnapshotLast, SerialnumSelect, TempSerialnumSelect, SelectError, InsertError, TempSerialnumInsert, UpdateError,
     Refuse, DoConfirmOne, BeginWrite, Commit, SetLastIndelible, Prune
<1>6. ASSUME NEW u \in Threads \ {t} PROVE (pc'[u] = pc[u] /\ cur'[u] = cur[u])
                                           /\ (pc[u] = "insertvalid" => spends'[cur[u]] = spends[cur[u]])
  BY <1>1 DEF Still, Making
<1>7. Bound' = Bound
  BY <1>2, <1>3, <1>4, <1>5, <1>6 DEF Bound
<1>8. \A x \in Bound : spends'[x] = spends[x]
  BY <1>1, <1>3, <1>4, <1>6 DEF Bound, Grows
<1> QED BY <1>7, <1>8

\* The rows are bound to the block that has them
LEMMA BoundUpdate ==
    ASSUME Shape, NEW t \in Threads, Rows(t), TempSerialnumUpdate(t)
    PROVE  /\ Bound' = Bound \cup {cur[t]} /\ UNCHANGED << spends, lastPruned, failed >>
           /\ temp' = temp \cup (open[t] \X {cur[t]})
           /\ Inputs(spends[cur[t]]) \subseteq open[t] /\ (~failed => open[t] \subseteq Inputs(spends[cur[t]]))
<1>1. pc[t] = "update" /\ pc' = [pc EXCEPT ![t] = "insertvalid"] /\ UNCHANGED << valid, cur, spends, lastPruned, failed >>
  BY DEF TempSerialnumUpdate, Goto, locals, chain, history
<1>2. Bound' = Bound \cup {cur[t]}
  BY <1>1, PcPoints DEF Bound, Shape
<1>3. Covered(t) = Inputs(spends[cur[t]])
  BY <1>1 DEF Covered, Working
<1>4. temp' = temp \cup (open[t] \X {cur[t]})
  BY DEF TempSerialnumUpdate
<1> QED BY <1>1, <1>2, <1>3, <1>4 DEF Rows, Building

LEMMA IndexedStep ==
    ASSUME Shape, Indexed, Exact, \A u \in Threads : Rows(u), NEW t \in Threads, StepOf(t)
    PROVE  Indexed' /\ Exact'
<1>0. valid \subseteq Blocks /\ cur \in [Threads -> Blocks] /\ LevelOf \in [Blocks -> Nat] /\ lastPruned \in Nat
  <2>1. SerialTypeOK /\ LevelOf[last] \in Nat /\ LevelOf \in [Blocks -> Nat]
    BY ChainGrows, TreeAssumption DEF Shape
  <2>2. lastPruned \in Nat
    BY <2>1 DEF SerialTypeOK
  <2> QED BY <2>1, <2>2 DEF SerialTypeOK
<1>1. CASE TempSerialnumUpdate(t)
  <2>1. /\ Bound' = Bound \cup {cur[t]} /\ UNCHANGED << spends, lastPruned, failed >>
        /\ temp' = temp \cup (open[t] \X {cur[t]})
        /\ Inputs(spends[cur[t]]) \subseteq open[t] /\ (~failed => open[t] \subseteq Inputs(spends[cur[t]]))
    BY <1>1, BoundUpdate
  <2>2. Indexed'
    BY <2>1 DEF Indexed
  <2>3. Exact'
    <3> SUFFICES ASSUME ~failed, NEW row \in temp' PROVE row[2] \in Bound' /\ row[1] \in Inputs(spends[row[2]])
      BY <2>1 DEF Exact
    <3>1. CASE row \in temp
      BY <2>1, <3>1 DEF Exact
    <3>2. CASE row \in open[t] \X {cur[t]}
      BY <2>1, <3>2
    <3> QED BY <2>1, <3>1, <3>2
  <2> QED BY <2>2, <2>3
<1>2. CASE Prune(t)
  <2>1. Bound' = Bound /\ spends' = spends
    <3>1. ~TempSerialnumUpdate(t) /\ spends' = spends
      BY <1>2 DEF TempSerialnumUpdate, Prune
    <3> QED BY <3>1, BoundSteady
  <2>2. /\ temp' \subseteq temp /\ (failed => failed')
        /\ lastPruned' \in Nat /\ lastPruned <= lastPruned'
        /\ \A row \in temp : LevelOf[row[2]] >= lastPruned' => row \in temp'
    <3>1. PruneLevel \in Nat
      BY PruneLevelIs DEF Shape
    <3>2. CASE PruneLevel > lastPruned /\ PruneLevel % PruneEvery = 0
      BY <1>0, <1>2, <3>1, <3>2 DEF Prune, Fail
    <3>3. CASE ~(PruneLevel > lastPruned /\ PruneLevel % PruneEvery = 0)
      BY <1>0, <1>2, <3>3 DEF Prune
    <3> QED BY <3>2, <3>3
  <2>3. Bound \subseteq Blocks
    BY <1>0 DEF Bound
  <2>4. Indexed'
    <3> SUFFICES ASSUME NEW x \in Bound, LevelOf[x] >= lastPruned', NEW s \in Inputs(spends[x]) PROVE << s, x >> \in temp'
      BY <2>1 DEF Indexed
    <3>1. LevelOf[x] \in Nat
      BY <1>0, <2>3
    <3>2. LevelOf[x] >= lastPruned
      BY <1>0, <2>2, <3>1
    <3>3. << s, x >> \in temp
      BY <3>2 DEF Indexed
    <3>4. << s, x >>[2] = x
      OBVIOUS
    <3> QED BY <2>2, <3>3, <3>4
  <2>5. Exact'
    BY <2>1, <2>2 DEF Exact
  <2> QED BY <2>4, <2>5
<1>3. CASE ~TempSerialnumUpdate(t) /\ ~Prune(t)
  <2>1. UNCHANGED << temp, lastPruned >>
    BY <1>3 DEF StepOf, PeerStep, OwnStep, CheckStep, RowStep, ChainStep, BlockValidate, StartNewBlock, NextTx,
       FinishNewBlock, SnapshotLast, SerialnumSelect, TempSerialnumSelect, SelectError, InsertError, Refuse,
       TempSerialnumInsert, UpdateError, ValidObjsInsert, DoConfirmOne, BeginWrite, Commit, SetLastIndelible, chain, tables
  <2>2. Bound' = Bound /\ \A x \in Bound : spends'[x] = spends[x]
    BY <1>3, BoundSteady
  <2>3. failed => failed'
    BY StepGrows DEF Grows
  <2>4. Indexed'
    BY <2>1, <2>2 DEF Indexed
  <2>5. Exact'
    BY <2>1, <2>2, <2>3 DEF Exact
  <2> QED BY <2>4, <2>5
<1> QED BY <1>1, <1>2, <1>3

-----------------------------------------------------------------------------
(* Refused blocks.                                                           *)

\* The chain of a refused block keeps its inputs
LEMMA RefusedFixed ==
    ASSUME Shape, PeersFixed', Grows, NEW b \in rejected
    PROVE  b \in Blocks /\ \A a \in Chain[b] : a \in Blocks /\ spends'[a] = spends[a]
<1>1. b \in Blocks /\ b # Root /\ b \notin Own /\ PriorOf[b] \in valid
  BY DEF Shape, SerialTypeOK, Refused
<1>2. spends'[b] = spends[b]
  BY <1>1 DEF Shape, PeersFixed
<1>3. Chain[b] = {b} \cup Chain[PriorOf[b]] /\ Chain[PriorOf[b]] \subseteq valid /\ valid \subseteq Blocks
  BY <1>1, ChainIs, ValidChain DEF Shape, SerialTypeOK
<1> QED BY <1>1, <1>2, <1>3 DEF Grows

\* A serial number found in the rows is spent on the chain or twice in the block
LEMMA FoundSpent ==
    ASSUME Shape, Exact, ~failed, NEW t \in Threads, t = ProcessBlock, Rows(t), pc[t] = "temp",
           Found(t, Head(todo[t]))
    PROVE  ~SpentOnce(cur[t])
<1> DEFINE c == cur[t]
           h == Head(todo[t])
<1>1. c \in Blocks /\ c # Root /\ c \notin valid /\ PriorOf[c] \in valid /\ pc[t] \in Working /\ pc[t] \in Building
  BY DEF Shape, PlaceOK, SerialTypeOK, ValidTree, Making, Building, Working
<1>2. Source(t) = spends[c]
  BY DEF Source
<1>3. /\ Done(t) \in Nat /\ h = spends[c][Done(t) + 1] /\ Done(t) + 1 \in 1 .. Len(spends[c])
      /\ spends[c] \in Seq(Serials)
  BY <1>1, <1>2, HandFacts
<1>4. DOMAIN spends[c] = 1 .. Len(spends[c]) /\ Len(spends[c]) \in Nat
  BY <1>3
<1>5. c \in Chain[c] /\ Chain[c] = {c} \cup Chain[PriorOf[c]]
  BY <1>1, ChainIs
<1>6. h \in Inputs(spends[c])
  BY <1>3, <1>4 DEF Inputs
<1>7. CASE h \in open[t]
  <2>1. h \in Behind(t)
    BY <1>1, <1>7 DEF Rows, Covered
  <2>2. PICK i \in 1 .. Done(t) : h = spends[c][i]
    BY <1>2, <2>1 DEF Behind
  <2>3. i # Done(t) + 1 /\ i \in 1 .. Len(spends[c])
    BY <1>3, <1>4
  <2>4. ~Distinct(spends[c])
    BY <1>3, <1>4, <2>2, <2>3 DEF Distinct
  <2> QED BY <1>5, <2>4 DEF SpentOnce
<1>8. CASE h \notin open[t]
  <2>1. PICK b \in Blocks : << h, b >> \in temp /\ b \in Chain[PriorOf[c]]
    BY <1>8 DEF Found, BlockInChain
  <2>2. h \in Inputs(spends[b])
    BY <2>1 DEF Exact
  <2>3. b \in valid
    BY <1>1, <2>1, ValidChain
  <2>4. b # c /\ b \in Chain[c]
    BY <1>1, <1>5, <2>1, <2>3
  <2> QED BY <1>5, <1>6, <2>2, <2>4 DEF SpentOnce
<1> QED BY <1>7, <1>8

LEMMA RefusalStep ==
    ASSUME Shape, Shape', Exact, \A u \in Threads : Rows(u), NoFalseRejection, NEW t \in Threads, StepOf(t)
    PROVE  NoFalseRejection'
<1>0. Grows
  BY StepGrows
<1> SUFFICES ASSUME ~failed', NEW b \in rejected'
             PROVE  ~(SpentOnce(b))' \/ Inputs(spends'[b]) \cap persistent' # {}
  BY DEF NoFalseRejection
<1>1. ~failed
  BY <1>0 DEF Grows
<1>2. CASE b \in rejected
  <2>1. ~SpentOnce(b) \/ Inputs(spends[b]) \cap persistent # {}
    BY <1>1, <1>2 DEF NoFalseRejection
  <2>2. b \in Blocks /\ \A a \in Chain[b] : spends'[a] = spends[a]
    BY <1>0, <1>2, RefusedFixed DEF Shape
  <2>3. (SpentOnce(b))' <=> SpentOnce(b)
    BY <2>2 DEF SpentOnce
  <2>4. spends'[b] = spends[b]
    BY <2>2, ChainMembers
  <2> QED BY <1>0, <2>1, <2>3, <2>4 DEF Grows
<1>3. CASE b \notin rejected
  <2>1. t = ProcessBlock /\ b = cur[t] /\ (SerialnumSelect(t) \/ TempSerialnumSelect(t)) /\ Refuse(t)
    BY <1>3 DEF StepOf, PeerStep, OwnStep, CheckStep, RowStep, ChainStep, BlockValidate, StartNewBlock, NextTx,
       FinishNewBlock, SnapshotLast, SerialnumSelect, TempSerialnumSelect, SelectError, InsertError, Refuse,
       TempSerialnumInsert, TempSerialnumUpdate, UpdateError, ValidObjsInsert, DoConfirmOne, BeginWrite, Commit,
       SetLastIndelible, Prune, Fail, history
  <2>2. spends' = spends /\ persistent' = persistent
    BY <2>1 DEF Refuse, tables
  <2>3. (SpentOnce(b))' <=> SpentOnce(b)
    BY <2>2 DEF SpentOnce
  <2>4. CASE pc[t] = "persistent"
    <3>1. Head(todo[t]) \in persistent
      <4>1. SerialnumSelect(t)
        BY <2>1, <2>4 DEF TempSerialnumSelect
      <4>2. pc'[t] = "idle"
        BY <2>1, PcPoints DEF Refuse, Goto, Shape
      <4>3. pc'[t] = "temp" \/ Head(todo[t]) \in persistent
        BY <4>1, PcPoints DEF SerialnumSelect, Goto, Shape
      <4> QED BY <4>2, <4>3
    <3>2. pc[t] \in Working /\ Source(t) = spends[b]
      BY <2>1, <2>4 DEF Working, Source
    <3>3. Head(todo[t]) = spends[b][Done(t) + 1] /\ Done(t) + 1 \in 1 .. Len(spends[b]) /\ spends[b] \in Seq(Serials)
      BY <3>2, HandFacts
    <3>4. DOMAIN spends[b] = 1 .. Len(spends[b])
      BY <3>3
    <3>5. Head(todo[t]) \in Inputs(spends[b])
      BY <3>3, <3>4 DEF Inputs
    <3> QED BY <2>2, <3>1, <3>5
  <2>5. CASE pc[t] # "persistent"
    <3>1. TempSerialnumSelect(t) /\ pc[t] = "temp"
      BY <2>1, <2>5 DEF SerialnumSelect, TempSerialnumSelect
    <3>2. Found(t, Head(todo[t]))
      <4>1. pc'[t] = "idle"
        BY <2>1, PcPoints DEF Refuse, Goto, Shape
      <4>2. pc'[t] \in {"insert", "check"} \/ Found(t, Head(todo[t]))
        BY <3>1, PcPoints DEF TempSerialnumSelect, Goto, Shape
      <4> QED BY <4>1, <4>2
    <3>3. ~SpentOnce(b)
      BY <1>1, <2>1, <3>1, <3>2, FoundSpent
    <3> QED BY <2>3, <3>3
  <2> QED BY <2>4, <2>5
<1> QED BY <1>2, <1>3

-----------------------------------------------------------------------------
(* Nothing is spent twice.                                                   *)

\* If the block b may still become indelible, no block of its chain spends s
Unspent(b, s) == marked \in Chain[b] => \A a \in Chain[b] : s \notin Inputs(spends[a])

LEMMA UnspentKept ==
    ASSUME Shape, Grows, NEW b \in valid, NEW s, Unspent(b, s)
    PROVE  (Unspent(b, s))'
<1>1. b \in Blocks /\ Chain[b] \subseteq valid /\ marked \in Chain[marked]
  BY ValidChain, ChainGrows, ChainMembers
<1> SUFFICES ASSUME marked' \in Chain[b] PROVE \A a \in Chain[b] : s \notin Inputs(spends'[a])
  BY DEF Unspent
<1>2. Chain[marked'] \subseteq Chain[b]
  BY <1>1, ChainOfMember
<1>3. marked \in Chain[b]
  BY <1>1, <1>2 DEF Grows
<1> QED BY <1>1, <1>3 DEF Unspent, Grows

\* What BlockValidate and BuildNewBlock have found
Cleared(t, s) == Unspent(PriorOf[cur[t]], s)

\* A number found neither in the persistent database nor in the rows is not spent
LEMMA NotFoundUnspent ==
    ASSUME Shape, Indexed, NotOvertaken, NEW t \in Threads, Snapped(t), pc[t] = "temp",
           ~Found(t, Head(todo[t]))
    PROVE  Cleared(t, Head(todo[t])) /\ Head(todo[t]) \notin open[t]
<1> DEFINE p == PriorOf[cur[t]]
           h == Head(todo[t])
<1>1. p \in valid
  BY DEF Shape, PlaceOK, Making, Building, Working
<1>2. p \in Blocks /\ Chain[p] \subseteq valid /\ valid \subseteq Blocks
  BY <1>1, ValidChain DEF Shape, SerialTypeOK
<1>3. h \notin open[t] /\ \A b \in Blocks : ~(<< h, b >> \in temp /\ BlockInChain(b, p, snap[t]))
  BY DEF Found
<1>4. ASSUME marked \in Chain[p], NEW a \in Chain[p] PROVE h \notin Inputs(spends[a])
  <2>1. last \in Chain[marked] /\ snap[t] \in Chain[last] /\ last \in Blocks /\ marked \in Blocks
    BY ChainGrows DEF Shape, SerialTypeOK, Snapped
  <2>2. snap[t] \in Chain[p]
    BY <1>2, <1>4, <2>1, ChainOfMember
  <2>3. a \in Blocks /\ a \in valid /\ LevelOf[a] \in Nat /\ snap[t] \in Blocks /\ LevelOf[snap[t]] \in Nat
    BY <1>2, <2>2, TreeAssumption
  <2>4. CASE LevelOf[a] <= LevelOf[snap[t]]
    <3>1. a \in Chain[snap[t]]
      BY <1>2, <2>2, <2>4, ChainOrder
    <3> QED BY <3>1 DEF Snapped
  <2>5. CASE ~(LevelOf[a] <= LevelOf[snap[t]])
    <3>1. lastPruned <= LevelOf[snap[t]] + 1
      BY DEF NotOvertaken
    <3>2. lastPruned \in Nat
      <4>1. LevelOf[last] \in Nat /\ lastPruned \in 0 .. LevelOf[last]
        BY <2>1, TreeAssumption DEF Shape, SerialTypeOK
      <4> QED BY <4>1
    <3>3. LevelOf[a] >= lastPruned /\ LevelOf[a] > LevelOf[snap[t]]
      BY <2>3, <2>5, <3>1, <3>2
    <3>4. a \in Bound
      BY <2>3 DEF Bound
    <3>5. ASSUME h \in Inputs(spends[a]) PROVE << h, a >> \in temp
      BY <3>3, <3>4, <3>5 DEF Indexed
    <3>6. BlockInChain(a, p, snap[t])
      <4>1. ASSUME NEW c \in Chain[p], LevelOf[c] > LevelOf[a] PROVE LevelOf[c] > LevelOf[snap[t]]
        <5>1. LevelOf[c] \in Nat
          BY <1>2, TreeAssumption
        <5> QED BY <2>3, <3>3, <4>1, <5>1
      <4> QED BY <1>4, <4>1 DEF BlockInChain
    <3> QED BY <1>3, <2>3, <3>5, <3>6
  <2> QED BY <2>4, <2>5
<1> QED BY <1>3, <1>4 DEF Cleared, Unspent

\* What is checked so far comes once and is not spent below: for a peer's block
Marks(t) == IF pc[t] \in Working THEN Done(t) + (IF pc[t] = "insert" THEN 1 ELSE 0) ELSE Len(Source(t))

PeerFresh ==
    LET s == spends[cur[ProcessBlock]]
    IN  pc[ProcessBlock] \in Making =>
            \A i \in 1 .. Marks(ProcessBlock) :
                Cleared(ProcessBlock, s[i]) /\ \A j \in 1 .. Marks(ProcessBlock) : s[i] = s[j] => i = j

\* And for the block being built, and the transaction in hand
OwnChecked == IF pc[Witness] = "insert" THEN Len(tx) ELSE Done(Witness)

OwnFresh ==
    LET s == spends[cur[Witness]]
    IN  pc[Witness] \in Making =>
            /\ Distinct(s) /\ \A x \in Inputs(s) : Cleared(Witness, x)
            /\ pc[Witness] \in Working =>
                   \A i \in 1 .. OwnChecked : Cleared(Witness, tx[i]) /\ tx[i] \notin Inputs(s)

LEMMA MakingPlace ==
    ASSUME Shape, NEW t \in Threads, pc[t] \in Making
    PROVE  cur[t] \in Blocks /\ cur[t] # Root /\ cur[t] \notin valid /\ PriorOf[cur[t]] \in valid
BY DEF Shape, PlaceOK, SerialTypeOK, ValidTree

LEMMA ClearedKept ==
    ASSUME Shape, Grows, NEW t \in Threads, pc[t] \in Making, cur'[t] = cur[t], NEW s, Cleared(t, s)
    PROVE  (Cleared(t, s))'
<1>1. PriorOf[cur[t]] \in valid
  BY MakingPlace
<1>2. PICK p : p = PriorOf[cur[t]]
  OBVIOUS
<1>3. (Unspent(p, s))'
  BY <1>1, <1>2, UnspentKept DEF Cleared
<1> QED BY <1>2, <1>3 DEF Cleared, Unspent

LEMMA PeerKept ==
    ASSUME Shape, PeerFresh, Grows, pc[ProcessBlock] \in Making, cur'[ProcessBlock] = cur[ProcessBlock],
           spends'[cur[ProcessBlock]] = spends[cur[ProcessBlock]], (Marks(ProcessBlock))' = Marks(ProcessBlock)
    PROVE  PeerFresh'
<1> DEFINE s == spends[cur[ProcessBlock]]
           n == Marks(ProcessBlock)
<1>1. ProcessBlock \in Threads
  BY ThreadsAre
<1>2. \A i \in 1 .. n : Cleared(ProcessBlock, s[i]) /\ \A j \in 1 .. n : s[i] = s[j] => i = j
  BY DEF PeerFresh
<1>3. \A i \in 1 .. n : (Cleared(ProcessBlock, s[i]))'
  <2> SUFFICES ASSUME NEW i \in 1 .. n PROVE (Cleared(ProcessBlock, s[i]))'
    OBVIOUS
  <2>1. PICK x : x = s[i]
    OBVIOUS
  <2>2. (Cleared(ProcessBlock, x))'
    BY <1>1, <1>2, <2>1, ClearedKept
  <2>3. spends'[cur'[ProcessBlock]] = s
    OBVIOUS
  <2> HIDE DEF s, n
  <2> QED BY <2>1, <2>2, <2>3 DEF Cleared, Unspent, s
<1> QED BY <1>2, <1>3 DEF PeerFresh

LEMMA DoneKept ==
    ASSUME NEW t \in Threads, cur'[t] = cur[t], spends'[cur[t]] = spends[cur[t]], todo'[t] = todo[t], tx' = tx
    PROVE  (Source(t))' = Source(t) /\ (Done(t))' = Done(t)
<1>1. (Source(t))' = Source(t)
  BY DEF Source
<1> QED BY <1>1 DEF Done

\* One number more is done
LEMMA DoneNext ==
    ASSUME Shape, NEW t \in Threads, pc[t] \in Working, (Source(t))' = Source(t), todo'[t] = Tail(todo[t])
    PROVE  (Done(t))' = Done(t) + 1
<1>1. Len(todo[t]) \in Nat /\ Len(Source(t)) \in Nat /\ Len(Tail(todo[t])) = Len(todo[t]) - 1
  BY HandFacts
<1>2. (Done(t))' = Len(Source(t)) - Len(Tail(todo[t]))
  BY DEF Done
<1>3. PICK m, n : m = Len(todo[t]) /\ n = Len(Source(t))
  OBVIOUS
<1>4. (Done(t))' = n - (m - 1) /\ Done(t) = n - m /\ m \in Nat /\ n \in Nat
  BY <1>1, <1>2, <1>3 DEF Done
<1> QED BY <1>4

LEMMA PeerOther ==
    ASSUME Shape, PeerFresh, Grows, Still(ProcessBlock)
    PROVE  PeerFresh'
<1>1. CASE pc[ProcessBlock] \in Making
  <2>1. ProcessBlock \in Threads /\ ProcessBlock # Witness
    BY ThreadsAre
  <2>2. /\ cur'[ProcessBlock] = cur[ProcessBlock] /\ spends'[cur[ProcessBlock]] = spends[cur[ProcessBlock]]
        /\ pc'[ProcessBlock] = pc[ProcessBlock] /\ todo'[ProcessBlock] = todo[ProcessBlock]
    BY <1>1 DEF Still
  <2>3. (Source(ProcessBlock))' = Source(ProcessBlock)
    BY <2>2 DEF Source
  <2>4. (Marks(ProcessBlock))' = Marks(ProcessBlock)
    BY <2>2, <2>3 DEF Marks, Done
  <2> QED BY <1>1, <2>2, <2>4, PeerKept
<1>2. CASE pc[ProcessBlock] \notin Making
  BY <1>2 DEF Still, PeerFresh
<1> QED BY <1>1, <1>2

\* A number that is neither spent below nor in the rows joins the others
LEMMA PeerSelected ==
    ASSUME Shape, PeerFresh, Indexed, NotOvertaken, Grows, NEW t \in Threads, t = ProcessBlock, Rows(t), Snapped(t),
           TempSerialnumSelect(t), ~Found(t, Head(todo[t]))
    PROVE  PeerFresh'
<1> DEFINE s == spends[cur[t]]
           d == Done(t)
<1>1. /\ pc[t] = "temp" /\ pc[t] \in Working /\ pc[t] \in Making /\ pc[t] \in Building
      /\ pc'[t] = "insert" /\ UNCHANGED << spends, cur, tx >> /\ todo'[t] = todo[t]
  BY PcPoints DEF TempSerialnumSelect, Goto, Shape, SerialTypeOK, Making, Building, Working
<1>2. Source(t) = s /\ (Done(t))' = d
  BY <1>1, DoneKept DEF Source
<1>3. d \in Nat /\ Head(todo[t]) = s[d + 1]
  BY <1>1, <1>2, HandFacts
<1>4. Marks(t) = d /\ (Marks(t))' = d + 1
  BY <1>1, <1>2, <1>3 DEF Marks, Working
<1>5. Cleared(t, s[d + 1]) /\ s[d + 1] \notin open[t]
  BY <1>1, <1>3, NotFoundUnspent
<1>6. \A i \in 1 .. d : s[i] \in open[t]
  BY <1>1, <1>2 DEF Rows, Covered, Behind
<1>7. \A i \in 1 .. d : Cleared(t, s[i]) /\ \A j \in 1 .. d : s[i] = s[j] => i = j
  BY <1>1, <1>4 DEF PeerFresh
<1>8. \A i \in 1 .. d + 1 : i \in 1 .. d \/ i = d + 1
  BY <1>3
<1>9. \A i \in 1 .. d + 1 : Cleared(t, s[i])
  BY <1>5, <1>7, <1>8
<1>10. \A i, j \in 1 .. d + 1 : s[i] = s[j] => i = j
  BY <1>5, <1>6, <1>7, <1>8
<1>11. \A i \in 1 .. d + 1 : (Cleared(t, s[i]))'
  <2> SUFFICES ASSUME NEW i \in 1 .. d + 1 PROVE (Cleared(t, s[i]))'
    BY <1>1, <1>2
  <2>1. PICK x : x = s[i]
    OBVIOUS
  <2>2. (Cleared(t, x))'
    BY <1>1, <1>9, <2>1, ClearedKept
  <2>3. spends'[cur'[t]] = s
    BY <1>1
  <2> HIDE DEF s, d
  <2> QED BY <2>1, <2>2, <2>3 DEF Cleared, Unspent, s
<1>12. spends'[cur'[t]] = s
  BY <1>1
<1> HIDE DEF s, d
<1>13. \A i \in 1 .. (Marks(t))' : (Cleared(t, s[i]))' /\ \A j \in 1 .. (Marks(t))' : s[i] = s[j] => i = j
  BY <1>4, <1>10, <1>11
<1> QED BY <1>12, <1>13 DEF PeerFresh, s

LEMMA PeerInserted ==
    ASSUME Shape, PeerFresh, Grows, NEW t \in Threads, t = ProcessBlock, TempSerialnumInsert(t)
    PROVE  PeerFresh'
<1>1. /\ pc[t] = "insert" /\ pc[t] \in Working /\ pc[t] \in Making /\ UNCHANGED << spends, cur, tx >>
      /\ pc'[t] = (IF Len(todo[t]) = 1 THEN "update" ELSE "check")
  BY PcPoints DEF TempSerialnumInsert, Goto, Shape, Making, Building, Working
<1>2. todo'[t] = Tail(todo[t])
  BY InsertFacts
<1>3. (Source(t))' = Source(t)
  BY <1>1 DEF Source
<1>4. (Done(t))' = Done(t) + 1
  BY <1>1, <1>2, <1>3, DoneNext
<1>5. Done(t) \in Nat /\ (Len(todo[t]) = 1 => Len(Source(t)) = Done(t) + 1)
  BY <1>1, HandFacts
<1>6. Marks(t) = Done(t) + 1
  BY <1>1, <1>5 DEF Marks
<1>7. (Marks(t))' = Done(t) + 1
  <2>1. CASE Len(todo[t]) = 1
    BY <1>1, <1>3, <1>5, <2>1 DEF Marks, Working
  <2>2. CASE Len(todo[t]) # 1
    <3>1. pc'[t] = "check"
      BY <1>1, <2>2
    <3>2. (Marks(t))' = (Done(t))' + 0
      BY <3>1 DEF Marks, Working
    <3> QED BY <1>4, <1>5, <3>2
  <2> QED BY <2>1, <2>2
<1> QED BY <1>1, <1>6, <1>7, PeerKept

LEMMA PeerCheckStep ==
    ASSUME Shape, PeerFresh, Indexed, NotOvertaken, Grows, NEW t \in Threads, t = ProcessBlock, Rows(t), Snapped(t),
           CheckStep(t)
    PROVE  PeerFresh'
<1>1. CASE Refuse(t)
  <2>1. pc'[t] = "idle"
    BY <1>1, PcPoints DEF Refuse, Goto, Shape
  <2> QED BY <2>1 DEF PeerFresh, Making, Building, Working
<1>2. CASE TempSerialnumSelect(t) /\ ~Refuse(t)
  <2>1. ~Found(t, Head(todo[t]))
    BY <1>2 DEF TempSerialnumSelect
  <2> QED BY <1>2, <2>1, PeerSelected
<1>3. CASE ~TempSerialnumSelect(t) /\ ~Refuse(t)
  <2>1. /\ UNCHANGED << spends, cur, tx, todo >> /\ pc[t] \in {"check", "persistent"}
        /\ pc'[t] \in {"persistent", "temp"}
    BY <1>3, PcPoints DEF CheckStep, SnapshotLast, SerialnumSelect, SelectError, InsertError, Goto, Shape,
       locals
  <2>2. (Marks(t))' = Marks(t)
    BY <2>1, DoneKept DEF Marks, Working
  <2>3. pc[t] \in Making
    BY <2>1 DEF Making, Building, Working
  <2> QED BY <2>1, <2>2, <2>3, PeerKept
<1> QED BY <1>1, <1>2, <1>3

LEMMA PeerFreshStep ==
    ASSUME Shape, PeerFresh, Indexed, NotOvertaken, NEW t \in Threads, Rows(t), Snapped(t), StepOf(t)
    PROVE  PeerFresh'
<1>1. Grows /\ \A u \in Threads \ {t} : Still(u)
  BY StepGrows
<1>2. CASE t # ProcessBlock
  BY <1>1, <1>2, PeerOther, ThreadsAre
<1>3. CASE t = ProcessBlock
  <2>0. t # Witness /\ pc \in [Threads -> Points] /\ SerialTypeOK
    BY <1>3, ThreadsAre, PcPoints DEF Shape
  <2>1. ASSUME NEW b \in Blocks, BlockValidate(b) PROVE PeerFresh'
    <3>1. cur'[t] = b /\ todo'[t] = spends[b] /\ spends' = spends /\ spends[b] \in Seq(Serials)
      BY <1>3, <2>0, <2>1 DEF BlockValidate, SerialTypeOK
    <3>2. pc'[t] = IF spends[b] = << >> THEN "update" ELSE "check"
      BY <1>3, <2>0, <2>1 DEF BlockValidate, Goto
    <3>3. (Source(t))' = spends[b] /\ Len(spends[b]) \in Nat
      BY <1>3, <3>1 DEF Source
    <3>4. (Done(t))' = 0
      BY <3>1, <3>3 DEF Done
    <3>5. (Marks(t))' = 0
      <4>1. CASE spends[b] = << >>
        BY <3>2, <3>3, <4>1 DEF Marks, Working
      <4>2. CASE spends[b] # << >>
        BY <3>2, <3>4, <4>2 DEF Marks, Working
      <4> QED BY <4>1, <4>2
    <3> QED BY <1>3, <3>5 DEF PeerFresh
  <2>2. CASE CheckStep(t)
    BY <1>1, <1>3, <2>2, PeerCheckStep
  <2>3. CASE TempSerialnumInsert(t)
    BY <1>1, <1>3, <2>3, PeerInserted
  <2>4. CASE TempSerialnumUpdate(t)
    <3>1. UNCHANGED << spends, cur, tx, todo >> /\ pc[t] = "update" /\ pc'[t] = "insertvalid"
      BY <2>0, <2>4 DEF TempSerialnumUpdate, Goto, locals
    <3>2. (Marks(t))' = Marks(t) /\ pc[t] \in Making
      BY <3>1, DoneKept DEF Marks, Making, Building, Working
    <3> QED BY <1>1, <1>3, <3>1, <3>2, PeerKept
  <2>5. CASE UpdateError(t) \/ ChainStep(t)
    <3>1. pc'[t] \notin Making
      BY <2>0, <2>5 DEF UpdateError, ChainStep, ValidObjsInsert, DoConfirmOne, BeginWrite,
         Commit, SetLastIndelible, Prune, Goto, Making, Building, Working
    <3> QED BY <1>3, <3>1 DEF PeerFresh
  <2> QED BY <2>0, <2>1, <2>2, <2>3, <2>4, <2>5 DEF StepOf, RowStep, PeerStep
<1> QED BY <1>2, <1>3

-----------------------------------------------------------------------------
(* The same for the block being built.                                       *)

\* A thread that stays at its block keeps what it has cleared
LEMMA OwnKept ==
    ASSUME Shape, OwnFresh, Grows, pc[Witness] \in Making, cur'[Witness] = cur[Witness],
           spends'[cur[Witness]] = spends[cur[Witness]],
           pc'[Witness] \in Working =>
               OwnChecked' = 0 \/ (pc[Witness] \in Working /\ OwnChecked' = OwnChecked /\ tx' = tx)
    PROVE  OwnFresh'
<1> DEFINE s == spends[cur[Witness]]
<1>1. Witness \in Threads
  BY ThreadsAre
<1>2. Distinct(s) /\ \A x \in Inputs(s) : Cleared(Witness, x)
  BY DEF OwnFresh
<1>3. \A x \in Inputs(s) : (Cleared(Witness, x))'
  BY <1>1, <1>2, ClearedKept
<1>4. spends'[cur'[Witness]] = s
  OBVIOUS
<1>5. ASSUME pc'[Witness] \in Working, NEW i \in 1 .. OwnChecked' PROVE (Cleared(Witness, tx[i]))' /\ tx'[i] \notin Inputs(s)
  <2>1. CASE OwnChecked' = 0
    BY <1>5, <2>1
  <2>2. CASE OwnChecked' # 0
    <3>1. pc[Witness] \in Working /\ i \in 1 .. OwnChecked /\ tx' = tx
      BY <1>5, <2>2
    <3>2. Cleared(Witness, tx[i]) /\ tx[i] \notin Inputs(s)
      BY <3>1 DEF OwnFresh
    <3>3. PICK x : x = tx[i]
      OBVIOUS
    <3>4. (Cleared(Witness, x))'
      BY <1>1, <3>2, <3>3, ClearedKept
    <3> QED BY <3>1, <3>2, <3>3, <3>4 DEF Cleared, Unspent
  <2> QED BY <2>1, <2>2
<1> QED BY <1>2, <1>3, <1>4, <1>5 DEF OwnFresh

LEMMA OwnOther == ASSUME Shape, OwnFresh, Grows, Still(Witness) PROVE OwnFresh'
<1>1. CASE pc[Witness] \in Making
  <2>1. /\ cur'[Witness] = cur[Witness] /\ spends'[cur[Witness]] = spends[cur[Witness]] /\ tx' = tx
        /\ pc'[Witness] = pc[Witness] /\ todo'[Witness] = todo[Witness] /\ Witness \in Threads
    BY <1>1, ThreadsAre DEF Still
  <2>2. OwnChecked' = OwnChecked
    BY <2>1, DoneKept DEF OwnChecked
  <2> QED BY <1>1, <2>1, <2>2, OwnKept
<1>2. CASE pc[Witness] \notin Making
  BY <1>2 DEF Still, OwnFresh
<1> QED BY <1>1, <1>2

LEMMA OwnStarted ==
    ASSUME Shape, OwnFresh, Grows, OwnStep
    PROVE  OwnFresh'
<1>0. Witness \in Threads /\ Witness # ProcessBlock /\ SerialTypeOK /\ pc \in [Threads -> Points]
  BY ThreadsAre, PcPoints DEF Shape
<1>1. ASSUME NEW b \in Blocks, StartNewBlock(b) PROVE OwnFresh'
  <2>1. cur'[Witness] = b /\ spends'[b] = << >> /\ pc'[Witness] = "build"
    BY <1>0, <1>1 DEF StartNewBlock, Goto, SerialTypeOK
  <2>2. Distinct(<< >>) /\ Inputs(<< >>) = {}
    BY DEF Distinct, Inputs
  <2> QED BY <2>1, <2>2 DEF OwnFresh, Working
<1>2. ASSUME NEW inputs \in Txs, NextTx(inputs) PROVE OwnFresh'
  <2>1. /\ UNCHANGED << cur, spends >> /\ pc[Witness] = "build" /\ pc[Witness] \in Making /\ pc'[Witness] = "check"
        /\ tx' = inputs /\ todo'[Witness] = inputs /\ inputs \in Seq(Serials)
    BY <1>0, <1>2, SerialsAssumption DEF NextTx, Goto, SerialTypeOK, Making, Building
  <2>2. (Source(Witness))' = inputs
    BY <1>0, <2>1 DEF Source
  <2>3. (Done(Witness))' = 0
    BY <2>1, <2>2 DEF Done
  <2>4. OwnChecked' = 0
    BY <2>1, <2>3 DEF OwnChecked
  <2> QED BY <2>1, <2>4, OwnKept
<1>3. ASSUME FinishNewBlock PROVE OwnFresh'
  <2>1. UNCHANGED << cur, spends >> /\ pc[Witness] = "build" /\ pc[Witness] \in Making /\ pc'[Witness] \notin Working
    BY <1>0, <1>3 DEF FinishNewBlock, Goto, locals, Making, Building, Working
  <2> QED BY <2>1, OwnKept
<1> QED BY <1>1, <1>2, <1>3 DEF OwnStep

\* An input that is neither spent below nor in the rows joins the others
LEMMA OwnSelected ==
    ASSUME Shape, OwnFresh, Indexed, NotOvertaken, Grows, NEW t \in Threads, t = Witness, Rows(t), Snapped(t),
           TempSerialnumSelect(t), ~Found(t, Head(todo[t]))
    PROVE  OwnFresh'
<1> DEFINE s == spends[cur[t]]
           d == Done(t)
<1>0. t # ProcessBlock /\ SerialTypeOK /\ pc \in [Threads -> Points]
  BY ThreadsAre, PcPoints DEF Shape
<1>1. /\ pc[t] = "temp" /\ pc[t] \in Working /\ pc[t] \in Making /\ pc[t] \in Building
      /\ UNCHANGED << spends, cur, tx >>
      /\ pc'[t] = (IF Len(todo[t]) = 1 THEN "insert" ELSE "check")
      /\ (Len(todo[t]) # 1 => todo'[t] = Tail(todo[t]))
  BY <1>0 DEF TempSerialnumSelect, Goto, SerialTypeOK, Making, Building, Working
<1>2. Source(t) = tx /\ (Source(t))' = Source(t)
  BY <1>0, <1>1 DEF Source
<1>3. d \in Nat /\ Head(todo[t]) = tx[d + 1] /\ (Len(todo[t]) = 1 => Len(tx) = d + 1)
  BY <1>1, <1>2, HandFacts
<1>4. OwnChecked = d
  BY <1>0, <1>1 DEF OwnChecked
<1>5. OwnChecked' = d + 1
  <2>1. CASE Len(todo[t]) = 1
    BY <1>1, <1>3, <2>1 DEF OwnChecked
  <2>2. CASE Len(todo[t]) # 1
    <3>1. (Done(t))' = d + 1
      BY <1>1, <1>2, <2>2, DoneNext
    <3>2. pc'[t] = "check"
      BY <1>1, <2>2
    <3> QED BY <3>1, <3>2 DEF OwnChecked
  <2> QED BY <2>1, <2>2
<1>6. Inputs(s) \subseteq open[t]
  BY <1>0, <1>1 DEF Rows, Covered
<1>7. Cleared(t, tx[d + 1]) /\ tx[d + 1] \notin Inputs(s)
  BY <1>1, <1>3, <1>6, NotFoundUnspent
<1>8. Distinct(s) /\ \A x \in Inputs(s) : Cleared(t, x)
  BY <1>1 DEF OwnFresh
<1>9. \A i \in 1 .. d : Cleared(t, tx[i]) /\ tx[i] \notin Inputs(s)
  BY <1>1, <1>4 DEF OwnFresh
<1>10. \A i \in 1 .. d + 1 : i \in 1 .. d \/ i = d + 1
  BY <1>3
<1>11. \A i \in 1 .. d + 1 : Cleared(t, tx[i]) /\ tx[i] \notin Inputs(s)
  BY <1>7, <1>9, <1>10
<1>12. \A x \in Inputs(s) : (Cleared(t, x))'
  BY <1>1, <1>8, ClearedKept
<1>13. ASSUME NEW i \in 1 .. d + 1 PROVE (Cleared(t, tx[i]))'
  <2>1. PICK x : x = tx[i]
    OBVIOUS
  <2>2. (Cleared(t, x))'
    BY <1>1, <1>11, <2>1, ClearedKept
  <2> QED BY <1>1, <2>1, <2>2 DEF Cleared, Unspent
<1>14. spends'[cur'[t]] = s /\ tx' = tx
  BY <1>1
<1> HIDE DEF s, d
<1> QED BY <1>5, <1>8, <1>11, <1>12, <1>13, <1>14 DEF OwnFresh

LEMMA OwnCheckStep ==
    ASSUME Shape, OwnFresh, Indexed, NotOvertaken, Grows, NEW t \in Threads, t = Witness, Rows(t), Snapped(t),
           CheckStep(t)
    PROVE  OwnFresh'
<1>0. t # ProcessBlock /\ pc \in [Threads -> Points]
  BY ThreadsAre, PcPoints DEF Shape
<1>1. CASE Refuse(t)
  <2>1. pc'[t] = "build" /\ UNCHANGED << cur, spends >>
    BY <1>0, <1>1 DEF Refuse, Goto, locals
  <2>2. pc[t] \in Making
    BY DEF CheckStep, SnapshotLast, SerialnumSelect, TempSerialnumSelect, SelectError, InsertError,
       Making, Building, Working
  <2> QED BY <2>1, <2>2, OwnKept DEF Working
<1>2. CASE TempSerialnumSelect(t) /\ ~Refuse(t)
  <2>1. ~Found(t, Head(todo[t]))
    BY <1>2 DEF TempSerialnumSelect
  <2> QED BY <1>2, <2>1, OwnSelected
<1>3. CASE ~TempSerialnumSelect(t) /\ ~Refuse(t)
  <2>1. /\ UNCHANGED << spends, cur, tx, todo >> /\ pc[t] \in {"check", "persistent"}
        /\ pc'[t] \in {"persistent", "temp"}
    BY <1>0, <1>3 DEF CheckStep, SnapshotLast, SerialnumSelect, SelectError, InsertError, Goto, locals
  <2>2. OwnChecked' = OwnChecked
    BY <2>1, DoneKept DEF OwnChecked
  <2>3. pc[t] \in Making /\ pc[t] \in Working
    BY <2>1 DEF Making, Building, Working
  <2> QED BY <2>1, <2>2, <2>3, OwnKept
<1> QED BY <1>1, <1>2, <1>3

\* A sequence without repetitions goes on with another that shares nothing with it
LEMMA ConcatDistinct ==
    ASSUME NEW S, NEW s \in Seq(S), NEW r \in Seq(S), Distinct(s), Distinct(r),
           \A i \in 1 .. Len(r) : r[i] \notin Inputs(s)
    PROVE  Distinct(s \o r)
<1> DEFINE q == s \o r
           m == Len(s)
           n == Len(r)
<1>1. /\ m \in Nat /\ n \in Nat /\ q \in Seq(S) /\ Len(q) = m + n
      /\ \A i \in 1 .. m : q[i] = s[i]
      /\ \A i \in 1 .. n : q[m + i] = r[i]
  BY ConcatInputs
<1>2. DOMAIN s = 1 .. m /\ DOMAIN r = 1 .. n
  OBVIOUS
<1>3. DOMAIN q = 1 .. m + n
  BY <1>1
<1> HIDE DEF q, m, n
<1>4. \A i \in 1 .. n : r[i] \notin Inputs(s)
  BY DEF n
<1>5. \A i \in 1 .. m : s[i] \in Inputs(s)
  BY <1>2 DEF Inputs
<1> SUFFICES ASSUME NEW i \in 1 .. m + n, NEW j \in 1 .. m + n, q[i] = q[j] PROVE i = j
  BY <1>3 DEF Distinct, q
<1>6. \A k \in 1 .. m + n : k \in 1 .. m \/ (k - m \in 1 .. n /\ q[k] = r[k - m])
  <2> SUFFICES ASSUME NEW k \in 1 .. m + n, k \notin 1 .. m PROVE k - m \in 1 .. n /\ q[k] = r[k - m]
    OBVIOUS
  <2>1. PICK h : h = k - m
    OBVIOUS
  <2>2. h \in 1 .. n /\ m + h = k
    BY <1>1, <2>1
  <2> QED BY <1>1, <2>1, <2>2
<1>7. CASE i \in 1 .. m /\ j \in 1 .. m
  BY <1>1, <1>2, <1>7 DEF Distinct
<1>8. CASE i \in 1 .. m /\ j \notin 1 .. m
  BY <1>1, <1>4, <1>5, <1>6, <1>8
<1>9. CASE i \notin 1 .. m /\ j \in 1 .. m
  BY <1>1, <1>4, <1>5, <1>6, <1>9
<1>10. CASE i \notin 1 .. m /\ j \notin 1 .. m
  <2>1. i - m \in 1 .. n /\ j - m \in 1 .. n /\ r[i - m] = r[j - m]
    BY <1>6, <1>10
  <2>2. i - m = j - m
    BY <1>2, <2>1 DEF Distinct
  <2> QED BY <1>1, <2>2
<1> QED BY <1>7, <1>8, <1>9, <1>10

LEMMA OwnInserted ==
    ASSUME Shape, OwnFresh, Grows, NEW t \in Threads, t = Witness, TempSerialnumInsert(t)
    PROVE  OwnFresh'
<1> DEFINE s == spends[cur[t]]
<1>0. t # ProcessBlock /\ SerialTypeOK /\ pc \in [Threads -> Points] /\ HandOK(t)
  BY ThreadsAre, PcPoints DEF Shape
<1>1. /\ pc[t] = "insert" /\ pc[t] \in Working /\ pc[t] \in Making /\ UNCHANGED << cur, tx >>
      /\ pc'[t] = (IF Len(todo[t]) = 1 THEN "build" ELSE "insert")
  BY <1>0 DEF TempSerialnumInsert, Goto, Making, Building, Working
<1>2. CASE Len(todo[t]) # 1
  <2>1. spends' = spends /\ OwnChecked' = OwnChecked
    BY <1>0, <1>1, <1>2 DEF TempSerialnumInsert, OwnChecked
  <2> QED BY <1>1, <2>1, OwnKept
<1>3. CASE Len(todo[t]) = 1
  <2>1. tx \in Txs /\ tx \in Seq(Serials) /\ s \in Seq(Serials) /\ cur[t] \in Blocks
    BY <1>0, <1>1 DEF HandOK, SerialTypeOK
  <2>2. Distinct(tx)
    BY <2>1, SerialsAssumption
  <2>3. Distinct(s) /\ (\A x \in Inputs(s) : Cleared(t, x)) /\ \A i \in 1 .. Len(tx) : Cleared(t, tx[i]) /\ tx[i] \notin Inputs(s)
    BY <1>1 DEF OwnFresh, OwnChecked
  <2>4. spends'[cur'[t]] = s \o tx /\ pc'[t] = "build"
    BY <1>0, <1>1, <1>3, <2>1 DEF TempSerialnumInsert, SerialTypeOK
  <2>5. Distinct(s \o tx)
    BY <2>1, <2>2, <2>3, ConcatDistinct
  <2>6. Inputs(s \o tx) = Inputs(s) \cup Inputs(tx)
    BY <2>1, ConcatInputs
  <2>7. \A x \in Inputs(tx) : Cleared(t, x)
    <3>1. DOMAIN tx = 1 .. Len(tx)
      BY <2>1
    <3> QED BY <2>3, <3>1 DEF Inputs
  <2>8. \A x \in Inputs(s \o tx) : (Cleared(t, x))'
    BY <1>1, <2>3, <2>6, <2>7, ClearedKept
  <2> HIDE DEF s
  <2> QED BY <2>4, <2>5, <2>8 DEF OwnFresh, Working
<1> QED BY <1>2, <1>3

LEMMA OwnFreshStep ==
    ASSUME Shape, OwnFresh, Indexed, NotOvertaken, NEW t \in Threads, Rows(t), Snapped(t), StepOf(t)
    PROVE  OwnFresh'
<1>1. Grows /\ \A u \in Threads \ {t} : Still(u)
  BY StepGrows
<1>2. CASE t # Witness
  BY <1>1, <1>2, OwnOther, ThreadsAre
<1>3. CASE t = Witness
  <2>0. t # ProcessBlock /\ pc \in [Threads -> Points] /\ SerialTypeOK
    BY <1>3, ThreadsAre, PcPoints DEF Shape
  <2>1. CASE OwnStep
    BY <1>1, <2>1, OwnStarted
  <2>2. CASE CheckStep(t)
    BY <1>1, <1>3, <2>2, OwnCheckStep
  <2>3. CASE TempSerialnumInsert(t)
    BY <1>1, <1>3, <2>3, OwnInserted
  <2>4. CASE TempSerialnumUpdate(t)
    <3>1. UNCHANGED << spends, cur >> /\ pc[t] = "update" /\ pc'[t] = "insertvalid"
      BY <2>0, <2>4 DEF TempSerialnumUpdate, Goto, locals
    <3>2. pc[t] \in Making /\ pc'[t] \notin Working
      BY <3>1 DEF Making, Building, Working
    <3> QED BY <1>1, <1>3, <3>1, <3>2, OwnKept
  <2>5. CASE UpdateError(t) \/ ChainStep(t)
    <3>1. pc'[t] \notin Making
      BY <2>0, <2>5 DEF UpdateError, ChainStep, ValidObjsInsert, DoConfirmOne, BeginWrite,
         Commit, SetLastIndelible, Prune, Goto, Making, Building, Working
    <3> QED BY <1>3, <3>1 DEF OwnFresh
  <2> QED BY <2>0, <2>1, <2>2, <2>3, <2>4, <2>5 DEF StepOf, RowStep
<1> QED BY <1>2, <1>3

\* A block about to become valid spends once what no block below spends
LEMMA NewSpentOnce ==
    ASSUME Shape, PeerFresh, OwnFresh, NEW t \in Threads, pc[t] = "insertvalid"
    PROVE  Distinct(spends[cur[t]]) /\ \A x \in Inputs(spends[cur[t]]) : Cleared(t, x)
<1>0. pc[t] \in Making /\ pc[t] \notin Working /\ cur[t] \in Blocks /\ spends[cur[t]] \in Seq(Serials)
  BY MakingPlace DEF Shape, SerialTypeOK, Making, Building, Working
<1>1. CASE t = ProcessBlock
  <2>1. Marks(t) = Len(spends[cur[t]]) /\ DOMAIN spends[cur[t]] = 1 .. Len(spends[cur[t]])
    BY <1>0, <1>1 DEF Marks, Source
  <2>2. \A i \in DOMAIN spends[cur[t]] :
            Cleared(t, spends[cur[t]][i]) /\ \A j \in DOMAIN spends[cur[t]] : spends[cur[t]][i] = spends[cur[t]][j] => i = j
    BY <1>0, <1>1, <2>1 DEF PeerFresh
  <2> QED BY <2>2 DEF Distinct, Inputs
<1>2. CASE t # ProcessBlock
  <2>1. t = Witness
    BY <1>2 DEF Threads
  <2> QED BY <1>0, <2>1 DEF OwnFresh
<1> QED BY <1>1, <1>2

LEMMA SpendStep ==
    ASSUME Shape, PeerFresh, OwnFresh, NoDoubleSpend, NEW t \in Threads, StepOf(t)
    PROVE  NoDoubleSpend'
<1>1. Grows
  BY StepGrows
<1> SUFFICES ASSUME NEW b \in valid', marked' \in Chain[b] PROVE (SpentOnce(b))'
  BY DEF NoDoubleSpend
<1>2. CASE b \in valid
  <2>1. b \in Blocks /\ Chain[b] \subseteq valid /\ marked \in Chain[marked]
    BY <1>2, ValidChain, ChainGrows, ChainMembers
  <2>2. Chain[marked'] \subseteq Chain[b]
    BY <2>1, ChainOfMember
  <2>3. SpentOnce(b)
    BY <1>1, <1>2, <2>1, <2>2 DEF Grows, NoDoubleSpend
  <2> QED BY <1>1, <2>1, <2>3 DEF SpentOnce, Grows
<1>3. CASE b \notin valid
  <2>1. ValidObjsInsert(t) /\ b = cur[t]
    BY <1>3 DEF StepOf, PeerStep, OwnStep, CheckStep, RowStep, ChainStep, BlockValidate, StartNewBlock, NextTx,
       FinishNewBlock, SnapshotLast, SerialnumSelect, TempSerialnumSelect, SelectError, InsertError, Refuse,
       TempSerialnumInsert, TempSerialnumUpdate, UpdateError, ValidObjsInsert, DoConfirmOne, BeginWrite, Commit,
       SetLastIndelible, Prune
  <2>2. pc[t] = "insertvalid" /\ marked' = marked /\ spends' = spends
    BY <2>1 DEF ValidObjsInsert, chain
  <2>3. b \in Blocks /\ b # Root /\ PriorOf[b] \in valid
    BY <2>1, <2>2, MakingPlace DEF Making
  <2>4. Chain[b] = {b} \cup Chain[PriorOf[b]] /\ marked \in valid
    BY <2>3, ChainIs DEF Shape, SerialTypeOK
  <2>5. marked \in Chain[PriorOf[b]]
    BY <1>3, <2>2, <2>4
  <2>6. SpentOnce(PriorOf[b])
    BY <2>3, <2>5 DEF NoDoubleSpend
  <2>7. Distinct(spends[b]) /\ \A x \in Inputs(spends[b]) : \A a \in Chain[PriorOf[b]] : x \notin Inputs(spends[a])
    BY <2>1, <2>2, <2>5, NewSpentOnce DEF Cleared, Unspent
  <2>8. SpentOnce(b)
    <3>1. \A a \in Chain[b] : Distinct(spends[a])
      BY <2>4, <2>6, <2>7 DEF SpentOnce
    <3>2. ASSUME NEW a \in Chain[b], NEW c \in Chain[b], a # c PROVE Inputs(spends[a]) \cap Inputs(spends[c]) = {}
      <4>1. CASE a = b
        <5>1. c \in Chain[PriorOf[b]]
          BY <2>4, <3>2, <4>1
        <5> QED BY <2>7, <4>1, <5>1
      <4>2. CASE c = b
        <5>1. a \in Chain[PriorOf[b]]
          BY <2>4, <3>2, <4>2
        <5> QED BY <2>7, <4>2, <5>1
      <4>3. CASE a # b /\ c # b
        BY <2>4, <2>6, <3>2, <4>3 DEF SpentOnce
      <4> QED BY <4>1, <4>2, <4>3
    <3> QED BY <3>1, <3>2 DEF SpentOnce
  <2> QED BY <2>2, <2>8 DEF SpentOnce
<1> QED BY <1>2, <1>3

-----------------------------------------------------------------------------
(* The theorems.                                                             *)

\* What holds however long a check takes
TablesInv ==
    /\ Shape /\ Committed /\ Indexed /\ Exact /\ NoFalseRejection
    /\ \A t \in Threads : Snapped(t) /\ Rows(t)

\* And what needs the prune trail
SpendInv == TablesInv /\ PeerFresh /\ OwnFresh /\ NoDoubleSpend

LEMMA SpendInit == ASSUME SerialInit PROVE SpendInv
<1>1. Shape /\ Committed
  BY ShapeInit, CommittedInit
<1>2. Bound = {Root}
  BY DEF SerialInit, Bound
<1>3. Inputs(spends[Root]) = {} /\ Chain[Root] = {Root} /\ spends[Root] = << >>
  BY <1>1, RootEmpty, ChainIs, SerialsAssumption, TreeAssumption DEF Shape, PeersFixed
<1>4. Indexed /\ Exact
  <2>1. temp = {}
    BY DEF SerialInit
  <2> QED BY <1>2, <1>3, <2>1 DEF Indexed, Exact
<1>5. NoFalseRejection
  BY DEF NoFalseRejection, SerialInit
<1>6. \A t \in Threads : Snapped(t) /\ Rows(t)
  <2>1. \A t \in Threads : pc[t] = "idle"
    BY DEF SerialInit
  <2> QED BY <2>1 DEF Snapped, Rows, Building, Working
<1>7. PeerFresh /\ OwnFresh
  BY ThreadsAre DEF PeerFresh, OwnFresh, SerialInit, Making, Building, Working
<1>8. NoDoubleSpend
  <2>1. valid = {Root}
    BY DEF SerialInit
  <2>2. Distinct(spends[Root])
    BY <1>3 DEF Distinct
  <2> QED BY <1>3, <2>1, <2>2 DEF NoDoubleSpend, SpentOnce
<1> QED BY <1>1, <1>4, <1>5, <1>6, <1>7, <1>8 DEF SpendInv, TablesInv

LEMMA TablesStep == ASSUME TablesInv, NEW t \in Threads, StepOf(t), Shape' PROVE TablesInv'
<1>1. Shape /\ Committed /\ Indexed /\ Exact /\ NoFalseRejection /\ \A u \in Threads : Snapped(u) /\ Rows(u)
  BY DEF TablesInv
<1>2. Committed'
  BY <1>1, CommittedStep
<1>3. Indexed' /\ Exact'
  BY <1>1, IndexedStep
<1>4. NoFalseRejection'
  BY <1>1, RefusalStep
<1>5. \A u \in Threads : Snapped(u)'
  BY <1>1, SnappedStep
<1>6. \A u \in Threads : Rows(u)'
  BY <1>1, RowsStep
<1> QED BY <1>2, <1>3, <1>4, <1>5, <1>6 DEF TablesInv

LEMMA TablesNext == ASSUME TablesInv, [SerialNext]_serialVars PROVE TablesInv'
<1>1. Shape'
  BY ShapeStep DEF TablesInv
<1>2. CASE SerialNext
  BY <1>1, <1>2, SomeThread, TablesStep
<1>3. CASE UNCHANGED serialVars
  <2>1. /\ UNCHANGED << valid, spends, open, temp, persistent, marked, last, lastPruned, mutex, pc, cur, tx, todo >>
        /\ UNCHANGED << snap, first, rejected, failed >>
    BY <1>3 DEF serialVars, tables, chain, locals, history
  <2>2. Committed'
    BY <2>1 DEF TablesInv, Committed, Stored
  <2>3. Indexed' /\ Exact'
    BY <2>1 DEF TablesInv, Indexed, Exact, Bound
  <2>4. NoFalseRejection'
    BY <2>1 DEF TablesInv, NoFalseRejection, SpentOnce
  <2>5. \A t \in Threads : Snapped(t)' /\ Rows(t)'
    <3> SUFFICES ASSUME NEW t \in Threads PROVE Snapped(t)' /\ Rows(t)'
      OBVIOUS
    <3>1. Snapped(t) /\ Rows(t)
      BY DEF TablesInv
    <3>2. Snapped(t)'
      BY <2>1, <3>1 DEF Snapped
    <3>3. (Source(t))' = Source(t)
      BY <2>1 DEF Source
    <3>4. (Behind(t))' = Behind(t)
      BY <2>1, <3>3 DEF Behind, Done
    <3>5. (Covered(t))' = Covered(t)
      BY <2>1, <3>4 DEF Covered
    <3>6. Rows(t)'
      BY <2>1, <3>1, <3>5 DEF Rows
    <3> QED BY <3>2, <3>6
  <2> QED BY <1>1, <2>2, <2>3, <2>4, <2>5 DEF TablesInv
<1> QED BY <1>2, <1>3

LEMMA SpendNext == ASSUME SpendInv, NotOvertaken, [SerialNext]_serialVars PROVE SpendInv'
<1>1. TablesInv'
  BY TablesNext DEF SpendInv
<1>2. Shape /\ Indexed /\ PeerFresh /\ OwnFresh /\ NoDoubleSpend /\ \A t \in Threads : Snapped(t) /\ Rows(t)
  BY DEF SpendInv, TablesInv
<1>3. CASE SerialNext
  <2>1. PICK t \in Threads : StepOf(t)
    BY <1>3, SomeThread
  <2>2. PeerFresh'
    BY <1>2, <2>1, PeerFreshStep
  <2>3. OwnFresh'
    BY <1>2, <2>1, OwnFreshStep
  <2>4. NoDoubleSpend'
    BY <1>2, <2>1, SpendStep
  <2> QED BY <1>1, <2>2, <2>3, <2>4 DEF SpendInv
<1>4. CASE UNCHANGED serialVars
  <2>1. /\ UNCHANGED << valid, spends, open, persistent, marked, last, pc, cur, tx, todo, snap, failed >>
    BY <1>4 DEF serialVars, tables, chain, locals, history
  <2>2. PeerFresh' /\ OwnFresh'
    <3>1. Grows /\ Still(ProcessBlock) /\ Still(Witness)
      BY <2>1 DEF Grows, Still
    <3> QED BY <1>2, <3>1, PeerOther, OwnOther
  <2>3. NoDoubleSpend'
    BY <1>2, <2>1 DEF NoDoubleSpend, SpentOnce
  <2> QED BY <1>1, <2>2, <2>3 DEF SpendInv
<1> QED BY <1>3, <1>4

LEMMA IndexedValid == ASSUME Shape, Indexed PROVE ValidIndexed
<1> SUFFICES ASSUME NEW b \in valid \ {Root}, LevelOf[b] > LevelOf[last] PROVE \A s \in Inputs(spends[b]) : << s, b >> \in temp
  BY DEF ValidIndexed
<1>1. LevelOf[last] \in Nat /\ LevelOf[b] \in Nat
  BY ChainGrows, TreeAssumption DEF Shape, SerialTypeOK
<1>2. lastPruned \in 0 .. LevelOf[last]
  BY DEF Shape, SerialTypeOK
<1>3. LevelOf[b] >= lastPruned /\ b \in Bound
  BY <1>1, <1>2 DEF Bound
<1> QED BY <1>3 DEF Indexed

(* However the two threads interleave, however long a check takes and        *)
(* whatever call fails: the tables are well formed, a valid block above the  *)
(* last indelible one has all its serial numbers in Temp_Serials, and no     *)
(* block is refused but for a serial number that is really spent             *)
(* (CheckSerialnum, TempSerialnumUpdate before ValidObjsInsert, the order of *)
(* DoConfirmations and the prune level of ValidObjsBlockInsert).             *)
THEOREM TablesCorrect == SerialSpec => [](SerialTypeOK /\ ValidIndexed /\ NoFalseRejection)
<1>1. SerialInit => TablesInv
  BY SpendInit DEF SpendInv
<1>2. TablesInv /\ [SerialNext]_serialVars => TablesInv'
  BY TablesNext
<1>3. TablesInv => SerialTypeOK /\ ValidIndexed /\ NoFalseRejection
  BY IndexedValid DEF TablesInv, Shape
<1> QED BY <1>1, <1>2, <1>3, PTL DEF SerialSpec

(* And as long as no check takes so long that rows above the block it read   *)
(* from m_last_indelible_block are pruned under it, no chain that may still  *)
(* become indelible spends a serial number twice: the whole of SerialInv     *)
(* (CheckSerialnum with its users BlockValidate and BuildNewBlock).          *)
THEOREM SerialsCorrect == SerialSpec /\ []NotOvertaken => []SerialInv
<1>1. SerialInit => SpendInv
  BY SpendInit
<1>2. SpendInv /\ NotOvertaken /\ [SerialNext]_serialVars => SpendInv'
  BY SpendNext
<1>3. SpendInv => SerialInv
  BY IndexedValid DEF SpendInv, TablesInv, Shape, SerialInv
<1> QED BY <1>1, <1>2, <1>3, PTL DEF SerialSpec
=============================================================================
