----------------------------- MODULE CommitTree -----------------------------
(***************************************************************************)
(* The Merkle tree of transaction outputs (ccnode/src/commitments.cpp), as *)
(* blocks become indelible: each output gets a commitment number and a     *)
(* leaf, the inner nodes on the right edge are computed again, and the     *)
(* root is saved by block level.  All of a block is one transaction of the *)
(* persistent database (dbconn-persistent.cpp), which readers see only     *)
(* once it is committed; m_next_commitnum and m_next_tree_update_commitnum *)
(* are in memory.  A hash is the term it is computed from.                 *)
(***************************************************************************)
EXTENDS Integers, Sequences, FiniteSets, SequencesExt

CONSTANTS Depth,        \* TX_MERKLE_DEPTH
          Addresses,    \* the addresses outputs are paid to
          MaxLevel,     \* bound: block levels
          MaxCommits,   \* bound: outputs
          MaxCrashes    \* bound: crashes of the node

ASSUME TreeAssumption == Depth \in Nat \ {0} /\ MaxCommits \in 1..2^Depth /\ MaxLevel \in Nat /\ MaxCrashes \in Nat

VARIABLES tdb,      \* the committed tables
          twork,    \* the tables as the open write transaction sees them, or tdb when there is none
          indexing, \* a block is being indexed
          level,    \* m_last_indelible_level
          nextNum,  \* m_next_commitnum
          nextUpd,  \* m_next_tree_update_commitnum
          crashes,
          qin       \* an input query in progress or answered

treeVars == <<tdb, twork, indexing, level, nextNum, nextUpd, crashes, qin>>

(***************************************************************************)
(* Tables.  tree[h][o] is a row of Commit_Tree; hi, null and plevel are    *)
(* the parameters COMMIT_COMMITNUM_HI, COMMIT_NULL_INPUT and               *)
(* COMMIT_BLOCKLEVEL.                                                      *)
(***************************************************************************)
\* tx_commit_tree_hash_leaf and tx_commit_tree_hash_node
HashLeaf(commitment, num) == <<"leaf", commitment, num>>

HashNode(l, r) == <<"node", l, r>>

Even(n) == n - (n % 2)

\* What CommitTreeSelect returns, with the hash that every reader applies to a leaf.
CommitTreeSelect(t, h, o) == IF h = 0 THEN HashLeaf(t.tree[0][o], o) ELSE t.tree[h][o]

CommitTreeInsert(t, h, o, value) == [t EXCEPT !.tree[h] = (o :> value) @@ @]

\* A mutation of CommitRootsInsert.
BuggyCommitRootsInsert(t, lvl, next, root) == [t EXCEPT !.roots = @ @@ (lvl + 1 :> [next |-> next, root |-> root])]

CommitRootsInsert(t, lvl, next, root) == [t EXCEPT !.roots = @ @@ (lvl :> [next |-> next, root |-> root])]

\* The three parameters that UpdateCommitTree saves.
ParameterInsert(t, lvl, hi, null) == [t EXCEPT !.plevel = lvl, !.hi = hi, !.null = null]

\* A mutation of RowNode.
BuggyRowNode(t, h, o, rowEnd) == HashNode(CommitTreeSelect(t, h, o), IF o + 1 >= rowEnd THEN t.null ELSE CommitTreeSelect(t, h, o + 1))

\* One node of the row above: the null input stands for a missing right child.
RowNode(t, h, o, rowEnd) == HashNode(CommitTreeSelect(t, h, o), IF o >= rowEnd THEN t.null ELSE CommitTreeSelect(t, h, o + 1))

\* The rows that change in one pass of UpdateCommitTree's loop over heights.
UpdateRow(t, h, rowStart, rowEnd) ==
  LET changed == {o \in rowStart..rowEnd : o % 2 = 0} IN
  FoldSet(LAMBDA o, u : CommitTreeInsert(u, h + 1, o \div 2, RowNode(t, h, o, rowEnd)), t, changed)

\* Where an update starts: the left one of a pair, since its parent changes with it.
RowStart(n) == Even(n)

\* The whole loop.
UpdateRows(t, first, last) ==
  FoldLeft(LAMBDA a, h : [t |-> UpdateRow(a.t, h, a.s, a.e), s |-> RowStart(a.s \div 2), e |-> a.e \div 2],
           [t |-> t, s |-> RowStart(first), e |-> last], [i \in 1..Depth |-> i - 1]).t

\* UpdateCommitTree: nothing unless outputs were added (or it is the genesis block).
UpdateCommitTree(t, lvl, hash, upd, num) ==
  LET u == UpdateRows(ParameterInsert(t, lvl, num - 1, hash), upd, num - 1) IN
  IF upd = num THEN t ELSE CommitRootsInsert(u, lvl, num, u.tree[Depth][0])

\* The hash of a block, of which the null input is made.
BlockHash(lvl) == <<"block", lvl>>

TxOutputInsert(t, addr, plevel, num) == [t EXCEPT !.outs = @ \cup {[addr |-> addr, plevel |-> plevel, num |-> num]}]

\* SaveGenesisHash makes commitment 0 before the tree of level 0 is computed.
Genesis ==
  UpdateCommitTree(CommitTreeInsert([tree |-> [h \in 0..Depth |-> <<>>], roots |-> <<>>, outs |-> {}, hi |-> -1,
                                  null |-> BlockHash(0), plevel |-> 0], 0, 0, <<0, 0>>), 0, BlockHash(0), 0, 1)

NoQuery == [pc |-> "none", num |-> 0, db |-> <<>>, plevel |-> 0, path |-> <<>>, root |-> <<>>]

TreeInit ==
  /\ tdb = Genesis /\ twork = Genesis
  /\ indexing = FALSE /\ level = 0 /\ nextNum = 1 /\ nextUpd = 1 /\ crashes = 0
  /\ qin = NoQuery

(***************************************************************************)
(* Indexing a block.                                                       *)
(***************************************************************************)
\* CommitRootsSelectLevel with or_greater < 0: the last level that has a root, at most lvl.
CommitRootsSelectLevel(t, lvl) == CHOOSE l \in DOMAIN t.roots : l <= lvl /\ \A m \in DOMAIN t.roots : m <= lvl => m <= l

BeginBlock ==
  /\ ~indexing /\ level < MaxLevel
  /\ indexing' = TRUE
  /\ UNCHANGED <<tdb, twork, level, nextNum, nextUpd, crashes, qin>>

\* IndexTxOutputs: an output of a transaction, whose param_level has a root
\* (TxValidate and IndexTxs look it up).
IndexTxOutputs(addr) ==
  /\ indexing /\ nextNum < MaxCommits
  /\ \E p \in DOMAIN twork.roots :
       twork' = TxOutputInsert(CommitTreeInsert(twork, 0, nextNum, <<level + 1, addr>>), addr, p, nextNum)
  /\ nextNum' = nextNum + 1
  /\ UNCHANGED <<tdb, indexing, level, nextUpd, crashes, qin>>

\* A mutation of CreateTxOutputs.
BuggyCreateTxOutputs(addr) ==
  /\ indexing /\ nextNum < MaxCommits
  /\ twork' = TxOutputInsert(CommitTreeInsert(twork, 0, nextNum, <<level + 1, addr>>), addr, level, nextNum)
  /\ nextNum' = nextNum + 1
  /\ UNCHANGED <<tdb, indexing, level, nextUpd, crashes, qin>>

\* CreateTxOutputs: an output the node makes itself (a donation, a settlement); not every
\* level has a root, so it takes the last one there is.
CreateTxOutputs(addr) ==
  /\ indexing /\ nextNum < MaxCommits
  /\ twork' = TxOutputInsert(CommitTreeInsert(twork, 0, nextNum, <<level + 1, addr>>), addr, CommitRootsSelectLevel(twork, level), nextNum)
  /\ nextNum' = nextNum + 1
  /\ UNCHANGED <<tdb, indexing, level, nextUpd, crashes, qin>>

\* The end of SetNewlyIndelibleBlock: the tree is brought up to date and all is committed.
CommitBlock ==
  LET t == UpdateCommitTree(twork, level + 1, BlockHash(level + 1), nextUpd, nextNum) IN
  /\ indexing
  /\ tdb' = t /\ twork' = t
  /\ nextUpd' = nextNum /\ level' = level + 1 /\ indexing' = FALSE
  /\ UNCHANGED <<nextNum, crashes, qin>>

\* A mutation of NodeRestart.
BuggyNodeRestart ==
  /\ crashes < MaxCrashes
  /\ crashes' = crashes + 1
  /\ twork' = tdb /\ indexing' = FALSE
  /\ nextNum' = tdb.hi /\ nextUpd' = tdb.hi
  /\ qin' = IF qin.pc = "open" THEN NoQuery ELSE qin
  /\ UNCHANGED <<tdb, level>>

\* The node crashes, which rolls an open transaction back, and starts again:
\* Commitments::Init reads the number of the last commitment.
NodeRestart ==
  /\ crashes < MaxCrashes
  /\ crashes' = crashes + 1
  /\ twork' = tdb /\ indexing' = FALSE
  /\ nextNum' = tdb.hi + 1 /\ nextUpd' = tdb.hi + 1
  /\ qin' = IF qin.pc = "open" THEN NoQuery ELSE qin
  /\ UNCHANGED <<tdb, level>>

(***************************************************************************)
(* HandleTxQueryInputs: the parameters and the path are read one after the *)
(* other, from the snapshot that BeginRead took.                           *)
(***************************************************************************)
\* The other input of each hash from leaf num to the root: a row that ends before it has
\* the null input there.
MerklePath(t, last, null, num) ==
  LET other(o) == IF o % 2 = 0 THEN o + 1 ELSE o - 1 IN
  FoldLeft(LAMBDA a, h : [path |-> Append(a.path, IF other(a.o) > a.e THEN null ELSE CommitTreeSelect(t, h, other(a.o))),
                          o |-> a.o \div 2, e |-> a.e \div 2],
           [path |-> <<>>, o |-> num, e |-> last], [i \in 1..Depth |-> i - 1]).path

\* BeginRead and the parameters; a number above the last one is answered "Not Found".
QueryInputsBegin(num) ==
  /\ qin.pc # "open" /\ num <= tdb.hi
  /\ qin' = [pc |-> "open", num |-> num, db |-> tdb, plevel |-> tdb.plevel, path |-> <<>>, root |-> tdb.roots[tdb.plevel].root]
  /\ UNCHANGED <<tdb, twork, indexing, level, nextNum, nextUpd, crashes>>

\* A mutation of QueryInputsEnd.
BuggyQueryInputsEnd ==
  /\ qin.pc = "open"
  /\ qin' = [qin EXCEPT !.pc = "done", !.db = <<>>, !.path = MerklePath(tdb, qin.db.hi, qin.db.null, qin.num)]
  /\ UNCHANGED <<tdb, twork, indexing, level, nextNum, nextUpd, crashes>>

QueryInputsEnd ==
  /\ qin.pc = "open"
  /\ qin' = [qin EXCEPT !.pc = "done", !.db = <<>>, !.path = MerklePath(qin.db, qin.db.hi, qin.db.null, qin.num)]
  /\ UNCHANGED <<tdb, twork, indexing, level, nextNum, nextUpd, crashes>>

(***************************************************************************)
(* TxOutputsSelect, the answer to an address query: the outputs that join  *)
(* a root and a leaf, from number start on, in order, and whether there    *)
(* are more than the limit.                                                *)
(***************************************************************************)
\* The rows the join finds.
Visible(t, addr) == {o \in t.outs : o.addr = addr /\ o.plevel \in DOMAIN t.roots /\ o.num \in DOMAIN t.tree[0]}

\* A mutation of TxOutputsSelect.
BuggyTxOutputsSelect(t, addr, start, limit) ==
  LET nums == {o.num : o \in {v \in Visible(t, addr) : v.num >= start}}
      first == {n \in nums : Cardinality({m \in nums : m > n}) < limit}
  IN [nums |-> first, more |-> first # nums]

TxOutputsSelect(t, addr, start, limit) ==
  LET nums == {o.num : o \in {v \in Visible(t, addr) : v.num >= start}}
      first == {n \in nums : Cardinality({m \in nums : m < n}) < limit}
  IN [nums |-> first, more |-> first # nums /\ limit > 1]

NodeNext(paid) ==
  \/ BeginBlock \/ CommitBlock \/ NodeRestart \/ QueryInputsEnd
  \/ \E a \in paid : IndexTxOutputs(a) \/ CreateTxOutputs(a)
  \/ \E n \in 0..MaxCommits : QueryInputsBegin(n)

(***************************************************************************)
(* Properties.                                                             *)
(***************************************************************************)
\* The variables have their types, and the open transaction only adds to the tables.
TreeTypeOK ==
  /\ level \in 0..MaxLevel /\ nextNum \in 1..MaxCommits /\ nextUpd \in 1..nextNum
  /\ {tdb.plevel} \cup DOMAIN tdb.roots \subseteq 0..level /\ tdb.outs \subseteq twork.outs
  /\ indexing \in BOOLEAN /\ crashes \in 0..MaxCrashes /\ qin.pc \in {"none", "open", "done"}

\* The committed leaves are those of all outputs, without a gap, and the next number follows
\* them whenever no block is being indexed, also after a crash (Commitments::Init).
NumbersDense ==
  /\ DOMAIN tdb.tree[0] = 0..tdb.hi
  /\ ~indexing => nextNum = tdb.hi + 1
  /\ \A a, b \in tdb.outs : a.num = b.num => a = b

\* The value of the subtree at height h and offset o, computed from the leaves.
RefNode[h \in 0..Depth, o \in 0..2^Depth - 1] ==
  IF o * 2^h > tdb.hi THEN tdb.null
  ELSE IF h = 0 THEN HashLeaf(tdb.tree[0][o], o)
  ELSE HashNode(RefNode[h - 1, 2 * o], RefNode[h - 1, 2 * o + 1])

\* The root that incremental updates leave behind is the root of the tree computed from all
\* leaves and the current null input (UpdateCommitTree).
RootIsReference == tdb.roots[tdb.plevel].root = RefNode[Depth, 0]

\* The hash that a verifier computes from a leaf and a path.
PathRoot(leaf, num, path) ==
  FoldLeft(LAMBDA a, p : [h |-> IF a.o % 2 = 0 THEN HashNode(a.h, p) ELSE HashNode(p, a.h), o |-> a.o \div 2],
           [h |-> leaf, o |-> num], path).h

\* An answered input query proves: the path leads from the leaf to the root it was answered
\* with, and that is the root saved for its level, although blocks were committed meanwhile
\* (HandleTxQueryInputs).
PathVerifies ==
  qin.pc = "done" => /\ PathRoot(HashLeaf(tdb.tree[0][qin.num], qin.num), qin.num, qin.path) = qin.root
                     /\ tdb.roots[qin.plevel].root = qin.root

\* Every output that was committed can be found by its address (TxOutputsSelect's join).
OutputsVisible == \A o \in tdb.outs : o \in Visible(tdb, o.addr)

\* The commitment tree: numbers without a gap, roots as defined directly over the leaves,
\* paths that lead to the root they are sent with, and outputs that are found
\* (UpdateCommitTree, HandleTxQueryInputs, TxOutputsSelect).
TreeInv == TreeTypeOK /\ NumbersDense /\ RootIsReference /\ PathVerifies /\ OutputsVisible
=============================================================================
