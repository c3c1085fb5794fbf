----------------------------- MODULE BlockTree ------------------------------
(***************************************************************************)
(* The tree of blocks as one node sees it: every block names its prior     *)
(* block and carries the level above it (block.hpp, BlockWireHeader).      *)
(***************************************************************************)
EXTENDS Naturals

CONSTANTS
    Blocks,     \* every block that may exist
    Root,       \* the genesis block
    PriorOf,    \* PriorOf[b]: the block with oid b.prior_oid
    LevelOf     \* LevelOf[b]: the level in b's wire header

ASSUME TreeAssumption ==
    /\ Root \in Blocks
    /\ PriorOf \in [Blocks -> Blocks]
    /\ LevelOf \in [Blocks -> Nat]
    /\ LevelOf[Root] = 0
    /\ \A b \in Blocks \ {Root} : LevelOf[b] = LevelOf[PriorOf[b]] + 1

\* A gapless chain from the genesis block, one block to a level
IsChain(S) ==
    /\ Root \in S
    /\ \A b \in S \ {Root} : PriorOf[b] \in S
    /\ \A a, b \in S : LevelOf[a] = LevelOf[b] => a = b

\* A block and all the blocks below it
Chain[b \in Blocks] == IF b = Root THEN {Root} ELSE {b} \cup Chain[PriorOf[b]]

\* The highest block of a set
IsTop(b, S) == b \in S /\ \A c \in S : LevelOf[c] <= LevelOf[b]
=============================================================================
