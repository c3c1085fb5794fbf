----------------------------- MODULE MCConfirm ------------------------------
EXTENDS Confirm, TLC

\* A chain of five blocks above the genesis block and a short fork at level 2
MCBlocks == 0 .. 6
MCPriorOf == [b \in MCBlocks |-> IF b = 6 THEN 1 ELSE IF b = 0 THEN 0 ELSE b - 1]
MCLevelOf == [b \in MCBlocks |-> IF b = 6 THEN 2 ELSE b]
MCSkipOf == [b \in MCBlocks |-> IF b \in {3, 6} THEN 1 ELSE 0]

\* Two chains long enough to be confirmed both, as more than maxmal
\* misbehaving witnesses could make them
ForkBlocks == 0 .. 5
ForkPriorOf == [b \in ForkBlocks |-> IF b \in {0, 1, 4} THEN 0 ELSE b - 1]
ForkLevelOf == [b \in ForkBlocks |-> IF b > 3 THEN b - 3 ELSE b]
ForkSkipOf == [b \in ForkBlocks |-> IF b = 1 THEN 1 ELSE 0]
=============================================================================
