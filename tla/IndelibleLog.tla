---------------------------- MODULE IndelibleLog ----------------------------
(***************************************************************************)
(* What the persistent database promises about the blockchain: the set of  *)
(* blocks stored in it is always one gapless chain from the genesis block, *)
(* and it only ever grows, each time by blocks above the present top.      *)
(* Neither a crash nor a shutdown takes anything away.                     *)
(***************************************************************************)
EXTENDS BlockTree

VARIABLE log

LogInit == log = {Root}

Append ==
    \E new \in SUBSET (Blocks \ log) :
        /\ \A n \in new, b \in log : LevelOf[b] < LevelOf[n]
        /\ IsChain(log \cup new)
        /\ log' = log \cup new

LogSpec == LogInit /\ [][Append]_log
=============================================================================
