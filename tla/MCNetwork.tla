----------------------------- MODULE MCNetwork -----------------------------
(***************************************************************************)
(* The network side of a node: connections (ConnPool) and the relay        *)
(* (Relay).  The two share no state that matters to their properties, so a *)
(* behaviour is one of either, picked by part, while the other stays in    *)
(* its initial state.                                                      *)
(***************************************************************************)
EXTENDS ConnPool, Relay, TLC

VARIABLE part

\* One peer holds everything, the others the blocks.
Init ==
  /\ part \in {"pool", "relay"}
  /\ PoolInit /\ RelayInit
  /\ has = [p \in Peers |-> IF p = CHOOSE q \in Peers : TRUE THEN Objs ELSE Blocks]

Next ==
  /\ UNCHANGED part
  /\ \/ part = "pool" /\ PoolNext /\ UNCHANGED relayVars
     \/ part = "relay" /\ RelayNext /\ UNCHANGED poolVars

Spec == Init /\ [][Next]_<<part, poolVars, relayVars>>

Symmetry == Permutations(Conns) \cup Permutations(Threads)
=============================================================================
