-------------------------- MODULE ExchangeLedger --------------------------
(* What the exchange promises: its part of the database is a function of the blocks.  At the first block *)
(* of an epoch the matches of the epoch before are computed from scratch from the database alone, whatever *)
(* a node's table of requests, its threads and its restarts went through.                                *)
EXTENDS ExchangeBlock

CONSTANTS Chains,    \* the chains to start from
          MaxLevel,    \* bound: blocks
          BlockGaps    \* bound: the times between two blocks

VARIABLE ledger

LedgerInit == ledger \in {Agreed(Replay(p)) : p \in Chains}
LedgerNext == /\ ledger.level < MaxLevel
              /\ ledger'.level = ledger.level + 1
              /\ \E tx \in Txs(ledger), dt \in BlockGaps :
                    /\ ledger'.tx = tx /\ ledger'.time = ledger.time + dt
                    /\ ledger' = Agreed(ApplyBlock(ledger, tx, ledger.time + dt))
Ledger     == LedgerInit /\ [][LedgerNext]_ledger
===========================================================================
