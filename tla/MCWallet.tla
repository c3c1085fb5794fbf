------------------------------ MODULE MCWallet ------------------------------
EXTENDS Wallet, TLC

CONSTANTS r1, r2, r3, r4

\* One output holds four at most and a transaction has at most two inputs: five
\* goes out in two parts, and four from billets of one needs consolidations.  Two
\* threads work on the same payment, or on two that want the same billets.
MCScenarios == { [bills |-> <<4, 3>>, refs |-> {r1}, threads |-> 2],
                 [bills |-> <<4, 3>>, refs |-> {r2, r4}, threads |-> 2],
                 [bills |-> <<1, 1, 1, 1>>, refs |-> {r3}, threads |-> 1] }
MCRequestOf == (r1 :> [amt |-> 5, own |-> FALSE]) @@ (r2 :> [amt |-> 2, own |-> TRUE])
               @@ (r3 :> [amt |-> 4, own |-> FALSE]) @@ (r4 :> [amt |-> 3, own |-> FALSE])
Symmetric == Permutations(Builders)
=============================================================================
