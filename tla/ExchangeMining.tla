-------------------------- MODULE ExchangeMining --------------------------
(* The exchange mining account of ccnode/src/exchange_mining.cpp: how much may be mined now, how much a *)
(* match earns, and what is left.  UniFloat fractions are whole numbers here, in units of CentsPer.     *)
EXTENDS Integers

CONSTANTS MineStart,      \* mining_start_time
          MinePeriod,     \* mining_update_time_increment
          MineTotal,      \* total_to_mine
          MineMin,        \* mining_min_amount_per_interval
          MineIntervals   \* mining_max_currently_mineable_intervals

RemainingShare == 100     \* 1 / mining_remaining_fraction_per_interval
MaxPerMatch    == 2       \* 1 / mining_max_fraction_per_match

(* Init.  avg and wgt are the average required rate and its weight, size and swgt the average amount    *)
(* of a match and its weight; mult is a percentage.                                                     *)
MiningInit == [period |-> 0, mined |-> 0, remaining |-> MineTotal, avail |-> 0, cap |-> 0, mult |-> 100,
               avg |-> 1, wgt |-> 1, size |-> 1, swgt |-> 1, paid |-> 0]

MinOf(a, b) == IF a <= b THEN a ELSE b
MaxOf(a, b) == IF a >= b THEN a ELSE b

(* One interval of UpdateMiningTime: the weights decay, the mineable amount grows up to its cap.        *)
NextInterval(g) ==
    LET inc == MaxOf(g.remaining \div RemainingShare, MineMin)
        cap == inc * MineIntervals
        avail == MinOf(g.avail + inc, cap)
    IN  [g EXCEPT !.period = @ + 1, !.cap = cap, !.avail = avail, !.wgt = MaxOf(@ \div 2, 1), !.swgt = MaxOf(@ \div 2, 1),
                  !.mult = IF 2 * avail > cap THEN MinOf(@ + 2, 100) ELSE @]

UpdateMiningTime(g, time) ==
    LET period == (time - MineStart) \div MinePeriod + 1
        Step[n \in 0..MaxOf(period, 0)] == IF n <= g.period THEN g ELSE NextInterval(Step[n - 1])
    IN  IF time < MineStart THEN g ELSE Step[MaxOf(period, g.period)]

(* ComputeMiningAmount: nothing for a buyer who offers no more than the average.                        *)
ComputeMiningAmount(g, base, req) ==
    IF g.avail <= 0 \/ req <= g.avg THEN 0
    ELSE MinOf(MinOf((base * g.mult) \div 100, MaxOf(g.avail \div MaxPerMatch, 1)), g.avail)

(* UpdateMiningStats: the average amount, and the average rate if the match is mineable, which a very   *)
(* small or a very large one is not.                                                                    *)
UpdateMiningStats(g, base, req) ==
    LET sw == g.swgt + 1
        g1 == [g EXCEPT !.size = (g.size * g.swgt + base) \div sw, !.swgt = sw]
        w  == g.wgt + base
        mineable == 20 * base >= g1.size /\ base <= 2 * g1.size /\ req > 0
    IN  [mineable |-> mineable,
         g |-> IF mineable THEN [g1 EXCEPT !.avg = (g.avg * g.wgt + base * req) \div w, !.wgt = w] ELSE g1]

(* SetMiningAmount of a new match: the statistics, then the amount, which is taken from avail.          *)
SetMiningAmount(g0, time, base, req) ==
    IF g0.remaining = 0 \/ time < MineStart THEN [g |-> g0, amt |-> 0]
    ELSE LET st  == UpdateMiningStats(UpdateMiningTime(g0, time), base, req)
             g   == st.g
             amt == IF st.mineable THEN ComputeMiningAmount(g, base, req) ELSE 0
         IN  [amt |-> amt,
              g   |-> [g EXCEPT !.avail = @ - amt,
                                !.mult  = IF amt > 0 /\ 2 * g.avail < g.cap THEN MaxOf((@ * 98) \div 100, 1) ELSE @]]

BuggyGetAdjustedMiningAmount(g, amt) == amt

GetAdjustedMiningAmount(g, amt) == MinOf(amt, g.remaining)

FinalizeMiningAmount(g, amt) ==
    [g EXCEPT !.remaining = @ - amt, !.mined = @ + amt, !.avail = IF g.remaining = amt THEN 0 ELSE @]

(* UpdateMatchStats: the rate paid, kept for the transaction server only.                               *)
UpdateMatchStats(g, paid) == [g EXCEPT !.paid = @ + paid]
===========================================================================
