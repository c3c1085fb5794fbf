--------------------------- MODULE ConsensusProofs --------------------------
(***************************************************************************)
(* Proofs about module Consensus, for any number of witnesses, malicious   *)
(* or not, any delivery of blocks and any restarts: the types, that        *)
(* NConfSigs consecutive signatures of a valid chain are of different      *)
(* witnesses, and, when restarted witnesses wait until they have caught up *)
(* with themselves, that an honest witness signs once at a level.          *)
(***************************************************************************)
EXTENDS Consensus, WellFoundedInduction, TLAPS

Chains == Seq(Witnesses \X Variants)

\* The signer at a level of a chain, witness 0 for the genesis block
SignerAt(b, lev) == IF lev = 0 THEN 0 ELSE b[lev][1]

-----------------------------------------------------------------------------
(* Numbers.                                                                  *)

\* A nonempty set of numbers has a least element
LEMMA LeastNumber ==
    ASSUME NEW T \in SUBSET Nat, T # {}
    PROVE  \E n \in T : \A m \in T : n <= m
<1>1. PICK n \in T : \A m \in T : ~(<<m, n>> \in OpToRel(<, Nat))
  BY NatLessThanWellFounded, WFMin
<1>2. \A m \in T : ~(m < n)
  BY <1>1 DEF OpToRel
<1> QED BY <1>2

\* Induction from lo to hi, with a set for the induction hypothesis
LEMMA IntervalInduction ==
    ASSUME NEW lo \in Nat, NEW hi \in Nat, NEW S, lo \in S,
           \A n \in lo .. hi - 1 : n \in S => n + 1 \in S
    PROVE  \A n \in lo .. hi : n \in S
<1> DEFINE T == {n \in lo .. hi : n \notin S}
<1>1. SUFFICES ASSUME T # {} PROVE FALSE
  OBVIOUS
<1>2. T \in SUBSET Nat
  OBVIOUS
<1> HIDE DEF T
<1>3. PICK n \in T : \A m \in T : n <= m
  BY <1>1, <1>2, LeastNumber
<1>4. n \in lo .. hi /\ n \notin S
  BY DEF T
<1>5. n # lo
  BY <1>4
<1>6. n - 1 \in lo .. hi - 1
  BY <1>4, <1>5
<1>7. n - 1 \in T \/ n - 1 \in S
  BY <1>6 DEF T
<1>8. n - 1 \notin T
  BY <1>2, <1>3, <1>4
<1>9. n - 1 \in S => (n - 1) + 1 \in S
  BY <1>6
<1> QED BY <1>4, <1>7, <1>8, <1>9

\* Remainders of numbers below twice the divisor
LEMMA SmallMod ==
    ASSUME NEW d \in Nat \ {0}, NEW x \in 0 .. 2 * d - 1
    PROVE  x % d = IF x < d THEN x ELSE x - d
OBVIOUS

\* A sum of two distances that both grow
LEMMA DistanceGrows ==
    ASSUME NEW a \in Nat, NEW x \in Nat, NEW y \in Nat, NEW i \in Nat, NEW n \in Nat, a <= x, x <= y, i <= n
    PROVE  /\ x - a + (n - i) \in Nat /\ y - a + (n + 1 - i) \in Nat
           /\ y - a + (n + 1 - i) = x - a + (n - i) + 1 + (y - x)
           /\ x - a + (n - i) < y - a + (n + 1 - i)
OBVIOUS

(* ComputeSkip is below NWitnesses, and counts the witnesses between.        *)
LEMMA SkipStep ==
    ASSUME NEW p \in Witnesses, NEW n \in Witnesses
    PROVE  /\ ComputeSkip(p, n) \in 0 .. NWitnesses - 1
           /\ \/ n = p + 1 + ComputeSkip(p, n)
              \/ n = p + 1 + ComputeSkip(p, n) - NWitnesses
<1>1. NWitnesses \in Nat \ {0} /\ p \in 0 .. NWitnesses - 1 /\ n \in 0 .. NWitnesses - 1
  BY ParamsAssumption DEF Witnesses
<1>2. p + 1 \in 0 .. 2 * NWitnesses - 1
  BY <1>1
<1>3. (p + 1) % NWitnesses = IF p + 1 < NWitnesses THEN p + 1 ELSE p + 1 - NWitnesses
  <2> DEFINE x == p + 1
  <2>1. x \in 0 .. 2 * NWitnesses - 1
    BY <1>2
  <2> HIDE DEF x
  <2>2. x % NWitnesses = IF x < NWitnesses THEN x ELSE x - NWitnesses
    BY <1>1, <2>1, SmallMod
  <2> QED BY <1>1, <2>2 DEF x
<1> DEFINE y == n + NWitnesses - ((p + 1) % NWitnesses)
<1>4. y \in 0 .. 2 * NWitnesses - 1 /\ y = n + NWitnesses - (IF p + 1 < NWitnesses THEN p + 1 ELSE p + 1 - NWitnesses)
  BY <1>1, <1>3
<1>5. ComputeSkip(p, n) = y % NWitnesses
  BY DEF ComputeSkip
<1> HIDE DEF y
<1>6. y % NWitnesses = IF y < NWitnesses THEN y ELSE y - NWitnesses
  BY <1>1, <1>4, SmallMod
<1> QED BY <1>1, <1>4, <1>5, <1>6

LEMMA Thresholds == NConfSigs \in Nat \ {0}
<1>1. EffectiveMaxMal \in Nat /\ EffectiveMaxMal <= NWitnesses
  BY ParamsAssumption DEF EffectiveMaxMal
<1>2. UncappedConfSigs \in Nat \ {0}
  BY <1>1, ParamsAssumption DEF UncappedConfSigs
<1> QED BY <1>2, ParamsAssumption DEF NConfSigs, AtMost

-----------------------------------------------------------------------------
(* Chains.                                                                   *)

LEMMA Ancestors ==
    ASSUME NEW b \in Chains, NEW lev \in 0 .. Level(b)
    PROVE  /\ AncestorAt(b, lev) \in Chains /\ Level(AncestorAt(b, lev)) = lev
           /\ \A i \in 1 .. lev : AncestorAt(b, lev)[i] = b[i]
BY DEF Chains, Level, AncestorAt

LEMMA AncestorOfAncestor ==
    ASSUME NEW b \in Chains, NEW lev \in 0 .. Level(b), NEW l \in 0 .. lev
    PROVE  AncestorAt(AncestorAt(b, lev), l) = AncestorAt(b, l)
BY DEF Chains, Level, AncestorAt

LEMMA WholeChain ==
    ASSUME NEW b \in Chains
    PROVE  AncestorAt(b, Level(b)) = b /\ AncestorAt(b, 0) = Genesis
BY DEF Chains, Level, AncestorAt, Genesis

\* The signers of a chain, and its skips from them
LEMMA Signers ==
    ASSUME NEW b \in Chains, NEW lev \in 0 .. Level(b)
    PROVE  SignerAt(b, lev) \in Witnesses /\ Signer(AncestorAt(b, lev)) = SignerAt(b, lev)
<1>0. 0 \in Witnesses
  BY ParamsAssumption DEF Witnesses
<1>1. AncestorAt(b, lev) \in Chains /\ Len(AncestorAt(b, lev)) = lev /\ (lev > 0 => AncestorAt(b, lev)[lev] = b[lev])
  BY Ancestors DEF Level
<1>2. CASE lev = 0
  <2>1. AncestorAt(b, lev) = Genesis
    BY <1>2, WholeChain
  <2> QED BY <1>0, <1>2, <2>1 DEF SignerAt, Signer
<1>3. CASE lev # 0
  <2>1. AncestorAt(b, lev) # Genesis
    BY <1>1, <1>3 DEF Genesis
  <2>2. b[lev] \in Witnesses \X Variants
    BY <1>3 DEF Chains, Level
  <2> QED BY <1>1, <1>3, <2>1, <2>2 DEF SignerAt, Signer
<1> QED BY <1>2, <1>3

LEMMA SkipAt ==
    ASSUME NEW b \in Chains, NEW lev \in 1 .. Level(b)
    PROVE  /\ Skip(AncestorAt(b, lev)) = ComputeSkip(SignerAt(b, lev - 1), SignerAt(b, lev))
           /\ Skip(AncestorAt(b, lev)) \in Nat
<1>0. lev \in Nat /\ Level(b) \in Nat /\ lev \in 0 .. Level(b) /\ lev - 1 \in 0 .. Level(b) /\ lev - 1 \in 0 .. lev
  BY DEF Chains, Level
<1>1. AncestorAt(b, lev) \in Chains /\ Len(AncestorAt(b, lev)) = lev
  BY <1>0, Ancestors DEF Level
<1>2. AncestorAt(b, lev) # Genesis
  BY <1>0, <1>1 DEF Genesis
<1>3. Prior(AncestorAt(b, lev)) = AncestorAt(b, lev - 1)
  BY <1>0, <1>1, AncestorOfAncestor DEF Prior, AncestorAt
<1>4. /\ Signer(AncestorAt(b, lev)) = SignerAt(b, lev) /\ SignerAt(b, lev) \in Witnesses
      /\ Signer(AncestorAt(b, lev - 1)) = SignerAt(b, lev - 1) /\ SignerAt(b, lev - 1) \in Witnesses
  BY <1>0, Signers
<1>5. Skip(AncestorAt(b, lev)) = ComputeSkip(SignerAt(b, lev - 1), SignerAt(b, lev))
  BY <1>2, <1>3, <1>4 DEF Skip
<1>6. ComputeSkip(SignerAt(b, lev - 1), SignerAt(b, lev)) \in 0 .. NWitnesses - 1
  BY <1>4, SkipStep
<1> QED BY <1>5, <1>6, ParamsAssumption

\* The recursive sum of numbers k[lo + 1], k[lo + 2], ... is well defined
LEMMA SumExists ==
    ASSUME NEW lo \in Nat, NEW hi \in Nat, lo <= hi, NEW k \in [lo + 1 .. hi -> Nat]
    PROVE  \E f \in [lo .. hi -> Nat] :
              f = [lev \in lo .. hi |-> IF lev = lo THEN 0 ELSE f[lev - 1] + k[lev]]
<1> DEFINE S == {n \in lo .. hi : \E f \in [lo .. n -> Nat] :
                    f = [lev \in lo .. n |-> IF lev = lo THEN 0 ELSE f[lev - 1] + k[lev]]}
<1>1. lo \in S
  <2> DEFINE f == [lev \in lo .. lo |-> 0]
  <2>1. f \in [lo .. lo -> Nat] /\ f = [lev \in lo .. lo |-> IF lev = lo THEN 0 ELSE f[lev - 1] + k[lev]]
    OBVIOUS
  <2>2. lo \in lo .. hi
    OBVIOUS
  <2> HIDE DEF f
  <2> QED BY <2>1, <2>2
<1>2. ASSUME NEW n \in lo .. hi - 1, n \in S PROVE n + 1 \in S
  <2>1. PICK f \in [lo .. n -> Nat] : f = [lev \in lo .. n |-> IF lev = lo THEN 0 ELSE f[lev - 1] + k[lev]]
    BY <1>2
  <2>0. n + 1 \in lo + 1 .. hi /\ n + 1 \in lo .. hi /\ n \in lo .. n
    OBVIOUS
  <2> DEFINE g == [lev \in lo .. n + 1 |-> IF lev = n + 1 THEN f[n] + k[n + 1] ELSE f[lev]]
  <2>2. f[n] + k[n + 1] \in Nat
    BY <2>0
  <2>3. g \in [lo .. n + 1 -> Nat]
    BY <2>2
  <2>4. ASSUME NEW lev \in lo .. n + 1 PROVE g[lev] = IF lev = lo THEN 0 ELSE g[lev - 1] + k[lev]
    <3>1. CASE lev = n + 1
      <4>1. g[lev] = f[n] + k[n + 1] /\ g[lev - 1] = f[n] /\ lev # lo
        BY <2>0, <3>1
      <4> QED BY <3>1, <4>1
    <3>2. CASE lev # n + 1 /\ lev = lo
      <4>1. g[lev] = f[lev] /\ lev \in lo .. n
        BY <3>2
      <4>2. f[lev] = 0
        BY <2>1, <3>2, <4>1
      <4> QED BY <3>2, <4>1, <4>2
    <3>3. CASE lev # n + 1 /\ lev # lo
      <4>1. lev \in lo .. n /\ lev - 1 \in lo .. n /\ g[lev] = f[lev] /\ g[lev - 1] = f[lev - 1]
        BY <3>3
      <4>2. f[lev] = f[lev - 1] + k[lev]
        BY <2>1, <3>3, <4>1
      <4> QED BY <3>3, <4>1, <4>2
    <3> QED BY <3>1, <3>2, <3>3
  <2> DEFINE h == [lev \in lo .. n + 1 |-> IF lev = lo THEN 0 ELSE g[lev - 1] + k[lev]]
  <2>5. \A lev \in lo .. n + 1 : g[lev] = h[lev]
    BY <2>4
  <2>6. g = h
    <3>1. DOMAIN g = lo .. n + 1 /\ DOMAIN h = lo .. n + 1
      OBVIOUS
    <3>2. g = [lev \in lo .. n + 1 |-> g[lev]] /\ h = [lev \in lo .. n + 1 |-> h[lev]]
      OBVIOUS
    <3> HIDE DEF g, h
    <3> QED BY <2>5, <3>2
  <2> HIDE DEF g
  <2> QED BY <2>0, <2>3, <2>6
<1> HIDE DEF S
<1>3. \A n \in lo .. hi : n \in S
  BY <1>1, <1>2, IntervalInduction
<1>4. hi \in S
  BY <1>3
<1> QED BY <1>4 DEF S

\* What the recursive sum of SkipSum is
LEMMA SkipSumIs ==
    ASSUME NEW b \in Chains, NEW lo \in 0 .. Level(b)
    PROVE  \E f \in [lo .. Level(b) -> Nat] :
              /\ f[lo] = 0
              /\ \A lev \in lo + 1 .. Level(b) : f[lev] = f[lev - 1] + Skip(AncestorAt(b, lev))
              /\ SkipSum(b, lo) = f[Level(b)]
<1> DEFINE hi == Level(b)
           k == [lev \in lo + 1 .. hi |-> Skip(AncestorAt(b, lev))]
           sum[lev \in lo .. hi] == IF lev = lo THEN 0 ELSE sum[lev - 1] + Skip(AncestorAt(b, lev))
<1>0. hi \in Nat /\ lo \in Nat /\ lo <= hi
  BY DEF Chains, Level
<1>1. k \in [lo + 1 .. hi -> Nat]
  <2>1. \A lev \in lo + 1 .. hi : lev \in 1 .. hi
    BY <1>0
  <2>2. \A lev \in lo + 1 .. hi : Skip(AncestorAt(b, lev)) \in Nat
    BY <2>1, SkipAt
  <2> QED BY <2>2
<1>2. \E f \in [lo .. hi -> Nat] : f = [lev \in lo .. hi |-> IF lev = lo THEN 0 ELSE f[lev - 1] + k[lev]]
  <2> HIDE DEF k, hi
  <2> QED BY <1>0, <1>1, SumExists
<1>3. PICK f \in [lo .. hi -> Nat] : f = [lev \in lo .. hi |-> IF lev = lo THEN 0 ELSE f[lev - 1] + k[lev]]
  BY <1>2
<1>4. \A lev \in lo .. hi : f[lev] = IF lev = lo THEN 0 ELSE f[lev - 1] + Skip(AncestorAt(b, lev))
  <2> SUFFICES ASSUME NEW lev \in lo .. hi
               PROVE  f[lev] = IF lev = lo THEN 0 ELSE f[lev - 1] + Skip(AncestorAt(b, lev))
    OBVIOUS
  <2>1. f[lev] = IF lev = lo THEN 0 ELSE f[lev - 1] + k[lev]
    BY <1>3
  <2>2. lev # lo => lev \in lo + 1 .. hi
    BY <1>0
  <2> QED BY <2>1, <2>2
<1>5. f = [lev \in lo .. hi |-> IF lev = lo THEN 0 ELSE f[lev - 1] + Skip(AncestorAt(b, lev))]
  BY <1>4
<1>6. sum = CHOOSE g : g = [lev \in lo .. hi |-> IF lev = lo THEN 0 ELSE g[lev - 1] + Skip(AncestorAt(b, lev))]
  OBVIOUS
<1>7. sum = [lev \in lo .. hi |-> IF lev = lo THEN 0 ELSE sum[lev - 1] + Skip(AncestorAt(b, lev))]
  <2> HIDE DEF sum
  <2> QED BY <1>5, <1>6
<1>8. SkipSum(b, lo) = sum[hi]
  BY DEF SkipSum
<1> HIDE DEF sum
<1> DEFINE S == {n \in lo .. hi : sum[n] = f[n]}
<1>9. lo \in S
  BY <1>0, <1>4, <1>7
<1>10. ASSUME NEW n \in lo .. hi - 1, n \in S PROVE n + 1 \in S
  <2>1. n + 1 \in lo .. hi /\ n + 1 # lo /\ (n + 1) - 1 = n
    BY <1>0
  <2>2. sum[n + 1] = sum[(n + 1) - 1] + Skip(AncestorAt(b, n + 1))
    BY <1>7, <2>1
  <2>3. f[n + 1] = f[(n + 1) - 1] + Skip(AncestorAt(b, n + 1))
    BY <1>4, <2>1
  <2> QED BY <1>10, <2>1, <2>2, <2>3
<1> HIDE DEF S, hi
<1>11. \A n \in lo .. hi : n \in S
  BY <1>0, <1>9, <1>10, IntervalInduction
<1>12. sum[hi] = f[hi]
  BY <1>0, <1>11 DEF S
<1>13. \A lev \in lo + 1 .. hi : f[lev] = f[lev - 1] + Skip(AncestorAt(b, lev))
  BY <1>0, <1>4
<1>14. f[lo] = 0
  BY <1>0, <1>4
<1> QED BY <1>8, <1>12, <1>13, <1>14 DEF hi

\* The sum of the skips depends on the signers alone
LEMMA SameSigners ==
    ASSUME NEW b \in Chains, NEW c \in Chains, Level(b) = Level(c),
           \A lev \in 0 .. Level(b) : SignerAt(b, lev) = SignerAt(c, lev)
    PROVE  CheckBadSigOrder(b) <=> CheckBadSigOrder(c)
<1> DEFINE hi == Level(b)
           lo == IF Level(b) > NConfSigs THEN Level(b) - NConfSigs ELSE 0
<1>0. hi \in Nat /\ lo \in Nat /\ lo \in 0 .. hi
  BY Thresholds DEF Chains, Level
<1>1. lo \in 0 .. Level(b) /\ lo \in 0 .. Level(c)
  BY <1>0
<1> HIDE DEF lo
<1>2. PICK f \in [lo .. hi -> Nat] :
         /\ f[lo] = 0
         /\ \A lev \in lo + 1 .. hi : f[lev] = f[lev - 1] + Skip(AncestorAt(b, lev))
         /\ SkipSum(b, lo) = f[hi]
  BY <1>1, SkipSumIs
<1>3. PICK g \in [lo .. hi -> Nat] :
         /\ g[lo] = 0
         /\ \A lev \in lo + 1 .. hi : g[lev] = g[lev - 1] + Skip(AncestorAt(c, lev))
         /\ SkipSum(c, lo) = g[hi]
  BY <1>1, SkipSumIs
<1> DEFINE S == {n \in lo .. hi : f[n] = g[n]}
<1>4. lo \in S
  BY <1>0, <1>2, <1>3
<1>5. ASSUME NEW n \in lo .. hi - 1, n \in S PROVE n + 1 \in S
  <2>1. n + 1 \in lo + 1 .. hi /\ n + 1 \in lo .. hi /\ (n + 1) - 1 = n /\ n + 1 \in 1 .. hi
    BY <1>0
  <2>2. Skip(AncestorAt(b, n + 1)) = Skip(AncestorAt(c, n + 1))
    <3> DEFINE m == n + 1
    <3>1. m \in 1 .. Level(b) /\ m \in 1 .. Level(c) /\ m \in 0 .. Level(b) /\ m - 1 \in 0 .. Level(b)
      BY <1>0, <2>1
    <3> HIDE DEF m
    <3>2. Skip(AncestorAt(b, m)) = ComputeSkip(SignerAt(b, m - 1), SignerAt(b, m))
      BY <3>1, SkipAt
    <3>3. Skip(AncestorAt(c, m)) = ComputeSkip(SignerAt(c, m - 1), SignerAt(c, m))
      BY <3>1, SkipAt
    <3>4. SignerAt(b, m - 1) = SignerAt(c, m - 1) /\ SignerAt(b, m) = SignerAt(c, m)
      BY <3>1
    <3>5. Skip(AncestorAt(b, m)) = Skip(AncestorAt(c, m))
      BY <3>2, <3>3, <3>4
    <3> QED BY <3>5 DEF m
  <2>3. f[n + 1] = f[(n + 1) - 1] + Skip(AncestorAt(b, n + 1))
    BY <1>2, <2>1
  <2>4. g[n + 1] = g[(n + 1) - 1] + Skip(AncestorAt(c, n + 1))
    BY <1>3, <2>1
  <2> QED BY <1>5, <2>1, <2>2, <2>3, <2>4
<1> HIDE DEF S, hi
<1>6. \A n \in lo .. hi : n \in S
  BY <1>0, <1>4, <1>5, IntervalInduction
<1>7. SkipSum(b, lo) = SkipSum(c, lo)
  BY <1>0, <1>2, <1>3, <1>6 DEF S
<1> QED BY <1>7 DEF CheckBadSigOrder, lo

\* Two steps around the circle of witnesses that together go around less than once
LEMMA AroundOnce ==
    ASSUME NEW n \in Nat, NEW s \in 0 .. n - 1, NEW a \in 0 .. n - 1, NEW c \in 0 .. n - 1, NEW t \in Nat, NEW d \in Nat,
           t <= n - 1 => a = s + t \/ a = s + t - n,
           c = a + 1 + d \/ c = a + 1 + d - n, t + 1 + d <= n - 1
    PROVE  c = s + (t + 1 + d) \/ c = s + (t + 1 + d) - n
OBVIOUS

(* The rule of CheckBadSigOrder: when a block is not out of order, none of   *)
(* the NConfSigs - 1 blocks below it has its signer.                         *)
LEMMA InOrder ==
    ASSUME NEW b \in Chains, ~CheckBadSigOrder(b),
           NEW i \in 1 .. Level(b), i < Level(b), Level(b) - i < NConfSigs
    PROVE  b[i][1] # b[Level(b)][1]
<1> DEFINE hi == Level(b)
           lo == IF Level(b) > NConfSigs THEN Level(b) - NConfSigs ELSE 0
<1>0. hi \in Nat /\ lo \in 0 .. hi /\ i \in lo .. hi /\ lo <= i /\ NConfSigs \in Nat \ {0}
  BY Thresholds DEF Chains, Level
<1>1. lo \in 0 .. Level(b)
  BY <1>0
<1>2. ~(SkipSum(b, lo) + NConfSigs > NWitnesses)
  BY DEF CheckBadSigOrder
<1> HIDE DEF lo
<1>3. PICK f \in [lo .. hi -> Nat] :
         /\ f[lo] = 0
         /\ \A lev \in lo + 1 .. hi : f[lev] = f[lev - 1] + Skip(AncestorAt(b, lev))
         /\ SkipSum(b, lo) = f[hi]
  BY <1>1, SkipSumIs
<1>4. f[hi] \in Nat /\ f[hi] + NConfSigs <= NWitnesses /\ NWitnesses \in Nat
  BY <1>0, <1>2, <1>3, ParamsAssumption
<1> DEFINE sg(n) == SignerAt(b, n)
<1>5. \A n \in lo .. hi : sg(n) \in 0 .. NWitnesses - 1
  <2>1. \A n \in lo .. hi : n \in 0 .. Level(b)
    BY <1>0
  <2> QED BY <2>1, Signers DEF Witnesses
<1>6. ASSUME NEW n \in lo .. hi - 1
      PROVE  /\ n + 1 \in lo .. hi /\ f[n] \in Nat /\ f[n + 1] \in Nat /\ f[n] <= f[n + 1]
             /\ \/ sg(n + 1) = sg(n) + 1 + (f[n + 1] - f[n])
                \/ sg(n + 1) = sg(n) + 1 + (f[n + 1] - f[n]) - NWitnesses
  <2> DEFINE m == n + 1
  <2>1. m \in lo + 1 .. hi /\ m \in lo .. hi /\ m - 1 = n /\ m \in 1 .. Level(b) /\ n \in lo .. hi
    BY <1>0
  <2>2. f[m] = f[m - 1] + Skip(AncestorAt(b, m))
    BY <1>3, <2>1
  <2>3. Skip(AncestorAt(b, m)) = ComputeSkip(sg(m - 1), sg(m)) /\ Skip(AncestorAt(b, m)) \in Nat
    BY <2>1, SkipAt
  <2>4. sg(n) \in Witnesses /\ sg(m) \in Witnesses
    BY <1>5, <2>1 DEF Witnesses
  <2>5. \/ sg(m) = sg(n) + 1 + ComputeSkip(sg(n), sg(m))
        \/ sg(m) = sg(n) + 1 + ComputeSkip(sg(n), sg(m)) - NWitnesses
    BY <2>4, SkipStep
  <2>6. f[m] \in Nat /\ f[n] \in Nat /\ f[m] - f[n] = ComputeSkip(sg(n), sg(m)) /\ f[n] <= f[m]
    <3>1. f[m] \in Nat /\ f[n] \in Nat
      BY <2>1
    <3> QED BY <2>1, <2>2, <2>3, <3>1
  <2> QED BY <2>1, <2>5, <2>6
<1> DEFINE Above == {n \in lo .. hi : f[i] <= f[n]}
           Below == {n \in lo .. hi : f[n] <= f[hi]}
<1>7. \A n \in i .. hi : f[i] <= f[n]
  <2>1. i \in Above
    BY <1>0
  <2>2. ASSUME NEW n \in i .. hi - 1, n \in Above PROVE n + 1 \in Above
    <3>1. n \in lo .. hi - 1
      BY <1>0
    <3>2. n + 1 \in lo .. hi /\ f[n] \in Nat /\ f[n + 1] \in Nat /\ f[n] <= f[n + 1]
      BY <1>6, <3>1
    <3>3. f[i] \in Nat /\ f[i] <= f[n]
      BY <1>0, <2>2
    <3> QED BY <3>2, <3>3
  <2> HIDE DEF Above
  <2>3. i \in Nat /\ hi \in Nat
    BY <1>0
  <2>4. \A n \in i .. hi : n \in Above
    BY <2>1, <2>2, <2>3, IntervalInduction
  <2> QED BY <2>4 DEF Above
\* What was signed and skipped from level i on, up to level n
<1> DEFINE T(n) == f[n] - f[i] + (n - i)
           S == {n \in i .. hi : T(n) <= NWitnesses - 1 => sg(n) = sg(i) + T(n) \/ sg(n) = sg(i) + T(n) - NWitnesses}
<1>8. i \in S
  <2>1. f[i] \in Nat /\ i \in Nat /\ i \in i .. hi /\ sg(i) \in 0 .. NWitnesses - 1
    BY <1>0, <1>5
  <2>2. T(i) = 0
    BY <2>1
  <2> HIDE DEF T, sg
  <2>3. sg(i) = sg(i) + T(i)
    BY <1>4, <2>1, <2>2
  <2> QED BY <2>1, <2>3
<1>9. ASSUME NEW n \in i .. hi - 1, n \in S PROVE n + 1 \in S
  <2>1. n \in lo .. hi - 1 /\ n \in lo .. hi /\ n + 1 \in lo .. hi /\ n + 1 \in i .. hi /\ i \in Nat /\ n \in Nat
    BY <1>0
  <2>2. /\ f[n] \in Nat /\ f[n + 1] \in Nat /\ f[n] <= f[n + 1]
        /\ \/ sg(n + 1) = sg(n) + 1 + (f[n + 1] - f[n])
           \/ sg(n + 1) = sg(n) + 1 + (f[n + 1] - f[n]) - NWitnesses
    BY <1>6, <2>1
  <2>3. sg(n) \in 0 .. NWitnesses - 1 /\ sg(n + 1) \in 0 .. NWitnesses - 1 /\ sg(i) \in 0 .. NWitnesses - 1
    BY <1>0, <1>5, <2>1
  <2>4. f[i] \in Nat /\ f[i] <= f[n]
    BY <1>0, <1>7
  <2>5. T(n) <= NWitnesses - 1 => sg(n) = sg(i) + T(n) \/ sg(n) = sg(i) + T(n) - NWitnesses
    BY <1>9
  <2>6. T(n) \in Nat /\ T(n + 1) = T(n) + 1 + (f[n + 1] - f[n]) /\ T(n) < T(n + 1) /\ T(n + 1) \in Nat
    <3>1. i <= n
      BY <2>1
    <3> DEFINE a == f[i]
               x == f[n]
               y == f[n + 1]
    <3>2. a \in Nat /\ x \in Nat /\ y \in Nat /\ a <= x /\ x <= y
      BY <2>2, <2>4
    <3> HIDE DEF a, x, y
    <3>3. /\ x - a + (n - i) \in Nat /\ y - a + (n + 1 - i) \in Nat
          /\ y - a + (n + 1 - i) = x - a + (n - i) + 1 + (y - x)
          /\ x - a + (n - i) < y - a + (n + 1 - i)
      BY <2>1, <3>1, <3>2, DistanceGrows
    <3> QED BY <3>3 DEF a, x, y
  <2> HIDE DEF T, sg
  <2>7. T(n + 1) <= NWitnesses - 1 => sg(n + 1) = sg(i) + T(n + 1) \/ sg(n + 1) = sg(i) + T(n + 1) - NWitnesses
    <3> DEFINE d == f[n + 1] - f[n]
    <3>1. d \in Nat
      BY <2>2
    <3>2. T(n + 1) = T(n) + 1 + d /\ (sg(n + 1) = sg(n) + 1 + d \/ sg(n + 1) = sg(n) + 1 + d - NWitnesses)
      BY <2>2, <2>6
    <3> HIDE DEF d
    <3>3. ASSUME T(n) + 1 + d <= NWitnesses - 1
          PROVE  sg(n + 1) = sg(i) + (T(n) + 1 + d) \/ sg(n + 1) = sg(i) + (T(n) + 1 + d) - NWitnesses
      <4>1. T(n) \in Nat /\ NWitnesses \in Nat
        BY <1>4, <2>6
      <4>2. PICK a \in 0 .. NWitnesses - 1 : a = sg(n)
        BY <2>3
      <4>3. PICK e \in 0 .. NWitnesses - 1 : e = sg(n + 1)
        BY <2>3
      <4>4. PICK s \in 0 .. NWitnesses - 1 : s = sg(i)
        BY <2>3
      <4>5. PICK t \in Nat : t = T(n)
        BY <4>1
      <4>6. /\ t <= NWitnesses - 1 => a = s + t \/ a = s + t - NWitnesses
            /\ e = a + 1 + d \/ e = a + 1 + d - NWitnesses
            /\ t + 1 + d <= NWitnesses - 1
        BY <2>5, <3>2, <3>3, <4>2, <4>3, <4>4, <4>5
      <4>7. e = s + (t + 1 + d) \/ e = s + (t + 1 + d) - NWitnesses
        BY <3>1, <4>1, <4>6, AroundOnce
      <4> QED BY <4>3, <4>4, <4>5, <4>7
    <3> QED BY <3>2, <3>3
  <2> QED BY <2>1, <2>7
<1>10. hi \in S
  <2> HIDE DEF S, T, sg
  <2>1. i \in Nat /\ hi \in Nat /\ hi \in i .. hi
    BY <1>0
  <2>2. \A n \in i .. hi : n \in S
    BY <1>8, <1>9, <2>1, IntervalInduction
  <2> QED BY <2>1, <2>2
<1>11. T(hi) \in 1 .. NWitnesses - 1
  <2>1. f[i] \in Nat /\ f[i] <= f[hi] /\ hi - i >= 1 /\ hi - i <= NConfSigs - 1 /\ i \in Nat
    BY <1>0, <1>7
  <2> DEFINE x == f[i]
             y == f[hi]
  <2>2. x \in Nat /\ y \in Nat /\ x <= y /\ y + NConfSigs <= NWitnesses
    BY <1>4, <2>1
  <2>3. hi \in Nat /\ NConfSigs \in Nat /\ NWitnesses \in Nat
    BY <1>0, <1>4
  <2> HIDE DEF x, y, hi
  <2>4. y - x + (hi - i) \in 1 .. NWitnesses - 1
    BY <2>1, <2>2, <2>3
  <2> QED BY <2>4 DEF x, y
<1>12. sg(hi) = sg(i) + T(hi) \/ sg(hi) = sg(i) + T(hi) - NWitnesses
  BY <1>4, <1>10, <1>11
<1>13. sg(hi) # sg(i)
  <2>1. sg(hi) \in 0 .. NWitnesses - 1 /\ sg(i) \in 0 .. NWitnesses - 1
    BY <1>0, <1>5
  <2> HIDE DEF T, sg
  <2> QED BY <1>4, <1>11, <1>12, <2>1
<1>14. sg(hi) = b[hi][1] /\ sg(i) = b[i][1]
  BY <1>0 DEF SignerAt
<1> QED BY <1>13, <1>14

-----------------------------------------------------------------------------
(* Confirmation.                                                             *)

LEMMA GenesisChain == Genesis \in Chains /\ Level(Genesis) = 0
BY DEF Genesis, Chains, Level

\* A block on top of another one
LEMMA Appended ==
    ASSUME NEW p \in Chains, NEW w \in Witnesses, NEW v \in Variants, NEW b, b = Append(p, << w, v >>)
    PROVE  /\ b \in Chains /\ Level(b) = Level(p) + 1 /\ Level(p) \in Nat
           /\ \A lev \in 0 .. Level(p) : AncestorAt(b, lev) = AncestorAt(p, lev)
<1>1. p \in Seq(Witnesses \X Variants) /\ << w, v >> \in Witnesses \X Variants
  BY DEF Chains
<1>2. b \in Seq(Witnesses \X Variants) /\ Len(b) = Len(p) + 1 /\ Len(p) \in Nat
  BY <1>1
<1>3. \A i \in 1 .. Len(p) : b[i] = p[i]
  BY <1>1, <1>2
<1>4. \A lev \in 0 .. Len(p) : SubSeq(b, 1, lev) = SubSeq(p, 1, lev)
  BY <1>1, <1>2, <1>3
<1> QED BY <1>2, <1>4 DEF Chains, Level, AncestorAt

\* Its signer, and those below
LEMMA AppendedSigner ==
    ASSUME NEW p \in Chains, NEW w \in Witnesses, NEW v \in Variants, NEW b, b = Append(p, << w, v >>)
    PROVE  Signer(b) = w
<1>1. p \in Seq(Witnesses \X Variants) /\ << w, v >> \in Witnesses \X Variants
  BY DEF Chains
<1>2. Len(b) = Len(p) + 1 /\ Len(p) \in Nat
  BY <1>1
<1>3. b[Len(b)] = << w, v >>
  BY <1>1, <1>2
<1> QED BY <1>2, <1>3 DEF Signer, Genesis

LEMMA SignerOnTop ==
    ASSUME NEW p \in Chains, NEW w \in Witnesses, NEW v \in Variants, NEW b, b = Append(p, << w, v >>)
    PROVE  SignerAt(b, Level(b)) = w
<1>1. p \in Seq(Witnesses \X Variants) /\ << w, v >> \in Witnesses \X Variants
  BY DEF Chains
<1>2. Len(b) = Len(p) + 1 /\ Len(p) \in Nat
  BY <1>1
<1>3. b[Len(b)] = << w, v >>
  BY <1>1, <1>2
<1> QED BY <1>2, <1>3 DEF SignerAt, Level

LEMMA SignersBelow ==
    ASSUME NEW p \in Chains, NEW e \in Witnesses \X Variants, NEW b, b = Append(p, e), NEW lev \in 0 .. Level(p)
    PROVE  SignerAt(b, lev) = SignerAt(p, lev)
BY DEF Chains, SignerAt, Level

\* The scan of DoConfirmOne stops, at the genesis block at the latest
LEMMA ScanStops ==
    ASSUME NEW b \in Chains, NEW a \in Chains
    PROVE  /\ ScanStop(b, a) \in 0 .. Level(b) /\ InChain(AncestorAt(b, ScanStop(b, a)), a)
           /\ \A l \in ScanStop(b, a) + 1 .. Level(b) : ~InChain(AncestorAt(b, l), a)
<1> DEFINE hi == Level(b)
           P(lev) == InChain(AncestorAt(b, lev), a)
           T == {n \in 0 .. hi : P(hi - n)}
<1>0. hi \in Nat
  BY DEF Chains, Level
<1>1. hi \in T
  <2>1. AncestorAt(b, 0) = Genesis /\ AncestorAt(a, 0) = Genesis /\ Level(a) \in Nat
    BY WholeChain DEF Chains, Level
  <2>2. P(0)
    BY <2>1, GenesisChain DEF InChain
  <2> HIDE DEF P
  <2>3. hi - hi = 0 /\ hi \in 0 .. hi
    BY <1>0
  <2> QED BY <2>2, <2>3
<1>2. T \in SUBSET Nat
  BY <1>0
<1>3. PICK n \in T : \A m \in T : n <= m
  <2> HIDE DEF T
  <2> QED BY <1>1, <1>2, LeastNumber
<1> HIDE DEF P
<1>4. n \in 0 .. hi /\ P(hi - n) /\ hi - n \in 0 .. hi
  BY <1>0, <1>3
<1>5. \A l \in (hi - n) + 1 .. hi : ~P(l)
  <2> SUFFICES ASSUME NEW l \in (hi - n) + 1 .. hi, P(l) PROVE FALSE
    OBVIOUS
  <2>1. l \in Nat /\ n \in Nat /\ hi - l \in 0 .. hi /\ hi - (hi - l) = l /\ hi - l < n
    BY <1>0, <1>4
  <2>2. hi - l \in T
    BY <2>1
  <2>3. n <= hi - l
    BY <1>3, <2>2
  <2> QED BY <1>0, <2>1, <2>3
<1>6. \E lev \in 0 .. Level(b) : /\ InChain(AncestorAt(b, lev), a)
                                 /\ \A l \in lev + 1 .. Level(b) : ~InChain(AncestorAt(b, l), a)
  BY <1>4, <1>5 DEF P
<1> QED BY <1>6 DEF ScanStop

(* DoConfirmations starts where the chain of the new block leaves that of    *)
(* the last indelible block, and confirms one block after the other.         *)
LEMMA Confirmations ==
    ASSUME NEW b \in Chains, NEW a \in Chains
    PROVE  \E stop \in 0 .. Level(b) : \E top \in stop .. Level(b) :
              /\ InChain(AncestorAt(b, stop), a)
              /\ \A l \in stop + 1 .. Level(b) : ~InChain(AncestorAt(b, l), a)
              /\ \A j \in stop + 1 .. top : Confirms(b, j)
              /\ top < Level(b) => ~Confirms(b, top + 1)
              /\ DoConfirmations(b, a).last = IF stop = Level(a) THEN AncestorAt(b, top) ELSE a
              /\ DoConfirmations(b, a).fatal = (stop # Level(a) /\ top > stop)
<1> DEFINE stop == ScanStop(b, a)
           top  == CHOOSE k \in stop .. Level(b) :
                     /\ \A j \in stop + 1 .. k : Confirms(b, j)
                     /\ k < Level(b) => ~Confirms(b, k + 1)
           hi == Level(b)
           K == {k \in stop .. hi : k = hi \/ ~Confirms(b, k + 1)}
<1>0. /\ hi \in Nat /\ stop \in 0 .. hi /\ InChain(AncestorAt(b, stop), a)
      /\ \A l \in stop + 1 .. hi : ~InChain(AncestorAt(b, l), a)
  BY ScanStops DEF Chains, Level
<1>a. DoConfirmations(b, a) = IF stop = Level(a) THEN [last |-> AncestorAt(b, top), fatal |-> FALSE]
                                               ELSE [last |-> a, fatal |-> top > stop]
  BY DEF DoConfirmations
<1> HIDE DEF stop
<1>1. hi \in K /\ K \in SUBSET Nat
  BY <1>0
<1>2. PICK k \in K : \A m \in K : k <= m
  <2> HIDE DEF K
  <2> QED BY <1>1, LeastNumber
<1>3. k \in stop .. hi /\ (k < hi => ~Confirms(b, k + 1))
  BY <1>0, <1>2
<1>4. \A j \in stop + 1 .. k : Confirms(b, j)
  <2> SUFFICES ASSUME NEW j \in stop + 1 .. k, ~Confirms(b, j) PROVE FALSE
    OBVIOUS
  <2>1. j - 1 \in stop .. hi /\ (j - 1) + 1 = j /\ j - 1 < k /\ j \in Nat /\ k \in Nat
    BY <1>0, <1>3
  <2>2. j - 1 \in K
    BY <2>1
  <2>3. k <= j - 1
    BY <1>2, <2>2
  <2> QED BY <2>1, <2>3
<1>5. \E m \in stop .. Level(b) : (\A j \in stop + 1 .. m : Confirms(b, j)) /\ (m < Level(b) => ~Confirms(b, m + 1))
  BY <1>3, <1>4
<1>6. /\ top \in stop .. Level(b) /\ \A j \in stop + 1 .. top : Confirms(b, j)
      /\ top < Level(b) => ~Confirms(b, top + 1)
  BY <1>5
<1> HIDE DEF top
<1>7. CASE stop = Level(a)
  <2>1. DoConfirmations(b, a).last = AncestorAt(b, top) /\ DoConfirmations(b, a).fatal = FALSE
    BY <1>a, <1>7
  <2> QED BY <1>0, <1>6, <1>7, <2>1
<1>8. CASE stop # Level(a)
  <2>1. DoConfirmations(b, a).last = a /\ DoConfirmations(b, a).fatal = (top > stop)
    BY <1>a, <1>8
  <2> QED BY <1>0, <1>6, <1>8, <2>1
<1> QED BY <1>7, <1>8

\* DoConfirmations returns a block of the new block's chain or the last indelible block as it was
LEMMA Confirmed ==
    ASSUME NEW b \in Chains, NEW a \in Chains
    PROVE  /\ \/ DoConfirmations(b, a).last = a
              \/ \E k \in 0 .. Level(b) : DoConfirmations(b, a).last = AncestorAt(b, k)
           /\ DoConfirmations(b, a).fatal \in BOOLEAN
<1>1. PICK stop \in 0 .. Level(b) : \E top \in stop .. Level(b) :
         /\ DoConfirmations(b, a).last = IF stop = Level(a) THEN AncestorAt(b, top) ELSE a
         /\ DoConfirmations(b, a).fatal = (stop # Level(a) /\ top > stop)
  BY Confirmations
<1>t. PICK top \in stop .. Level(b) :
         /\ DoConfirmations(b, a).last = IF stop = Level(a) THEN AncestorAt(b, top) ELSE a
         /\ DoConfirmations(b, a).fatal = (stop # Level(a) /\ top > stop)
  BY <1>1
<1>2. top \in 0 .. Level(b)
  BY DEF Chains, Level
<1>3. (stop # Level(a) /\ top > stop) \in BOOLEAN
  OBVIOUS
<1> QED BY <1>t, <1>2, <1>3

-----------------------------------------------------------------------------
(* The witnesses.                                                            *)

\* With a block all blocks below it were signed
PrefixClosed == \A b \in created : \A lev \in 0 .. Level(b) : AncestorAt(b, lev) \in created \cup {Genesis}

\* Every block that was signed has its signers in order, ...
AllInOrder == \A b \in created : ~CheckBadSigOrder(b)

\* ... as will the one on top of the block a witness builds on
BuildingInOrder ==
    \A w \in Honest : \A p \in building[w] : Level(p) < MaxLevel /\ ~CheckBadSigOrder(Extended(w, p))

ChainInv == TypeOK /\ PrefixClosed /\ AllInOrder /\ BuildingInOrder

LEMMA CreatedChains ==
    ASSUME TypeOK
    PROVE  /\ \A b \in created \cup {Genesis} : b \in Chains /\ Level(b) \in 0 .. MaxLevel
           /\ Honest \subseteq Witnesses /\ malicious \subseteq Witnesses
BY GenesisChain, BoundsAssumption DEF TypeOK, Chains, Honest

\* The nodes start with the genesis block
LEMMA ChainInit == Init => ChainInv
<1> SUFFICES ASSUME Init PROVE ChainInv
  OBVIOUS
<1> USE DEF Init
<1>1. TypeOK
  <2>1. malicious \subseteq Witnesses /\ created = {} /\ witnessing \subseteq Honest
    OBVIOUS
  <2>2. /\ valid \in [Honest -> SUBSET (created \cup {Genesis})] /\ last \in [Honest -> created \cup {Genesis}]
        /\ building \in [Honest -> SUBSET (created \cup {Genesis})]
    OBVIOUS
  <2>3. highest \in [Honest -> 0 .. MaxLevel] /\ restarts \in 0 .. MaxRestarts
    BY BoundsAssumption
  <2>4. fatal \in [Honest -> BOOLEAN]
    OBVIOUS
  <2> QED BY <2>1, <2>2, <2>3, <2>4 DEF TypeOK
<1>2. PrefixClosed /\ AllInOrder /\ BuildingInOrder
  BY DEF PrefixClosed, AllInOrder, BuildingInOrder
<1> QED BY <1>1, <1>2 DEF ChainInv

\* ValidObjsBlockInsert of a block that was signed
LEMMA InsertTypes ==
    ASSUME ChainInv, NEW w \in Honest, NEW D, created \subseteq D, NEW b \in Chains, b \in D,
           \A lev \in 0 .. Level(b) : AncestorAt(b, lev) \in D \cup {Genesis},
           ValidObjsBlockInsert(w, b)
    PROVE  /\ valid' \in [Honest -> SUBSET (D \cup {Genesis})] /\ last' \in [Honest -> D \cup {Genesis}]
           /\ fatal' \in [Honest -> BOOLEAN]
<1> DEFINE r == DoConfirmations(b, last[w])
<1>1. /\ valid' = [valid EXCEPT ![w] = @ \cup {b}] /\ last' = [last EXCEPT ![w] = r.last]
      /\ fatal' = [fatal EXCEPT ![w] = r.fatal]
  BY DEF ValidObjsBlockInsert
<1>2. last[w] \in created \cup {Genesis} /\ last[w] \in Chains
  BY CreatedChains DEF ChainInv, TypeOK
<1>3. r.last \in D \cup {Genesis} /\ r.fatal \in BOOLEAN
  BY <1>2, Confirmed
<1> HIDE DEF r
<1>4. /\ valid \in [Honest -> SUBSET (D \cup {Genesis})] /\ last \in [Honest -> D \cup {Genesis}]
      /\ fatal \in [Honest -> BOOLEAN]
  BY DEF ChainInv, TypeOK
<1>5. valid' \in [Honest -> SUBSET (D \cup {Genesis})]
  BY <1>1, <1>4
<1>6. last' \in [Honest -> D \cup {Genesis}]
  BY <1>1, <1>3, <1>4
<1>7. fatal' \in [Honest -> BOOLEAN]
  BY <1>1, <1>3, <1>4
<1> QED BY <1>5, <1>6, <1>7

\* A new block on top of one that was signed, with its signers in order
LEMMA NewBlock ==
    ASSUME ChainInv, NEW p \in created \cup {Genesis}, Level(p) < MaxLevel, NEW w \in Witnesses, NEW v \in Variants,
           NEW b, b = Append(p, << w, v >>), ~CheckBadSigOrder(b), created' = created \cup {b}
    PROVE  /\ b \in Chains /\ Level(b) = Level(p) + 1 /\ Level(b) \in 1 .. MaxLevel
           /\ \A lev \in 0 .. Level(b) : AncestorAt(b, lev) \in created' \cup {Genesis}
           /\ \A c \in created' : c \in Seq(Witnesses \X Variants) /\ Level(c) \in 1 .. MaxLevel
           /\ PrefixClosed' /\ AllInOrder'
<1>1. p \in Chains /\ Level(p) \in 0 .. MaxLevel
  BY CreatedChains DEF ChainInv
<1>2. /\ b \in Chains /\ Level(b) = Level(p) + 1 /\ Level(p) \in Nat
      /\ \A lev \in 0 .. Level(p) : AncestorAt(b, lev) = AncestorAt(p, lev)
  BY <1>1, Appended
<1>3. Level(b) \in 1 .. MaxLevel
  BY <1>1, <1>2, BoundsAssumption
<1>4. \A lev \in 0 .. Level(b) : AncestorAt(b, lev) \in created' \cup {Genesis}
  <2> SUFFICES ASSUME NEW lev \in 0 .. Level(b) PROVE AncestorAt(b, lev) \in created' \cup {Genesis}
    OBVIOUS
  <2>1. CASE lev = Level(b)
    BY <1>2, <2>1, WholeChain
  <2>2. CASE lev # Level(b)
    <3>1. lev \in 0 .. Level(p) /\ AncestorAt(b, lev) = AncestorAt(p, lev)
      BY <1>2, <2>2
    <3>2. CASE p = Genesis
      <4>1. lev = 0
        BY <3>1, <3>2, GenesisChain
      <4> QED BY <3>1, <3>2, <4>1, GenesisChain, WholeChain
    <3>3. CASE p \in created
      BY <3>1, <3>3 DEF ChainInv, PrefixClosed
    <3> QED BY <3>2, <3>3
  <2> QED BY <2>1, <2>2
<1>5. \A c \in created' : c \in Seq(Witnesses \X Variants) /\ Level(c) \in 1 .. MaxLevel
  BY <1>2, <1>3 DEF ChainInv, TypeOK, Chains
<1>6. PrefixClosed' /\ AllInOrder'
  BY <1>4 DEF ChainInv, PrefixClosed, AllInOrder
<1> QED BY <1>2, <1>3, <1>4, <1>5, <1>6

\* The variant of a block does not matter for the order of its signers
LEMMA AnyVariant ==
    ASSUME NEW p \in Chains, NEW w \in Witnesses, NEW v \in Variants
    PROVE  CheckBadSigOrder(Append(p, << w, v >>)) <=> CheckBadSigOrder(Extended(w, p))
<1> DEFINE u == CHOOSE x \in Variants : TRUE
           c == Extended(w, p)
<1>1. u \in Variants /\ c = Append(p, << w, u >>)
  BY BoundsAssumption DEF Extended
<1>b. PICK b : b = Append(p, << w, v >>)
  OBVIOUS
<1> HIDE DEF u, c
<1>2. b \in Chains /\ Level(b) = Level(p) + 1 /\ Level(p) \in Nat
  BY <1>b, Appended
<1>3. c \in Chains /\ Level(c) = Level(p) + 1
  BY <1>1, Appended
<1>s. SignerAt(b, Level(b)) = w
  BY <1>b, SignerOnTop
<1>t. SignerAt(c, Level(c)) = w
  BY <1>1, SignerOnTop
<1>e. << w, v >> \in Witnesses \X Variants /\ << w, u >> \in Witnesses \X Variants
  BY <1>1
<1>x. \A lev \in 0 .. Level(p) : SignerAt(b, lev) = SignerAt(p, lev)
  BY <1>b, <1>e, SignersBelow
<1>y. \A lev \in 0 .. Level(p) : SignerAt(c, lev) = SignerAt(p, lev)
  BY <1>1, <1>e, SignersBelow
<1>4. \A lev \in 0 .. Level(b) : SignerAt(b, lev) = SignerAt(c, lev)
  BY <1>2, <1>3, <1>s, <1>t, <1>x, <1>y
<1>5. CheckBadSigOrder(b) <=> CheckBadSigOrder(c)
  BY <1>2, <1>3, <1>4, SameSigners
<1> QED BY <1>b, <1>5 DEF c

\* What FinishNewBlock signs
LEMMA Finished ==
    ASSUME ChainInv, NEW w \in Honest, FinishNewBlock(w)
    PROVE  \E p \in building[w], v \in Variants :
              LET b == Append(p, << w, v >>)
              IN  /\ p \in created \cup {Genesis} /\ p \in Chains /\ Level(p) < MaxLevel /\ ~CheckBadSigOrder(b)
                  /\ created' = created \cup {b} /\ highest' = [highest EXCEPT ![w] = Level(b)]
                  /\ ValidObjsBlockInsert(w, b)
<1>1. PICK p \in building[w], v \in Variants :
        LET b == Append(p, << w, v >>)
        IN  /\ created' = created \cup {b} /\ highest' = [highest EXCEPT ![w] = Level(b)]
            /\ ValidObjsBlockInsert(w, b)
  BY DEF FinishNewBlock
<1>2. p \in created \cup {Genesis} /\ w \in Witnesses
  BY DEF ChainInv, TypeOK, Honest
<1>3. p \in Chains
  BY <1>2, CreatedChains DEF ChainInv
<1>4. Level(p) < MaxLevel /\ ~CheckBadSigOrder(Extended(w, p))
  BY DEF ChainInv, BuildingInOrder
<1>5. ~CheckBadSigOrder(Append(p, << w, v >>))
  BY <1>2, <1>3, <1>4, AnyVariant
<1> QED BY <1>1, <1>2, <1>3, <1>4, <1>5

LEMMA FinishKeeps == ASSUME ChainInv, NEW w \in Honest, FinishNewBlock(w) PROVE ChainInv'
<1>1. PICK p \in building[w], v \in Variants :
        LET b == Append(p, << w, v >>)
        IN  /\ p \in created \cup {Genesis} /\ p \in Chains /\ Level(p) < MaxLevel /\ ~CheckBadSigOrder(b)
            /\ created' = created \cup {b} /\ highest' = [highest EXCEPT ![w] = Level(b)]
            /\ ValidObjsBlockInsert(w, b)
  BY Finished
<1> DEFINE b == Append(p, << w, v >>)
<1>2. created' = created \cup {b} /\ highest' = [highest EXCEPT ![w] = Level(b)] /\ ValidObjsBlockInsert(w, b)
  BY <1>1
<1>3. UNCHANGED << malicious, witnessing, restarts >> /\ building' = [building EXCEPT ![w] = {}] /\ Honest' = Honest
  BY DEF FinishNewBlock, Honest
<1>4. /\ b \in Chains /\ Level(b) \in 1 .. MaxLevel
      /\ \A lev \in 0 .. Level(b) : AncestorAt(b, lev) \in created' \cup {Genesis}
      /\ \A c \in created' : c \in Seq(Witnesses \X Variants) /\ Level(c) \in 1 .. MaxLevel
      /\ PrefixClosed' /\ AllInOrder'
  BY <1>1, NewBlock DEF Honest
<1> HIDE DEF b
<1>5. /\ valid' \in [Honest -> SUBSET (created' \cup {Genesis})] /\ last' \in [Honest -> created' \cup {Genesis}]
      /\ fatal' \in [Honest -> BOOLEAN]
  BY <1>2, <1>4, InsertTypes
<1>6. highest' \in [Honest -> 0 .. MaxLevel]
  <2>1. Level(b) \in 0 .. MaxLevel
    BY <1>4
  <2> QED BY <1>2, <2>1 DEF ChainInv, TypeOK
<1>7. building' \in [Honest -> SUBSET (created' \cup {Genesis})]
  BY <1>2, <1>3 DEF ChainInv, TypeOK
<1>8. TypeOK'
  BY <1>3, <1>4, <1>5, <1>6, <1>7 DEF ChainInv, TypeOK
<1>9. BuildingInOrder'
  <2>1. \A u \in Honest : building'[u] \subseteq building[u]
    BY <1>3 DEF ChainInv, TypeOK
  <2> QED BY <1>3, <2>1 DEF ChainInv, BuildingInOrder, Extended
<1> QED BY <1>4, <1>8, <1>9 DEF ChainInv

LEMMA ReceiveKeeps == ASSUME ChainInv, NEW w \in Honest, NEW b \in created, ReceiveBlock(w, b) PROVE ChainInv'
<1>1. UNCHANGED << malicious, created, building, highest, witnessing, restarts >> /\ ValidObjsBlockInsert(w, b)
  BY DEF ReceiveBlock
<1>2. b \in Chains /\ \A lev \in 0 .. Level(b) : AncestorAt(b, lev) \in created \cup {Genesis}
  BY CreatedChains DEF ChainInv, PrefixClosed
<1>3. /\ valid' \in [Honest -> SUBSET (created \cup {Genesis})] /\ last' \in [Honest -> created \cup {Genesis}]
      /\ fatal' \in [Honest -> BOOLEAN]
  BY <1>1, <1>2, InsertTypes
<1> QED BY <1>1, <1>3 DEF ChainInv, TypeOK, PrefixClosed, AllInOrder, BuildingInOrder, Honest

LEMMA ChooseKeeps == ASSUME ChainInv, NEW w \in Honest, ChooseBuildingBlock(w) PROVE ChainInv'
<1>1. UNCHANGED << malicious, created, valid, last, highest, witnessing, fatal, restarts >> /\ Honest' = Honest
  BY DEF ChooseBuildingBlock, Honest
<1>2. PICK b \in FindBestBuildingBlock(w) : Level(b) < MaxLevel /\ building' = [building EXCEPT ![w] = {b}]
  BY DEF ChooseBuildingBlock
<1>3. b \in valid[w] /\ ~CheckBadSigOrder(Extended(w, b))
  BY <1>2 DEF FindBestBuildingBlock, Buildable
<1>4. building' \in [Honest -> SUBSET (created \cup {Genesis})]
  BY <1>2, <1>3 DEF ChainInv, TypeOK
<1>5. TypeOK'
  BY <1>1, <1>4 DEF ChainInv, TypeOK
<1>6. BuildingInOrder'
  <2> SUFFICES ASSUME NEW u \in Honest, NEW p \in building'[u] PROVE Level(p) < MaxLevel /\ ~CheckBadSigOrder(Extended(u, p))
    BY <1>1 DEF BuildingInOrder
  <2>1. CASE u = w
    BY <1>2, <1>3, <2>1 DEF ChainInv, TypeOK
  <2>2. CASE u # w
    BY <1>2, <2>2 DEF ChainInv, TypeOK, BuildingInOrder
  <2> QED BY <2>1, <2>2
<1> QED BY <1>1, <1>5, <1>6 DEF ChainInv, PrefixClosed, AllInOrder

LEMMA RestartKeeps == ASSUME ChainInv, NEW w \in Honest, Restart(w) \/ EnableWitness(w) PROVE ChainInv'
<1>0. UNCHANGED << malicious, created, last >> /\ Honest' = Honest
  BY DEF Restart, EnableWitness, Honest
<1>1. CASE Restart(w)
  <2>1. restarts' \in 0 .. MaxRestarts /\ UNCHANGED highest
    BY <1>1, BoundsAssumption DEF Restart, ChainInv, TypeOK
  <2>2. valid' \in [Honest -> SUBSET (created \cup {Genesis})] /\ building' \in [Honest -> SUBSET (created \cup {Genesis})]
    BY <1>1 DEF Restart, ChainInv, TypeOK
  <2>3. fatal' \in [Honest -> BOOLEAN] /\ witnessing' \subseteq Honest
    BY <1>1 DEF Restart, ChainInv, TypeOK
  <2>4. TypeOK'
    BY <1>0, <2>1, <2>2, <2>3 DEF ChainInv, TypeOK
  <2>5. \A u \in Honest : building'[u] \subseteq building[u]
    BY <1>1 DEF Restart, ChainInv, TypeOK
  <2>6. BuildingInOrder'
    BY <1>0, <2>5 DEF ChainInv, BuildingInOrder
  <2> QED BY <1>0, <2>4, <2>6 DEF ChainInv, PrefixClosed, AllInOrder
<1>2. CASE EnableWitness(w)
  <2>1. UNCHANGED << valid, building, fatal, restarts >> /\ witnessing' \subseteq Honest
    BY <1>2 DEF EnableWitness, ChainInv, TypeOK
  <2>2. Level(last[w]) \in 0 .. MaxLevel
    BY CreatedChains DEF ChainInv, TypeOK
  <2>3. highest' \in [Honest -> 0 .. MaxLevel]
    BY <1>2, <2>2 DEF EnableWitness, ChainInv, TypeOK
  <2>4. TypeOK'
    BY <1>0, <2>1, <2>3 DEF ChainInv, TypeOK
  <2> QED BY <1>0, <2>1, <2>4 DEF ChainInv, PrefixClosed, AllInOrder, BuildingInOrder
<1> QED BY <1>1, <1>2

LEMMA MaliciousKeeps == ASSUME ChainInv, NEW w \in malicious, MaliciousBlock(w) PROVE ChainInv'
<1>1. PICK p \in created \cup {Genesis}, v \in Variants :
        LET b == Append(p, << w, v >>)
        IN  Level(b) <= MaxLevel /\ ~CheckBadSigOrder(b) /\ created' = created \cup {b}
  BY DEF MaliciousBlock
<1>2. UNCHANGED << malicious, valid, last, building, highest, witnessing, fatal, restarts >> /\ Honest' = Honest
  BY DEF MaliciousBlock, Honest
<1> DEFINE b == Append(p, << w, v >>)
<1>3. w \in Witnesses /\ p \in Chains
  BY CreatedChains DEF ChainInv
<1>4. Level(p) < MaxLevel
  <2>1. Level(b) = Level(p) + 1 /\ Level(p) \in Nat
    BY <1>3, Appended
  <2> QED BY <1>1, <2>1, BoundsAssumption
<1>5. /\ \A c \in created' : c \in Seq(Witnesses \X Variants) /\ Level(c) \in 1 .. MaxLevel
      /\ PrefixClosed' /\ AllInOrder'
  BY <1>1, <1>3, <1>4, NewBlock
<1>6. created \subseteq created'
  BY <1>1
<1>7. TypeOK'
  BY <1>2, <1>5, <1>6 DEF ChainInv, TypeOK
<1> QED BY <1>2, <1>5, <1>7 DEF ChainInv, BuildingInOrder

LEMMA ChainInvariance == Spec => []ChainInv
<1>1. ChainInv /\ [Next]_vars => ChainInv'
  <2> SUFFICES ASSUME ChainInv, [Next]_vars PROVE ChainInv'
    OBVIOUS
  <2>1. CASE UNCHANGED vars
    BY <2>1 DEF vars, ChainInv, TypeOK, PrefixClosed, AllInOrder, BuildingInOrder, Honest
  <2> QED BY <2>1, ReceiveKeeps, ChooseKeeps, FinishKeeps, RestartKeeps, MaliciousKeeps DEF Next
<1> QED BY <1>1, ChainInit, PTL DEF Spec

-----------------------------------------------------------------------------
(* Whatever the witnesses do, what the nodes keep has the right types: in    *)
(* particular the last indelible block is a block that was signed, though    *)
(* DoConfirmations picks it from the middle of a chain.                      *)
THEOREM TypesHold == Spec => []TypeOK
BY ChainInvariance, PTL DEF ChainInv

(* On every chain that a node finds valid, any NConfSigs consecutive         *)
(* signatures are of different witnesses, malicious ones included: the skips *)
(* CheckBadSigOrder adds up leave no room for a signer to come round again.  *)
THEOREM DistinctSignersHold == Spec => []DistinctSigners
<1>1. ChainInv => DistinctSigners
  <2> SUFFICES ASSUME ChainInv, NEW w \in Honest, NEW b \in valid[w], NEW i \in 1 .. Level(b), NEW j \in 1 .. Level(b),
                      i < j, j - i < NConfSigs
               PROVE  b[i][1] # b[j][1]
    BY DEF DistinctSigners
  <2>1. b \in created \cup {Genesis}
    BY DEF ChainInv, TypeOK
  <2>2. b \in Chains /\ Level(b) \in Nat
    BY <2>1, CreatedChains, BoundsAssumption DEF ChainInv
  <2>3. b \in created
    BY <2>1, <2>2, GenesisChain
  <2> DEFINE a == AncestorAt(b, j)
  <2>4. a \in Chains /\ Level(a) = j /\ a[i] = b[i] /\ a[j] = b[j]
    BY <2>2, Ancestors
  <2>5. a \in created \cup {Genesis} /\ a # Genesis
    BY <2>2, <2>3, <2>4, GenesisChain DEF ChainInv, PrefixClosed
  <2>6. ~CheckBadSigOrder(a)
    BY <2>5 DEF ChainInv, AllInOrder
  <2> HIDE DEF a
  <2>7. i \in 1 .. Level(a) /\ i < Level(a) /\ Level(a) - i < NConfSigs
    BY <2>2, <2>4
  <2>8. a[i][1] # a[Level(a)][1]
    BY <2>4, <2>6, <2>7, InOrder
  <2> QED BY <2>4, <2>8
<1> QED BY <1>1, ChainInvariance, PTL

-----------------------------------------------------------------------------
(* The level an honest witness has noted is not below any block it signed,   *)
(* and not above a block it has chosen to build on, which it only keeps      *)
(* while its thread runs.                                                    *)
SignedBelow ==
    \A w \in Honest :
        /\ \A b \in created : Signer(b) = w => Level(b) <= highest[w]
        /\ \A p \in building[w] : highest[w] <= Level(p)
        /\ building[w] # {} => w \in witnessing

LevelInv == ChainInv /\ SignedBelow /\ OncePerLevel

\* A block signed at a level above the one noted
LEMMA SignsAbove == ASSUME LevelInv, NEW w \in Honest, FinishNewBlock(w) PROVE SignedBelow' /\ OncePerLevel'
<1>1. PICK p \in building[w], v \in Variants :
        LET b == Append(p, << w, v >>)
        IN  /\ p \in created \cup {Genesis} /\ p \in Chains
            /\ created' = created \cup {b} /\ highest' = [highest EXCEPT ![w] = Level(b)]
  BY Finished DEF LevelInv
<1>b. PICK b : b = Append(p, << w, v >>)
  OBVIOUS
<1>2. created' = created \cup {b} /\ highest' = [highest EXCEPT ![w] = Level(b)]
  BY <1>1, <1>b
<1>3. building' = [building EXCEPT ![w] = {}] /\ witnessing' = witnessing /\ Honest' = Honest
  BY DEF FinishNewBlock, Honest
<1>h. w \in Witnesses
  BY DEF Honest
<1>4. Level(b) = Level(p) + 1 /\ Level(p) \in Nat /\ Signer(b) = w
  BY <1>1, <1>b, <1>h, Appended, AppendedSigner
<1>5. highest \in [Honest -> 0 .. MaxLevel] /\ building \in [Honest -> SUBSET (created \cup {Genesis})]
  BY DEF LevelInv, ChainInv, TypeOK
<1>6. highest[w] \in Nat /\ highest[w] < Level(b)
  BY <1>4, <1>5, BoundsAssumption DEF LevelInv, SignedBelow
<1>7. \A c \in created : Level(c) \in Nat /\ (Signer(c) = w => Level(c) < Level(b))
  <2> SUFFICES ASSUME NEW c \in created PROVE Level(c) \in Nat /\ (Signer(c) = w => Level(c) < Level(b))
    OBVIOUS
  <2>1. Level(c) \in Nat
    BY BoundsAssumption DEF LevelInv, ChainInv, TypeOK
  <2>2. Signer(c) = w => Level(c) <= highest[w]
    BY DEF LevelInv, SignedBelow
  <2>3. Level(b) \in Nat
    BY <1>4
  <2> QED BY <1>6, <2>1, <2>2, <2>3
<1>8. SignedBelow'
  <2> SUFFICES ASSUME NEW u \in Honest
               PROVE  /\ \A c \in created' : Signer(c) = u => Level(c) <= highest'[u]
                      /\ \A q \in building'[u] : highest'[u] <= Level(q)
                      /\ building'[u] # {} => u \in witnessing
    BY <1>3 DEF SignedBelow
  <2>1. CASE u = w
    <3>1. highest'[u] = Level(b) /\ building'[u] = {} /\ Level(b) \in Nat
      BY <1>2, <1>3, <1>4, <1>5, <2>1
    <3>2. \A c \in created : Signer(c) = u => Level(c) <= Level(b)
      BY <1>7, <2>1, <3>1
    <3> QED BY <1>2, <3>1, <3>2
  <2>2. CASE u # w
    <3>1. highest'[u] = highest[u] /\ building'[u] = building[u]
      BY <1>2, <1>3, <1>5, <2>2
    <3>2. Signer(b) # u
      BY <1>4, <2>2
    <3> QED BY <1>2, <3>1, <3>2 DEF LevelInv, SignedBelow
  <2> QED BY <2>1, <2>2
<1>9. OncePerLevel'
  <2> SUFFICES ASSUME NEW c \in created', NEW d \in created', Signer(c) \in Honest, Signer(c) = Signer(d), Level(c) = Level(d)
               PROVE  c = d
    BY <1>3 DEF OncePerLevel
  <2>1. CASE c \in created /\ d \in created
    BY <2>1 DEF LevelInv, OncePerLevel
  <2>0. Level(b) \in Nat
    BY <1>4
  <2>2. CASE c = b /\ d \in created
    <3>1. Signer(d) = w
      BY <1>4, <2>2
    <3>2. Level(d) \in Nat /\ Level(d) < Level(b)
      BY <1>7, <2>2, <3>1
    <3> QED BY <2>0, <2>2, <3>2
  <2>3. CASE d = b /\ c \in created
    <3>1. Signer(c) = w
      BY <1>4, <2>3
    <3>2. Level(c) \in Nat /\ Level(c) < Level(b)
      BY <1>7, <2>3, <3>1
    <3> QED BY <2>0, <2>3, <3>2
  <2> QED BY <1>2, <2>1, <2>2, <2>3
<1> QED BY <1>8, <1>9

\* A malicious witness signs for nobody else
LEMMA SignsForItself == ASSUME LevelInv, NEW w \in malicious, MaliciousBlock(w) PROVE SignedBelow' /\ OncePerLevel'
<1>1. PICK p \in created \cup {Genesis}, v \in Variants : created' = created \cup {Append(p, << w, v >>)}
  BY DEF MaliciousBlock
<1>2. UNCHANGED << building, highest, witnessing >> /\ Honest' = Honest
  BY DEF MaliciousBlock, Honest
<1>b. PICK b : b = Append(p, << w, v >>)
  OBVIOUS
<1>3. w \in Witnesses /\ p \in Chains
  BY CreatedChains DEF LevelInv, ChainInv
<1>4. created' = created \cup {b}
  BY <1>1, <1>b
<1>5. Signer(b) = w
  BY <1>b, <1>3, AppendedSigner
<1>6. Signer(b) \notin Honest
  BY <1>5 DEF Honest
<1>7. SignedBelow'
  BY <1>2, <1>4, <1>6 DEF LevelInv, SignedBelow
<1>8. OncePerLevel'
  <2> SUFFICES ASSUME NEW c \in created', NEW d \in created', Signer(c) \in Honest, Signer(c) = Signer(d), Level(c) = Level(d)
               PROVE  c = d
    BY <1>2 DEF OncePerLevel
  <2>1. c \in created /\ d \in created
    BY <1>4, <1>6
  <2> QED BY <2>1 DEF LevelInv, OncePerLevel
<1> QED BY <1>7, <1>8

LEMMA LevelStep == ASSUME SyncFirst, LevelInv, [Next]_vars PROVE SignedBelow' /\ OncePerLevel'
<1>0. /\ highest \in [Honest -> 0 .. MaxLevel] /\ building \in [Honest -> SUBSET (created \cup {Genesis})]
      /\ \A w \in Honest : last[w] \in created \cup {Genesis}
  BY DEF LevelInv, ChainInv, TypeOK
<1>1. CASE UNCHANGED vars
  BY <1>1 DEF vars, LevelInv, SignedBelow, OncePerLevel, Honest
<1>2. ASSUME NEW w \in Honest, NEW b \in created, ReceiveBlock(w, b) PROVE SignedBelow' /\ OncePerLevel'
  <2>1. UNCHANGED << malicious, created, building, highest, witnessing >>
    BY <1>2 DEF ReceiveBlock
  <2> QED BY <2>1 DEF LevelInv, SignedBelow, OncePerLevel, Honest
<1>3. ASSUME NEW w \in Honest, ChooseBuildingBlock(w) PROVE SignedBelow' /\ OncePerLevel'
  <2>1. UNCHANGED << malicious, created, highest, witnessing >> /\ w \in witnessing /\ Honest' = Honest
    BY <1>3 DEF ChooseBuildingBlock, Honest
  <2>2. PICK b \in FindBestBuildingBlock(w) : building' = [building EXCEPT ![w] = {b}]
    BY <1>3 DEF ChooseBuildingBlock
  <2>3. highest[w] <= Level(b)
    BY <2>2 DEF FindBestBuildingBlock, Buildable
  <2>4. building'[w] = {b} /\ \A u \in Honest : u # w => building'[u] = building[u]
    BY <1>0, <2>2
  <2>5. SignedBelow'
    <3> SUFFICES ASSUME NEW u \in Honest
                 PROVE  /\ \A c \in created : Signer(c) = u => Level(c) <= highest[u]
                        /\ \A q \in building'[u] : highest[u] <= Level(q)
                        /\ building'[u] # {} => u \in witnessing
      BY <2>1 DEF SignedBelow
    <3>1. \A c \in created : Signer(c) = u => Level(c) <= highest[u]
      BY DEF LevelInv, SignedBelow
    <3>2. CASE u = w
      BY <2>1, <2>3, <2>4, <3>1, <3>2
    <3>3. CASE u # w
      BY <2>4, <3>3 DEF LevelInv, SignedBelow
    <3> QED BY <3>2, <3>3
  <2> QED BY <2>1, <2>5 DEF LevelInv, OncePerLevel
<1>4. ASSUME NEW w \in Honest, Restart(w) PROVE SignedBelow' /\ OncePerLevel'
  <2>1. UNCHANGED << malicious, created, highest >> /\ Honest' = Honest
    BY <1>4 DEF Restart, Honest
  <2>2. building'[w] = {} /\ \A u \in Honest : u # w => building'[u] = building[u]
    BY <1>0, <1>4 DEF Restart
  <2>3. \A u \in Honest : u # w => (u \in witnessing' <=> u \in witnessing)
    BY <1>4 DEF Restart
  <2>4. SignedBelow'
    <3> SUFFICES ASSUME NEW u \in Honest
                 PROVE  /\ \A c \in created : Signer(c) = u => Level(c) <= highest[u]
                        /\ \A q \in building'[u] : highest[u] <= Level(q)
                        /\ building'[u] # {} => u \in witnessing'
      BY <2>1 DEF SignedBelow
    <3>1. \A c \in created : Signer(c) = u => Level(c) <= highest[u]
      BY DEF LevelInv, SignedBelow
    <3>2. CASE u = w
      BY <2>2, <3>1, <3>2
    <3>3. CASE u # w
      BY <2>2, <2>3, <3>3 DEF LevelInv, SignedBelow
    <3> QED BY <3>2, <3>3
  <2> QED BY <2>1, <2>4 DEF LevelInv, OncePerLevel
<1>5. ASSUME NEW w \in Honest, EnableWitness(w) PROVE SignedBelow' /\ OncePerLevel'
  <2>1. UNCHANGED << malicious, created, building >> /\ Honest' = Honest /\ w \notin witnessing
    BY <1>5 DEF EnableWitness, Honest
  <2>2. highest' = [highest EXCEPT ![w] = Level(last[w])] /\ witnessing' = witnessing \cup {w} /\ Level(last[w]) >= highest[w]
    BY <1>5 DEF EnableWitness
  <2>3. Level(last[w]) \in Nat /\ highest[w] \in Nat
    BY <1>0, CreatedChains, BoundsAssumption DEF LevelInv, ChainInv
  <2>4. highest'[w] = Level(last[w]) /\ \A u \in Honest : u # w => highest'[u] = highest[u]
    BY <1>0, <2>2
  <2>5. building[w] = {}
    BY <2>1 DEF LevelInv, SignedBelow
  <2>6. \A c \in created : Signer(c) = w => Level(c) <= highest'[w]
    <3> SUFFICES ASSUME NEW c \in created, Signer(c) = w PROVE Level(c) <= highest'[w]
      OBVIOUS
    <3>1. Level(c) \in Nat /\ Level(c) <= highest[w]
      BY BoundsAssumption DEF LevelInv, SignedBelow, ChainInv, TypeOK
    <3> QED BY <2>2, <2>3, <2>4, <3>1
  <2>7. SignedBelow'
    <3> SUFFICES ASSUME NEW u \in Honest
                 PROVE  /\ \A c \in created : Signer(c) = u => Level(c) <= highest'[u]
                        /\ \A q \in building[u] : highest'[u] <= Level(q)
                        /\ building[u] # {} => u \in witnessing'
      BY <2>1 DEF SignedBelow
    <3>1. CASE u = w
      BY <2>5, <2>6, <3>1
    <3>2. CASE u # w
      BY <2>2, <2>4, <3>2 DEF LevelInv, SignedBelow
    <3> QED BY <3>1, <3>2
  <2> QED BY <2>1, <2>7 DEF LevelInv, OncePerLevel
<1> QED BY <1>1, <1>2, <1>3, <1>4, <1>5, SignsAbove, SignsForItself DEF Next

(* When every restarted witness waits until the indelible chain has passed   *)
(* its own last block, as the comment in Witness::ThreadProc asks, no honest *)
(* witness ever signs two blocks at one level, for any number of witnesses,  *)
(* levels, blocks and restarts and whatever the malicious ones sign.         *)
THEOREM OncePerLevelHolds == ASSUME SyncFirst PROVE Spec => []OncePerLevel
<1>1. Init => SignedBelow /\ OncePerLevel
  BY DEF Init, SignedBelow, OncePerLevel
<1>2. SignedBelow /\ OncePerLevel /\ ChainInv /\ [Next]_vars => (SignedBelow /\ OncePerLevel)'
  BY LevelStep DEF LevelInv
<1> QED BY <1>1, <1>2, ChainInvariance, PTL DEF Spec

=============================================================================
