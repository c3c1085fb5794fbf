--------------------------- MODULE AgreementProofs ---------------------------
(***************************************************************************)
(* Why the witness protocol is safe: the proof that the indelible chains   *)
(* of any two honest nodes agree and that no node ever meets a second      *)
(* indelible block at a level, for any number of witnesses below half of   *)
(* which ignore the rules.                                                 *)
(***************************************************************************)
EXTENDS ConsensusProofs, FiniteSetTheorems

(* Recursive functions over an interval.                                     *)

\* A function that is computed from its value one step below is well defined
LEMMA RecursionExists ==
    ASSUME NEW lo \in Nat, NEW hi \in Nat, lo <= hi, NEW c \in Nat,
           NEW step \in [(lo + 1 .. hi) \X Nat -> Nat]
    PROVE  \E f \in [lo .. hi -> Nat] :
              f[lo] = c /\ \A lev \in lo + 1 .. hi : f[lev] = step[<< lev, f[lev - 1] >>]
<1> DEFINE S == {n \in lo .. hi : \E f \in [lo .. n -> Nat] :
                    f = [lev \in lo .. n |-> IF lev = lo THEN c ELSE step[<< lev, f[lev - 1] >>]]}
<1>1. lo \in S
  <2> DEFINE f == [lev \in lo .. lo |-> c]
  <2>1. f \in [lo .. lo -> Nat] /\ f = [lev \in lo .. lo |-> IF lev = lo THEN c ELSE step[<< lev, f[lev - 1] >>]]
    OBVIOUS
  <2>2. lo \in lo .. hi
    OBVIOUS
  <2> HIDE DEF f
  <2> QED BY <2>1, <2>2
<1>2. ASSUME NEW n \in lo .. hi - 1, n \in S PROVE n + 1 \in S
  <2>1. PICK f \in [lo .. n -> Nat] : f = [lev \in lo .. n |-> IF lev = lo THEN c ELSE step[<< lev, f[lev - 1] >>]]
    BY <1>2
  <2>0. n + 1 \in lo + 1 .. hi /\ n + 1 \in lo .. hi /\ n \in lo .. n
    OBVIOUS
  <2>2. PICK z \in Nat : z = step[<< n + 1, f[n] >>]
    BY <2>0
  <2> DEFINE g == [lev \in lo .. n + 1 |-> IF lev = n + 1 THEN z ELSE f[lev]]
  <2>3. g \in [lo .. n + 1 -> Nat]
    BY <2>2
  <2>4. ASSUME NEW lev \in lo .. n + 1 PROVE g[lev] = IF lev = lo THEN c ELSE step[<< lev, g[lev - 1] >>]
    <3>1. CASE lev = n + 1
      <4>1. g[lev] = z /\ g[lev - 1] = f[n] /\ lev # lo
        BY <2>0, <3>1
      <4> QED BY <2>2, <3>1, <4>1
    <3>2. CASE lev # n + 1 /\ lev = lo
      <4>1. g[lev] = f[lev] /\ lev \in lo .. n
        BY <3>2
      <4>2. f[lev] = c
        BY <2>1, <3>2, <4>1
      <4> QED BY <3>2, <4>1, <4>2
    <3>3. CASE lev # n + 1 /\ lev # lo
      <4>1. lev \in lo .. n /\ lev - 1 \in lo .. n /\ g[lev] = f[lev] /\ g[lev - 1] = f[lev - 1]
        BY <3>3
      <4>2. f[lev] = step[<< lev, f[lev - 1] >>]
        BY <2>1, <3>3, <4>1
      <4> QED BY <3>3, <4>1, <4>2
    <3> QED BY <3>1, <3>2, <3>3
  <2> DEFINE h == [lev \in lo .. n + 1 |-> IF lev = lo THEN c ELSE step[<< lev, g[lev - 1] >>]]
  <2>5. \A lev \in lo .. n + 1 : g[lev] = h[lev]
    BY <2>4
  <2>6. g = h
    <3>1. g = [lev \in lo .. n + 1 |-> g[lev]] /\ h = [lev \in lo .. n + 1 |-> h[lev]]
      OBVIOUS
    <3> HIDE DEF g, h
    <3> QED BY <2>5, <3>1
  <2> HIDE DEF g
  <2> QED BY <2>0, <2>3, <2>6
<1> HIDE DEF S
<1>3. \A n \in lo .. hi : n \in S
  BY <1>1, <1>2, IntervalInduction
<1>4. hi \in S
  BY <1>3
<1>5. PICK f \in [lo .. hi -> Nat] : f = [lev \in lo .. hi |-> IF lev = lo THEN c ELSE step[<< lev, f[lev - 1] >>]]
  BY <1>4 DEF S
<1>6. f[lo] = c
  BY <1>5
<1>7. ASSUME NEW lev \in lo + 1 .. hi PROVE f[lev] = step[<< lev, f[lev - 1] >>]
  BY <1>5
<1> QED BY <1>6, <1>7

-----------------------------------------------------------------------------
(* Powers of two.                                                            *)

\* What the recursive definition of PowerOf2 computes
LEMMA PowerIs ==
    /\ PowerOf2 \in [0 .. MAX_SCORE_BITS -> Nat]
    /\ PowerOf2[0] = 1
    /\ \A n \in 1 .. MAX_SCORE_BITS : PowerOf2[n] = 2 * PowerOf2[n - 1]
<1>z. PICK z \in Nat : z = 0
  OBVIOUS
<1>o. PICK one \in Nat : one = 1
  OBVIOUS
<1> DEFINE hi == MAX_SCORE_BITS
           step == [p \in (z + 1 .. hi) \X Nat |-> 2 * p[2]]
<1>0. hi \in Nat
  BY ParamsAssumption
<1>1. step \in [(z + 1 .. hi) \X Nat -> Nat] /\ z <= hi
  BY <1>0, <1>z
<1>2. PICK f \in [z .. hi -> Nat] : f[z] = one /\ \A n \in z + 1 .. hi : f[n] = step[<< n, f[n - 1] >>]
  <2> HIDE DEF step, hi
  <2>1. \A h \in Nat : z <= h => \A c \in Nat : \A st \in [(z + 1 .. h) \X Nat -> Nat] :
          \E f \in [z .. h -> Nat] : f[z] = c /\ \A n \in z + 1 .. h : f[n] = st[<< n, f[n - 1] >>]
    BY RecursionExists, Zenon
  <2>2. \A c \in Nat : \A st \in [(z + 1 .. hi) \X Nat -> Nat] :
          \E f \in [z .. hi -> Nat] : f[z] = c /\ \A n \in z + 1 .. hi : f[n] = st[<< n, f[n - 1] >>]
    BY <1>0, <1>1, <2>1, Zenon
  <2> QED BY <1>1, <2>2, Zenon
<1>3. ASSUME NEW n \in z + 1 .. hi PROVE f[n] = 2 * f[n - 1]
  <2>1. f[n - 1] \in Nat
    BY <1>0
  <2>2. f[n] = step[<< n, f[n - 1] >>]
    BY <1>2
  <2>3. step[<< n, f[n - 1] >>] = 2 * f[n - 1]
    BY <2>1
  <2> QED BY <2>2, <2>3
<1>4. f \in [0 .. hi -> Nat] /\ \A n \in 0 .. hi : f[n] = IF n = 0 THEN 1 ELSE 2 * f[n - 1]
  BY <1>0, <1>2, <1>3, <1>o, <1>z
<1>5. f = [n \in 0 .. hi |-> IF n = 0 THEN 1 ELSE 2 * f[n - 1]]
  BY <1>4
<1>6. PowerOf2 = CHOOSE g : g = [n \in 0 .. hi |-> IF n = 0 THEN 1 ELSE 2 * g[n - 1]]
  BY DEF PowerOf2
<1>7. PowerOf2 = [n \in 0 .. hi |-> IF n = 0 THEN 1 ELSE 2 * PowerOf2[n - 1]]
  BY <1>5, <1>6
<1> DEFINE S == {n \in 0 .. hi : PowerOf2[n] = f[n]}
<1>8. 0 \in S
  BY <1>0, <1>4, <1>7
<1>9. ASSUME NEW n \in 0 .. hi - 1, n \in S PROVE n + 1 \in S
  <2>1. n + 1 \in 0 .. hi /\ n + 1 # 0 /\ (n + 1) - 1 = n
    BY <1>0
  <2>2. PowerOf2[n + 1] = 2 * PowerOf2[(n + 1) - 1] /\ f[n + 1] = 2 * f[(n + 1) - 1]
    BY <1>4, <1>7, <2>1
  <2> QED BY <1>9, <2>1, <2>2
<1> HIDE DEF S
<1>10. \A n \in 0 .. hi : n \in S
  BY <1>0, <1>8, <1>9, IntervalInduction
<1>11. \A n \in 0 .. hi : PowerOf2[n] \in Nat
  BY <1>4, <1>10 DEF S
<1> QED BY <1>0, <1>4, <1>7, <1>11

\* Powers of two are positive
LEMMA PowerPositive == \A n \in 0 .. MAX_SCORE_BITS : PowerOf2[n] \in Nat \ {0}
<1> DEFINE S == {n \in 0 .. MAX_SCORE_BITS : PowerOf2[n] \in Nat \ {0}}
<1>0. MAX_SCORE_BITS \in Nat
  BY ParamsAssumption
<1>1. 0 \in S
  BY <1>0, PowerIs
<1>2. ASSUME NEW n \in 0 .. MAX_SCORE_BITS - 1, n \in S PROVE n + 1 \in S
  <2>1. n + 1 \in 1 .. MAX_SCORE_BITS /\ n + 1 \in 0 .. MAX_SCORE_BITS /\ (n + 1) - 1 = n
    BY <1>0
  <2>2. PowerOf2[n + 1] = 2 * PowerOf2[n]
    BY <2>1, PowerIs
  <2>3. 2 * PowerOf2[n] \in Nat \ {0}
    BY <1>2
  <2> QED BY <2>1, <2>2, <2>3
<1> HIDE DEF S
<1>3. \A n \in 0 .. MAX_SCORE_BITS : n \in S
  BY <1>0, <1>1, <1>2, IntervalInduction
<1> QED BY <1>3 DEF S

\* A shift by i and by j is a shift by i + j
LEMMA PowerSum ==
    ASSUME NEW i \in Nat, NEW j \in Nat, i + j <= MAX_SCORE_BITS
    PROVE  PowerOf2[i + j] = PowerOf2[i] * PowerOf2[j]
<1> DEFINE S == {n \in 0 .. j : PowerOf2[i + n] = PowerOf2[i] * PowerOf2[n]}
<1>0. MAX_SCORE_BITS \in Nat /\ i \in 0 .. MAX_SCORE_BITS
  BY ParamsAssumption
<1>1. 0 \in S
  <2>1. PowerOf2[i] \in Nat /\ i + 0 = i
    BY <1>0, PowerIs
  <2>2. PowerOf2[i] * 1 = PowerOf2[i]
    BY <2>1
  <2> QED BY <2>1, <2>2, PowerIs
<1>2. ASSUME NEW n \in 0 .. j - 1, n \in S PROVE n + 1 \in S
  <2>1. /\ n + 1 \in 1 .. MAX_SCORE_BITS /\ i + (n + 1) \in 1 .. MAX_SCORE_BITS /\ n + 1 \in 0 .. j
        /\ (i + (n + 1)) - 1 = i + n /\ (n + 1) - 1 = n /\ n \in 0 .. MAX_SCORE_BITS
    BY <1>0
  <2>2. PowerOf2[i + (n + 1)] = 2 * PowerOf2[i + n] /\ PowerOf2[n + 1] = 2 * PowerOf2[n]
    BY <2>1, PowerIs
  <2>3. PICK a \in Nat : a = PowerOf2[i]
    BY <1>0, PowerIs
  <2>4. PICK b \in Nat : b = PowerOf2[n]
    BY <2>1, PowerIs
  <2>5. PowerOf2[i + n] = a * b
    BY <1>2, <2>3, <2>4
  <2>6. 2 * (a * b) = a * (2 * b)
    OBVIOUS
  <2> QED BY <2>1, <2>2, <2>3, <2>4, <2>5, <2>6
<1> HIDE DEF S
<1>3. \A n \in 0 .. j : n \in S
  BY <1>1, <1>2, IntervalInduction
<1>4. j \in S
  BY <1>3
<1> QED BY <1>4 DEF S

\* A wider shift gives no less
LEMMA PowerGrows ==
    ASSUME NEW i \in Nat, NEW j \in Nat, i <= j, j <= MAX_SCORE_BITS
    PROVE  PowerOf2[i] <= PowerOf2[j]
<1> DEFINE S == {n \in i .. j : PowerOf2[i] <= PowerOf2[n]}
<1>0. MAX_SCORE_BITS \in Nat /\ i \in 0 .. MAX_SCORE_BITS
  BY ParamsAssumption
<1>1. i \in S
  BY <1>0, PowerIs
<1>2. ASSUME NEW n \in i .. j - 1, n \in S PROVE n + 1 \in S
  <2>1. n + 1 \in 1 .. MAX_SCORE_BITS /\ n + 1 \in i .. j /\ (n + 1) - 1 = n /\ n \in 0 .. MAX_SCORE_BITS
    BY <1>0
  <2>2. PowerOf2[n + 1] = 2 * PowerOf2[n]
    BY <2>1, PowerIs
  <2>3. PowerOf2[n] \in Nat /\ PowerOf2[i] \in Nat /\ PowerOf2[i] <= PowerOf2[n]
    BY <1>0, <1>2, <2>1, PowerIs
  <2> QED BY <2>1, <2>2, <2>3
<1> HIDE DEF S
<1>3. \A n \in i .. j : n \in S
  BY <1>1, <1>2, IntervalInduction
<1>4. j \in S
  BY <1>3
<1> QED BY <1>4 DEF S

-----------------------------------------------------------------------------
(* Skips along a chain.                                                      *)

\* The witnesses skipped on a chain up to a level
Skipped(b, lev) == SkipSum(AncestorAt(b, lev), 0)

\* A partial sum of the skips is a difference of two sums from the bottom
LEMMA SkipSums ==
    ASSUME NEW b \in Chains
    PROVE  /\ Skipped(b, 0) = 0
           /\ \A lev \in 0 .. Level(b) : Skipped(b, lev) \in Nat
           /\ \A lev \in 1 .. Level(b) : Skipped(b, lev) = Skipped(b, lev - 1) + Skip(AncestorAt(b, lev))
           /\ \A i, j \in 0 .. Level(b) :
                 i <= j => Skipped(b, i) <= Skipped(b, j) /\ SkipSum(AncestorAt(b, j), i) = Skipped(b, j) - Skipped(b, i)
<1> DEFINE hi == Level(b)
<1>0. hi \in Nat /\ 0 \in 0 .. Level(b) /\ AncestorAt(b, Level(b)) = b
  BY WholeChain DEF Chains, Level
<1>z. PICK z : z = 0
  OBVIOUS
<1>1. PICK F \in [z .. hi -> Nat] : F[z] = 0 /\ \A lev \in z + 1 .. hi : F[lev] = F[lev - 1] + Skip(AncestorAt(b, lev))
  <2>1. z \in 0 .. Level(b)
    BY <1>0, <1>z
  <2>2. \E F \in [z .. Level(b) -> Nat] :
          /\ F[z] = 0
          /\ \A lev \in z + 1 .. Level(b) : F[lev] = F[lev - 1] + Skip(AncestorAt(b, lev))
          /\ SkipSum(b, z) = F[Level(b)]
    BY <2>1, SkipSumIs
  <2> QED BY <2>2
<1>2. \A lev \in 0 .. hi : F[lev] \in Nat
  BY <1>z
<1>3. \A lev \in 1 .. hi : F[lev] = F[lev - 1] + Skip(AncestorAt(b, lev)) /\ Skip(AncestorAt(b, lev)) \in Nat
  BY <1>1, <1>z, SkipAt
<1>4. ASSUME NEW i \in 0 .. hi, NEW j \in 0 .. hi, i <= j
      PROVE  F[i] <= F[j] /\ SkipSum(AncestorAt(b, j), i) = F[j] - F[i]
  <2> DEFINE c == AncestorAt(b, j)
  <2>1. c \in Chains /\ Level(c) = j
    BY Ancestors
  <2>2. \A lev \in 0 .. j : AncestorAt(c, lev) = AncestorAt(b, lev)
    BY AncestorOfAncestor
  <2> HIDE DEF c
  <2>3. i \in 0 .. Level(c) /\ i \in Nat /\ j \in Nat
    BY <1>0, <1>4, <2>1
  <2>4. PICK g \in [i .. Level(c) -> Nat] :
          /\ g[i] = 0
          /\ \A lev \in i + 1 .. Level(c) : g[lev] = g[lev - 1] + Skip(AncestorAt(c, lev))
          /\ SkipSum(c, i) = g[Level(c)]
    BY <2>1, <2>3, SkipSumIs
  <2> DEFINE S == {n \in i .. j : F[i] <= F[n] /\ g[n] = F[n] - F[i]}
  <2>5. i \in S
    BY <1>2, <1>4, <2>3, <2>4
  <2>6. ASSUME NEW n \in i .. j - 1, n \in S PROVE n + 1 \in S
    <3>1. /\ n + 1 \in i .. j /\ n + 1 \in i + 1 .. Level(c) /\ n + 1 \in 1 .. hi /\ (n + 1) - 1 = n /\ n + 1 \in 0 .. j
          /\ n \in 0 .. hi
      BY <1>0, <2>1, <2>3
    <3>2. PICK d \in Nat : d = Skip(AncestorAt(b, n + 1))
      BY <1>3, <3>1
    <3>3. F[n + 1] = F[n] + d /\ g[n + 1] = g[n] + d
      BY <1>3, <2>2, <2>4, <3>1, <3>2
    <3>4. F[n] \in Nat /\ F[i] \in Nat
      BY <1>2, <3>1
    <3>5. F[i] <= F[n] /\ g[n] = F[n] - F[i]
      BY <2>6
    <3> DEFINE x == F[i]
               y == F[n]
    <3>6. x \in Nat /\ y \in Nat /\ x <= y /\ x <= y + d /\ (y - x) + d = (y + d) - x
      BY <3>4, <3>5
    <3>7. F[i] <= F[n + 1] /\ g[n + 1] = F[n + 1] - F[i]
      BY <3>3, <3>5, <3>6
    <3> QED BY <3>1, <3>7
  <2> HIDE DEF S
  <2>7. \A n \in i .. j : n \in S
    BY <2>3, <2>5, <2>6, IntervalInduction
  <2>8. j \in S
    BY <1>4, <2>3, <2>7
  <2>9. F[i] <= F[j] /\ SkipSum(c, i) = F[j] - F[i]
    BY <2>1, <2>4, <2>8 DEF S
  <2> QED BY <2>9 DEF c
<1>5. \A lev \in 0 .. hi : Skipped(b, lev) = F[lev]
  <2> SUFFICES ASSUME NEW lev \in 0 .. hi PROVE Skipped(b, lev) = F[lev]
    OBVIOUS
  <2>1. SkipSum(AncestorAt(b, lev), 0) = F[lev] - F[0]
    BY <1>0, <1>4
  <2>2. F[0] = 0 /\ F[lev] \in Nat
    BY <1>1, <1>2, <1>z
  <2> QED BY <2>1, <2>2 DEF Skipped
<1> HIDE DEF hi
<1>6. Skipped(b, 0) = 0
  BY <1>0, <1>1, <1>5, <1>z DEF hi
<1>7. \A lev \in 1 .. hi : Skipped(b, lev) = Skipped(b, lev - 1) + Skip(AncestorAt(b, lev))
  <2> SUFFICES ASSUME NEW lev \in 1 .. hi PROVE Skipped(b, lev) = Skipped(b, lev - 1) + Skip(AncestorAt(b, lev))
    OBVIOUS
  <2>1. lev \in 0 .. hi /\ lev - 1 \in 0 .. hi
    BY <1>0 DEF hi
  <2> QED BY <1>3, <1>5, <2>1
<1>8. \A i, j \in 0 .. hi :
         i <= j => Skipped(b, i) <= Skipped(b, j) /\ SkipSum(AncestorAt(b, j), i) = Skipped(b, j) - Skipped(b, i)
  BY <1>4, <1>5
<1>9. \A lev \in 0 .. hi : Skipped(b, lev) \in Nat
  BY <1>2, <1>5
<1> QED BY <1>6, <1>7, <1>8, <1>9 DEF hi

-----------------------------------------------------------------------------
(* Scores.                                                                   *)

\* The bits of the score of b on top of a that the levels up to lev fill
Bits(b, a, lev) == 1 + (lev - Level(a)) + (Skipped(b, lev) - Skipped(b, Level(a)))

LEMMA BitsGrow ==
    ASSUME NEW b \in Chains, NEW a \in Chains, Level(a) <= Level(b)
    PROVE  /\ Bits(b, a, Level(a)) = 1
           /\ Bits(b, a, Level(b)) = ScoreBits(b, a)
           /\ \A lev \in Level(a) .. Level(b) : Bits(b, a, lev) \in Nat \ {0}
           /\ \A lev \in Level(a) + 1 .. Level(b) : Bits(b, a, lev) = Bits(b, a, lev - 1) + (Skip(AncestorAt(b, lev)) + 1)
           /\ \A i, j \in Level(a) .. Level(b) : i <= j => Bits(b, a, i) <= Bits(b, a, j)
<1> DEFINE low == Level(a)
           hi == Level(b)
           s(lev) == Skipped(b, lev)
<1>0. low \in Nat /\ hi \in Nat /\ low <= hi
  BY DEF Chains, Level
<1>1. /\ \A lev \in 0 .. hi : s(lev) \in Nat
      /\ \A lev \in 1 .. hi : s(lev) = s(lev - 1) + Skip(AncestorAt(b, lev)) /\ Skip(AncestorAt(b, lev)) \in Nat
      /\ \A i, j \in 0 .. hi : i <= j => s(i) <= s(j) /\ SkipSum(AncestorAt(b, j), i) = s(j) - s(i)
  BY SkipSums, SkipAt
<1>2. AncestorAt(b, hi) = b
  BY WholeChain
<1>3. ScoreBits(b, a) = 1 + (hi - low) + (s(hi) - s(low))
  BY <1>0, <1>1, <1>2 DEF ScoreBits
<1>4. \A lev \in low .. hi : Bits(b, a, lev) = 1 + (lev - low) + (s(lev) - s(low))
  BY DEF Bits
<1> HIDE DEF low, hi, s
<1>5. \A lev \in low .. hi : s(lev) \in Nat /\ s(low) \in Nat /\ s(low) <= s(lev)
  BY <1>0, <1>1
<1>6. Bits(b, a, low) = 1
  BY <1>0, <1>4, <1>5
<1>7. Bits(b, a, hi) = ScoreBits(b, a)
  BY <1>0, <1>3, <1>4
<1>8. \A lev \in low .. hi : Bits(b, a, lev) \in Nat \ {0}
  BY <1>0, <1>4, <1>5
<1>9. ASSUME NEW lev \in low + 1 .. hi PROVE Bits(b, a, lev) = Bits(b, a, lev - 1) + (Skip(AncestorAt(b, lev)) + 1)
  <2>1. lev \in low .. hi /\ lev - 1 \in low .. hi /\ lev \in 1 .. hi /\ lev \in Nat
    BY <1>0
  <2>2. PICK d \in Nat : d = Skip(AncestorAt(b, lev))
    BY <1>1, <2>1
  <2>3. PICK x \in Nat : x = s(lev - 1)
    BY <1>5, <2>1
  <2>4. PICK y \in Nat : y = s(low)
    BY <1>5, <2>1
  <2>5. s(lev) = x + d
    BY <1>1, <2>1, <2>2, <2>3
  <2>6. Bits(b, a, lev) = 1 + (lev - low) + ((x + d) - y) /\ Bits(b, a, lev - 1) = 1 + ((lev - 1) - low) + (x - y)
    BY <1>4, <2>1, <2>3, <2>4, <2>5
  <2>7. 1 + (lev - low) + ((x + d) - y) = 1 + ((lev - 1) - low) + (x - y) + (d + 1)
    BY <1>0, <2>1
  <2> QED BY <2>2, <2>6, <2>7
<1>10. ASSUME NEW i \in low .. hi, NEW j \in low .. hi, i <= j PROVE Bits(b, a, i) <= Bits(b, a, j)
  <2>1. PICK x \in Nat : x = s(i)
    BY <1>5
  <2>2. PICK y \in Nat : y = s(j)
    BY <1>5
  <2>3. PICK z \in Nat : z = s(low)
    BY <1>0, <1>5
  <2>4. x <= y
    BY <1>0, <1>1, <1>10, <2>1, <2>2
  <2>5. Bits(b, a, i) = 1 + (i - low) + (x - z) /\ Bits(b, a, j) = 1 + (j - low) + (y - z)
    BY <1>4, <2>1, <2>2, <2>3
  <2>6. 1 + (i - low) + (x - z) <= 1 + (j - low) + (y - z)
    BY <1>0, <1>10, <2>4
  <2> QED BY <2>5, <2>6
<1> QED BY <1>6, <1>7, <1>8, <1>9, <1>10 DEF low, hi

\* A shift of a shift
LEMMA Shifts ==
    ASSUME NEW s \in Nat, NEW p \in Nat, NEW q \in Nat, NEW r \in Nat, r = p * q
    PROVE  (s * p + 1) * q = s * r + q
<1>1. (s * p + 1) * q = (s * p) * q + q
  OBVIOUS
<1>2. (s * p) * q = s * (p * q)
  OBVIOUS
<1> QED BY <1>1, <1>2

(* CalcSkipScore adds, for every block above the last indelible one, a bit   *)
(* in the place its chain has come to by then.                               *)
LEMMA ScoreIs ==
    ASSUME NEW b \in Chains, NEW a \in Chains, InChain(a, b), ScoreBits(b, a) <= MAX_SCORE_BITS
    PROVE  \E V \in [Level(a) .. Level(b) -> Nat] :
              /\ V[Level(a)] = PowerOf2[MAX_SCORE_BITS - 1]
              /\ \A lev \in Level(a) + 1 .. Level(b) :
                    V[lev] = V[lev - 1] + PowerOf2[MAX_SCORE_BITS - Bits(b, a, lev)]
              /\ CalcSkipScore(b, a) = V[Level(b)]
<1> DEFINE low == Level(a)
           hi == Level(b)
           sk(lev) == Skip(AncestorAt(b, lev))
           B(lev) == Bits(b, a, lev)
           step == [p \in (low + 1 .. hi) \X Nat |-> ShiftLeft(p[2], sk(p[1]) + 1) + 1]
           score[lev \in low .. hi] == IF lev = low THEN 1 ELSE ShiftLeft(score[lev - 1], sk(lev) + 1) + 1
<1>0. low \in Nat /\ hi \in Nat /\ low <= hi /\ MAX_SCORE_BITS \in Nat /\ low \in low .. hi /\ hi \in low .. hi
  BY ParamsAssumption DEF Chains, Level, InChain
<1>1. /\ B(low) = 1 /\ B(hi) = ScoreBits(b, a)
      /\ \A lev \in low .. hi : B(lev) \in Nat \ {0}
      /\ \A lev \in low + 1 .. hi : B(lev) = B(lev - 1) + (sk(lev) + 1)
      /\ \A i, j \in low .. hi : i <= j => B(i) <= B(j)
  BY <1>0, BitsGrow
<1>2. \A lev \in low .. hi : B(lev) \in 1 .. MAX_SCORE_BITS
  <2> HIDE DEF B, low, hi
  <2> QED BY <1>0, <1>1
<1>3. \A lev \in low + 1 .. hi : sk(lev) \in Nat /\ sk(lev) + 1 \in 0 .. MAX_SCORE_BITS
  <2> SUFFICES ASSUME NEW lev \in low + 1 .. hi PROVE sk(lev) \in Nat /\ sk(lev) + 1 \in 0 .. MAX_SCORE_BITS
    OBVIOUS
  <2>1. lev \in 1 .. Level(b) /\ lev \in low .. hi /\ lev - 1 \in low .. hi
    BY <1>0
  <2>2. sk(lev) \in Nat
    BY <2>1, SkipAt
  <2>3. B(lev) \in 1 .. MAX_SCORE_BITS /\ B(lev - 1) \in Nat /\ B(lev) = B(lev - 1) + (sk(lev) + 1)
    BY <1>1, <1>2, <2>1
  <2> HIDE DEF B, sk
  <2> QED BY <1>0, <2>2, <2>3
<1> HIDE DEF sk, B
<1>4. step \in [(low + 1 .. hi) \X Nat -> Nat]
  <2> SUFFICES ASSUME NEW lev \in low + 1 .. hi, NEW x \in Nat PROVE ShiftLeft(x, sk(lev) + 1) + 1 \in Nat
    OBVIOUS
  <2>1. PICK q \in Nat : q = PowerOf2[sk(lev) + 1]
    BY <1>3, PowerIs
  <2>2. x * q \in Nat
    OBVIOUS
  <2> QED BY <2>1, <2>2 DEF ShiftLeft
<1>5. PICK S \in [low .. hi -> Nat] : S[low] = 1 /\ \A n \in low + 1 .. hi : S[n] = step[<< n, S[n - 1] >>]
  <2> HIDE DEF step, low, hi
  <2>1. \A h \in Nat : low <= h => \A c \in Nat : \A st \in [(low + 1 .. h) \X Nat -> Nat] :
          \E f \in [low .. h -> Nat] : f[low] = c /\ \A n \in low + 1 .. h : f[n] = st[<< n, f[n - 1] >>]
    BY <1>0, RecursionExists, Zenon
  <2>2. \A c \in Nat : \A st \in [(low + 1 .. hi) \X Nat -> Nat] :
          \E f \in [low .. hi -> Nat] : f[low] = c /\ \A n \in low + 1 .. hi : f[n] = st[<< n, f[n - 1] >>]
    BY <1>0, <2>1, Zenon
  <2>3. 1 \in Nat
    OBVIOUS
  <2> QED BY <1>4, <2>2, <2>3, Zenon
<1>6. ASSUME NEW n \in low + 1 .. hi PROVE S[n] = ShiftLeft(S[n - 1], sk(n) + 1) + 1
  <2>1. S[n - 1] \in Nat
    BY <1>0
  <2>2. S[n] = step[<< n, S[n - 1] >>]
    BY <1>5
  <2>3. step[<< n, S[n - 1] >>] = ShiftLeft(S[n - 1], sk(n) + 1) + 1
    BY <2>1
  <2> QED BY <2>2, <2>3
<1>7. \A n \in low .. hi : S[n] = IF n = low THEN 1 ELSE ShiftLeft(S[n - 1], sk(n) + 1) + 1
  BY <1>0, <1>5, <1>6
<1>8. S = [n \in low .. hi |-> IF n = low THEN 1 ELSE ShiftLeft(S[n - 1], sk(n) + 1) + 1]
  <2> HIDE DEF low, hi
  <2> QED BY <1>7
<1>9. score = CHOOSE g : g = [n \in low .. hi |-> IF n = low THEN 1 ELSE ShiftLeft(g[n - 1], sk(n) + 1) + 1]
  OBVIOUS
<1>10. score = [n \in low .. hi |-> IF n = low THEN 1 ELSE ShiftLeft(score[n - 1], sk(n) + 1) + 1]
  <2> HIDE DEF score, low, hi
  <2> QED BY <1>8, <1>9
<1>11. CalcSkipScore(b, a) = ShiftLeft(score[hi], MAX_SCORE_BITS - ScoreBits(b, a))
  <2>1. ~(ScoreBits(b, a) > MAX_SCORE_BITS)
    <3>1. ScoreBits(b, a) \in Nat
      BY <1>0, <1>1
    <3> QED BY <1>0, <3>1
  <2> QED BY <2>1 DEF CalcSkipScore, sk
<1> HIDE DEF score
<1> DEFINE T == {n \in low .. hi : score[n] = S[n]}
<1>12. low \in T
  BY <1>0, <1>7, <1>10
<1>13. ASSUME NEW n \in low .. hi - 1, n \in T PROVE n + 1 \in T
  <2>1. n + 1 \in low .. hi /\ n + 1 # low /\ (n + 1) - 1 = n
    BY <1>0
  <2>2. score[n + 1] = ShiftLeft(score[(n + 1) - 1], sk(n + 1) + 1) + 1
    BY <1>10, <2>1
  <2>3. S[n + 1] = ShiftLeft(S[(n + 1) - 1], sk(n + 1) + 1) + 1
    BY <1>7, <2>1
  <2> QED BY <1>13, <2>1, <2>2, <2>3
<1> HIDE DEF T, low, hi
<1>14. \A n \in low .. hi : n \in T
  BY <1>0, <1>12, <1>13, IntervalInduction
<1>15. score[hi] = S[hi]
  BY <1>0, <1>14 DEF T
<1> DEFINE V == [lev \in low .. hi |-> S[lev] * PowerOf2[MAX_SCORE_BITS - B(lev)]]
<1>16. \A lev \in low .. hi : S[lev] \in Nat /\ PowerOf2[MAX_SCORE_BITS - B(lev)] \in Nat
  <2> SUFFICES ASSUME NEW lev \in low .. hi PROVE S[lev] \in Nat /\ PowerOf2[MAX_SCORE_BITS - B(lev)] \in Nat
    OBVIOUS
  <2>1. MAX_SCORE_BITS - B(lev) \in 0 .. MAX_SCORE_BITS
    BY <1>0, <1>2
  <2> QED BY <2>1, PowerIs
<1>17. V \in [low .. hi -> Nat]
  <2> SUFFICES ASSUME NEW lev \in low .. hi PROVE S[lev] * PowerOf2[MAX_SCORE_BITS - B(lev)] \in Nat
    OBVIOUS
  <2>1. PICK x \in Nat : x = S[lev]
    BY <1>16
  <2>2. PICK y \in Nat : y = PowerOf2[MAX_SCORE_BITS - B(lev)]
    BY <1>16
  <2>3. x * y \in Nat
    OBVIOUS
  <2> QED BY <2>1, <2>2, <2>3
<1>18. V[low] = PowerOf2[MAX_SCORE_BITS - 1]
  <2>1. PICK y \in Nat : y = PowerOf2[MAX_SCORE_BITS - B(low)]
    BY <1>0, <1>16
  <2>2. V[low] = 1 * y
    BY <1>0, <1>5, <2>1
  <2> QED BY <1>1, <2>1, <2>2
<1>19. ASSUME NEW lev \in low + 1 .. hi PROVE V[lev] = V[lev - 1] + PowerOf2[MAX_SCORE_BITS - B(lev)]
  <2>1. lev \in low .. hi /\ lev - 1 \in low .. hi
    BY <1>0
  <2>2. PICK x \in Nat : x = S[lev - 1]
    BY <2>1
  <2>3. PICK p \in Nat : p = PowerOf2[sk(lev) + 1]
    BY <1>3, PowerIs
  <2>4. PICK q \in Nat : q = PowerOf2[MAX_SCORE_BITS - B(lev)]
    BY <1>16, <2>1
  <2>5. PICK r \in Nat : r = PowerOf2[MAX_SCORE_BITS - B(lev - 1)]
    BY <1>16, <2>1
  <2>6. r = p * q
    <3> DEFINE i == sk(lev) + 1
               j == MAX_SCORE_BITS - B(lev)
    <3>1. i \in Nat /\ j \in Nat /\ i + j = MAX_SCORE_BITS - B(lev - 1) /\ i + j <= MAX_SCORE_BITS
      <4>1. PICK d \in Nat : d = sk(lev)
        BY <1>3
      <4>2. PICK e \in 1 .. MAX_SCORE_BITS : e = B(lev - 1)
        BY <1>2, <2>1
      <4>3. PICK g \in 1 .. MAX_SCORE_BITS : g = B(lev)
        BY <1>2, <2>1
      <4>4. g = e + (d + 1)
        BY <1>1, <4>1, <4>2, <4>3
      <4>5. d + 1 \in Nat /\ MAX_SCORE_BITS - g \in Nat
        BY <1>0
      <4>6. (d + 1) + (MAX_SCORE_BITS - g) = MAX_SCORE_BITS - e /\ MAX_SCORE_BITS - e <= MAX_SCORE_BITS
        BY <1>0, <4>4
      <4> QED BY <4>1, <4>2, <4>3, <4>5, <4>6
    <3> HIDE DEF i, j
    <3>2. PowerOf2[i + j] = PowerOf2[i] * PowerOf2[j]
      BY <3>1, PowerSum
    <3> QED BY <2>3, <2>4, <2>5, <3>1, <3>2 DEF i, j
  <2>7. (x * p + 1) * q = x * r + q
    BY <2>6, Shifts
  <2>8. S[lev] = x * p + 1
    BY <1>6, <2>2, <2>3 DEF ShiftLeft
  <2>9. V[lev] = S[lev] * q /\ V[lev - 1] = x * r
    BY <2>1, <2>2, <2>4, <2>5
  <2> QED BY <2>4, <2>7, <2>8, <2>9
<1>20. CalcSkipScore(b, a) = V[hi]
  <2>1. V[hi] = S[hi] * PowerOf2[MAX_SCORE_BITS - B(hi)]
    BY <1>0
  <2>2. CalcSkipScore(b, a) = S[hi] * PowerOf2[MAX_SCORE_BITS - ScoreBits(b, a)]
    BY <1>11, <1>15 DEF ShiftLeft
  <2> QED BY <1>1, <2>1, <2>2
<1> HIDE DEF V
<1>21. \A lev \in low + 1 .. hi : V[lev] = V[lev - 1] + PowerOf2[MAX_SCORE_BITS - Bits(b, a, lev)]
  BY <1>19 DEF B
<1> QED BY <1>17, <1>18, <1>20, <1>21 DEF low, hi

\* A fraction whose bits come in lower and lower places stays below the last place it filled
LEMMA LowerPlaces ==
    ASSUME NEW lo \in Nat, NEW hi \in Nat, NEW V \in [lo .. hi -> Nat], NEW B \in [lo .. hi -> 1 .. MAX_SCORE_BITS],
           \A lev \in lo + 1 .. hi : B[lev - 1] < B[lev] /\ V[lev] = V[lev - 1] + PowerOf2[MAX_SCORE_BITS - B[lev]],
           NEW k \in lo .. hi
    PROVE  V[k] <= V[hi] /\ V[hi] + PowerOf2[MAX_SCORE_BITS - B[hi]] <= V[k] + PowerOf2[MAX_SCORE_BITS - B[k]]
<1> DEFINE U(lev) == PowerOf2[MAX_SCORE_BITS - B[lev]]
           S == {n \in k .. hi : V[k] <= V[n] /\ V[n] + U(n) <= V[k] + U(k)}
<1>0. MAX_SCORE_BITS \in Nat /\ \A n \in lo .. hi : V[n] \in Nat /\ U(n) \in Nat
  <2>1. MAX_SCORE_BITS \in Nat
    BY ParamsAssumption
  <2>2. \A n \in lo .. hi : MAX_SCORE_BITS - B[n] \in 0 .. MAX_SCORE_BITS
    BY <2>1
  <2> QED BY <2>1, <2>2, PowerIs
<1>1. k \in S
  <2> HIDE DEF U
  <2> QED BY <1>0
<1>2. ASSUME NEW n \in k .. hi - 1, n \in S PROVE n + 1 \in S
  <2>1. n \in lo .. hi /\ n + 1 \in lo .. hi /\ n + 1 \in lo + 1 .. hi /\ (n + 1) - 1 = n /\ n + 1 \in k .. hi
    OBVIOUS
  <2>2. B[n] < B[n + 1] /\ V[n + 1] = V[n] + U(n + 1)
    BY <2>1
  <2>3. U(n + 1) + U(n + 1) <= U(n)
    <3>1. PICK e \in 1 .. MAX_SCORE_BITS : e = B[n]
      BY <2>1
    <3>2. PICK g \in 1 .. MAX_SCORE_BITS : g = B[n + 1]
      BY <2>1
    <3>3. e < g
      BY <2>2, <3>1, <3>2
    <3> DEFINE i == (MAX_SCORE_BITS - g) + 1
               j == MAX_SCORE_BITS - e
    <3>4. i \in 1 .. MAX_SCORE_BITS /\ j \in Nat /\ i \in Nat /\ i <= j /\ j <= MAX_SCORE_BITS /\ i - 1 = MAX_SCORE_BITS - g
      BY <1>0, <3>3
    <3> HIDE DEF i, j
    <3>5. PowerOf2[i] <= PowerOf2[j]
      BY <3>4, PowerGrows
    <3>6. PowerOf2[i] = 2 * PowerOf2[MAX_SCORE_BITS - g]
      BY <3>4, PowerIs
    <3>7. U(n) = PowerOf2[j] /\ U(n + 1) = PowerOf2[MAX_SCORE_BITS - g] /\ U(n + 1) \in Nat
      BY <1>0, <2>1, <3>1, <3>2 DEF j
    <3> HIDE DEF U
    <3> QED BY <3>5, <3>6, <3>7
  <2>4. PICK x \in Nat : x = V[n]
    BY <2>1
  <2>5. PICK u \in Nat : u = U(n)
    BY <1>0, <2>1
  <2>6. PICK v \in Nat : v = U(n + 1)
    BY <1>0, <2>1
  <2>7. PICK y \in Nat : y = V[k]
    OBVIOUS
  <2>8. PICK w \in Nat : w = U(k)
    BY <1>0
  <2>9. y <= x /\ x + u <= y + w
    BY <1>2, <2>4, <2>5, <2>7, <2>8
  <2> HIDE DEF U
  <2>10. v + v <= u /\ V[n + 1] = x + v
    BY <2>2, <2>3, <2>4, <2>5, <2>6
  <2>11. y <= x + v /\ (x + v) + v <= y + w
    BY <2>9, <2>10
  <2> QED BY <2>1, <2>6, <2>7, <2>8, <2>10, <2>11
<1> HIDE DEF S
<1>z. k \in Nat /\ hi \in Nat /\ hi \in k .. hi
  OBVIOUS
<1>3. \A n \in k .. hi : n \in S
  BY <1>1, <1>2, <1>z, IntervalInduction
<1>4. hi \in S
  BY <1>3, <1>z
<1> QED BY <1>4 DEF S

\* The function of ScoreIs with the places as a function
LEMMA ScoreParts ==
    ASSUME NEW b \in Chains, NEW a \in Chains, InChain(a, b), ScoreBits(b, a) <= MAX_SCORE_BITS
    PROVE  \E V \in [Level(a) .. Level(b) -> Nat], B \in [Level(a) .. Level(b) -> 1 .. MAX_SCORE_BITS] :
              /\ B[Level(a)] = 1 /\ V[Level(a)] = PowerOf2[MAX_SCORE_BITS - 1]
              /\ \A lev \in Level(a) + 1 .. Level(b) :
                    /\ B[lev] = B[lev - 1] + (Skip(AncestorAt(b, lev)) + 1) /\ B[lev - 1] < B[lev]
                    /\ V[lev] = V[lev - 1] + PowerOf2[MAX_SCORE_BITS - B[lev]]
              /\ CalcSkipScore(b, a) = V[Level(b)]
<1> DEFINE low == Level(a)
           hi == Level(b)
           B == [lev \in low .. hi |-> Bits(b, a, lev)]
<1>0. low \in Nat /\ hi \in Nat /\ low <= hi /\ MAX_SCORE_BITS \in Nat
  BY ParamsAssumption DEF Chains, Level, InChain
<1>1. /\ Bits(b, a, low) = 1 /\ Bits(b, a, hi) = ScoreBits(b, a)
      /\ \A lev \in low .. hi : Bits(b, a, lev) \in Nat \ {0}
      /\ \A lev \in low + 1 .. hi : Bits(b, a, lev) = Bits(b, a, lev - 1) + (Skip(AncestorAt(b, lev)) + 1)
      /\ \A i, j \in low .. hi : i <= j => Bits(b, a, i) <= Bits(b, a, j)
  BY <1>0, BitsGrow
<1>2. PICK V \in [low .. hi -> Nat] :
         /\ V[low] = PowerOf2[MAX_SCORE_BITS - 1]
         /\ \A lev \in low + 1 .. hi : V[lev] = V[lev - 1] + PowerOf2[MAX_SCORE_BITS - Bits(b, a, lev)]
         /\ CalcSkipScore(b, a) = V[hi]
  BY ScoreIs
<1>3. \A lev \in low + 1 .. hi : Skip(AncestorAt(b, lev)) \in Nat
  <2>1. \A lev \in low + 1 .. hi : lev \in 1 .. Level(b)
    BY <1>0
  <2> QED BY <2>1, SkipAt
<1>8. \A lev \in low .. hi : Bits(b, a, lev) \in 1 .. MAX_SCORE_BITS
  <2> HIDE DEF low, hi
  <2> SUFFICES ASSUME NEW lev \in low .. hi PROVE Bits(b, a, lev) \in 1 .. MAX_SCORE_BITS
    OBVIOUS
  <2>1. hi \in low .. hi /\ lev <= hi
    BY <1>0
  <2>2. Bits(b, a, lev) <= Bits(b, a, hi) /\ Bits(b, a, lev) \in Nat \ {0} /\ Bits(b, a, hi) \in Nat \ {0}
    BY <1>1, <2>1
  <2> QED BY <1>0, <1>1, <2>2
<1> HIDE DEF low, hi
<1>4. B \in [low .. hi -> 1 .. MAX_SCORE_BITS]
  BY <1>8
<1>5. B[low] = 1
  BY <1>0, <1>1
<1>6. ASSUME NEW lev \in low + 1 .. hi
      PROVE  /\ B[lev] = B[lev - 1] + (Skip(AncestorAt(b, lev)) + 1) /\ B[lev - 1] < B[lev]
             /\ V[lev] = V[lev - 1] + PowerOf2[MAX_SCORE_BITS - B[lev]]
  <2>1. lev \in low .. hi /\ lev - 1 \in low .. hi
    BY <1>0
  <2>2. B[lev] = Bits(b, a, lev) /\ B[lev - 1] = Bits(b, a, lev - 1) /\ B[lev - 1] \in Nat
    BY <1>4, <2>1
  <2> HIDE DEF B
  <2>3. B[lev] = B[lev - 1] + (Skip(AncestorAt(b, lev)) + 1)
    BY <1>1, <2>2
  <2>4. B[lev - 1] < B[lev]
    BY <1>3, <2>2, <2>3
  <2> QED BY <1>2, <2>2, <2>3, <2>4
<1> HIDE DEF B
<1> QED BY <1>2, <1>4, <1>5, <1>6 DEF low, hi

\* A score is a number below 2^MAX_SCORE_BITS, and not zero when the bits of a chain on top fit
LEMMA ScoreRange ==
    ASSUME NEW b \in Chains, NEW a \in Chains
    PROVE  /\ CalcSkipScore(b, a) \in Nat /\ CalcSkipScore(b, a) <= PowerOf2[MAX_SCORE_BITS]
           /\ InChain(a, b) /\ ScoreBits(b, a) <= MAX_SCORE_BITS => CalcSkipScore(b, a) > 0
           /\ CalcSkipScore(b, a) > 0 => InChain(a, b) /\ ScoreBits(b, a) <= MAX_SCORE_BITS
<1>0. MAX_SCORE_BITS \in Nat \ {0} /\ PowerOf2[MAX_SCORE_BITS] \in Nat
  BY ParamsAssumption, PowerIs
<1>1. CASE InChain(a, b) /\ ScoreBits(b, a) <= MAX_SCORE_BITS
  <2>1. PICK V \in [Level(a) .. Level(b) -> Nat], B \in [Level(a) .. Level(b) -> 1 .. MAX_SCORE_BITS] :
              /\ B[Level(a)] = 1 /\ V[Level(a)] = PowerOf2[MAX_SCORE_BITS - 1]
              /\ \A lev \in Level(a) + 1 .. Level(b) :
                    /\ B[lev] = B[lev - 1] + (Skip(AncestorAt(b, lev)) + 1) /\ B[lev - 1] < B[lev]
                    /\ V[lev] = V[lev - 1] + PowerOf2[MAX_SCORE_BITS - B[lev]]
              /\ CalcSkipScore(b, a) = V[Level(b)]
    BY <1>1, ScoreParts
  <2> DEFINE low == Level(a)
             hi == Level(b)
  <2>2. low \in Nat /\ hi \in Nat /\ low <= hi /\ low \in low .. hi /\ hi \in low .. hi
    BY <1>1 DEF Chains, Level, InChain
  <2>3. V[low] <= V[hi] /\ V[hi] + PowerOf2[MAX_SCORE_BITS - B[hi]] <= V[low] + PowerOf2[MAX_SCORE_BITS - B[low]]
    <3> HIDE DEF low, hi
    <3> QED BY <2>1, <2>2, LowerPlaces DEF low, hi
  <2>4. PICK x \in Nat : x = V[hi]
    BY <2>2
  <2>5. MAX_SCORE_BITS - B[hi] \in 0 .. MAX_SCORE_BITS /\ MAX_SCORE_BITS - 1 \in 0 .. MAX_SCORE_BITS
    <3>1. PICK e \in 1 .. MAX_SCORE_BITS : e = B[hi]
      BY <2>2
    <3> QED BY <1>0, <3>1
  <2>6. PICK u \in Nat : u = PowerOf2[MAX_SCORE_BITS - B[hi]]
    BY <2>5, PowerIs
  <2>7. PICK v \in Nat \ {0} : v = PowerOf2[MAX_SCORE_BITS - 1]
    BY <2>5, PowerPositive
  <2>8. PowerOf2[MAX_SCORE_BITS] = 2 * v
    BY <1>0, <2>7, PowerIs
  <2>9. v <= x /\ x + u <= v + v
    BY <2>1, <2>3, <2>4, <2>6, <2>7
  <2>10. x \in Nat /\ x <= 2 * v /\ x > 0
    BY <2>9
  <2>11. CalcSkipScore(b, a) = x
    BY <2>1, <2>4
  <2> QED BY <1>1, <2>8, <2>10, <2>11
<1>2. CASE ~(InChain(a, b) /\ ScoreBits(b, a) <= MAX_SCORE_BITS)
  <2>1. CalcSkipScore(b, a) = 0
    <3>1. CASE ~InChain(a, b)
      BY <3>1 DEF CalcSkipScore
    <3>2. CASE InChain(a, b)
      <4>1. Level(a) <= Level(b) /\ Level(a) \in Nat /\ Level(b) \in Nat
        BY <3>2 DEF InChain, Chains, Level
      <4>2. ScoreBits(b, a) \in Nat
        BY <4>1, BitsGrow
      <4>3. ScoreBits(b, a) > MAX_SCORE_BITS
        BY <1>0, <1>2, <3>2, <4>2
      <4> QED BY <4>3 DEF CalcSkipScore
    <3> QED BY <3>1, <3>2
  <2> QED BY <1>0, <1>2, <2>1
<1> QED BY <1>1, <1>2

\* Where two chains have the same signers they skip the same
LEMMA EqualSkips ==
    ASSUME NEW x \in Chains, NEW y \in Chains, NEW lev \in 1 .. Level(x), lev <= Level(y),
           SignerAt(x, lev - 1) = SignerAt(y, lev - 1), SignerAt(x, lev) = SignerAt(y, lev)
    PROVE  Skip(AncestorAt(x, lev)) = Skip(AncestorAt(y, lev))
<1>1. lev \in 1 .. Level(y)
  BY DEF Chains, Level
<1>2. Skip(AncestorAt(x, lev)) = ComputeSkip(SignerAt(x, lev - 1), SignerAt(x, lev))
  BY SkipAt
<1>3. Skip(AncestorAt(y, lev)) = ComputeSkip(SignerAt(y, lev - 1), SignerAt(y, lev))
  BY <1>1, SkipAt
<1> QED BY <1>2, <1>3

(* Of two chains above the last indelible block, the one that skips fewer    *)
(* witnesses where their signers first differ has the higher score, whatever *)
(* follows.                                                                  *)
LEMMA FewerSkipsWin ==
    ASSUME NEW x \in Chains, NEW y \in Chains, NEW a \in Chains, InChain(a, x), InChain(a, y),
           ScoreBits(x, a) <= MAX_SCORE_BITS,
           NEW k \in Level(a) + 1 .. Level(x), k <= Level(y),
           \A i \in 0 .. k - 1 : SignerAt(x, i) = SignerAt(y, i),
           Skip(AncestorAt(x, k)) < Skip(AncestorAt(y, k))
    PROVE  CalcSkipScore(y, a) < CalcSkipScore(x, a)
<1>1. CalcSkipScore(x, a) \in Nat /\ CalcSkipScore(x, a) > 0 /\ CalcSkipScore(y, a) \in Nat
  BY ScoreRange
<1>2. CASE ~(ScoreBits(y, a) <= MAX_SCORE_BITS)
  <2>1. ~(CalcSkipScore(y, a) > 0)
    BY <1>2, ScoreRange
  <2> QED BY <1>1, <2>1
<1>3. CASE ScoreBits(y, a) <= MAX_SCORE_BITS
  <2> DEFINE low == Level(a)
             hx == Level(x)
             hy == Level(y)
  <2>0. low \in Nat /\ hx \in Nat /\ hy \in Nat /\ MAX_SCORE_BITS \in Nat
    BY ParamsAssumption DEF Chains, Level
  <2>1. PICK V \in [low .. hx -> Nat], B \in [low .. hx -> 1 .. MAX_SCORE_BITS] :
              /\ B[low] = 1 /\ V[low] = PowerOf2[MAX_SCORE_BITS - 1]
              /\ \A lev \in low + 1 .. hx :
                    /\ B[lev] = B[lev - 1] + (Skip(AncestorAt(x, lev)) + 1) /\ B[lev - 1] < B[lev]
                    /\ V[lev] = V[lev - 1] + PowerOf2[MAX_SCORE_BITS - B[lev]]
              /\ CalcSkipScore(x, a) = V[hx]
    BY ScoreParts
  <2>2. PICK W \in [low .. hy -> Nat], C \in [low .. hy -> 1 .. MAX_SCORE_BITS] :
              /\ C[low] = 1 /\ W[low] = PowerOf2[MAX_SCORE_BITS - 1]
              /\ \A lev \in low + 1 .. hy :
                    /\ C[lev] = C[lev - 1] + (Skip(AncestorAt(y, lev)) + 1) /\ C[lev - 1] < C[lev]
                    /\ W[lev] = W[lev - 1] + PowerOf2[MAX_SCORE_BITS - C[lev]]
              /\ CalcSkipScore(y, a) = W[hy]
    BY <1>3, ScoreParts
  <2>s. \A lev \in low + 1 .. k - 1 : Skip(AncestorAt(x, lev)) = Skip(AncestorAt(y, lev))
    <3> SUFFICES ASSUME NEW lev \in low + 1 .. k - 1 PROVE Skip(AncestorAt(x, lev)) = Skip(AncestorAt(y, lev))
      OBVIOUS
    <3>1. lev \in 1 .. Level(x) /\ lev <= Level(y) /\ lev - 1 \in 0 .. k - 1 /\ lev \in 0 .. k - 1
      BY <2>0
    <3> QED BY <3>1, EqualSkips
  <2>k. Skip(AncestorAt(x, k)) \in Nat /\ Skip(AncestorAt(y, k)) \in Nat
    <3>1. k \in 1 .. Level(x) /\ k \in 1 .. Level(y)
      BY <2>0
    <3> QED BY <3>1, SkipAt
  <2> HIDE DEF low, hx, hy
  <2>h. k \in low + 1 .. hx /\ k \in low + 1 .. hy /\ k - 1 \in low .. hx /\ k - 1 \in low .. hy /\ k \in low .. hx /\ k \in low .. hy
        /\ k \in Nat /\ low <= k - 1
    BY <2>0 DEF low, hx, hy
  <2> DEFINE S == {n \in low .. k - 1 : B[n] = C[n] /\ V[n] = W[n]}
  <2>3. low \in S
    BY <2>0, <2>1, <2>2, <2>h
  <2>4. ASSUME NEW n \in low .. (k - 1) - 1, n \in S PROVE n + 1 \in S
    <3>1. /\ n + 1 \in low .. k - 1 /\ n + 1 \in low + 1 .. hx /\ n + 1 \in low + 1 .. hy /\ n + 1 \in low + 1 .. k - 1
          /\ (n + 1) - 1 = n
      BY <2>0, <2>h
    <3>2. B[n + 1] = B[n] + (Skip(AncestorAt(x, n + 1)) + 1) /\ C[n + 1] = C[n] + (Skip(AncestorAt(y, n + 1)) + 1)
      BY <2>1, <2>2, <3>1
    <3>3. V[n + 1] = V[n] + PowerOf2[MAX_SCORE_BITS - B[n + 1]] /\ W[n + 1] = W[n] + PowerOf2[MAX_SCORE_BITS - C[n + 1]]
      BY <2>1, <2>2, <3>1
    <3>4. B[n] = C[n] /\ V[n] = W[n] /\ Skip(AncestorAt(x, n + 1)) = Skip(AncestorAt(y, n + 1))
      BY <2>4, <2>s, <3>1
    <3>5. B[n + 1] = C[n + 1]
      BY <3>2, <3>4
    <3>6. V[n + 1] = W[n + 1]
      BY <3>3, <3>4, <3>5
    <3> QED BY <3>1, <3>5, <3>6
  <2> HIDE DEF S
  <2>5. \A n \in low .. k - 1 : n \in S
    <3>1. k - 1 \in Nat
      BY <2>0, <2>h
    <3> QED BY <2>0, <2>3, <2>4, <3>1, IntervalInduction
  <2>6. B[k - 1] = C[k - 1] /\ V[k - 1] = W[k - 1]
    <3>1. k - 1 \in low .. k - 1
      BY <2>0, <2>h
    <3> QED BY <2>5, <3>1 DEF S
  <2>7. PICK p \in 1 .. MAX_SCORE_BITS : p = B[k]
    BY <2>h
  <2>8. PICK q \in 1 .. MAX_SCORE_BITS : q = C[k]
    BY <2>h
  <2>9. p < q
    <3>1. PICK r \in 1 .. MAX_SCORE_BITS : r = B[k - 1]
      BY <2>h
    <3>2. PICK s \in Nat : s = Skip(AncestorAt(x, k))
      BY <2>k
    <3>3. PICK t \in Nat : t = Skip(AncestorAt(y, k))
      BY <2>k
    <3>4. p = r + (s + 1)
      BY <2>1, <2>h, <2>7, <3>1, <3>2
    <3>5. q = r + (t + 1)
      BY <2>2, <2>6, <2>h, <2>8, <3>1, <3>3
    <3>6. s < t
      BY <3>2, <3>3
    <3> QED BY <3>4, <3>5, <3>6
  <2>10. PICK u \in Nat \ {0} : u = PowerOf2[MAX_SCORE_BITS - q]
    <3>1. MAX_SCORE_BITS - q \in 0 .. MAX_SCORE_BITS
      BY <2>0
    <3> QED BY <3>1, PowerPositive
  <2>11. PICK v \in Nat : v = PowerOf2[MAX_SCORE_BITS - p] /\ u + u <= v
    <3> DEFINE i == (MAX_SCORE_BITS - q) + 1
               j == MAX_SCORE_BITS - p
    <3>1. i \in 1 .. MAX_SCORE_BITS /\ j \in 0 .. MAX_SCORE_BITS /\ j \in Nat /\ i \in Nat /\ i <= j /\ j <= MAX_SCORE_BITS
          /\ i - 1 = MAX_SCORE_BITS - q
      BY <2>0, <2>9
    <3> HIDE DEF i, j
    <3>2. PowerOf2[i] <= PowerOf2[j]
      BY <3>1, PowerGrows
    <3>3. PowerOf2[i] = 2 * u
      BY <2>10, <3>1, PowerIs
    <3>4. PowerOf2[j] \in Nat
      BY <3>1, PowerIs
    <3>5. u + u <= PowerOf2[j]
      BY <3>2, <3>3, <3>4
    <3> QED BY <3>4, <3>5 DEF j
  <2>12. PICK z \in Nat : z = V[k - 1]
    BY <2>h
  <2>13. V[k] = z + v
    BY <2>1, <2>7, <2>11, <2>12, <2>h
  <2>14. W[k] = z + u
    BY <2>2, <2>6, <2>8, <2>10, <2>12, <2>h
  <2>15. V[k] <= V[hx]
    BY <2>0, <2>1, <2>h, LowerPlaces
  <2>16. W[hy] + PowerOf2[MAX_SCORE_BITS - C[hy]] <= W[k] + PowerOf2[MAX_SCORE_BITS - C[k]]
    BY <2>0, <2>2, <2>h, LowerPlaces
  <2>17. PICK e \in Nat \ {0} : e = PowerOf2[MAX_SCORE_BITS - C[hy]]
    <3>1. hy \in low .. hy
      BY <2>0, <2>h
    <3>2. PICK g \in 1 .. MAX_SCORE_BITS : g = C[hy]
      BY <3>1
    <3>3. MAX_SCORE_BITS - g \in 0 .. MAX_SCORE_BITS
      BY <2>0
    <3> QED BY <3>2, <3>3, PowerPositive
  <2>18. PICK f \in Nat : f = W[hy]
    <3>1. hy \in low .. hy
      BY <2>0, <2>h
    <3> QED BY <3>1
  <2>19. PICK g \in Nat : g = V[hx]
    <3>1. hx \in low .. hx
      BY <2>0, <2>h
    <3> QED BY <3>1
  <2>20. f + e <= (z + u) + u /\ z + v <= g
    BY <2>8, <2>10, <2>13, <2>14, <2>15, <2>16, <2>17, <2>18, <2>19
  <2>21. f < g
    BY <2>11, <2>20
  <2> QED BY <2>1, <2>2, <2>18, <2>19, <2>21
<1> QED BY <1>2, <1>3

\* A nonempty set of bounded numbers has a greatest element
LEMMA GreatestNumber ==
    ASSUME NEW T \in SUBSET Nat, T # {}, NEW M \in Nat, \A n \in T : n <= M
    PROVE  \E n \in T : \A m \in T : m <= n
<1> DEFINE R == {n \in 0 .. M : M - n \in T}
<1>1. R \in SUBSET Nat
  OBVIOUS
<1>2. \A n \in T : M - n \in R /\ M - (M - n) = n
  OBVIOUS
<1>3. PICK r \in R : \A s \in R : r <= s
  <2>1. R # {}
    BY <1>2
  <2> HIDE DEF R
  <2> QED BY <1>1, <2>1, LeastNumber
<1>4. r \in 0 .. M /\ M - r \in T
  BY <1>3
<1>5. \A m \in T : m <= M - r
  <2> SUFFICES ASSUME NEW m \in T PROVE m <= M - r
    OBVIOUS
  <2>1. r <= M - m /\ m \in Nat /\ m <= M
    BY <1>2, <1>3
  <2> QED BY <1>4, <2>1
<1> QED BY <1>4, <1>5

\* FindBestOwnScore is no less than the score of any block this witness signed
LEMMA BestOwn ==
    ASSUME NEW w, valid[w] \subseteq Chains, last[w] \in Chains
    PROVE  /\ FindBestOwnScore(w) \in Nat
           /\ \A b \in valid[w] : b # Genesis /\ Signer(b) = w => CalcSkipScore(b, last[w]) <= FindBestOwnScore(w)
<1> DEFINE own == {b \in valid[w] \ {Genesis} : Signer(b) = w}
           scores == {CalcSkipScore(b, last[w]) : b \in own} \cup {0}
<1>1. scores \in SUBSET Nat /\ scores # {} /\ \A s \in scores : s <= PowerOf2[MAX_SCORE_BITS]
  <2>1. \A b \in own : CalcSkipScore(b, last[w]) \in Nat /\ CalcSkipScore(b, last[w]) <= PowerOf2[MAX_SCORE_BITS]
    BY ScoreRange
  <2>2. PowerOf2[MAX_SCORE_BITS] \in Nat
    BY PowerIs, ParamsAssumption
  <2> QED BY <2>1, <2>2
<1>2. PowerOf2[MAX_SCORE_BITS] \in Nat
  BY PowerIs, ParamsAssumption
<1>3. FindBestOwnScore(w) = CHOOSE s \in scores : \A t \in scores : t <= s
  BY DEF FindBestOwnScore
<1>4. \A b \in own : CalcSkipScore(b, last[w]) \in scores
  OBVIOUS
<1>5. \A b \in valid[w] : b # Genesis /\ Signer(b) = w => b \in own
  OBVIOUS
<1> HIDE DEF own, scores
<1>6. \E s \in scores : \A t \in scores : t <= s
  BY <1>1, <1>2, GreatestNumber
<1>7. FindBestOwnScore(w) \in scores /\ \A t \in scores : t <= FindBestOwnScore(w)
  BY <1>3, <1>6
<1> QED BY <1>1, <1>4, <1>5, <1>7

-----------------------------------------------------------------------------
(* Thresholds.                                                               *)

(* The parameters the protocol is safe for: fewer than half of the witnesses *)
(* are malicious, no threshold is cut off, and the score of every chain that *)
(* is not confirmed yet fits.  Up to 21 witnesses (MAX_NWITNESSES), with     *)
(* MAX_NCONFSIGS of 31 and scores of 64 bits, the last two follow from the   *)
(* first.                                                                    *)
WithinLimits ==
    /\ MaxMal < (NWitnesses + 1) \div 2
    /\ UncappedSkipConfSigs <= MAX_NCONFSIGS
    /\ NWitnesses + MaxMal + 2 * (NWitnesses - NConfSigs) <= MAX_SCORE_BITS

LEMMA Limits ==
    ASSUME WithinLimits
    PROVE  /\ NWitnesses \in Nat \ {0} /\ MaxMal \in Nat /\ NConfSigs \in Nat \ {0}
           /\ MaxMal < NConfSigs /\ NConfSigs <= NWitnesses
           /\ 2 * NConfSigs \in {NWitnesses + MaxMal + 1, NWitnesses + MaxMal + 2}
           /\ NSkipConfSigs = NWitnesses + MaxMal
           /\ NSeqConfSigs = IF MaxMal > 0 THEN NWitnesses + MaxMal ELSE NConfSigs
<1>1. NWitnesses \in Nat \ {0} /\ MaxMal \in Nat /\ MAX_NCONFSIGS \in Nat /\ MaxMal < (NWitnesses + 1) \div 2
  BY ParamsAssumption DEF WithinLimits
<1>2. EffectiveMaxMal = MaxMal
  BY <1>1 DEF EffectiveMaxMal
<1>3. MaxMal < NWitnesses
  BY <1>1
<1> DEFINE d == NWitnesses - MaxMal
<1>4. d \in Nat \ {0} /\ NWitnesses = d + MaxMal
  BY <1>1, <1>3
<1>5. UncappedConfSigs = d \div 2 + MaxMal + 1 /\ UncappedSkipConfSigs = NWitnesses + MaxMal
  BY <1>2 DEF UncappedConfSigs, UncappedSkipConfSigs
<1> HIDE DEF d
<1>6. PICK h \in Nat : h = d \div 2
  BY <1>4
<1>7. 2 * h \in {d, d - 1}
  BY <1>4, <1>6
<1>8. UncappedConfSigs = h + MaxMal + 1 /\ h + MaxMal + 1 <= NWitnesses /\ NWitnesses + MaxMal <= MAX_NCONFSIGS
  BY <1>1, <1>4, <1>5, <1>6, <1>7 DEF WithinLimits
<1>9. NConfSigs = h + MaxMal + 1
  BY <1>1, <1>8 DEF NConfSigs, AtMost
<1>10. NSkipConfSigs = NWitnesses + MaxMal
  BY <1>1, <1>5, <1>8 DEF NSkipConfSigs, AtMost
<1>11. NSeqConfSigs = IF MaxMal > 0 THEN NWitnesses + MaxMal ELSE NConfSigs
  BY <1>1, <1>2, <1>5, <1>8, <1>9 DEF NSeqConfSigs, AtMost
<1>12. 2 * NConfSigs \in {NWitnesses + MaxMal + 1, NWitnesses + MaxMal + 2}
  BY <1>1, <1>4, <1>7, <1>9
<1> QED BY <1>1, <1>8, <1>9, <1>10, <1>11, <1>12

(* With the constants of the code nothing but the number of malicious        *)
(* witnesses is left to assume.                                              *)
LEMMA LimitsOfTheCode ==
    ASSUME MaxMal < (NWitnesses + 1) \div 2, NWitnesses <= 21, MAX_NCONFSIGS = 31, MAX_SCORE_BITS = 64
    PROVE  WithinLimits
<1>1. NWitnesses \in Nat \ {0} /\ MaxMal \in Nat
  BY ParamsAssumption
<1>2. EffectiveMaxMal = MaxMal
  BY <1>1 DEF EffectiveMaxMal
<1>3. MaxMal <= 10 /\ MaxMal < NWitnesses
  BY <1>1
<1>4. UncappedSkipConfSigs = NWitnesses + MaxMal /\ NWitnesses + MaxMal <= 31
  BY <1>1, <1>2, <1>3 DEF UncappedSkipConfSigs
<1> DEFINE d == NWitnesses - MaxMal
<1>5. d \in Nat /\ NWitnesses = d + MaxMal
  BY <1>1, <1>3
<1> HIDE DEF d
<1>6. UncappedConfSigs = d \div 2 + MaxMal + 1
  BY <1>2 DEF UncappedConfSigs, d
<1>7. PICK h \in Nat : h = d \div 2
  BY <1>5
<1>8. 2 * h <= d /\ d <= 2 * h + 1 /\ UncappedConfSigs = h + MaxMal + 1
  BY <1>5, <1>6, <1>7
<1>9. NConfSigs = h + MaxMal + 1
  BY <1>1, <1>3, <1>4, <1>5, <1>8 DEF NConfSigs, AtMost
<1>10. NWitnesses + MaxMal + 2 * (NWitnesses - NConfSigs) <= 64
  BY <1>1, <1>3, <1>4, <1>5, <1>8, <1>9
<1> QED BY <1>4, <1>10 DEF WithinLimits

\* The signers of a chain and of all the chains below it are in order
LawfulChain(b) == b \in Chains /\ \A lev \in 1 .. Level(b) : ~CheckBadSigOrder(AncestorAt(b, lev))

\* Any NConfSigs consecutive signatures of a lawful chain are of different witnesses
LEMMA DifferentSigners ==
    ASSUME NEW b, LawfulChain(b), NEW i \in 1 .. Level(b), NEW j \in 1 .. Level(b), i < j, j - i < NConfSigs
    PROVE  SignerAt(b, i) # SignerAt(b, j)
<1> DEFINE c == AncestorAt(b, j)
<1>0. b \in Chains /\ Level(b) \in Nat /\ j \in 0 .. Level(b) /\ ~CheckBadSigOrder(c)
  BY DEF LawfulChain, Chains, Level
<1>1. c \in Chains /\ Level(c) = j /\ c[i] = b[i] /\ c[j] = b[j]
  BY <1>0, Ancestors
<1> HIDE DEF c
<1>2. i \in 1 .. Level(c) /\ i < Level(c) /\ Level(c) - i < NConfSigs
  BY <1>1
<1>3. c[i][1] # c[Level(c)][1]
  BY <1>0, <1>1, <1>2, InOrder
<1> QED BY <1>1, <1>3 DEF SignerAt

\* The order rule, as a bound on what is skipped over the last NConfSigs levels
LEMMA SkipsInWindow ==
    ASSUME NEW b, LawfulChain(b), NEW i \in 0 .. Level(b), NEW j \in 0 .. Level(b), i <= j, j - i <= NConfSigs,
           NConfSigs <= NWitnesses
    PROVE  Skipped(b, j) - Skipped(b, i) <= NWitnesses - NConfSigs
<1> DEFINE lo == IF j > NConfSigs THEN j - NConfSigs ELSE 0
<1>0. b \in Chains /\ Level(b) \in Nat /\ NConfSigs \in Nat \ {0} /\ NWitnesses \in Nat
  BY Thresholds, ParamsAssumption DEF LawfulChain, Chains, Level
<1>1. lo \in 0 .. Level(b) /\ lo <= i /\ lo <= j
  BY <1>0
<1>2. /\ Skipped(b, i) \in Nat /\ Skipped(b, j) \in Nat /\ Skipped(b, lo) \in Nat
      /\ Skipped(b, lo) <= Skipped(b, i) /\ Skipped(b, lo) <= Skipped(b, j)
      /\ SkipSum(AncestorAt(b, j), lo) = Skipped(b, j) - Skipped(b, lo)
  <2> HIDE DEF lo
  <2> QED BY <1>0, <1>1, SkipSums
<1>3. CASE j = 0
  <2>1. i = 0
    BY <1>3
  <2>2. Skipped(b, j) - Skipped(b, i) = 0
    BY <1>2, <1>3, <2>1
  <2> QED BY <1>0, <2>2
<1>4. CASE j # 0
  <2> DEFINE c == AncestorAt(b, j)
  <2>1. ~CheckBadSigOrder(c)
    <3>1. j \in 1 .. Level(b)
      BY <1>4
    <3> QED BY <3>1 DEF LawfulChain
  <2>2. Level(c) = j
    BY <1>0, Ancestors
  <2> HIDE DEF c
  <2>3. ~(SkipSum(c, lo) + NConfSigs > NWitnesses)
    BY <2>1, <2>2 DEF CheckBadSigOrder
  <2> HIDE DEF lo
  <2>4. PICK x \in Nat : x = Skipped(b, i)
    BY <1>2
  <2>5. PICK y \in Nat : y = Skipped(b, j)
    BY <1>2
  <2>6. PICK z \in Nat : z = Skipped(b, lo)
    BY <1>2
  <2>7. z <= x /\ z <= y /\ ~((y - z) + NConfSigs > NWitnesses)
    BY <1>2, <2>3, <2>4, <2>5, <2>6 DEF c
  <2>8. y - x <= NWitnesses - NConfSigs
    BY <1>0, <2>7
  <2> QED BY <2>4, <2>5, <2>8
<1> QED BY <1>3, <1>4

\* The score of a chain that is less than NWitnesses + MaxMal levels above a block fits
LEMMA FitsAbove ==
    ASSUME WithinLimits, NEW b, LawfulChain(b), NEW a \in Chains, InChain(a, b), Level(b) < Level(a) + NWitnesses + MaxMal
    PROVE  ScoreBits(b, a) <= MAX_SCORE_BITS
<1> DEFINE low == Level(a)
           hi == Level(b)
           s(lev) == Skipped(b, lev)
<1>0. b \in Chains /\ low \in Nat /\ hi \in Nat /\ low <= hi /\ MAX_SCORE_BITS \in Nat
  BY ParamsAssumption DEF LawfulChain, Chains, Level, InChain
<1>1. /\ NWitnesses \in Nat /\ MaxMal \in Nat /\ NConfSigs \in Nat \ {0} /\ NConfSigs <= NWitnesses
      /\ NWitnesses + MaxMal + 1 <= 2 * NConfSigs
      /\ NWitnesses + MaxMal + 2 * (NWitnesses - NConfSigs) <= MAX_SCORE_BITS
  <2>1. NWitnesses + MaxMal + 2 * (NWitnesses - NConfSigs) <= MAX_SCORE_BITS
    BY DEF WithinLimits
  <2>2. /\ NWitnesses \in Nat /\ MaxMal \in Nat /\ NConfSigs \in Nat \ {0} /\ NConfSigs <= NWitnesses
        /\ 2 * NConfSigs \in {NWitnesses + MaxMal + 1, NWitnesses + MaxMal + 2}
    BY Limits
  <2> QED BY <2>1, <2>2
<1>2. ScoreBits(b, a) = 1 + (hi - low) + (s(hi) - s(low))
  <2>1. Bits(b, a, hi) = ScoreBits(b, a)
    BY <1>0, BitsGrow
  <2> QED BY <2>1 DEF Bits
<1>3. hi < low + NWitnesses + MaxMal
  OBVIOUS
<1>4. /\ \A lev \in 0 .. hi : s(lev) \in Nat
      /\ \A i, j \in 0 .. hi : i <= j => s(i) <= s(j)
      /\ \A i, j \in 0 .. hi : i <= j /\ j - i <= NConfSigs => s(j) - s(i) <= NWitnesses - NConfSigs
  BY <1>0, <1>1, SkipSums, SkipsInWindow
<1> HIDE DEF s, low, hi
<1>5. PICK z \in Nat : z = s(low)
  BY <1>0, <1>4
<1>6. PICK y \in Nat : y = s(hi)
  BY <1>0, <1>4
<1>7. y - z <= 2 * (NWitnesses - NConfSigs)
  <2>1. CASE hi - low <= NConfSigs
    <3>1. y - z <= NWitnesses - NConfSigs
      BY <1>0, <1>4, <1>5, <1>6, <2>1
    <3> QED BY <1>1, <3>1
  <2>2. CASE ~(hi - low <= NConfSigs)
    <3> DEFINE mid == hi - NConfSigs
    <3>1. mid \in 0 .. hi /\ low <= mid /\ mid <= hi /\ hi - mid <= NConfSigs /\ mid - low <= NConfSigs /\ low \in 0 .. hi
      BY <1>0, <1>1, <1>3, <2>2
    <3> HIDE DEF mid
    <3>2. PICK x \in Nat : x = s(mid)
      BY <1>4, <3>1
    <3>3. y - x <= NWitnesses - NConfSigs
      BY <1>0, <1>4, <1>6, <3>1, <3>2
    <3>4. x - z <= NWitnesses - NConfSigs
      BY <1>4, <1>5, <3>1, <3>2
    <3> QED BY <1>1, <3>3, <3>4
  <2> QED BY <2>1, <2>2
<1>8. ScoreBits(b, a) = 1 + (hi - low) + (y - z)
  BY <1>2, <1>5, <1>6
<1>9. 1 + (hi - low) + (y - z) <= MAX_SCORE_BITS
  BY <1>0, <1>1, <1>3, <1>7
<1> QED BY <1>8, <1>9

-----------------------------------------------------------------------------
(* Two confirmed blocks at one level.                                        *)

\* The signers of x and y agree below some level, at which x skips fewer witnesses than y
Beats(x, y) ==
    \E k \in 1 .. Level(x) :
        /\ k <= Level(y)
        /\ \A i \in 0 .. k - 1 : SignerAt(x, i) = SignerAt(y, i)
        /\ Skip(AncestorAt(x, k)) < Skip(AncestorAt(y, k))

\* w signs once at a level
OnceBy(w, D) == \A b, c \in D : Signer(b) = w /\ Signer(c) = w /\ Level(b) = Level(c) => b = c

\* x branches off the chain of Y at level l
BranchesAt(x, Y, l) ==
    l <= Level(x) /\ AncestorAt(x, l - 1) = AncestorAt(Y, l - 1) /\ AncestorAt(x, l) # AncestorAt(Y, l)

(* A witness in G that signed on the chain of Y, above level l, did not sign *)
(* before that a better chain that branches off at level l.                  *)
Later(Y, l, G, D) ==
    \A w \in G : \A j \in l .. Level(Y) : \A x \in D :
        SignerAt(Y, j) = w /\ Signer(x) = w /\ BranchesAt(x, Y, l) /\ Beats(x, AncestorAt(Y, j)) => j <= Level(x)

\* Blocks D, signed in order, of witnesses of whom those in G keep the rules
Signed(D, G) ==
    /\ \A b \in D : LawfulChain(b) /\ \A lev \in 1 .. Level(b) : AncestorAt(b, lev) \in D
    /\ G \subseteq Witnesses /\ Cardinality(Witnesses \ G) <= MaxMal
    /\ \A w \in G : OnceBy(w, D)

LEMMA SignedChains ==
    ASSUME NEW D, NEW G, Signed(D, G), NEW b \in D
    PROVE  /\ LawfulChain(b) /\ b \in Chains /\ Level(b) \in Nat
           /\ \A lev \in 1 .. Level(b) : AncestorAt(b, lev) \in D
BY DEF Signed, LawfulChain, Chains, Level

\* The signers of an ancestor are those of the chain
LEMMA SignersOfAncestor ==
    ASSUME NEW b \in Chains, NEW lev \in 0 .. Level(b), NEW i \in 0 .. lev
    PROVE  SignerAt(AncestorAt(b, lev), i) = SignerAt(b, i)
BY Ancestors DEF SignerAt

\* Chains with a common ancestor have the same signers up to it
LEMMA CommonSigners ==
    ASSUME NEW x \in Chains, NEW y \in Chains, NEW lev \in 0 .. Level(x), lev <= Level(y),
           AncestorAt(x, lev) = AncestorAt(y, lev), NEW i \in 0 .. lev
    PROVE  SignerAt(x, i) = SignerAt(y, i)
<1>1. lev \in 0 .. Level(y)
  BY DEF Chains, Level
<1>2. SignerAt(AncestorAt(x, lev), i) = SignerAt(x, i)
  BY SignersOfAncestor
<1>3. SignerAt(AncestorAt(y, lev), i) = SignerAt(y, i)
  BY <1>1, SignersOfAncestor
<1> QED BY <1>2, <1>3

\* A witness that signed on both of two branches at one level does not keep the rules
LEMMA NoTwice ==
    ASSUME NEW D, NEW G, Signed(D, G), NEW X \in D, NEW Y \in D, NEW l \in 1 .. Level(X),
           AncestorAt(X, l) # AncestorAt(Y, l), NEW i \in l .. Level(X), i <= Level(Y), SignerAt(X, i) = SignerAt(Y, i)
    PROVE  SignerAt(X, i) \notin G
<1>1. X \in Chains /\ Y \in Chains /\ Level(X) \in Nat /\ Level(Y) \in Nat
  BY SignedChains
<1>2. i \in 1 .. Level(X) /\ i \in 1 .. Level(Y) /\ i \in 0 .. Level(X) /\ i \in 0 .. Level(Y) /\ l \in 0 .. i
  BY <1>1
<1>3. AncestorAt(X, i) \in D /\ AncestorAt(Y, i) \in D
  BY <1>2, SignedChains
<1>4. Level(AncestorAt(X, i)) = i /\ Level(AncestorAt(Y, i)) = i
  BY <1>1, <1>2, Ancestors
<1>5. Signer(AncestorAt(X, i)) = SignerAt(X, i) /\ Signer(AncestorAt(Y, i)) = SignerAt(Y, i)
  BY <1>1, <1>2, Signers
<1>6. AncestorAt(AncestorAt(X, i), l) = AncestorAt(X, l) /\ AncestorAt(AncestorAt(Y, i), l) = AncestorAt(Y, l)
  BY <1>1, <1>2, AncestorOfAncestor
<1>7. AncestorAt(X, i) # AncestorAt(Y, i)
  BY <1>6
<1> QED BY <1>3, <1>4, <1>5, <1>7 DEF Signed, OnceBy

\* NConfSigs consecutive levels of a lawful chain have as many signers
LEMMA WindowSigners ==
    ASSUME WithinLimits, NEW b, LawfulChain(b), NEW i \in 1 .. Level(b), i + NConfSigs - 1 <= Level(b),
           NEW W, W = {SignerAt(b, j) : j \in i .. i + NConfSigs - 1}
    PROVE  W \subseteq Witnesses /\ Cardinality(W) = NConfSigs
<1> DEFINE S == i .. i + NConfSigs - 1
           f == [j \in S |-> SignerAt(b, j)]
<1>0. b \in Chains /\ Level(b) \in Nat /\ NConfSigs \in Nat \ {0} /\ i \in Nat
  BY Thresholds DEF LawfulChain, Chains, Level
<1>1. IsFiniteSet(S) /\ Cardinality(S) = NConfSigs
  <2>1. i \in Int /\ i + NConfSigs - 1 \in Int /\ ~(i > i + NConfSigs - 1) /\ (i + NConfSigs - 1) - i + 1 = NConfSigs
    BY <1>0
  <2> QED BY <2>1, FS_Interval
<1>2. \A j \in S : j \in 0 .. Level(b) /\ j \in 1 .. Level(b)
  BY <1>0
<1>3. W \subseteq Witnesses
  BY <1>0, <1>2, Signers
<1>4. \A j, k \in S : j < k => SignerAt(b, j) # SignerAt(b, k)
  <2> SUFFICES ASSUME NEW j \in S, NEW k \in S, j < k PROVE SignerAt(b, j) # SignerAt(b, k)
    OBVIOUS
  <2>1. k - j < NConfSigs
    BY <1>0
  <2> QED BY <1>2, <2>1, DifferentSigners
<1>5. \A j, k \in S : SignerAt(b, j) = SignerAt(b, k) => j = k
  <2> SUFFICES ASSUME NEW j \in S, NEW k \in S, j # k PROVE SignerAt(b, j) # SignerAt(b, k)
    OBVIOUS
  <2>1. j < k \/ k < j
    BY <1>0
  <2> QED BY <1>4, <2>1
<1>6. f \in Surjection(S, W)
  BY DEF Surjection
<1>7. f \in Injection(S, W)
  BY <1>5 DEF Injection, IsInjective
<1> HIDE DEF S, f
<1>8. Cardinality(W) = Cardinality(S)
  BY <1>1, <1>6, <1>7, FS_Surjection
<1> QED BY <1>1, <1>3, <1>8

LEMMA FiniteWitnesses == IsFiniteSet(Witnesses) /\ Cardinality(Witnesses) = NWitnesses
<1>1. 0 \in Int /\ NWitnesses - 1 \in Int /\ ~(0 > NWitnesses - 1) /\ (NWitnesses - 1) - 0 + 1 = NWitnesses
  BY ParamsAssumption
<1> QED BY <1>1, FS_Interval DEF Witnesses

\* Two majorities have one more in common than the malicious witnesses can be
VoteToSpare == 2 * NConfSigs = NWitnesses + MaxMal + 2

(* Two majorities have a witness in common that keeps the rules; when there  *)
(* is one vote to spare, one besides any given witness.                      *)
LEMMA CommonWitness ==
    ASSUME WithinLimits, NEW G \in SUBSET Witnesses, Cardinality(Witnesses \ G) <= MaxMal,
           NEW V \in SUBSET Witnesses, Cardinality(V) = NConfSigs,
           NEW W \in SUBSET Witnesses, Cardinality(W) = NConfSigs, NEW e \in Witnesses
    PROVE  \E w \in G : w \in V /\ w \in W /\ (VoteToSpare => w # e)
<1> DEFINE C == V \cap W
           H == C \cap G
           M == Witnesses \ G
<1>0. /\ NWitnesses \in Nat \ {0} /\ MaxMal \in Nat /\ NConfSigs \in Nat \ {0}
      /\ 2 * NConfSigs \in {NWitnesses + MaxMal + 1, NWitnesses + MaxMal + 2}
  BY Limits
<1>1. /\ IsFiniteSet(V) /\ IsFiniteSet(W) /\ IsFiniteSet(C) /\ IsFiniteSet(H) /\ IsFiniteSet(M) /\ IsFiniteSet(V \cup W)
      /\ IsFiniteSet(H \cup M)
  BY FiniteWitnesses, FS_Subset
<1>2. /\ Cardinality(C) \in Nat /\ Cardinality(H) \in Nat /\ Cardinality(M) \in Nat /\ Cardinality(V \cup W) \in Nat
      /\ Cardinality(H \cap M) \in Nat /\ Cardinality(H \cup M) \in Nat
  <2>1. IsFiniteSet(H \cap M)
    BY <1>1, FS_Subset
  <2> QED BY <1>1, <2>1, FS_CardinalityType
<1>3. Cardinality(V \cup W) = NConfSigs + NConfSigs - Cardinality(C) /\ Cardinality(V \cup W) <= NWitnesses
  <2>1. Cardinality(V \cup W) = Cardinality(V) + Cardinality(W) - Cardinality(V \cap W)
    BY <1>1, FS_Union
  <2>2. Cardinality(V \cup W) <= Cardinality(Witnesses)
    BY FiniteWitnesses, FS_Subset
  <2> QED BY <2>1, <2>2, FiniteWitnesses
<1>4. Cardinality(C) <= Cardinality(H) + Cardinality(M)
  <2>1. C \in SUBSET (H \cup M)
    OBVIOUS
  <2> HIDE DEF C, H, M
  <2>2. Cardinality(C) <= Cardinality(H \cup M)
    BY <1>1, <2>1, FS_Subset
  <2>3. Cardinality(H \cup M) = Cardinality(H) + Cardinality(M) - Cardinality(H \cap M)
    BY <1>1, FS_Union
  <2> QED BY <1>2, <2>2, <2>3
<1>5. Cardinality(M) <= MaxMal
  OBVIOUS
<1>6. \A w \in H : w \in G /\ w \in V /\ w \in W
  OBVIOUS
<1> HIDE DEF C, H, M
<1>7. Cardinality(H) >= 2 * NConfSigs - NWitnesses - MaxMal
  BY <1>0, <1>2, <1>3, <1>4, <1>5
<1>8. Cardinality(H) > 0
  BY <1>0, <1>2, <1>7
<1>9. H # {}
  BY <1>1, <1>8, FS_EmptySet
<1>10. CASE VoteToSpare
  <2>1. Cardinality(H) > 1
    BY <1>0, <1>2, <1>7, <1>10 DEF VoteToSpare
  <2>2. ~(H \subseteq {e})
    <3> SUFFICES ASSUME H \subseteq {e} PROVE FALSE
      OBVIOUS
    <3>1. Cardinality(H) <= Cardinality({e}) /\ Cardinality({e}) = 1
      BY FS_Singleton, FS_Subset
    <3> QED BY <1>2, <2>1, <3>1
  <2>3. PICK w \in H : w # e
    BY <2>2
  <2> QED BY <1>6, <2>3
<1>11. CASE ~VoteToSpare
  BY <1>6, <1>9, <1>11
<1> QED BY <1>10, <1>11

(* The signers of two branches do not agree over a whole majority: the       *)
(* witnesses that would have signed on both are too few.                     *)
LEMMA FirstDifference ==
    ASSUME WithinLimits, NEW D, NEW G, Signed(D, G), NEW X \in D, NEW Y \in D, NEW l \in 1 .. Level(X), l <= Level(Y),
           AncestorAt(X, l - 1) = AncestorAt(Y, l - 1), AncestorAt(X, l) # AncestorAt(Y, l),
           l + NConfSigs - 1 <= Level(X), l + NConfSigs - 1 <= Level(Y)
    PROVE  \E k \in l .. l + NConfSigs - 1 :
              (\A i \in 0 .. k - 1 : SignerAt(X, i) = SignerAt(Y, i)) /\ SignerAt(X, k) # SignerAt(Y, k)
<1> DEFINE I == l .. l + NConfSigs - 1
           T == {k \in I : SignerAt(X, k) # SignerAt(Y, k)}
           W == {SignerAt(X, j) : j \in I}
<1>0. /\ LawfulChain(X) /\ X \in Chains /\ Y \in Chains /\ Level(X) \in Nat /\ Level(Y) \in Nat /\ l \in Nat \ {0}
      /\ NConfSigs \in Nat \ {0} /\ MaxMal \in Nat /\ MaxMal < NConfSigs
  <2>1. NConfSigs \in Nat \ {0} /\ MaxMal \in Nat /\ MaxMal < NConfSigs
    BY Limits
  <2> QED BY <2>1, SignedChains
<1>1. T # {}
  <2> SUFFICES ASSUME T = {} PROVE FALSE
    OBVIOUS
  <2>1. W \subseteq Witnesses /\ Cardinality(W) = NConfSigs
    BY <1>0, WindowSigners
  <2>2. \A w \in W : w \notin G
    <3> SUFFICES ASSUME NEW i \in I PROVE SignerAt(X, i) \notin G
      OBVIOUS
    <3>1. i \in l .. Level(X) /\ i <= Level(Y) /\ SignerAt(X, i) = SignerAt(Y, i)
      BY <1>0
    <3> QED BY <3>1, NoTwice
  <2>3. W \subseteq Witnesses \ G
    BY <2>1, <2>2
  <2>4. IsFiniteSet(Witnesses \ G) /\ Cardinality(Witnesses \ G) \in Nat /\ Cardinality(Witnesses \ G) <= MaxMal
    BY FiniteWitnesses, FS_Subset, FS_CardinalityType DEF Signed
  <2> HIDE DEF W
  <2>5. Cardinality(W) <= Cardinality(Witnesses \ G)
    BY <2>3, <2>4, FS_Subset
  <2> QED BY <1>0, <2>1, <2>4, <2>5
<1>2. PICK k \in T : \A n \in T : k <= n
  <2>1. T \in SUBSET Nat
    BY <1>0
  <2> HIDE DEF T
  <2> QED BY <1>1, <2>1, LeastNumber
<1>3. k \in I /\ SignerAt(X, k) # SignerAt(Y, k)
  BY <1>2
<1>4. ASSUME NEW i \in 0 .. k - 1 PROVE SignerAt(X, i) = SignerAt(Y, i)
  <2>1. CASE i < l
    <3>1. l - 1 \in 0 .. Level(X) /\ l - 1 <= Level(Y) /\ i \in 0 .. l - 1
      BY <1>0, <2>1
    <3> QED BY <1>0, <3>1, CommonSigners
  <2>2. CASE ~(i < l)
    <3>1. i \in I /\ ~(k <= i)
      BY <1>0, <1>3, <2>2
    <3> QED BY <1>2, <3>1
  <2> QED BY <2>1, <2>2
<1> QED BY <1>3, <1>4

\* Blocks of different witnesses on top of blocks of one witness skip different numbers of witnesses
LEMMA SkipsDiffer ==
    ASSUME NEW X \in Chains, NEW Y \in Chains, NEW k \in 1 .. Level(X), k <= Level(Y),
           SignerAt(X, k - 1) = SignerAt(Y, k - 1), SignerAt(X, k) # SignerAt(Y, k)
    PROVE  /\ Skip(AncestorAt(X, k)) \in Nat /\ Skip(AncestorAt(Y, k)) \in Nat
           /\ Skip(AncestorAt(X, k)) # Skip(AncestorAt(Y, k))
<1> DEFINE p == SignerAt(X, k - 1)
           x == SignerAt(X, k)
           y == SignerAt(Y, k)
<1>0. k \in 1 .. Level(Y) /\ k - 1 \in 0 .. Level(X) /\ k \in 0 .. Level(X) /\ k \in 0 .. Level(Y) /\ NWitnesses \in Nat \ {0}
  BY ParamsAssumption DEF Chains, Level
<1>1. p \in Witnesses /\ x \in Witnesses /\ y \in Witnesses
  BY <1>0, Signers
<1>2. Skip(AncestorAt(X, k)) = ComputeSkip(p, x) /\ Skip(AncestorAt(Y, k)) = ComputeSkip(p, y)
  BY <1>0, SkipAt
<1>3. x # y
  OBVIOUS
<1> HIDE DEF p, x, y
<1>4. /\ ComputeSkip(p, x) \in 0 .. NWitnesses - 1 /\ (x = p + 1 + ComputeSkip(p, x) \/ x = p + 1 + ComputeSkip(p, x) - NWitnesses)
      /\ ComputeSkip(p, y) \in 0 .. NWitnesses - 1 /\ (y = p + 1 + ComputeSkip(p, y) \/ y = p + 1 + ComputeSkip(p, y) - NWitnesses)
  BY <1>1, SkipStep
<1>5. ComputeSkip(p, x) # ComputeSkip(p, y)
  <2> SUFFICES ASSUME ComputeSkip(p, x) = ComputeSkip(p, y) PROVE FALSE
    OBVIOUS
  <2>1. PICK d \in 0 .. NWitnesses - 1 : d = ComputeSkip(p, x)
    BY <1>4
  <2>2. (x = p + 1 + d \/ x = p + 1 + d - NWitnesses) /\ (y = p + 1 + d \/ y = p + 1 + d - NWitnesses)
    BY <1>4, <2>1
  <2>3. p \in 0 .. NWitnesses - 1 /\ x \in 0 .. NWitnesses - 1 /\ y \in 0 .. NWitnesses - 1
    BY <1>1 DEF Witnesses
  <2> QED BY <1>0, <1>3, <2>1, <2>2, <2>3
<1>6. ComputeSkip(p, x) \in Nat /\ ComputeSkip(p, y) \in Nat
  BY <1>0, <1>4
<1> QED BY <1>2, <1>5, <1>6

(* What the confirmation of two blocks at one level takes: NConfSigs         *)
(* signatures each, and on the side that skips more from the first           *)
(* difference NWitnesses + MaxMal of them.                                   *)
LEMMA Lengths ==
    ASSUME WithinLimits, NEW D, NEW G, Signed(D, G), NEW X \in D, NEW Y \in D, NEW l \in 1 .. Level(X), l <= Level(Y),
           AncestorAt(X, l - 1) = AncestorAt(Y, l - 1), AncestorAt(X, l) # AncestorAt(Y, l),
           Confirms(X, l), Confirms(Y, l), NEW k \in l .. l + NConfSigs - 1,
           \A i \in 0 .. k - 1 : SignerAt(X, i) = SignerAt(Y, i),
           Skip(AncestorAt(X, k)) < Skip(AncestorAt(Y, k))
    PROVE  Level(X) >= l + NConfSigs - 1 /\ Level(Y) >= l + NWitnesses + MaxMal - 1
<1>0. /\ Level(X) \in Nat /\ Level(Y) \in Nat /\ l \in Nat \ {0} /\ NConfSigs \in Nat \ {0} /\ MaxMal \in Nat /\ NWitnesses \in Nat
      /\ MaxMal < NConfSigs /\ NConfSigs <= NWitnesses
      /\ NSkipConfSigs = NWitnesses + MaxMal /\ NSeqConfSigs = IF MaxMal > 0 THEN NWitnesses + MaxMal ELSE NConfSigs
      /\ X \in Chains /\ Y \in Chains
  <2>1. /\ NConfSigs \in Nat \ {0} /\ MaxMal \in Nat /\ NWitnesses \in Nat /\ MaxMal < NConfSigs /\ NConfSigs <= NWitnesses
        /\ NSkipConfSigs = NWitnesses + MaxMal /\ NSeqConfSigs = IF MaxMal > 0 THEN NWitnesses + MaxMal ELSE NConfSigs
    BY Limits
  <2> QED BY <2>1, SignedChains
<1>1. /\ Level(X) - l + 1 >= NSeqConfSigs /\ Level(Y) - l + 1 >= NSeqConfSigs
      /\ Skip(AncestorAt(Y, l)) > 0 => Level(Y) - l + 1 >= NSkipConfSigs
  BY DEF Confirms
<1>2. Level(X) >= l + NConfSigs - 1
  BY <1>0, <1>1
<1>3. CASE MaxMal > 0
  BY <1>0, <1>1, <1>2, <1>3
<1>4. CASE MaxMal = 0
  <2>1. IsFiniteSet(Witnesses \ G) /\ Cardinality(Witnesses \ G) \in Nat /\ Cardinality(Witnesses \ G) <= MaxMal
    BY FiniteWitnesses, FS_Subset, FS_CardinalityType DEF Signed
  <2>2. Cardinality(Witnesses \ G) = 0
    BY <1>4, <2>1
  <2>3. Witnesses \ G = {}
    BY <2>1, <2>2, FS_EmptySet
  <2>4. k = l
    <3> SUFFICES ASSUME k # l PROVE FALSE
      OBVIOUS
    <3>1. l \in 0 .. k - 1 /\ l \in l .. Level(X) /\ l \in 0 .. Level(X)
      BY <1>0
    <3>2. SignerAt(X, l) \notin G
      BY <3>1, NoTwice
    <3>3. SignerAt(X, l) \in Witnesses
      BY <1>0, <3>1, Signers
    <3> QED BY <2>3, <3>2, <3>3
  <2>5. l \in 1 .. Level(X) /\ l \in 1 .. Level(Y)
    BY <1>0
  <2>6. Skip(AncestorAt(X, l)) \in Nat /\ Skip(AncestorAt(Y, l)) \in Nat
    BY <1>0, <2>5, SkipAt
  <2>7. Skip(AncestorAt(X, l)) < Skip(AncestorAt(Y, l))
    BY <2>4
  <2>8. Skip(AncestorAt(Y, l)) > 0
    BY <2>6, <2>7
  <2> QED BY <1>0, <1>1, <1>2, <1>4, <2>8
<1> QED BY <1>0, <1>3, <1>4

\* w signed on the chain of b, at one of the NConfSigs levels from i upwards
SignedFrom(b, i, w) == \E j \in i .. i + NConfSigs - 1 : w = SignerAt(b, j)

(* Any NConfSigs levels of a lawful chain and any of another one have a      *)
(* signer in common that keeps the rules; when there is a vote to spare, one *)
(* that did not sign the last of the levels of the first.                    *)
LEMMA SharedSigner ==
    ASSUME WithinLimits, NEW G \in SUBSET Witnesses, Cardinality(Witnesses \ G) <= MaxMal,
           NEW X, LawfulChain(X), NEW i \in 1 .. Level(X), i + NConfSigs - 1 <= Level(X),
           NEW Y, LawfulChain(Y), NEW j \in 1 .. Level(Y), j + NConfSigs - 1 <= Level(Y)
    PROVE  \E w \in G : SignedFrom(X, i, w) /\ SignedFrom(Y, j, w) /\ (VoteToSpare => w # SignerAt(X, i + NConfSigs - 1))
<1>0. Level(X) \in Nat /\ X \in Chains /\ NConfSigs \in Nat \ {0}
  BY Thresholds DEF LawfulChain, Chains, Level
<1>1. PICK V \in SUBSET Witnesses : V = {SignerAt(X, s) : s \in i .. i + NConfSigs - 1} /\ Cardinality(V) = NConfSigs
  BY WindowSigners
<1>2. PICK W \in SUBSET Witnesses : W = {SignerAt(Y, t) : t \in j .. j + NConfSigs - 1} /\ Cardinality(W) = NConfSigs
  BY WindowSigners
<1>3. PICK e \in Witnesses : e = SignerAt(X, i + NConfSigs - 1)
  <2>1. i + NConfSigs - 1 \in 0 .. Level(X)
    BY <1>0
  <2> QED BY <1>0, <2>1, Signers
<1>4. PICK w \in G : w \in V /\ w \in W /\ (VoteToSpare => w # e)
  <2>1. Cardinality(V) = NConfSigs /\ Cardinality(W) = NConfSigs
    BY <1>1, <1>2
  <2> QED BY <2>1, CommonWitness
<1>5. SignedFrom(X, i, w)
  BY <1>1, <1>4 DEF SignedFrom
<1>6. SignedFrom(Y, j, w)
  BY <1>2, <1>4 DEF SignedFrom
<1> QED BY <1>3, <1>4, <1>5, <1>6

(* The branch that skips more cannot be confirmed when the other one is: the *)
(* two have a signer in common that keeps the rules, and it signed the worse *)
(* branch after the better one.                                              *)
LEMMA Loses ==
    ASSUME WithinLimits, NEW D, NEW G, Signed(D, G), NEW X \in D, NEW Y \in D, NEW l \in 1 .. Level(X), l <= Level(Y),
           AncestorAt(X, l - 1) = AncestorAt(Y, l - 1), AncestorAt(X, l) # AncestorAt(Y, l),
           Confirms(X, l), Confirms(Y, l), Later(Y, l, G, D), NEW k \in l .. l + NConfSigs - 1,
           \A i \in 0 .. k - 1 : SignerAt(X, i) = SignerAt(Y, i),
           Skip(AncestorAt(X, k)) < Skip(AncestorAt(Y, k))
    PROVE  FALSE
<1> DEFINE Q == NConfSigs
           n == NWitnesses + MaxMal
           lo == l + n - Q
<1>0. /\ Level(X) \in Nat /\ Level(Y) \in Nat /\ l \in Nat \ {0} /\ Q \in Nat \ {0} /\ n \in Nat /\ Q <= n
      /\ 2 * Q \in {n + 1, n + 2} /\ X \in Chains /\ Y \in Chains /\ LawfulChain(X) /\ LawfulChain(Y) /\ k \in Nat
      /\ Cardinality(Witnesses \ G) <= MaxMal
  <2>1. /\ NConfSigs \in Nat \ {0} /\ MaxMal \in Nat /\ NWitnesses \in Nat /\ NConfSigs <= NWitnesses
        /\ 2 * NConfSigs \in {NWitnesses + MaxMal + 1, NWitnesses + MaxMal + 2}
    BY Limits
  <2>2. Cardinality(Witnesses \ G) <= MaxMal
    BY DEF Signed
  <2>3. k \in Nat /\ l \in Nat \ {0}
    BY <2>1
  <2> QED BY <2>1, <2>2, <2>3, SignedChains
<1>1. Level(X) >= l + Q - 1 /\ Level(Y) >= l + n - 1
  <2>1. Level(X) >= l + NConfSigs - 1 /\ Level(Y) >= l + NWitnesses + MaxMal - 1
    BY Lengths
  <2>2. NWitnesses \in Nat /\ MaxMal \in Nat
    BY Limits
  <2> QED BY <1>0, <2>1, <2>2
<1>2. lo \in 1 .. Level(Y) /\ lo + Q - 1 <= Level(Y) /\ lo + Q - 1 = l + n - 1
  BY <1>0, <1>1
<1>3. PICK w \in G : SignedFrom(X, l, w) /\ SignedFrom(Y, lo, w) /\ (VoteToSpare => w # SignerAt(X, l + NConfSigs - 1))
  <2>1. l + NConfSigs - 1 <= Level(X) /\ lo + NConfSigs - 1 <= Level(Y) /\ lo \in 1 .. Level(Y) /\ G \in SUBSET Witnesses
    BY <1>1, <1>2 DEF Signed
  <2> HIDE DEF lo
  <2> QED BY <1>0, <2>1, SharedSigner
<1>4. PICK i \in l .. l + Q - 1, j \in lo .. lo + Q - 1 : w = SignerAt(X, i) /\ w = SignerAt(Y, j)
  BY <1>3 DEF SignedFrom
<1>5. i \in Nat /\ j \in Nat /\ i \in l .. Level(X) /\ j \in l .. Level(Y) /\ i \in 1 .. Level(X) /\ j \in 1 .. Level(Y)
  BY <1>0, <1>1, <1>2
<1>6. ASSUME NEW t \in l .. Level(X), t <= Level(Y), SignerAt(X, t) = w, SignerAt(Y, t) = w PROVE FALSE
  <2>1. SignerAt(X, t) \notin G
    BY <1>6, NoTwice
  <2> QED BY <1>6, <2>1
<1>7. k <= i
  <2> SUFFICES ASSUME ~(k <= i) PROVE FALSE
    OBVIOUS
  <2>1. i \in 0 .. k - 1 /\ i <= Level(Y)
    BY <1>0, <1>1, <1>5
  <2> QED BY <1>4, <1>5, <1>6, <2>1
<1>8. k <= j
  <2> SUFFICES ASSUME ~(k <= j) PROVE FALSE
    OBVIOUS
  <2>1. j \in 0 .. k - 1 /\ j <= Level(X) /\ j \in l .. Level(X) /\ j <= Level(Y)
    BY <1>0, <1>1, <1>5
  <2> QED BY <1>4, <1>6, <2>1
<1> DEFINE x == AncestorAt(X, i)
           y == AncestorAt(Y, j)
<1>9. x \in D /\ Level(x) = i /\ Signer(x) = w /\ SignerAt(Y, j) = w
  <2>1. i \in 0 .. Level(X)
    BY <1>5
  <2> QED BY <1>0, <1>4, <1>5, <2>1, SignedChains, Ancestors, Signers
<1>10. BranchesAt(x, Y, l)
  <2>1. i \in 0 .. Level(X) /\ l \in 0 .. i /\ l - 1 \in 0 .. i
    BY <1>0, <1>5
  <2>2. AncestorAt(x, l) = AncestorAt(X, l) /\ AncestorAt(x, l - 1) = AncestorAt(X, l - 1)
    BY <1>0, <2>1, AncestorOfAncestor
  <2>3. l <= Level(x)
    BY <1>9, <2>1
  <2> QED BY <2>2, <2>3 DEF BranchesAt
<1>11. Beats(x, y)
  <2>1. i \in 0 .. Level(X) /\ j \in 0 .. Level(Y) /\ k \in 0 .. i /\ k \in 0 .. j /\ k \in 1 .. i /\ k <= j
    BY <1>0, <1>5, <1>7, <1>8
  <2>2. AncestorAt(x, k) = AncestorAt(X, k) /\ AncestorAt(y, k) = AncestorAt(Y, k)
    BY <1>0, <2>1, AncestorOfAncestor
  <2>3. Level(x) = i /\ Level(y) = j
    BY <1>0, <2>1, Ancestors
  <2>4. ASSUME NEW t \in 0 .. k - 1 PROVE SignerAt(x, t) = SignerAt(y, t)
    <3>1. t \in 0 .. i /\ t \in 0 .. j
      BY <2>1
    <3>2. SignerAt(x, t) = SignerAt(X, t) /\ SignerAt(y, t) = SignerAt(Y, t)
      BY <1>0, <2>1, <3>1, SignersOfAncestor
    <3> QED BY <3>2
  <2> HIDE DEF x, y
  <2>5. k \in 1 .. Level(x) /\ k <= Level(y)
    BY <2>1, <2>3
  <2>6. Skip(AncestorAt(x, k)) < Skip(AncestorAt(y, k))
    BY <2>2
  <2> QED BY <2>4, <2>5, <2>6 DEF Beats
<1>12. j <= i
  <2>1. j <= Level(x)
    BY <1>4, <1>5, <1>9, <1>10, <1>11 DEF Later
  <2> QED BY <1>9, <2>1
<1>13. j # i
  <2> SUFFICES ASSUME j = i PROVE FALSE
    OBVIOUS
  <2>1. i \in l .. Level(X) /\ i <= Level(Y) /\ SignerAt(X, i) = w /\ SignerAt(Y, i) = w
    BY <1>0, <1>4, <1>5
  <2> QED BY <1>6, <2>1
<1>14. 2 * Q = n + 2 /\ i = l + Q - 1
  BY <1>0, <1>5, <1>12, <1>13
<1> QED BY <1>3, <1>4, <1>14 DEF VoteToSpare

(* Two blocks at one level are not both confirmed, whichever chain each of   *)
(* them was confirmed on.                                                    *)
LEMMA Conflict ==
    ASSUME WithinLimits, NEW D, NEW G, Signed(D, G), NEW X \in D, NEW Y \in D, NEW l \in 1 .. Level(X), l <= Level(Y),
           AncestorAt(X, l - 1) = AncestorAt(Y, l - 1), AncestorAt(X, l) # AncestorAt(Y, l),
           Confirms(X, l), Confirms(Y, l), Later(X, l, G, D), Later(Y, l, G, D)
    PROVE  FALSE
<1>0. /\ Level(X) \in Nat /\ Level(Y) \in Nat /\ l \in Nat \ {0} /\ NConfSigs \in Nat \ {0} /\ MaxMal \in Nat /\ NWitnesses \in Nat
      /\ NConfSigs <= NWitnesses /\ NSeqConfSigs = IF MaxMal > 0 THEN NWitnesses + MaxMal ELSE NConfSigs
      /\ X \in Chains /\ Y \in Chains
  <2>1. /\ NConfSigs \in Nat \ {0} /\ MaxMal \in Nat /\ NWitnesses \in Nat /\ NConfSigs <= NWitnesses
        /\ NSeqConfSigs = IF MaxMal > 0 THEN NWitnesses + MaxMal ELSE NConfSigs
    BY Limits
  <2> QED BY <2>1, SignedChains
<1>1. Level(X) - l + 1 >= NSeqConfSigs /\ Level(Y) - l + 1 >= NSeqConfSigs
  BY DEF Confirms
<1>2. l + NConfSigs - 1 <= Level(X) /\ l + NConfSigs - 1 <= Level(Y)
  BY <1>0, <1>1
<1>3. PICK k \in l .. l + NConfSigs - 1 :
        (\A i \in 0 .. k - 1 : SignerAt(X, i) = SignerAt(Y, i)) /\ SignerAt(X, k) # SignerAt(Y, k)
  BY <1>2, FirstDifference
<1>4. k \in 1 .. Level(X) /\ k <= Level(Y) /\ k - 1 \in 0 .. k - 1
  BY <1>0, <1>2
<1>5. /\ Skip(AncestorAt(X, k)) \in Nat /\ Skip(AncestorAt(Y, k)) \in Nat
      /\ Skip(AncestorAt(X, k)) # Skip(AncestorAt(Y, k))
  <2>1. SignerAt(X, k - 1) = SignerAt(Y, k - 1)
    BY <1>3, <1>4
  <2> QED BY <1>0, <1>3, <1>4, <2>1, SkipsDiffer
<1>6. Skip(AncestorAt(X, k)) < Skip(AncestorAt(Y, k)) \/ Skip(AncestorAt(Y, k)) < Skip(AncestorAt(X, k))
  BY <1>5
<1>7. CASE Skip(AncestorAt(X, k)) < Skip(AncestorAt(Y, k))
  BY <1>3, <1>7, Loses
<1>8. CASE Skip(AncestorAt(Y, k)) < Skip(AncestorAt(X, k))
  <2>1. l \in 1 .. Level(Y) /\ l <= Level(X)
    BY <1>0
  <2>2. \A i \in 0 .. k - 1 : SignerAt(Y, i) = SignerAt(X, i)
    BY <1>3
  <2> QED BY <1>8, <2>1, <2>2, Loses
<1> QED BY <1>6, <1>7, <1>8

-----------------------------------------------------------------------------
(* Certificates.                                                             *)

LEMMA OnChain ==
    ASSUME NEW b \in Chains, NEW a \in Chains, NEW l \in 0 .. Level(b)
    PROVE  InChain(AncestorAt(b, l), a) <=> l <= Level(a) /\ AncestorAt(a, l) = AncestorAt(b, l)
BY Ancestors DEF InChain

LEMMA ChainBelow ==
    ASSUME NEW x \in Chains, NEW y \in Chains, NEW z \in Chains, InChain(x, y), InChain(y, z)
    PROVE  InChain(x, z) /\ Level(x) <= Level(z)
<1>1. /\ Level(x) \in Nat /\ Level(y) \in Nat /\ Level(z) \in Nat /\ Level(x) <= Level(y) /\ Level(y) <= Level(z)
      /\ AncestorAt(y, Level(x)) = x /\ AncestorAt(z, Level(y)) = y
  BY DEF Chains, Level, InChain
<1>2. Level(x) \in 0 .. Level(y) /\ Level(y) \in 0 .. Level(z) /\ Level(x) <= Level(z)
  BY <1>1
<1>3. AncestorAt(AncestorAt(z, Level(y)), Level(x)) = AncestorAt(z, Level(x))
  BY <1>2, AncestorOfAncestor
<1> QED BY <1>1, <1>2, <1>3 DEF InChain

\* Chains that meet at some level meet at all the levels below it
LEMMA MeetBelow ==
    ASSUME NEW x \in Chains, NEW y \in Chains, NEW l \in 0 .. Level(x), l <= Level(y), AncestorAt(x, l) = AncestorAt(y, l),
           NEW i \in 0 .. l
    PROVE  AncestorAt(x, i) = AncestorAt(y, i)
<1>1. l \in 0 .. Level(y)
  BY DEF Chains, Level
<1>2. AncestorAt(AncestorAt(x, l), i) = AncestorAt(x, i)
  BY AncestorOfAncestor
<1>3. AncestorAt(AncestorAt(y, l), i) = AncestorAt(y, i)
  BY <1>1, AncestorOfAncestor
<1> QED BY <1>2, <1>3

\* The chain of y leaves that of x and is indelible from there, for a node whose last indelible block is a
Abandoned(x, y, a) ==
    \E l \in 1 .. Level(x) : l <= Level(y) /\ AncestorAt(x, l) # AncestorAt(y, l) /\ InChain(AncestorAt(y, l), a)

\* A witness that signed x signs y, which is higher and worse, only when the chain of x has lost
Keeps(x, y, a) == Level(x) < Level(y) /\ Beats(x, y) => Abandoned(x, y, a)

ScoreRule(w, D, a) == \A x, y \in D : Signer(x) = w /\ Signer(y) = w => Keeps(x, y, a)

(* Y certifies b's ancestor at level l: it is on the chain of Y, has all the *)
(* signatures there, and the witnesses that gave them had not signed better  *)
(* against it before.                                                        *)
Certificate(Y, b, l, G, D) ==
    l <= Level(Y) /\ AncestorAt(Y, l) = AncestorAt(b, l) /\ Confirms(Y, l) /\ Later(Y, l, G, D)

Certified(a, G, D) == \A l \in 1 .. Level(a) : \E Y \in D : Certificate(Y, a, l, G, D)

\* The blocks that the witnesses of G count as indelible are certified, and they sign by the scores above them
ByTheRules(G, D, L) ==
    \A w \in G : L[w] \in Chains /\ Certified(L[w], G, D) /\ ScoreRule(w, D, L[w])

(* A confirmed block is certified: by the block that confirmed it, or else   *)
(* some witness signed it only because it was indelible already.             *)
LEMMA CertificateOf ==
    ASSUME NEW D, NEW G, Signed(D, G), NEW L, ByTheRules(G, D, L), NEW b \in D, NEW l \in 1 .. Level(b), Confirms(b, l)
    PROVE  \E Y \in D : Certificate(Y, b, l, G, D)
<1>0. b \in Chains /\ Level(b) \in Nat /\ l \in 0 .. Level(b) /\ l - 1 \in 0 .. Level(b) /\ l <= Level(b) /\ l \in Nat \ {0}
  BY SignedChains
<1>1. CASE Later(b, l, G, D)
  BY <1>0, <1>1 DEF Certificate
<1>2. CASE ~Later(b, l, G, D)
  <2>1. PICK w \in G, j \in l .. Level(b), x \in D :
          SignerAt(b, j) = w /\ Signer(x) = w /\ BranchesAt(x, b, l) /\ Beats(x, AncestorAt(b, j)) /\ ~(j <= Level(x))
    BY <1>2 DEF Later
  <2> DEFINE y == AncestorAt(b, j)
  <2>2. x \in Chains /\ Level(x) \in Nat /\ j \in Nat /\ j \in 1 .. Level(b) /\ j \in 0 .. Level(b) /\ l \in 0 .. j /\ l - 1 \in 0 .. j
    BY <1>0, SignedChains
  <2>3. y \in D /\ y \in Chains /\ Level(y) = j /\ Signer(y) = w
    BY <1>0, <2>1, <2>2, SignedChains, Ancestors, Signers
  <2>4. L[w] \in Chains /\ Certified(L[w], G, D) /\ ScoreRule(w, D, L[w])
    BY DEF ByTheRules
  <2>5. Beats(x, y) /\ Level(x) < Level(y)
    BY <2>1, <2>2, <2>3
  <2> HIDE DEF y
  <2>6. Abandoned(x, y, L[w])
    BY <2>1, <2>3, <2>4, <2>5 DEF ScoreRule, Keeps
  <2>7. PICK i \in 1 .. Level(x) : i <= Level(y) /\ AncestorAt(x, i) # AncestorAt(y, i) /\ InChain(AncestorAt(y, i), L[w])
    BY <2>6 DEF Abandoned
  <2>8. i \in 0 .. j /\ i \in 0 .. Level(x) /\ i \in 0 .. Level(y)
    BY <2>2, <2>3, <2>7
  <2>9. AncestorAt(y, i) = AncestorAt(b, i)
    BY <1>0, <2>2, <2>8, AncestorOfAncestor DEF y
  <2>10. i <= Level(L[w]) /\ AncestorAt(L[w], i) = AncestorAt(b, i)
    BY <2>3, <2>4, <2>7, <2>8, <2>9, OnChain
  <2>11. l <= i
    <3> SUFFICES ASSUME ~(l <= i) PROVE FALSE
      OBVIOUS
    <3>1. i \in 0 .. l - 1 /\ l - 1 \in 0 .. Level(x)
      BY <1>0, <2>1, <2>2, <2>8 DEF BranchesAt
    <3>2. AncestorAt(x, l - 1) = AncestorAt(b, l - 1) /\ l - 1 <= Level(b)
      BY <1>0, <2>1 DEF BranchesAt
    <3>3. AncestorAt(x, i) = AncestorAt(b, i)
      BY <1>0, <2>2, <3>1, <3>2, MeetBelow
    <3> QED BY <2>7, <2>9, <3>3
  <2>12. i \in 0 .. Level(L[w]) /\ i <= Level(b) /\ l \in 0 .. i /\ l \in 1 .. Level(L[w]) /\ Level(L[w]) \in Nat
    <3>1. Level(L[w]) \in Nat
      BY <2>4 DEF Chains, Level
    <3> QED BY <1>0, <2>2, <2>8, <2>10, <2>11, <3>1
  <2>13. AncestorAt(L[w], l) = AncestorAt(b, l)
    BY <1>0, <2>4, <2>10, <2>12, MeetBelow
  <2>14. PICK Y \in D : Certificate(Y, L[w], l, G, D)
    BY <2>4, <2>12 DEF Certified
  <2> QED BY <2>13, <2>14 DEF Certificate
<1> QED BY <1>1, <1>2

\* Two certified blocks on one prior block are the same
LEMMA OneCertified ==
    ASSUME WithinLimits, NEW D, NEW G, Signed(D, G), NEW X \in D, NEW Y \in D, NEW a \in Chains, NEW c \in Chains,
           NEW l \in 1 .. Level(a), l <= Level(c), Certificate(X, a, l, G, D), Certificate(Y, c, l, G, D),
           AncestorAt(a, l - 1) = AncestorAt(c, l - 1)
    PROVE  AncestorAt(a, l) = AncestorAt(c, l)
<1> SUFFICES ASSUME AncestorAt(a, l) # AncestorAt(c, l) PROVE FALSE
  OBVIOUS
<1>0. /\ X \in Chains /\ Y \in Chains /\ Level(X) \in Nat /\ Level(Y) \in Nat /\ Level(a) \in Nat /\ Level(c) \in Nat
      /\ l <= Level(X) /\ l <= Level(Y) /\ AncestorAt(X, l) = AncestorAt(a, l) /\ AncestorAt(Y, l) = AncestorAt(c, l)
      /\ Confirms(X, l) /\ Confirms(Y, l) /\ Later(X, l, G, D) /\ Later(Y, l, G, D)
  BY SignedChains DEF Certificate, Chains, Level
<1>1. l \in 1 .. Level(X) /\ l \in 0 .. Level(X) /\ l \in 0 .. Level(Y) /\ l - 1 \in 0 .. l
  BY <1>0
<1>2. AncestorAt(X, l - 1) = AncestorAt(a, l - 1)
  BY <1>0, <1>1, MeetBelow
<1>3. AncestorAt(Y, l - 1) = AncestorAt(c, l - 1)
  BY <1>0, <1>1, MeetBelow
<1> QED BY <1>0, <1>1, <1>2, <1>3, Conflict

\* Certified chains are prefixes of one another
LEMMA CertifiedAgree ==
    ASSUME WithinLimits, NEW D, NEW G, Signed(D, G), NEW a \in Chains, NEW c \in Chains,
           Certified(a, G, D), Certified(c, G, D), Level(a) <= Level(c)
    PROVE  InChain(a, c)
<1> DEFINE S == {n \in 0 .. Level(a) : AncestorAt(a, n) = AncestorAt(c, n)}
<1>0. Level(a) \in Nat /\ Level(c) \in Nat
  BY DEF Chains, Level
<1>1. PICK z \in Nat : z = 0
  OBVIOUS
<1>2. z \in S
  BY <1>0, <1>1, WholeChain
<1>3. ASSUME NEW n \in z .. Level(a) - 1, n \in S PROVE n + 1 \in S
  <2>1. n + 1 \in 1 .. Level(a) /\ n + 1 \in 1 .. Level(c) /\ n + 1 <= Level(c) /\ (n + 1) - 1 = n /\ n + 1 \in 0 .. Level(a)
    BY <1>0, <1>1
  <2>2. AncestorAt(a, (n + 1) - 1) = AncestorAt(c, (n + 1) - 1)
    BY <1>3, <2>1
  <2>3. PICK X \in D : Certificate(X, a, n + 1, G, D)
    BY <2>1 DEF Certified
  <2>4. PICK Y \in D : Certificate(Y, c, n + 1, G, D)
    BY <2>1 DEF Certified
  <2>5. AncestorAt(a, n + 1) = AncestorAt(c, n + 1)
    BY <2>1, <2>2, <2>3, <2>4, OneCertified
  <2> QED BY <2>1, <2>5
<1>4. \A n \in z .. Level(a) : n \in S
  <2> HIDE DEF S
  <2> QED BY <1>0, <1>2, <1>3, IntervalInduction
<1>5. AncestorAt(a, Level(a)) = AncestorAt(c, Level(a)) /\ AncestorAt(a, Level(a)) = a
  BY <1>0, <1>1, <1>4, WholeChain
<1> QED BY <1>5 DEF InChain

\* A certificate stays one when a witness signs above all that it signed before
LEMMA StaysCertified ==
    ASSUME NEW D, NEW G, Signed(D, G), NEW b, NEW a, Certified(a, G, D),
           Signer(b) \in G => \A c \in D : Signer(c) = Signer(b) => Level(c) < Level(b),
           NEW M, M = D \cup {b}, Level(b) \in Nat
    PROVE  Certified(a, G, M)
<1> SUFFICES ASSUME NEW l \in 1 .. Level(a) PROVE \E Y \in M : Certificate(Y, a, l, G, M)
  BY DEF Certified
<1>1. PICK Y \in D : Certificate(Y, a, l, G, D)
  BY DEF Certified
<1>2. Later(Y, l, G, M)
  <2> SUFFICES ASSUME NEW w \in G, NEW j \in l .. Level(Y), NEW x \in M,
                      SignerAt(Y, j) = w, Signer(x) = w, BranchesAt(x, Y, l), Beats(x, AncestorAt(Y, j))
               PROVE  j <= Level(x)
    BY DEF Later
  <2>1. CASE x \in D
    BY <1>1, <2>1 DEF Certificate, Later
  <2>2. CASE x = b
    <3>1. Y \in Chains /\ Level(Y) \in Nat /\ j \in 1 .. Level(Y) /\ j \in 0 .. Level(Y)
      BY SignedChains
    <3>2. AncestorAt(Y, j) \in D /\ Level(AncestorAt(Y, j)) = j /\ Signer(AncestorAt(Y, j)) = w
      BY <3>1, SignedChains, Ancestors, Signers
    <3>3. j < Level(b)
      BY <2>2, <3>2
    <3> QED BY <2>2, <3>1, <3>3
  <2> QED BY <2>1, <2>2
<1> QED BY <1>1, <1>2 DEF Certificate

\* No chain of S goes NWitnesses + MaxMal levels above a without confirming the next block
Low(S, a) == \A b \in S : InChain(a, b) => Level(b) < Level(a) + (NWitnesses + MaxMal)

(* A block confirms ancestors that are certified, never a second block at a  *)
(* level, and as many of them as it can.                                     *)
LEMMA Confirming ==
    ASSUME WithinLimits, NEW D, NEW G, Signed(D, G), NEW L, ByTheRules(G, D, L), NEW b \in D,
           NEW a \in Chains, Certified(a, G, D), NEW S \in SUBSET Chains, Low(S, a), NEW r, r = DoConfirmations(b, a)
    PROVE  /\ r.fatal = FALSE /\ r.last \in Chains /\ InChain(a, r.last)
           /\ Certified(r.last, G, D) /\ Low(S \cup {b}, r.last)
<1>0. b \in Chains /\ Level(b) \in Nat /\ Level(a) \in Nat
  BY SignedChains DEF Chains, Level
<1>1. PICK stop \in 0 .. Level(b) : \E top \in stop .. Level(b) :
              /\ InChain(AncestorAt(b, stop), a)
              /\ \A l \in stop + 1 .. Level(b) : ~InChain(AncestorAt(b, l), a)
              /\ \A j \in stop + 1 .. top : Confirms(b, j)
              /\ top < Level(b) => ~Confirms(b, top + 1)
              /\ r.last = IF stop = Level(a) THEN AncestorAt(b, top) ELSE a
              /\ r.fatal = (stop # Level(a) /\ top > stop)
  BY <1>0, Confirmations
<1>2. PICK top \in stop .. Level(b) :
              /\ InChain(AncestorAt(b, stop), a)
              /\ \A l \in stop + 1 .. Level(b) : ~InChain(AncestorAt(b, l), a)
              /\ \A j \in stop + 1 .. top : Confirms(b, j)
              /\ top < Level(b) => ~Confirms(b, top + 1)
              /\ r.last = IF stop = Level(a) THEN AncestorAt(b, top) ELSE a
              /\ r.fatal = (stop # Level(a) /\ top > stop)
  BY <1>1
<1>3. stop \in Nat /\ top \in Nat /\ stop <= top /\ top <= Level(b) /\ top \in 0 .. Level(b) /\ stop \in 0 .. top
  BY <1>0
<1>4. stop <= Level(a) /\ AncestorAt(a, stop) = AncestorAt(b, stop)
  BY <1>0, <1>2, OnChain
<1>5. ASSUME NEW l \in stop + 1 .. Level(b), l <= Level(a) PROVE AncestorAt(a, l) # AncestorAt(b, l)
  <2>1. l \in 0 .. Level(b)
    BY <1>3
  <2> QED BY <1>0, <1>2, <1>5, <2>1, OnChain
<1>6. ~(stop # Level(a) /\ top > stop)
  <2> SUFFICES ASSUME stop # Level(a), top > stop PROVE FALSE
    OBVIOUS
  <2> DEFINE l == stop + 1
  <2>1. l \in 1 .. Level(a) /\ l \in 1 .. Level(b) /\ l <= Level(b) /\ l <= Level(a) /\ l - 1 = stop /\ l \in stop + 1 .. top /\ l \in stop + 1 .. Level(b)
    BY <1>0, <1>3, <1>4
  <2>2. AncestorAt(a, l - 1) = AncestorAt(b, l - 1)
    BY <1>4, <2>1
  <2> HIDE DEF l
  <2>3. Confirms(b, l)
    BY <1>2, <2>1
  <2>4. PICK X \in D : Certificate(X, b, l, G, D)
    BY <2>1, <2>3, CertificateOf
  <2>5. PICK Y \in D : Certificate(Y, a, l, G, D)
    BY <2>1 DEF Certified
  <2>6. AncestorAt(a, l) = AncestorAt(b, l)
    BY <1>0, <2>1, <2>2, <2>4, <2>5, OneCertified
  <2> QED BY <1>5, <2>1, <2>6
<1>7. r.fatal = FALSE
  BY <1>2, <1>6
<1> DEFINE c == AncestorAt(b, top)
<1>8. c \in Chains /\ Level(c) = top /\ \A l \in 0 .. top : AncestorAt(c, l) = AncestorAt(b, l)
  BY <1>0, <1>3, Ancestors, AncestorOfAncestor
<1> HIDE DEF c
<1>9. ASSUME stop = Level(a) PROVE InChain(a, r.last) /\ Certified(r.last, G, D) /\ r.last \in Chains
  <2>1. r.last = c
    BY <1>2, <1>9 DEF c
  <2>2. InChain(a, c)
    <3>1. AncestorAt(c, Level(a)) = a
      BY <1>0, <1>3, <1>4, <1>8, <1>9, WholeChain
    <3> QED BY <1>3, <1>8, <1>9, <3>1 DEF InChain
  <2>3. Certified(c, G, D)
    <3> SUFFICES ASSUME NEW l \in 1 .. top PROVE \E Y \in D : Certificate(Y, c, l, G, D)
      BY <1>8 DEF Certified
    <3>1. l \in 0 .. top /\ AncestorAt(c, l) = AncestorAt(b, l) /\ l \in Nat
      BY <1>3, <1>8
    <3>2. CASE l <= stop
      <4>1. l \in 1 .. Level(a) /\ l \in 0 .. stop /\ stop \in 0 .. Level(a) /\ stop <= Level(b)
        BY <1>0, <1>3, <1>9, <3>2
      <4>2. AncestorAt(a, l) = AncestorAt(b, l)
        BY <1>0, <1>4, <4>1, MeetBelow
      <4>3. PICK Y \in D : Certificate(Y, a, l, G, D)
        BY <4>1 DEF Certified
      <4> QED BY <3>1, <4>2, <4>3 DEF Certificate
    <3>3. CASE ~(l <= stop)
      <4>1. l \in stop + 1 .. top /\ l \in 1 .. Level(b)
        BY <1>0, <1>3, <3>3
      <4>2. Confirms(b, l)
        BY <1>2, <4>1
      <4>3. PICK Y \in D : Certificate(Y, b, l, G, D)
        BY <4>1, <4>2, CertificateOf
      <4> QED BY <3>1, <4>3 DEF Certificate
    <3> QED BY <3>2, <3>3
  <2> QED BY <1>8, <2>1, <2>2, <2>3, Zenon
<1>10. ASSUME stop # Level(a) PROVE InChain(a, r.last) /\ Certified(r.last, G, D) /\ r.last \in Chains
  <2>1. InChain(a, a) /\ a \in Chains
    BY <1>0, WholeChain DEF InChain
  <2>2. r.last = a
    BY <1>2, <1>10
  <2> QED BY <2>1, <2>2
<1>11. r.last \in Chains /\ InChain(a, r.last) /\ Certified(r.last, G, D) /\ Level(r.last) \in Nat
  <2>1. r.last \in Chains /\ InChain(a, r.last) /\ Certified(r.last, G, D)
    BY <1>9, <1>10
  <2> QED BY <2>1 DEF Chains, Level
<1>12. /\ NWitnesses + MaxMal \in Nat /\ NSkipConfSigs = NWitnesses + MaxMal /\ NSeqConfSigs \in Nat
       /\ NSeqConfSigs <= NWitnesses + MaxMal
  BY Limits
<1>13. ASSUME NEW x \in S, InChain(r.last, x) PROVE Level(x) < Level(r.last) + (NWitnesses + MaxMal)
  <2>1. InChain(a, x) /\ Level(a) <= Level(r.last)
    BY <1>11, <1>13, ChainBelow DEF InChain
  <2>2. Level(x) \in Nat /\ Level(x) < Level(a) + (NWitnesses + MaxMal)
    BY <2>1 DEF Low, Chains, Level
  <2> QED BY <1>0, <1>11, <1>12, <2>1, <2>2
<1>14. ASSUME InChain(r.last, b) PROVE Level(b) < Level(r.last) + (NWitnesses + MaxMal)
  <2>1. CASE stop # Level(a)
    <3>1. r.last = a
      BY <1>2, <2>1
    <3>2. Level(a) <= Level(b) /\ AncestorAt(b, Level(a)) = a
      BY <1>14, <3>1 DEF InChain
    <3>3. Level(a) \in stop + 1 .. Level(b) /\ Level(a) <= Level(a) /\ AncestorAt(a, Level(a)) = a
      BY <1>0, <1>3, <1>4, <2>1, <3>2, WholeChain
    <3> QED BY <1>5, <3>2, <3>3
  <2>2. CASE stop = Level(a)
    <3>1. Level(r.last) = top
      BY <1>2, <1>8, <2>2 DEF c
    <3> SUFFICES ASSUME ~(Level(b) < top + (NWitnesses + MaxMal)) PROVE FALSE
      BY <3>1
    <3>2. NWitnesses + MaxMal > 0
      BY Limits
    <3>3. top < Level(b) /\ Level(b) - (top + 1) + 1 >= NWitnesses + MaxMal
      BY <1>0, <1>3, <1>12, <3>2
    <3>4. Level(b) - (top + 1) + 1 >= NSeqConfSigs /\ Level(b) - (top + 1) + 1 >= NSkipConfSigs
      BY <1>0, <1>3, <1>12, <3>3
    <3>5. Confirms(b, top + 1)
      BY <3>4 DEF Confirms
    <3> QED BY <1>2, <3>3, <3>5
  <2> QED BY <2>1, <2>2
<1>15. Low(S \cup {b}, r.last)
  BY <1>13, <1>14 DEF Low
<1> QED BY <1>7, <1>11, <1>15

-----------------------------------------------------------------------------
(* The rules that a witness keeps.                                           *)

\* The level it has noted is not below any block it signed nor above one it has chosen to build on
SignedBelowBy(w) ==
    /\ \A b \in created : Signer(b) = w => Level(b) <= highest[w]
    /\ \A p \in building[w] : highest[w] <= Level(p)
    /\ building[w] # {} => w \in witnessing

\* While its thread runs its own blocks are valid or no higher than the indelible chain
OwnKept(w) == w \in witnessing => \A x \in created : Signer(x) = w => x \in valid[w] \/ Level(x) <= Level(last[w])

\* What it is about to sign obeys the rule of the scores
BuildRule(w) == \A p \in building[w], x \in created : Signer(x) = w => Keeps(x, Extended(w, p), last[w])

WitnessRules(w) ==
    SignedBelowBy(w) /\ OnceBy(w, created) /\ OwnKept(w) /\ ScoreRule(w, created, last[w]) /\ BuildRule(w)

LEMMA CreatedLawful ==
    ASSUME ChainInv, NEW b \in created \cup {Genesis}
    PROVE  /\ b \in Chains /\ Level(b) \in Nat /\ LawfulChain(b)
           /\ \A lev \in 1 .. Level(b) : AncestorAt(b, lev) \in created
<1>1. b \in Chains /\ Level(b) \in Nat
  BY CreatedChains DEF ChainInv, Chains, Level
<1>2. ASSUME NEW lev \in 1 .. Level(b) PROVE AncestorAt(b, lev) \in created /\ ~CheckBadSigOrder(AncestorAt(b, lev))
  <2>1. b # Genesis /\ lev \in 0 .. Level(b)
    BY <1>1, GenesisChain
  <2>2. AncestorAt(b, lev) \in created \cup {Genesis}
    BY <2>1 DEF ChainInv, PrefixClosed
  <2>3. Level(AncestorAt(b, lev)) = lev
    BY <1>1, <2>1, Ancestors
  <2>4. AncestorAt(b, lev) # Genesis
    BY <1>1, <2>3, GenesisChain
  <2> QED BY <2>2, <2>4 DEF ChainInv, AllInOrder
<1> QED BY <1>1, <1>2 DEF LawfulChain

\* b is a block of w on top of p, whichever its variant
OnTop(b, p, w) == \E v \in Variants : b = Append(p, << w, v >>)

LEMMA ExtendedOnTop == \A w, p : OnTop(Extended(w, p), p, w)
<1>1. (CHOOSE x \in Variants : TRUE) \in Variants
  BY BoundsAssumption
<1> QED BY <1>1 DEF OnTop, Extended

LEMMA BlockOnTop ==
    ASSUME NEW p \in Chains, NEW w \in Witnesses, NEW b, OnTop(b, p, w)
    PROVE  /\ b \in Chains /\ Level(b) = Level(p) + 1 /\ Level(p) \in Nat /\ Signer(b) = w
           /\ \A lev \in 0 .. Level(p) : AncestorAt(b, lev) = AncestorAt(p, lev) /\ SignerAt(b, lev) = SignerAt(p, lev)
<1>1. PICK u \in Variants : b = Append(p, << w, u >>)
  BY DEF OnTop
<1>2. b \in Chains /\ Level(b) = Level(p) + 1 /\ Level(p) \in Nat /\ \A lev \in 0 .. Level(p) : AncestorAt(b, lev) = AncestorAt(p, lev)
  BY <1>1, Appended
<1>3. Signer(b) = w
  BY <1>1, AppendedSigner
<1>4. ASSUME NEW lev \in 0 .. Level(p) PROVE SignerAt(b, lev) = SignerAt(p, lev)
  <2>1. << w, u >> \in Witnesses \X Variants
    OBVIOUS
  <2> QED BY <1>1, <2>1, SignersBelow
<1> QED BY <1>2, <1>3, <1>4

(* Which of its variants a block is does not matter to the rule of the       *)
(* scores: below the top they are the same.                                  *)
LEMMA SameRule ==
    ASSUME NEW x \in Chains, NEW p \in Chains, NEW w \in Witnesses, NEW b, OnTop(b, p, w),
           NEW a \in Chains, Keeps(x, Extended(w, p), a)
    PROVE  Keeps(x, b, a)
<1> DEFINE y == Extended(w, p)
<1>0. /\ b \in Chains /\ Level(b) = Level(p) + 1 /\ Level(p) \in Nat
      /\ \A lev \in 0 .. Level(p) : AncestorAt(b, lev) = AncestorAt(p, lev) /\ SignerAt(b, lev) = SignerAt(p, lev)
  BY BlockOnTop
<1>1. /\ y \in Chains /\ Level(y) = Level(p) + 1
      /\ \A lev \in 0 .. Level(p) : AncestorAt(y, lev) = AncestorAt(p, lev) /\ SignerAt(y, lev) = SignerAt(p, lev)
  <2>1. OnTop(y, p, w)
    BY ExtendedOnTop
  <2> HIDE DEF y
  <2> QED BY <2>1, BlockOnTop
<1>2. Keeps(x, y, a)
  OBVIOUS
<1> HIDE DEF y
<1> SUFFICES ASSUME Level(x) < Level(b), Beats(x, b) PROVE Abandoned(x, b, a)
  BY DEF Keeps
<1>3. Level(x) \in Nat /\ Level(x) <= Level(p)
  BY <1>0 DEF Chains, Level
<1>4. Beats(x, y)
  <2>1. PICK k \in 1 .. Level(x) : /\ k <= Level(b) /\ \A i \in 0 .. k - 1 : SignerAt(x, i) = SignerAt(b, i)
                                   /\ Skip(AncestorAt(x, k)) < Skip(AncestorAt(b, k))
    BY DEF Beats
  <2>2. k <= Level(y) /\ k \in 0 .. Level(p) /\ \A i \in 0 .. k - 1 : i \in 0 .. Level(p)
    BY <1>0, <1>1, <1>3
  <2>3. AncestorAt(b, k) = AncestorAt(y, k) /\ \A i \in 0 .. k - 1 : SignerAt(x, i) = SignerAt(y, i)
    BY <1>0, <1>1, <2>1, <2>2
  <2> QED BY <2>1, <2>2, <2>3 DEF Beats
<1>5. Abandoned(x, y, a)
  <2>1. Level(x) < Level(y)
    BY <1>0, <1>1, <1>3
  <2> QED BY <1>2, <1>4, <2>1 DEF Keeps
<1>6. PICK l \in 1 .. Level(x) : l <= Level(y) /\ AncestorAt(x, l) # AncestorAt(y, l) /\ InChain(AncestorAt(y, l), a)
  BY <1>5 DEF Abandoned
<1>7. l <= Level(b) /\ l \in 0 .. Level(p)
  BY <1>0, <1>3
<1>8. AncestorAt(y, l) = AncestorAt(b, l)
  BY <1>0, <1>1, <1>7
<1> QED BY <1>6, <1>7, <1>8 DEF Abandoned

(* FindBestBuildingBlock never picks a chain against which this witness has  *)
(* signed a better one, unless that one has lost: all its own blocks that    *)
(* can still win have a score that counts.                                   *)
LEMMA ChoiceKeeps ==
    ASSUME WithinLimits, ChainInv, NEW w \in Honest, Low(valid[w], last[w]), w \in witnessing, OwnKept(w),
           NEW p \in FindBestBuildingBlock(w), NEW x \in created, Signer(x) = w
    PROVE  Keeps(x, Extended(w, p), last[w])
<1> DEFINE y == Extended(w, p)
           a == last[w]
<1>0. /\ w \in Witnesses /\ p \in Chains /\ a \in Chains /\ x \in Chains /\ valid[w] \subseteq Chains
      /\ Level(a) \in Nat /\ Level(x) \in Nat /\ LawfulChain(x) /\ x # Genesis
  <2>1. w \in Witnesses /\ p \in valid[w] /\ valid[w] \subseteq created \cup {Genesis} /\ a \in created \cup {Genesis}
    BY DEF ChainInv, TypeOK, Honest, FindBestBuildingBlock
  <2>2. p \in Chains /\ a \in Chains /\ Level(a) \in Nat /\ valid[w] \subseteq Chains
    BY <2>1, CreatedLawful
  <2>3. x \in Chains /\ Level(x) \in Nat /\ LawfulChain(x)
    BY CreatedLawful
  <2>4. x # Genesis
    BY GenesisChain DEF ChainInv, TypeOK
  <2> QED BY <2>1, <2>2, <2>3, <2>4
<1>1. y \in Chains /\ Level(y) \in Nat
  <2>1. OnTop(y, p, w)
    BY ExtendedOnTop
  <2> HIDE DEF y
  <2> QED BY <1>0, <2>1, BlockOnTop
<1>2. CalcSkipScore(y, a) > FindBestOwnScore(w)
  BY DEF FindBestBuildingBlock, Buildable
<1>3. FindBestOwnScore(w) \in Nat /\ (x \in valid[w] => CalcSkipScore(x, a) <= FindBestOwnScore(w))
  BY <1>0, BestOwn
<1>4. CalcSkipScore(y, a) \in Nat /\ CalcSkipScore(x, a) \in Nat
  BY <1>0, <1>1, ScoreRange
<1>5. InChain(a, y)
  <2>1. CalcSkipScore(y, a) > 0
    BY <1>2, <1>3, <1>4
  <2> QED BY <1>0, <1>1, <2>1, ScoreRange
<1>6. x \in valid[w] \/ Level(x) <= Level(a)
  BY DEF OwnKept
<1>7. x \in valid[w] /\ InChain(a, x) => Level(x) < Level(a) + NWitnesses + MaxMal
  <2>1. NWitnesses \in Nat /\ MaxMal \in Nat
    BY Limits
  <2> SUFFICES ASSUME x \in valid[w], InChain(a, x) PROVE Level(x) < Level(a) + NWitnesses + MaxMal
    OBVIOUS
  <2>2. Level(x) < Level(a) + (NWitnesses + MaxMal)
    BY DEF Low
  <2> QED BY <1>0, <2>1, <2>2
<1>8. InChain(a, y) => Level(a) <= Level(y) /\ AncestorAt(y, Level(a)) = a
  BY DEF InChain
<1> HIDE DEF y, a
<1> SUFFICES ASSUME Beats(x, y) PROVE Abandoned(x, y, a)
  BY DEF Keeps, y, a
<1>9. PICK k \in 1 .. Level(x) : /\ k <= Level(y) /\ \A i \in 0 .. k - 1 : SignerAt(x, i) = SignerAt(y, i)
                                 /\ Skip(AncestorAt(x, k)) < Skip(AncestorAt(y, k))
  BY DEF Beats
<1>10. k \in Nat /\ k \in 0 .. Level(y) /\ k \in 1 .. Level(y) /\ k <= Level(x) /\ k \in 0 .. Level(x)
  BY <1>0, <1>1, <1>9
<1>11. Skip(AncestorAt(x, k)) \in Nat /\ Skip(AncestorAt(y, k)) \in Nat
  BY <1>0, <1>1, <1>9, <1>10, SkipAt
<1>12. AncestorAt(x, k) # AncestorAt(y, k)
  BY <1>9, <1>11
<1>13. CASE k <= Level(a)
  <2>1. Level(a) \in 0 .. Level(y) /\ k \in 0 .. Level(a)
    BY <1>0, <1>1, <1>5, <1>8, <1>10, <1>13
  <2>2. AncestorAt(AncestorAt(y, Level(a)), k) = AncestorAt(y, k)
    BY <1>1, <2>1, AncestorOfAncestor
  <2>3. AncestorAt(a, k) = AncestorAt(y, k)
    BY <1>5, <1>8, <2>2
  <2>4. InChain(AncestorAt(y, k), a)
    BY <1>0, <1>1, <1>10, <1>13, <2>3, OnChain
  <2> QED BY <1>9, <1>12, <2>4 DEF Abandoned
<1>14. CASE ~(k <= Level(a))
  <2>1. x \in valid[w] /\ Level(a) \in 0 .. Level(x) /\ Level(a) <= Level(x)
    BY <1>0, <1>6, <1>10, <1>14
  <2>2. CASE InChain(a, x)
    <3>1. ScoreBits(x, a) <= MAX_SCORE_BITS
      BY <1>0, <1>7, <2>1, <2>2, FitsAbove
    <3>2. k \in Level(a) + 1 .. Level(x)
      BY <1>0, <1>10, <1>14
    <3>3. CalcSkipScore(y, a) < CalcSkipScore(x, a)
      BY <1>0, <1>1, <1>5, <1>9, <2>2, <3>1, <3>2, FewerSkipsWin
    <3> QED BY <1>2, <1>3, <1>4, <2>1, <3>3
  <2>3. CASE ~InChain(a, x)
    <3>1. AncestorAt(x, Level(a)) # a
      BY <2>1, <2>3 DEF InChain
    <3>2. AncestorAt(x, Level(a)) # AncestorAt(y, Level(a))
      BY <1>5, <1>8, <3>1
    <3>3. Level(a) # 0
      <4>1. AncestorAt(x, 0) = Genesis /\ AncestorAt(y, 0) = Genesis
        BY <1>0, <1>1, WholeChain
      <4> QED BY <3>2, <4>1
    <3>4. Level(a) \in 1 .. Level(x) /\ Level(a) \in 0 .. Level(y)
      BY <1>0, <1>1, <1>5, <1>8, <2>1, <3>3
    <3>5. AncestorAt(a, Level(a)) = a
      BY <1>0, WholeChain
    <3>6. InChain(AncestorAt(y, Level(a)), a)
      BY <1>0, <1>1, <1>5, <1>8, <3>4, <3>5, OnChain
    <3> QED BY <1>5, <1>8, <3>2, <3>4, <3>6 DEF Abandoned
  <2> QED BY <2>2, <2>3
<1> QED BY <1>13, <1>14

\* As the indelible chain grows, what has lost stays lost
LEMMA StaysLost ==
    ASSUME NEW x \in Chains, NEW y \in Chains, NEW a \in Chains, NEW c \in Chains, InChain(a, c), Keeps(x, y, a)
    PROVE  Keeps(x, y, c)
<1> SUFFICES ASSUME Level(x) < Level(y), Beats(x, y) PROVE Abandoned(x, y, c)
  BY DEF Keeps
<1>1. PICK l \in 1 .. Level(x) : l <= Level(y) /\ AncestorAt(x, l) # AncestorAt(y, l) /\ InChain(AncestorAt(y, l), a)
  BY DEF Keeps, Abandoned
<1>2. l \in 0 .. Level(y)
  BY DEF Chains, Level
<1>3. AncestorAt(y, l) \in Chains
  BY <1>2, Ancestors
<1>4. InChain(AncestorAt(y, l), c)
  BY <1>1, <1>3, ChainBelow
<1> QED BY <1>1, <1>4 DEF Abandoned

\* A step in which witness u signs nothing, chooses nothing and loses nothing
LEMMA RulesKept ==
    ASSUME ChainInv, ChainInv', NEW u \in Honest, u \in Honest', WitnessRules(u), created \subseteq created',
           \A b \in created' : Signer(b) = u => b \in created,
           building'[u] = building[u], highest'[u] = highest[u], valid[u] \subseteq valid'[u],
           InChain(last[u], last'[u]), u \in witnessing' <=> u \in witnessing
    PROVE  WitnessRules(u)'
<1>0. /\ last[u] \in Chains /\ last'[u] \in Chains /\ Level(last[u]) \in Nat /\ Level(last'[u]) \in Nat
      /\ Level(last[u]) <= Level(last'[u]) /\ u \in Witnesses
  <2>1. last[u] \in created \cup {Genesis} /\ u \in Witnesses
    BY DEF ChainInv, TypeOK, Honest
  <2>2. last'[u] \in created' \cup {Genesis}
    BY DEF ChainInv, TypeOK
  <2>3. last'[u] \in Chains /\ Level(last'[u]) \in Nat
    <3>1. \A b \in created' : b \in Chains
      BY DEF ChainInv, TypeOK, Chains
    <3>2. last'[u] \in Chains
      BY <2>2, <3>1, GenesisChain
    <3> QED BY <3>2 DEF Chains, Level
  <2> QED BY <2>1, <2>3, CreatedLawful DEF InChain
<1>1. SignedBelowBy(u)'
  BY DEF WitnessRules, SignedBelowBy
<1>2. OnceBy(u, created')
  BY DEF WitnessRules, OnceBy
<1>3. OwnKept(u)'
  <2> SUFFICES ASSUME u \in witnessing, NEW x \in created, Signer(x) = u
               PROVE  x \in valid'[u] \/ Level(x) <= Level(last'[u])
    BY DEF OwnKept
  <2>1. x \in valid[u] \/ Level(x) <= Level(last[u])
    BY DEF WitnessRules, OwnKept
  <2>2. Level(x) \in Nat
    BY CreatedLawful
  <2> QED BY <1>0, <2>1, <2>2
<1>4. ScoreRule(u, created', last'[u])
  <2> SUFFICES ASSUME NEW x \in created, NEW y \in created, Signer(x) = u, Signer(y) = u PROVE Keeps(x, y, last'[u])
    BY DEF ScoreRule
  <2>1. Keeps(x, y, last[u])
    BY DEF WitnessRules, ScoreRule
  <2>2. x \in Chains /\ y \in Chains
    BY CreatedLawful
  <2> QED BY <1>0, <2>1, <2>2, StaysLost
<1>5. BuildRule(u)'
  <2> SUFFICES ASSUME NEW p \in building[u], NEW x \in created, Signer(x) = u PROVE Keeps(x, Extended(u, p), last'[u])
    BY DEF BuildRule, Extended
  <2>1. PICK y : y = Extended(u, p)
    OBVIOUS
  <2>2. Keeps(x, y, last[u])
    BY <2>1 DEF WitnessRules, BuildRule
  <2>3. x \in Chains /\ p \in Chains
    BY CreatedLawful DEF ChainInv, TypeOK
  <2>4. y \in Chains
    BY <1>0, <2>1, <2>3, ExtendedOnTop, BlockOnTop
  <2>5. Keeps(x, y, last'[u])
    BY <1>0, <2>2, <2>3, <2>4, StaysLost
  <2> QED BY <2>1, <2>5
<1> QED BY <1>1, <1>2, <1>3, <1>4, <1>5 DEF WitnessRules

\* A witness chooses a block to build on
LEMMA ChosenByTheRules ==
    ASSUME WithinLimits, ChainInv, NEW w \in Honest, WitnessRules(w), Low(valid[w], last[w]), ChooseBuildingBlock(w)
    PROVE  WitnessRules(w)'
<1>1. UNCHANGED << malicious, created, valid, last, highest, witnessing, fatal, restarts >> /\ w \in witnessing
  BY DEF ChooseBuildingBlock
<1>2. PICK p \in FindBestBuildingBlock(w) : building' = [building EXCEPT ![w] = {p}]
  BY DEF ChooseBuildingBlock
<1>3. building'[w] = {p} /\ highest[w] <= Level(p)
  BY <1>2 DEF ChainInv, TypeOK, FindBestBuildingBlock, Buildable
<1>4. OwnKept(w)
  BY DEF WitnessRules
<1>5. \A x \in created : Signer(x) = w => Keeps(x, Extended(w, p), last[w])
  BY <1>1, <1>4, ChoiceKeeps
<1>6. SignedBelowBy(w)'
  BY <1>1, <1>3 DEF WitnessRules, SignedBelowBy
<1>7. OwnKept(w)' /\ OnceBy(w, created') /\ ScoreRule(w, created', last'[w])
  BY <1>1 DEF WitnessRules, OwnKept
<1>8. BuildRule(w)'
  BY <1>1, <1>3, <1>5 DEF BuildRule, Extended
<1> QED BY <1>6, <1>7, <1>8 DEF WitnessRules

\* The block a witness has chosen is above all that it signed before, and obeys the rule of the scores
LEMMA SignsHigher ==
    ASSUME ChainInv, NEW w \in Honest, WitnessRules(w), NEW p \in building[w], NEW b, OnTop(b, p, w),
           NEW M, M = created \cup {b}
    PROVE  /\ \A c \in created : Signer(c) = w => Level(c) < Level(b)
           /\ OnceBy(w, M) /\ ScoreRule(w, M, last[w])
<1>0. /\ w \in Witnesses /\ last[w] \in Chains /\ p \in Chains /\ Level(p) \in Nat
      /\ \A x \in created : x \in Chains /\ Level(x) \in Nat
  <2>1. last[w] \in created \cup {Genesis} /\ w \in Witnesses /\ p \in created \cup {Genesis}
    BY DEF ChainInv, TypeOK, Honest
  <2> QED BY <2>1, CreatedLawful
<1>1. b \in Chains /\ Level(b) = Level(p) + 1
  BY <1>0, BlockOnTop
<1>2. ASSUME NEW c \in created, Signer(c) = w PROVE Level(c) < Level(b)
  <2>1. Level(c) <= highest[w] /\ highest[w] <= Level(p)
    BY <1>2 DEF WitnessRules, SignedBelowBy
  <2>2. highest[w] \in Nat
    BY BoundsAssumption DEF ChainInv, TypeOK
  <2> QED BY <1>0, <1>1, <2>1, <2>2
<1>3. OnceBy(w, M)
  <2> SUFFICES ASSUME NEW c \in M, NEW d \in M, Signer(c) = w, Signer(d) = w, Level(c) = Level(d) PROVE c = d
    BY DEF OnceBy
  <2>1. CASE c \in created /\ d \in created
    BY <2>1 DEF WitnessRules, OnceBy
  <2>2. CASE c \in created /\ d = b
    <3>1. Level(c) < Level(b) /\ Level(c) \in Nat /\ Level(c) = Level(b)
      BY <1>0, <1>2, <2>2
    <3> QED BY <3>1
  <2>3. CASE c = b /\ d \in created
    <3>1. Level(d) < Level(b) /\ Level(d) \in Nat /\ Level(d) = Level(b)
      BY <1>0, <1>2, <2>3
    <3> QED BY <3>1
  <2> QED BY <2>1, <2>2, <2>3
<1>4. ScoreRule(w, M, last[w])
  <2> SUFFICES ASSUME NEW x \in M, NEW y \in M, Signer(x) = w, Signer(y) = w PROVE Keeps(x, y, last[w])
    BY DEF ScoreRule
  <2>1. CASE x \in created /\ y \in created
    BY <2>1 DEF WitnessRules, ScoreRule
  <2>2. CASE x \in created /\ y = b
    <3>1. Keeps(x, Extended(w, p), last[w])
      BY <2>2 DEF WitnessRules, BuildRule
    <3> QED BY <1>0, <2>2, <3>1, SameRule
  <2>3. CASE x = b
    <3>1. ~(Level(x) < Level(y))
      BY <1>0, <1>1, <1>2, <2>3
    <3> QED BY <3>1 DEF Keeps
  <2> QED BY <2>1, <2>2, <2>3
<1> QED BY <1>2, <1>3, <1>4

\* A witness signs the block it has chosen
LEMMA SignedByTheRules ==
    ASSUME ChainInv, NEW w \in Honest, WitnessRules(w), NEW p \in building[w], NEW b, OnTop(b, p, w),
           created' = created \cup {b}, highest'[w] = Level(b), building'[w] = {}, valid'[w] = valid[w] \cup {b},
           last'[w] \in Chains, InChain(last[w], last'[w])
    PROVE  WitnessRules(w)'
<1>0. /\ last[w] \in Chains /\ Level(last[w]) \in Nat /\ Level(last'[w]) \in Nat
      /\ Level(last[w]) <= Level(last'[w]) /\ w \in Witnesses /\ p \in Chains
      /\ \A x \in created : x \in Chains /\ Level(x) \in Nat
  <2>1. last[w] \in created \cup {Genesis} /\ w \in Witnesses /\ p \in created \cup {Genesis}
    BY DEF ChainInv, TypeOK, Honest
  <2>2. Level(last'[w]) \in Nat
    BY DEF Chains, Level
  <2> QED BY <2>1, <2>2, CreatedLawful DEF InChain
<1>1. b \in Chains /\ Level(b) \in Nat
  <2>1. b \in Chains
    BY <1>0, BlockOnTop
  <2> QED BY <2>1 DEF Chains, Level
<1>2. /\ \A c \in created : Signer(c) = w => Level(c) < Level(b)
      /\ OnceBy(w, created') /\ ScoreRule(w, created', last[w])
  BY SignsHigher
<1>3. SignedBelowBy(w)'
  <2> SUFFICES ASSUME NEW c \in created', Signer(c) = w PROVE Level(c) <= highest'[w]
    BY DEF SignedBelowBy
  <2>1. CASE c \in created
    BY <1>0, <1>1, <1>2, <2>1
  <2>2. CASE c = b
    BY <1>1, <2>2
  <2> QED BY <2>1, <2>2
<1>4. w \in witnessing
  BY DEF WitnessRules, SignedBelowBy
<1>5. OwnKept(w)'
  <2> SUFFICES ASSUME NEW x \in created', Signer(x) = w PROVE x \in valid'[w] \/ Level(x) <= Level(last'[w])
    BY DEF OwnKept
  <2>1. CASE x \in created
    <3>1. x \in valid[w] \/ Level(x) <= Level(last[w])
      BY <1>4, <2>1 DEF WitnessRules, OwnKept
    <3> QED BY <1>0, <2>1, <3>1
  <2>2. CASE x = b
    BY <2>2
  <2> QED BY <2>1, <2>2
<1>6. ScoreRule(w, created', last'[w])
  <2> SUFFICES ASSUME NEW x \in created', NEW y \in created', Signer(x) = w, Signer(y) = w PROVE Keeps(x, y, last'[w])
    BY DEF ScoreRule
  <2>1. Keeps(x, y, last[w])
    BY <1>2 DEF ScoreRule
  <2>2. x \in Chains /\ y \in Chains
    BY <1>0, <1>1
  <2> QED BY <1>0, <2>1, <2>2, StaysLost
<1>7. BuildRule(w)'
  BY DEF BuildRule
<1> QED BY <1>2, <1>3, <1>5, <1>6, <1>7 DEF WitnessRules

\* A restarted witness signs nothing until it is enabled, which it is once it has caught up with itself
LEMMA RestartedByTheRules ==
    ASSUME SyncFirst, ChainInv, NEW w \in Honest, WitnessRules(w), Restart(w) \/ EnableWitness(w)
    PROVE  WitnessRules(w)'
<1>0. UNCHANGED << malicious, created, last >>
  BY DEF Restart, EnableWitness
<1>1. CASE Restart(w)
  <2>1. building'[w] = {} /\ highest' = highest /\ w \notin witnessing'
    BY <1>1 DEF Restart, ChainInv, TypeOK
  <2> QED BY <1>0, <2>1 DEF WitnessRules, SignedBelowBy, OwnKept, BuildRule
<1>2. CASE EnableWitness(w)
  <2>1. w \notin witnessing /\ Level(last[w]) >= highest[w] /\ UNCHANGED << building, valid >>
    BY <1>2 DEF EnableWitness
  <2>2. highest'[w] = Level(last[w])
    BY <1>2 DEF EnableWitness, ChainInv, TypeOK
  <2>3. building[w] = {}
    BY <2>1 DEF WitnessRules, SignedBelowBy
  <2>4. ASSUME NEW x \in created, Signer(x) = w PROVE Level(x) <= Level(last[w])
    <3>1. Level(x) <= highest[w]
      BY <2>4 DEF WitnessRules, SignedBelowBy
    <3>2. Level(x) \in Nat /\ highest[w] \in Nat /\ Level(last[w]) \in Nat
      <4>1. last[w] \in created \cup {Genesis} /\ highest[w] \in Nat
        BY BoundsAssumption DEF ChainInv, TypeOK
      <4> QED BY <4>1, CreatedLawful
    <3> QED BY <2>1, <3>1, <3>2
  <2>5. SignedBelowBy(w)'
    BY <1>0, <2>1, <2>2, <2>3, <2>4 DEF SignedBelowBy
  <2>6. OwnKept(w)'
    BY <1>0, <2>4 DEF OwnKept
  <2> QED BY <1>0, <2>1, <2>3, <2>5, <2>6 DEF WitnessRules, BuildRule
<1> QED BY <1>1, <1>2

-----------------------------------------------------------------------------
(* Agreement.                                                                *)

(* The witnesses that keep the rules are honest, and all but MaxMal.  One    *)
(* that restarts without waiting to catch up with itself is not of them.     *)
Keepers(G) ==
    /\ G \subseteq Honest
    /\ Cardinality(Witnesses \ G) <= MaxMal
    /\ ~SyncFirst => G \subseteq witnessing /\ Cardinality(Witnesses \ G) <= Cardinality(malicious) + restarts

Good(G) ==
    /\ Keepers(G)
    /\ \A w \in G : WitnessRules(w)
    /\ \A v \in Honest : Certified(last[v], G, created)

\* What is valid but not indelible does not go far above the last indelible block
AllLow == \A v \in Honest : Low(valid[v], last[v])

AgreementInv == ChainInv /\ AllLow /\ NoTwoIndelible /\ \E G \in SUBSET Honest : Good(G)

LEMMA GoodIsSigned ==
    ASSUME ChainInv, NEW G, Good(G)
    PROVE  Signed(created, G) /\ ByTheRules(G, created, last)
<1>1. G \subseteq Honest /\ G \subseteq Witnesses /\ Cardinality(Witnesses \ G) <= MaxMal
  BY DEF Good, Keepers, Honest
<1>2. \A w \in G : OnceBy(w, created) /\ ScoreRule(w, created, last[w]) /\ Certified(last[w], G, created)
  BY <1>1 DEF Good, WitnessRules
<1>3. \A w \in G : last[w] \in Chains
  BY <1>1, CreatedLawful DEF ChainInv, TypeOK
<1>4. \A b \in created : LawfulChain(b) /\ \A lev \in 1 .. Level(b) : AncestorAt(b, lev) \in created
  BY CreatedLawful
<1> QED BY <1>1, <1>2, <1>3, <1>4 DEF Signed, ByTheRules

(* The indelible chains of the nodes agree, and no block is confirmed        *)
(* beside them.                                                              *)
LEMMA Agrees == ASSUME WithinLimits, AgreementInv PROVE ConsensusInv
<1>1. PICK G \in SUBSET Honest : Good(G)
  BY DEF AgreementInv
<1>2. Signed(created, G) /\ ByTheRules(G, created, last)
  BY <1>1, GoodIsSigned DEF AgreementInv
<1>3. Agreement
  <2> SUFFICES ASSUME NEW u \in Honest, NEW w \in Honest PROVE InChain(last[u], last[w]) \/ InChain(last[w], last[u])
    BY DEF Agreement
  <2>1. /\ last[u] \in Chains /\ last[w] \in Chains /\ Level(last[u]) \in Nat /\ Level(last[w]) \in Nat
        /\ Certified(last[u], G, created) /\ Certified(last[w], G, created)
    BY <1>1, CreatedLawful DEF AgreementInv, ChainInv, TypeOK, Good
  <2>2. CASE Level(last[u]) <= Level(last[w])
    BY <1>2, <2>1, <2>2, CertifiedAgree
  <2>3. CASE Level(last[w]) <= Level(last[u])
    BY <1>2, <2>1, <2>3, CertifiedAgree
  <2> QED BY <2>1, <2>2, <2>3
<1> QED BY <1>3 DEF AgreementInv, ChainInv, ConsensusInv

LEMMA AgreementInit == ASSUME WithinLimits, Init PROVE AgreementInv
<1>1. ChainInv
  BY ChainInit
<1>2. /\ malicious \subseteq Witnesses /\ Cardinality(malicious) <= MaxMal /\ created = {} /\ Honest = Witnesses \ malicious
      /\ \A w \in Honest : valid[w] = {Genesis} /\ last[w] = Genesis /\ building[w] = {} /\ fatal[w] = FALSE
      /\ witnessing = Honest /\ restarts = 0
  BY DEF Init, Honest
<1>3. AllLow
  <2>1. 0 < 0 + (NWitnesses + MaxMal)
    BY Limits
  <2> QED BY <1>2, <2>1, GenesisChain DEF AllLow, Low
<1>4. NoTwoIndelible
  BY <1>2 DEF NoTwoIndelible
<1>5. Keepers(Honest)
  <2>1. Witnesses \ Honest = malicious
    BY <1>2
  <2>2. Cardinality(malicious) \in Nat
    BY <1>2, FiniteWitnesses, FS_Subset, FS_CardinalityType
  <2>3. Cardinality(Witnesses \ Honest) <= Cardinality(malicious) + restarts
    <3>1. Cardinality(Witnesses \ Honest) = Cardinality(malicious)
      BY <2>1
    <3>2. restarts = 0
      BY <1>2
    <3> QED BY <2>2, <3>1, <3>2
  <2> QED BY <1>2, <2>1, <2>3 DEF Keepers
<1>6. \A w \in Honest : WitnessRules(w)
  BY <1>2 DEF WitnessRules, SignedBelowBy, OnceBy, OwnKept, ScoreRule, BuildRule
<1>7. \A v \in Honest : Certified(last[v], Honest, created)
  <2>1. \A l : ~(l \in 1 .. 0)
    OBVIOUS
  <2> QED BY <1>2, <2>1, GenesisChain DEF Certified
<1> QED BY <1>1, <1>3, <1>4, <1>5, <1>6, <1>7 DEF AgreementInv, Good

(* ValidObjsBlockInsert of a block that was signed by the rules: what it     *)
(* confirms is certified, on top of what was indelible.                      *)
LEMMA Inserted ==
    ASSUME WithinLimits, ChainInv, AllLow, NoTwoIndelible, NEW D, NEW G, Signed(D, G), ByTheRules(G, D, last),
           \A v \in Honest : Certified(last[v], G, D), NEW w \in Honest, NEW b \in D, ValidObjsBlockInsert(w, b),
           Honest' = Honest
    PROVE  /\ valid'[w] = valid[w] \cup {b}
           /\ \A v \in Honest : /\ last'[v] \in Chains /\ InChain(last[v], last'[v]) /\ valid[v] \subseteq valid'[v]
                                /\ Certified(last'[v], G, D)
           /\ AllLow' /\ NoTwoIndelible'
<1> DEFINE r == DoConfirmations(b, last[w])
<1>1. /\ valid' = [valid EXCEPT ![w] = @ \cup {b}] /\ last' = [last EXCEPT ![w] = r.last]
      /\ fatal' = [fatal EXCEPT ![w] = r.fatal]
  BY DEF ValidObjsBlockInsert
<1>2. /\ valid \in [Honest -> SUBSET (created \cup {Genesis})] /\ last \in [Honest -> created \cup {Genesis}]
      /\ fatal \in [Honest -> BOOLEAN]
  BY DEF ChainInv, TypeOK
<1>3. /\ valid[w] \in SUBSET Chains /\ Low(valid[w], last[w])
      /\ \A v \in Honest : last[v] \in Chains /\ Level(last[v]) \in Nat
  <2>1. created \cup {Genesis} \subseteq Chains
    BY CreatedLawful
  <2>2. \A v \in Honest : last[v] \in Chains /\ valid[v] \subseteq Chains
    BY <1>2, <2>1
  <2> QED BY <2>2 DEF AllLow, Chains, Level
<1>4. /\ r.fatal = FALSE /\ r.last \in Chains /\ InChain(last[w], r.last)
      /\ Certified(r.last, G, D) /\ Low(valid[w] \cup {b}, r.last)
  <2> HIDE DEF r
  <2>1. PICK a \in Chains : a = last[w]
    BY <1>3
  <2>2. PICK S \in SUBSET Chains : S = valid[w]
    BY <1>3
  <2>3. r = DoConfirmations(b, a)
    BY <2>1 DEF r
  <2>4. Certified(a, G, D) /\ Low(S, a)
    BY <1>3, <2>1, <2>2
  <2>5. /\ r.fatal = FALSE /\ r.last \in Chains /\ InChain(a, r.last)
        /\ Certified(r.last, G, D) /\ Low(S \cup {b}, r.last)
    BY <2>3, <2>4, Confirming
  <2> QED BY <2>1, <2>2, <2>5
<1> HIDE DEF r
<1>5. valid'[w] = valid[w] \cup {b} /\ last'[w] = r.last /\ fatal'[w] = r.fatal
  BY <1>1, <1>2
<1>6. \A v \in Honest : v # w => valid'[v] = valid[v] /\ last'[v] = last[v] /\ fatal'[v] = fatal[v]
  BY <1>1, <1>2
<1>7. ASSUME NEW v \in Honest
      PROVE  last'[v] \in Chains /\ InChain(last[v], last'[v]) /\ valid[v] \subseteq valid'[v] /\ Certified(last'[v], G, D)
  <2>1. CASE v = w
    BY <1>4, <1>5, <2>1
  <2>2. CASE v # w
    <3>1. InChain(last[v], last[v])
      BY <1>3, WholeChain DEF InChain
    <3> QED BY <1>3, <1>6, <2>2, <3>1
  <2> QED BY <2>1, <2>2
<1>8. AllLow'
  <2> SUFFICES ASSUME NEW v \in Honest PROVE Low(valid'[v], last'[v])
    BY DEF AllLow
  <2>1. CASE v = w
    BY <1>4, <1>5, <2>1
  <2>2. CASE v # w
    BY <1>6, <2>2 DEF AllLow
  <2> QED BY <2>1, <2>2
<1>9. NoTwoIndelible'
  BY <1>4, <1>5, <1>6 DEF NoTwoIndelible
<1> QED BY <1>5, <1>7, <1>8, <1>9

LEMMA ReceiveAgrees ==
    ASSUME WithinLimits, AgreementInv, NEW w \in Honest, NEW b \in created, ReceiveBlock(w, b)
    PROVE  AgreementInv'
<1>1. PICK G \in SUBSET Honest : Good(G)
  BY DEF AgreementInv
<1>2. ChainInv /\ AllLow /\ NoTwoIndelible /\ ChainInv'
  BY ReceiveKeeps DEF AgreementInv
<1>3. UNCHANGED << malicious, created, building, highest, witnessing, restarts >> /\ Honest' = Honest /\ ValidObjsBlockInsert(w, b)
  BY DEF ReceiveBlock, Honest
<1>4. Signed(created, G) /\ ByTheRules(G, created, last) /\ \A v \in Honest : Certified(last[v], G, created)
  BY <1>1, <1>2, GoodIsSigned DEF Good
<1>5. /\ \A v \in Honest : InChain(last[v], last'[v]) /\ valid[v] \subseteq valid'[v] /\ Certified(last'[v], G, created)
      /\ AllLow' /\ NoTwoIndelible'
  BY <1>2, <1>3, <1>4, Inserted
<1>6. ASSUME NEW u \in G PROVE WitnessRules(u)'
  <2>1. u \in Honest /\ u \in Honest' /\ WitnessRules(u)
    BY <1>1, <1>3 DEF Good
  <2> QED BY <1>2, <1>3, <1>5, <2>1, RulesKept
<1>7. Keepers(G)'
  BY <1>1, <1>3 DEF Good, Keepers
<1>8. Good(G)'
  BY <1>3, <1>5, <1>6, <1>7 DEF Good
<1> QED BY <1>2, <1>3, <1>5, <1>8 DEF AgreementInv

LEMMA ChooseAgrees ==
    ASSUME WithinLimits, AgreementInv, NEW w \in Honest, ChooseBuildingBlock(w)
    PROVE  AgreementInv'
<1>1. PICK G \in SUBSET Honest : Good(G)
  BY DEF AgreementInv
<1>2. ChainInv /\ AllLow /\ NoTwoIndelible /\ ChainInv'
  BY ChooseKeeps DEF AgreementInv
<1>3. UNCHANGED << malicious, created, valid, last, highest, witnessing, fatal, restarts >> /\ Honest' = Honest
  BY DEF ChooseBuildingBlock, Honest
<1>4. AllLow' /\ NoTwoIndelible' /\ Keepers(G)'
  BY <1>1, <1>2, <1>3 DEF AllLow, NoTwoIndelible, Good, Keepers
<1>5. \A u \in Honest : u # w => building'[u] = building[u]
  BY <1>2 DEF ChooseBuildingBlock, ChainInv, TypeOK
<1>6. ASSUME NEW u \in G PROVE WitnessRules(u)'
  <2>1. u \in Honest /\ u \in Honest' /\ WitnessRules(u)
    BY <1>1, <1>3 DEF Good
  <2>2. CASE u = w
    BY <1>2, <2>1, <2>2, ChosenByTheRules DEF AllLow
  <2>3. CASE u # w
    <3>1. last[u] \in Chains /\ InChain(last[u], last'[u])
      <4>1. last[u] \in Chains /\ Level(last[u]) \in Nat
        BY <1>2, <2>1, CreatedLawful DEF ChainInv, TypeOK
      <4> QED BY <1>3, <4>1, WholeChain DEF InChain
    <3> QED BY <1>2, <1>3, <1>5, <2>1, <2>3, <3>1, RulesKept
  <2> QED BY <2>2, <2>3
<1>7. Good(G)'
  BY <1>1, <1>3, <1>4, <1>6 DEF Good
<1> QED BY <1>2, <1>3, <1>4, <1>7 DEF AgreementInv

\* The blocks after a step, as CreatedLawful says of those before it
LEMMA SignedLawful ==
    ASSUME ChainInv', NEW b \in created'
    PROVE  /\ b \in Chains /\ Level(b) \in Nat /\ LawfulChain(b)
           /\ \A lev \in 1 .. Level(b) : AncestorAt(b, lev) \in created'
<1>1. b \in Chains /\ Level(b) \in Nat
  BY DEF ChainInv, TypeOK, Chains, Level
<1>2. ASSUME NEW lev \in 1 .. Level(b) PROVE AncestorAt(b, lev) \in created' /\ ~CheckBadSigOrder(AncestorAt(b, lev))
  <2>1. lev \in 0 .. Level(b)
    BY <1>1
  <2>2. AncestorAt(b, lev) \in created' \cup {Genesis}
    BY <2>1 DEF ChainInv, PrefixClosed
  <2>3. Level(AncestorAt(b, lev)) = lev
    BY <1>1, <2>1, Ancestors
  <2>4. AncestorAt(b, lev) # Genesis
    BY <1>1, <2>3, GenesisChain
  <2> QED BY <2>2, <2>4 DEF ChainInv, AllInOrder
<1> QED BY <1>1, <1>2 DEF LawfulChain

(* One more block is signed: what was certified stays so when its signer, if *)
(* it keeps the rules, signed nothing at that level or above.                *)
LEMMA SignedMore ==
    ASSUME ChainInv, ChainInv', NEW G, Good(G), NEW b, created' = created \cup {b},
           Signer(b) \in G => \A c \in created : Signer(c) = Signer(b) => Level(c) < Level(b),
           \A u \in G : OnceBy(u, created') /\ ScoreRule(u, created', last[u])
    PROVE  /\ Signed(created', G) /\ ByTheRules(G, created', last)
           /\ \A v \in Honest : Certified(last[v], G, created')
<1>1. Signed(created, G) /\ ByTheRules(G, created, last)
  BY GoodIsSigned
<1>2. Level(b) \in Nat
  BY SignedLawful
<1>3. ASSUME NEW v \in Honest PROVE Certified(last[v], G, created')
  <2>1. PICK a : a = last[v]
    OBVIOUS
  <2>2. Certified(a, G, created)
    BY <2>1 DEF Good
  <2>3. PICK M : M = created'
    OBVIOUS
  <2>4. M = created \cup {b}
    BY <2>3
  <2>5. Certified(a, G, M)
    BY <1>1, <1>2, <2>2, <2>4, StaysCertified
  <2> QED BY <2>1, <2>3, <2>5
<1>4. Signed(created', G)
  <2>1. \A c \in created' : LawfulChain(c) /\ \A lev \in 1 .. Level(c) : AncestorAt(c, lev) \in created'
    BY SignedLawful
  <2>2. G \subseteq Witnesses /\ Cardinality(Witnesses \ G) <= MaxMal
    BY <1>1 DEF Signed
  <2> QED BY <2>1, <2>2 DEF Signed
<1>5. ByTheRules(G, created', last)
  <2>1. G \subseteq Honest
    BY DEF Good, Keepers
  <2>2. \A u \in G : last[u] \in Chains
    BY <1>1 DEF ByTheRules
  <2> QED BY <1>3, <2>1, <2>2 DEF ByTheRules
<1> QED BY <1>3, <1>4, <1>5

LEMMA FinishAgrees ==
    ASSUME WithinLimits, AgreementInv, NEW w \in Honest, FinishNewBlock(w)
    PROVE  AgreementInv'
<1>1. PICK G \in SUBSET Honest : Good(G)
  BY DEF AgreementInv
<1>2. ChainInv /\ AllLow /\ NoTwoIndelible /\ ChainInv'
  BY FinishKeeps DEF AgreementInv
<1>3. UNCHANGED << malicious, witnessing, restarts >> /\ building' = [building EXCEPT ![w] = {}] /\ Honest' = Honest
  BY DEF FinishNewBlock, Honest
<1>4. PICK p \in building[w], x \in Variants :
        LET b == Append(p, << w, x >>)
        IN  /\ p \in created \cup {Genesis} /\ p \in Chains
            /\ created' = created \cup {b} /\ highest' = [highest EXCEPT ![w] = Level(b)]
            /\ ValidObjsBlockInsert(w, b)
  BY <1>2, Finished
<1>5. PICK b : b = Append(p, << w, x >>)
  OBVIOUS
<1>6. /\ p \in Chains /\ OnTop(b, p, w) /\ b \in created'
      /\ created' = created \cup {b} /\ highest' = [highest EXCEPT ![w] = Level(b)] /\ ValidObjsBlockInsert(w, b)
  BY <1>4, <1>5 DEF OnTop
<1>7. Signer(b) = w
  <2>1. w \in Witnesses
    BY DEF Honest
  <2> QED BY <1>6, <2>1, BlockOnTop
<1>8. /\ highest'[w] = Level(b) /\ building'[w] = {}
      /\ \A u \in Honest : u # w => highest'[u] = highest[u] /\ building'[u] = building[u]
  BY <1>2, <1>3, <1>6 DEF ChainInv, TypeOK
<1>9. w \in G => /\ WitnessRules(w) /\ \A c \in created : Signer(c) = w => Level(c) < Level(b)
                 /\ OnceBy(w, created') /\ ScoreRule(w, created', last[w])
  <2> SUFFICES ASSUME w \in G PROVE /\ WitnessRules(w) /\ \A c \in created : Signer(c) = w => Level(c) < Level(b)
                                    /\ OnceBy(w, created') /\ ScoreRule(w, created', last[w])
    OBVIOUS
  <2>1. WitnessRules(w)
    BY <1>1 DEF Good
  <2>2. PICK M : M = created'
    OBVIOUS
  <2>3. M = created \cup {b}
    BY <1>6, <2>2
  <2>4. /\ \A c \in created : Signer(c) = w => Level(c) < Level(b)
        /\ OnceBy(w, M) /\ ScoreRule(w, M, last[w])
    BY <1>2, <1>6, <2>1, <2>3, SignsHigher
  <2> QED BY <2>1, <2>2, <2>4
<1>10. ASSUME NEW u \in G PROVE OnceBy(u, created') /\ ScoreRule(u, created', last[u])
  <2>1. CASE u = w
    BY <1>9, <2>1
  <2>2. CASE u # w
    <3>1. \A c \in created' : Signer(c) = u => c \in created
      BY <1>6, <1>7, <2>2
    <3>2. OnceBy(u, created) /\ ScoreRule(u, created, last[u])
      BY <1>1 DEF Good, WitnessRules
    <3> QED BY <3>1, <3>2 DEF OnceBy, ScoreRule
  <2> QED BY <2>1, <2>2
<1>11. /\ Signed(created', G) /\ ByTheRules(G, created', last)
       /\ \A v \in Honest : Certified(last[v], G, created')
  BY <1>1, <1>2, <1>6, <1>7, <1>9, <1>10, SignedMore
<1>12. /\ valid'[w] = valid[w] \cup {b}
       /\ \A v \in Honest : /\ last'[v] \in Chains /\ InChain(last[v], last'[v]) /\ valid[v] \subseteq valid'[v]
                            /\ Certified(last'[v], G, created')
       /\ AllLow' /\ NoTwoIndelible'
  <2>1. PICK D : D = created'
    OBVIOUS
  <2>2. Signed(D, G) /\ ByTheRules(G, D, last) /\ b \in D /\ \A v \in Honest : Certified(last[v], G, D)
    BY <1>6, <1>11, <2>1
  <2>3. /\ valid'[w] = valid[w] \cup {b}
        /\ \A v \in Honest : /\ last'[v] \in Chains /\ InChain(last[v], last'[v]) /\ valid[v] \subseteq valid'[v]
                             /\ Certified(last'[v], G, D)
        /\ AllLow' /\ NoTwoIndelible'
    BY <1>2, <1>3, <1>6, <2>2, Inserted
  <2> QED BY <2>1, <2>3
<1>13. ASSUME NEW u \in G PROVE WitnessRules(u)'
  <2>1. u \in Honest /\ u \in Honest' /\ WitnessRules(u)
    BY <1>1, <1>3 DEF Good
  <2>2. CASE u = w
    BY <1>2, <1>6, <1>8, <1>12, <2>1, <2>2, SignedByTheRules
  <2>3. CASE u # w
    <3>1. /\ created \subseteq created' /\ \A c \in created' : Signer(c) = u => c \in created
          /\ building'[u] = building[u] /\ highest'[u] = highest[u] /\ (u \in witnessing' <=> u \in witnessing)
      BY <1>3, <1>6, <1>7, <1>8, <2>1, <2>3
    <3>2. valid[u] \subseteq valid'[u] /\ InChain(last[u], last'[u])
      BY <1>12, <2>1
    <3> QED BY <1>2, <2>1, <3>1, <3>2, RulesKept
  <2> QED BY <2>2, <2>3
<1>14. Keepers(G)'
  BY <1>1, <1>3 DEF Good, Keepers
<1>15. Good(G)'
  BY <1>3, <1>12, <1>13, <1>14 DEF Good
<1> QED BY <1>2, <1>3, <1>12, <1>15 DEF AgreementInv

LEMMA MaliciousAgrees ==
    ASSUME WithinLimits, AgreementInv, NEW w \in malicious, MaliciousBlock(w)
    PROVE  AgreementInv'
<1>1. PICK G \in SUBSET Honest : Good(G)
  BY DEF AgreementInv
<1>2. ChainInv /\ AllLow /\ NoTwoIndelible /\ ChainInv'
  BY MaliciousKeeps DEF AgreementInv
<1>3. UNCHANGED << malicious, valid, last, building, highest, witnessing, fatal, restarts >> /\ Honest' = Honest
  BY DEF MaliciousBlock, Honest
<1>4. PICK p \in created \cup {Genesis}, x \in Variants : created' = created \cup {Append(p, << w, x >>)}
  BY DEF MaliciousBlock
<1>5. PICK b : b = Append(p, << w, x >>)
  OBVIOUS
<1>6. created' = created \cup {b} /\ Signer(b) = w /\ w \notin Honest
  <2>1. p \in Chains /\ w \in Witnesses
    BY <1>2, CreatedChains DEF ChainInv
  <2>2. OnTop(b, p, w)
    BY <1>5 DEF OnTop
  <2>3. Signer(b) = w
    BY <2>1, <2>2, BlockOnTop
  <2> QED BY <1>4, <1>5, <2>3 DEF Honest
<1>7. ASSUME NEW u \in G PROVE \A c \in created' : Signer(c) = u => c \in created
  BY <1>6
<1>8. ASSUME NEW u \in G PROVE OnceBy(u, created') /\ ScoreRule(u, created', last[u])
  <2>1. OnceBy(u, created) /\ ScoreRule(u, created, last[u])
    BY <1>1 DEF Good, WitnessRules
  <2> QED BY <1>7, <2>1 DEF OnceBy, ScoreRule
<1>9. Signer(b) \notin G
  BY <1>1, <1>6
<1>10. \A v \in Honest : Certified(last[v], G, created')
  BY <1>1, <1>2, <1>6, <1>8, <1>9, SignedMore
<1>11. ASSUME NEW u \in G PROVE WitnessRules(u)'
  <2>1. u \in Honest /\ u \in Honest' /\ WitnessRules(u)
    BY <1>1, <1>3 DEF Good
  <2>2. last[u] \in Chains /\ InChain(last[u], last'[u])
    <3>1. last[u] \in Chains /\ Level(last[u]) \in Nat
      BY <1>2, <2>1, CreatedLawful DEF ChainInv, TypeOK
    <3> QED BY <1>3, <3>1, WholeChain DEF InChain
  <2> QED BY <1>2, <1>3, <1>6, <1>7, <2>1, <2>2, RulesKept
<1>12. AllLow' /\ NoTwoIndelible' /\ Keepers(G)'
  BY <1>1, <1>2, <1>3 DEF AllLow, NoTwoIndelible, Good, Keepers
<1>13. Good(G)'
  BY <1>3, <1>10, <1>11, <1>12 DEF Good
<1> QED BY <1>2, <1>3, <1>12, <1>13 DEF AgreementInv

\* A certificate says less when fewer witnesses keep the rules
LEMMA FewerKeepers ==
    ASSUME NEW D, NEW G, NEW H, H \subseteq G, NEW a, Certified(a, G, D)
    PROVE  Certified(a, H, D)
<1> SUFFICES ASSUME NEW l \in 1 .. Level(a) PROVE \E Y \in D : Certificate(Y, a, l, H, D)
  BY DEF Certified
<1>1. PICK Y \in D : Certificate(Y, a, l, G, D)
  BY DEF Certified
<1>2. Later(Y, l, H, D)
  BY <1>1 DEF Certificate, Later
<1> QED BY <1>1, <1>2 DEF Certificate

(* A witness that restarts without waiting to catch up with itself leaves    *)
(* the keepers, of which the limit on such restarts leaves enough.           *)
LEMMA KeepersLeft ==
    ASSUME ChainInv, NEW w \in Honest, ~SyncFirst, Restart(w), NEW G, Keepers(G)
    PROVE  Keepers(G \ {w})'
<1>1. /\ Cardinality(malicious) + restarts < MaxMal /\ restarts' = restarts + 1 /\ malicious' = malicious
      /\ witnessing' = witnessing \ {w} /\ Honest' = Honest
  BY DEF Restart, Honest
<1>2. G \subseteq Honest /\ G \subseteq witnessing /\ Cardinality(Witnesses \ G) <= Cardinality(malicious) + restarts
  BY DEF Keepers
<1>3. IsFiniteSet(Witnesses \ G) /\ Cardinality(Witnesses \ G) \in Nat
  BY FiniteWitnesses, FS_Subset, FS_CardinalityType
<1>4. Cardinality(malicious) \in Nat /\ restarts \in Nat
  <2>1. malicious \subseteq Witnesses /\ restarts \in Nat
    BY BoundsAssumption DEF ChainInv, TypeOK
  <2> QED BY <2>1, FiniteWitnesses, FS_Subset, FS_CardinalityType
<1>5. Cardinality(Witnesses \ (G \ {w})) <= Cardinality(Witnesses \ G) + 1 /\ Cardinality(Witnesses \ (G \ {w})) \in Nat
  <2>1. Witnesses \ (G \ {w}) = (Witnesses \ G) \cup {w}
    BY DEF Honest
  <2>2. /\ IsFiniteSet((Witnesses \ G) \cup {w})
        /\ Cardinality((Witnesses \ G) \cup {w}) = IF w \in Witnesses \ G THEN Cardinality(Witnesses \ G) ELSE Cardinality(Witnesses \ G) + 1
    BY <1>3, FS_AddElement
  <2> DEFINE S == (Witnesses \ G) \cup {w}
  <2>3. Cardinality(S) <= Cardinality(Witnesses \ G) + 1 /\ Cardinality(S) \in Nat
    <3>1. Cardinality(S) = Cardinality(Witnesses \ G) \/ Cardinality(S) = Cardinality(Witnesses \ G) + 1
      BY <2>2
    <3> HIDE DEF S
    <3> QED BY <1>3, <3>1
  <2> QED BY <2>1, <2>3
<1>6. Cardinality(Witnesses \ (G \ {w})) <= MaxMal /\ Cardinality(Witnesses \ (G \ {w})) <= Cardinality(malicious) + (restarts + 1)
  <2>1. MaxMal \in Nat
    BY ParamsAssumption
  <2>2. PICK n : n = Cardinality(Witnesses \ (G \ {w}))
    OBVIOUS
  <2>3. PICK m : m = Cardinality(Witnesses \ G)
    OBVIOUS
  <2>4. PICK k : k = Cardinality(malicious)
    OBVIOUS
  <2>5. n \in Nat /\ m \in Nat /\ k \in Nat /\ n <= m + 1 /\ m <= k + restarts /\ k + restarts < MaxMal
    BY <1>1, <1>2, <1>3, <1>4, <1>5, <2>2, <2>3, <2>4
  <2>6. n <= MaxMal /\ n <= k + (restarts + 1)
    BY <1>4, <2>1, <2>5
  <2> QED BY <2>2, <2>4, <2>6
<1>7. G \ {w} \subseteq Honest /\ G \ {w} \subseteq witnessing \ {w}
  BY <1>2
<1>8. Cardinality(Witnesses \ (G \ {w})) <= Cardinality(malicious') + restarts'
  BY <1>1, <1>6
<1> QED BY <1>1, <1>6, <1>7, <1>8 DEF Keepers

LEMMA RestartAgrees ==
    ASSUME WithinLimits, AgreementInv, NEW w \in Honest, Restart(w) \/ EnableWitness(w)
    PROVE  AgreementInv'
<1>1. PICK G \in SUBSET Honest : Good(G)
  BY DEF AgreementInv
<1>2. ChainInv /\ AllLow /\ NoTwoIndelible /\ ChainInv'
  BY RestartKeeps DEF AgreementInv
<1>3. UNCHANGED << malicious, created, last >> /\ Honest' = Honest
  BY DEF Restart, EnableWitness, Honest
<1>4. \A u \in Honest : /\ last[u] \in Chains /\ Level(last[u]) \in Nat /\ InChain(last[u], last'[u])
  <2> SUFFICES ASSUME NEW u \in Honest PROVE last[u] \in Chains /\ Level(last[u]) \in Nat /\ InChain(last[u], last'[u])
    OBVIOUS
  <2>1. last[u] \in Chains /\ Level(last[u]) \in Nat
    BY <1>2, CreatedLawful DEF ChainInv, TypeOK
  <2> QED BY <1>3, <2>1, WholeChain DEF InChain
<1>5. ASSUME NEW u \in Honest, u # w
      PROVE  /\ valid'[u] = valid[u] /\ building'[u] = building[u] /\ highest'[u] = highest[u]
             /\ (u \in witnessing' <=> u \in witnessing) /\ (fatal'[u] => fatal[u])
  BY <1>2, <1>5 DEF Restart, EnableWitness, ChainInv, TypeOK
<1>6. ASSUME NEW u \in G, u # w PROVE WitnessRules(u)'
  <2>1. u \in Honest /\ u \in Honest' /\ WitnessRules(u)
    BY <1>1, <1>3 DEF Good
  <2> QED BY <1>2, <1>3, <1>4, <1>5, <1>6, <2>1, RulesKept
<1>7. AllLow'
  <2> SUFFICES ASSUME NEW v \in Honest PROVE Low(valid'[v], last[v])
    BY <1>3 DEF AllLow
  <2>1. Low(valid[v], last[v])
    BY <1>2 DEF AllLow
  <2>2. CASE valid'[v] = valid[v]
    BY <2>1, <2>2
  <2>3. CASE valid'[v] = {last[v]}
    <3>1. Level(last[v]) < Level(last[v]) + (NWitnesses + MaxMal)
      BY <1>4, Limits
    <3> QED BY <2>3, <3>1 DEF Low
  <2>4. valid'[v] = valid[v] \/ valid'[v] = {last[v]}
    BY <1>2 DEF Restart, EnableWitness, ChainInv, TypeOK
  <2> QED BY <2>2, <2>3, <2>4
<1>8. NoTwoIndelible'
  <2> SUFFICES ASSUME NEW v \in Honest PROVE ~fatal'[v]
    BY <1>3 DEF NoTwoIndelible
  <2> QED BY <1>2 DEF Restart, EnableWitness, NoTwoIndelible, ChainInv, TypeOK
<1>9. ASSUME NEW H \in SUBSET G, Keepers(H)', w \in H => WitnessRules(w)' PROVE \E K \in SUBSET Honest' : Good(K)'
  <2>1. \A v \in Honest : Certified(last[v], H, created)
    BY <1>1, FewerKeepers DEF Good
  <2>2. \A u \in H : WitnessRules(u)'
    BY <1>6, <1>9
  <2>3. Good(H)'
    BY <1>3, <1>9, <2>1, <2>2 DEF Good
  <2> QED BY <1>1, <1>3, <2>3
<1>10. \E K \in SUBSET Honest' : Good(K)'
  <2>1. CASE SyncFirst
    <3>1. Keepers(G)'
      BY <1>1, <1>3, <2>1 DEF Good, Keepers
    <3>2. w \in G => WitnessRules(w)'
      BY <1>1, <1>2, <2>1, RestartedByTheRules DEF Good
    <3> QED BY <1>9, <3>1, <3>2
  <2>2. CASE ~SyncFirst /\ Restart(w)
    <3>1. Keepers(G \ {w})'
      BY <1>1, <1>2, <2>2, KeepersLeft DEF Good
    <3> QED BY <1>9, <3>1
  <2>3. CASE ~SyncFirst /\ EnableWitness(w)
    <3>1. w \notin witnessing /\ witnessing' = witnessing \cup {w} /\ restarts' = restarts
      BY <2>3 DEF EnableWitness
    <3>2. G \subseteq witnessing /\ w \notin G
      BY <1>1, <2>3, <3>1 DEF Good, Keepers
    <3>3. Keepers(G)'
      BY <1>1, <1>3, <3>1, <3>2 DEF Good, Keepers
    <3> QED BY <1>9, <3>2, <3>3
  <2> QED BY <2>1, <2>2, <2>3
<1> QED BY <1>2, <1>7, <1>8, <1>10 DEF AgreementInv

LEMMA AgreementStep == ASSUME WithinLimits, AgreementInv, [Next]_vars PROVE AgreementInv'
<1>1. CASE UNCHANGED vars
  <2>1. UNCHANGED << malicious, created, valid, last, building, highest, witnessing, fatal, restarts >> /\ Honest' = Honest
    BY <1>1 DEF vars, Honest
  <2>2. ChainInv'
    BY <2>1 DEF AgreementInv, ChainInv, TypeOK, PrefixClosed, AllInOrder, BuildingInOrder, Extended
  <2>3. AllLow' /\ NoTwoIndelible'
    BY <2>1 DEF AgreementInv, AllLow, NoTwoIndelible
  <2>4. ASSUME NEW G \in SUBSET Honest, Good(G) PROVE Good(G)'
    BY <2>1, <2>4 DEF Good, Keepers, WitnessRules, SignedBelowBy, OwnKept, BuildRule, Extended
  <2> QED BY <2>1, <2>2, <2>3, <2>4 DEF AgreementInv
<1>2. CASE Next
  <2>1. ASSUME NEW w \in Honest, NEW b \in created, ReceiveBlock(w, b) PROVE AgreementInv'
    BY <2>1, ReceiveAgrees
  <2>2. ASSUME NEW w \in Honest, ChooseBuildingBlock(w) PROVE AgreementInv'
    BY <2>2, ChooseAgrees
  <2>3. ASSUME NEW w \in Honest, FinishNewBlock(w) PROVE AgreementInv'
    BY <2>3, FinishAgrees
  <2>4. ASSUME NEW w \in Honest, Restart(w) \/ EnableWitness(w) PROVE AgreementInv'
    BY <2>4, RestartAgrees
  <2>5. ASSUME NEW w \in malicious, MaliciousBlock(w) PROVE AgreementInv'
    BY <2>5, MaliciousAgrees
  <2> QED BY <1>2, <2>1, <2>2, <2>3, <2>4, <2>5 DEF Next
<1> QED BY <1>1, <1>2

(* Safety of the witness protocol.  When no more than maxmal witnesses,      *)
(* below half, ignore the rules or restart without waiting to catch up with  *)
(* themselves, the thresholds of BlockAux::SetConfSigs are not cut off and   *)
(* the scores of CalcSkipScore do not overflow, then the chains that the     *)
(* nodes count as indelible are prefixes of one another, whatever order the  *)
(* blocks arrive in, and SetNewlyIndelibleBlock never finds a second         *)
(* indelible block at a level.                                               *)
THEOREM ConsensusCorrect == ASSUME WithinLimits PROVE Spec => []ConsensusInv
<1>1. Init => AgreementInv
  BY AgreementInit
<1>2. AgreementInv /\ [Next]_vars => AgreementInv'
  BY AgreementStep
<1>3. AgreementInv => ConsensusInv
  BY Agrees
<1> QED BY <1>1, <1>2, <1>3, PTL DEF Spec
=============================================================================
