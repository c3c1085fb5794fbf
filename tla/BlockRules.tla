----------------------------- MODULE BlockRules -----------------------------
(***************************************************************************)
(* The arithmetic that every node applies to a block and to the chain      *)
(* below it: how many signatures confirm a block, how many witnesses a     *)
(* block skipped, when a run of signers is out of order, and the score by  *)
(* which a witness ranks the chains it may extend (block.cpp).             *)
(*                                                                         *)
(* A block is represented by the path from the genesis block: the sequence *)
(* of the witnesses that signed the blocks up to and including it.  The    *)
(* genesis block is the empty path; its wire header is all zeroes, so its  *)
(* signer is witness 0.  Levels are path lengths and the prior block is    *)
(* the path without its last entry.  An entry is a pair: the witness, and  *)
(* a variant that tells apart two blocks one witness signs on one prior.   *)
(***************************************************************************)
EXTENDS Naturals, Sequences

CONSTANTS
    NWitnesses,     \* blockchain_params.nwitnesses, constant after the mint phase
    MaxMal,         \* blockchain_params.maxmal
    MAX_NCONFSIGS,  \* cap on the three thresholds
    MAX_SCORE_BITS  \* width of a score; 64 in the code

ASSUME ParamsAssumption ==
    /\ NWitnesses \in Nat \ {0}
    /\ MaxMal \in Nat
    /\ MAX_NCONFSIGS \in Nat \ {0}
    /\ MAX_SCORE_BITS \in Nat \ {0}

Witnesses == 0 .. NWitnesses - 1

AtMost(x, cap) == IF x > cap THEN cap ELSE x

-----------------------------------------------------------------------------
\* Mutant: the thresholds make no allowance for malicious witnesses
BuggyEffectiveMaxMal == 0

(* BlockAux::SetConfSigs: a maxmal that is not below half is lowered first.  *)
EffectiveMaxMal ==
    IF MaxMal >= (NWitnesses + 1) \div 2 THEN (NWitnesses - 1) \div 2 ELSE MaxMal

\* Mutant: half of the witnesses is taken for a majority
BuggyUncappedConfSigs == (NWitnesses - EffectiveMaxMal) \div 2 + EffectiveMaxMal

UncappedConfSigs == (NWitnesses - EffectiveMaxMal) \div 2 + EffectiveMaxMal + 1

UncappedSkipConfSigs == NWitnesses + EffectiveMaxMal

NConfSigs == AtMost(UncappedConfSigs, MAX_NCONFSIGS)

NSkipConfSigs == AtMost(UncappedSkipConfSigs, MAX_NCONFSIGS)

NSeqConfSigs ==
    AtMost(IF EffectiveMaxMal > 0 THEN UncappedSkipConfSigs ELSE UncappedConfSigs,
           MAX_NCONFSIGS)

-----------------------------------------------------------------------------
(* Block::ComputeSkip: the number of witnesses passed over, in round-robin   *)
(* order, between the signer of a block and the signer of the next.          *)
ComputeSkip(prev, next) ==
    (next + NWitnesses - ((prev + 1) % NWitnesses)) % NWitnesses

Genesis == << >>
Level(b) == Len(b)
Prior(b) == SubSeq(b, 1, Len(b) - 1)
AncestorAt(b, lev) == SubSeq(b, 1, lev)
Signer(b) == IF b = Genesis THEN 0 ELSE b[Len(b)][1]

\* auxp->skip, set by ChainToPriorBlock; zero for the genesis block
Skip(b) == IF b = Genesis THEN 0 ELSE ComputeSkip(Signer(Prior(b)), Signer(b))

\* Sum of the skips of the blocks of b's chain at levels lo+1 .. Level(b)
SkipSum(b, lo) ==
    LET sum[lev \in lo .. Level(b)] ==
          IF lev = lo THEN 0 ELSE sum[lev - 1] + Skip(AncestorAt(b, lev))
    IN  sum[Level(b)]

\* Mutant: the skips may fill one place more than there is
BuggyCheckBadSigOrder(b) ==
    LET lo == IF Level(b) > NConfSigs THEN Level(b) - NConfSigs ELSE 0
    IN  SkipSum(b, lo) + NConfSigs > NWitnesses + 1

(* Block::CheckBadSigOrder: over the last NConfSigs signatures (fewer when   *)
(* the walk reaches the genesis block, whose skip is zero) too many          *)
(* witnesses were skipped.  With top_witness w the code checks the path      *)
(* Append(b, w) before the block exists.                                     *)
CheckBadSigOrder(b) ==
    LET lo == IF Level(b) > NConfSigs THEN Level(b) - NConfSigs ELSE 0
    IN  SkipSum(b, lo) + NConfSigs > NWitnesses

-----------------------------------------------------------------------------
\* BlockInChain / the scan of CalcSkipScoreRecursive: a is on the chain of b
InChain(a, b) == Level(a) <= Level(b) /\ AncestorAt(b, Level(a)) = a

(* Block::CalcSkipScore: a binary fraction read from the last indelible      *)
(* block upwards, a 1 for every block and a 0 for every skipped witness;     *)
(* zero when b is not on top of the last indelible block or when the bits    *)
(* do not fit.                                                               *)
ScoreBits(b, lastIndelible) ==
    1 + (Level(b) - Level(lastIndelible)) + SkipSum(b, Level(lastIndelible))

\* 2^n; a shift never goes past the width of a score
PowerOf2[n \in 0 .. MAX_SCORE_BITS] == IF n = 0 THEN 1 ELSE 2 * PowerOf2[n - 1]

ShiftLeft(x, n) == x * PowerOf2[n]

CalcSkipScore(b, lastIndelible) ==
    LET low == Level(lastIndelible)
        score[lev \in low .. Level(b)] ==
            IF lev = low THEN 1
            ELSE ShiftLeft(score[lev - 1], Skip(AncestorAt(b, lev)) + 1) + 1
        bits == ScoreBits(b, lastIndelible)
    IN  IF ~InChain(lastIndelible, b) \/ bits > MAX_SCORE_BITS
          THEN 0
          ELSE ShiftLeft(score[Level(b)], MAX_SCORE_BITS - bits)
=============================================================================
