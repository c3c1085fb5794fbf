----------------------------- MODULE Consensus ------------------------------
(***************************************************************************)
(* The witness protocol across nodes.  Each honest witness keeps the       *)
(* blocks it has validated, the last block it made indelible and the       *)
(* highest level it has signed; blocks reach the others in any order, at   *)
(* any time or never.  Some witnesses sign whatever they like, and others  *)
(* restart and have forgotten what they signed.                            *)
(* (witness.cpp, processblock.cpp, blockchain.cpp)                         *)
(***************************************************************************)
EXTENDS BlockRules, FiniteSets

CONSTANTS
    MaxLevel,       \* bound: highest level of a block
    MaxBlocks,      \* bound: number of blocks signed
    MaxRestarts,    \* bound: number of restarts of honest witnesses
    SyncFirst,      \* BOOLEAN: a restarted witness waits until it has caught up with itself
    Variants        \* tells apart two blocks of one witness on one prior

ASSUME BoundsAssumption ==
    /\ MaxLevel \in Nat /\ MaxBlocks \in Nat /\ MaxRestarts \in Nat
    /\ SyncFirst \in BOOLEAN /\ Variants # {}

VARIABLES
    malicious,  \* witnesses that ignore the rules
    created,    \* every block signed so far
    valid,      \* valid[w]: the ValidObjs of w's node
    last,       \* last[w]: m_last_indelible_block
    building,   \* building[w]: priorobj of AttemptNewBlock, {} while none is chosen
    highest,    \* highest[w]: m_highest_witnessed_level
    witnessing, \* witnesses whose ThreadProc runs
    fatal,      \* fatal[w]: SetFatalError was called
    restarts    \* number of restarts so far

vars == << malicious, created, valid, last, building, highest, witnessing, fatal, restarts >>

Honest == Witnesses \ malicious

(* Types: what the nodes keep, and that a node's highest witnessed level     *)
(* never passes the bound on levels.                                         *)
TypeOK ==
    /\ malicious \subseteq Witnesses
    /\ \A b \in created : b \in Seq(Witnesses \X Variants) /\ Level(b) \in 1 .. MaxLevel
    /\ valid \in [Honest -> SUBSET (created \cup {Genesis})]
    /\ last \in [Honest -> created \cup {Genesis}]
    /\ building \in [Honest -> SUBSET (created \cup {Genesis})]
    /\ highest \in [Honest -> 0 .. MaxLevel]
    /\ witnessing \subseteq Honest
    /\ fatal \in [Honest -> BOOLEAN]
    /\ restarts \in 0 .. MaxRestarts

\* The rules promise safety with at most maxmal witnesses that ignore them
Init ==
    /\ malicious \in {M \in SUBSET Witnesses : Cardinality(M) <= MaxMal}
    /\ created = {}
    /\ valid = [w \in Honest |-> {Genesis}]
    /\ last = [w \in Honest |-> Genesis]
    /\ building = [w \in Honest |-> {}]
    /\ highest = [w \in Honest |-> 0]
    /\ witnessing = Honest
    /\ fatal = [w \in Honest |-> FALSE]
    /\ restarts = 0

-----------------------------------------------------------------------------
(* DoConfirmOne: new block b confirms its ancestor at level lev when enough  *)
(* signatures, counted from that ancestor, are on the chain.                 *)
Confirms(b, lev) ==
    LET nconfsigs == Level(b) - lev + 1
    IN  /\ nconfsigs >= NSeqConfSigs
        /\ Skip(AncestorAt(b, lev)) > 0 => nconfsigs >= NSkipConfSigs

(* The scan of DoConfirmOne stops at the highest marked block below b; the   *)
(* marked blocks are the chain of the last indelible block.                  *)
ScanStop(b, indelible) ==
    CHOOSE lev \in 0 .. Level(b) :
        /\ InChain(AncestorAt(b, lev), indelible)
        /\ \A l \in lev + 1 .. Level(b) : ~InChain(AncestorAt(b, l), indelible)

(* DoConfirmationLoop confirms one block after the other as long as it can.  *)
(* On a chain that branches off below the last indelible block the first one *)
(* it confirms is a second indelible block at its level, a fatal error.      *)
DoConfirmations(b, indelible) ==
    LET stop == ScanStop(b, indelible)
        top  == CHOOSE k \in stop .. Level(b) :
                  /\ \A j \in stop + 1 .. k : Confirms(b, j)
                  /\ k < Level(b) => ~Confirms(b, k + 1)
    IN  IF stop = Level(indelible)
          THEN [last |-> AncestorAt(b, top), fatal |-> FALSE]
          ELSE [last |-> indelible, fatal |-> top > stop]

\* ValidObjsBlockInsert: the block becomes valid, then DoConfirmations runs
ValidObjsBlockInsert(w, b) ==
    LET r == DoConfirmations(b, last[w])
    IN  /\ valid' = [valid EXCEPT ![w] = @ \cup {b}]
        /\ last' = [last EXCEPT ![w] = r.last]
        /\ fatal' = [fatal EXCEPT ![w] = r.fatal]

-----------------------------------------------------------------------------
\* Mutant: a witness drops the blocks of the levels it has signed itself
BuggyReceiveBlock(w, b) ==
    /\ ~fatal[w]
    /\ b \notin valid[w] /\ Prior(b) \in valid[w]
    /\ Level(b) > highest[w]
    /\ ~CheckBadSigOrder(b)
    /\ ValidObjsBlockInsert(w, b)
    /\ UNCHANGED << malicious, created, building, highest, witnessing, restarts >>

(* ProcessBlock: a block arrives whose prior block is valid here (until then *)
(* it is held) and whose signers are in order.                               *)
ReceiveBlock(w, b) ==
    /\ ~fatal[w]
    /\ b \notin valid[w]
    /\ Prior(b) \in valid[w]
    /\ ~CheckBadSigOrder(b)
    /\ ValidObjsBlockInsert(w, b)
    /\ UNCHANGED << malicious, created, building, highest, witnessing, restarts >>

\* Mutant: a witness forgets the chains it has signed
BuggyFindBestOwnScore(w) == 0 * w

\* FindBestOwnScore: the best score among the valid blocks this witness signed
FindBestOwnScore(w) ==
    LET own == {b \in valid[w] \ {Genesis} : Signer(b) = w}
        scores == {CalcSkipScore(b, last[w]) : b \in own} \cup {0}
    IN  CHOOSE s \in scores : \A t \in scores : t <= s

(* FindBestBuildingBlock: a valid block no lower than the highest level      *)
(* signed, on which w's signature is in order, and whose score with w on top *)
(* is the highest and beats the best of w's own blocks.                      *)
Extended(w, b) == Append(b, << w, CHOOSE v \in Variants : TRUE >>)

\* Mutant: m_highest_witnessed_level is not looked at
BuggyBuildable(w, b) ==
    /\ b \in valid[w]
    /\ ~CheckBadSigOrder(Extended(w, b))
    /\ CalcSkipScore(Extended(w, b), last[w]) > 0

Buildable(w, b) ==
    /\ b \in valid[w]
    /\ highest[w] <= Level(b)
    /\ ~CheckBadSigOrder(Extended(w, b))
    /\ CalcSkipScore(Extended(w, b), last[w]) > FindBestOwnScore(w)

FindBestBuildingBlock(w) ==
    {b \in valid[w] :
        /\ Buildable(w, b)
        /\ \A c \in valid[w] : Buildable(w, c) =>
             CalcSkipScore(Extended(w, c), last[w]) <= CalcSkipScore(Extended(w, b), last[w])}

(* AttemptNewBlock, first part: choose the prior block, again whenever new   *)
(* blocks are reported before the block is finished.                         *)
ChooseBuildingBlock(w) ==
    /\ w \in witnessing /\ ~fatal[w]
    /\ \E b \in FindBestBuildingBlock(w) :
         /\ b \notin building[w]
         /\ Level(b) < MaxLevel
         /\ building' = [building EXCEPT ![w] = {b}]
    /\ UNCHANGED << malicious, created, valid, last, highest, witnessing, fatal, restarts >>

\* Mutant: the level noted is one too high
BuggyFinishNewBlock(w) ==
    /\ ~fatal[w]
    /\ Cardinality(created) < MaxBlocks
    /\ \E p \in building[w], v \in Variants :
         LET b == Append(p, << w, v >>)
         IN  /\ created' = created \cup {b}
             /\ highest' = [highest EXCEPT ![w] = Level(b) + 1]
             /\ ValidObjsBlockInsert(w, b)
    /\ building' = [building EXCEPT ![w] = {}]
    /\ UNCHANGED << malicious, witnessing, restarts >>

(* AttemptNewBlock, second part: FinishNewBlock signs, the level is noted    *)
(* and the block is inserted.  The choice may be stale by now.               *)
FinishNewBlock(w) ==
    /\ ~fatal[w]
    /\ Cardinality(created) < MaxBlocks
    /\ \E p \in building[w], v \in Variants :
         LET b == Append(p, << w, v >>)
         IN  /\ created' = created \cup {b}
             /\ highest' = [highest EXCEPT ![w] = Level(b)]
             /\ ValidObjsBlockInsert(w, b)
    /\ building' = [building EXCEPT ![w] = {}]
    /\ UNCHANGED << malicious, witnessing, restarts >>

(* A restart keeps the indelible chain and nothing else: RestoreLastBlocks   *)
(* makes only the last indelible block valid.  Here highest[w] still tells   *)
(* the level of w's last block, which only the operator can know.  "As long  *)
(* as no more than nmal witnesses are starting up and generating misordered  *)
(* blocks", no harm is done, so one that does not wait to catch up counts as *)
(* malicious.                                                                *)
Restart(w) ==
    /\ restarts < MaxRestarts
    /\ ~SyncFirst => Cardinality(malicious) + restarts < MaxMal
    /\ restarts' = restarts + 1
    /\ valid' = [valid EXCEPT ![w] = {last[w]}]
    /\ building' = [building EXCEPT ![w] = {}]
    /\ witnessing' = witnessing \ {w}
    /\ fatal' = [fatal EXCEPT ![w] = FALSE]
    /\ UNCHANGED << malicious, created, last, highest >>

\* Mutant: the witness is enabled before it has caught up with its own blocks
BuggyEnableWitness(w) ==
    /\ w \notin witnessing
    /\ highest' = [highest EXCEPT ![w] = Level(last[w])]
    /\ witnessing' = witnessing \cup {w}
    /\ UNCHANGED << malicious, created, valid, last, building, fatal, restarts >>

(* Witness::ThreadProc starts with the last indelible level as the highest   *)
(* level signed.  The comment there asks to "make sure blockchain is sync'ed *)
(* past the witness's last created block before enabling the witness".       *)
EnableWitness(w) ==
    /\ w \notin witnessing
    /\ SyncFirst => Level(last[w]) >= highest[w]
    /\ highest' = [highest EXCEPT ![w] = Level(last[w])]
    /\ witnessing' = witnessing \cup {w}
    /\ UNCHANGED << malicious, created, valid, last, building, fatal, restarts >>

\* A malicious witness signs any block that honest nodes will accept
MaliciousBlock(w) ==
    /\ Cardinality(created) < MaxBlocks
    /\ \E p \in created \cup {Genesis}, v \in Variants :
         LET b == Append(p, << w, v >>)
         IN  /\ Level(b) <= MaxLevel
             /\ b \notin created
             /\ ~CheckBadSigOrder(b)
             /\ created' = created \cup {b}
    /\ UNCHANGED << malicious, valid, last, building, highest, witnessing, fatal, restarts >>

Next ==
    \/ \E w \in Honest :
         \/ \E b \in created : ReceiveBlock(w, b)
         \/ ChooseBuildingBlock(w)
         \/ FinishNewBlock(w)
         \/ Restart(w)
         \/ EnableWitness(w)
    \/ \E w \in malicious : MaliciousBlock(w)

Spec == Init /\ [][Next]_vars

-----------------------------------------------------------------------------
(* Agreement: the indelible chains of any two nodes are prefixes of one      *)
(* another, so no two nodes ever make different blocks indelible at a level. *)
Agreement ==
    \A u, w \in Honest : InChain(last[u], last[w]) \/ InChain(last[w], last[u])

(* No node meets the condition SetNewlyIndelibleBlock treats as fatal, two   *)
(* indelible blocks at the same level.                                       *)
NoTwoIndelible == \A w \in Honest : ~fatal[w]

(* The ordering rule of the witnesses: an honest witness never signs two     *)
(* different blocks at one level (m_highest_witnessed_level).                *)
OncePerLevel ==
    \A b, c \in created :
        Signer(b) \in Honest /\ Signer(b) = Signer(c) /\ Level(b) = Level(c) => b = c

(* A confirmed block was signed above by a majority: any NConfSigs           *)
(* consecutive signatures of a valid chain are of different witnesses.       *)
DistinctSigners ==
    \A w \in Honest : \A b \in valid[w] :
        \A i, j \in 1 .. Level(b) :
            (i < j /\ j - i < NConfSigs) => b[i][1] # b[j][1]

\* Blocks are delivered in the end and the witness thread keeps running
FairSpec ==
    /\ Spec
    /\ \A w \in Witnesses :
         /\ WF_vars(w \in Honest /\ \E b \in created : ReceiveBlock(w, b))
         /\ WF_vars(w \in Honest /\ ChooseBuildingBlock(w))
         /\ WF_vars(w \in Honest /\ FinishNewBlock(w))

(* Under fair scheduling and delivery, and with nobody malicious, the first  *)
(* block of the chain becomes indelible at every node: the scores lead the   *)
(* witnesses back to one chain and nobody is left without a block to build   *)
(* on.                                                                       *)
Progress == <>(\A w \in Honest : Level(last[w]) >= 1)

(* What the protocol of the witnesses is for: the nodes' indelible chains    *)
(* agree, and no node ever finds a second indelible block at a level, which  *)
(* SetNewlyIndelibleBlock treats as fatal.                                   *)
ConsensusInv == TypeOK /\ Agreement /\ NoTwoIndelible
=============================================================================
