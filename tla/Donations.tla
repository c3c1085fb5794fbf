----------------------------- MODULE Donations -----------------------------
(***************************************************************************)
(* The donations of an indelible block are shared out among the witnesses  *)
(* (ccnode/src/blockchain.cpp, SetNewlyIndelibleBlock): the witness of the *)
(* block gets the larger share, each other witness an equal smaller one,   *)
(* in whole units.  The sums are kept in the table of parameters, where a  *)
(* witness has no row until it first gets something.                       *)
(***************************************************************************)
EXTENDS Integers, FiniteSets, FiniteSetsExt

CONSTANTS MaxWitnesses,   \* bound: witnesses
          MaxDonations,   \* bound: donations of a block
          MaxDonated      \* bound: donations of all blocks

ASSUME DonationsAssumption == MaxWitnesses \in Nat \ {0} /\ MaxDonations \in Nat /\ MaxDonated \in Nat

VARIABLES share,     \* DB_KEY_DONATION_TOTALS: the rows by witness
          donated    \* what the blocks collected so far, and their witnesses at the last block

donationVars == <<share, donated>>

DonationInit == share = [w \in {} |-> 0] /\ donated = [total |-> 0, block |-> 0, nwitnesses |-> 1, witness |-> 0]

\* The smaller share, none when the others would take everything.
LittleSplit(total, n) ==
  LET little == (total * 2) \div (3 * n)
  IN  IF total > (n - 1) * little THEN little ELSE 0

BuggyBigSplit(total, n) == total - n * LittleSplit(total, n)

BigSplit(total, n) == total - (n - 1) * LittleSplit(total, n)

BuggyAddDonations(w, n, total) ==
  [i \in DOMAIN share \cup 0..(n - 1) |->
     (IF i \in DOMAIN share THEN share[i] ELSE 0) + (IF i = w THEN LittleSplit(total, n) ELSE BigSplit(total, n))]

AddDonations(w, n, total) ==
  IF total = 0 THEN share
  ELSE [i \in DOMAIN share \cup 0..(n - 1) |->
          (IF i \in DOMAIN share THEN share[i] ELSE 0)
            + (IF i >= n THEN 0 ELSE IF i = w THEN BigSplit(total, n) ELSE LittleSplit(total, n))]

BuggyIndelibleBlock(w, n, total) ==
  /\ donated.total + total <= MaxDonated
  /\ share' = AddDonations(w, n, total)
  /\ donated' = [total |-> total, block |-> total, nwitnesses |-> n, witness |-> w]

IndelibleBlock(w, n, total) ==
  /\ donated.total + total <= MaxDonated
  /\ share' = AddDonations(w, n, total)
  /\ donated' = [total |-> donated.total + total, block |-> total, nwitnesses |-> n, witness |-> w]

DonationNext == \E n \in 1..MaxWitnesses, total \in 0..MaxDonations : \E w \in 0..(n - 1) : IndelibleBlock(w, n, total)

DonationSpec == DonationInit /\ [][DonationNext]_donationVars

(***************************************************************************)
(* Properties.                                                             *)
(***************************************************************************)
DonationTypeOK ==
  /\ DOMAIN share \subseteq 0..(MaxWitnesses - 1) /\ \A w \in DOMAIN share : share[w] \in 0..donated.total
  /\ donated.total \in 0..MaxDonated

\* Nothing is lost or created by the integer division: the shares add up to the donations of all blocks,
\* whatever the number of witnesses was at each of them (blockchain.cpp 1232-1270).
DonationsAddUp == MapThenSumSet(LAMBDA w : share[w], DOMAIN share) = donated.total

\* The witness of a block gets at least as much of it as each of the others, and the others get the same.
BuilderFavoured ==
  [][ LET got(w) == share'[w] - (IF w \in DOMAIN share THEN share[w] ELSE 0)
      IN  \A w \in DOMAIN share' :
            /\ got(w) <= (IF donated'.block = 0 THEN 0 ELSE got(donated'.witness))
            /\ \A v \in DOMAIN share' : {v, w} \subseteq (0..(donated'.nwitnesses - 1)) \ {donated'.witness} => got(v) = got(w) ]_donationVars

\* The shares of the donations always add up to what was donated, and in each block the
\* witness that built it gets no less than the others, who get the same
\* (SetNewlyIndelibleBlock).
DonationsCorrect == [](DonationTypeOK /\ DonationsAddUp) /\ BuilderFavoured
=============================================================================
