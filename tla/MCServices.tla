---------------------------- MODULE MCServices ----------------------------
(***************************************************************************)
(* The parts of a node that work beside the blockchain: the temporary      *)
(* serial numbers (SerialNums), the block sync (BlockSync), the signals    *)
(* that wake the witness (WitnessWork), the split of the donations         *)
(* (Donations), the checkpoint thread (Checkpoint), and the directory of   *)
(* the rendezvous server that it finds its peers with (Directory).  They   *)
(* share no state, so a behaviour is one of them, picked by part, while    *)
(* the others stay in their initial state.                                 *)
(***************************************************************************)
EXTENDS SerialNums, BlockSync, WitnessWork, Donations, Checkpoint, Directory, TLC

(* A chain 1, 2, 3 with two blocks 4 and 5 on block 3, and blocks 6 and 7    *)
(* beside block 2, of which 7 spends one serial number twice.  Block 1       *)
(* skipped a witness, so it is confirmed together with block 2.  The witness *)
(* makes block 3 from the transactions it finds.                             *)
MCBlocks == 0 .. 7
MCPriorOf == [b \in MCBlocks |-> CASE b = 0 -> 0 [] b = 5 -> 3 [] b \in {6, 7} -> 1 [] OTHER -> b - 1]
MCLevelOf == [b \in MCBlocks |-> CASE b = 5 -> 4 [] b \in {6, 7} -> 2 [] OTHER -> b]
MCSkipOf == [b \in MCBlocks |-> IF b = 1 THEN 1 ELSE 0]
MCSpendsOf == [b \in MCBlocks |->
    CASE b = 1 -> << "a" >> [] b = 4 -> << "a" >> [] b = 5 -> << "c", "b" >>
      [] b = 6 -> << "b" >> [] b = 7 -> << "b", "b" >> [] OTHER -> << >>]
MCTxs == { << "a" >>, << "b", "c" >> }

VARIABLE part

\* Three hosts whose names hash to slots 0, 0 or 1, and any: the other
\* choices are these with the table rotated or the hosts renamed.
HostA == CHOOSE h \in Hosts : TRUE
HostB == CHOOSE h \in Hosts \ {HostA} : TRUE
Hashes == {f \in [Hosts -> 0 .. HashSize - 1] : f[HostA] = 0 /\ f[HostB] \in {0, 1}}

Init ==
  /\ part \in {"serials", "sync", "work", "donations", "checkpoint", "directory"}
  /\ hashOf \in (IF part = "directory" THEN Hashes ELSE {[h \in Hosts |-> 0]})
  /\ SerialInit /\ SyncInit /\ WorkInit /\ DonationInit /\ CkInit /\ DirInit

Next ==
  /\ UNCHANGED part
  /\ \/ part = "serials" /\ SerialNext /\ UNCHANGED <<syncVars, workVars, donationVars, ckVars, dirVars>>
     \/ part = "sync" /\ SyncNext /\ UNCHANGED <<serialVars, workVars, donationVars, ckVars, dirVars>>
     \/ part = "work" /\ WorkNext /\ UNCHANGED <<serialVars, syncVars, donationVars, ckVars, dirVars>>
     \/ part = "donations" /\ DonationNext /\ UNCHANGED <<serialVars, syncVars, workVars, ckVars, dirVars>>
     \/ part = "checkpoint" /\ CkNext /\ UNCHANGED <<serialVars, syncVars, workVars, donationVars, dirVars>>
     \/ part = "directory" /\ DirNext /\ UNCHANGED <<serialVars, syncVars, workVars, donationVars, ckVars>>

Spec == Init /\ [][Next]_<<part, serialVars, syncVars, workVars, donationVars, ckVars, dirVars>>

Symmetry == Permutations(Confirmers) \cup Permutations(Streams)
=============================================================================
