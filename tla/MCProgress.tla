----------------------------- MODULE MCProgress -----------------------------
(***************************************************************************)
(* What threads that keep running must bring about: witnesses that build   *)
(* on each other's blocks (Consensus), and the counter and the condition   *)
(* variables that the threads of the process queues wait with (WorkQueue). *)
(* They share no state, so a behaviour is one of either, picked by part,   *)
(* while the other stays in its initial state.                             *)
(***************************************************************************)
EXTENDS Consensus, WorkQueue

VARIABLE part

partVars == <<part, vars, workqVars>>

InitPart == part \in {"consensus", "work"} /\ Init /\ WorkqInit

\* A step of one part
InConsensus(A) == part = "consensus" /\ A /\ UNCHANGED <<part, workqVars>>
InWork(A) == part = "work" /\ A /\ UNCHANGED <<part, vars>>

NextPart == InConsensus(Next) \/ InWork(WorkqNext)

\* The fairness of Consensus!FairSpec and of WorkqFairSpec
Fairness ==
  /\ \A w \in Witnesses :
       /\ WF_partVars(w \in Honest /\ InConsensus(\E b \in created : ReceiveBlock(w, b)))
       /\ WF_partVars(w \in Honest /\ InConsensus(ChooseBuildingBlock(w)))
       /\ WF_partVars(w \in Honest /\ InConsensus(FinishNewBlock(w)))
  /\ \A w \in Workers : SF_partVars(InWork(WorkerStep(w)))
  /\ \A p \in Producers : SF_partVars(InWork(Increment(p)))
  /\ SF_partVars(InWork(StopQueuedWork))

FairPart == InitPart /\ [][NextPart]_partVars /\ Fairness

\* Progress, in the behaviours in which the witnesses take the steps: the first block of the
\* chain becomes indelible at every node when witnesses build and blocks are delivered.
WitnessProgress == part = "consensus" => Progress
=============================================================================
