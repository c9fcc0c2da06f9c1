------------------------ MODULE MCWeightedSemaphore ------------------------
(* WeightedSemaphore for TLC, and the comparison of its account of         *)
(* insertion and admission with the code's loops, in every reachable queue.*)
EXTENDS WeightedSemaphore, SemaphoreLoops, TLC

CallerSymmetry == Permutations(Callers)

(* The queue as the array the code holds.                                  *)
QueueArray ==
    [i \in 1..Cardinality(Queued) |->
        LET c == CHOOSE d \in Queued : Cardinality(ahead[d]) = i - 1
        IN  [owner |-> c, weight |-> weight[c], priority |-> priority[c]]]

(* pump() and insertion agree with the code's loops.  Whatever capacity a  *)
(* release finds, the set PumpAdmits describes exists, is unique, and is   *)
(* the set pump()'s loop admits from the same queue; and a new entry of    *)
(* any priority goes behind exactly the entries the insertion loop leaves  *)
(* in front of it.                                                         *)
LoopsAgree ==
    /\ \A base \in 0..Limit :
          {A \in SUBSET Queued : PumpAdmits(A, base)} = {PumpLoop(QueueArray, base, Limit)}
    /\ \A p \in Priorities :
          InFrontOf(p) = {QueueArray[i].owner : i \in 1..InsertIndex(QueueArray, p)}
=============================================================================
