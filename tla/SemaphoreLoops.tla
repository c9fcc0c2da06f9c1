--------------------------- MODULE SemaphoreLoops ---------------------------
(***************************************************************************)
(* The two loops of src/concurrency/semaphore.ts over the array `queue`,   *)
(* step by step: the insertion loop of acquire() and the admission loop of *)
(* pump().  WeightedSemaphore states their outcome without the loops; this *)
(* module is the reference its statements are compared with.  A queue is a *)
(* sequence of records with the entry's owner, weight and priority.        *)
(***************************************************************************)
EXTENDS Integers, Sequences, SequencesExt

(* `while (idx > 0 && queue[idx - 1].priority < priority) idx--`: the      *)
(* number of entries left in front of the new one, from a queue's tail.    *)
InsertIndex(queue, p) ==
    LET stop[idx \in 0..Len(queue)] ==
            IF idx > 0 /\ queue[idx].priority < p THEN stop[idx - 1] ELSE idx
    IN  stop[Len(queue)]

(* findIndex: the first entry of the head's priority that fits, or 0.      *)
FirstFitting(queue, inUse, limit) ==
    LET fits == {i \in DOMAIN queue : /\ queue[i].priority = queue[1].priority
                                      /\ inUse + queue[i].weight <= limit}
    IN  IF fits = {} THEN 0 ELSE CHOOSE i \in fits : \A j \in fits : i <= j

(* The entry a turn of pump() takes, or 0: the loop breaks.                *)
Chosen(queue, inUse, limit) ==
    IF queue = <<>> THEN 0
    ELSE IF inUse + queue[1].weight <= limit THEN 1
    ELSE FirstFitting(queue, inUse, limit)

(* A turn of the loop; once it has broken, nothing changes.                *)
Turn(s, limit) ==
    LET k == Chosen(s.queue, s.inUse, limit) IN
    IF k = 0 THEN s
    ELSE [queue    |-> RemoveAt(s.queue, k),
          inUse    |-> s.inUse + s.queue[k].weight,
          admitted |-> s.admitted \cup {s.queue[k].owner}]

(* The owners pump() admits: each turn but the last takes an entry.        *)
PumpLoop(queue, inUse, limit) ==
    LET after[n \in 0..Len(queue)] ==
            IF n = 0 THEN [queue |-> queue, inUse |-> inUse, admitted |-> {}]
            ELSE Turn(after[n - 1], limit)
    IN  after[Len(queue)].admitted
============================================================================
