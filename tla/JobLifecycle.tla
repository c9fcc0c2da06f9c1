---------------------------- MODULE JobLifecycle ----------------------------
(***************************************************************************)
(* What the job queue promises about one job's record, whoever runs it:    *)
(* the statuses of src/storage/types.ts and the moves between them that    *)
(* the engine's header and the stuck-jobs runbook describe.  A job is      *)
(* worked on only while `running`, goes back to the queue only with        *)
(* attempts left, and a finished job stays finished until it is removed.   *)
(***************************************************************************)
EXTENDS Integers

CONSTANTS Jobs, MaxAttempts

VARIABLES
    state,        \* each job's status
    tries         \* the attempts made at it

lifeVars == <<state, tries>>

Finished == {"completed", "cancelled", "dead_letter"}

Init ==
    /\ state = [j \in Jobs |-> "none"]
    /\ tries = [j \in Jobs |-> 0]

Move(j, from, to) ==
    /\ state[j] \in from
    /\ state' = [state EXCEPT ![j] = to]

Submit(j) == Move(j, {"none"}, "queued") /\ UNCHANGED tries

(* A worker takes a waiting job, or one whose worker let its lease expire. *)
Attempt(j) ==
    /\ Move(j, {"queued", "running"}, "running")
    /\ tries' = [tries EXCEPT ![j] = @ + 1]

Succeed(j) == Move(j, {"running"}, "completed") /\ UNCHANGED tries

Requeue(j) ==
    tries[j] < MaxAttempts /\ Move(j, {"running"}, "queued") /\ UNCHANGED tries

Bury(j) ==
    tries[j] >= MaxAttempts /\ Move(j, {"running"}, "dead_letter") /\ UNCHANGED tries

Withdraw(j) == Move(j, {"queued", "running"}, "cancelled") /\ UNCHANGED tries

(* Removal forgets the record, attempts included.                          *)
Remove(j) ==
    /\ Move(j, Finished, "removed")
    /\ tries' = [tries EXCEPT ![j] = 0]

Next ==
    \E j \in Jobs :
        \/ Submit(j) \/ Attempt(j) \/ Succeed(j) \/ Requeue(j)
        \/ Bury(j) \/ Withdraw(j) \/ Remove(j)

Spec == Init /\ [][Next]_lifeVars
=============================================================================
