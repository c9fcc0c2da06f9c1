------------------------------- MODULE Outbox -------------------------------
(***************************************************************************)
(* The outbox of the job engine (drainOutbox in src/jobs/engine.ts): every *)
(* replica polls the pending rows of the shared table, enqueues a job for  *)
(* each under an idempotency key of its own and marks the row processed.   *)
(* Each storage call is a step; replicas interleave, calls throw and       *)
(* processes die between any two of them.                                  *)
(***************************************************************************)
EXTENDS Integers, FiniteSets

CONSTANTS
    Pollers,      \* replicas that poll
    OutboxRows,   \* rows of job_outbox
    Handled,      \* the rows whose job type has a handler
    NoRow,        \* stands for "no row"
    MaxMisses     \* bound: calls that throw, and crashes

ASSUME OutboxAssumption == MaxMisses \in Nat

VARIABLES
    outbox,       \* status of each row
    published,    \* jobs with the row's idempotency key, by inserting replica
    drain,        \* the poll of each replica
    misses        \* calls that threw and crashes so far

outboxVars == <<outbox, published, drain, misses>>

Resting == [pc |-> "idle", row |-> NoRow, left |-> {}]

OutboxInit ==
    /\ outbox = [o \in OutboxRows |-> "absent"]
    /\ published = [o \in OutboxRows |-> [h \in Pollers |-> 0]]
    /\ drain = [h \in Pollers |-> Resting]
    /\ misses = 0

Missed == misses < MaxMisses /\ misses' = misses + 1
----------------------------------------------------------------------------
(* saveAddon and removeAddon write a row in the addon's transaction.       *)
AddRow(o) ==
    /\ outbox[o] = "absent"
    /\ outbox' = [outbox EXCEPT ![o] = "pending"]
    /\ UNCHANGED <<published, drain, misses>>

Pending == {o \in OutboxRows : outbox[o] = "pending"}

(* The item the loop turns to, of those the poll has read.                 *)
Turn(left) ==
    IF left = {} THEN {Resting}
    ELSE {[pc |-> IF o \in Handled THEN "asking" ELSE "marking",
           row |-> o, left |-> left \ {o}] : o \in left}

Poll(h) ==
    /\ drain[h].pc = "idle" /\ Pending # {}
    /\ \E d \in Turn(Pending) : drain' = [drain EXCEPT ![h] = d]
    /\ UNCHANGED <<outbox, published, misses>>

JobsOf(o) == {h \in Pollers : published[o][h] > 0}

(* BUG: the outbox enqueues without an idempotency key.                    *)
AskNothing(h) ==
    /\ drain[h].pc = "asking"
    /\ drain' = [drain EXCEPT ![h].pc = "publishing"]
    /\ UNCHANGED <<outbox, published, misses>>

(* enqueue(): getJobByIdempotencyKey ...                                   *)
Ask(h) ==
    /\ drain[h].pc = "asking"
    /\ drain' = [drain EXCEPT ![h].pc =
                     IF JobsOf(drain[h].row) = {} THEN "publishing" ELSE "marking"]
    /\ UNCHANGED <<outbox, published, misses>>

(* ... then enqueueJob.                                                    *)
Publish(h) ==
    /\ drain[h].pc = "publishing"
    /\ published' = [published EXCEPT ![drain[h].row][h] = @ + 1]
    /\ drain' = [drain EXCEPT ![h].pc = "marking"]
    /\ UNCHANGED <<outbox, misses>>

Mark(h) ==
    /\ drain[h].pc = "marking"
    /\ outbox' = [outbox EXCEPT ![drain[h].row] = "processed"]
    /\ \E d \in Turn(drain[h].left) : drain' = [drain EXCEPT ![h] = d]
    /\ UNCHANGED <<published, misses>>

(* BUG: a row whose job could not be enqueued is marked all the same.      *)
ItemFailsMarked(h) ==
    /\ drain[h].pc # "idle"
    /\ Missed
    /\ outbox' = [outbox EXCEPT ![drain[h].row] = "processed"]
    /\ \E d \in Turn(drain[h].left) : drain' = [drain EXCEPT ![h] = d]
    /\ UNCHANGED <<published>>

(* A storage call of the item throws: the row stays pending.               *)
ItemFails(h) ==
    /\ drain[h].pc # "idle"
    /\ Missed
    /\ \E d \in Turn(drain[h].left) : drain' = [drain EXCEPT ![h] = d]
    /\ UNCHANGED <<outbox, published>>

(* The process dies and starts again.                                      *)
PollerCrashes(h) ==
    /\ drain[h].pc # "idle"
    /\ Missed
    /\ drain' = [drain EXCEPT ![h] = Resting]
    /\ UNCHANGED <<outbox, published>>
----------------------------------------------------------------------------
OutboxNext ==
    \/ \E o \in OutboxRows : AddRow(o)
    \/ \E h \in Pollers :
          \/ Poll(h) \/ Ask(h) \/ Publish(h) \/ Mark(h)
          \/ ItemFails(h) \/ PollerCrashes(h)

OutboxSpec == OutboxInit /\ [][OutboxNext]_outboxVars
----------------------------------------------------------------------------
Drains == [pc : {"idle", "asking", "publishing", "marking"}, row : OutboxRows \cup {NoRow},
           left : SUBSET OutboxRows]

OutboxTypeOK ==
    /\ outbox \in [OutboxRows -> {"absent", "pending", "processed"}]
    /\ published \in [OutboxRows -> [Pollers -> Nat]]
    /\ drain \in [Pollers -> Drains]
    /\ misses \in 0..MaxMisses

(* A processed row of a known type has its job, and a replica makes at     *)
(* most one job of a row even if it dies between the two writes and reads  *)
(* the row again: the idempotency key finds the first.                     *)
OutboxDelivers ==
    \A o \in OutboxRows :
        /\ outbox[o] = "processed" /\ o \in Handled => JobsOf(o) # {}
        /\ \A h \in Pollers : published[o][h] <= 1
=============================================================================
