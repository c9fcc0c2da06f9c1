------------------------------ MODULE JobStore ------------------------------
(***************************************************************************)
(* What the storage backends do to one job record.  Each operation runs    *)
(* alone: under runExclusive in storage/file/index.ts, as one statement or *)
(* one row-locking transaction in storage/postgres/index.ts.  The two      *)
(* backends agree on everything kept here; payload, progress, result,      *)
(* error text and time stamps are left out.  `lockedUntil` is kept as the  *)
(* side of now it lies on.                                                 *)
(***************************************************************************)
EXTENDS Integers

CONSTANTS
    Nobody,       \* lockedBy of an unlocked record
    MaxAttempts   \* the job's maxAttempts

Active   == {"queued", "running"}
Finished == {"completed", "cancelled", "dead_letter"}
Statuses == Active \cup Finished \cup {"none", "removed"}
Leases   == {"none", "valid", "expired"}

(* "none" is a job not enqueued yet, "removed" one cleanupJobs deleted.    *)
NoRecord == [status |-> "none", lockedBy |-> Nobody, lease |-> "none",
             attempts |-> 0, priority |-> 0]

Enqueued(p) ==
    [status |-> "queued", lockedBy |-> Nobody, lease |-> "none",
     attempts |-> 0, priority |-> p]

(* BUG: any running job can be taken, not only one with an expired lease.  *)
IsCandidateAnyLease(job) == job.status \in Active

(* BUG: leases that expired are never taken over.                          *)
IsCandidateNoReclaim(job) == job.status = "queued"

(* acquireNextJob: the candidates, and what happens to the chosen one.     *)
(* The attempts are counted, not tested.                                   *)
IsCandidate(job) ==
    \/ job.status = "queued"
    \/ job.status = "running" /\ job.lease = "expired"

(* Job i goes before job j: higher priority, then earlier creation.        *)
GoesBefore(jobs, i, j) ==
    \/ jobs[i].priority > jobs[j].priority
    \/ jobs[i].priority = jobs[j].priority /\ i < j

IsChosen(jobs, j) ==
    /\ IsCandidate(jobs[j])
    /\ \A i \in DOMAIN jobs \ {j} : IsCandidate(jobs[i]) => GoesBefore(jobs, j, i)

(* BUG: lockedUntil is set to now, without the lock's duration.            *)
AcquiredExpired(job, w) ==
    [status |-> "running", lockedBy |-> w, lease |-> "expired",
     attempts |-> job.attempts + 1, priority |-> job.priority]

Acquired(job, w) ==
    [status |-> "running", lockedBy |-> w, lease |-> "valid",
     attempts |-> job.attempts + 1, priority |-> job.priority]

(* heartbeatJob asks for the lock only: not for the status, not for a      *)
(* lease that is still valid.                                              *)
HeartBeaten(job, w) ==
    IF job.lockedBy = w THEN [job EXCEPT !.lease = "valid"] ELSE job

(* BUG: the write leaves lockedBy in place.                                *)
UnlockedStillOwned(job, s) == [job EXCEPT !.status = s, !.lease = "none"]

Unlocked(job, s) ==
    [job EXCEPT !.status = s, !.lockedBy = Nobody, !.lease = "none"]

Exists(job) == job.status \notin {"none", "removed"}

(* completeJob accepts the lock's owner, and anybody when it is free.      *)
Completed(job, w) ==
    IF Exists(job) /\ job.lockedBy \in {w, Nobody}
    THEN Unlocked(job, "completed") ELSE job

(* BUG: one retry too many.                                                *)
FailedOneMore(job, retryable) ==
    Unlocked(job, IF retryable /\ job.attempts <= MaxAttempts
                  THEN "queued" ELSE "dead_letter")

(* failJob asks neither for the lock nor for the status.  Its "not found"  *)
(* error is left out: a record is removed days after it finished.          *)
Failed(job, retryable) ==
    Unlocked(job, IF retryable /\ job.attempts < MaxAttempts
                  THEN "queued" ELSE "dead_letter")

Cancelled(job) ==
    IF job.status \in Active THEN Unlocked(job, "cancelled") ELSE job

Removed(job) == [NoRecord EXCEPT !.status = "removed"]
=============================================================================
