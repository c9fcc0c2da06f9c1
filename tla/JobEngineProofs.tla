-------------------------- MODULE JobEngineProofs --------------------------
(***************************************************************************)
(* Proofs about JobEngine, for every number of jobs, workers and attempts, *)
(* every concurrency limit and every bound of the model: its types and     *)
(* locks, and, in the second half, that the worker that runs a job holds   *)
(* its lock, that the engine keeps the life cycle JobLifecycle promises,   *)
(* and that slots and controllers are counted exactly.                     *)
(***************************************************************************)
EXTENDS JobEngine, FiniteSetTheorems, TLAPS

----------------------------------------------------------------------------
(* What the storage operations return.                                     *)

(* An operation on a job record gives a job record.                        *)
LEMMA StoreTypes ==
    ASSUME NEW r \in JobRecords, NEW w \in Workers, NEW b \in BOOLEAN
    PROVE  /\ r.attempts < MaxTries => Acquired(r, w) \in JobRecords
           /\ HeartBeaten(r, w) \in JobRecords
           /\ Completed(r, w) \in JobRecords
           /\ Failed(r, b) \in JobRecords
           /\ Cancelled(r) \in JobRecords
           /\ Removed(r) \in JobRecords
           /\ [r EXCEPT !.lease = "expired"] \in JobRecords
<1> USE JobAssumption DEF JobRecords
<1> USE DEF Statuses, Active, Finished, Leases
<1>1. r.attempts < MaxTries => Acquired(r, w) \in JobRecords
  BY DEF Acquired
<1>2. HeartBeaten(r, w) \in JobRecords
  BY DEF HeartBeaten
<1>3. \A s \in Statuses : Unlocked(r, s) \in JobRecords
  BY DEF Unlocked
<1>4. Completed(r, w) \in JobRecords /\ Failed(r, b) \in JobRecords /\ Cancelled(r) \in JobRecords
  BY <1>3 DEF Completed, Failed, Cancelled
<1>5. Removed(r) \in JobRecords
  BY DEF Removed, NoRecord
<1>6. [r EXCEPT !.lease = "expired"] \in JobRecords
  OBVIOUS
<1>7. QED
  BY <1>1, <1>2, <1>4, <1>5, <1>6

(* The locking discipline of one record.                                   *)
Disciplined(r) ==
    /\ r.status = "running" <=> r.lockedBy # Nobody
    /\ r.status = "running" <=> r.lease # "none"

(* Every operation leaves a record locked exactly while it is running.     *)
LEMMA StoreDiscipline ==
    ASSUME NEW r \in JobRecords, Disciplined(r)
    PROVE  /\ \A p : Disciplined(Enqueued(p))
           /\ \A w \in Workers : /\ Disciplined(Acquired(r, w))
                                 /\ Disciplined(HeartBeaten(r, w))
           /\ \A w : Disciplined(Completed(r, w))
           /\ \A b : Disciplined(Failed(r, b))
           /\ Disciplined(Cancelled(r))
           /\ Disciplined(Removed(r))
           /\ r.lease = "valid" => Disciplined([r EXCEPT !.lease = "expired"])
<1> USE JobAssumption DEF JobRecords, Disciplined, Statuses, Active, Finished, Leases
<1>1. \A p : Disciplined(Enqueued(p))
  BY DEF Enqueued
<1>2. \A w \in Workers : Disciplined(Acquired(r, w))
  BY DEF Acquired
<1>3. \A w \in Workers : Disciplined(HeartBeaten(r, w))
  BY DEF HeartBeaten
<1>4. \A s \in Statuses \ {"running"} : Disciplined(Unlocked(r, s))
  BY DEF Unlocked
<1>5. \A w : Disciplined(Completed(r, w))
  BY <1>4 DEF Completed
<1>6. \A b : Disciplined(Failed(r, b))
  BY <1>4 DEF Failed
<1>7. Disciplined(Cancelled(r)) /\ Disciplined(Removed(r))
  BY <1>4 DEF Cancelled, Removed, NoRecord
<1>8. r.lease = "valid" => Disciplined([r EXCEPT !.lease = "expired"])
  OBVIOUS
<1>9. QED
  BY <1>1, <1>2, <1>3, <1>5, <1>6, <1>7, <1>8
----------------------------------------------------------------------------
(* Type correctness.                                                       *)

(* At the start every variable has its type.                               *)
LEMMA InitTypeOK == Init => TypeOK
<1> SUFFICES ASSUME Init PROVE TypeOK
  OBVIOUS
<1> USE JobAssumption DEF Init
<1>1. NoRecord \in JobRecords
  BY DEF NoRecord, JobRecords, Statuses, Leases
<1>2. NoExec \in ExecRecords
  BY DEF NoExec, ExecRecords, PCs
<1>3. QED
  BY <1>1, <1>2 DEF TypeOK, Phases

(* The steps of a worker that only update its own variables.               *)
LEMMA WorkerTypes ==
    ASSUME TypeOK, NEW w \in Workers
    PROVE  /\ \A ph \in Phases : [phase EXCEPT ![w] = ph] \in [Workers -> Phases]
           /\ \A n \in Int : [count EXCEPT ![w] = n] \in [Workers -> Int]
           /\ \A s \in SUBSET Execs : [active EXCEPT ![w] = s] \in [Workers -> SUBSET Execs]
           /\ \A b \in BOOLEAN : Kicked(w, b) \in [Workers -> 0..MaxKicks]
<1> USE JobAssumption DEF TypeOK
<1>1. \A b \in BOOLEAN : Kicked(w, b) \in [Workers -> 0..MaxKicks]
  BY DEF Kicked
<1>2. QED
  BY <1>1

(* Aborting some executions gives execution records.                       *)
LEMMA AbortTypes ==
    ASSUME TypeOK, NEW S
    PROVE  Aborting(S) \in [Execs -> ExecRecords]
<1>1. \A x \in ExecRecords : [x EXCEPT !.aborted = TRUE] \in ExecRecords
  BY DEF ExecRecords
<1>2. QED
  BY <1>1 DEF Aborting, TypeOK

(* Moving an execution on gives execution records.                         *)
LEMMA GoesTypes ==
    ASSUME TypeOK, NEW e \in Execs, NEW pc \in PCs, Goes(e, pc)
    PROVE  exec' \in [Execs -> ExecRecords]
BY DEF Goes, TypeOK, ExecRecords

(* A new job has the type of a record, and its kick that of a counter.     *)
LEMMA AddJobTypeOK ==
    ASSUME TypeOK, NEW w \in Workers, NEW p \in Int, AddJob(w, p)
    PROVE  TypeOK'
<1> USE JobAssumption
<1>1. Enqueued(p) \in JobRecords
  BY DEF Enqueued, JobRecords, Statuses, Active, Leases
<1>2. jobs' \in [Jobs -> JobRecords]
  BY <1>1 DEF AddJob, TypeOK
<1>3. kicks' \in [Workers -> 0..MaxKicks]
  BY WorkerTypes DEF AddJob, HasRoom
<1>4. QED
  BY <1>2, <1>3 DEF AddJob, TypeOK

(* A worker that dies leaves executions, records and counters of their     *)
(* types.                                                                  *)
LEMMA DiesTypeOK ==
    ASSUME TypeOK, NEW w \in Workers, Dies(w),
           jobs' \in [Jobs -> JobRecords], faults' \in 0..MaxFaults
    PROVE  TypeOK'
<1>1. NoExec \in ExecRecords
  BY DEF NoExec, ExecRecords, PCs
<1>2. exec' \in [Execs -> ExecRecords]
  BY <1>1 DEF Dies, TypeOK
<1>3. QED
  BY <1>2, JobAssumption DEF Dies, TypeOK, Phases

(* A poll that takes a job.                                                *)
LEMMA StoreAcquireTypeOK ==
    ASSUME TypeOK, NEW w \in Workers, NEW byLoop \in BOOLEAN, NEW j \in Jobs,
           StoreAcquire(w, byLoop, j)
    PROVE  TypeOK'
<1> USE JobAssumption
<1>1. jobs[j] \in JobRecords /\ jobs[j].attempts < MaxTries
  BY DEF TypeOK, StoreAcquire
<1>2. Acquired(jobs[j], w) \in JobRecords
  BY <1>1, StoreTypes
<1>3. jobs' \in [Jobs -> JobRecords]
  BY <1>2 DEF TypeOK, StoreAcquire
<1>4. [pc |-> "acquired", worker |-> w, aborted |-> FALSE, byLoop |-> byLoop] \in ExecRecords
  BY DEF ExecRecords, PCs
<1>5. exec' \in [Execs -> ExecRecords]
  BY <1>4 DEF TypeOK, StoreAcquire
<1>6. calls' \in [Workers -> Nat]
  BY DEF TypeOK, StoreAcquire, Calling
<1>7. QED
  BY <1>3, <1>5, <1>6 DEF TypeOK, StoreAcquire

(* A store operation on the record of execution e, by its worker.          *)
LEMMA RecordTypeOK ==
    ASSUME TypeOK, NEW j \in Jobs, NEW r \in JobRecords,
           jobs' = [jobs EXCEPT ![j] = r]
    PROVE  jobs' \in [Jobs -> JobRecords]
BY DEF TypeOK

(* Some execution has a worker: it exists.                                 *)
LiveHasWorker == \A e \in Execs : exec[e].pc # "none" => exec[e].worker \in Workers

(* So does an execution that enters the map of active jobs.                *)
LEMMA RegisterTypeOK ==
    ASSUME TypeOK, LiveHasWorker, NEW e \in Execs, Register(e)
    PROVE  TypeOK'
<1> DEFINE w == exec[e].worker
<1>1. w \in Workers
  BY DEF LiveHasWorker, Register
<1>2. exec' \in [Execs -> ExecRecords]
  BY DEF Register, TypeOK, ExecRecords, PCs, Registered
<1>3. count' \in [Workers -> Int] /\ active' \in [Workers -> SUBSET Execs]
      /\ loop' \in [Workers -> {"waiting", "polling", "acquired"}]
  BY <1>1 DEF Register, TypeOK
<1>4. QED
  BY <1>2, <1>3 DEF Register, TypeOK

(* So does one that leaves it.                                             *)
LEMMA SettleTypeOK ==
    ASSUME TypeOK, LiveHasWorker, NEW e \in Execs, Settle(e)
    PROVE  TypeOK'
<1> DEFINE w == exec[e].worker
<1>1. w \in Workers
  BY DEF LiveHasWorker, Settle
<1>2. exec' \in [Execs -> ExecRecords]
  BY DEF Settle, TypeOK, ExecRecords, PCs, NoExec
<1>3. count' \in [Workers -> Int] /\ active' \in [Workers -> SUBSET Execs]
  BY <1>1 DEF Settle, TypeOK
<1>4. kicks' \in [Workers -> 0..MaxKicks]
  BY <1>1, WorkerTypes DEF Settle
<1>5. QED
  BY <1>2, <1>3, <1>4 DEF Settle, TypeOK

(* A handler that ends.                                                    *)
LEMMA HandlerEndsTypeOK ==
    ASSUME TypeOK, NEW e \in Execs, HandlerEnds(e)
    PROVE  TypeOK'
<1>1. PICK pc \in PCs : Goes(e, pc)
  BY DEF HandlerEnds, HandlerReturns, HandlerThrows, HandlerThrowsAbort, AfterAbort,
         PCs, Registered, Writing
<1>2. exec' \in [Execs -> ExecRecords]
  BY <1>1, GoesTypes
<1>3. QED
  BY <1>2 DEF HandlerEnds, HandlerReturns, HandlerThrows, HandlerThrowsAbort, TypeOK, workerVars

(* A write that answers executeJob.                                        *)
LEMMA WriteTypeOK ==
    ASSUME TypeOK, LiveHasWorker, NEW e \in Execs, Write(e)
    PROVE  TypeOK'
<1> DEFINE j == JobOf(e)
<1>1. j \in Jobs /\ jobs[j] \in JobRecords /\ CanRetry(e) \in BOOLEAN
  BY JobAssumption DEF Execs, JobOf, TypeOK, CanRetry
<1>2. exec[e].worker \in Workers
  BY DEF LiveHasWorker, Write, StoreComplete, StoreFail, StoreRelease, StoreCancel
<1>3. /\ Completed(jobs[j], exec[e].worker) \in JobRecords
      /\ Failed(jobs[j], CanRetry(e)) \in JobRecords
      /\ Failed(jobs[j], TRUE) \in JobRecords
      /\ Cancelled(jobs[j]) \in JobRecords
  BY <1>1, <1>2, StoreTypes
<1>4. jobs' \in [Jobs -> JobRecords]
  BY <1>1, <1>3, RecordTypeOK DEF Write, StoreComplete, StoreFail, StoreRelease, StoreCancel
<1>5. exec' \in [Execs -> ExecRecords]
  BY GoesTypes DEF Write, StoreComplete, StoreFail, StoreRelease, StoreCancel,
                   PCs, Registered
<1>6. QED
  BY <1>4, <1>5 DEF Write, StoreComplete, StoreFail, StoreRelease, StoreCancel,
                    TypeOK, workerVars

(* A step after which only what a worker's poll loop waits for differs.    *)
LEMMA PollTypeOK ==
    ASSUME TypeOK, NEW w \in Workers,
           \/ Start(w) \/ LoopPoll(w) \/ KickPoll(w)
           \/ \E byLoop \in BOOLEAN : StoreHasNone(w, byLoop)
    PROVE  TypeOK'
<1> USE JobAssumption
<1>1. CASE Start(w)
  BY <1>1 DEF Start, TypeOK, Phases
<1>2. CASE LoopPoll(w)
  BY <1>2 DEF LoopPoll, TypeOK
<1>3. CASE KickPoll(w)
  <2>1. kicks' \in [Workers -> 0..MaxKicks]
    BY <1>3 DEF KickPoll, TypeOK
  <2>2. calls' \in [Workers -> Nat]
    BY <1>3 DEF KickPoll, TypeOK
  <2>3. QED
    BY <1>3, <2>1, <2>2 DEF KickPoll, TypeOK
<1>4. ASSUME NEW byLoop \in BOOLEAN, StoreHasNone(w, byLoop)
      PROVE  TypeOK'
  <2>1. loop' \in [Workers -> {"waiting", "polling", "acquired"}]
    BY <1>4 DEF StoreHasNone, Answered, TypeOK
  <2>2. calls' \in [Workers -> Nat]
    BY <1>4 DEF StoreHasNone, Answered, Calling, TypeOK
  <2>3. QED
    BY <1>4, <2>1, <2>2 DEF StoreHasNone, TypeOK
<1>5. QED
  BY <1>1, <1>2, <1>3, <1>4

(* Dropping a straggler keeps the types of what it changes.                *)
LEMMA DropsTypeOK ==
    ASSUME TypeOK, NEW w \in Workers, NEW j \in Jobs, DropsStraggler(w, j)
    PROVE  /\ stragglers' \in [Workers -> SUBSET Jobs]
           /\ active' \in [Workers -> SUBSET Execs]
           /\ count' \in [Workers -> Int]
BY DEF DropsStraggler, TypeOK

(* Shutting a worker down.                                                 *)
LEMMA ShutdownTypeOK ==
    ASSUME TypeOK, NEW w \in Workers, Stop(w) \/ BeginShutdown(w) \/ Drain(w)
    PROVE  TypeOK'
<1> USE JobAssumption
<1>1. ASSUME Stop(w) PROVE TypeOK'
  <2>1. exec' \in [Execs -> ExecRecords]
    BY <1>1, AbortTypes DEF Stop
  <2>2. QED
    BY <1>1, <2>1 DEF Stop, TypeOK, Phases
<1>2. ASSUME BeginShutdown(w) PROVE TypeOK'
  BY <1>2 DEF BeginShutdown, TypeOK, Phases
<1>3. ASSUME DrainDeadline(w) PROVE TypeOK'
  <2>1. exec' \in [Execs -> ExecRecords]
    BY <1>3, AbortTypes DEF DrainDeadline
  <2>2. QED
    BY <1>3, <2>1 DEF DrainDeadline, TypeOK, Phases
<1>4. ASSUME SettleDeadline(w) PROVE TypeOK'
  <2>1. {JobOf(e) : e \in active[w]} \subseteq Jobs
    BY DEF TypeOK, Execs, JobOf
  <2>2. QED
    BY <1>4, <2>1 DEF SettleDeadline, TypeOK, Phases
<1>5. ASSUME DrainDone(w) PROVE TypeOK'
  BY <1>5 DEF DrainDone, TypeOK, Phases
<1>6. ASSUME NEW j \in Jobs, ReleaseStraggler(w, j) PROVE TypeOK'
  <2>1. jobs[j] \in JobRecords
    BY DEF TypeOK
  <2>2. Failed(jobs[j], TRUE) \in JobRecords
    BY <2>1, StoreTypes
  <2>3. jobs' \in [Jobs -> JobRecords]
    BY <1>6, <2>2 DEF ReleaseStraggler, TypeOK
  <2>4. QED
    BY <1>6, <2>3, DropsTypeOK DEF ReleaseStraggler, TypeOK
<1>7. QED
  BY <1>1, <1>2, <1>3, <1>4, <1>5, <1>6 DEF Drain

(* A storage operation that throws.                                        *)
LEMMA ThrowsTypeOK ==
    ASSUME TypeOK, NEW j \in Jobs, NEW r \in JobRecords, Throws([jobs EXCEPT ![j] = r])
    PROVE  jobs' \in [Jobs -> JobRecords] /\ faults' \in 0..MaxFaults
BY JobAssumption DEF Throws, Fault, TypeOK

(* So does every step of a fault.                                          *)
LEMMA FaultyTypeOK ==
    ASSUME TypeOK, LiveHasWorker, Faulty
    PROVE  TypeOK'
<1> USE JobAssumption
<1>1. ASSUME NEW w \in Workers, NEW byLoop \in BOOLEAN, NEW j \in Jobs,
             AcquireThrows(w, byLoop, j)
      PROVE  TypeOK'
  <2>1. Acquired(jobs[j], w) \in JobRecords
    BY <1>1, StoreTypes DEF AcquireThrows, TypeOK
  <2>2. QED
    BY <1>1, <2>1, ThrowsTypeOK, DiesTypeOK DEF AcquireThrows
<1>2. ASSUME NEW e \in Execs, CompleteThrows(e)
      PROVE  TypeOK'
  <2>1. JobOf(e) \in Jobs /\ exec[e].worker \in Workers
    BY <1>2 DEF CompleteThrows, LiveHasWorker, Execs, JobOf
  <2>2. Completed(jobs[JobOf(e)], exec[e].worker) \in JobRecords
    BY <2>1, StoreTypes DEF TypeOK
  <2>3. jobs' \in [Jobs -> JobRecords] /\ faults' \in 0..MaxFaults
    BY <1>2, <2>1, <2>2, ThrowsTypeOK DEF CompleteThrows
  <2>4. exec' \in [Execs -> ExecRecords]
    BY <1>2, GoesTypes DEF CompleteThrows, AfterAbort, PCs, Registered, Writing
  <2>5. QED
    BY <1>2, <2>3, <2>4 DEF CompleteThrows, TypeOK, workerVars
<1>3. ASSUME NEW e \in Execs, FailThrows(e)
      PROVE  TypeOK'
  <2>1. JobOf(e) \in Jobs /\ exec[e].worker \in Workers /\ CanRetry(e) \in BOOLEAN
    BY <1>3 DEF FailThrows, LiveHasWorker, Execs, JobOf, CanRetry
  <2>2. (IF exec[e].pc = "failing" THEN Failed(jobs[JobOf(e)], CanRetry(e))
                                   ELSE Cancelled(jobs[JobOf(e)])) \in JobRecords
    BY <2>1, StoreTypes DEF TypeOK
  <2>3. jobs' \in [Jobs -> JobRecords] /\ faults' \in 0..MaxFaults
    BY <1>3, <2>1, <2>2, ThrowsTypeOK DEF FailThrows
  <2>4. QED
    BY <1>3, <2>1, <2>3, DiesTypeOK DEF FailThrows
<1>4. ASSUME NEW j \in Jobs, Stall(j)
      PROVE  TypeOK'
  <2>1. [jobs[j] EXCEPT !.lease = "expired"] \in JobRecords
    BY DEF TypeOK, JobRecords, Leases
  <2>2. jobs' \in [Jobs -> JobRecords]
    BY <1>4, <2>1 DEF Stall, RunsOut, TypeOK
  <2>3. QED
    BY <1>4, <2>2 DEF Stall, RunsOut, Fault, TypeOK, workerVars
<1>5. ASSUME NEW e \in Execs, ReleaseThrows(e)
      PROVE  TypeOK'
  <2>1. JobOf(e) \in Jobs /\ jobs[JobOf(e)] \in JobRecords /\ exec[e].worker \in Workers
    BY <1>5 DEF Execs, JobOf, TypeOK, LiveHasWorker, ReleaseThrows
  <2>2. Failed(jobs[JobOf(e)], TRUE) \in JobRecords
    BY <2>1, StoreTypes
  <2>3. jobs' \in [Jobs -> JobRecords] /\ faults' \in 0..MaxFaults
    BY <1>5, <2>1, <2>2, ThrowsTypeOK DEF ReleaseThrows
  <2>4. exec' \in [Execs -> ExecRecords]
    BY <1>5, GoesTypes DEF ReleaseThrows, PCs, Registered
  <2>5. QED
    BY <1>5, <2>3, <2>4 DEF ReleaseThrows, TypeOK, workerVars
<1>6. ASSUME NEW w \in Workers, NEW j \in Jobs, ForcedReleaseThrows(w, j)
      PROVE  TypeOK'
  <2>1. jobs[j] \in JobRecords /\ Failed(jobs[j], TRUE) \in JobRecords
    BY StoreTypes DEF TypeOK
  <2>2. jobs' \in [Jobs -> JobRecords] /\ faults' \in 0..MaxFaults
    BY <1>6, <2>1, ThrowsTypeOK DEF ForcedReleaseThrows
  <2>3. QED
    BY <1>6, <2>2, DropsTypeOK DEF ForcedReleaseThrows, TypeOK
<1>7. QED
  BY <1>1, <1>2, <1>3, <1>4, <1>5, <1>6 DEF Faulty

(* Every step keeps the types.                                             *)
LEMMA TypeStep == TypeOK /\ LiveHasWorker /\ [Next]_vars => TypeOK'
<1> SUFFICES ASSUME TypeOK, LiveHasWorker, [Next]_vars
             PROVE  TypeOK'
  OBVIOUS
<1> USE JobAssumption
<1>1. ASSUME NEW w \in Workers, Start(w) \/ Poll(w) \/ Stop(w) \/ BeginShutdown(w) \/ Drain(w)
      PROVE  TypeOK'
  BY <1>1, PollTypeOK, StoreAcquireTypeOK, ShutdownTypeOK DEF Poll, StoreCalls
<1>2. ASSUME NEW w \in Workers, Crash(w)
      PROVE  TypeOK'
  BY <1>2, DiesTypeOK DEF Crash, TypeOK
<1>3. ASSUME NEW w \in Workers, NEW p \in Priorities, Enqueue(w, p)
      PROVE  TypeOK'
  BY <1>3, AddJobTypeOK DEF Enqueue
<1>4. ASSUME NEW w \in Workers, NEW j \in Jobs, Retry(w, j)
      PROVE  TypeOK'
  <2>1. jobs[j].priority + 1 \in Int
    BY DEF TypeOK, JobRecords
  <2>2. QED
    BY <1>4, <2>1, AddJobTypeOK DEF Retry
<1>5. ASSUME NEW w \in Workers, NEW j \in Jobs, Cancel(w, j)
      PROVE  TypeOK'
  <2>1. Cancelled(jobs[j]) \in JobRecords
    BY StoreTypes DEF TypeOK
  <2>2. jobs' \in [Jobs -> JobRecords]
    BY <1>5, <2>1 DEF Cancel, TypeOK
  <2>3. exec' \in [Execs -> ExecRecords]
    BY <1>5, AbortTypes DEF Cancel
  <2>4. active' \in [Workers -> SUBSET Execs]
    BY <1>5 DEF Cancel, TypeOK
  <2>5. QED
    BY <1>5, <2>2, <2>3, <2>4 DEF Cancel, TypeOK
<1>6. ASSUME NEW e \in Execs, Register(e) \/ HandlerEnds(e) \/ Write(e) \/ Settle(e)
      PROVE  TypeOK'
  BY <1>6, RegisterTypeOK, HandlerEndsTypeOK, WriteTypeOK, SettleTypeOK
<1>7. ASSUME NEW e \in Execs, HeartbeatExec(e)
      PROVE  TypeOK'
  <2>1. JobOf(e) \in Jobs /\ exec[e].worker \in Workers
    BY <1>7 DEF HeartbeatExec, LiveHasWorker, Registered, Writing, Execs, JobOf
  <2>2. HeartBeaten(jobs[JobOf(e)], exec[e].worker) \in JobRecords
    BY <2>1, StoreTypes DEF TypeOK
  <2>3. jobs' \in [Jobs -> JobRecords]
    BY <1>7, <2>1, <2>2 DEF HeartbeatExec, TypeOK
  <2>4. QED
    BY <1>7, <2>3 DEF HeartbeatExec, TypeOK, workerVars
<1>8. ASSUME NEW j \in Jobs, Expire(j) \/ Cleanup(j)
      PROVE  TypeOK'
  <2>1. [jobs[j] EXCEPT !.lease = "expired"] \in JobRecords
    BY DEF TypeOK, JobRecords, Leases
  <2>2. Removed(jobs[j]) \in JobRecords
    BY DEF Removed, NoRecord, JobRecords, Statuses, Leases
  <2>3. jobs' \in [Jobs -> JobRecords]
    BY <1>8, <2>1, <2>2 DEF Expire, RunsOut, Cleanup, TypeOK
  <2>4. QED
    BY <1>8, <2>3 DEF Expire, RunsOut, Cleanup, TypeOK, workerVars
<1>9. CASE UNCHANGED vars
  BY <1>9 DEF vars, TypeOK
<1>10. QED
  BY <1>1, <1>2, <1>3, <1>4, <1>5, <1>6, <1>7, <1>8, <1>9, FaultyTypeOK DEF Next

----------------------------------------------------------------------------
(* What a step does to one record, and to one execution.                   *)

(* Who may write to the record of job j: an execution that writes, and is  *)
(* then done unless the store throws; a drain; an operator who cancels.    *)
WrittenBy(e, j, pc) ==
    /\ JobOf(e) = j /\ exec[e].pc = pc
    /\ exec'[e].pc = "settling" \/ "throw" \in FaultKinds

Drained(j) ==
    \/ \E e \in Execs : JobOf(e) = j /\ exec[e].pc = "releasing"
    \/ \E w \in Workers : Draining(w)

Withdrawn(j) ==
    \/ jobs[j].status \in CancelFrom
    \/ \E e \in Execs : WrittenBy(e, j, "cancelling")

Idle(j) == \A e \in Execs : JobOf(e) = j => exec[e].pc = "none"

Move(j) ==
    LET r == jobs[j] IN
    \/ jobs'[j] = r
    \/ r.status = "none" /\ \E p \in Int : jobs'[j] = Enqueued(p)
    \/ r.attempts < MaxTries /\ IsCandidate(r) /\ \E w \in Workers : jobs'[j] = Acquired(r, w)
    \/ \E w \in Workers : jobs'[j] = HeartBeaten(r, w)
    \/ \E e \in Execs : /\ WrittenBy(e, j, "completing")
                        /\ jobs'[j] = Completed(r, exec[e].worker)
    \/ \E e \in Execs : /\ WrittenBy(e, j, "failing")
                        /\ jobs'[j] = Failed(r, CanRetry(e))
    \/ Drained(j) /\ jobs'[j] = Failed(r, TRUE)
    \/ Withdrawn(j) /\ jobs'[j] = Cancelled(r)
    \/ r.lease = "valid" /\ jobs'[j] = [r EXCEPT !.lease = "expired"]
    \/ r.status \in Finished /\ Idle(j) /\ jobs'[j] = Removed(r)

(* Whatever the step, a record is left alone or changed by one operation   *)
(* of the store.                                                           *)
LEMMA Moves ==
    ASSUME TypeOK, LiveHasWorker, [Next]_vars, NEW j \in Jobs
    PROVE  Move(j)
<1> USE JobAssumption DEF Move, WrittenBy, Drained, Withdrawn, Draining
<1>1. CASE UNCHANGED jobs
  BY <1>1
<1>2. ASSUME NEW w \in Workers, NEW p \in Int, AddJob(w, p)
      PROVE  Move(j)
  BY <1>2 DEF AddJob, TypeOK
<1>3. ASSUME NEW w \in Workers, NEW i \in Jobs, Cancel(w, i)
      PROVE  Move(j)
  BY <1>3 DEF Cancel, TypeOK
<1>4. ASSUME NEW w \in Workers, NEW byLoop \in BOOLEAN, NEW i \in Jobs,
             StoreAcquire(w, byLoop, i) \/ AcquireThrows(w, byLoop, i)
      PROVE  Move(j)
  BY <1>4 DEF StoreAcquire, AcquireThrows, IsChosen, Throws, TypeOK
<1>5. ASSUME NEW w \in Workers, NEW i \in Jobs, 
             ReleaseStraggler(w, i) \/ ForcedReleaseThrows(w, i)
      PROVE  Move(j)
  BY <1>5 DEF ReleaseStraggler, ForcedReleaseThrows, Throws, TypeOK
<1>6. ASSUME NEW e \in Execs, HeartbeatExec(e)
      PROVE  Move(j)
  <2>1. exec[e].worker \in Workers
    BY <1>6 DEF HeartbeatExec, LiveHasWorker, Registered, Writing
  <2>2. QED
    BY <1>6, <2>1 DEF HeartbeatExec, TypeOK
<1>7. ASSUME NEW e \in Execs,
             Write(e) \/ CompleteThrows(e) \/ FailThrows(e) \/ ReleaseThrows(e)
      PROVE  Move(j)
  <2>1. ASSUME Write(e) PROVE exec'[e].pc = "settling"
    <3>1. Goes(e, "settling")
      BY <2>1 DEF Write, StoreComplete, StoreFail, StoreRelease, StoreCancel
    <3>2. QED
      BY <3>1 DEF Goes, TypeOK, ExecRecords
  <2>2. ~ Write(e) => "throw" \in FaultKinds
    BY <1>7 DEF CompleteThrows, FailThrows, ReleaseThrows, Throws, Fault
  <2>3. CASE Write(e)
    <3>1. CASE StoreComplete(e)
      BY <2>1, <2>3, <3>1 DEF StoreComplete, TypeOK
    <3>2. CASE StoreFail(e)
      BY <2>1, <2>3, <3>2 DEF StoreFail, TypeOK
    <3>3. CASE StoreRelease(e)
      BY <3>3 DEF StoreRelease, TypeOK
    <3>4. CASE StoreCancel(e)
      BY <2>1, <2>3, <3>4 DEF StoreCancel, TypeOK
    <3>5. QED
      BY <2>3, <3>1, <3>2, <3>3, <3>4 DEF Write
  <2>4. CASE CompleteThrows(e) /\ ~ Write(e)
    BY <2>2, <2>4 DEF CompleteThrows, Throws, TypeOK
  <2>5. CASE FailThrows(e) /\ ~ Write(e)
    BY <2>2, <2>5 DEF FailThrows, Throws, TypeOK
  <2>6. CASE ReleaseThrows(e)
    BY <2>6 DEF ReleaseThrows, Throws, TypeOK
  <2>7. QED
    BY <1>7, <2>3, <2>4, <2>5, <2>6
<1>8. ASSUME NEW i \in Jobs, Expire(i) \/ Stall(i) \/ Cleanup(i)
      PROVE  Move(j)
  BY <1>8 DEF Expire, Stall, RunsOut, Cleanup, Idle, TypeOK
<1>9. ASSUME NEW w \in Workers,
             \/ Start(w) \/ LoopPoll(w) \/ KickPoll(w) \/ Stop(w) \/ BeginShutdown(w)
             \/ DrainDeadline(w) \/ SettleDeadline(w) \/ DrainDone(w) \/ Crash(w)
             \/ \E byLoop \in BOOLEAN : StoreHasNone(w, byLoop)
      PROVE  UNCHANGED jobs
  BY <1>9 DEF Start, LoopPoll, KickPoll, Stop, BeginShutdown, DrainDeadline,
              SettleDeadline, DrainDone, Crash, StoreHasNone
<1>10. ASSUME NEW e \in Execs, Register(e) \/ HandlerEnds(e) \/ Settle(e)
       PROVE  UNCHANGED jobs
  BY <1>10 DEF Register, HandlerEnds, HandlerReturns, HandlerThrows, HandlerThrowsAbort, Settle
<1>11. ASSUME NEW w \in Workers, NEW i \in Jobs, Retry(w, i)
       PROVE  Move(j)
  <2>1. jobs[i].priority + 1 \in Int
    BY DEF TypeOK, JobRecords
  <2>2. QED
    BY <1>2, <1>11, <2>1 DEF Retry
<1>12. CASE UNCHANGED vars
  BY <1>1, <1>12 DEF vars
<1>13. QED
  BY <1>1, <1>2, <1>3, <1>4, <1>5, <1>6, <1>7, <1>8, <1>9, <1>10, <1>11, <1>12
  DEF Next, Poll, StoreCalls, Drain, Enqueue, Faulty

(* An execution that may still write to its record, or runs its handler.   *)
Acting(e) ==
    \/ exec[e].pc \in {"acquired", "completing", "failing", "cancelling"}
    \/ Working(e)

(* An execution begins with an acquisition and keeps its worker.  It acts  *)
(* only if it has acted since, and releases its job only in a drain.       *)
Begins(e) ==
    /\ e[2] = jobs[JobOf(e)].attempts + 1
    /\ exec'[e].pc = "acquired" /\ exec'[e].worker \in Workers
    /\ jobs'[JobOf(e)] = Acquired(jobs[JobOf(e)], exec'[e].worker)

GoesOn(e) ==
    /\ exec[e].pc # "none" /\ exec'[e].worker = exec[e].worker
    /\ Acting(e)' => Acting(e)
    /\ exec'[e].pc \in {"acquired", "handling"} => exec[e].pc \in {"acquired", "handling"}
    /\ exec'[e].pc = "releasing" =>
           exec[e].pc = "releasing" \/ Draining(exec[e].worker)

(* An execution that exists after a step has just been acquired or existed *)
(* before it.                                                              *)
LEMMA Continues ==
    ASSUME TypeOK, LiveHasWorker, [Next]_vars, NEW e \in Execs, exec'[e].pc # "none"
    PROVE  Begins(e) \/ GoesOn(e)
<1> USE JobAssumption DEF GoesOn, Acting, Working
<1>1. CASE exec'[e] = exec[e]
  BY <1>1
<1>2. ASSUME NEW S, exec' = Aborting(S)
      PROVE  GoesOn(e)
  BY <1>2 DEF Aborting, TypeOK, ExecRecords
<1>3. ASSUME NEW d \in Execs, NEW pc \in {"settling", "completing", "failing",
                                         "cancelling", "releasing"},
             Goes(d, pc), exec[d].pc # "none",
             pc \in {"completing", "failing", "cancelling"} => Acting(d),
             pc = "releasing" => Draining(exec[d].worker)
      PROVE  GoesOn(e)
  BY <1>3 DEF Goes, TypeOK, ExecRecords
<1>4. ASSUME NEW w \in Workers, Dies(w)
      PROVE  GoesOn(e)
  BY <1>4 DEF Dies, NoExec, TypeOK, ExecRecords
<1>5. ASSUME NEW w \in Workers, NEW byLoop \in BOOLEAN, NEW j \in Jobs,
             StoreAcquire(w, byLoop, j)
      PROVE  Begins(e) \/ GoesOn(e)
  <2> DEFINE k == jobs[j].attempts + 1
  <2>1. k \in 1..MaxTries /\ <<j, k>> \in Execs
    BY <1>5 DEF StoreAcquire, TypeOK, JobRecords, Execs
  <2>2. CASE e = <<j, k>>
    <3>1. exec'[e] = [pc |-> "acquired", worker |-> w, aborted |-> FALSE, byLoop |-> byLoop]
      BY <1>5, <2>1, <2>2 DEF StoreAcquire, TypeOK
    <3>2. exec'[e].pc = "acquired" /\ exec'[e].worker = w /\ JobOf(e) = j /\ e[2] = k
      BY <2>2, <3>1 DEF JobOf
    <3>3. jobs'[j] = Acquired(jobs[j], w)
      BY <1>5 DEF StoreAcquire, TypeOK
    <3>4. QED
      BY <3>2, <3>3 DEF Begins
  <2>3. CASE e # <<j, k>>
    BY <1>1, <1>5, <2>3 DEF StoreAcquire, TypeOK
  <2>4. QED
    BY <2>2, <2>3
<1>6. ASSUME NEW d \in Execs, Register(d) \/ Settle(d)
      PROVE  GoesOn(e)
  BY <1>6 DEF Register, Settle, NoExec, TypeOK
<1>7. ASSUME NEW d \in Execs, HandlerEnds(d) \/ CompleteThrows(d) \/ ReleaseThrows(d)
      PROVE  GoesOn(e)
  BY <1>3, <1>7 DEF HandlerEnds, HandlerReturns, HandlerThrows, HandlerThrowsAbort,
                    CompleteThrows, ReleaseThrows, AfterAbort
<1>8. ASSUME NEW d \in Execs, Write(d)
      PROVE  GoesOn(e)
  BY <1>3, <1>8 DEF Write, StoreComplete, StoreFail, StoreRelease, StoreCancel
<1>9. ASSUME NEW w \in Workers, NEW byLoop \in BOOLEAN, NEW j \in Jobs,
             AcquireThrows(w, byLoop, j)
      PROVE  GoesOn(e)
  BY <1>4, <1>9 DEF AcquireThrows
<1>10. ASSUME NEW d \in Execs, FailThrows(d)
       PROVE  GoesOn(e)
  <2>1. exec[d].worker \in Workers
    BY <1>10 DEF FailThrows, LiveHasWorker
  <2>2. QED
    BY <1>4, <1>10, <2>1 DEF FailThrows
<1>11. ASSUME NEW w \in Workers, Crash(w)
       PROVE  GoesOn(e)
  BY <1>4, <1>11 DEF Crash
<1>12. ASSUME NEW w \in Workers,
              Stop(w) \/ DrainDeadline(w) \/ \E j \in Jobs : Cancel(w, j)
       PROVE  GoesOn(e)
  BY <1>2, <1>12 DEF Stop, DrainDeadline, Cancel
<1>13. ASSUME NEW w \in Workers,
              \/ Start(w) \/ LoopPoll(w) \/ KickPoll(w) \/ BeginShutdown(w)
              \/ SettleDeadline(w) \/ DrainDone(w)
              \/ \E j \in Jobs : ReleaseStraggler(w, j) \/ ForcedReleaseThrows(w, j)
                                \/ Retry(w, j)
              \/ \E p \in Priorities : Enqueue(w, p)
              \/ \E byLoop \in BOOLEAN : StoreHasNone(w, byLoop)
       PROVE  UNCHANGED exec
  BY <1>13 DEF Start, LoopPoll, KickPoll, BeginShutdown, SettleDeadline, DrainDone,
               ReleaseStraggler, ForcedReleaseThrows, Retry, Enqueue, AddJob, StoreHasNone
<1>14. ASSUME NEW d \in Execs, HeartbeatExec(d)
       PROVE  UNCHANGED exec
  BY <1>14 DEF HeartbeatExec
<1>15. ASSUME NEW j \in Jobs, Expire(j) \/ Stall(j) \/ Cleanup(j)
       PROVE  UNCHANGED exec
  BY <1>15 DEF Expire, Stall, RunsOut, Cleanup
<1>16. CASE UNCHANGED vars
  BY <1>1, <1>16 DEF vars
<1>17. QED
  BY <1>1, <1>5, <1>6, <1>7, <1>8, <1>9, <1>10, <1>11, <1>12, <1>13, <1>14, <1>15, <1>16
  DEF Next, Poll, StoreCalls, Drain, Faulty

----------------------------------------------------------------------------
(* At the start there is no execution.                                     *)
LEMMA LiveInit == Init => LiveHasWorker
BY DEF Init, LiveHasWorker, NoExec

(* An execution keeps the worker that acquired its job.                    *)
LEMMA LiveStep == TypeOK /\ LiveHasWorker /\ [Next]_vars => LiveHasWorker'
BY Continues DEF LiveHasWorker, Begins, GoesOn

(* The two invariants the proofs below start from.                         *)
LEMMA BasicCorrect == Spec => [](TypeOK /\ LiveHasWorker)
<1>1. Init => TypeOK /\ LiveHasWorker
  BY InitTypeOK, LiveInit
<1>2. TypeOK /\ LiveHasWorker /\ [Next]_vars => (TypeOK /\ LiveHasWorker)'
  BY TypeStep, LiveStep
<1>3. QED
  BY <1>1, <1>2, PTL DEF Spec

(* Every variable has its type, for any number of jobs, workers, polls and *)
(* faults (the handlers and callbacks of engine.ts and the store).         *)
THEOREM TypeCorrect == Spec => []TypeOK
BY BasicCorrect, PTL

----------------------------------------------------------------------------
(* LeaseConsistent: every operation keeps the discipline of its record.    *)

(* One record, over one step.                                              *)
LEMMA DisciplineMove ==
    ASSUME TypeOK, LiveHasWorker, [Next]_vars, NEW j \in Jobs, Disciplined(jobs[j])
    PROVE  Disciplined(jobs'[j])
<1> DEFINE r == jobs[j]
<1>1. r \in JobRecords /\ Disciplined(r)
  BY DEF TypeOK
<1>2. Move(j)
  BY Moves
<1>3. \A w : jobs'[j] = Completed(r, w) => Disciplined(jobs'[j])
  BY <1>1, StoreDiscipline
<1>4. \A b : jobs'[j] = Failed(r, b) => Disciplined(jobs'[j])
  BY <1>1, StoreDiscipline
<1>5. \A w \in Workers : /\ jobs'[j] = Acquired(r, w) => Disciplined(jobs'[j])
                         /\ jobs'[j] = HeartBeaten(r, w) => Disciplined(jobs'[j])
  BY <1>1, StoreDiscipline
<1>6. \A p : jobs'[j] = Enqueued(p) => Disciplined(jobs'[j])
  BY <1>1, StoreDiscipline
<1>7. /\ jobs'[j] = r => Disciplined(jobs'[j])
      /\ jobs'[j] = Cancelled(r) => Disciplined(jobs'[j])
      /\ jobs'[j] = Removed(r) => Disciplined(jobs'[j])
      /\ r.lease = "valid" /\ jobs'[j] = [r EXCEPT !.lease = "expired"]
             => Disciplined(jobs'[j])
  BY <1>1, StoreDiscipline
<1>8. QED
  BY <1>2, <1>3, <1>4, <1>5, <1>6, <1>7 DEF Move

(* A record is locked and leased exactly while it is running: whichever    *)
(* worker completes, fails, releases, cancels or reclaims it, alive or not.*)
THEOREM LeaseCorrect == Spec => []LeaseConsistent
<1>1. Init => LeaseConsistent
  BY DEF Init, LeaseConsistent, NoRecord
<1>2. TypeOK /\ LiveHasWorker /\ LeaseConsistent /\ [Next]_vars => LeaseConsistent'
  <2> SUFFICES ASSUME TypeOK, LiveHasWorker, LeaseConsistent, [Next]_vars, NEW j \in Jobs
               PROVE  Disciplined(jobs'[j])
    BY DEF LeaseConsistent, Disciplined
  <2>1. Disciplined(jobs[j])
    BY DEF LeaseConsistent, Disciplined
  <2>2. QED
    BY <2>1, DisciplineMove
<1>3. QED
  BY <1>1, <1>2, BasicCorrect, PTL DEF Spec

----------------------------------------------------------------------------
(* RetryBudget.  The snapshot an execution retries by may be stale, but    *)
(* never above the record's attempts.                                      *)

SnapshotsBehind ==
    /\ \A e \in Execs : exec[e].pc # "none" => e[2] <= jobs[JobOf(e)].attempts
    /\ \A j \in Jobs : jobs[j].status = "none" => jobs[j].attempts = 0

Budgeted(r) ==
    /\ r.status = "queued" => r.attempts < MaxAttempts
    /\ r.status = "dead_letter" => r.attempts >= MaxAttempts

(* Attempts only grow, but for the records of idle jobs.                   *)
LEMMA AttemptsMove ==
    ASSUME TypeOK, LiveHasWorker, [Next]_vars, SnapshotsBehind, NEW j \in Jobs
    PROVE  /\ jobs'[j].attempts >= jobs[j].attempts \/ Idle(j)
           /\ jobs'[j].status = "none" => jobs'[j].attempts = 0
<1> DEFINE r == jobs[j]
<1>1. r \in JobRecords /\ (r.status = "none" => r.attempts = 0)
  BY DEF TypeOK, SnapshotsBehind
<1>2. Move(j)
  BY Moves
<1>3. CASE r.status = "none" /\ \E p \in Int : jobs'[j] = Enqueued(p)
  BY <1>1, <1>3 DEF Enqueued
<1>4. CASE \E w \in Workers : jobs'[j] = Acquired(r, w)
  BY <1>1, <1>4, JobAssumption DEF Acquired, JobRecords
<1>5. CASE \E w \in Workers : jobs'[j] = HeartBeaten(r, w)
  BY <1>1, <1>5, JobAssumption DEF HeartBeaten, JobRecords
<1>6. \A s \in Statuses \ {"none"} : /\ Unlocked(r, s).attempts = r.attempts
                                     /\ Unlocked(r, s).status # "none"
  BY <1>1 DEF Unlocked, JobRecords
<1>7. r.attempts \in Int /\ r.attempts >= r.attempts
  BY <1>1, JobAssumption DEF JobRecords
<1>8. CASE \/ \E w : jobs'[j] = Completed(r, w)
           \/ \E b : jobs'[j] = Failed(r, b)
           \/ jobs'[j] = Cancelled(r)
  BY <1>1, <1>6, <1>7, <1>8 DEF Completed, Failed, Cancelled, Statuses, Active, Finished
<1>9. CASE jobs'[j] = [r EXCEPT !.lease = "expired"]
  BY <1>1, <1>7, <1>9 DEF JobRecords
<1>10. CASE Idle(j) /\ jobs'[j] = Removed(r)
  BY <1>10 DEF Removed, NoRecord
<1>11. CASE jobs'[j] = r
  BY <1>1, <1>7, <1>11
<1>12. QED
  BY <1>2, <1>3, <1>4, <1>5, <1>8, <1>9, <1>10, <1>11 DEF Move

(* An attempt that was begun is never ahead of its record.                 *)
LEMMA SnapshotsStep ==
    TypeOK /\ LiveHasWorker /\ SnapshotsBehind /\ [Next]_vars => SnapshotsBehind'
<1> SUFFICES ASSUME TypeOK, LiveHasWorker, SnapshotsBehind, [Next]_vars
             PROVE  SnapshotsBehind'
  OBVIOUS
<1>1. ASSUME NEW e \in Execs, exec'[e].pc # "none"
      PROVE  e[2] <= jobs'[JobOf(e)].attempts
  <2> DEFINE j == JobOf(e)
  <2>1. j \in Jobs /\ e[2] \in Int
    BY JobAssumption DEF Execs, JobOf
  <2>2. jobs[j].attempts \in Int /\ jobs'[j].attempts \in Int
    BY <2>1, TypeStep, JobAssumption DEF TypeOK, JobRecords
  <2>3. CASE Begins(e)
    BY <2>1, <2>2, <2>3 DEF Begins, Acquired
  <2>4. CASE GoesOn(e)
    <3>1. ~ Idle(j) /\ e[2] <= jobs[j].attempts
      BY <2>1, <2>4 DEF GoesOn, SnapshotsBehind, Idle
    <3>2. jobs'[j].attempts >= jobs[j].attempts
      BY <2>1, <3>1, AttemptsMove
    <3>3. QED
      BY <2>1, <2>2, <3>1, <3>2
  <2>5. QED
    BY <1>1, <2>3, <2>4, Continues
<1>2. \A j \in Jobs : jobs'[j].status = "none" => jobs'[j].attempts = 0
  BY AttemptsMove
<1>3. QED
  BY <1>1, <1>2 DEF SnapshotsBehind

(* A record that is within its attempts stays so over one step.            *)
LEMMA BudgetMove ==
    ASSUME TypeOK, LiveHasWorker, [Next]_vars, SnapshotsBehind, NEW j \in Jobs,
           Budgeted(jobs[j])
    PROVE  Budgeted(jobs'[j])
<1> DEFINE r == jobs[j]
<1>1. r \in JobRecords /\ Budgeted(r) /\ r.attempts \in Int /\ MaxAttempts \in Int
  BY JobAssumption DEF TypeOK, JobRecords
<1>2. Move(j)
  BY Moves
<1>3. CASE \E p \in Int : jobs'[j] = Enqueued(p)
  <2>1. jobs'[j].status = "queued" /\ jobs'[j].attempts = 0
    BY <1>3 DEF Enqueued
  <2>2. QED
    BY <2>1, JobAssumption DEF Budgeted
<1>4. CASE \E w \in Workers : jobs'[j] = Acquired(r, w)
  BY <1>4 DEF Acquired, Budgeted
<1>5. CASE \E w \in Workers : jobs'[j] = HeartBeaten(r, w)
  BY <1>1, <1>5 DEF HeartBeaten, Budgeted, JobRecords
<1>6. \A s \in Statuses : /\ Unlocked(r, s).attempts = r.attempts
                          /\ Unlocked(r, s).status = s
  BY <1>1 DEF Unlocked, JobRecords
<1>7. CASE \E w : jobs'[j] = Completed(r, w)
  BY <1>1, <1>6, <1>7 DEF Completed, Budgeted, Statuses, Active, Finished
<1>8. CASE jobs'[j] = Failed(r, TRUE)
  BY <1>1, <1>6, <1>8 DEF Failed, Budgeted, Statuses, Active, Finished
<1>9. ASSUME NEW e \in Execs, WrittenBy(e, j, "failing"),
             jobs'[j] = Failed(r, CanRetry(e))
      PROVE  Budgeted(jobs'[j])
  <2>1. e[2] \in Int /\ e[2] <= r.attempts
    BY <1>9, JobAssumption DEF WrittenBy, SnapshotsBehind, Execs
  <2>2. ~ CanRetry(e) => r.attempts >= MaxAttempts
    BY <1>1, <2>1 DEF CanRetry
  <2>3. QED
    BY <1>1, <1>6, <1>9, <2>2 DEF Failed, Budgeted, Statuses, Active, Finished
<1>10. CASE jobs'[j] = Cancelled(r)
  BY <1>1, <1>6, <1>10 DEF Cancelled, Budgeted, Statuses, Active, Finished
<1>11. CASE jobs'[j] = [r EXCEPT !.lease = "expired"]
  BY <1>1, <1>11 DEF Budgeted, JobRecords
<1>12. CASE jobs'[j] = Removed(r)
  BY <1>12 DEF Removed, NoRecord, Budgeted
<1>13. QED
  BY <1>1, <1>2, <1>3, <1>4, <1>5, <1>7, <1>8, <1>9, <1>10, <1>11, <1>12 DEF Move

(* A job is in the queue only with attempts left and dead-lettered only    *)
(* with none, though failJob is called with stale snapshots, by workers    *)
(* that lost their lease, and by drains that release work by force.        *)
THEOREM RetryCorrect == Spec => []RetryBudget
<1>1. Init => SnapshotsBehind /\ RetryBudget
  BY DEF Init, SnapshotsBehind, RetryBudget, NoRecord, NoExec
<1>2. TypeOK /\ LiveHasWorker /\ SnapshotsBehind /\ RetryBudget /\ [Next]_vars
          => RetryBudget'
  <2> SUFFICES ASSUME TypeOK, LiveHasWorker, SnapshotsBehind, RetryBudget, [Next]_vars,
                      NEW j \in Jobs
               PROVE  Budgeted(jobs'[j])
    BY DEF RetryBudget, Budgeted
  <2>1. Budgeted(jobs[j])
    BY DEF RetryBudget, Budgeted
  <2>2. QED
    BY <2>1, BudgetMove
<1>3. QED
  BY <1>1, <1>2, SnapshotsStep, BasicCorrect, PTL DEF Spec

----------------------------------------------------------------------------
(* ExclusiveExecution.  An acting execution holds a lease that does not    *)
(* run out, or its job is over; and it is the latest of its job.           *)

Guarded(e) ==
    /\ jobs[JobOf(e)].attempts = e[2]
    /\ \/ jobs[JobOf(e)].lockedBy = exec[e].worker /\ jobs[JobOf(e)].lease = "valid"
       \/ jobs[JobOf(e)].status \in Finished

ActingGuarded == \A e \in Execs : Acting(e) => Guarded(e)

NoDrain ==
    /\ \A w \in Workers : ~ Draining(w)
    /\ \A e \in Execs : exec[e].pc # "releasing"

(* Without a shutdown nothing is drained.                                  *)
LEMMA NoDrainStep ==
    ASSUME Drainable = {}, TypeOK, LiveHasWorker, NoDrain, [Next]_vars
    PROVE  NoDrain'
<1> USE DEF Draining
<1>1. ASSUME NEW e \in Execs, exec'[e].pc = "releasing"
      PROVE  FALSE
  <2>1. CASE Begins(e)
    BY <1>1, <2>1 DEF Begins
  <2>2. CASE GoesOn(e)
    BY <1>1, <2>2 DEF GoesOn, LiveHasWorker, NoDrain
  <2>3. QED
    BY <1>1, <2>1, <2>2, Continues
<1>2. ASSUME NEW w \in Workers, NEW u \in Workers,
             \/ Start(u) \/ Stop(u) \/ BeginShutdown(u) \/ Drain(u) \/ Dies(u)
             \/ \E j \in Jobs : ForcedReleaseThrows(u, j)
      PROVE  ~ Draining(w)'
  BY <1>2 DEF NoDrain, Start, Stop, BeginShutdown, Drain, DrainDeadline, SettleDeadline,
              DrainDone, ReleaseStraggler, ForcedReleaseThrows, Dies, TypeOK
<1>3. ASSUME NEW w \in Workers, UNCHANGED phase
      PROVE  ~ Draining(w)'
  BY <1>3 DEF NoDrain
<1>4. ASSUME NEW u \in Workers, Poll(u)
      PROVE  UNCHANGED phase
  BY <1>4 DEF Poll, LoopPoll, KickPoll, StoreCalls, StoreAcquire, StoreHasNone
<1>5. ASSUME NEW e \in Execs, Register(e) \/ HandlerEnds(e) \/ HeartbeatExec(e)
                              \/ Write(e) \/ Settle(e) \/ CompleteThrows(e)
                              \/ ReleaseThrows(e)
      PROVE  UNCHANGED phase
  BY <1>5 DEF Register, HandlerEnds, HandlerReturns, HandlerThrows, HandlerThrowsAbort,
              HeartbeatExec, Write, StoreComplete, StoreFail, StoreRelease, StoreCancel,
              Settle, CompleteThrows, ReleaseThrows, workerVars
<1>6. ASSUME NEW j \in Jobs, Expire(j) \/ Cleanup(j) \/ Stall(j)
      PROVE  UNCHANGED phase
  BY <1>6 DEF Expire, Stall, RunsOut, Cleanup, workerVars
<1>7. ASSUME NEW u \in Workers, NEW j \in Jobs, Retry(u, j) \/ Cancel(u, j)
      PROVE  UNCHANGED phase
  BY <1>7 DEF Retry, AddJob, Cancel
<1>8. ASSUME NEW e \in Execs, FailThrows(e)
      PROVE  exec[e].worker \in Workers /\ Dies(exec[e].worker)
  BY <1>8 DEF FailThrows, LiveHasWorker
<1>9. ASSUME NEW u \in Workers, Crash(u)
       PROVE  Dies(u)
  BY <1>9 DEF Crash
<1>10. ASSUME NEW u \in Workers, NEW byLoop \in BOOLEAN, NEW j \in Jobs,
              AcquireThrows(u, byLoop, j)
       PROVE  Dies(u)
  BY <1>10 DEF AcquireThrows
<1>11. ASSUME NEW u \in Workers, NEW p \in Priorities, Enqueue(u, p)
       PROVE  UNCHANGED phase
  BY <1>11 DEF Enqueue, AddJob
<1>12. UNCHANGED vars => UNCHANGED phase
  BY DEF vars
<1>13. \A w \in Workers : ~ Draining(w)'
  BY <1>2, <1>3, <1>4, <1>5, <1>6, <1>7, <1>8, <1>9, <1>10, <1>11, <1>12 DEF Next, Faulty, NoDrain
<1>14. QED
  BY <1>1, <1>13 DEF NoDrain

(* What a step leaves of the guard of an execution that goes on acting.    *)
LEMMA GuardMove ==
    ASSUME "stall" \notin FaultKinds, TypeOK, LiveHasWorker, LeaseConsistent,
           NoDrain, ActingGuarded, [Next]_vars,
           NEW e \in Execs, Acting(e), Acting(e)', exec'[e].worker = exec[e].worker
    PROVE  Guarded(e)'
<1> DEFINE j == JobOf(e)
           r == jobs[j]
           w == exec[e].worker
<1> USE JobAssumption
<1>1. /\ j \in Jobs /\ r \in JobRecords /\ w \in Workers /\ exec[e].pc # "none"
      /\ e[2] = r.attempts /\ r.attempts \in Int
  BY DEF TypeOK, LiveHasWorker, ActingGuarded, Guarded, Acting, Working, Execs, JobOf,
         JobRecords
<1>2. \/ r.lockedBy = w /\ r.lease = "valid" /\ r.status = "running"
      \/ r.lockedBy = Nobody /\ r.lease = "none" /\ r.status \in Finished
  BY <1>1 DEF ActingGuarded, Guarded, LeaseConsistent, Finished
<1>3. ~ IsCandidate(r) /\ r.status # "none"
  BY <1>2 DEF IsCandidate, Finished
<1>4. \A d \in Execs : Acting(d) /\ JobOf(d) = j => d = e
  BY <1>1 DEF ActingGuarded, Guarded, Execs, JobOf
<1>5. CASE jobs'[j] = r
  BY <1>1, <1>2, <1>5 DEF Guarded
<1>6. CASE jobs'[j] = Cancelled(r)
  BY <1>1, <1>2, <1>6 DEF Guarded, Cancelled, Unlocked, Active, Finished, JobRecords
<1>7. CASE jobs'[j] = Completed(r, w)
  BY <1>1, <1>2, <1>7 DEF Guarded, Completed, Unlocked, Exists, Finished, JobRecords
<1>8. CASE \E v \in Workers : jobs'[j] = HeartBeaten(r, v)
  BY <1>1, <1>2, <1>8 DEF Guarded, HeartBeaten, JobRecords
<1>9. ASSUME NEW u \in Workers, NEW p \in Int, AddJob(u, p)
      PROVE  jobs'[j] = r
  BY <1>1, <1>3, <1>9 DEF AddJob, TypeOK
<1>10. ASSUME NEW u \in Workers, NEW byLoop \in BOOLEAN, NEW i \in Jobs,
              StoreAcquire(u, byLoop, i) \/ AcquireThrows(u, byLoop, i)
       PROVE  jobs'[j] = r
  BY <1>1, <1>3, <1>10 DEF StoreAcquire, AcquireThrows, IsChosen, Throws, TypeOK
<1>11. ASSUME NEW u \in Workers, NEW i \in Jobs, Cancel(u, i)
       PROVE  jobs'[j] \in {r, Cancelled(r)}
  BY <1>1, <1>11 DEF Cancel, TypeOK
<1>12. ASSUME NEW u \in Workers, NEW i \in Jobs,
              ReleaseStraggler(u, i) \/ ForcedReleaseThrows(u, i)
       PROVE  FALSE
  BY <1>12 DEF ReleaseStraggler, ForcedReleaseThrows, NoDrain, Draining
<1>13. ASSUME NEW d \in Execs, HeartbeatExec(d)
       PROVE  jobs'[j] = r \/ \E v \in Workers : jobs'[j] = HeartBeaten(r, v)
  <2>1. exec[d].worker \in Workers
    BY <1>13 DEF HeartbeatExec, LiveHasWorker, Registered, Writing
  <2>2. QED
    BY <1>1, <1>13, <2>1 DEF HeartbeatExec, TypeOK
<1>14. ASSUME NEW d \in Execs, Write(d) \/ FailThrows(d)
       PROVE  jobs'[j] = r
  <2>1. JobOf(d) = j => d = e
    BY <1>4, <1>14 DEF Write, StoreComplete, StoreFail, StoreRelease, StoreCancel, FailThrows,
                       Acting, NoDrain
  <2>2. d # e
    <3>1. ASSUME Write(e) PROVE FALSE
      <4>1. Goes(e, "settling")
        BY <3>1 DEF Write, StoreComplete, StoreFail, StoreRelease, StoreCancel
      <4>2. exec'[e].pc = "settling"
        BY <4>1 DEF Goes, TypeOK, ExecRecords
      <4>3. QED
        BY <4>2 DEF Acting, Working
    <3>2. ASSUME FailThrows(e) PROVE FALSE
      BY <3>2 DEF FailThrows, Dies, NoExec, Acting, Working, TypeOK
    <3>3. QED
      BY <1>14, <3>1, <3>2
  <2>3. QED
    BY <1>1, <1>14, <2>1, <2>2 DEF Write, StoreComplete, StoreFail, StoreRelease, StoreCancel,
                              FailThrows, Throws, TypeOK
<1>15. ASSUME NEW d \in Execs, CompleteThrows(d)
       PROVE  jobs'[j] \in {r, Completed(r, w)}
  <2>1. JobOf(d) = j => d = e
    BY <1>4, <1>15 DEF CompleteThrows, Acting
  <2>2. QED
    BY <1>1, <1>15, <2>1 DEF CompleteThrows, Throws, TypeOK
<1>16. ASSUME NEW i \in Jobs, Expire(i) \/ Stall(i)
       PROVE  jobs'[j] = r
  <2>1. r.lockedBy = w => IsKept(j)
    BY DEF IsKept, Keeps, Acting, Working, Registered, Writing
  <2>2. i # j
    BY <1>2, <1>16, <2>1 DEF Expire, Stall, RunsOut, Fault
  <2>3. QED
    BY <1>1, <1>16, <2>2 DEF Expire, Stall, RunsOut, TypeOK
<1>17. ASSUME NEW i \in Jobs, Cleanup(i)
       PROVE  jobs'[j] = r
  <2>1. i # j
    BY <1>1, <1>17 DEF Cleanup
  <2>2. QED
    BY <1>1, <1>17, <2>1 DEF Cleanup, TypeOK
<1>18. ASSUME NEW u \in Workers,
              \/ Start(u) \/ LoopPoll(u) \/ KickPoll(u) \/ Stop(u) \/ BeginShutdown(u)
              \/ DrainDeadline(u) \/ SettleDeadline(u) \/ DrainDone(u) \/ Crash(u)
              \/ \E byLoop \in BOOLEAN : StoreHasNone(u, byLoop)
       PROVE  jobs'[j] = r
  BY <1>18 DEF Start, LoopPoll, KickPoll, Stop, BeginShutdown, DrainDeadline,
               SettleDeadline, DrainDone, Crash, StoreHasNone
<1>19. ASSUME NEW d \in Execs, Register(d) \/ HandlerEnds(d) \/ Settle(d)
       PROVE  jobs'[j] = r
  BY <1>19 DEF Register, HandlerEnds, HandlerReturns, HandlerThrows, HandlerThrowsAbort, Settle
<1>20. ASSUME NEW u \in Workers, NEW i \in Jobs, Retry(u, i)
       PROVE  jobs'[j] = r
  <2>1. jobs[i].priority + 1 \in Int
    BY DEF TypeOK, JobRecords
  <2>2. QED
    BY <1>9, <1>20, <2>1 DEF Retry
<1>21. ASSUME NEW u \in Workers, NEW p \in Priorities, Enqueue(u, p)
       PROVE  jobs'[j] = r
  BY <1>9, <1>21 DEF Enqueue
<1>22. UNCHANGED vars => jobs'[j] = r
  BY DEF vars
<1>23. ASSUME NEW d \in Execs, ReleaseThrows(d)
       PROVE  FALSE
  BY <1>23 DEF ReleaseThrows, NoDrain
<1>24. QED
  BY <1>5, <1>6, <1>7, <1>8, <1>10, <1>11, <1>12, <1>13, <1>14, <1>15, <1>16, <1>17,
     <1>18, <1>19, <1>20, <1>21, <1>22, <1>23
  DEF Next, Poll, StoreCalls, Drain, Faulty

(* Whoever acts on a job holds its lease, over one step.                   *)
LEMMA GuardStep ==
    ASSUME "stall" \notin FaultKinds, TypeOK, LiveHasWorker, LeaseConsistent,
           NoDrain, ActingGuarded, [Next]_vars
    PROVE  ActingGuarded'
<1> SUFFICES ASSUME NEW e \in Execs, Acting(e)'
             PROVE  Guarded(e)'
  BY DEF ActingGuarded
<1>1. exec'[e].pc # "none"
  BY DEF Acting, Working
<1>2. CASE Begins(e)
  BY <1>2 DEF Begins, Acquired, Guarded
<1>3. CASE GoesOn(e)
  BY <1>3, GuardMove DEF GoesOn
<1>4. QED
  BY <1>1, <1>2, <1>3, Continues

(* As long as no worker drains and no live worker misses a whole lease, no *)
(* two handlers work on one job: crashes, cancellations, retries, throwing *)
(* storage operations and reclaimed leases are all allowed.  A drain takes *)
(* the guarantee away (run job_drain_race).                                *)
THEOREM ExclusiveCorrect ==
    ASSUME Drainable = {}, "stall" \notin FaultKinds
    PROVE  Spec => []ExclusiveExecution
<1>1. Init => NoDrain /\ ActingGuarded
  BY DEF Init, NoDrain, Draining, ActingGuarded, Acting, Working, NoExec
<1>2. TypeOK /\ LiveHasWorker /\ LeaseConsistent /\ NoDrain /\ ActingGuarded /\ [Next]_vars
          => (NoDrain /\ ActingGuarded)'
  BY NoDrainStep, GuardStep
<1>3. ActingGuarded => ExclusiveExecution
  BY DEF ActingGuarded, Guarded, ExclusiveExecution, Acting, Execs, JobOf
<1>4. QED
  BY <1>1, <1>2, <1>3, BasicCorrect, LeaseCorrect, PTL DEF Spec

----------------------------------------------------------------------------
(* OwnerRuns.  Besides being guarded, a job whose handler is at work is    *)
(* running.  While the store never throws, the same holds until the        *)
(* execution's last write has been answered.                               *)

Sure(e) ==
    /\ Acting(e)
    /\ "throw" \in FaultKinds => exec[e].pc \in {"acquired", "handling"}

SureRuns == \A e \in Execs : Sure(e) => jobs[JobOf(e)].status = "running"

(* Over one step, a job whose execution has not written its last word      *)
(* stays running.                                                          *)
LEMMA SureStep ==
    ASSUME "running" \notin CancelFrom, TypeOK, LiveHasWorker, NoDrain,
           ActingGuarded, SureRuns, [Next]_vars
    PROVE  SureRuns'
<1> USE JobAssumption
<1> SUFFICES ASSUME NEW e \in Execs, Sure(e)'
             PROVE  jobs'[JobOf(e)].status = "running"
  BY DEF SureRuns
<1> DEFINE j == JobOf(e)
           r == jobs[j]
<1>1. exec'[e].pc \notin {"none", "settling"}
  BY DEF Sure, Acting, Working
<1>2. CASE Begins(e)
  BY <1>2 DEF Begins, Acquired
<1>3. CASE GoesOn(e)
  <2>1. Sure(e) /\ Acting(e)
    BY <1>3 DEF Sure, GoesOn
  <2>2. j \in Jobs /\ r \in JobRecords /\ r.status = "running"
    BY <2>1 DEF SureRuns, Execs, JobOf, TypeOK
  <2>3. \A d \in Execs : Acting(d) /\ JobOf(d) = j => d = e
    BY <2>1 DEF ActingGuarded, Guarded, Execs, JobOf
  <2>4. ASSUME NEW d \in Execs,
               NEW pc \in {"completing", "failing", "cancelling"}, WrittenBy(d, j, pc)
        PROVE  FALSE
    <3>1. d = e
      BY <2>3, <2>4 DEF WrittenBy, Acting
    <3>2. exec[e].pc = pc /\ "throw" \in FaultKinds
      BY <1>1, <2>4, <3>1 DEF WrittenBy
    <3>3. QED
      BY <2>1, <3>2 DEF Sure
  <2>5. ~ Drained(j)
    BY DEF Drained, NoDrain
  <2>6. ~ Withdrawn(j)
    BY <2>2, <2>4 DEF Withdrawn
  <2>7. CASE \E w \in Workers : jobs'[j] = HeartBeaten(r, w)
    BY <2>2, <2>7 DEF HeartBeaten, JobRecords
  <2>8. CASE \E w \in Workers : jobs'[j] = Acquired(r, w)
    BY <2>8 DEF Acquired
  <2>9. CASE jobs'[j] = [r EXCEPT !.lease = "expired"]
    BY <2>2, <2>9 DEF JobRecords
  <2>10. QED
    BY <2>2, <2>4, <2>5, <2>6, <2>7, <2>8, <2>9, Moves DEF Move, Finished
<1>4. QED
  BY <1>1, <1>2, <1>3, Continues

(* Everything the proofs below need of a reachable state, as long as no    *)
(* worker drains or misses a whole lease and nobody cancels a running job. *)
Nominal ==
    /\ TypeOK /\ LiveHasWorker /\ LeaseConsistent /\ SnapshotsBehind
    /\ NoDrain /\ ActingGuarded /\ SureRuns

(* The nominal invariant holds in every reachable state.                   *)
LEMMA NominalCorrect ==
    ASSUME Drainable = {}, "stall" \notin FaultKinds, "running" \notin CancelFrom
    PROVE  Spec => []Nominal
<1>1. Init => SnapshotsBehind /\ NoDrain /\ ActingGuarded /\ SureRuns
  BY DEF Init, SnapshotsBehind, NoDrain, Draining, ActingGuarded, SureRuns, Sure, Acting,
         Working, NoExec, NoRecord
<1> DEFINE Inner == SnapshotsBehind /\ NoDrain /\ ActingGuarded /\ SureRuns
<1>2. TypeOK /\ LiveHasWorker /\ LeaseConsistent /\ Inner /\ [Next]_vars => Inner'
  <2> SUFFICES ASSUME TypeOK, LiveHasWorker, LeaseConsistent, Inner, [Next]_vars
               PROVE  Inner'
    OBVIOUS
  <2>1. SnapshotsBehind'
    BY SnapshotsStep
  <2>2. NoDrain' /\ ActingGuarded' /\ SureRuns'
    BY NoDrainStep, GuardStep, SureStep
  <2>3. QED
    BY <2>1, <2>2
<1>3. QED
  BY <1>1, <1>2, BasicCorrect, LeaseCorrect, PTL DEF Spec, Nominal

(* A handler that was not told to stop works on a job its worker holds the *)
(* lock of, on that lock's own attempt: crashes, reclaimed leases, retries *)
(* and a store that throws are allowed, an operator's cancel of a running  *)
(* job, a drain and a missed lease are not, since each of them leaves the  *)
(* handler running without the lock.                                       *)
THEOREM OwnerCorrect ==
    ASSUME Drainable = {}, "stall" \notin FaultKinds, "running" \notin CancelFrom
    PROVE  Spec => []OwnerRuns
<1>1. Nominal => OwnerRuns
  <2> SUFFICES ASSUME Nominal, NEW e \in Execs, Working(e)
               PROVE  /\ jobs[JobOf(e)].lockedBy = exec[e].worker
                      /\ jobs[JobOf(e)].attempts = e[2]
    BY DEF OwnerRuns
  <2>1. Guarded(e) /\ jobs[JobOf(e)].status = "running"
    BY DEF Nominal, ActingGuarded, SureRuns, Sure, Acting, Working
  <2>2. QED
    BY <2>1 DEF Guarded, Finished
<1>2. QED
  BY <1>1, NominalCorrect, PTL

----------------------------------------------------------------------------
(* KeepsLifecycle.  A step changes at most one record, and that record the *)
(* way the life cycle allows.                                              *)

Only(j) == jobs' = [jobs EXCEPT ![j] = jobs'[j]]

(* No step changes two records.                                            *)
LEMMA OneRecord ==
    ASSUME TypeOK, [Next]_vars
    PROVE  UNCHANGED jobs \/ \E j \in Jobs : Only(j)
<1> USE DEF Only
<1>1. ASSUME NEW w \in Workers, NEW p \in Int, AddJob(w, p)
      PROVE  \E j \in Jobs : Only(j)
  BY <1>1 DEF AddJob, TypeOK
<1>2. ASSUME NEW w \in Workers, NEW j \in Jobs, Retry(w, j)
      PROVE  \E i \in Jobs : Only(i)
  <2>1. jobs[j].priority + 1 \in Int
    BY DEF TypeOK, JobRecords
  <2>2. QED
    BY <1>1, <1>2, <2>1 DEF Retry
<1>3. ASSUME NEW w \in Workers, NEW p \in Priorities, Enqueue(w, p)
      PROVE  \E j \in Jobs : Only(j)
  BY <1>1, <1>3, JobAssumption DEF Enqueue
<1>4. ASSUME NEW w \in Workers, NEW j \in Jobs,
             \/ Cancel(w, j) \/ ReleaseStraggler(w, j) \/ ForcedReleaseThrows(w, j)
             \/ \E byLoop \in BOOLEAN : StoreAcquire(w, byLoop, j)
      PROVE  Only(j)
  BY <1>4 DEF Cancel, ReleaseStraggler, ForcedReleaseThrows, Throws, StoreAcquire, TypeOK
<1>5. ASSUME NEW w \in Workers, NEW j \in Jobs, NEW byLoop \in BOOLEAN,
             AcquireThrows(w, byLoop, j)
      PROVE  Only(j)
  BY <1>5 DEF AcquireThrows, Throws, TypeOK
<1>6. ASSUME NEW e \in Execs, HeartbeatExec(e) \/ Write(e)
      PROVE  Only(JobOf(e))
  BY <1>6 DEF HeartbeatExec, Write, StoreComplete, StoreFail, StoreRelease, StoreCancel,
              TypeOK, Execs, JobOf
<1>7. ASSUME NEW e \in Execs, CompleteThrows(e) \/ FailThrows(e) \/ ReleaseThrows(e)
      PROVE  Only(JobOf(e))
  BY <1>7 DEF CompleteThrows, FailThrows, ReleaseThrows, Throws, TypeOK, Execs, JobOf
<1>8. ASSUME NEW j \in Jobs, Expire(j) \/ Stall(j) \/ Cleanup(j)
      PROVE  Only(j)
  BY <1>8 DEF Expire, Stall, RunsOut, Cleanup, TypeOK
<1>9. ASSUME NEW w \in Workers,
             \/ Start(w) \/ LoopPoll(w) \/ KickPoll(w) \/ Stop(w) \/ BeginShutdown(w)
             \/ DrainDeadline(w) \/ SettleDeadline(w) \/ DrainDone(w) \/ Crash(w)
             \/ \E byLoop \in BOOLEAN : StoreHasNone(w, byLoop)
      PROVE  UNCHANGED jobs
  BY <1>9 DEF Start, LoopPoll, KickPoll, Stop, BeginShutdown, DrainDeadline,
              SettleDeadline, DrainDone, Crash, StoreHasNone
<1>10. ASSUME NEW e \in Execs, Register(e) \/ HandlerEnds(e) \/ Settle(e)
       PROVE  UNCHANGED jobs
  BY <1>10 DEF Register, HandlerEnds, HandlerReturns, HandlerThrows, HandlerThrowsAbort, Settle
<1>11. CASE UNCHANGED vars
  BY <1>11 DEF vars
<1>12. \A e \in Execs : JobOf(e) \in Jobs
  BY DEF Execs, JobOf
<1>13. QED
  BY <1>2, <1>3, <1>4, <1>5, <1>6, <1>7, <1>8, <1>9, <1>10, <1>11, <1>12
  DEF Next, Poll, StoreCalls, Drain, Faulty

(* What one record's status and attempts may do in the life cycle.         *)
Lives(r, s) ==
    \/ s.status = r.status /\ s.attempts = r.attempts
    \/ r.status = "none" /\ s.status = "queued" /\ s.attempts = r.attempts
    \/ r.status \in Active /\ s.status = "running" /\ s.attempts = r.attempts + 1
    \/ r.status = "running" /\ s.status = "completed" /\ s.attempts = r.attempts
    \/ /\ r.status = "running" /\ s.status = "queued" /\ s.attempts = r.attempts
       /\ r.attempts < MaxAttempts
    \/ /\ r.status = "running" /\ s.status = "dead_letter" /\ s.attempts = r.attempts
       /\ r.attempts >= MaxAttempts
    \/ r.status \in Active /\ s.status = "cancelled" /\ s.attempts = r.attempts
    \/ r.status \in Finished /\ s.status = "removed" /\ s.attempts = 0

(* A record changes only as the life cycle lets it.                        *)
LEMMA RecordLives ==
    ASSUME FaultKinds = {}, Nominal, [Next]_vars, NEW j \in Jobs
    PROVE  Lives(jobs[j], jobs'[j])
<1> DEFINE r == jobs[j]
<1> USE JobAssumption DEF Lives
<1>1. r \in JobRecords /\ r.attempts \in Int
  BY DEF Nominal, TypeOK, JobRecords
<1>2. ASSUME NEW e \in Execs,
             NEW pc \in {"completing", "failing", "cancelling"}, WrittenBy(e, j, pc)
      PROVE  /\ r.status = "running" /\ r.attempts = e[2]
             /\ r.lockedBy = exec[e].worker
  <2>1. Acting(e) /\ Sure(e)
    BY <1>2 DEF WrittenBy, Acting, Sure
  <2>2. r.status = "running" /\ Guarded(e)
    BY <1>2, <2>1 DEF Nominal, SureRuns, ActingGuarded, WrittenBy
  <2>3. QED
    BY <1>2, <2>2 DEF Guarded, Finished, WrittenBy
<1>3. \A s \in Statuses : /\ Unlocked(r, s).attempts = r.attempts
                          /\ Unlocked(r, s).status = s
  BY <1>1 DEF Unlocked, JobRecords
<1>4. CASE r.status = "none" /\ \E p \in Int : jobs'[j] = Enqueued(p)
  BY <1>4 DEF Nominal, SnapshotsBehind, Enqueued
<1>5. CASE IsCandidate(r) /\ \E w \in Workers : jobs'[j] = Acquired(r, w)
  BY <1>5 DEF IsCandidate, Acquired, Active
<1>6. CASE \E w \in Workers : jobs'[j] = HeartBeaten(r, w)
  BY <1>1, <1>6 DEF HeartBeaten, JobRecords
<1>7. ASSUME NEW e \in Execs, WrittenBy(e, j, "completing"),
             jobs'[j] = Completed(r, exec[e].worker)
      PROVE  Lives(r, jobs'[j])
  BY <1>2, <1>3, <1>7 DEF Completed, Exists, Statuses, Finished
<1>8. ASSUME NEW e \in Execs, WrittenBy(e, j, "failing"), jobs'[j] = Failed(r, CanRetry(e))
      PROVE  Lives(r, jobs'[j])
  BY <1>1, <1>2, <1>3, <1>8 DEF Failed, CanRetry, Statuses, Active, Finished
<1>9. ~ Drained(j)
  BY DEF Drained, Nominal, NoDrain
<1>10. CASE jobs'[j] = Cancelled(r)
  BY <1>3, <1>10 DEF Cancelled, Statuses, Finished
<1>11. CASE jobs'[j] = [r EXCEPT !.lease = "expired"]
  BY <1>1, <1>11 DEF JobRecords
<1>12. CASE r.status \in Finished /\ jobs'[j] = Removed(r)
  BY <1>12 DEF Removed, NoRecord
<1>13. Move(j)
  BY Moves DEF Nominal
<1>14. QED
  BY <1>4, <1>5, <1>6, <1>7, <1>8, <1>9, <1>10, <1>11, <1>12, <1>13 DEF Move

States == [j \in Jobs |-> jobs[j].status]
Tries  == [j \in Jobs |-> jobs[j].attempts]

(* Without drains, faults and cancels of running jobs, the engine keeps    *)
(* the life cycle of JobLifecycle, whatever workers crash, stop and take   *)
(* over: only a running job completes, is requeued or is buried, it is     *)
(* requeued with attempts left and buried with none, and a finished job    *)
(* stays finished.                                                         *)
THEOREM LifecycleKept ==
    ASSUME Drainable = {}, FaultKinds = {}, "running" \notin CancelFrom
    PROVE  Spec => KeepsLifecycle
<1>1. Init => Lifecycle!Init
  BY DEF Init, Lifecycle!Init, NoRecord
<1>2. Nominal /\ [Next]_vars => [Lifecycle!Next]_Lifecycle!lifeVars
  <2> SUFFICES ASSUME Nominal, [Next]_vars
               PROVE  [Lifecycle!Next]_Lifecycle!lifeVars
    OBVIOUS
  <2> USE DEF Lifecycle!lifeVars
  <2>1. CASE UNCHANGED jobs
    BY <2>1
  <2>2. ASSUME NEW j \in Jobs, Only(j)
        PROVE  [Lifecycle!Next]_Lifecycle!lifeVars
    <3> DEFINE r == jobs[j]
               s == jobs'[j]
    <3>1. /\ States' = [States EXCEPT ![j] = s.status]
          /\ Tries' = [Tries EXCEPT ![j] = s.attempts]
      <4>1. jobs' = [jobs EXCEPT ![j] = s] /\ DOMAIN jobs = Jobs
        BY <2>2 DEF Only, Nominal, TypeOK
      <4>2. \A i \in Jobs : jobs'[i] = IF i = j THEN s ELSE jobs[i]
        BY <4>1
      <4>3. QED
        BY <4>2 DEF States, Tries
    <3>2. States[j] = r.status /\ Tries[j] = r.attempts
      BY DEF States, Tries
    <3>3. Lives(r, s)
      BY RecordLives
    <3>4. s.status = r.status => States' = States
      BY <3>1, <3>2 DEF States
    <3>5. s.attempts = r.attempts => Tries' = Tries
      BY <3>1, <3>2 DEF Tries
    <3> USE DEF States, Tries, Active, Finished, Lifecycle!Move, Lifecycle!Finished
    <3>6. CASE s.status = r.status /\ s.attempts = r.attempts
      BY <3>4, <3>5, <3>6
    <3>7. CASE r.status = "none" /\ s.status = "queued" /\ s.attempts = r.attempts
      BY <3>1, <3>2, <3>5, <3>7 DEF Lifecycle!Submit, Lifecycle!Next
    <3>8. CASE r.status \in Active /\ s.status = "running" /\ s.attempts = r.attempts + 1
      BY <3>1, <3>2, <3>8 DEF Lifecycle!Attempt, Lifecycle!Next
    <3>9. CASE r.status = "running" /\ s.status = "completed" /\ s.attempts = r.attempts
      BY <3>1, <3>2, <3>5, <3>9 DEF Lifecycle!Succeed, Lifecycle!Next
    <3>10. CASE /\ r.status = "running" /\ s.status = "queued" /\ s.attempts = r.attempts
                /\ r.attempts < MaxAttempts
      BY <3>1, <3>2, <3>5, <3>10 DEF Lifecycle!Requeue, Lifecycle!Next
    <3>11. CASE /\ r.status = "running" /\ s.status = "dead_letter" /\ s.attempts = r.attempts
                /\ r.attempts >= MaxAttempts
      BY <3>1, <3>2, <3>5, <3>11 DEF Lifecycle!Bury, Lifecycle!Next
    <3>12. CASE r.status \in Active /\ s.status = "cancelled" /\ s.attempts = r.attempts
      BY <3>1, <3>2, <3>5, <3>12 DEF Lifecycle!Withdraw, Lifecycle!Next
    <3>13. CASE r.status \in Finished /\ s.status = "removed" /\ s.attempts = 0
      BY <3>1, <3>2, <3>13 DEF Lifecycle!Remove, Lifecycle!Next
    <3>14. QED
      BY <3>3, <3>6, <3>7, <3>8, <3>9, <3>10, <3>11, <3>12, <3>13 DEF Lives
  <2>3. QED
    BY <2>1, <2>2, OneRecord DEF Nominal
<1>3. Spec => []Nominal
  BY NominalCorrect
<1>4. QED
  BY <1>1, <1>2, <1>3, PTL DEF Spec, KeepsLifecycle, Lifecycle!Spec

----------------------------------------------------------------------------
(* WorkersExact.  A worker that was not started has no execution, no poll  *)
(* and no count, so that Start finds its counters exact.                   *)

Unstarted(w) ==
    phase[w] = "new" => /\ count[w] = 0 /\ loop[w] = "waiting" /\ calls[w] = 0
                        /\ \A e \in Execs : exec[e].pc # "none" => exec[e].worker # w

WorkerExact(w) ==
    /\ phase[w] = "running" => count[w] = Cardinality(RegisteredAt(w))
    /\ active[w] \subseteq RegisteredAt(w)
    /\ \A d, e \in active[w] : JobOf(d) = JobOf(e) => d = e
    /\ Unstarted(w)

(* The executions of a worker can be counted.                              *)
LEMMA RegisteredFinite == \A w : IsFiniteSet(RegisteredAt(w))
<1>1. IsFiniteSet(Jobs) /\ IsFiniteSet(1..MaxTries)
  BY FS_Interval, JobAssumption DEF Jobs
<1>2. IsFiniteSet(Execs)
  BY <1>1, FS_Product DEF Execs
<1>3. QED
  BY <1>2, FS_Subset DEF RegisteredAt

(* Every execution has the worker it had, and is registered if it was.     *)
Steady ==
    \A e \in Execs :
        /\ exec'[e].worker = exec[e].worker
        /\ exec'[e].pc \in Registered <=> exec[e].pc \in Registered
        /\ exec'[e].pc # "none" => exec[e].pc # "none"

(* Worker w polls no more, or it was started before.                       *)
StaysWaiting(w) == phase[w] = "new" => loop'[w] = loop[w] /\ calls'[w] = calls[w]

(* A step that registers and removes no execution keeps a worker exact.    *)
LEMMA SteadyExact ==
    ASSUME NEW w \in Workers, WorkerExact(w), Steady, StaysWaiting(w),
           active'[w] \subseteq active[w], count'[w] = count[w],
           phase'[w] # phase[w] => phase'[w] # "new" /\ (phase'[w] = "running" => phase[w] = "new")
    PROVE  WorkerExact(w)'
<1>1. RegisteredAt(w)' = RegisteredAt(w)
  BY DEF RegisteredAt, Steady
<1>2. phase[w] = "new" => Cardinality(RegisteredAt(w)) = 0
  <2>1. phase[w] = "new" => RegisteredAt(w) = {}
    BY DEF WorkerExact, Unstarted, RegisteredAt, Registered, Writing
  <2>2. QED
    BY <2>1, FS_EmptySet
<1>3. Unstarted(w)'
  BY DEF WorkerExact, Unstarted, Steady, StaysWaiting
<1>4. QED
  BY <1>1, <1>2, <1>3 DEF WorkerExact, Unstarted

(* Aborting, moving on and leaving alone keep the registered executions.   *)
LEMMA AbortSteady ==
    ASSUME TypeOK, NEW S, exec' = Aborting(S)
    PROVE  Steady
BY DEF Steady, Aborting, TypeOK, ExecRecords

(* An execution that stays registered when it moves on is not taken out of *)
(* the count.                                                              *)
LEMMA GoesSteady ==
    ASSUME TypeOK, NEW e \in Execs, NEW pc \in Registered, Goes(e, pc),
           exec[e].pc \in Registered
    PROVE  Steady
BY DEF Steady, Goes, TypeOK, ExecRecords, Registered, Writing

(* A step of no execution is steady.                                       *)
LEMMA SameSteady == UNCHANGED exec => Steady
BY DEF Steady

(* The steps that leave the executions, the map and the count alone.       *)
LEMMA QuietExact ==
    ASSUME TypeOK, NEW w \in Workers, WorkerExact(w), NEW u \in Workers,
           \/ Start(u) \/ LoopPoll(u) \/ KickPoll(u) \/ BeginShutdown(u)
           \/ SettleDeadline(u) \/ DrainDone(u)
           \/ \E byLoop \in BOOLEAN : StoreHasNone(u, byLoop)
           \/ \E p \in Int : AddJob(u, p)
    PROVE  WorkerExact(w)'
<1>1. UNCHANGED <<exec, active, count>>
  BY DEF Start, LoopPoll, KickPoll, BeginShutdown, SettleDeadline, DrainDone, StoreHasNone, AddJob
<1>2. StaysWaiting(w)
  BY DEF StaysWaiting, WorkerExact, Unstarted, Start, LoopPoll, KickPoll, BeginShutdown,
         SettleDeadline, DrainDone, StoreHasNone, Calling, Answered, AddJob, HasRoom, TypeOK
<1>3. phase'[w] # phase[w] => phase'[w] # "new" /\ (phase'[w] = "running" => phase[w] = "new")
  BY DEF Start, LoopPoll, KickPoll, BeginShutdown, SettleDeadline, DrainDone, StoreHasNone,
         AddJob, TypeOK
<1>4. QED
  BY <1>1, <1>2, <1>3, SameSteady, SteadyExact

(* The steps that abort executions or move them on while registered.       *)
LEMMA MovingExact ==
    ASSUME TypeOK, NEW w \in Workers, WorkerExact(w),
           \/ \E u \in Workers : Stop(u) \/ DrainDeadline(u) \/ \E j \in Jobs : Cancel(u, j)
           \/ \E e \in Execs : \/ HandlerEnds(e) \/ Write(e) \/ CompleteThrows(e)
                               \/ ReleaseThrows(e) \/ HeartbeatExec(e)
           \/ \E j \in Jobs : Expire(j) \/ Stall(j) \/ Cleanup(j)
    PROVE  WorkerExact(w)'
<1>1. ASSUME NEW u \in Workers, Stop(u) \/ DrainDeadline(u) \/ \E j \in Jobs : Cancel(u, j)
      PROVE  WorkerExact(w)'
  <2>1. Steady
    BY <1>1, AbortSteady DEF Stop, DrainDeadline, Cancel
  <2>2. active'[w] \subseteq active[w]
    <3>1. CASE Stop(u)
      BY <3>1 DEF Stop, TypeOK
    <3>2. CASE DrainDeadline(u)
      BY <3>2 DEF DrainDeadline
    <3>3. ASSUME NEW j \in Jobs, Cancel(u, j)
          PROVE  active'[w] \subseteq active[w]
      BY <3>3 DEF Cancel, TypeOK
    <3>4. QED
      BY <1>1, <3>1, <3>2, <3>3
  <2>3. StaysWaiting(w) /\ count'[w] = count[w]
    BY <1>1 DEF StaysWaiting, Stop, DrainDeadline, Cancel
  <2>4. phase'[w] # phase[w] => phase'[w] \notin {"new", "running"}
    BY <1>1 DEF Stop, DrainDeadline, Cancel, TypeOK
  <2>5. QED
    BY <2>1, <2>2, <2>3, <2>4, SteadyExact
<1>2. ASSUME NEW e \in Execs,
             \/ HandlerEnds(e) \/ Write(e) \/ CompleteThrows(e)
             \/ ReleaseThrows(e) \/ HeartbeatExec(e)
      PROVE  Steady /\ UNCHANGED workerVars
  <2>1. CASE HeartbeatExec(e)
    BY <2>1, SameSteady DEF HeartbeatExec
  <2>2. ASSUME HandlerEnds(e) \/ Write(e) \/ CompleteThrows(e) \/ ReleaseThrows(e)
        PROVE  \E pc \in Registered : Goes(e, pc)
    BY <2>2 DEF HandlerEnds, HandlerReturns, HandlerThrows, HandlerThrowsAbort, AfterAbort,
                Write, StoreComplete, StoreFail, StoreRelease, StoreCancel, CompleteThrows,
                ReleaseThrows, Registered, Writing
  <2>3. ASSUME HandlerEnds(e) \/ Write(e) \/ CompleteThrows(e) \/ ReleaseThrows(e)
        PROVE  exec[e].pc \in Registered /\ UNCHANGED workerVars
    BY <2>3 DEF HandlerEnds, HandlerReturns, HandlerThrows, HandlerThrowsAbort,
                Write, StoreComplete, StoreFail, StoreRelease, StoreCancel, CompleteThrows,
                ReleaseThrows, Registered, Writing
  <2>4. QED
    BY <1>2, <2>1, <2>2, <2>3, GoesSteady DEF HeartbeatExec
<1>3. ASSUME NEW j \in Jobs, Expire(j) \/ Stall(j) \/ Cleanup(j)
      PROVE  Steady /\ UNCHANGED workerVars
  BY <1>3, SameSteady DEF Expire, Stall, RunsOut, Cleanup
<1>4. Steady /\ UNCHANGED workerVars => WorkerExact(w)'
  BY SteadyExact DEF workerVars, StaysWaiting
<1>5. QED
  BY <1>1, <1>2, <1>3, <1>4

(* A worker that dies takes its executions with it, and no others.         *)
LEMMA DiesExact ==
    ASSUME TypeOK, NEW w \in Workers, WorkerExact(w), NEW u \in Workers, Dies(u)
    PROVE  WorkerExact(w)'
<1> USE JobAssumption
<1>1. CASE w = u
  BY <1>1 DEF Dies, TypeOK, WorkerExact, Unstarted
<1>2. CASE w # u
  <2>1. RegisteredAt(w)' = RegisteredAt(w)
    BY <1>2 DEF RegisteredAt, Dies, NoExec, TypeOK
  <2>2. /\ phase'[w] = phase[w] /\ count'[w] = count[w] /\ active'[w] = active[w]
        /\ loop'[w] = loop[w] /\ calls'[w] = calls[w]
    BY <1>2 DEF Dies, TypeOK
  <2>3. Unstarted(w)'
    BY <2>2 DEF WorkerExact, Unstarted, Dies, NoExec
  <2>4. QED
    BY <2>1, <2>2, <2>3 DEF WorkerExact
<1>3. QED
  BY <1>1, <1>2

(* An acquisition gets an execution that nothing else uses.                *)
LEMMA AcquireExact ==
    ASSUME TypeOK, SnapshotsBehind, NEW w \in Workers, WorkerExact(w),
           NEW u \in Workers, NEW byLoop \in BOOLEAN, NEW j \in Jobs, StoreAcquire(u, byLoop, j)
    PROVE  WorkerExact(w)'
<1> DEFINE k == <<j, jobs[j].attempts + 1>>
<1>1. k \in Execs /\ exec[k].pc = "none"
  BY JobAssumption DEF StoreAcquire, TypeOK, JobRecords, Execs, SnapshotsBehind, JobOf
<1>2. /\ exec'[k].pc = "acquired" /\ exec'[k].worker = u
      /\ \A e \in Execs \ {k} : exec'[e] = exec[e]
  BY <1>1 DEF StoreAcquire, TypeOK
<1>3. RegisteredAt(w)' = RegisteredAt(w)
  BY <1>1, <1>2 DEF RegisteredAt, Registered, Writing
<1>4. UNCHANGED <<phase, count, active>>
  BY DEF StoreAcquire
<1>5. Unstarted(w)'
  <2>1. CASE w = u
    BY <2>1, <1>4 DEF WorkerExact, Unstarted, StoreAcquire, Calling, TypeOK
  <2>2. CASE w # u
    <3>1. calls'[w] = calls[w] /\ loop'[w] = loop[w]
      BY <2>2 DEF StoreAcquire, TypeOK
    <3>2. QED
      BY <1>1, <1>2, <1>4, <2>2, <3>1 DEF WorkerExact, Unstarted
  <2>3. QED
    BY <2>1, <2>2
<1>6. QED
  BY <1>3, <1>4, <1>5 DEF WorkerExact

(* Registering adds one execution and one to the count, and takes the      *)
(* place of the job's older controller.                                    *)
LEMMA RegisterExact ==
    ASSUME TypeOK, LiveHasWorker, NEW w \in Workers, WorkerExact(w),
           NEW e \in Execs, Register(e)
    PROVE  WorkerExact(w)'
<1> DEFINE u == exec[e].worker
<1>1. u \in Workers /\ exec[e].pc = "acquired"
  BY DEF Register, LiveHasWorker
<1>2. /\ exec'[e].pc = "handling" /\ exec'[e].worker = u
      /\ \A d \in Execs \ {e} : exec'[d] = exec[d]
  BY DEF Register, TypeOK
<1>3. CASE w = u
  <2>1. e \notin RegisteredAt(w) /\ RegisteredAt(w)' = RegisteredAt(w) \cup {e}
    BY <1>1, <1>2, <1>3 DEF RegisteredAt, Registered, Writing
  <2>2. Cardinality(RegisteredAt(w)') = Cardinality(RegisteredAt(w)) + 1
    BY <2>1, RegisteredFinite, FS_AddElement
  <2>3. /\ count'[w] = count[w] + 1 /\ phase' = phase
        /\ active'[w] = {d \in active[w] : JobOf(d) # JobOf(e)} \cup {e}
    BY <1>1, <1>3 DEF Register, TypeOK
  <2>4. phase[w] # "new"
    BY <1>1, <1>3 DEF WorkerExact, Unstarted
  <2>5. QED
    BY <2>1, <2>2, <2>3, <2>4 DEF WorkerExact, Unstarted
<1>4. CASE w # u
  <2>1. RegisteredAt(w)' = RegisteredAt(w)
    BY <1>1, <1>2, <1>4 DEF RegisteredAt, Registered, Writing
  <2>2. /\ count'[w] = count[w] /\ active'[w] = active[w] /\ loop'[w] = loop[w]
        /\ UNCHANGED <<phase, calls>>
    BY <1>1, <1>4 DEF Register, TypeOK
  <2>3. Unstarted(w)'
    BY <1>1, <1>2, <1>4, <2>2 DEF WorkerExact, Unstarted
  <2>4. QED
    BY <2>1, <2>2, <2>3 DEF WorkerExact
<1>5. QED
  BY <1>3, <1>4

(* Settling takes both back, and the job's controller out of the map.      *)
LEMMA SettleExact ==
    ASSUME TypeOK, LiveHasWorker, NEW w \in Workers, WorkerExact(w),
           NEW e \in Execs, Settle(e)
    PROVE  WorkerExact(w)'
<1> USE JobAssumption
<1> DEFINE u == exec[e].worker
<1>1. u \in Workers /\ exec[e].pc = "settling"
  BY DEF Settle, LiveHasWorker
<1>2. /\ exec'[e].pc = "none" /\ exec'[e].worker = Nobody
      /\ \A d \in Execs \ {e} : exec'[d] = exec[d]
  BY DEF Settle, TypeOK, NoExec
<1>3. CASE w = u
  <2>1. e \in RegisteredAt(w) /\ RegisteredAt(w)' = RegisteredAt(w) \ {e}
    BY <1>1, <1>2, <1>3 DEF RegisteredAt, Registered, Writing
  <2>2. Cardinality(RegisteredAt(w)') = Cardinality(RegisteredAt(w)) - 1
    BY <2>1, RegisteredFinite, FS_RemoveElement
  <2>3. /\ count'[w] = count[w] - 1 /\ phase' = phase
        /\ active'[w] = {d \in active[w] : JobOf(d) # JobOf(e)}
    BY <1>1, <1>3 DEF Settle, TypeOK
  <2>4. phase[w] # "new"
    BY <1>1, <1>3 DEF WorkerExact, Unstarted
  <2>5. QED
    BY <2>1, <2>2, <2>3, <2>4 DEF WorkerExact, Unstarted
<1>4. CASE w # u
  <2>1. RegisteredAt(w)' = RegisteredAt(w)
    BY <1>1, <1>2, <1>4 DEF RegisteredAt, Registered, Writing
  <2>2. /\ count'[w] = count[w] /\ active'[w] = active[w]
        /\ UNCHANGED <<phase, loop, calls>>
    BY <1>1, <1>4 DEF Settle, TypeOK
  <2>3. Unstarted(w)'
    BY <1>1, <1>2, <1>4, <2>2 DEF WorkerExact, Unstarted
  <2>4. QED
    BY <2>1, <2>2, <2>3 DEF WorkerExact
<1>5. QED
  BY <1>3, <1>4

(* A drain's forced release counts nothing exactly, but never while the    *)
(* worker runs.                                                            *)
LEMMA StragglerExact ==
    ASSUME TypeOK, NEW w \in Workers, WorkerExact(w),
           NEW u \in Workers, NEW j \in Jobs,
           ReleaseStraggler(u, j) \/ ForcedReleaseThrows(u, j)
    PROVE  WorkerExact(w)'
<1>1. RegisteredAt(w)' = RegisteredAt(w)
  BY DEF ReleaseStraggler, ForcedReleaseThrows, RegisteredAt
<1>2. active'[w] \subseteq active[w] /\ (w # u => count'[w] = count[w])
  <2>1. DropsStraggler(u, j)
    BY DEF ReleaseStraggler, ForcedReleaseThrows
  <2>2. QED
    BY <2>1 DEF DropsStraggler, TypeOK
<1>3. UNCHANGED <<exec, phase, loop, calls>> /\ phase[u] = "forcing"
  BY DEF ReleaseStraggler, ForcedReleaseThrows
<1>4. QED
  BY <1>1, <1>2, <1>3 DEF WorkerExact, Unstarted

(* Every step keeps a worker exact.                                        *)
LEMMA ExactStep ==
    ASSUME TypeOK, LiveHasWorker, SnapshotsBehind, [Next]_vars,
           NEW w \in Workers, WorkerExact(w)
    PROVE  WorkerExact(w)'
<1>1. ASSUME NEW u \in Workers, Start(u) \/ Poll(u) \/ Stop(u) \/ BeginShutdown(u) \/ Drain(u)
      PROVE  WorkerExact(w)'
  BY <1>1, QuietExact, MovingExact, AcquireExact, StragglerExact DEF Poll, StoreCalls, Drain
<1>2. ASSUME NEW u \in Workers, Crash(u)
      PROVE  WorkerExact(w)'
  BY <1>2, DiesExact DEF Crash
<1>3. ASSUME NEW u \in Workers, NEW p \in Priorities, Enqueue(u, p)
      PROVE  WorkerExact(w)'
  BY <1>3, QuietExact, JobAssumption DEF Enqueue
<1>4. ASSUME NEW u \in Workers, NEW j \in Jobs, Retry(u, j)
      PROVE  WorkerExact(w)'
  <2>1. jobs[j].priority + 1 \in Int
    BY DEF TypeOK, JobRecords
  <2>2. QED
    BY <1>4, <2>1, QuietExact DEF Retry
<1>5. ASSUME NEW u \in Workers, NEW j \in Jobs, Cancel(u, j)
      PROVE  WorkerExact(w)'
  BY <1>5, MovingExact
<1>6. ASSUME NEW e \in Execs,
             \/ Register(e) \/ Settle(e) \/ HandlerEnds(e) \/ Write(e)
             \/ CompleteThrows(e) \/ ReleaseThrows(e) \/ HeartbeatExec(e)
      PROVE  WorkerExact(w)'
  BY <1>6, RegisterExact, SettleExact, MovingExact
<1>7. ASSUME NEW e \in Execs, FailThrows(e)
      PROVE  WorkerExact(w)'
  BY <1>7, DiesExact DEF FailThrows, LiveHasWorker
<1>8. ASSUME NEW u \in Workers, NEW byLoop \in BOOLEAN, NEW j \in Jobs,
             AcquireThrows(u, byLoop, j)
      PROVE  WorkerExact(w)'
  BY <1>8, DiesExact DEF AcquireThrows
<1>9. ASSUME NEW j \in Jobs, Expire(j) \/ Stall(j) \/ Cleanup(j)
      PROVE  WorkerExact(w)'
  BY <1>9, MovingExact
<1>10. CASE UNCHANGED vars
  BY <1>10, SteadyExact, SameSteady DEF vars, StaysWaiting
<1>11. ASSUME NEW u \in Workers, NEW j \in Jobs, ForcedReleaseThrows(u, j)
       PROVE  WorkerExact(w)'
  BY <1>11, StragglerExact
<1>12. QED
  BY <1>1, <1>2, <1>3, <1>4, <1>5, <1>6, <1>7, <1>8, <1>9, <1>10, <1>11 DEF Next, Faulty

(* While a worker runs, activeWorkerCount is the number of executions that *)
(* were registered and have not settled, and the controller map holds only *)
(* live executions of its own worker, one a job: for every interleaving of *)
(* cancels, aborts, late registrations, settlements, drains, crashes and   *)
(* storage faults of any number of workers.                                *)
THEOREM WorkersCorrect == Spec => []WorkersExact
<1> DEFINE Exact == \A w \in Workers : WorkerExact(w)
<1>1. Init => SnapshotsBehind /\ Exact
  BY DEF Init, SnapshotsBehind, NoRecord, NoExec, WorkerExact, Unstarted
<1>2. TypeOK /\ LiveHasWorker /\ SnapshotsBehind /\ Exact /\ [Next]_vars => Exact'
  BY ExactStep
<1>3. Exact => WorkersExact
  BY DEF WorkersExact, WorkerExact
<1>4. QED
  BY <1>1, <1>2, <1>3, SnapshotsStep, BasicCorrect, PTL DEF Spec
============================================================================
