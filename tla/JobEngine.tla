----------------------------- MODULE JobEngine -----------------------------
(***************************************************************************)
(* The durable job engine: the JobEngine instances (one per process) of    *)
(* src/jobs/engine.ts over one shared job table.                           *)
(*                                                                         *)
(* Inside a process the event loop runs code between two awaits at once,   *)
(* so an action is what runs between awaits: a call of a storage operation *)
(* and its effect in the store are one step, what the caller does with the *)
(* answer is another.  Processes interleave freely.                        *)
(*                                                                         *)
(* acquireNextJob counts `attempts`, so the k-th acquisition of job j has  *)
(* an execution <<j, k>> of its own, and k is the attempts snapshot that   *)
(* executeJob holds.                                                       *)
(***************************************************************************)
EXTENDS JobStore, FiniteSets

CONSTANTS
    MaxJobs,      \* bound: jobs ever enqueued, numbered by createdAt
    MaxTries,     \* bound: acquisitions of one job
    MaxKicks,     \* bound: immediate polls one worker has scheduled
    MaxFaults,    \* bound: faults of the kinds in FaultKinds
    Workers,      \* JobEngine instances, one per process started
    Concurrency,  \* jobs a worker runs at once
    Priorities,   \* priorities jobs are enqueued with
    Immortal,     \* workers whose process never dies, stops or drains
    Drainable,    \* workers that are shut down with beginShutdown
    CancelFrom,   \* statuses in which operators cancel jobs
    FaultKinds    \* "throw": a storage operation throws; "stall": a live
                  \* worker's heartbeats or writes come too late

Jobs  == 1..MaxJobs
Execs == Jobs \X (1..MaxTries)

ASSUME JobAssumption ==
    /\ MaxJobs \in Nat /\ MaxTries \in Nat /\ MaxKicks \in Nat /\ MaxFaults \in Nat
    /\ MaxAttempts \in Nat \ {0} /\ Concurrency \in Nat \ {0}
    /\ Nobody \notin Workers
    /\ Priorities \subseteq Int
    /\ Immortal \subseteq Workers /\ Drainable \subseteq Workers \ Immortal
    /\ CancelFrom \subseteq Active \cup Finished
    /\ FaultKinds \subseteq {"throw", "stall"}

VARIABLES
    jobs,         \* the job table
    exec,         \* what each execution is doing, for which worker
    phase,        \* each worker's running and draining flags
    count,        \* activeWorkerCount
    active,       \* activeJobs: the executions whose controllers are in the map
    loop,         \* "polling" while pollLoop awaits acquireNextJob, "acquired"
                  \* once a job has been locked for it
    kicks,        \* pollNext calls setImmediate has yet to make
    calls,        \* pollNext calls of setImmediate awaiting acquireNextJob
    stragglers,   \* the ids beginShutdown has yet to release by force
    faults        \* faults so far

vars == <<jobs, exec, phase, count, active, loop, kicks, calls, stragglers, faults>>

workerVars == <<phase, count, active, loop, kicks, calls, stragglers>>

NoExec == [pc |-> "none", worker |-> Nobody, aborted |-> FALSE, byLoop |-> FALSE]

Writing    == {"completing", "failing", "releasing", "cancelling"}
Registered == {"handling", "settling"} \cup Writing
PCs        == {"none", "acquired"} \cup Registered
Phases     == {"new", "running", "draining", "aborting", "forcing", "stopped", "crashed"}

(* The `draining` flag; `running` is phase "running".                      *)
Draining(w) == phase[w] \in {"draining", "aborting", "forcing"}

HasRoom(w) == phase[w] = "running" /\ count[w] < Concurrency

JobOf(e) == e[1]
----------------------------------------------------------------------------
Init ==
    /\ jobs  = [j \in Jobs |-> NoRecord]
    /\ exec  = [e \in Execs |-> NoExec]
    /\ phase = [w \in Workers |-> "new"]
    /\ count = [w \in Workers |-> 0]
    /\ active = [w \in Workers |-> {}]
    /\ loop  = [w \in Workers |-> "waiting"]
    /\ kicks = [w \in Workers |-> 0]
    /\ calls = [w \in Workers |-> 0]
    /\ stragglers = [w \in Workers |-> {}]
    /\ faults = 0

Start(w) ==
    /\ phase[w] = "new"
    /\ phase' = [phase EXCEPT ![w] = "running"]
    /\ UNCHANGED <<jobs, exec, count, active, loop, kicks, calls, stragglers, faults>>

(* setImmediate(pollNext) when a slot is free.  Beyond MaxKicks the call   *)
(* is left out: a poll more of the same table.                             *)
Kicked(w, room) ==
    IF room /\ kicks[w] < MaxKicks THEN [kicks EXCEPT ![w] = @ + 1] ELSE kicks

(* enqueue() without deduplication or idempotency keys.                    *)
AddJob(w, p) ==
    /\ phase[w] # "crashed"
    /\ \E j \in Jobs :
          /\ jobs[j].status = "none"
          /\ \A i \in 1..(j - 1) : jobs[i].status # "none"
          /\ jobs' = [jobs EXCEPT ![j] = Enqueued(p)]
    /\ kicks' = Kicked(w, HasRoom(w))
    /\ UNCHANGED <<exec, phase, count, active, loop, calls, stragglers, faults>>

Enqueue(w, p) == AddJob(w, p)

(* retry(): a fresh job, one priority higher, for a finished one.          *)
Retry(w, j) ==
    /\ jobs[j].status \in {"dead_letter", "cancelled"}
    /\ AddJob(w, jobs[j].priority + 1)

(* controller.abort() for the executions in S.                             *)
Aborting(S) ==
    [e \in Execs |-> IF e \in S THEN [exec[e] EXCEPT !.aborted = TRUE] ELSE exec[e]]

(* BUG: cancel() gives the slot back, and so does the finally block.       *)
CancelFreesSlot(w, j) ==
    /\ phase[w] # "crashed"
    /\ jobs[j].status \in CancelFrom
    /\ exec' = Aborting({e \in active[w] : JobOf(e) = j})
    /\ active' = [active EXCEPT ![w] = {e \in @ : JobOf(e) # j}]
    /\ count' = [count EXCEPT ![w] = @ - Cardinality({e \in active[w] : JobOf(e) = j})]
    /\ jobs' = [jobs EXCEPT ![j] = Cancelled(@)]
    /\ UNCHANGED <<phase, loop, kicks, calls, stragglers, faults>>

(* cancel() on the worker an operator's request reaches: abort the local   *)
(* controller if the map has one, then cancel the record.                  *)
Cancel(w, j) ==
    /\ phase[w] # "crashed"
    /\ jobs[j].status \in CancelFrom
    /\ exec' = Aborting({e \in active[w] : JobOf(e) = j})
    /\ active' = [active EXCEPT ![w] = {e \in @ : JobOf(e) # j}]
    /\ jobs' = [jobs EXCEPT ![j] = Cancelled(@)]
    /\ UNCHANGED <<phase, count, loop, kicks, calls, stragglers, faults>>
----------------------------------------------------------------------------
(* Polling.  pollLoop's timer, or its next turn, calls pollNext; so does   *)
(* each setImmediate.  The concurrency test is made before the await.      *)
LoopPoll(w) ==
    /\ loop[w] = "waiting"
    /\ HasRoom(w)
    /\ loop' = [loop EXCEPT ![w] = "polling"]
    /\ UNCHANGED <<jobs, exec, phase, count, active, kicks, calls, stragglers, faults>>

KickPoll(w) ==
    /\ kicks[w] > 0
    /\ kicks' = [kicks EXCEPT ![w] = @ - 1]
    /\ calls' = IF HasRoom(w) THEN [calls EXCEPT ![w] = @ + 1] ELSE calls
    /\ UNCHANGED <<jobs, exec, phase, count, active, loop, stragglers, faults>>

Calling(w, byLoop) == IF byLoop THEN loop[w] = "polling" ELSE calls[w] > 0

(* BUG: an answer to pollLoop is counted as one to a setImmediate call.    *)
AnsweredWrongCall(w, byLoop) ==
    /\ loop'  = IF byLoop THEN [loop EXCEPT ![w] = "waiting"] ELSE loop
    /\ calls' = [calls EXCEPT ![w] = @ - 1]

(* The pollNext call is over: pollLoop waits again, or the call is gone.   *)
Answered(w, byLoop) ==
    /\ loop'  = IF byLoop THEN [loop EXCEPT ![w] = "waiting"] ELSE loop
    /\ calls' = IF byLoop THEN calls ELSE [calls EXCEPT ![w] = @ - 1]

(* acquireNextJob picks and locks a job: the poll that made the call makes *)
(* no other.                                                               *)
StoreAcquire(w, byLoop, j) ==
    /\ Calling(w, byLoop)
    /\ IsChosen(jobs, j)
    /\ jobs[j].attempts < MaxTries
    /\ jobs' = [jobs EXCEPT ![j] = Acquired(@, w)]
    /\ exec' = [exec EXCEPT ![<<j, jobs[j].attempts + 1>>] =
                   [pc |-> "acquired", worker |-> w, aborted |-> FALSE, byLoop |-> byLoop]]
    /\ loop'  = IF byLoop THEN [loop EXCEPT ![w] = "acquired"] ELSE loop
    /\ calls' = IF byLoop THEN calls ELSE [calls EXCEPT ![w] = @ - 1]
    /\ UNCHANGED <<phase, count, active, kicks, stragglers, faults>>

StoreHasNone(w, byLoop) ==
    /\ Calling(w, byLoop)
    /\ \A j \in Jobs : ~ IsCandidate(jobs[j])
    /\ Answered(w, byLoop)
    /\ UNCHANGED <<jobs, exec, phase, count, active, kicks, stragglers, faults>>

(* pollNext resumes with its job.  `running` is not tested again.          *)
Register(e) ==
    LET w == exec[e].worker IN
    /\ exec[e].pc = "acquired"
    /\ exec' = [exec EXCEPT ![e] =
                   [pc |-> "handling", worker |-> w, aborted |-> FALSE, byLoop |-> FALSE]]
    /\ count' = [count EXCEPT ![w] = @ + 1]
    /\ active' = [active EXCEPT ![w] = {d \in @ : JobOf(d) # JobOf(e)} \cup {e}]
    /\ loop' = IF exec[e].byLoop THEN [loop EXCEPT ![w] = "waiting"] ELSE loop
    /\ UNCHANGED <<jobs, phase, kicks, calls, stragglers, faults>>
----------------------------------------------------------------------------
(* executeJob.  Jobs are acquired by registered type, so the "no handler"  *)
(* branch is left out.                                                     *)
Goes(e, pc) == exec' = [exec EXCEPT ![e].pc = pc]

(* The catch block with the signal aborted: released when draining, and    *)
(* otherwise left as it is.                                                *)
AfterAbort(e) == IF Draining(exec[e].worker) THEN "releasing" ELSE "settling"

(* BUG: the signal is not tested after the handler returned.               *)
HandlerReturnsAnyway(e) ==
    /\ exec[e].pc = "handling"
    /\ Goes(e, "completing")
    /\ UNCHANGED <<jobs, workerVars, faults>>

HandlerReturns(e) ==
    /\ exec[e].pc = "handling"
    /\ Goes(e, IF exec[e].aborted THEN "settling" ELSE "completing")
    /\ UNCHANGED <<jobs, workerVars, faults>>

(* BUG: the catch block does not test the signal first.                    *)
HandlerThrowsAnyway(e) ==
    /\ exec[e].pc = "handling"
    /\ Goes(e, "failing")
    /\ UNCHANGED <<jobs, workerVars, faults>>

HandlerThrows(e) ==
    /\ exec[e].pc = "handling"
    /\ Goes(e, IF exec[e].aborted THEN AfterAbort(e) ELSE "failing")
    /\ UNCHANGED <<jobs, workerVars, faults>>

(* An error that reads as a cancellation, from an unaborted handler.       *)
HandlerThrowsAbort(e) ==
    /\ exec[e].pc = "handling"
    /\ ~ exec[e].aborted
    /\ Goes(e, "cancelling")
    /\ UNCHANGED <<jobs, workerVars, faults>>

(* A heartbeat that matters: the timer's, which stops at an abort, or the  *)
(* handler's own, which does not.                                          *)
HeartbeatExec(e) ==
    /\ exec[e].pc \in Registered
    /\ exec[e].aborted => exec[e].pc = "handling"
    /\ jobs[JobOf(e)].lease = "expired"
    /\ jobs' = [jobs EXCEPT ![JobOf(e)] = HeartBeaten(@, exec[e].worker)]
    /\ UNCHANGED <<exec, workerVars, faults>>

StoreComplete(e) ==
    /\ exec[e].pc = "completing"
    /\ jobs' = [jobs EXCEPT ![JobOf(e)] = Completed(@, exec[e].worker)]
    /\ Goes(e, "settling")
    /\ UNCHANGED <<workerVars, faults>>

CanRetry(e) == e[2] < MaxAttempts

StoreFail(e) ==
    /\ exec[e].pc = "failing"
    /\ jobs' = [jobs EXCEPT ![JobOf(e)] = Failed(@, CanRetry(e))]
    /\ Goes(e, "settling")
    /\ UNCHANGED <<workerVars, faults>>

StoreRelease(e) ==
    /\ exec[e].pc = "releasing"
    /\ jobs' = [jobs EXCEPT ![JobOf(e)] = Failed(@, TRUE)]
    /\ Goes(e, "settling")
    /\ UNCHANGED <<workerVars, faults>>

StoreCancel(e) ==
    /\ exec[e].pc = "cancelling"
    /\ jobs' = [jobs EXCEPT ![JobOf(e)] = Cancelled(@)]
    /\ Goes(e, "settling")
    /\ UNCHANGED <<workerVars, faults>>

(* BUG: the finally block leaves the controller in the map.                *)
SettleKeepsController(e) ==
    LET w == exec[e].worker IN
    /\ exec[e].pc = "settling"
    /\ exec' = [exec EXCEPT ![e] = NoExec]
    /\ count' = [count EXCEPT ![w] = @ - 1]
    /\ kicks' = Kicked(w, phase[w] = "running" /\ count[w] - 1 < Concurrency)
    /\ UNCHANGED <<jobs, phase, active, loop, calls, stragglers, faults>>

(* The finally block of pollNext; it deletes by job id.                    *)
Settle(e) ==
    LET w == exec[e].worker IN
    /\ exec[e].pc = "settling"
    /\ exec' = [exec EXCEPT ![e] = NoExec]
    /\ active' = [active EXCEPT ![w] = {d \in @ : JobOf(d) # JobOf(e)}]
    /\ count' = [count EXCEPT ![w] = @ - 1]
    /\ kicks' = Kicked(w, phase[w] = "running" /\ count[w] - 1 < Concurrency)
    /\ UNCHANGED <<jobs, phase, loop, calls, stragglers, faults>>
----------------------------------------------------------------------------
(* Shutdown.                                                               *)
(* server.ts drains or stops, as SHUTDOWN_DRAIN_JOBS says.                 *)
Stop(w) ==
    /\ phase[w] = "running" /\ w \notin Immortal \cup Drainable
    /\ phase' = [phase EXCEPT ![w] = "stopped"]
    /\ exec' = Aborting(active[w])
    /\ active' = [active EXCEPT ![w] = {}]
    /\ UNCHANGED <<jobs, count, loop, kicks, calls, stragglers, faults>>

BeginShutdown(w) ==
    /\ phase[w] = "running" /\ w \in Drainable
    /\ phase' = [phase EXCEPT ![w] = "draining"]
    /\ UNCHANGED <<jobs, exec, count, active, loop, kicks, calls, stragglers, faults>>

DrainDeadline(w) ==
    /\ phase[w] = "draining" /\ active[w] # {}
    /\ phase' = [phase EXCEPT ![w] = "aborting"]
    /\ exec' = Aborting(active[w])
    /\ UNCHANGED <<jobs, count, active, loop, kicks, calls, stragglers, faults>>

(* The handlers had their moment: what is still in the map is listed once. *)
SettleDeadline(w) ==
    /\ phase[w] = "aborting" /\ active[w] # {}
    /\ phase' = [phase EXCEPT ![w] = "forcing"]
    /\ stragglers' = [stragglers EXCEPT ![w] = {JobOf(e) : e \in active[w]}]
    /\ UNCHANGED <<jobs, exec, count, active, loop, kicks, calls, faults>>

DropsStraggler(w, j) ==
    /\ stragglers' = [stragglers EXCEPT ![w] = @ \ {j}]
    /\ active' = [active EXCEPT ![w] = {e \in @ : JobOf(e) # j}]
    /\ count' = [count EXCEPT ![w] = IF @ > 0 THEN @ - 1 ELSE 0]

ReleaseStraggler(w, j) ==
    /\ phase[w] = "forcing" /\ j \in stragglers[w]
    /\ jobs' = [jobs EXCEPT ![j] = Failed(@, TRUE)]
    /\ DropsStraggler(w, j)
    /\ UNCHANGED <<exec, phase, loop, kicks, calls, faults>>

DrainDone(w) ==
    /\ \/ phase[w] \in {"draining", "aborting"} /\ active[w] = {}
       \/ phase[w] = "forcing" /\ stragglers[w] = {}
    /\ phase' = [phase EXCEPT ![w] = "stopped"]
    /\ UNCHANGED <<jobs, exec, count, active, loop, kicks, calls, stragglers, faults>>
----------------------------------------------------------------------------
(* Failures.                                                               *)

(* The process ends: nothing of the instance is left but its locks.        *)
Dies(w) ==
    /\ w \notin Immortal
    /\ phase' = [phase EXCEPT ![w] = "crashed"]
    /\ exec' = [e \in Execs |-> IF exec[e].worker = w
                                THEN NoExec ELSE exec[e]]
    /\ count' = [count EXCEPT ![w] = 0]
    /\ active' = [active EXCEPT ![w] = {}]
    /\ loop' = [loop EXCEPT ![w] = "waiting"]
    /\ kicks' = [kicks EXCEPT ![w] = 0]
    /\ calls' = [calls EXCEPT ![w] = 0]
    /\ stragglers' = [stragglers EXCEPT ![w] = {}]

Crash(w) ==
    /\ phase[w] \notin {"new", "crashed"}
    /\ Dies(w)
    /\ UNCHANGED <<jobs, faults>>

Fault(kind) ==
    /\ kind \in FaultKinds
    /\ faults < MaxFaults
    /\ faults' = faults + 1

(* A storage operation throws, its effect lost or, when the record was     *)
(* changed before persist() or the connection failed, in place.            *)
Throws(jobs2) ==
    /\ Fault("throw")
    /\ jobs' \in {jobs, jobs2}

(* pollNext has no catch: the rejection is unhandled and Node exits.       *)
AcquireThrows(w, byLoop, j) ==
    /\ Calling(w, byLoop)
    /\ IsChosen(jobs, j)
    /\ jobs[j].attempts < MaxTries
    /\ Throws([jobs EXCEPT ![j] = Acquired(@, w)])
    /\ Dies(w)

(* completeJob throws inside the try block: the catch block takes it for   *)
(* the handler's error.                                                    *)
CompleteThrows(e) ==
    /\ exec[e].pc = "completing"
    /\ Throws([jobs EXCEPT ![JobOf(e)] = Completed(@, exec[e].worker)])
    /\ Goes(e, IF exec[e].aborted THEN AfterAbort(e) ELSE "failing")
    /\ UNCHANGED workerVars

(* failJob or cancelJob throws inside the catch block: unhandled.          *)
FailThrows(e) ==
    /\ exec[e].pc \in {"failing", "cancelling"}
    /\ Throws([jobs EXCEPT ![JobOf(e)] =
                  IF exec[e].pc = "failing" THEN Failed(@, CanRetry(e)) ELSE Cancelled(@)])
    /\ Dies(exec[e].worker)

(* The release of an aborted job throws: the rejection is swallowed, here  *)
(* and in beginShutdown.                                                   *)
ReleaseThrows(e) ==
    /\ exec[e].pc = "releasing"
    /\ Throws([jobs EXCEPT ![JobOf(e)] = Failed(@, TRUE)])
    /\ Goes(e, "settling")
    /\ UNCHANGED workerVars

ForcedReleaseThrows(w, j) ==
    /\ phase[w] = "forcing" /\ j \in stragglers[w]
    /\ Throws([jobs EXCEPT ![j] = Failed(@, TRUE)])
    /\ DropsStraggler(w, j)
    /\ UNCHANGED <<exec, phase, loop, kicks, calls>>

(* An execution that keeps its lease: a live handler beats every third of  *)
(* the lease; a write, or the two seconds a drain leaves an aborted        *)
(* handler, end well within what is left of it.                            *)
Keeps(e) ==
    LET x == exec[e] IN
    /\ x.worker = jobs[JobOf(e)].lockedBy
    /\ x.pc \in Registered \cup {"acquired"}
    /\ x.pc = "handling" /\ x.aborted => Draining(x.worker)

IsKept(j) == \E e \in Execs : JobOf(e) = j /\ Keeps(e)

RunsOut(j) ==
    /\ jobs[j].lease = "valid"
    /\ jobs' = [jobs EXCEPT ![j].lease = "expired"]
    /\ UNCHANGED <<exec, workerVars>>

Expire(j) == ~ IsKept(j) /\ RunsOut(j) /\ UNCHANGED faults

(* The event loop or the store was stuck for a whole lease.                *)
Stall(j) == IsKept(j) /\ RunsOut(j) /\ Fault("stall")

(* cleanupJobs, days after the job finished.                               *)
Cleanup(j) ==
    /\ jobs[j].status \in Finished
    /\ \A e \in Execs : JobOf(e) = j => exec[e].pc = "none"
    /\ \A w \in Workers : j \notin stragglers[w]
    /\ jobs' = [jobs EXCEPT ![j] = Removed(@)]
    /\ UNCHANGED <<exec, workerVars, faults>>
----------------------------------------------------------------------------
StoreCalls(w) ==
    \E byLoop \in BOOLEAN :
        \/ \E j \in Jobs : StoreAcquire(w, byLoop, j)
        \/ StoreHasNone(w, byLoop)

Poll(w) == LoopPoll(w) \/ KickPoll(w) \/ StoreCalls(w)

HandlerEnds(e) == HandlerReturns(e) \/ HandlerThrows(e) \/ HandlerThrowsAbort(e)

Write(e) == StoreComplete(e) \/ StoreFail(e) \/ StoreRelease(e) \/ StoreCancel(e)

Drain(w) ==
    \/ DrainDeadline(w) \/ SettleDeadline(w) \/ DrainDone(w)
    \/ \E j \in Jobs : ReleaseStraggler(w, j)

Faulty ==
    \/ \E w \in Workers, byLoop \in BOOLEAN, j \in Jobs : AcquireThrows(w, byLoop, j)
    \/ \E w \in Workers, j \in Jobs : ForcedReleaseThrows(w, j)
    \/ \E e \in Execs : CompleteThrows(e) \/ FailThrows(e) \/ ReleaseThrows(e)
    \/ \E j \in Jobs : Stall(j)

Next ==
    \/ \E w \in Workers : Start(w) \/ Poll(w) \/ Stop(w) \/ BeginShutdown(w)
                              \/ Drain(w) \/ Crash(w)
    \/ \E w \in Workers, p \in Priorities : Enqueue(w, p)
    \/ \E w \in Workers, j \in Jobs : Retry(w, j) \/ Cancel(w, j)
    \/ \E e \in Execs : Register(e) \/ HandlerEnds(e) \/ HeartbeatExec(e)
                              \/ Write(e) \/ Settle(e)
    \/ \E j \in Jobs : Expire(j) \/ Cleanup(j)
    \/ Faulty

Spec == Init /\ [][Next]_vars

(* Timers fire, storage answers, and handlers end: the tracer's span and   *)
(* the engine put no time limit on a handler, its callers do.  A worker    *)
(* that exists is started.  Nothing makes operators, crashes or faults     *)
(* happen.                                                                 *)
Fairness ==
    /\ \A w \in Workers : WF_vars(Start(w)) /\ WF_vars(LoopPoll(w))
                          /\ WF_vars(StoreCalls(w)) /\ WF_vars(Drain(w))
    /\ \A e \in Execs : WF_vars(Register(e)) /\ WF_vars(HandlerEnds(e))
                        /\ WF_vars(Write(e)) /\ WF_vars(Settle(e))
    /\ \A j \in Jobs : WF_vars(Expire(j))

FairSpec == Spec /\ Fairness
----------------------------------------------------------------------------
JobRecords == [status : Statuses, lockedBy : Workers \cup {Nobody}, lease : Leases,
               attempts : 0..MaxTries, priority : Int]

ExecRecords == [pc : PCs, worker : Workers \cup {Nobody},
                aborted : BOOLEAN, byLoop : BOOLEAN]

(* Every variable has its type.                                            *)
TypeOK ==
    /\ jobs \in [Jobs -> JobRecords]
    /\ exec \in [Execs -> ExecRecords]
    /\ phase \in [Workers -> Phases]
    /\ count \in [Workers -> Int]
    /\ active \in [Workers -> SUBSET Execs]
    /\ loop \in [Workers -> {"waiting", "polling", "acquired"}]
    /\ kicks \in [Workers -> 0..MaxKicks]
    /\ calls \in [Workers -> Nat]
    /\ stragglers \in [Workers -> SUBSET Jobs]
    /\ faults \in 0..MaxFaults

(* A record is locked, with a lease that can expire, exactly while it is   *)
(* running: whoever wrote it last, no job is stuck in `running` with a     *)
(* lease nothing can reclaim, and no queued or finished job keeps a lock   *)
(* that would let a former owner's heartbeat or completion in.             *)
LeaseConsistent ==
    \A j \in Jobs :
        /\ jobs[j].status = "running" <=> jobs[j].lockedBy # Nobody
        /\ jobs[j].status = "running" <=> jobs[j].lease # "none"

(* The retry budget survives stale attempts snapshots, forced releases and *)
(* reclaimed leases: a job waits in the queue only with attempts left and  *)
(* is dead-lettered only once it has used them all (failJob, executeJob).  *)
RetryBudget ==
    \A j \in Jobs :
        /\ jobs[j].status = "queued" => jobs[j].attempts < MaxAttempts
        /\ jobs[j].status = "dead_letter" => jobs[j].attempts >= MaxAttempts

RegisteredAt(w) == {e \in Execs : exec[e].worker = w /\ exec[e].pc \in Registered}

(* While a worker runs, activeWorkerCount is the number of executions that *)
(* were registered and have not settled: no slot leaks, none is given back *)
(* twice, whatever order cancels, aborts and finally blocks come in.  The  *)
(* controller map holds only live executions of its own worker, one a job: *)
(* an operator's cancel or a drain never aborts a run that is over.        *)
WorkersExact ==
    \A w \in Workers :
        /\ phase[w] = "running" => count[w] = Cardinality(RegisteredAt(w))
        /\ active[w] \subseteq RegisteredAt(w)
        /\ \A d, e \in active[w] : JobOf(d) = JobOf(e) => d = e

Working(e) == exec[e].pc = "handling" /\ ~ exec[e].aborted

(* No two handlers work on the same job at once, across workers, crashes,  *)
(* reclaimed leases, cancellations and storage faults (acquireNextJob,     *)
(* heartbeats, failJob).                                                   *)
ExclusiveExecution ==
    \A d, e \in Execs : Working(d) /\ Working(e) /\ JobOf(d) = JobOf(e) => d = e

(* A handler that has not been told to stop works on a job its worker      *)
(* still holds the lock of, and on that lock's own attempt.                *)
OwnerRuns ==
    \A e \in Execs :
        Working(e) => /\ jobs[JobOf(e)].lockedBy = exec[e].worker
                      /\ jobs[JobOf(e)].attempts = e[2]

(* The engine keeps the life cycle the queue promises: every step of every *)
(* worker is a move of JobLifecycle or leaves the record's status alone.   *)
Lifecycle == INSTANCE JobLifecycle
                 WITH state <- [j \in Jobs |-> jobs[j].status],
                      tries <- [j \in Jobs |-> jobs[j].attempts]

KeepsLifecycle == Lifecycle!Spec

(* Every enqueued job ends, whatever workers crash, stop or drain.         *)
JobSettles == \A j \in Jobs : jobs[j].status \in Active ~> jobs[j].status \in Finished
=============================================================================
