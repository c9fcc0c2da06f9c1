------------------------------- MODULE Shutdown -------------------------------
(***************************************************************************)
(* Graceful shutdown of one replica: src/lifecycle/shutdown.ts and the     *)
(* phases src/server.ts registers.  A phase that times out is left running *)
(* and the next one begins; a phase without a cap of its own may use all   *)
(* that remains of the grace period, and then the rest is skipped.         *)
(***************************************************************************)
EXTENDS Integers, Sequences, FiniteSets

CONSTANTS
    Clients,       \* requests the replica may serve
    Leases,        \* jobs it may hold a lease on
    DrainsJobs,    \* cfg.shutdownDrainJobs
    Grace,         \* terminationGracePeriodMs, in ticks
    DrainTime,     \* 0.6 of it: the stragglers' leases are released
    DrainCap,      \* 0.7 of it: the cap of the phase
    MaxClock       \* bound: ticks

ASSUME DownAssumption ==
    Grace \in Nat /\ DrainTime \in Nat /\ DrainCap \in Nat /\ MaxClock \in Nat

VARIABLES
    procState,   \* "running", "shutting_down", "completed", "killed"
    signals,     \* signals received
    elapsed,     \* Date.now() - startedAt
    phase,       \* index in Phases of the phase at hand
    phaseCap,    \* when its timer fires; 0 before it is started
    results,     \* phase name -> "none", "ok", "threw", "timed_out", "skipped"
    open,        \* what still works
    client,      \* each request: "idle", "queued", "running", "done"
    lease,       \* job -> "none"; "asked", an acquireNextJob() is in flight; "granted",
                 \* it is leased and not in activeJobs yet; "active"; "kept" after its end
    late         \* history: jobs "asked" or "granted" when the engine stopped

downVars == <<procState, signals, elapsed, phase, phaseCap, results, open, client, lease, late>>

(* BUG: storage is closed before the listener.                             *)
PhasesSwapped == <<"schedulers", "drain", "abort", "bus", "cache", "storage", "http", "egress">>

Phases == <<"schedulers", "drain", "abort", "http", "bus", "cache", "storage", "egress">>

Resources == {"schedulers", "engine", "http", "bus", "cache", "storage", "egress"}
InFlight == {c \in Clients : client[c] \in {"queued", "running"}}

DownInit ==
    /\ procState = "running" /\ signals = 0 /\ elapsed = 0 /\ phase = 1 /\ phaseCap = 0
    /\ results = [p \in {Phases[i] : i \in DOMAIN Phases} |-> "none"]
    /\ open = Resources
    /\ client = [c \in Clients |-> "idle"]
    /\ lease = [j \in Leases |-> "none"] /\ late = {}
----------------------------------------------------------------------------
(* onSignal().  The handlers are installed once: the same signal again is  *)
(* the default kill, the other one exits with 130.                         *)
Signal ==
    /\ procState \in {"running", "shutting_down"} /\ signals < 2
    /\ signals' = signals + 1
    /\ procState' = IF signals = 0 THEN "shutting_down" ELSE "killed"
    /\ UNCHANGED <<elapsed, phase, phaseCap, results, open, client, lease, late>>

ClockTicks ==
    /\ procState = "shutting_down" /\ elapsed < MaxClock
    /\ elapsed' = elapsed + 1
    /\ UNCHANGED <<procState, signals, phase, phaseCap, results, open, client, lease, late>>

Settle(how) ==
    /\ results' = [results EXCEPT ![Phases[phase]] = how]
    /\ phase' = phase + 1 /\ phaseCap' = 0

(* BUG: the remaining time is not looked at.                               *)
StartingLate(name) == procState = "shutting_down" /\ phase <= Len(Phases)
                        /\ Phases[phase] = name /\ phaseCap = 0

Starting(name) == procState = "shutting_down" /\ phase <= Len(Phases)
                    /\ Phases[phase] = name /\ phaseCap = 0 /\ elapsed < Grace
Working(name) == procState = "shutting_down" /\ phase <= Len(Phases)
                    /\ Phases[phase] = name /\ phaseCap > 0

(* The run() of a phase: what it does before its first await.              *)
BeginPhase(name, cap) ==
    /\ Starting(name)
    /\ phaseCap' = IF elapsed + cap < Grace THEN elapsed + cap ELSE Grace
    /\ UNCHANGED <<procState, signals, elapsed, phase, results>>

SkipPhase ==
    /\ procState = "shutting_down" /\ phase <= Len(Phases)
    /\ phaseCap = 0 /\ elapsed >= Grace
    /\ Settle("skipped")
    /\ UNCHANGED <<procState, signals, elapsed, open, client, lease, late>>

StopSchedulers == Starting("schedulers") /\ Settle("ok") /\ open' = open \ {"schedulers"}
                    /\ UNCHANGED <<procState, signals, elapsed, client, lease, late>>

InActiveJobs == {j \in Leases : lease[j] = "active"}

(* beginShutdown(), or stop(), which aborts the jobs and waits for none.   *)
(* An acquireNextJob() in flight is not called back.                       *)
StopEngine ==
    /\ open' = open \ {"engine"} /\ UNCHANGED <<client, lease>>
    /\ late' = {j \in Leases : lease[j] \in {"asked", "granted"}}

BeginDrain ==
    /\ StopEngine
    /\ IF DrainsJobs THEN BeginPhase("drain", DrainCap)
       ELSE Starting("drain") /\ Settle("ok") /\ UNCHANGED <<procState, signals, elapsed>>

(* The drain ends when no job is active, or releases those that are; a     *)
(* release that throws is swallowed and the lease stays.                   *)
DrainEnds ==
    /\ Working("drain") /\ (InActiveJobs = {} \/ elapsed >= DrainTime)
    /\ \E failed \in SUBSET InActiveJobs :
          lease' = [j \in Leases |-> IF j \in failed THEN "kept"
                                    ELSE IF j \in InActiveJobs THEN "none" ELSE lease[j]]
    /\ Settle("ok")
    /\ UNCHANGED <<procState, signals, elapsed, open, client, late>>

(* abortAllQueued(): waiters of every pool are rejected.                   *)
AbortWaiters ==
    /\ Starting("abort") /\ Settle("ok")
    /\ client' = [c \in Clients |-> IF client[c] = "queued" THEN "done" ELSE client[c]]
    /\ UNCHANGED <<procState, signals, elapsed, open, lease, late>>

(* server.stop() takes no more connections and waits for the requests.     *)
BeginHttpClose == BeginPhase("http", Grace) /\ open' = open \ {"http"}
                    /\ UNCHANGED <<client, lease, late>>

HttpClosed ==
    /\ Working("http") /\ InFlight = {}
    /\ Settle("ok") /\ UNCHANGED <<procState, signals, elapsed, open, client, lease, late>>

BeginClose(name) == BeginPhase(name, Grace) /\ open' = open \ {name} /\ UNCHANGED <<client, lease, late>>

DependencyClosed ==
    /\ \E name \in {"bus", "cache", "storage", "egress"} : Working(name)
    /\ Settle("ok") /\ UNCHANGED <<procState, signals, elapsed, open, client, lease, late>>

(* run() rejects: the error is recorded and the next phase begins.         *)
PhaseThrows ==
    /\ \E name \in {"drain", "http", "bus", "cache", "storage", "egress"} : Working(name)
    /\ Settle("threw") /\ UNCHANGED <<procState, signals, elapsed, open, client, lease, late>>

(* withTimeout(): the phase keeps running behind the next ones.            *)
PhaseTimesOut ==
    /\ phaseCap > 0 /\ procState = "shutting_down" /\ elapsed >= phaseCap
    /\ Settle("timed_out") /\ UNCHANGED <<procState, signals, elapsed, open, client, lease, late>>

Completes ==
    /\ procState = "shutting_down" /\ phase > Len(Phases)
    /\ procState' = "completed"
    /\ UNCHANGED <<signals, elapsed, phase, phaseCap, results, open, client, lease, late>>
----------------------------------------------------------------------------
(* The onRequest hook: only probes and metrics are served once shutdown    *)
(* has begun, whether or not the request is a probe is the client's.       *)
Alive == procState \in {"running", "shutting_down"}

ClientAsks ==
    /\ Alive /\ "http" \in open
    /\ \E c \in Clients, probe \in BOOLEAN :
          /\ client[c] = "idle"
          /\ client' = [client EXCEPT ![c] =
                IF probe \/ procState = "running" THEN "running" ELSE "done"]
    /\ UNCHANGED <<procState, signals, elapsed, phase, phaseCap, results, open, lease, late>>

(* A request waits for a slot of a pool, gets it, or ends.                 *)
ClientSteps ==
    /\ Alive
    /\ \E c \in InFlight, to \in {"queued", "running", "done"} :
          to # client[c] /\ client' = [client EXCEPT ![c] = to]
    /\ UNCHANGED <<procState, signals, elapsed, phase, phaseCap, results, open, lease, late>>

JobMoves(j, from, to) ==
    /\ Alive /\ lease[j] = from /\ lease' = [lease EXCEPT ![j] = to]
    /\ UNCHANGED <<procState, signals, elapsed, phase, phaseCap, results, open, client, late>>

(* pollNext(): asks the store while the engine runs, and enters what it    *)
(* gets among the active jobs whether or not it still does.                *)
PollAsks(j) == "engine" \in open /\ JobMoves(j, "none", "asked")
PollGetsNone(j) == JobMoves(j, "asked", "none")
StoreGrants(j) == JobMoves(j, "asked", "granted")
PollEnters(j) == JobMoves(j, "granted", "active")

(* executeJob() ends: its record is written and the lease is gone, or the  *)
(* write fails, or stop() aborted it and nothing is written.               *)
JobEnds(j) == JobMoves(j, "active", "none") \/ JobMoves(j, "active", "kept")
LeaseRunsOut(j) == JobMoves(j, "kept", "none")

DownNext ==
    \/ Signal \/ ClockTicks \/ SkipPhase \/ StopSchedulers \/ BeginDrain \/ DrainEnds
    \/ AbortWaiters \/ BeginHttpClose \/ HttpClosed
    \/ (\E name \in {"bus", "cache", "storage", "egress"} : BeginClose(name))
    \/ DependencyClosed \/ PhaseThrows \/ PhaseTimesOut \/ Completes
    \/ ClientAsks \/ ClientSteps
    \/ \E j \in Leases : \/ PollAsks(j) \/ PollGetsNone(j) \/ StoreGrants(j) \/ PollEnters(j)
                        \/ JobEnds(j) \/ LeaseRunsOut(j)

DownSpec == DownInit /\ [][DownNext]_downVars
----------------------------------------------------------------------------
DownTypeOK ==
    /\ procState \in {"running", "shutting_down", "completed", "killed"}
    /\ signals \in 0..2 /\ elapsed \in 0..MaxClock
    /\ phase \in 1..(Len(Phases) + 1) /\ phaseCap \in 0..Grace
    /\ results \in [{Phases[i] : i \in DOMAIN Phases} ->
                      {"none", "ok", "threw", "timed_out", "skipped"}]
    /\ open \subseteq Resources /\ late \subseteq Leases
    /\ lease \in [Leases -> {"none", "asked", "granted", "active", "kept"}]
    /\ client \in [Clients -> {"idle", "queued", "running", "done"}]

(* However the phases' timers, failures and the work in hand fall, storage *)
(* is closed under a live request only if closing the listener threw, and  *)
(* under a job this replica runs, or is about to, only if the drain was    *)
(* cut or switched off or the job was being acquired as the engine         *)
(* stopped: the listener's time-out takes the rest of the grace period     *)
(* with it.  A "kept" lease, whose job is over, runs out by itself.        *)
StorageOutlivesWork ==
    procState = "shutting_down" /\ "storage" \notin open =>
        /\ InFlight # {} => results["http"] = "threw"
        /\ \A j \in Leases : lease[j] \in {"granted", "active"} =>
              results["drain"] \in {"threw", "timed_out"} \/ ~DrainsJobs \/ j \in late

(* src/jobs/engine.ts:225: "stop accepting new work, let in-flight jobs    *)
(* finish within `drainMs`, then abort stragglers": no job is active once  *)
(* the drain has ended well.                                               *)
DrainLeavesNone == DrainsJobs /\ results["drain"] = "ok" => InActiveJobs = {}
=============================================================================
