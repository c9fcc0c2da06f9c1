--------------------------- MODULE ScheduledWork ---------------------------
(***************************************************************************)
(* Work that every replica starts on its own clock: the scheduled jobs of  *)
(* enqueueScheduled under a distributed lock (src/jobs/locks.ts), and the  *)
(* health sweep that falls back to sweeping in the process.                *)
(*                                                                         *)
(* A step is one command of Redis or of the storage with the code that     *)
(* runs on its answer; calls of several replicas, and of one replica,      *)
(* interleave freely.                                                      *)
(***************************************************************************)
EXTENDS Integers, FiniteSets

CONSTANTS
    Hosts,        \* replicas
    Schedulers,      \* calls of enqueueScheduled that may be in progress at once
    HostOf,       \* the replica a caller runs on
    KindOf,       \* the job type it schedules: lock resource and dedup key
    Unlocked,     \* stands for "nobody holds the lock"
    MaxTurns,     \* bound: calls one caller makes
    MaxTroubles   \* bound: commands that throw, and crashes

ASSUME SchedAssumption ==
    /\ HostOf \in [Schedulers -> Hosts]
    /\ Unlocked \notin Schedulers \X Nat      \* no token is the empty one
    /\ MaxTurns \in Nat /\ MaxTroubles \in Nat

Schedules == {KindOf[c] : c \in Schedulers}
Sweep == "health-sweep"

VARIABLES
    sharedLock,   \* Redis: the token under lock:v1:jobs:scheduled:<kind>
    localLock,    \* memoryLocks of each replica
    call,         \* what each caller is doing
    activeJobs,   \* rows of the kind's dedup key that are queued or running
    overrun,      \* history: kinds a caller works on without a shared lock
    troubles      \* commands that threw and crashes so far

schedVars == <<sharedLock, localLock, call, activeJobs, overrun, troubles>>

Critical == {"looking", "checking", "inserting"}

SchedInit ==
    /\ sharedLock = [k \in Schedules |-> Unlocked]
    /\ localLock = [h \in Hosts |-> [k \in Schedules |-> Unlocked]]
    /\ call = [c \in Schedulers |-> [pc |-> "idle", turn |-> 0, failed |-> FALSE]]
    /\ activeJobs = [k \in Schedules |-> 0]
    /\ overrun = {}
    /\ troubles = 0

Token(c) == <<c, call[c].turn>>
CallGoes(c, pc) == call' = [call EXCEPT ![c].pc = pc]

(* What a caller does when withLock threw: the maintenance timer ignores   *)
(* it, triggerSweep sweeps in the process.                                 *)
AfterThrow(c) == IF KindOf[c] = Sweep THEN "sweeping" ELSE "idle"

Trouble == troubles < MaxTroubles /\ troubles' = troubles + 1
----------------------------------------------------------------------------
(* acquire() *)
Fire(c) ==
    /\ call[c].pc = "idle" /\ call[c].turn < MaxTurns
    /\ call' = [call EXCEPT ![c] = [pc |-> "acquiring", turn |-> @.turn + 1,
                                    failed |-> FALSE]]
    /\ UNCHANGED <<sharedLock, localLock, activeJobs, overrun, troubles>>

(* SET lock token NX PX.                                                   *)
AcquireShared(c) ==
    LET k == KindOf[c] IN
    /\ call[c].pc = "acquiring"
    /\ IF sharedLock[k] = Unlocked
       THEN /\ sharedLock' = [sharedLock EXCEPT ![k] = Token(c)]
            /\ CallGoes(c, "looking")
       ELSE sharedLock' = sharedLock /\ CallGoes(c, AfterThrow(c))
    /\ UNCHANGED <<localLock, activeJobs, overrun, troubles>>

(* The command throws, before or after Redis executed it, and the lock     *)
(* falls back to the replica's memory.                                     *)
AcquireLocal(c) ==
    LET k == KindOf[c]  h == HostOf[c] IN
    /\ call[c].pc = "acquiring"
    /\ Trouble
    /\ \/ sharedLock' = sharedLock
       \/ /\ sharedLock[k] = Unlocked
          /\ sharedLock' = [sharedLock EXCEPT ![k] = Token(c)]
    /\ IF localLock[h][k] = Unlocked
       THEN /\ localLock' = [localLock EXCEPT ![h][k] = Token(c)]
            /\ overrun' = overrun \cup {k}
            /\ CallGoes(c, "looking")
       ELSE UNCHANGED <<localLock, overrun>> /\ CallGoes(c, AfterThrow(c))
    /\ UNCHANGED <<activeJobs>>

(* The time to live ends.  Nobody extends a lock: a holder that is still   *)
(* working has lost it without knowing.                                    *)
SharedLockExpires(k) ==
    /\ sharedLock[k] # Unlocked
    /\ sharedLock' = [sharedLock EXCEPT ![k] = Unlocked]
    /\ overrun' = IF \E c \in Schedulers : call[c].pc \in Critical /\ Token(c) = sharedLock[k]
                  THEN overrun \cup {k} ELSE overrun
    /\ UNCHANGED <<localLock, call, activeJobs, troubles>>

LocalLockExpires(h, k) ==
    /\ localLock[h][k] # Unlocked
    /\ localLock' = [localLock EXCEPT ![h][k] = Unlocked]
    /\ UNCHANGED <<sharedLock, call, activeJobs, overrun, troubles>>
----------------------------------------------------------------------------
(* The body of enqueueScheduled: its look-up, then enqueue()'s own.        *)
LookUp(c) ==
    /\ call[c].pc \in {"looking", "checking"}
    /\ CallGoes(c, IF activeJobs[KindOf[c]] > 0 THEN "releasing"
               ELSE IF call[c].pc = "looking" THEN "checking" ELSE "inserting")
    /\ UNCHANGED <<sharedLock, localLock, activeJobs, overrun, troubles>>

InsertJob(c) ==
    /\ call[c].pc = "inserting"
    /\ activeJobs' = [activeJobs EXCEPT ![KindOf[c]] = @ + 1]
    /\ CallGoes(c, "releasing")
    /\ UNCHANGED <<sharedLock, localLock, overrun, troubles>>

StorageThrows(c) ==
    /\ call[c].pc \in Critical
    /\ Trouble
    /\ call' = [call EXCEPT ![c].pc = "releasing", ![c].failed = TRUE]
    /\ UNCHANGED <<sharedLock, localLock, activeJobs, overrun>>

AfterRelease(c) == IF call[c].failed THEN AfterThrow(c) ELSE "idle"

(* BUG: DEL without comparing the token.                                   *)
ReleaseAnyToken(c) ==
    /\ call[c].pc = "releasing"
    /\ sharedLock' = [sharedLock EXCEPT ![KindOf[c]] = Unlocked]
    /\ CallGoes(c, AfterRelease(c))
    /\ UNCHANGED <<localLock, activeJobs, overrun, troubles>>

(* The script deletes the lock if it still holds the caller's token.  A    *)
(* lock that was taken in memory stays there until it expires.             *)
ReleaseShared(c) ==
    LET k == KindOf[c] IN
    /\ call[c].pc = "releasing"
    /\ sharedLock' = IF sharedLock[k] = Token(c)
                     THEN [sharedLock EXCEPT ![k] = Unlocked] ELSE sharedLock
    /\ CallGoes(c, AfterRelease(c))
    /\ UNCHANGED <<localLock, activeJobs, overrun, troubles>>

ReleaseLocal(c) ==
    LET k == KindOf[c]  h == HostOf[c] IN
    /\ call[c].pc = "releasing"
    /\ Trouble
    /\ localLock' = IF localLock[h][k] = Token(c)
                    THEN [localLock EXCEPT ![h][k] = Unlocked] ELSE localLock
    /\ CallGoes(c, AfterRelease(c))
    /\ UNCHANGED <<sharedLock, activeJobs, overrun>>

SweepEnds(c) ==
    /\ call[c].pc = "sweeping"
    /\ CallGoes(c, "idle")
    /\ UNCHANGED <<sharedLock, localLock, activeJobs, overrun, troubles>>

JobFinishes(k) ==
    /\ activeJobs[k] > 0
    /\ activeJobs' = [activeJobs EXCEPT ![k] = @ - 1]
    /\ UNCHANGED <<sharedLock, localLock, call, overrun, troubles>>
----------------------------------------------------------------------------
(* The process dies and starts again: its calls and its memory are gone,   *)
(* its lock in Redis is not.                                               *)
HostCrashes(h) ==
    /\ Trouble
    /\ call' = [c \in Schedulers |-> IF HostOf[c] = h THEN [call[c] EXCEPT !.pc = "idle"]
                                  ELSE call[c]]
    /\ localLock' = [localLock EXCEPT ![h] = [k \in Schedules |-> Unlocked]]
    /\ UNCHANGED <<sharedLock, activeJobs, overrun>>
----------------------------------------------------------------------------
SchedNext ==
    \/ \E c \in Schedulers :
          \/ Fire(c) \/ AcquireShared(c) \/ AcquireLocal(c)
          \/ LookUp(c) \/ InsertJob(c) \/ StorageThrows(c)
          \/ ReleaseShared(c) \/ ReleaseLocal(c) \/ SweepEnds(c)
    \/ \E k \in Schedules : SharedLockExpires(k) \/ JobFinishes(k)
    \/ \E h \in Hosts, k \in Schedules : LocalLockExpires(h, k)
    \/ \E h \in Hosts : HostCrashes(h)

SchedSpec == SchedInit /\ [][SchedNext]_schedVars
----------------------------------------------------------------------------
Tokens == Schedulers \X (0..MaxTurns)
Places == Critical \cup {"idle", "acquiring", "releasing", "sweeping"}
Calls == [pc : Places, turn : 0..MaxTurns, failed : BOOLEAN]

SchedTypeOK ==
    /\ sharedLock \in [Schedules -> Tokens \cup {Unlocked}]
    /\ localLock \in [Hosts -> [Schedules -> Tokens \cup {Unlocked}]]
    /\ call \in [Schedulers -> Calls]
    /\ activeJobs \in [Schedules -> Nat]
    /\ overrun \subseteq Schedules /\ troubles \in 0..MaxTroubles

(* A schedule has one active job however many replicas fire at once, as    *)
(* long as no caller outlives its lock or falls back to memory: a late     *)
(* release never frees the lock of the next holder.                        *)
OneActivePerSchedule == \A k \in Schedules \ overrun : activeJobs[k] <= 1

(* src/health/monitor.ts:791-792: "distributed lock + dedup so replicas    *)
(* firing on the same schedule do not double-sweep".                       *)
SweepsOnce ==
    Sweep \in Schedules \ overrun =>
        activeJobs[Sweep] + Cardinality({c \in Schedulers : call[c].pc = "sweeping"}) <= 1
=============================================================================
