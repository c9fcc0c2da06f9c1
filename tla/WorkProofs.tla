------------------------------ MODULE WorkProofs ------------------------------
(***************************************************************************)
(* Proofs about the work that is done once (schedules, the outbox and the  *)
(* imports), the health sweeps, the audit of the operators' changes and    *)
(* the console they are made with.                                         *)
(***************************************************************************)
EXTENDS ScheduledWork, Outbox, ImportRequests, HealthMonitor, MutationAudit, AdminConsole,
        FiniteSetTheorems, SequenceTheorems, TLAPS

----------------------------------------------------------------------------
(* The scheduled jobs.                                                     *)

(* A caller between acquire() and release() holds the shared lock, unless  *)
(* the schedule was overrun.                                               *)
CriticalHolds ==
    \A c \in Schedulers :
        call[c].pc \in Critical /\ KindOf[c] \notin overrun => sharedLock[KindOf[c]] = Token(c)

(* What the second look-up found still stands when the row is written.     *)
InsertsFirst ==
    \A c \in Schedulers :
        call[c].pc = "inserting" /\ KindOf[c] \notin overrun => activeJobs[KindOf[c]] = 0

SchedInv == SchedTypeOK /\ CriticalHolds /\ InsertsFirst /\ OneActivePerSchedule

(* A schedule is the kind of some caller, and a token is nobody's.         *)
LEMMA Scheduled ==
    /\ \A c \in Schedulers : KindOf[c] \in Schedules
    /\ SchedTypeOK => \A c \in Schedulers : Token(c) \in Tokens /\ Token(c) # Unlocked
<1>1. \A c \in Schedulers : KindOf[c] \in Schedules
  BY DEF Schedules
<1>2. ASSUME SchedTypeOK, NEW c \in Schedulers PROVE Token(c) \in Tokens /\ Token(c) # Unlocked
  <2>1. call[c] \in Calls
    BY <1>2 DEF SchedTypeOK
  <2>2. call[c].turn \in 0..MaxTurns
    BY <2>1 DEF Calls
  <2> QED
    BY <2>2, SchedAssumption DEF Token, Tokens
<1> QED
  BY <1>1, <1>2

(* A caller that goes somewhere keeps its turn, and so its token.          *)
LEMMA CallerGoes ==
    ASSUME SchedTypeOK, NEW c \in Schedulers, NEW p \in Places,
           CallGoes(c, p) \/ call' = [call EXCEPT ![c].pc = p, ![c].failed = TRUE]
    PROVE  /\ call' \in [Schedulers -> Calls]
           /\ \A d \in Schedulers : /\ call'[d].pc = IF d = c THEN p ELSE call[d].pc
                                    /\ call'[d].turn = call[d].turn
<1>1. call \in [Schedulers -> Calls]
  BY DEF SchedTypeOK
<1>2. \A x \in Calls : /\ [x EXCEPT !.pc = p] \in Calls
                           /\ [x EXCEPT !.pc = p].pc = p
                           /\ [x EXCEPT !.pc = p].turn = x.turn
  BY DEF Calls
<1>3. \A x \in Calls : /\ [x EXCEPT !.failed = TRUE] \in Calls
                           /\ [x EXCEPT !.failed = TRUE].pc = x.pc
                           /\ [x EXCEPT !.failed = TRUE].turn = x.turn
  BY DEF Calls
<1>4. CASE CallGoes(c, p)
  <2>1. call' = [call EXCEPT ![c] = [call[c] EXCEPT !.pc = p]]
    BY <1>4 DEF CallGoes
  <2> QED
    BY <1>1, <1>2, <2>1
<1>5. CASE call' = [call EXCEPT ![c].pc = p, ![c].failed = TRUE]
  <2> DEFINE y == [call[c] EXCEPT !.pc = p]
  <2>1. call' = [call EXCEPT ![c] = [y EXCEPT !.failed = TRUE]]
    BY <1>1, <1>5
  <2>2. /\ y \in Calls /\ y.pc = p /\ y.turn = call[c].turn
        /\ [y EXCEPT !.failed = TRUE] \in Calls
        /\ [y EXCEPT !.failed = TRUE].pc = p
        /\ [y EXCEPT !.failed = TRUE].turn = call[c].turn
    BY <1>1, <1>2, <1>3
  <2> QED
    BY <1>1, <2>1, <2>2
<1> QED
  BY <1>4, <1>5

(* Where the code sends a caller is one of the places it can be at.        *)
LEMMA PlacesAre == \A c \in Schedulers : AfterThrow(c) \in Places \ Critical
                                        /\ AfterRelease(c) \in Places \ Critical
BY DEF AfterThrow, AfterRelease, Places, Critical

(* The types of the scheduler's variables.                                 *)
LEMMA SchedTypeStep == SchedTypeOK /\ [SchedNext]_schedVars => SchedTypeOK'
<1> SUFFICES ASSUME SchedTypeOK, [SchedNext]_schedVars PROVE SchedTypeOK'
  OBVIOUS
<1>0. /\ \A c \in Schedulers : KindOf[c] \in Schedules /\ HostOf[c] \in Hosts
      /\ \A c \in Schedulers : Token(c) \in Tokens
  BY Scheduled, SchedAssumption
<1>p. /\ {"looking", "checking", "inserting", "releasing", "idle"} \subseteq Places
      /\ \A c \in Schedulers : AfterThrow(c) \in Places /\ AfterRelease(c) \in Places
  BY PlacesAre DEF Places, Critical
<1>t. Trouble => troubles' \in 0..MaxTroubles
  BY SchedAssumption DEF Trouble, SchedTypeOK
<1>1. ASSUME NEW c \in Schedulers, Fire(c) PROVE SchedTypeOK'
  <2>1. [pc |-> "acquiring", turn |-> call[c].turn + 1, failed |-> FALSE] \in Calls
    BY <1>1, SchedAssumption DEF Fire, SchedTypeOK, Calls, Places
  <2>2. call' \in [Schedulers -> Calls]
    BY <1>1, <2>1 DEF Fire, SchedTypeOK
  <2> QED
    BY <1>1, <2>2 DEF Fire, SchedTypeOK
<1>2. ASSUME NEW c \in Schedulers, AcquireShared(c) PROVE SchedTypeOK'
  <2>1. call' \in [Schedulers -> Calls]
    BY <1>p, <1>2, CallerGoes DEF AcquireShared
  <2> QED
    BY <1>0, <1>2, <2>1 DEF AcquireShared, SchedTypeOK
<1>3. ASSUME NEW c \in Schedulers, AcquireLocal(c) PROVE SchedTypeOK'
  <2>1. call' \in [Schedulers -> Calls]
    BY <1>p, <1>3, CallerGoes DEF AcquireLocal
  <2>2. localLock' \in [Hosts -> [Schedules -> Tokens \cup {Unlocked}]]
    BY <1>0, <1>3 DEF AcquireLocal, SchedTypeOK
  <2> QED
    BY <1>0, <1>t, <1>3, <2>1, <2>2 DEF AcquireLocal, SchedTypeOK
<1>4. ASSUME NEW c \in Schedulers, LookUp(c) PROVE SchedTypeOK'
  <2>1. call' \in [Schedulers -> Calls]
    BY <1>p, <1>4, CallerGoes DEF LookUp
  <2> QED
    BY <1>4, <2>1 DEF LookUp, SchedTypeOK
<1>5. ASSUME NEW c \in Schedulers, InsertJob(c) PROVE SchedTypeOK'
  <2>1. call' \in [Schedulers -> Calls]
    BY <1>p, <1>5, CallerGoes DEF InsertJob
  <2> QED
    BY <1>0, <1>5, <2>1 DEF InsertJob, SchedTypeOK
<1>6. ASSUME NEW c \in Schedulers, StorageThrows(c) PROVE SchedTypeOK'
  <2>1. call' \in [Schedulers -> Calls]
    BY <1>p, <1>6, CallerGoes DEF StorageThrows
  <2> QED
    BY <1>t, <1>6, <2>1 DEF StorageThrows, SchedTypeOK
<1>7. ASSUME NEW c \in Schedulers, ReleaseShared(c) PROVE SchedTypeOK'
  <2>1. call' \in [Schedulers -> Calls]
    BY <1>p, <1>7, CallerGoes DEF ReleaseShared
  <2> QED
    BY <1>0, <1>7, <2>1 DEF ReleaseShared, SchedTypeOK
<1>8. ASSUME NEW c \in Schedulers, ReleaseLocal(c) PROVE SchedTypeOK'
  <2>1. call' \in [Schedulers -> Calls]
    BY <1>p, <1>8, CallerGoes DEF ReleaseLocal
  <2>2. localLock' \in [Hosts -> [Schedules -> Tokens \cup {Unlocked}]]
    BY <1>0, <1>8 DEF ReleaseLocal, SchedTypeOK
  <2> QED
    BY <1>t, <1>8, <2>1, <2>2 DEF ReleaseLocal, SchedTypeOK
<1>9. ASSUME NEW c \in Schedulers, SweepEnds(c) PROVE SchedTypeOK'
  <2>1. call' \in [Schedulers -> Calls]
    BY <1>p, <1>9, CallerGoes DEF SweepEnds
  <2> QED
    BY <1>9, <2>1 DEF SweepEnds, SchedTypeOK
<1>10. ASSUME NEW k \in Schedules, SharedLockExpires(k) \/ JobFinishes(k) PROVE SchedTypeOK'
  BY <1>10 DEF SharedLockExpires, JobFinishes, SchedTypeOK
<1>11. ASSUME NEW h \in Hosts, NEW k \in Schedules, LocalLockExpires(h, k) PROVE SchedTypeOK'
  BY <1>11 DEF LocalLockExpires, SchedTypeOK
<1>12. ASSUME NEW h \in Hosts, HostCrashes(h) PROVE SchedTypeOK'
  <2>1. \A x \in Calls : [x EXCEPT !.pc = "idle"] \in Calls
    BY DEF Calls, Places
  <2>2. call' \in [Schedulers -> Calls]
    BY <1>12, <2>1 DEF HostCrashes, SchedTypeOK
  <2> QED
    BY <1>t, <1>12, <2>2 DEF HostCrashes, SchedTypeOK
<1>13. CASE UNCHANGED schedVars
  BY <1>13 DEF schedVars, SchedTypeOK
<1> QED
  BY <1>1, <1>2, <1>3, <1>4, <1>5, <1>6, <1>7, <1>8, <1>9, <1>10, <1>11, <1>12, <1>13
     DEF SchedNext

(* The steps keep the lock, and the row, of whoever works on a schedule.   *)
LEMMA SchedStepOnce == SchedInv /\ SchedTypeOK' /\ [SchedNext]_schedVars => SchedInv'
<1> SUFFICES ASSUME SchedInv, SchedTypeOK', [SchedNext]_schedVars PROVE SchedInv'
  OBVIOUS
<1> USE DEF SchedInv
<1> DEFINE Rest == (CriticalHolds /\ InsertsFirst /\ OneActivePerSchedule)'
<1>0. /\ \A c \in Schedulers : KindOf[c] \in Schedules
      /\ \A c, d \in Schedulers : Token(c) = Token(d) => c = d
      /\ \A c \in Schedulers : Token(c) # Unlocked
  BY Scheduled DEF Token
<1>a. ASSUME NEW c \in Schedulers, NEW d \in Schedulers, c # d, KindOf[c] = KindOf[d],
             KindOf[c] \notin overrun, call[c].pc \in Critical
      PROVE  call[d].pc \notin Critical
  BY <1>0, <1>a DEF CriticalHolds
<1>1. ASSUME NEW c \in Schedulers, Fire(c) PROVE Rest
  BY <1>0, <1>1 DEF Fire, CriticalHolds, InsertsFirst, OneActivePerSchedule, SchedTypeOK, Token,
     Critical
<1>2. ASSUME NEW c \in Schedulers, AcquireShared(c) PROVE Rest
  <2> DEFINE to == IF sharedLock[KindOf[c]] = Unlocked THEN "looking" ELSE AfterThrow(c)
  <2>1. to \in Places /\ to # "inserting" /\ (to # "looking" => to \notin Critical) /\ CallGoes(c, to)
    BY <1>2, PlacesAre DEF AcquireShared, Places, Critical
  <2> HIDE DEF to
  <2>2. \A d \in Schedulers : /\ call'[d].pc = IF d = c THEN to ELSE call[d].pc
                              /\ Token(d)' = Token(d)
    BY <2>1, CallerGoes DEF Token
  <2>3. ASSUME NEW d \in Schedulers, call'[d].pc \in Critical, KindOf[d] \notin overrun
        PROVE  sharedLock'[KindOf[d]] = Token(d)
    <3>1. CASE d = c
      <4>1. to = "looking"
        BY <2>1, <2>2, <2>3, <3>1
      <4>2. sharedLock[KindOf[c]] = Unlocked
        BY <4>1, <1>2, PlacesAre DEF to, AfterThrow
      <4> QED
        BY <1>0, <1>2, <3>1, <4>2 DEF AcquireShared, SchedTypeOK
    <3>2. CASE d # c
      <4>1. sharedLock[KindOf[d]] = Token(d)
        BY <2>2, <2>3, <3>2 DEF CriticalHolds
      <4> QED
        BY <1>0, <1>2, <4>1 DEF AcquireShared, SchedTypeOK
    <3> QED
      BY <3>1, <3>2
  <2>4. CriticalHolds'
    BY <1>2, <2>2, <2>3 DEF AcquireShared, CriticalHolds
  <2> QED
    BY <1>2, <2>1, <2>2, <2>4 DEF AcquireShared, InsertsFirst, OneActivePerSchedule
<1>3. ASSUME NEW c \in Schedulers, AcquireLocal(c) PROVE Rest
  <2> DEFINE k == KindOf[c]
             to == IF localLock[HostOf[c]][k] = Unlocked THEN "looking" ELSE AfterThrow(c)
  <2>1. to \in Places /\ to # "inserting" /\ (to \in Critical => k \in overrun') /\ CallGoes(c, to)
    BY <1>3, PlacesAre DEF AcquireLocal, Places, Critical
  <2>2. overrun \subseteq overrun' /\ activeJobs' = activeJobs
    BY <1>3 DEF AcquireLocal
  <2> HIDE DEF to
  <2>3. \A d \in Schedulers : /\ call'[d].pc = IF d = c THEN to ELSE call[d].pc
                              /\ Token(d)' = Token(d)
    BY <2>1, CallerGoes DEF Token
  <2>4. \A d \in Schedulers : sharedLock[KindOf[d]] = Token(d) => sharedLock'[KindOf[d]] = Token(d)
    BY <1>0, <1>3 DEF AcquireLocal, SchedTypeOK
  <2>5. CriticalHolds'
    BY <2>1, <2>2, <2>3, <2>4 DEF CriticalHolds
  <2> QED
    BY <2>1, <2>2, <2>3, <2>5 DEF InsertsFirst, OneActivePerSchedule
<1>4. ASSUME NEW c \in Schedulers, LookUp(c) PROVE Rest
  BY <1>0, <1>4 DEF LookUp, CallGoes, CriticalHolds, InsertsFirst,
     OneActivePerSchedule, SchedTypeOK, Token, Critical
<1>5. ASSUME NEW c \in Schedulers, InsertJob(c) PROVE Rest
  BY <1>0, <1>a, <1>5 DEF InsertJob, CallGoes, CriticalHolds, InsertsFirst,
     OneActivePerSchedule, SchedTypeOK, Token, Critical
<1>6. ASSUME NEW c \in Schedulers, StorageThrows(c) PROVE Rest
  BY <1>0, <1>6 DEF StorageThrows, CriticalHolds, InsertsFirst,
     OneActivePerSchedule, SchedTypeOK, Token, Critical
<1>7. ASSUME NEW c \in Schedulers, ReleaseShared(c) PROVE Rest
  BY <1>0, <1>7 DEF ReleaseShared, CallGoes, AfterRelease, AfterThrow, CriticalHolds,
     InsertsFirst, OneActivePerSchedule, SchedTypeOK, Token, Critical
<1>8. ASSUME NEW c \in Schedulers, ReleaseLocal(c) PROVE Rest
  BY <1>0, <1>8 DEF ReleaseLocal, CallGoes, AfterRelease, AfterThrow, CriticalHolds,
     InsertsFirst, OneActivePerSchedule, SchedTypeOK, Token, Critical
<1>9. ASSUME NEW c \in Schedulers, SweepEnds(c) PROVE Rest
  BY <1>0, <1>9 DEF SweepEnds, CallGoes, CriticalHolds, InsertsFirst,
     OneActivePerSchedule, SchedTypeOK, Token, Critical
<1>10. ASSUME NEW k \in Schedules, SharedLockExpires(k) \/ JobFinishes(k) PROVE Rest
  BY <1>0, <1>10 DEF SharedLockExpires, JobFinishes, CriticalHolds, InsertsFirst,
     OneActivePerSchedule, SchedTypeOK, Token, Critical
<1>11. ASSUME NEW h \in Hosts, NEW k \in Schedules, LocalLockExpires(h, k) PROVE Rest
  BY <1>11 DEF LocalLockExpires, CriticalHolds, InsertsFirst, OneActivePerSchedule, Token
<1>12. ASSUME NEW h \in Hosts, HostCrashes(h) PROVE Rest
  BY <1>0, <1>12 DEF HostCrashes, CriticalHolds, InsertsFirst, OneActivePerSchedule,
     SchedTypeOK, Token, Critical
<1>13. CASE UNCHANGED schedVars
  BY <1>13 DEF schedVars, CriticalHolds, InsertsFirst, OneActivePerSchedule, Token
<1> QED
  BY <1>1, <1>2, <1>3, <1>4, <1>5, <1>6, <1>7, <1>8, <1>9, <1>10, <1>11, <1>12, <1>13
     DEF SchedNext

(* The scheduler starts with free locks, idle callers and no job.          *)
LEMMA SchedInvInit == SchedInit => SchedInv
<1> SUFFICES ASSUME SchedInit PROVE SchedInv
  OBVIOUS
<1>1. [pc |-> "idle", turn |-> 0, failed |-> FALSE] \in Calls
  BY SchedAssumption DEF Calls, Places
<1>2. SchedTypeOK
  BY <1>1, SchedAssumption DEF SchedInit, SchedTypeOK
<1> QED
  BY <1>2 DEF SchedInit, SchedInv, CriticalHolds, InsertsFirst, OneActivePerSchedule, Critical,
     Schedules

(* enqueueScheduled: the invariant of a schedule holds throughout.         *)
LEMMA SchedInvCorrect == SchedSpec => []SchedInv
<1>1. SchedInv /\ [SchedNext]_schedVars => SchedInv'
  BY SchedTypeStep, SchedStepOnce DEF SchedInv
<1> QED
  BY SchedInvInit, <1>1, PTL DEF SchedSpec

(* However many replicas fire at once and whatever they lose, a schedule   *)
(* whose lock was not outlived has at most one job (locks.ts, engine.ts).  *)
THEOREM ScheduledOnce == SchedSpec => []OneActivePerSchedule
<1>1. SchedInv => OneActivePerSchedule
  BY DEF SchedInv
<1> QED
  BY SchedInvCorrect, <1>1, PTL
----------------------------------------------------------------------------
(* The outbox.                                                             *)

(* What a poll still has to do: the row it is at is one of the table, a    *)
(* row about to be published has no job of this replica, and a row about   *)
(* to be marked has its job.                                               *)
DrainSound(d, h) ==
    /\ d.pc # "idle" => d.row \in OutboxRows
    /\ d.pc = "publishing" => published[d.row][h] = 0
    /\ d.pc = "marking" /\ d.row \in Handled => JobsOf(d.row) # {}

OutboxInv ==
    /\ OutboxTypeOK
    /\ \A h \in Pollers : DrainSound(drain[h], h)
    /\ OutboxDelivers

(* The item the loop turns to needs nothing to be sound.                   *)
LEMMA TurnSound ==
    ASSUME NEW left \in SUBSET OutboxRows, NEW d \in Turn(left)
    PROVE  d \in Drains /\ \A h \in Pollers : DrainSound(d, h)
BY DEF Turn, Resting, Drains, DrainSound

(* A step that writes no job leaves every sound poll but its own as it is. *)
LEMMA DrainMoves ==
    ASSUME OutboxInv, NEW h \in Pollers, NEW d \in Drains, DrainSound(d, h),
           drain' = [drain EXCEPT ![h] = d], published' = published,
           outbox' \in [OutboxRows -> {"absent", "pending", "processed"}],
           misses' \in 0..MaxMisses, OutboxDelivers'
    PROVE  OutboxInv'
<1>1. \A i \in Pollers : DrainSound(drain'[i], i)
  BY DEF OutboxInv, OutboxTypeOK
<1>2. \A i \in Pollers : DrainSound(drain[i], i)'
  BY <1>1 DEF DrainSound, JobsOf
<1> QED
  BY <1>2 DEF OutboxInv, OutboxTypeOK

(* Every step of the outbox keeps its invariant.                           *)
LEMMA OutboxStepKeeps == OutboxInv /\ [OutboxNext]_outboxVars => OutboxInv'
<1> SUFFICES ASSUME OutboxInv, [OutboxNext]_outboxVars PROVE OutboxInv'
  OBVIOUS
<1>1. ASSUME NEW o \in OutboxRows, AddRow(o) PROVE OutboxInv'
  <2>1. OutboxTypeOK'
    BY <1>1 DEF AddRow, OutboxInv, OutboxTypeOK
  <2> QED
    BY <1>1, <2>1 DEF AddRow, OutboxInv, OutboxTypeOK, DrainSound, OutboxDelivers, JobsOf
<1> SUFFICES ASSUME NEW h \in Pollers,
                    \/ Poll(h) \/ Ask(h) \/ Publish(h) \/ Mark(h)
                    \/ ItemFails(h) \/ PollerCrashes(h)
             PROVE  OutboxInv'
  <2>1. CASE UNCHANGED outboxVars
    BY <2>1 DEF outboxVars, OutboxInv, OutboxTypeOK, DrainSound, OutboxDelivers, JobsOf
  <2> QED
    BY <1>1, <2>1 DEF OutboxNext
<1>h. drain[h] \in Drains /\ DrainSound(drain[h], h) /\ drain[h].left \in SUBSET OutboxRows
  BY DEF OutboxInv, OutboxTypeOK, Drains
<1>u. outbox' = outbox /\ published' = published => OutboxDelivers'
  BY DEF OutboxInv, OutboxDelivers, JobsOf
<1>m. Missed => misses' \in 0..MaxMisses
  BY OutboxAssumption DEF Missed, OutboxInv, OutboxTypeOK
<1>2. CASE Poll(h)
  <2>1. PICK d \in Turn(Pending) : drain' = [drain EXCEPT ![h] = d]
    BY <1>2 DEF Poll
  <2>2. Pending \in SUBSET OutboxRows
    BY DEF Pending
  <2> QED
    BY <1>2, <1>u, <2>1, <2>2, TurnSound, DrainMoves DEF Poll, OutboxInv, OutboxTypeOK
<1>3. CASE Ask(h)
  <2> DEFINE to == IF JobsOf(drain[h].row) = {} THEN "publishing" ELSE "marking"
             d == [drain[h] EXCEPT !.pc = to]
  <2>1. d \in Drains /\ d.pc = to /\ d.row = drain[h].row
    BY <1>h DEF Drains
  <2>2. drain[h].row \in OutboxRows
    BY <1>h, <1>3 DEF Ask, DrainSound
  <2>3. JobsOf(drain[h].row) = {} => published[drain[h].row][h] = 0
    BY <2>2 DEF JobsOf, OutboxInv, OutboxTypeOK
  <2>4. DrainSound(d, h)
    BY <2>1, <2>2, <2>3 DEF DrainSound
  <2>5. drain' = [drain EXCEPT ![h] = d]
    BY <1>3 DEF Ask
  <2> QED
    BY <1>3, <1>u, <2>1, <2>4, <2>5, DrainMoves DEF Ask, OutboxInv, OutboxTypeOK
<1>4. CASE Publish(h)
  <2>1. PICK o \in OutboxRows : o = drain[h].row /\ published[o][h] = 0
    BY <1>h, <1>4 DEF Publish, DrainSound
  <2>2. /\ published' \in [OutboxRows -> [Pollers -> Nat]]
        /\ \A p \in OutboxRows, i \in Pollers :
              published'[p][i] = IF p = o /\ i = h THEN 1 ELSE published[p][i]
    BY <1>4, <2>1 DEF Publish, OutboxInv, OutboxTypeOK
  <2>3. \A x \in Drains : /\ [x EXCEPT !.pc = "marking"] \in Drains
                          /\ [x EXCEPT !.pc = "marking"].pc = "marking"
                          /\ [x EXCEPT !.pc = "marking"].row = x.row
    BY DEF Drains
  <2>4. /\ drain' \in [Pollers -> Drains]
        /\ \A i \in Pollers : i # h => drain'[i] = drain[i]
        /\ drain'[h].pc = "marking" /\ drain'[h].row = o
    <3> DEFINE d == [drain[h] EXCEPT !.pc = "marking"]
    <3>1. d \in Drains /\ d.pc = "marking" /\ d.row = o
      BY <1>h, <2>1, <2>3
    <3>2. drain' = [drain EXCEPT ![h] = d]
      BY <1>4 DEF Publish
    <3> HIDE DEF d
    <3> QED
      BY <3>1, <3>2 DEF OutboxInv, OutboxTypeOK
  <2>5. /\ \A p \in OutboxRows : JobsOf(p) # {} => JobsOf(p)' # {}
        /\ JobsOf(o)' # {}
    <3>1. \A p \in OutboxRows, i \in Pollers : published[p][i] > 0 => published'[p][i] > 0
      BY <2>2
    <3>2. published'[o][h] > 0
      BY <2>1, <2>2
    <3> QED
      BY <3>1, <3>2 DEF JobsOf
  <2>6. ASSUME NEW i \in Pollers PROVE DrainSound(drain[i], i)'
    <3>1. CASE i = h
      BY <2>1, <2>4, <2>5, <3>1 DEF DrainSound
    <3>2. CASE i # h
      <4>1. PICK d \in Drains : d = drain[i] /\ d = drain'[i] /\ DrainSound(d, i)
        BY <2>4, <3>2 DEF OutboxInv, OutboxTypeOK
      <4>2. d.pc = "publishing" => published'[d.row][i] = 0
        BY <2>2, <3>2, <4>1 DEF DrainSound
      <4>3. d.pc = "marking" /\ d.row \in Handled => JobsOf(d.row)' # {}
        BY <2>5, <4>1 DEF DrainSound
      <4> QED
        BY <4>1, <4>2, <4>3 DEF DrainSound
    <3> QED
      BY <3>1, <3>2
  <2>7. OutboxDelivers'
    BY <1>4, <2>2, <2>5 DEF Publish, OutboxDelivers, OutboxInv
  <2> QED
    BY <1>4, <2>2, <2>4, <2>6, <2>7 DEF Publish, OutboxInv, OutboxTypeOK
<1>5. CASE Mark(h)
  <2>1. PICK d \in Turn(drain[h].left) : drain' = [drain EXCEPT ![h] = d]
    BY <1>5 DEF Mark
  <2>2. drain[h].row \in Handled => JobsOf(drain[h].row) # {}
    BY <1>5, <1>h DEF Mark, DrainSound
  <2>3. OutboxDelivers'
    BY <1>5, <2>2 DEF Mark, OutboxInv, OutboxTypeOK, OutboxDelivers, JobsOf
  <2> QED
    BY <1>5, <1>h, <2>1, <2>3, TurnSound, DrainMoves DEF Mark, OutboxInv, OutboxTypeOK
<1>6. CASE ItemFails(h)
  <2>1. PICK d \in Turn(drain[h].left) : drain' = [drain EXCEPT ![h] = d]
    BY <1>6 DEF ItemFails
  <2> QED
    BY <1>6, <1>h, <1>u, <1>m, <2>1, TurnSound, DrainMoves DEF ItemFails, OutboxInv, OutboxTypeOK
<1>7. CASE PollerCrashes(h)
  <2>1. Resting \in Drains /\ DrainSound(Resting, h)
    BY DEF Resting, Drains, DrainSound
  <2> QED
    BY <1>7, <1>u, <1>m, <2>1, DrainMoves DEF PollerCrashes, OutboxInv, OutboxTypeOK
<1> QED
  BY <1>2, <1>3, <1>4, <1>5, <1>6, <1>7

(* The invariant of the outbox holds.                                      *)
LEMMA OutboxIsSound == OutboxSpec => []OutboxInv
<1>1. OutboxInit => OutboxInv
  BY OutboxAssumption DEF OutboxInit, OutboxInv, OutboxTypeOK, DrainSound, OutboxDelivers, Resting, Drains
<1> QED
  BY <1>1, OutboxStepKeeps, PTL DEF OutboxSpec

(* drainOutbox: whoever dies or fails between two calls, a processed row   *)
(* of a known type has its job and a replica makes one job of a row at     *)
(* most (engine.ts).                                                       *)
THEOREM OutboxDelivered == OutboxSpec => []OutboxDelivers
<1>1. OutboxInv => OutboxDelivers
  BY DEF OutboxInv
<1> QED
  BY <1>1, OutboxIsSound, PTL
----------------------------------------------------------------------------
(* The imports.                                                            *)

(* A set of row numbers that is not empty has a last one.                  *)
LEMMA Largest ==
    ASSUME NEW n \in Nat, NEW S \in SUBSET (1..n), S # {}
    PROVE  \E j \in S : \A i \in S : i <= j
<1> DEFINE T == {k \in 1..n : \E i \in S : k <= i}
           m == Cardinality(T)
<1>1. IsFiniteSet(T) /\ m \in Nat /\ m <= n
  <2>1. IsFiniteSet(1..n) /\ Cardinality(1..n) = n
    BY FS_Interval
  <2>2. T \in SUBSET (1..n)
    OBVIOUS
  <2> HIDE DEF T
  <2> QED
    BY <2>1, <2>2, FS_Subset, FS_CardinalityType
<1>2. ASSUME NEW k \in T PROVE k <= m
  <2>0. k \in 1..n
    OBVIOUS
  <2>1. IsFiniteSet(1..k) /\ Cardinality(1..k) = k
    BY <2>0, FS_Interval
  <2>2. 1..k \in SUBSET T
    OBVIOUS
  <2> HIDE DEF T
  <2> QED
    BY <1>1, <2>0, <2>1, <2>2, FS_Subset
<1>3. T = 1..m
  <2>1. IsFiniteSet(1..m) /\ Cardinality(1..m) = m
    BY <1>1, FS_Interval
  <2>2. T \in SUBSET (1..m)
    BY <1>2
  <2> HIDE DEF T
  <2> QED
    BY <1>1, <2>1, <2>2, FS_Subset
<1>4. S \subseteq T
  OBVIOUS
<1> HIDE DEF m
<1>5. m \in T
  <2>1. PICK i \in S : i \in 1..m
    BY <1>3, <1>4
  <2> QED
    BY <1>1, <1>3, <2>1
<1>6. PICK j \in S : m <= j
  BY <1>5
<1>7. \A i \in S : i <= m
  BY <1>2, <1>4
<1> QED
  BY <1>1, <1>6, <1>7

ImportRows ==
    [key : IdemKeys, kind : ImportKinds, done : Nat, aborted : BOOLEAN,
     status : {"queued", "running", "cancelled", "stopped", "completed"}, late : Nat]
Importees ==
    [pc : {"idle", "asking", "inserting", "replying"}, host : ImportHosts, key : IdemKeys,
     kind : ImportKinds, job : Nat \cup {NoJob}, overlapped : BOOLEAN]

ImportShape ==
    /\ importJobs \in Seq(ImportRows)
    /\ importer \in [Importers -> Importees]
    /\ replies \in [ImportHosts -> [IdemKeys -> Nat \cup {NoJob}]]
    /\ answered \subseteq [key : IdemKeys, job : Nat, overlapped : BOOLEAN]

(* Whoever answers names a row that has the request's key.                 *)
AnswersExist ==
    /\ \A h \in ImportHosts, k \in IdemKeys :
          replies[h][k] # NoJob => replies[h][k] \in WithKey(k)
    /\ \A k \in IdemKeys : \A a \in answered : a.key = k => a.job \in WithKey(k)
    /\ \A k \in IdemKeys : \A c \in Importers :
          importer[c].pc = "replying" /\ importer[c].key = k => importer[c].job \in WithKey(k)

(* An overlap that can no longer be forgotten: its request was answered or *)
(* is past the last call that may throw.                                   *)
Marked(k) ==
    \/ \E a \in answered : a.key = k /\ a.overlapped
    \/ \E c \in Importers : importer[c].pc = "replying" /\ importer[c].key = k /\ importer[c].overlapped

(* Two requests of a key that are under way know of each other, and a key  *)
(* has a second row, or is about to get one, only after an overlap.        *)
OverlapsTold ==
    /\ \A c, d \in Importers :
          c # d /\ importer[c].pc # "idle" /\ importer[d].pc # "idle"
                /\ importer[c].key = importer[d].key => importer[c].overlapped
    /\ \A k \in IdemKeys : \A c \in Importers :
          importer[c].pc = "inserting" /\ importer[c].key = k => WithKey(k) = {} \/ Marked(k)
    /\ \A k \in IdemKeys : \A i, j \in WithKey(k) : i # j => Marked(k)

HeedsInTime ==
    \A j \in DOMAIN importJobs : HeedsSignal(importJobs[j].kind) => importJobs[j].late <= 1

ImportInv == ImportShape /\ AnswersExist /\ OverlapsTold /\ HeedsInTime

(* Rows that keep their key and their kind change nothing about requests.  *)
LEMMA RowsMove ==
    ASSUME ImportInv, importJobs' \in Seq(ImportRows), OnlyJobs,
           DOMAIN importJobs' = DOMAIN importJobs,
           \A j \in DOMAIN importJobs : /\ importJobs'[j].key = importJobs[j].key
                                        /\ importJobs'[j].kind = importJobs[j].kind,
           HeedsInTime'
    PROVE  ImportInv'
<1>1. \A k \in IdemKeys : WithKey(k)' = WithKey(k)
  BY DEF WithKey
<1>2. \A k \in IdemKeys : Marked(k)' = Marked(k)
  BY DEF Marked, OnlyJobs
<1>3. ImportShape'
  BY DEF ImportInv, ImportShape, OnlyJobs
<1>4. \A c \in Importers : importer[c].key \in IdemKeys
  BY DEF ImportInv, ImportShape, Importees
<1>5. \A a \in answered : a.key \in IdemKeys
  BY DEF ImportInv, ImportShape
<1>6. AnswersExist'
  BY <1>1, <1>4, <1>5 DEF ImportInv, AnswersExist, OnlyJobs
<1>7. OverlapsTold'
  BY <1>1, <1>2, <1>4 DEF ImportInv, OverlapsTold, OnlyJobs
<1> QED
  BY <1>3, <1>6, <1>7 DEF ImportInv

(* A row of the job table that takes a step of its own.                    *)
LEMMA RowRuns ==
    ASSUME ImportInv, NEW j \in DOMAIN importJobs, NEW rec \in ImportRows, RunsTo(j, rec), OnlyJobs,
           rec.key = importJobs[j].key, rec.kind = importJobs[j].kind,
           HeedsSignal(rec.kind) => rec.late <= 1
    PROVE  ImportInv'
<1>1. importJobs' \in Seq(ImportRows) /\ DOMAIN importJobs' = DOMAIN importJobs
  BY DEF RunsTo, ImportInv, ImportShape
<1>2. \A i \in DOMAIN importJobs : importJobs'[i] = IF i = j THEN rec ELSE importJobs[i]
  BY DEF RunsTo, ImportInv, ImportShape
<1>3. HeedsInTime'
  BY <1>1, <1>2 DEF ImportInv, HeedsInTime
<1> QED
  BY <1>1, <1>2, <1>3, RowsMove

(* The fields of a row after a step of its job.                            *)
LEMMA RowFields ==
    \A x \in ImportRows :
       /\ \A s \in {"queued", "running", "cancelled", "stopped", "completed"} :
             LET y == [x EXCEPT !.status = s]
             IN  y \in ImportRows /\ y.key = x.key /\ y.kind = x.kind /\ y.late = x.late
       /\ LET y == [x EXCEPT !.aborted = TRUE]
          IN  y \in ImportRows /\ y.key = x.key /\ y.kind = x.kind /\ y.late = x.late
       /\ \A n \in Nat :
             LET y == [x EXCEPT !.done = n]
             IN  y \in ImportRows /\ y.key = x.key /\ y.kind = x.kind /\ y.late = x.late
       /\ \A n \in Nat :
             LET y == [x EXCEPT !.late = n]
             IN  y \in ImportRows /\ y.key = x.key /\ y.kind = x.kind /\ y.late = n
BY DEF ImportRows

(* The steps of the jobs.                                                  *)
LEMMA JobSteps ==
    ASSUME ImportInv, NEW j \in DOMAIN importJobs,
           StartImport(j) \/ InstallNext(j) \/ EndImport(j) \/ CancelImport(j)
    PROVE  ImportInv'
<1> DEFINE job == importJobs[j]
<1>0. job \in ImportRows /\ (HeedsSignal(job.kind) => job.late <= 1)
      /\ job.done \in Nat /\ job.late \in Nat /\ job.status \in {"queued", "running", "cancelled", "stopped", "completed"}
  <2>1. job \in ImportRows
    BY DEF ImportInv, ImportShape
  <2> QED
    BY <2>1 DEF ImportInv, HeedsInTime, ImportRows
<1>1. CASE StartImport(j)
  BY <1>0, <1>1, RowFields, RowRuns DEF StartImport
<1>2. CASE InstallNext(j)
  <2>1. CASE job.aborted /\ HeedsSignal(job.kind)
    BY <1>0, <1>2, <2>1, RowFields, RowRuns DEF InstallNext
  <2>2. CASE ~(job.aborted /\ HeedsSignal(job.kind))
    <3> DEFINE n == IF job.aborted THEN job.late + 1 ELSE job.late
               x == [job EXCEPT !.done = @ + 1]
               y == [x EXCEPT !.late = n]
    <3>1. n \in Nat /\ (HeedsSignal(job.kind) => n <= 1)
      BY <1>0, <2>2
    <3>2. x \in ImportRows /\ x.key = job.key /\ x.kind = job.kind
      <4>1. job.done + 1 \in Nat
        BY <1>0
      <4> HIDE DEF job
      <4> QED
        BY <1>0, <4>1, RowFields
    <3>3. y \in ImportRows /\ y.key = job.key /\ y.kind = job.kind /\ y.late = n
      <4> HIDE DEF x, n
      <4> QED
        BY <3>1, <3>2, RowFields
    <3>4. Installed(job) = y
      BY <1>0 DEF Installed, ImportRows
    <3>5. RunsTo(j, y) /\ OnlyJobs
      BY <1>2, <2>2, <3>4 DEF InstallNext
    <3> HIDE DEF x, y, n
    <3> QED
      BY <3>1, <3>3, <3>5, RowRuns
  <2> QED
    BY <2>1, <2>2
<1>3. CASE EndImport(j)
  <2> DEFINE to == IF job.status = "running" THEN "completed" ELSE "stopped"
  <2>1. RunsTo(j, [job EXCEPT !.status = to]) /\ OnlyJobs
    BY <1>3 DEF EndImport
  <2> QED
    BY <1>0, <2>1, RowFields, RowRuns
<1>4. CASE CancelImport(j)
  <2> DEFINE to == IF job.status = "queued" THEN "stopped" ELSE "cancelled"
             x == [job EXCEPT !.status = to]
             y == [x EXCEPT !.aborted = TRUE]
             z == [job EXCEPT !.status = "cancelled"]
             u == [z EXCEPT !.aborted = TRUE]
             v == [u EXCEPT !.done = @ + 1]
             w == [v EXCEPT !.late = 1]
  <2>1. x \in ImportRows /\ x.key = job.key /\ x.kind = job.kind /\ x.late = job.late
    <3>1. to \in {"queued", "running", "cancelled", "stopped", "completed"}
      OBVIOUS
    <3> HIDE DEF job, to
    <3> QED BY <1>0, <3>1, RowFields
  <2>2. y \in ImportRows /\ y.key = job.key /\ y.kind = job.kind /\ y.late = job.late
    <3> HIDE DEF x
    <3> QED BY <2>1, RowFields
  <2>3. z \in ImportRows /\ z.key = job.key /\ z.kind = job.kind
    BY <1>0, RowFields
  <2>4. u \in ImportRows /\ u.key = job.key /\ u.kind = job.kind
    <3> HIDE DEF z
    <3> QED BY <2>3, RowFields
  <2>5. v \in ImportRows /\ v.key = job.key /\ v.kind = job.kind
    <3> HIDE DEF u
    <3>1. u.done + 1 \in Nat
      BY <2>4 DEF ImportRows
    <3>2. v = [u EXCEPT !.done = u.done + 1]
      OBVIOUS
    <3> QED BY <2>4, <3>1, <3>2, RowFields
  <2>6. w \in ImportRows /\ w.key = job.key /\ w.kind = job.kind /\ w.late = 1
    <3>1. 1 \in Nat
      OBVIOUS
    <3> HIDE DEF v, job
    <3> QED BY <2>5, <3>1, RowFields
  <2>7. OnlyJobs /\ (RunsTo(j, y) \/ RunsTo(j, w))
    BY <1>0, <1>4 DEF CancelImport, ImportRows
  <2> HIDE DEF y, w
  <2> QED
    BY <1>0, <2>2, <2>6, <2>7, RowRuns
<1> QED
  BY <1>1, <1>2, <1>3, <1>4

(* The fields of a request that met another one.                           *)
LEMMA OverlapFields ==
    ASSUME NEW x \in Importees, NEW y, y = [x EXCEPT !.overlapped = TRUE]
    PROVE  /\ y \in Importees /\ y.pc = x.pc /\ y.job = x.job
           /\ y.key = x.key /\ y.overlapped
BY DEF Importees

(* A request at rest.                                                      *)
LEMMA AtRest == IdleImport \in Importees /\ IdleImport.pc = "idle"
BY ImportAssumption DEF IdleImport, Importees, ImportKinds

(* The row numbers of a key, and the last of them.                         *)
LEMMA KeyRows ==
    ASSUME ImportShape, NEW k \in IdemKeys
    PROVE  /\ WithKey(k) \subseteq 1..Len(importJobs)
           /\ WithKey(k) # {} => Latest(WithKey(k)) \in WithKey(k)
<1>1. Len(importJobs) \in Nat /\ DOMAIN importJobs = 1..Len(importJobs)
  BY DEF ImportShape
<1>2. WithKey(k) \in SUBSET (1..Len(importJobs))
  BY <1>1 DEF WithKey
<1> QED
  BY <1>1, <1>2, Largest DEF Latest

(* A request is received.                                                  *)
LEMMA ReceiveStep ==
    ASSUME ImportInv, NEW c \in Importers, NEW h \in ImportHosts, NEW k \in IdemKeys,
           NEW kind \in ImportKinds, ReceiveImport(c, h, k, kind)
    PROVE  ImportInv'
<1>0. replies' = replies /\ importJobs' = importJobs
  BY DEF ReceiveImport
<1>1. \A i \in IdemKeys : WithKey(i)' = WithKey(i)
  BY <1>0 DEF WithKey
<1>2. HeedsInTime'
  BY <1>0 DEF ImportInv, HeedsInTime
<1>t. \A d \in Importers : importer[d] \in Importees /\ importer[d].key \in IdemKeys
  BY DEF ImportInv, ImportShape, Importees
<1>3. CASE replies[h][k] # NoJob
  <2>1. importer' = importer /\ Answer(k, replies[h][k], FALSE)
    BY <1>3 DEF ReceiveImport
  <2>2. replies[h][k] \in WithKey(k) /\ replies[h][k] \in Nat
    BY <1>3 DEF ImportInv, ImportShape, AnswersExist
  <2>a. answered' = answered \cup {[key |-> k, job |-> replies[h][k], overlapped |-> FALSE]}
    BY <2>1 DEF Answer
  <2>b. ImportShape'
    <3>1. [key |-> k, job |-> replies[h][k], overlapped |-> FALSE] \in
              [key : IdemKeys, job : Nat, overlapped : BOOLEAN]
      BY <2>2
    <3> QED
      BY <1>0, <2>1, <2>a, <3>1 DEF ImportInv, ImportShape
  <2>3. AnswersExist'
    BY <1>0, <1>1, <2>1, <2>2, <2>a DEF ImportInv, AnswersExist
  <2>4. \A i \in IdemKeys : Marked(i) => Marked(i)'
    BY <2>1 DEF Marked, Answer
  <2>5. OverlapsTold'
    BY <1>1, <1>t, <2>1, <2>4 DEF ImportInv, OverlapsTold
  <2> QED
    BY <1>2, <2>b, <2>3, <2>5 DEF ImportInv
<1>4. CASE replies[h][k] = NoJob
  <2> DEFINE new == [pc |-> "asking", host |-> h, key |-> k, kind |-> kind,
                     job |-> NoJob, overlapped |-> Rivals(c, k) # {}]
  <2>1. /\ importer[c].pc = "idle" /\ answered' = answered
        /\ importer' = [d \in Importers |->
               IF d = c THEN new
               ELSE IF d \in Rivals(c, k) THEN [importer[d] EXCEPT !.overlapped = TRUE]
               ELSE importer[d]]
    BY <1>4 DEF ReceiveImport
  <2>2. new \in Importees /\ new.pc = "asking" /\ new.key = k /\ new.overlapped = (Rivals(c, k) # {})
    BY DEF Importees
  <2> HIDE DEF new
  <2>3. /\ importer' \in [Importers -> Importees]
        /\ \A d \in Importers \ {c} : /\ importer'[d].pc = importer[d].pc
                                      /\ importer'[d].key = importer[d].key
                                      /\ importer'[d].job = importer[d].job
                                      /\ importer[d].overlapped => importer'[d].overlapped
                                      /\ d \in Rivals(c, k) => importer'[d].overlapped
    BY <1>t, <2>1, <2>2, OverlapFields
  <2>4. importer'[c] = new
    BY <2>1
  <2>5. ImportShape'
    BY <1>0, <2>1, <2>3 DEF ImportInv, ImportShape
  <2>6. AnswersExist'
    <3>1. ASSUME NEW i \in IdemKeys, NEW d \in Importers, importer'[d].pc = "replying",
                 importer'[d].key = i
          PROVE  importer'[d].job \in WithKey(i)'
      <4>1. d # c /\ importer[d].pc = "replying"
        BY <2>2, <2>3, <2>4, <3>1
      <4> QED
        BY <1>1, <2>3, <3>1, <4>1 DEF ImportInv, AnswersExist
    <3>2. \A a \in answered : a.key \in IdemKeys
      BY DEF ImportInv, ImportShape
    <3> QED
      BY <1>0, <1>1, <2>1, <3>1, <3>2 DEF ImportInv, AnswersExist
  <2>7. \A i \in IdemKeys : Marked(i) => Marked(i)'
    <3>1. \A d \in Importers : importer[d].pc = "replying" => d \in Importers \ {c}
      BY <2>1
    <3> QED
      BY <2>1, <2>3, <3>1 DEF Marked
  <2>8. ASSUME NEW d \in Importers, NEW e \in Importers, d # e, importer'[d].pc # "idle",
               importer'[e].pc # "idle", importer'[d].key = importer'[e].key
        PROVE  importer'[d].overlapped
    <3>1. CASE d = c
      <4>1. e \in Rivals(c, k)
        BY <2>2, <2>3, <2>4, <2>8, <3>1 DEF Rivals
      <4> QED
        BY <2>2, <2>4, <3>1, <4>1
    <3>2. CASE d # c /\ e = c
      <4>1. d \in Rivals(c, k)
        BY <2>2, <2>3, <2>4, <2>8, <3>2 DEF Rivals
      <4> QED
        BY <2>3, <3>2, <4>1
    <3>3. CASE d # c /\ e # c
      BY <2>3, <2>8, <3>3 DEF ImportInv, OverlapsTold
    <3> QED
      BY <3>1, <3>2, <3>3
  <2>9. ASSUME NEW i \in IdemKeys, NEW d \in Importers, importer'[d].pc = "inserting",
               importer'[d].key = i
        PROVE  WithKey(i)' = {} \/ Marked(i)'
    <3>1. d # c /\ importer[d].pc = "inserting" /\ importer'[d].key = importer[d].key
      BY <2>2, <2>3, <2>4, <2>9
    <3> QED
      BY <1>1, <2>7, <2>9, <3>1 DEF ImportInv, OverlapsTold
  <2>10. OverlapsTold'
    BY <1>1, <2>7, <2>8, <2>9 DEF ImportInv, OverlapsTold
  <2> QED
    BY <1>2, <2>5, <2>6, <2>10 DEF ImportInv
<1> QED
  BY <1>3, <1>4

(* A request that is at a call of the storage: a step of it that is not    *)
(* the insertion of a row.                                                 *)
LEMMA RequestMoves ==
    ASSUME ImportInv, NEW c \in Importers, NEW r \in Importees,
           importer' = [importer EXCEPT ![c] = r], importJobs' = importJobs,
           replies' = replies, answered' = answered,
           importer[c].pc \in {"asking", "inserting"},
           \/ r.pc = "idle"
           \/ /\ r.key = importer[c].key /\ r.overlapped = importer[c].overlapped
              /\ \/ r.pc = "inserting" /\ WithKey(r.key) = {}
                 \/ r.pc = "replying" /\ r.job \in WithKey(r.key)
    PROVE  ImportInv'
<1>t. \A d \in Importers : importer[d] \in Importees /\ importer[d].key \in IdemKeys
  BY DEF ImportInv, ImportShape, Importees
<1>1. \A i \in IdemKeys : WithKey(i)' = WithKey(i)
  BY DEF WithKey
<1>2. HeedsInTime'
  BY DEF ImportInv, HeedsInTime
<1>3. /\ importer' \in [Importers -> Importees] /\ importer'[c] = r
      /\ \A d \in Importers : d # c => importer'[d] = importer[d]
  BY DEF ImportInv, ImportShape
<1>r. r.key \in IdemKeys
  BY DEF Importees
<1>4. ImportShape'
  BY <1>3 DEF ImportInv, ImportShape
<1>5. AnswersExist'
  <2>1. ASSUME NEW i \in IdemKeys, NEW d \in Importers, importer'[d].pc = "replying",
               importer'[d].key = i
        PROVE  importer'[d].job \in WithKey(i)'
    <3>1. CASE d = c
      BY <1>1, <1>3, <1>r, <2>1, <3>1
    <3>2. CASE d # c
      BY <1>1, <1>3, <1>t, <2>1, <3>2 DEF ImportInv, AnswersExist
    <3> QED
      BY <3>1, <3>2
  <2>2. \A a \in answered : a.key \in IdemKeys
    BY DEF ImportInv, ImportShape
  <2> QED
    BY <1>1, <2>1, <2>2 DEF ImportInv, AnswersExist
<1>6. \A i \in IdemKeys : Marked(i) => Marked(i)'
  BY <1>3 DEF Marked
<1>7. ASSUME NEW d \in Importers, NEW e \in Importers, d # e, importer'[d].pc # "idle",
             importer'[e].pc # "idle", importer'[d].key = importer'[e].key
      PROVE  importer'[d].overlapped
  <2>1. importer[d].pc # "idle" /\ importer[e].pc # "idle"
    BY <1>3, <1>7
  <2>2. /\ importer[d].key = importer'[d].key /\ importer[e].key = importer'[e].key
        /\ importer'[d].overlapped = importer[d].overlapped
    BY <1>3, <1>7
  <2> QED
    BY <1>7, <2>1, <2>2 DEF ImportInv, OverlapsTold
<1>8. ASSUME NEW i \in IdemKeys, NEW d \in Importers, importer'[d].pc = "inserting",
             importer'[d].key = i
      PROVE  WithKey(i)' = {} \/ Marked(i)'
  <2>1. CASE d = c
    BY <1>1, <1>3, <1>r, <1>8, <2>1
  <2>2. CASE d # c
    BY <1>1, <1>3, <1>6, <1>8, <1>t, <2>2 DEF ImportInv, OverlapsTold
  <2> QED
    BY <2>1, <2>2
<1>9. OverlapsTold'
  BY <1>1, <1>6, <1>7, <1>8 DEF ImportInv, OverlapsTold
<1> QED
  BY <1>2, <1>4, <1>5, <1>9 DEF ImportInv

(* The row of a request is inserted.                                       *)
LEMMA InsertStep ==
    ASSUME ImportInv, NEW c \in Importers, InsertImport(c)
    PROVE  ImportInv'
<1> DEFINE new == [key |-> importer[c].key, kind |-> importer[c].kind, status |-> "queued",
                   done |-> 0, aborted |-> FALSE, late |-> 0]
           n == Len(importJobs) + 1
<1>t. \A d \in Importers : importer[d] \in Importees /\ importer[d].key \in IdemKeys
  BY DEF ImportInv, ImportShape, Importees
<1>x. PICK x \in Importees : x = importer[c]
  BY <1>t
<1>k. PICK key \in IdemKeys : key = importer[c].key
  BY <1>t
<1> DEFINE r == [x EXCEPT !.pc = "replying", !.job = n]
<1>1. /\ importer[c].pc = "inserting" /\ importJobs' = Append(importJobs, new)
      /\ importer' = [importer EXCEPT ![c] = r] /\ replies' = replies /\ answered' = answered
  BY <1>x DEF InsertImport
<1>2. new \in ImportRows /\ new.key = key /\ new.late = 0
  BY <1>k, <1>t DEF ImportRows, Importees
<1>3. /\ n \in Nat /\ r \in Importees /\ r.pc = "replying" /\ r.job = n /\ r.key = key
      /\ r.overlapped = importer[c].overlapped
  <2>1. n \in Nat
    BY DEF ImportInv, ImportShape
  <2> HIDE DEF n
  <2>2. /\ r \in Importees /\ r.pc = "replying" /\ r.job = n /\ r.key = x.key
        /\ r.overlapped = x.overlapped
    BY <2>1 DEF Importees
  <2> QED
    BY <1>k, <1>x, <2>1, <2>2
<1> HIDE DEF new, r
<1>4. /\ importJobs' \in Seq(ImportRows) /\ DOMAIN importJobs' = DOMAIN importJobs \cup {n}
      /\ n \notin DOMAIN importJobs
      /\ importJobs'[n] = new /\ \A j \in DOMAIN importJobs : importJobs'[j] = importJobs[j]
  BY <1>1, <1>2 DEF ImportInv, ImportShape
<1> HIDE DEF n
<1>5. \A i \in IdemKeys : WithKey(i)' = IF i = key THEN WithKey(i) \cup {n} ELSE WithKey(i)
  BY <1>2, <1>4 DEF WithKey
<1>6. /\ importer' \in [Importers -> Importees] /\ importer'[c] = r
      /\ \A d \in Importers : d # c => importer'[d] = importer[d]
  BY <1>1, <1>3 DEF ImportInv, ImportShape
<1>7. HeedsInTime'
  BY <1>2, <1>4 DEF ImportInv, HeedsInTime
<1>8. ImportShape'
  BY <1>1, <1>4, <1>6 DEF ImportInv, ImportShape
<1>9. AnswersExist'
  <2>1. ASSUME NEW i \in IdemKeys, NEW d \in Importers, importer'[d].pc = "replying",
               importer'[d].key = i
        PROVE  importer'[d].job \in WithKey(i)'
    <3>1. CASE d = c
      BY <1>3, <1>5, <1>6, <1>k, <2>1, <3>1
    <3>2. CASE d # c
      BY <1>5, <1>6, <1>t, <2>1, <3>2 DEF ImportInv, AnswersExist
    <3> QED
      BY <3>1, <3>2
  <2>2. \A a \in answered : a.key \in IdemKeys
    BY DEF ImportInv, ImportShape
  <2> QED
    BY <1>1, <1>5, <2>1, <2>2 DEF ImportInv, AnswersExist
<1>10. \A i \in IdemKeys : Marked(i) => Marked(i)'
  BY <1>1, <1>6 DEF Marked
<1>11. ASSUME NEW d \in Importers, NEW e \in Importers, d # e, importer'[d].pc # "idle",
              importer'[e].pc # "idle", importer'[d].key = importer'[e].key
       PROVE  importer'[d].overlapped
  <2>1. importer[d].pc # "idle" /\ importer[e].pc # "idle"
    BY <1>1, <1>6, <1>11
  <2>2. /\ importer[d].key = importer'[d].key /\ importer[e].key = importer'[e].key
        /\ importer'[d].overlapped = importer[d].overlapped
    BY <1>k, <1>3, <1>6
  <2> QED
    BY <1>11, <2>1, <2>2 DEF ImportInv, OverlapsTold
<1>12. ASSUME NEW i \in IdemKeys, NEW d \in Importers, importer'[d].pc = "inserting",
              importer'[d].key = i
       PROVE  WithKey(i)' = {} \/ Marked(i)'
  <2>1. d # c /\ importer'[d] = importer[d]
    BY <1>3, <1>6, <1>12
  <2>2. CASE i = key
    <3>1. importer[c].overlapped
      BY <1>1, <1>k, <1>12, <2>1, <2>2 DEF ImportInv, OverlapsTold
    <3>2. importer'[c].pc = "replying" /\ importer'[c].key = i /\ importer'[c].overlapped
      BY <1>3, <1>6, <2>2, <3>1
    <3> QED
      BY <3>2 DEF Marked
  <2>3. CASE i # key
    BY <1>5, <1>10, <1>12, <1>t, <2>1, <2>3 DEF ImportInv, OverlapsTold
  <2> QED
    BY <2>2, <2>3
<1>13. ASSUME NEW k \in IdemKeys, NEW i \in WithKey(k)', NEW j \in WithKey(k)', i # j
       PROVE  Marked(k)'
  <2>1. CASE i \in WithKey(k) /\ j \in WithKey(k)
    BY <1>10, <1>13, <2>1 DEF ImportInv, OverlapsTold
  <2>2. CASE i \notin WithKey(k) \/ j \notin WithKey(k)
    <3>1. k = key /\ WithKey(k) # {}
      BY <1>5, <1>13, <2>2
    <3>2. Marked(k)
      BY <1>1, <1>k, <3>1 DEF ImportInv, OverlapsTold
    <3> QED
      BY <1>10, <3>2
  <2> QED
    BY <2>1, <2>2
<1>14. OverlapsTold'
  BY <1>11, <1>12, <1>13 DEF OverlapsTold
<1> QED
  BY <1>7, <1>8, <1>9, <1>14 DEF ImportInv

(* A request is answered.                                                  *)
LEMMA ReplyStep ==
    ASSUME ImportInv, NEW c \in Importers, ReplyImport(c)
    PROVE  ImportInv'
<1>t. \A d \in Importers : importer[d] \in Importees /\ importer[d].key \in IdemKeys
                           /\ importer[d].host \in ImportHosts /\ importer[d].overlapped \in BOOLEAN
  BY DEF ImportInv, ImportShape, Importees
<1>1. PICK i \in Importees : i = importer[c]
  BY <1>t
<1>2. /\ i.pc = "replying" /\ replies' = [replies EXCEPT ![i.host][i.key] = i.job]
      /\ answered' = answered \cup {[key |-> i.key, job |-> i.job, overlapped |-> i.overlapped]}
      /\ importer' = [importer EXCEPT ![c] = IdleImport] /\ importJobs' = importJobs
  BY <1>1 DEF ReplyImport, Answer
<1>3. \A k \in IdemKeys : WithKey(k)' = WithKey(k)
  BY <1>2 DEF WithKey
<1>4. HeedsInTime'
  BY <1>2 DEF ImportInv, HeedsInTime
<1>5. /\ importer' \in [Importers -> Importees] /\ importer'[c].pc = "idle"
      /\ \A d \in Importers : d # c => importer'[d] = importer[d]
  BY <1>2, AtRest DEF ImportInv, ImportShape
<1>6. i.key \in IdemKeys /\ i.job \in WithKey(i.key) /\ i.job \in Nat
  <2>1. i.key \in IdemKeys /\ i.job \in WithKey(i.key)
    BY <1>1, <1>2, <1>t DEF ImportInv, AnswersExist
  <2> QED
    BY <2>1, KeyRows DEF ImportInv
<1>7. ImportShape'
  <2>1. replies' \in [ImportHosts -> [IdemKeys -> Nat \cup {NoJob}]]
    BY <1>1, <1>2, <1>6, <1>t DEF ImportInv, ImportShape
  <2>2. answered' \subseteq [key : IdemKeys, job : Nat, overlapped : BOOLEAN]
    BY <1>1, <1>2, <1>6, <1>t DEF ImportInv, ImportShape
  <2> QED
    BY <1>2, <1>5, <2>1, <2>2 DEF ImportInv, ImportShape
<1>8. AnswersExist'
  <2>1. ASSUME NEW h \in ImportHosts, NEW k \in IdemKeys, replies'[h][k] # NoJob
        PROVE  replies'[h][k] \in WithKey(k)'
    <3>1. \/ h = i.host /\ k = i.key /\ replies'[h][k] = i.job
          \/ replies'[h][k] = replies[h][k]
      BY <1>1, <1>2, <1>t DEF ImportInv, ImportShape
    <3> QED
      BY <1>3, <1>6, <2>1, <3>1 DEF ImportInv, AnswersExist
  <2>2. ASSUME NEW k \in IdemKeys, NEW a \in answered', a.key = k PROVE a.job \in WithKey(k)'
    <3>1. CASE a \in answered
      BY <1>3, <2>2, <3>1 DEF ImportInv, AnswersExist
    <3>2. CASE a \notin answered
      BY <1>2, <1>3, <1>6, <2>2, <3>2
    <3> QED
      BY <3>1, <3>2
  <2>3. ASSUME NEW k \in IdemKeys, NEW d \in Importers, importer'[d].pc = "replying",
               importer'[d].key = k
        PROVE  importer'[d].job \in WithKey(k)'
    BY <1>3, <1>5, <1>t, <2>3 DEF ImportInv, AnswersExist
  <2> QED
    BY <2>1, <2>2, <2>3 DEF AnswersExist
<1>9. ASSUME NEW k \in IdemKeys, Marked(k) PROVE Marked(k)'
  <2>1. CASE \E a \in answered : a.key = k /\ a.overlapped
    BY <1>2, <2>1 DEF Marked
  <2>2. CASE \E d \in Importers : importer[d].pc = "replying" /\ importer[d].key = k
                                  /\ importer[d].overlapped
    <3>1. PICK d \in Importers : importer[d].pc = "replying" /\ importer[d].key = k
                                 /\ importer[d].overlapped
      BY <2>2
    <3>2. CASE d = c
      <4> DEFINE a == [key |-> i.key, job |-> i.job, overlapped |-> i.overlapped]
      <4>1. a \in answered' /\ a.key = k /\ a.overlapped
        BY <1>1, <1>2, <3>1, <3>2
      <4> QED
        BY <4>1 DEF Marked
    <3>3. CASE d # c
      BY <1>5, <3>1, <3>3 DEF Marked
    <3> QED
      BY <3>2, <3>3
  <2> QED
    BY <1>9, <2>1, <2>2 DEF Marked
<1>10. OverlapsTold'
  <2>1. \A d \in Importers : importer'[d].pc # "idle" => d # c /\ importer'[d] = importer[d]
    BY <1>5
  <2>2. ASSUME NEW k \in IdemKeys, NEW d \in Importers, importer'[d].pc = "inserting",
               importer'[d].key = k
        PROVE  WithKey(k)' = {} \/ Marked(k)'
    BY <1>3, <1>9, <1>t, <2>1, <2>2 DEF ImportInv, OverlapsTold
  <2>3. ASSUME NEW d \in Importers, NEW e \in Importers, d # e, importer'[d].pc # "idle",
               importer'[e].pc # "idle", importer'[d].key = importer'[e].key
        PROVE  importer'[d].overlapped
    BY <2>1, <2>3 DEF ImportInv, OverlapsTold
  <2> QED
    BY <1>3, <1>9, <2>2, <2>3 DEF ImportInv, OverlapsTold
<1> QED
  BY <1>4, <1>7, <1>8, <1>10 DEF ImportInv

(* Every step of the import endpoints and their jobs keeps the invariant.  *)
LEMMA ImportStepKeeps == ImportInv /\ [ImportNext]_importVars => ImportInv'
<1> SUFFICES ASSUME ImportInv, [ImportNext]_importVars PROVE ImportInv'
  OBVIOUS
<1>t. \A d \in Importers : importer[d] \in Importees /\ importer[d].key \in IdemKeys
  BY DEF ImportInv, ImportShape, Importees
<1>1. ASSUME NEW c \in Importers, NEW h \in ImportHosts, NEW k \in IdemKeys,
             NEW kind \in ImportKinds, ReceiveImport(c, h, k, kind)
      PROVE  ImportInv'
  BY <1>1, ReceiveStep
<1>2. ASSUME NEW c \in Importers, AskForKey(c) PROVE ImportInv'
  <2> DEFINE same == WithKey(importer[c].key)
             to == IF same = {} THEN "inserting" ELSE "replying"
             j == IF same = {} THEN NoJob ELSE Latest(same)
  <2>x. PICK x \in Importees : x = importer[c]
    BY <1>t
  <2> DEFINE r == [x EXCEPT !.pc = to, !.job = j]
  <2>1. same # {} => j \in same /\ j \in Nat
    BY <1>t, KeyRows DEF ImportInv
  <2>2. to \in {"inserting", "replying"} /\ j \in Nat \cup {NoJob}
    BY <2>1
  <2>3. /\ importer' = [importer EXCEPT ![c] = r] /\ importJobs' = importJobs
        /\ replies' = replies /\ answered' = answered /\ importer[c].pc = "asking"
    BY <1>2, <2>x DEF AskForKey
  <2>4. /\ r \in Importees /\ r.pc = to /\ r.job = j /\ r.key = importer[c].key
        /\ r.overlapped = importer[c].overlapped
    <3> HIDE DEF to, j
    <3>1. /\ r \in Importees /\ r.pc = to /\ r.job = j /\ r.key = x.key
          /\ r.overlapped = x.overlapped
      BY <2>2 DEF Importees
    <3> QED
      BY <2>x, <3>1
  <2>5. /\ to = "inserting" => same = {}
        /\ to = "replying" => j \in same
    BY <2>1
  <2> HIDE DEF to, j, r
  <2> QED
    BY <2>2, <2>3, <2>4, <2>5, RequestMoves
<1>3. ASSUME NEW c \in Importers, InsertImport(c) PROVE ImportInv'
  BY <1>3, InsertStep
<1>4. ASSUME NEW c \in Importers, ReplyImport(c) PROVE ImportInv'
  BY <1>4, ReplyStep
<1>5. ASSUME NEW c \in Importers, ImportFails(c) PROVE ImportInv'
  BY <1>5, AtRest, RequestMoves DEF ImportFails
<1>6. ASSUME NEW h \in ImportHosts, NEW k \in IdemKeys, ForgetReply(h, k) PROVE ImportInv'
  <2>1. /\ replies' \in [ImportHosts -> [IdemKeys -> Nat \cup {NoJob}]]
        /\ \A i \in ImportHosts, l \in IdemKeys : replies'[i][l] \in {replies[i][l], NoJob}
        /\ importJobs' = importJobs /\ importer' = importer /\ answered' = answered
    BY <1>6 DEF ForgetReply, ImportInv, ImportShape
  <2>2. ImportShape' /\ AnswersExist'
    BY <2>1 DEF ImportInv, ImportShape, AnswersExist, WithKey
  <2> QED
    BY <2>1, <2>2 DEF ImportInv, OverlapsTold, HeedsInTime, WithKey, Marked
<1>7. ASSUME NEW j \in DOMAIN importJobs,
             StartImport(j) \/ InstallNext(j) \/ EndImport(j) \/ CancelImport(j)
      PROVE  ImportInv'
  BY <1>7, JobSteps
<1>8. CASE UNCHANGED importVars
  BY <1>8 DEF importVars, ImportInv, ImportShape, AnswersExist, OverlapsTold, HeedsInTime,
     WithKey, Marked
<1> QED
  BY <1>1, <1>2, <1>3, <1>4, <1>5, <1>6, <1>7, <1>8 DEF ImportNext

(* The invariant of the imports holds.                                     *)
LEMMA ImportsAreSound == ImportSpec => []ImportInv
<1>1. ImportInit => ImportInv
  <2> SUFFICES ASSUME ImportInit PROVE ImportInv
    OBVIOUS
  <2>1. ImportShape
    BY AtRest DEF ImportInit, ImportShape
  <2>2. \A c \in Importers : importer[c].pc = "idle"
    BY AtRest DEF ImportInit
  <2> QED
    BY <2>1, <2>2 DEF ImportInit, ImportInv, AnswersExist, OverlapsTold, HeedsInTime, WithKey
<1> QED
  BY <1>1, ImportStepKeeps, PTL DEF ImportSpec

(* tryIdempotency and the import jobs: two requests of a key are answered  *)
(* with different jobs only if a request of that key overlapped another,   *)
(* and a cancelled import that has its signal ends one URL at most         *)
(* (import.routes.ts, importHandlers.ts).                                  *)
THEOREM ImportedOnce == ImportSpec => []ImportsOnce
<1>1. ImportInv => ImportsOnce
  <2> SUFFICES ASSUME ImportInv PROVE ImportsOnce
    OBVIOUS
  <2>1. ASSUME NEW a \in answered, NEW b \in answered, a.key = b.key, a.job # b.job
        PROVE  \E x \in answered \cup {importer[c] : c \in Importers} : x.key = a.key /\ x.overlapped
    <3>1. a.key \in IdemKeys /\ a.job \in WithKey(a.key) /\ b.job \in WithKey(a.key)
      BY <2>1 DEF ImportInv, ImportShape, AnswersExist
    <3>2. Marked(a.key)
      BY <2>1, <3>1 DEF ImportInv, OverlapsTold
    <3> QED
      BY <3>2 DEF Marked
  <2> QED
    BY <2>1 DEF ImportInv, HeedsInTime, ImportsOnce
<1> QED
  BY <1>1, ImportsAreSound, PTL
-----------------------------------------------------------------------------
(* The health sweeps.                                                      *)

SweepStates ==
    [stage : {"idle", "sweeping", "done", "stopped"}, list : SUBSET StreamAddons,
     todo : SUBSET StreamAddons, batch : SUBSET StreamAddons, seen : SUBSET StreamAddons, healthy : Nat]
Probes == [sweep : Sweeps, addon : StreamAddons]
Asked(s) == {a \in StreamAddons : [sweep |-> s, addon |-> a] \in probing \cup waiting}

(* An addon is to come, in the batch or seen, and is counted once: those   *)
(* of the batch that are asked now are the ones that are not yet seen.     *)
Asks(t, asked) ==
    /\ t.stage = "idle" => t.todo = {} /\ t.batch = {} /\ t.seen = {}
    /\ asked \subseteq t.batch \ t.seen /\ t.batch \subseteq t.seen \cup asked
    /\ t.stage = "sweeping" => t.todo \cup t.batch \cup t.seen = t.list
    /\ t.todo \cap t.batch = {} /\ t.todo \cap t.seen = {}
    /\ t.stage = "done" => t.seen = t.list /\ t.batch = {}
    /\ t.healthy <= Cardinality(t.seen)

(* The record of an addon that is known is true.                           *)
Remembered ==
    \A a \in known \cap present :
        /\ health[a].healthy = "yes" <=> a \in answering
        /\ health[a].circuit = "open" => a \in circuitOpen

HealthInv ==
    /\ HealthTypeOK /\ Remembered
    /\ sweep \in [Sweeps -> SweepStates]
    /\ probing \subseteq Probes /\ waiting \subseteq Probes /\ probing \cap waiting = {}
    /\ IsFiniteSet(InPool) /\ Cardinality(InPool) <= HealthLimit
    /\ \A s \in Sweeps : Asks(sweep[s], Asked(s))

(* A step that moves one sweep on and records nothing.                     *)
Sweeping(s, t) ==
    /\ sweep' = [sweep EXCEPT ![s] = t]
    /\ UNCHANGED <<health, addonVars, known, upsets>>
    /\ probing' \subseteq Probes /\ waiting' \subseteq Probes /\ probing' \cap waiting' = {}
    /\ outdated' = outdated /\ probing \subseteq probing'
    /\ \A u \in Sweeps \ {s} : Asked(u)' = Asked(u)
    /\ Asks(t, Asked(s)')
    /\ IsFiniteSet(InPool') /\ Cardinality(InPool') <= HealthLimit

LEMMA SweepGoesOn ==
    ASSUME HealthInv, NEW s \in Sweeps, NEW t \in SweepStates, Sweeping(s, t)
    PROVE  HealthInv'
<1>1. UNCHANGED <<health, addonVars, known, upsets>> /\ sweep' = [sweep EXCEPT ![s] = t]
  BY DEF Sweeping
<1>2. HealthTypeOK'
  BY <1>1 DEF Sweeping, HealthInv, HealthTypeOK, Probes, addonVars
<1>3. Remembered'
  BY <1>1 DEF HealthInv, Remembered, addonVars
<1>4. sweep' \in [Sweeps -> SweepStates]
  BY <1>1 DEF HealthInv
<1>5. ASSUME NEW u \in Sweeps PROVE Asks(sweep'[u], Asked(u)')
  <2>1. CASE u = s
    BY <1>1, <2>1 DEF Sweeping, HealthInv
  <2>2. CASE u # s
    <3>1. sweep'[u] = sweep[u] /\ Asked(u)' = Asked(u)
      BY <1>1, <2>2 DEF Sweeping, HealthInv
    <3> QED
      BY <3>1 DEF HealthInv
  <2> QED
    BY <2>1, <2>2
<1> QED
  BY <1>2, <1>3, <1>4, <1>5 DEF HealthInv, Sweeping

(* A step that probes nothing keeps the pool.                              *)
LEMMA PoolKeeps ==
    ASSUME HealthInv, probing' = probing
    PROVE  IsFiniteSet(InPool') /\ Cardinality(InPool') <= HealthLimit
<1>1. InPool' = InPool
  BY DEF InPool
<1> QED
  BY <1>1 DEF HealthInv

(* An addon that was asked and is seen is not counted twice.               *)
LEMMA SeenOnce ==
    ASSUME NEW t \in SweepStates, NEW asked, Asks(t, asked), NEW a \in asked,
           NEW k \in {0, 1}, NEW r \in SweepStates,
           r = [t EXCEPT !.seen = t.seen \cup {a}, !.healthy = t.healthy + k]
    PROVE  Asks(r, asked \ {a})
<1>1. /\ r.stage = t.stage /\ r.todo = t.todo /\ r.batch = t.batch
      /\ r.seen = t.seen \cup {a} /\ r.healthy = t.healthy + k /\ r.list = t.list
  BY DEF SweepStates
<1>2. a \in t.batch /\ a \notin t.seen /\ t.seen \subseteq StreamAddons /\ a \in StreamAddons
      /\ t.list \subseteq StreamAddons
  BY DEF Asks, SweepStates
<1>3. IsFiniteSet(t.seen) /\ Cardinality(r.seen) = Cardinality(t.seen) + 1
      /\ Cardinality(t.seen) \in Nat
  BY <1>1, <1>2, FS_Subset, FS_AddElement, FS_CardinalityType, HealthAssumption
<1>4. r.healthy <= Cardinality(r.seen)
  <2>1. t.healthy \in Nat /\ t.healthy <= Cardinality(t.seen)
    BY DEF Asks, SweepStates
  <2> QED
    BY <1>1, <1>3, <2>1
<1>5. /\ t.stage = "idle" => t.todo = {} /\ t.batch = {} /\ t.seen = {}
      /\ asked \subseteq t.batch \ t.seen /\ t.batch \subseteq t.seen \cup asked
      /\ t.stage = "sweeping" => t.todo \cup t.batch \cup t.seen = t.list
      /\ t.todo \cap t.batch = {} /\ t.todo \cap t.seen = {}
      /\ t.stage = "done" => t.seen = t.list /\ t.batch = {}
  BY DEF Asks
<1>6. r.stage = "idle" => r.todo = {} /\ r.batch = {} /\ r.seen = {}
  BY <1>1, <1>2, <1>5
<1>7. asked \ {a} \subseteq r.batch \ r.seen /\ r.batch \subseteq r.seen \cup (asked \ {a})
  BY <1>1, <1>5
<1>8. r.stage = "sweeping" => r.todo \cup r.batch \cup r.seen = r.list
  <2>1. a \in r.batch
    BY <1>1, <1>2
  <2> QED
    BY <1>1, <1>5, <2>1
<1>9. r.todo \cap r.batch = {} /\ r.todo \cap r.seen = {}
  BY <1>1, <1>2, <1>5
<1>10. r.stage = "done" => r.seen = r.list /\ r.batch = {}
  BY <1>1, <1>2, <1>5
<1> QED
  BY <1>4, <1>6, <1>7, <1>8, <1>9, <1>10 DEF Asks

(* The probes of the other sweeps are other probes.                        *)
LEMMA OthersAsked ==
    ASSUME NEW s \in Sweeps, NEW changed, \A p \in changed : p.sweep = s,
           probing' \cup waiting' \subseteq probing \cup waiting \cup changed,
           probing \cup waiting \subseteq probing' \cup waiting' \cup changed
    PROVE  \A u \in Sweeps \ {s} : Asked(u)' = Asked(u)
<1> SUFFICES ASSUME NEW u \in Sweeps \ {s}, NEW a \in StreamAddons
             PROVE  [sweep |-> u, addon |-> a] \in probing' \cup waiting'
                        <=> [sweep |-> u, addon |-> a] \in probing \cup waiting
  BY DEF Asked
<1>1. [sweep |-> u, addon |-> a].sweep = u
  OBVIOUS
<1>2. [sweep |-> u, addon |-> a] \notin changed
  BY <1>1
<1> QED
  BY <1>2

(* A sweep begins, ends a batch, or is stopped between two.                *)
LEMMA SweepMoves ==
    ASSUME HealthInv, NEW s \in Sweeps, StartSweep(s) \/ BatchEnds(s) \/ JobSweepStops(s)
    PROVE  HealthInv'
<1>1. PICK t \in SweepStates : t = sweep[s]
  BY DEF HealthInv
<1>2. /\ Asks(t, Asked(s)) /\ t.seen \subseteq StreamAddons /\ t.todo \subseteq StreamAddons
      /\ enabled \subseteq StreamAddons
  BY <1>1 DEF HealthInv, SweepStates, HealthTypeOK
<1>3. UNCHANGED <<health, addonVars, probing, waiting, outdated, known, upsets>>
  BY DEF StartSweep, BatchEnds, JobSweepStops
<1>4. \A u \in Sweeps : Asked(u)' = Asked(u)
  BY <1>3 DEF Asked
<1>5. ASSUME NEW r \in SweepStates, sweep' = [sweep EXCEPT ![s] = r], Asks(r, Asked(s))
      PROVE  HealthInv'
  <2>1. Sweeping(s, r)
    BY <1>3, <1>4, <1>5, PoolKeeps DEF Sweeping, HealthInv
  <2> QED
    BY <2>1, SweepGoesOn
<1>6. CASE StartSweep(s)
  <2> DEFINE r == [t EXCEPT !.stage = "sweeping", !.list = enabled, !.todo = enabled]
  <2>1. /\ r \in SweepStates /\ r.stage = "sweeping" /\ r.todo = enabled /\ r.batch = t.batch
        /\ r.seen = t.seen /\ r.healthy = t.healthy /\ r.list = enabled
    BY <1>2 DEF SweepStates
  <2>2. t.stage = "idle" /\ sweep' = [sweep EXCEPT ![s] = r]
    BY <1>1, <1>6 DEF StartSweep
  <2> HIDE DEF r
  <2>3. Asks(r, Asked(s))
    BY <1>2, <2>1, <2>2 DEF Asks
  <2> QED
    BY <1>5, <2>1, <2>2, <2>3
<1>7. CASE BatchEnds(s)
  <2> DEFINE r == [t EXCEPT !.batch = {}, !.stage = IF t.todo = {} THEN "done" ELSE t.stage]
  <2>1. r \in SweepStates /\ r.todo = t.todo /\ r.batch = {} /\ r.seen = t.seen
        /\ r.healthy = t.healthy /\ r.stage = (IF t.todo = {} THEN "done" ELSE t.stage)
        /\ r.list = t.list
    BY DEF SweepStates
  <2>2. t.stage = "sweeping" /\ sweep' = [sweep EXCEPT ![s] = r]
    BY <1>1, <1>7 DEF BatchEnds
  <2>3. Asked(s) = {}
    <3>1. \A p \in probing \cup waiting : p.sweep # s
      BY <1>7 DEF BatchEnds, ProbesOf
    <3>2. \A a \in StreamAddons : [sweep |-> s, addon |-> a].sweep = s
      OBVIOUS
    <3> QED
      BY <3>1, <3>2 DEF Asked
  <2> HIDE DEF r
  <2>4. t.batch \subseteq t.seen /\ t.todo \cup t.seen = t.list
    BY <1>2, <2>2, <2>3 DEF Asks
  <2>5. Asks(r, Asked(s))
    BY <1>2, <2>1, <2>2, <2>3, <2>4 DEF Asks
  <2> QED
    BY <1>5, <2>1, <2>2, <2>5
<1>8. CASE JobSweepStops(s)
  <2> DEFINE r == [t EXCEPT !.stage = "stopped"]
  <2>1. r \in SweepStates /\ r.stage = "stopped" /\ r.todo = t.todo /\ r.batch = t.batch
        /\ r.seen = t.seen /\ r.healthy = t.healthy /\ r.list = t.list
    BY DEF SweepStates
  <2>2. sweep' = [sweep EXCEPT ![s] = r]
    BY <1>1, <1>8 DEF JobSweepStops
  <2> HIDE DEF r
  <2>3. Asks(r, Asked(s))
    BY <1>2, <2>1 DEF Asks
  <2> QED
    BY <1>5, <2>1, <2>2, <2>3
<1> QED
  BY <1>6, <1>7, <1>8

(* The next batch is taken from those to come, of which none is asked.     *)
LEMMA BatchGoesOn ==
    ASSUME HealthInv, NEW s \in Sweeps, NextBatch(s)
    PROVE  HealthInv'
<1>1. PICK t \in SweepStates : t = sweep[s]
  BY DEF HealthInv
<1>2. PICK batch \in SUBSET t.todo :
          /\ sweep' = [sweep EXCEPT ![s].batch = batch, ![s].todo = @ \ batch]
          /\ IF s \in JobSweeps
             THEN probing' = probing \cup ProbesFor(s, batch) /\ UNCHANGED waiting
             ELSE waiting' = waiting \cup ProbesFor(s, batch) /\ UNCHANGED probing
  BY <1>1 DEF NextBatch
<1> DEFINE r == [t EXCEPT !.batch = batch, !.todo = t.todo \ batch]
<1>3. /\ t.stage = "sweeping" /\ t.batch = {} /\ Asks(t, Asked(s)) /\ t.todo \subseteq StreamAddons
      /\ UNCHANGED <<health, addonVars, outdated, known, upsets>>
  BY <1>1 DEF NextBatch, HealthInv, SweepStates
<1>4. r \in SweepStates /\ r.stage = t.stage /\ r.todo = t.todo \ batch /\ r.batch = batch
      /\ r.seen = t.seen /\ r.healthy = t.healthy /\ r.list = t.list
  BY <1>3 DEF SweepStates
<1>5. sweep' = [sweep EXCEPT ![s] = r]
  BY <1>1, <1>2
<1> HIDE DEF r
<1>6. Asked(s) = {}
  BY <1>3 DEF Asks
<1>7. batch \subseteq StreamAddons /\ ProbesFor(s, batch) \subseteq Probes
  BY <1>3 DEF ProbesFor, Probes
<1>8. probing' \cup waiting' = probing \cup waiting \cup ProbesFor(s, batch)
  BY <1>2
<1>9. \A a \in StreamAddons : [sweep |-> s, addon |-> a] \in ProbesFor(s, batch) <=> a \in batch
  <2> SUFFICES ASSUME NEW a \in StreamAddons, [sweep |-> s, addon |-> a] \in ProbesFor(s, batch)
               PROVE  a \in batch
    BY DEF ProbesFor
  <2>1. PICK b \in batch : [sweep |-> s, addon |-> a] = [sweep |-> s, addon |-> b]
    BY DEF ProbesFor
  <2>2. a = b
    BY <2>1
  <2> QED
    BY <2>2
<1>10. Asked(s)' = batch
  <2>1. \A a \in StreamAddons : [sweep |-> s, addon |-> a] \in probing' \cup waiting' <=> a \in batch
    BY <1>6, <1>8, <1>9 DEF Asked
  <2> QED
    BY <1>7, <2>1 DEF Asked
<1>11. Asks(r, batch)
  BY <1>3, <1>4, <1>6 DEF Asks
<1>12. \A u \in Sweeps \ {s} : Asked(u)' = Asked(u)
  <2>1. \A p \in ProbesFor(s, batch) : p.sweep = s
    BY DEF ProbesFor
  <2> QED
    BY <1>8, <2>1, OthersAsked
<1>13. probing' \cap waiting' = {}
  <2>1. ProbesFor(s, batch) \cap (probing \cup waiting) = {}
    <3> SUFFICES ASSUME NEW a \in batch, [sweep |-> s, addon |-> a] \in probing \cup waiting
                 PROVE  FALSE
      BY DEF ProbesFor
    <3>1. a \in Asked(s)
      BY <1>7 DEF Asked
    <3> QED
      BY <1>6, <3>1
  <2> QED
    BY <1>2, <2>1 DEF HealthInv
<1>14. InPool' = InPool
  <2>1. CASE s \in JobSweeps
    <3>1. \A p \in ProbesFor(s, batch) : p.sweep \notin MonitorSweeps
      BY <2>1, HealthAssumption DEF ProbesFor
    <3> QED
      BY <1>2, <2>1, <3>1 DEF InPool
  <2>2. CASE s \notin JobSweeps
    BY <1>2, <2>2 DEF InPool
  <2> QED
    BY <2>1, <2>2
<1>15. probing' \subseteq Probes /\ waiting' \subseteq Probes
  BY <1>2, <1>7 DEF HealthInv
<1>17. probing \subseteq probing'
  BY <1>2
<1>16. Sweeping(s, r)
  BY <1>3, <1>5, <1>10, <1>11, <1>12, <1>13, <1>14, <1>15, <1>17 DEF Sweeping, HealthInv
<1> QED
  BY <1>4, <1>16, SweepGoesOn

(* A probe gets its slot.                                                  *)
LEMMA ProbeBegins ==
    ASSUME HealthInv, NEW p \in waiting, ProbeStarts(p)
    PROVE  HealthInv'
<1>1. /\ Cardinality(InPool) < HealthLimit /\ p \in Probes
      /\ waiting' = waiting \ {p} /\ probing' = probing \cup {p}
      /\ UNCHANGED <<health, addonVars, sweep, outdated, known, upsets>>
  BY DEF ProbeStarts, HealthInv
<1>2. \A u \in Sweeps : Asked(u)' = Asked(u)
  BY <1>1 DEF Asked
<1>3. InPool' = InPool \/ InPool' = InPool \cup {p}
  BY <1>1 DEF InPool
<1>4. IsFiniteSet(InPool') /\ Cardinality(InPool') <= HealthLimit
  <2>1. IsFiniteSet(InPool) /\ Cardinality(InPool) \in Nat /\ HealthLimit \in Nat
    BY FS_CardinalityType, HealthAssumption DEF HealthInv
  <2>2. IsFiniteSet(InPool \cup {p})
        /\ (Cardinality(InPool \cup {p}) = Cardinality(InPool)
            \/ Cardinality(InPool \cup {p}) = Cardinality(InPool) + 1)
    BY <2>1, FS_AddElement
  <2>3. Cardinality(InPool) < HealthLimit
    BY <1>1
  <2>4. Cardinality(InPool) <= HealthLimit /\ Cardinality(InPool \cup {p}) <= HealthLimit
    BY <2>1, <2>2, <2>3
  <2> QED
    BY <1>3, <2>1, <2>2, <2>4, Zenon
<1>5. HealthTypeOK' /\ Remembered'
  BY <1>1 DEF HealthInv, HealthTypeOK, Remembered, addonVars
<1>6. \A s \in Sweeps : Asks(sweep[s], Asked(s))'
  BY <1>1, <1>2 DEF HealthInv
<1> QED
  BY <1>1, <1>4, <1>5, <1>6 DEF HealthInv

(* A probe that is over is no longer asked, and its addon is seen.         *)
LEMMA ProbeOver ==
    ASSUME HealthInv, NEW p \in probing \cup waiting, NEW k \in {0, 1},
           probing' = probing \ {p}, waiting' = waiting \ {p},
           sweep' = [sweep EXCEPT ![p.sweep].seen = @ \cup {p.addon},
                                  ![p.sweep].healthy = @ + k],
           HealthTypeOK', Remembered'
    PROVE  HealthInv'
<1>1. PICK s \in Sweeps, a \in StreamAddons : p = [sweep |-> s, addon |-> a]
  BY DEF HealthInv, Probes
<1>2. PICK t \in SweepStates : t = sweep[s]
  BY DEF HealthInv
<1> DEFINE r == [t EXCEPT !.seen = t.seen \cup {a}, !.healthy = t.healthy + k]
<1>3. r \in SweepStates
  <2>1. t.seen \cup {a} \in SUBSET StreamAddons /\ t.healthy + k \in Nat
    BY DEF SweepStates
  <2> QED
    BY <2>1 DEF SweepStates
<1>4. sweep' = [sweep EXCEPT ![s] = r]
  BY <1>1, <1>2
<1> HIDE DEF r
<1>5. Asks(t, Asked(s)) /\ a \in Asked(s)
  BY <1>1, <1>2 DEF HealthInv, Asked
<1>6. Asks(r, Asked(s) \ {a})
  BY <1>3, <1>5, SeenOnce DEF r
<1>7. probing' \cup waiting' = (probing \cup waiting) \ {p}
  OBVIOUS
<1>8. Asked(s)' = Asked(s) \ {a}
  <2>1. \A b \in StreamAddons : [sweep |-> s, addon |-> b] = p <=> b = a
    <3> SUFFICES ASSUME NEW b \in StreamAddons, [sweep |-> s, addon |-> b] = p PROVE b = a
      BY <1>1
    <3>1. [sweep |-> s, addon |-> b].addon = b /\ p.addon = a
      BY <1>1
    <3> QED
      BY <3>1
  <2> QED
    BY <1>7, <2>1 DEF Asked
<1>9. \A u \in Sweeps \ {s} : Asked(u)' = Asked(u)
  <2>1. \A q \in {p} : q.sweep = s
    BY <1>1
  <2> QED
    BY <1>7, <2>1, OthersAsked
<1>10. IsFiniteSet(InPool') /\ Cardinality(InPool') <= HealthLimit
  <2>1. PICK some \in SUBSET InPool : some = InPool'
    BY DEF InPool
  <2>2. IsFiniteSet(InPool) /\ Cardinality(InPool) <= HealthLimit /\ HealthLimit \in Nat
    BY HealthAssumption DEF HealthInv
  <2>3. IsFiniteSet(some) /\ Cardinality(some) <= Cardinality(InPool)
    BY <2>2, FS_Subset
  <2>4. Cardinality(some) \in Nat /\ Cardinality(InPool) \in Nat
    BY <2>2, <2>3, FS_CardinalityType
  <2>5. Cardinality(some) <= HealthLimit
    BY <2>2, <2>3, <2>4
  <2> QED
    BY <2>1, <2>3, <2>5
<1>11. ASSUME NEW u \in Sweeps PROVE Asks(sweep'[u], Asked(u)')
  <2>1. CASE u = s
    BY <1>4, <1>6, <1>8, <2>1 DEF HealthInv
  <2>2. CASE u # s
    <3>1. sweep'[u] = sweep[u] /\ Asked(u)' = Asked(u)
      BY <1>4, <1>9, <2>2 DEF HealthInv
    <3> QED
      BY <3>1 DEF HealthInv
  <2> QED
    BY <2>1, <2>2
<1>12. sweep' \in [Sweeps -> SweepStates]
  BY <1>3, <1>4 DEF HealthInv
<1>13. probing' \subseteq Probes /\ waiting' \subseteq Probes /\ probing' \cap waiting' = {}
  BY DEF HealthInv
<1> QED
  BY <1>10, <1>11, <1>12, <1>13 DEF HealthInv

(* Every step keeps the invariant.                                         *)
LEMMA HealthStepKeeps ==
    ASSUME HealthInv, [HealthNext]_healthVars
    PROVE  HealthInv'
<1>1. CASE UNCHANGED healthVars
  BY <1>1 DEF healthVars, addonVars, HealthInv, HealthTypeOK, Remembered, InPool, Asked
<1>2. ASSUME NEW s \in Sweeps, StartSweep(s) \/ NextBatch(s) \/ BatchEnds(s) \/ JobSweepStops(s)
      PROVE  HealthInv'
  BY <1>2, SweepMoves, BatchGoesOn
<1>3. ASSUME NEW p \in waiting, ProbeStarts(p) PROVE HealthInv'
  BY <1>3, ProbeBegins
<1>4. ASSUME NEW p \in waiting, ProbeRefused(p) PROVE HealthInv'
  <2>1. /\ waiting' = waiting \ {p} /\ probing' = probing /\ p \notin probing
        /\ UNCHANGED <<health, addonVars, outdated, known, upsets>>
    BY <1>4 DEF ProbeRefused, HealthInv
  <2>2. sweep' = [sweep EXCEPT ![p.sweep].seen = @ \cup {p.addon}, ![p.sweep].healthy = @ + 0]
    BY <1>4 DEF ProbeRefused, Tally
  <2>3. HealthTypeOK' /\ Remembered'
    BY <2>1 DEF HealthInv, HealthTypeOK, Remembered, addonVars
  <2>4. probing' = probing \ {p}
    BY <2>1
  <2> QED
    BY <2>1, <2>2, <2>3, <2>4, ProbeOver
<1>5. ASSUME NEW p \in probing, ProbeEnds(p) PROVE HealthInv'
  <2>1. PICK ok \in BOOLEAN, c \in {"unknown", "open", "closed"} :
            /\ p \notin outdated => (ok <=> p.addon \in answering)
            /\ c = "open" => p.addon \in circuitOpen
            /\ probing' = probing \ {p} /\ outdated' = outdated \ {p}
            /\ UNCHANGED <<addonVars, waiting, upsets>>
            /\ health' = IF p.addon \in present
                         THEN [health EXCEPT ![p.addon] = Recorded(health[p.addon], ok, c)]
                         ELSE health
            /\ known' = IF p \in outdated THEN known \ {p.addon} ELSE known \cup {p.addon}
            /\ sweep' = Tally(p.sweep, p.addon, ok)
    <3>1. PICK c \in {"unknown", "open", "closed"} :
              c = IF p.sweep \in JobSweeps THEN "unknown"
                  ELSE IF p.addon \in circuitOpen THEN "open" ELSE "closed"
      OBVIOUS
    <3>2. PICK ok \in BOOLEAN :
              /\ p \notin outdated => (ok <=> p.addon \in answering)
              /\ probing' = probing \ {p} /\ outdated' = outdated \ {p}
              /\ UNCHANGED <<addonVars, waiting, upsets>>
              /\ health' = IF p.addon \in present
                           THEN [health EXCEPT ![p.addon] = Recorded(health[p.addon], ok, c)]
                           ELSE health
              /\ known' = IF p \in outdated THEN known \ {p.addon} ELSE known \cup {p.addon}
              /\ sweep' = Tally(p.sweep, p.addon, ok)
      BY <1>5, <3>1 DEF ProbeEnds
    <3>3. c = "open" => p.addon \in circuitOpen
      BY <3>1
    <3> QED
      BY <3>2, <3>3
  <2>2. PICK k \in {0, 1} : k = IF ok THEN 1 ELSE 0
    OBVIOUS
  <2>3. sweep' = [sweep EXCEPT ![p.sweep].seen = @ \cup {p.addon}, ![p.sweep].healthy = @ + k]
    BY <2>1, <2>2 DEF Tally
  <2>4. p \notin waiting /\ p.addon \in StreamAddons
    BY DEF HealthInv, Probes
  <2> DEFINE h == Recorded(health[p.addon], ok, c)
  <2>5. /\ h \in [healthy : {"none", "yes", "no"}, circuit : {"unknown", "open", "closed"}]
        /\ (h.healthy = "yes") = ok /\ h.circuit = c
    BY DEF Recorded
  <2> HIDE DEF h
  <2>6. HealthTypeOK'
    BY <2>1, <2>4, <2>5 DEF HealthInv, HealthTypeOK, Probes, h, addonVars
  <2>7. Remembered'
    <3> SUFFICES ASSUME NEW a \in known' \cap present
                 PROVE  /\ health'[a].healthy = "yes" <=> a \in answering
                        /\ health'[a].circuit = "open" => a \in circuitOpen
      BY <2>1 DEF Remembered, addonVars
    <3>1. CASE a = p.addon
      <4>1. health'[a] = h
        BY <2>1, <3>1 DEF HealthInv, HealthTypeOK, h
      <4>2. p \notin outdated
        BY <2>1, <3>1
      <4> QED
        BY <2>1, <2>5, <3>1, <4>1, <4>2
    <3>2. CASE a # p.addon
      <4>1. health'[a] = health[a] /\ a \in known
        BY <2>1, <3>2 DEF HealthInv, HealthTypeOK
      <4> QED
        BY <4>1 DEF HealthInv, Remembered
    <3> QED
      BY <3>1, <3>2
  <2>8. waiting' = waiting \ {p}
    BY <2>1, <2>4
  <2> QED
    BY <2>1, <2>3, <2>6, <2>7, <2>8, ProbeOver
<1>6. ASSUME NEW a \in StreamAddons,
             \/ AddonGoes(a) \/ AddonComes(a) \/ AddonToggled(a) \/ ServerFlips(a) \/ CircuitFlips(a)
      PROVE  HealthInv'
  <2>1. /\ UNCHANGED <<sweep, probing, waiting>> /\ upsets' = upsets + 1 /\ upsets < MaxUpsets
        /\ outdated' \subseteq probing \cup outdated /\ known' \subseteq known
    BY <1>6 DEF AddonGoes, AddonComes, AddonToggled, ServerFlips, CircuitFlips, Changes
  <2>2. HealthTypeOK'
    <3>1. /\ health' = health \/ health' = [health EXCEPT ![a] = NoHealth]
          /\ enabled' \subseteq present' /\ present' \subseteq StreamAddons
          /\ answering' \subseteq StreamAddons /\ circuitOpen' \subseteq StreamAddons
      BY <1>6 DEF AddonGoes, AddonComes, AddonToggled, ServerFlips, CircuitFlips, Changes,
                  HealthInv, HealthTypeOK
    <3> QED
      BY <2>1, <3>1, HealthAssumption DEF HealthInv, HealthTypeOK, NoHealth
  <2>3. Remembered'
    <3>1. CASE AddonToggled(a)
      BY <3>1 DEF AddonToggled, HealthInv, Remembered
    <3>2. CASE ~AddonToggled(a)
      <4>1. /\ a \notin known'
            /\ \A b \in StreamAddons \ {a} :
                  /\ b \in present' <=> b \in present
                  /\ b \in answering' <=> b \in answering
                  /\ b \in circuitOpen' <=> b \in circuitOpen
                  /\ health'[b] = health[b]
        BY <1>6, <3>2 DEF AddonGoes, AddonComes, ServerFlips, CircuitFlips, Changes,
                          HealthInv, HealthTypeOK
      <4> QED
        BY <2>1, <4>1 DEF HealthInv, HealthTypeOK, Remembered
    <3> QED
      BY <3>1, <3>2
  <2>4. \A s \in Sweeps : Asks(sweep[s], Asked(s))'
    BY <2>1 DEF HealthInv, Asked
  <2>5. IsFiniteSet(InPool') /\ Cardinality(InPool') <= HealthLimit
    BY <2>1, PoolKeeps
  <2> QED
    BY <2>1, <2>2, <2>3, <2>4, <2>5 DEF HealthInv
<1> QED
  BY <1>1, <1>2, <1>3, <1>4, <1>5, <1>6 DEF HealthNext

(* The invariant of the sweeps holds.                                      *)
LEMMA SweepsAreSound == HealthSpec => []HealthInv
<1>1. HealthInit => HealthInv
  <2> SUFFICES ASSUME HealthInit PROVE HealthInv
    OBVIOUS
  <2> DEFINE t == [stage |-> "idle", list |-> {}, todo |-> {}, batch |-> {}, seen |-> {},
                   healthy |-> 0]
  <2>1. t \in SweepStates /\ Asks(t, {})
    BY FS_EmptySet DEF SweepStates, Asks
  <2>2. /\ sweep = [s \in Sweeps |-> t] /\ probing = {} /\ waiting = {} /\ circuitOpen = {}
        /\ health = [a \in StreamAddons |-> NoHealth]
        /\ present = StreamAddons /\ enabled = StreamAddons /\ answering = StreamAddons
        /\ outdated = {} /\ known = {} /\ upsets = 0
    BY DEF HealthInit
  <2> HIDE DEF t
  <2>3. InPool = {} /\ \A s \in Sweeps : Asked(s) = {}
    BY <2>2 DEF InPool, Asked
  <2>4. IsFiniteSet(InPool) /\ Cardinality(InPool) <= HealthLimit
    BY <2>3, FS_EmptySet, HealthAssumption
  <2>5. HealthTypeOK /\ Remembered
    BY <2>2, HealthAssumption DEF HealthTypeOK, Remembered, NoHealth
  <2> QED
    BY <2>1, <2>2, <2>3, <2>4, <2>5 DEF HealthInv
<1> QED
  BY <1>1, HealthStepKeeps, PTL DEF HealthSpec

(* HealthMonitor: the monitor's probes hold no more than the pool's slots, *)
(* a sweep that is over has seen every addon of its list once, and, once   *)
(* every enabled addon has been probed since it last changed, the status   *)
(* is what their servers and circuits are, for any number of sweeps and    *)
(* addons, none enabled included (monitor.ts, manager.ts).                 *)
THEOREM HealthIsSound == HealthSpec => [](SweepsBounded /\ StatusExplained)
<1>1. HealthInv => SweepsBounded
  <2> SUFFICES ASSUME HealthInv, NEW s \in Sweeps, sweep[s].stage = "done"
               PROVE  sweep[s].seen = sweep[s].list
                      /\ sweep[s].healthy <= Cardinality(sweep[s].list)
    BY DEF HealthInv, SweepsBounded
  <2> QED
    BY DEF HealthInv, Asks
<1>2. HealthInv => StatusExplained
  <2> SUFFICES ASSUME HealthInv, enabled \subseteq known PROVE StatusExplained
    BY DEF StatusExplained
  <2> DEFINE able == {a \in enabled : a \in answering /\ a \notin circuitOpen}
  <2>1. UsableAddons = able
    <3> SUFFICES ASSUME NEW a \in enabled PROVE Usable(a) <=> a \in answering /\ a \notin circuitOpen
      BY DEF UsableAddons
    <3>1. a \in known \cap present
      BY DEF HealthInv, HealthTypeOK
    <3> QED
      BY <3>1 DEF Usable, HealthInv, Remembered
  <2>2. Cardinality(enabled) \in Nat /\ MinRatioPct \in Nat
    BY FS_Subset, FS_CardinalityType, HealthAssumption DEF HealthInv, HealthTypeOK
  <2>3. MinRatioPct <= 100 => ~TooFew(enabled)
    <3>1. PICK n \in Nat : n = Cardinality(enabled)
      BY <2>2
    <3>2. ASSUME NEW m \in Nat, m <= 100 PROVE m * n <= 100 * n
      BY <3>2
    <3>3. PICK mn \in Nat : mn = MinRatioPct * n
      BY <2>2
    <3>4. 2 * MinRatioPct * n = 2 * mn
      BY <2>2, <3>3
    <3>5. MinRatioPct <= 100 => mn <= 100 * n
      BY <2>2, <3>2, <3>3
    <3> QED
      BY <3>1, <3>4, <3>5 DEF TooFew
  <2> HIDE DEF able
  <2>4. ServiceStatus = "ok" <=> enabled = {} \/ (able # {} /\ ~TooFew(able))
    BY <2>1 DEF ServiceStatus
  <2>5. ServiceStatus \in {"ok", "degraded"} /\ able \subseteq enabled
    BY DEF ServiceStatus, able
  <2>6. /\ able = {} => ServiceStatus = IF enabled = {} THEN "ok" ELSE "degraded"
        /\ able # {} => (ServiceStatus = "ok" <=> ~TooFew(able))
        /\ able = enabled /\ MinRatioPct <= 100 => ServiceStatus = "ok"
    BY <2>3, <2>4, <2>5
  <2> QED
    BY <2>6 DEF StatusExplained, able
<1> QED
  BY <1>1, <1>2, SweepsAreSound, PTL
----------------------------------------------------------------------------
(* The audit log.                                                          *)

(* A log that has no operator twice.                                       *)
OnceEach(log) == \A i, j \in DOMAIN log : log[i].by = log[j].by => i = j
Has(o, log) == \E i \in DOMAIN log : log[i].by = o

(* In such a log an operator is recorded once or not at all.               *)
LEMMA RecordedOnce ==
    ASSUME NEW o, NEW log, OnceEach(log)
    PROVE  TimesRecorded(o, log) = IF Has(o, log) THEN 1 ELSE 0
<1>1. CASE Has(o, log)
  <2>1. PICK i \in DOMAIN log : log[i].by = o
    BY <1>1 DEF Has
  <2>2. {j \in DOMAIN log : log[j].by = o} = {i}
    BY <2>1 DEF OnceEach
  <2> QED
    BY <2>2, <1>1, FS_Singleton DEF TimesRecorded
<1>2. CASE ~Has(o, log)
  <2>1. {j \in DOMAIN log : log[j].by = o} = {}
    BY <1>2 DEF Has
  <2> QED
    BY <2>1, <1>2, FS_EmptySet DEF TimesRecorded
<1> QED
  BY <1>1, <1>2

OperatorStates ==
    [pc : {"idle", "chained", "changed", "missing", "appending", "over", "lost"}, own : Nat,
     event : AuditEvents \cup {NoEvent}, code : {0, 200, 404, 500}]

AuditShape ==
    /\ manRev \in Nat /\ held \in BOOLEAN /\ auditFaults \in 0..MaxAuditFaults
    /\ chain \in Seq(Operators) /\ ring \in Seq(AuditEvents) /\ auditFile \in Seq(AuditEvents)
    /\ Len(ring) <= MemoryCap
    /\ operator \in [Operators -> OperatorStates]

(* Who waits in the chain waits once, and nobody else is in it.            *)
ChainSound ==
    /\ \A i, j \in DOMAIN chain : chain[i] = chain[j] => i = j
    /\ \A i \in DOMAIN chain : operator[chain[i]].pc = "chained"

(* The ring has what its requests recorded, in the order of revisions.     *)
RingSound ==
    /\ OnceEach(ring)
    /\ \A i \in DOMAIN ring :
          /\ operator[ring[i].by].pc \in {"appending", "over"}
          /\ ring[i] = operator[ring[i].by].event
          /\ operator[ring[i].by].own <= ring[i].rev /\ ring[i].rev <= manRev
    /\ \A i, j \in DOMAIN ring : i < j => ring[i].rev <= ring[j].rev

(* The file has the events of requests that are over.                      *)
AuditFileSound ==
    /\ OnceEach(auditFile)
    /\ \A i \in DOMAIN auditFile : operator[auditFile[i].by].pc = "over"

(* What is said of one request.                                            *)
OperatorSound(o) ==
    /\ operator[o].own <= manRev
    /\ operator[o].pc # "over" => operator[o].code = 0
    /\ operator[o].code = 200 /\ FailClosed => Has(o, auditFile)
    /\ operator[o].pc = "over" => Has(o, auditFile) \/ auditFaults > 0
    /\ operator[o].pc = "appending" =>
          /\ operator[o].event \in AuditEvents /\ operator[o].event.by = o
          /\ \/ Has(o, ring)
             \/ Len(ring) = MemoryCap /\ \A i \in DOMAIN ring : ring[i].rev >= operator[o].event.rev

AuditInv ==
    /\ AuditShape /\ ChainSound /\ RingSound /\ AuditFileSound
    /\ \A o \in Operators : OperatorSound(o)

LEMMA AuditConcludes == AuditInv => AuditSound
<1> SUFFICES ASSUME AuditInv PROVE AuditSound
  OBVIOUS
<1>1. OnceEach(auditFile) /\ OnceEach(ring)
  BY DEF AuditInv, RingSound, AuditFileSound
<1>2. ASSUME NEW o \in Operators
      PROVE  /\ TimesRecorded(o, auditFile) <= 1
             /\ operator[o].code = 200 /\ FailClosed => TimesRecorded(o, auditFile) = 1
             /\ operator[o].pc = "over" => TimesRecorded(o, auditFile) = 1 \/ auditFaults > 0
             /\ operator[o].pc = "appending" =>
                  \/ TimesRecorded(o, ring) = 1
                  \/ Len(ring) = MemoryCap /\ \A i \in DOMAIN ring : ring[i].rev >= operator[o].event.rev
  <2>1. /\ TimesRecorded(o, auditFile) = IF Has(o, auditFile) THEN 1 ELSE 0
        /\ TimesRecorded(o, ring) = IF Has(o, ring) THEN 1 ELSE 0
    BY <1>1, RecordedOnce
  <2>2. OperatorSound(o)
    BY DEF AuditInv
  <2> QED
    BY <2>1, <2>2 DEF OperatorSound
<1>3. ASSUME NEW o \in Operators, operator[o].pc \in {"idle", "chained"}
      PROVE  TimesRecorded(o, auditFile \o ring) = 0
  <2>1. ~Has(o, auditFile) /\ ~Has(o, ring)
    BY <1>3 DEF AuditInv, RingSound, AuditFileSound, Has
  <2>2. ring \in Seq(AuditEvents) /\ auditFile \in Seq(AuditEvents)
    BY DEF AuditInv, AuditShape
  <2>3. \A i \in DOMAIN (auditFile \o ring) : (auditFile \o ring)[i].by # o
    BY <2>1, <2>2, ConcatProperties DEF Has
  <2>4. {i \in DOMAIN (auditFile \o ring) : (auditFile \o ring)[i].by = o} = {}
    BY <2>3
  <2> QED
    BY <2>4, FS_EmptySet DEF TimesRecorded
<1>4. /\ \A i, j \in DOMAIN ring : i < j => ring[i].rev <= ring[j].rev
      /\ \A i \in DOMAIN ring : ring[i].rev >= operator[ring[i].by].own
  <2>1. ring \in Seq(AuditEvents) /\ operator \in [Operators -> OperatorStates]
    BY DEF AuditInv, AuditShape
  <2>2. \A i \in DOMAIN ring : ring[i] \in AuditEvents
    BY <2>1, ElementOfSeq
  <2> QED
    BY <2>1, <2>2 DEF AuditInv, RingSound, AuditEvents, OperatorStates
<1> QED
  BY <1>2, <1>3, <1>4 DEF AuditSound

LEMMA AuditStarts == AuditInit => AuditInv
<1> SUFFICES ASSUME AuditInit PROVE AuditInv
  OBVIOUS
<1>1. NotAsked \in OperatorStates
  BY DEF NotAsked, OperatorStates
<1>2. AuditShape
  <2>1. <<>> \in Seq(Operators) /\ <<>> \in Seq(AuditEvents) /\ Len(<<>>) = 0
    BY EmptySeq
  <2> QED
    <3>1. chain \in Seq(Operators) /\ ring \in Seq(AuditEvents) /\ auditFile \in Seq(AuditEvents)
      BY <2>1 DEF AuditInit
    <3>2. MemoryCap \in Nat /\ MaxAuditFaults \in Nat
      BY AuditAssumption
    <3>4. Len(ring) <= MemoryCap /\ manRev \in Nat
      BY <2>1, <3>2 DEF AuditInit
    <3>6. held \in BOOLEAN
      BY DEF AuditInit
    <3>5. auditFaults \in 0..MaxAuditFaults
      BY <3>2 DEF AuditInit
    <3>3. operator \in [Operators -> OperatorStates]
      BY <1>1 DEF AuditInit
    <3> QED
      BY <3>1, <3>3, <3>4, <3>5, <3>6 DEF AuditShape
<1>3. ChainSound /\ RingSound /\ AuditFileSound
  BY DEF AuditInit, ChainSound, RingSound, AuditFileSound, OnceEach
<1>4. \A o \in Operators : OperatorSound(o)
  BY DEF AuditInit, OperatorSound, NotAsked
<1> QED
  BY <1>2, <1>3, <1>4 DEF AuditInv

(* A new event in the ring pushes out the oldest of a full one.            *)
LEMMA Remembers ==
    ASSUME NEW e \in AuditEvents, ring \in Seq(AuditEvents), Len(ring) <= MemoryCap, Remember(e)
    PROVE  \E k \in {0, 1} :
              /\ ring' \in Seq(AuditEvents) /\ Len(ring') = Len(ring) - k + 1
              /\ Len(ring') <= MemoryCap /\ (k = 1 => Len(ring') = MemoryCap)
              /\ k <= Len(ring)
              /\ ring'[Len(ring')] = e
              /\ \A i \in 1..(Len(ring') - 1) : i + k \in DOMAIN ring /\ ring'[i] = ring[i + k]
<1> USE AuditAssumption
<1>1. CASE Len(ring) < MemoryCap
  <2>1. ring' = Append(ring, e)
    BY <1>1 DEF Remember
  <2> QED
    BY <1>1, <2>1, AppendProperties, LenProperties
<1>2. CASE ~(Len(ring) < MemoryCap)
  <2>1. ring' = Append(Tail(ring), e)
    BY <1>2 DEF Remember
  <2>2. Len(ring) \in Nat /\ Len(ring) = MemoryCap /\ ring # <<>>
    BY <1>2, LenProperties
  <2>3. /\ Tail(ring) \in Seq(AuditEvents) /\ Len(Tail(ring)) = Len(ring) - 1
        /\ \A i \in 1..(Len(ring) - 1) : Tail(ring)[i] = ring[i + 1]
    BY <2>2, HeadTailProperties
  <2>4. /\ ring' \in Seq(AuditEvents) /\ Len(ring') = Len(ring) /\ ring'[Len(ring')] = e
        /\ \A i \in 1..(Len(ring') - 1) : ring'[i] = Tail(ring)[i]
    BY <2>1, <2>2, <2>3, AppendProperties
  <2> QED
    BY <2>2, <2>3, <2>4, LenProperties
<1> QED
  BY <1>1, <1>2

(* A request that has not recorded anything yet records its event.         *)
LEMMA RecordingKeeps ==
    ASSUME AuditInv, NEW o \in Operators, operator[o].pc \in {"idle", "changed", "missing"},
           NEW new \in OperatorStates, new.own <= manRev, new.code = 0,
           NEW outcome \in {"success", "failure"}, Recording(o, new, outcome),
           held' \in BOOLEAN, UNCHANGED <<manRev, chain, auditFile, auditFaults>>
    PROVE  AuditInv'
<1> DEFINE e == [by |-> o, rev |-> manRev, outcome |-> outcome]
<1>a. AuditShape /\ ChainSound /\ RingSound /\ AuditFileSound
  BY DEF AuditInv
<1>1. e \in AuditEvents
  BY <1>a DEF AuditShape, AuditEvents
<1>2. PICK s : s = [[new EXCEPT !.pc = "appending"] EXCEPT !.event = e]
  OBVIOUS
<1>4. operator' = [operator EXCEPT ![o] = s] /\ Remember(e)
  BY <1>2 DEF Recording, OperatorIs
<1>11. e.by = o /\ e.rev = manRev
  OBVIOUS
<1> HIDE DEF e
<1>3. s \in OperatorStates /\ s.pc = "appending" /\ s.event = e /\ s.own = new.own /\ s.code = 0
  <2>1. PICK t : t = [new EXCEPT !.pc = "appending"]
    OBVIOUS
  <2>2. t \in OperatorStates /\ t.pc = "appending" /\ t.own = new.own /\ t.code = 0
    BY <2>1 DEF OperatorStates
  <2>3. s = [t EXCEPT !.event = e]
    BY <1>2, <2>1
  <2> QED
    BY <2>2, <2>3, <1>1 DEF OperatorStates
<1>5. /\ operator' \in [Operators -> OperatorStates] /\ operator'[o] = s
      /\ \A p \in Operators : p # o => operator'[p] = operator[p]
  BY <1>3, <1>4, <1>a DEF AuditShape
<1>6. ring \in Seq(AuditEvents) /\ Len(ring) \in Nat /\ DOMAIN ring = 1..Len(ring) /\ manRev \in Nat
  BY <1>a, LenProperties DEF AuditShape
<1>7. PICK k \in {0, 1} :
              /\ ring' \in Seq(AuditEvents) /\ Len(ring') = Len(ring) - k + 1
              /\ Len(ring') <= MemoryCap /\ (k = 1 => Len(ring') = MemoryCap)
              /\ k <= Len(ring)
              /\ ring'[Len(ring')] = e
              /\ \A i \in 1..(Len(ring') - 1) : i + k \in DOMAIN ring /\ ring'[i] = ring[i + k]
  BY <1>1, <1>4, <1>a, Remembers DEF AuditShape
<1>8. Len(ring') \in Nat /\ DOMAIN ring' = 1..Len(ring')
  BY <1>7, LenProperties
<1>9. \A i \in DOMAIN ring : /\ ring[i] \in AuditEvents /\ ring[i].by \in Operators /\ ring[i].by # o
                             /\ ring[i].rev \in Nat /\ ring[i].rev <= manRev
  <2>1. \A i \in DOMAIN ring : ring[i] \in AuditEvents
    BY <1>6, ElementOfSeq
  <2> QED
    BY <2>1, <1>a DEF AuditEvents, RingSound
<1>10. \A i \in DOMAIN ring' : (i = Len(ring') /\ ring'[i] = e) \/ (i # Len(ring') /\ i + k \in DOMAIN ring /\ ring'[i] = ring[i + k])
  BY <1>7, <1>8
<1>12. AuditShape'
  BY <1>a, <1>5, <1>7 DEF AuditShape
<1>13. ChainSound'
  <2>1. \A i \in DOMAIN chain : chain[i] \in Operators /\ chain[i] # o
    BY <1>a, ElementOfSeq DEF AuditShape, ChainSound
  <2> QED
    BY <2>1, <1>a, <1>5 DEF ChainSound
<1>14. RingSound'
  <2>1. OnceEach(ring')
    <3> SUFFICES ASSUME NEW i \in DOMAIN ring', NEW j \in DOMAIN ring', ring'[i].by = ring'[j].by PROVE i = j
      BY DEF OnceEach
    <3>1. \A a, b \in DOMAIN ring : ring[a].by = ring[b].by => a = b
      BY <1>a DEF RingSound, OnceEach
    <3>2. CASE i # Len(ring') /\ j # Len(ring')
      <4>1. /\ i + k \in DOMAIN ring /\ ring'[i] = ring[i + k]
            /\ j + k \in DOMAIN ring /\ ring'[j] = ring[j + k]
        BY <3>2, <1>10
      <4>2. i + k = j + k
        BY <4>1, <3>1
      <4> QED
        BY <4>2, <1>8
    <3>3. CASE i = Len(ring') \/ j = Len(ring')
      <4>1. \A n \in DOMAIN ring' : ring'[n].by = o <=> n = Len(ring')
        BY <1>7, <1>9, <1>10, <1>11
      <4> QED
        BY <4>1, <3>3
    <3> QED
      BY <3>2, <3>3
  <2>2. ASSUME NEW i \in DOMAIN ring'
        PROVE /\ operator'[ring'[i].by].pc \in {"appending", "over"}
              /\ ring'[i] = operator'[ring'[i].by].event
              /\ operator'[ring'[i].by].own <= ring'[i].rev /\ ring'[i].rev <= manRev
    <3>1. CASE ring'[i] = e
      BY <3>1, <1>3, <1>5, <1>6, <1>11
    <3>2. CASE i # Len(ring') /\ i + k \in DOMAIN ring /\ ring'[i] = ring[i + k]
      <4>1. operator'[ring'[i].by] = operator[ring[i + k].by]
        BY <3>2, <1>5, <1>9
      <4> QED
        BY <4>1, <3>2, <1>a DEF RingSound
    <3> QED
      BY <3>1, <3>2, <1>10
  <2>3. ASSUME NEW i \in DOMAIN ring', NEW j \in DOMAIN ring', i < j PROVE ring'[i].rev <= ring'[j].rev
    <3>1. i # Len(ring') /\ i + k \in DOMAIN ring /\ ring'[i] = ring[i + k]
      BY <2>3, <1>8, <1>10
    <3>2. CASE ring'[j] = e
      BY <3>1, <3>2, <1>9, <1>11
    <3>3. CASE j + k \in DOMAIN ring /\ ring'[j] = ring[j + k]
      <4>1. i + k < j + k
        BY <2>3, <1>6, <1>8
      <4> QED
        BY <4>1, <3>1, <3>3, <1>a DEF RingSound
    <3> QED
      BY <3>2, <3>3, <1>10
  <2> QED
    BY <2>1, <2>2, <2>3 DEF RingSound
<1>15. AuditFileSound'
  <2>1. \A i \in DOMAIN auditFile : auditFile[i] \in AuditEvents
    BY <1>a, ElementOfSeq DEF AuditShape
  <2>2. \A i \in DOMAIN auditFile : auditFile[i].by \in Operators /\ auditFile[i].by # o
    BY <1>a, <2>1 DEF AuditFileSound, AuditEvents
  <2> QED
    BY <2>2, <1>a, <1>5 DEF AuditFileSound
<1>16. ASSUME NEW p \in Operators PROVE OperatorSound(p)'
  <2>1. CASE p = o
    <3>1. Has(o, ring')
      BY <1>7, <1>8, <1>11, <1>6 DEF Has
    <3> QED
      BY <2>1, <3>1, <1>1, <1>3, <1>5, <1>11 DEF OperatorSound
  <2>2. CASE p # o
    <3>1. OperatorSound(p) /\ operator'[p] = operator[p]
      BY <2>2, <1>5 DEF AuditInv
    <3>2. ASSUME operator[p].pc = "appending", Has(p, ring)
          PROVE  Has(p, ring') \/ (Len(ring') = MemoryCap /\ \A i \in DOMAIN ring' : ring'[i].rev >= operator[p].event.rev)
      <4>1. PICK n \in DOMAIN ring : ring[n].by = p
        BY <3>2 DEF Has
      <4>2. CASE n - k \in 1..(Len(ring') - 1)
        <5>1. (n - k) + k = n
          BY <4>1, <1>6
        <5>2. ring'[n - k] = ring[n]
          BY <5>1, <4>2, <1>7
        <5> QED
          BY <5>2, <4>1, <4>2, <1>6, <1>8 DEF Has
      <4>3. CASE n - k \notin 1..(Len(ring') - 1)
        <5>1. n = 1 /\ k = 1
          BY <4>1, <4>3, <1>6, <1>7
        <5>2. operator[p].event.rev = ring[1].rev
          BY <5>1, <4>1, <1>a DEF RingSound
        <5>3. \A j \in DOMAIN ring : ring[1].rev <= ring[j].rev
          BY <5>1, <4>1, <1>6, <1>9, <1>a DEF RingSound
        <5>4. ring[1].rev \in Nat /\ ring[1].rev <= manRev
          BY <5>1, <4>1, <1>9
        <5> QED
          BY <5>1, <5>2, <5>3, <5>4, <1>6, <1>7, <1>9, <1>10, <1>11
      <4> QED
        BY <4>2, <4>3
    <3>3. ASSUME operator[p].pc = "appending", Len(ring) = MemoryCap,
                 \A i \in DOMAIN ring : ring[i].rev >= operator[p].event.rev
          PROVE  Len(ring') = MemoryCap /\ \A i \in DOMAIN ring' : ring'[i].rev >= operator[p].event.rev
      <4>1. Len(ring) >= 1 /\ 1 \in DOMAIN ring
        BY <3>3, <1>6, AuditAssumption
      <4>2. operator[p].event.rev \in Int
        BY <3>3, <1>a DEF AuditShape, OperatorStates, AuditEvents, NoEvent
      <4>3. manRev >= operator[p].event.rev
        BY <4>1, <4>2, <3>3, <1>6, <1>9
      <4>4. Len(ring') = MemoryCap
        BY <3>3, <1>6, <1>7, AuditAssumption
      <4> QED
        BY <4>3, <4>4, <3>3, <1>10, <1>11
    <3> QED
      BY <3>1, <3>2, <3>3 DEF OperatorSound
  <2> QED
    BY <2>1, <2>2
<1> QED
  BY <1>12, <1>13, <1>14, <1>15, <1>16 DEF AuditInv

(* What a step says that changes one request and the logs keep.            *)
LEMMA LogsStay ==
    ASSUME AuditInv, NEW o \in Operators, NEW s \in OperatorStates,
           operator' = [operator EXCEPT ![o] = s],
           s.pc \in {"chained", "changed", "missing"},
           operator[o].pc \in {"idle", "chained"}, s.own <= manRev', s.code = 0,
           manRev' \in Nat, manRev <= manRev', held' \in BOOLEAN,
           UNCHANGED <<ring, auditFile, auditFaults>>
    PROVE  /\ operator' \in [Operators -> OperatorStates]
           /\ operator'[o] = s /\ \A p \in Operators \ {o} : operator'[p] = operator[p]
           /\ RingSound' /\ AuditFileSound'
           /\ \A p \in Operators : OperatorSound(p)'
<1>a. AuditShape /\ ChainSound /\ RingSound /\ AuditFileSound
  BY DEF AuditInv
<1>1. /\ operator' \in [Operators -> OperatorStates] /\ operator'[o] = s
      /\ \A p \in Operators : p # o => operator'[p] = operator[p]
  BY <1>a DEF AuditShape
<1>2. \A i \in DOMAIN ring : ring[i] \in AuditEvents /\ ring[i].by \in Operators /\ ring[i].by # o
  <2>1. \A i \in DOMAIN ring : ring[i] \in AuditEvents
    BY <1>a, ElementOfSeq DEF AuditShape
  <2> QED
    BY <2>1, <1>a DEF RingSound, AuditEvents
<1>3. \A i \in DOMAIN auditFile : auditFile[i].by \in Operators /\ auditFile[i].by # o
  <2>1. \A i \in DOMAIN auditFile : auditFile[i] \in AuditEvents
    BY <1>a, ElementOfSeq DEF AuditShape
  <2> QED
    BY <2>1, <1>a DEF AuditFileSound, AuditEvents
<1>4. RingSound'
  <2>1. \A i \in DOMAIN ring : operator'[ring[i].by] = operator[ring[i].by]
    BY <1>1, <1>2
  <2>2. \A i \in DOMAIN ring : ring[i].rev <= manRev => ring[i].rev <= manRev'
    BY <1>2, <1>a DEF AuditEvents, AuditShape
  <2> QED
    BY <2>1, <2>2, <1>a DEF RingSound
<1>5. AuditFileSound'
  BY <1>1, <1>3, <1>a DEF AuditFileSound
<1>6. ASSUME NEW p \in Operators PROVE OperatorSound(p)'
  <2>1. CASE p = o
    BY <2>1, <1>1 DEF OperatorSound
  <2>2. CASE p # o
    <3>1. operator'[p] = operator[p] /\ operator[p].own \in Nat /\ manRev \in Nat
      BY <2>2, <1>1, <1>a DEF AuditShape, OperatorStates
    <3>2. OperatorSound(p)
      BY DEF AuditInv
    <3> QED
      BY <3>1, <3>2 DEF OperatorSound, Has
  <2> QED
    BY <2>1, <2>2
<1> QED
  BY <1>1, <1>4, <1>5, <1>6

LEMMA AskKeeps ==
    ASSUME AuditInv, NEW o \in Operators, AskChange(o)
    PROVE  AuditInv'
<1>a. AuditShape /\ ChainSound /\ operator[o].pc = "idle" /\ chain' = Append(chain, o)
  BY DEF AuditInv, AskChange
<1>1. PICK s : s = [NotAsked EXCEPT !.pc = "chained"]
  OBVIOUS
<1>2. s \in OperatorStates /\ s.pc = "chained" /\ s.own = 0 /\ s.code = 0
  BY <1>1 DEF OperatorStates, NotAsked
<1>3. /\ operator' = [operator EXCEPT ![o] = s]
      /\ UNCHANGED <<manRev, held, ring, auditFile, auditFaults>>
  BY <1>1 DEF AskChange, OperatorIs
<1>4. manRev' \in Nat /\ manRev <= manRev' /\ s.own <= manRev' /\ held' \in BOOLEAN
  BY <1>a, <1>2, <1>3 DEF AuditShape
<1>5. /\ operator' \in [Operators -> OperatorStates]
      /\ operator'[o] = s /\ \A p \in Operators \ {o} : operator'[p] = operator[p]
      /\ RingSound' /\ AuditFileSound'
      /\ \A p \in Operators : OperatorSound(p)'
  BY <1>a, <1>2, <1>3, <1>4, LogsStay
<1>6. /\ chain \in Seq(Operators) /\ Len(chain) \in Nat /\ DOMAIN chain = 1..Len(chain)
      /\ chain' \in Seq(Operators) /\ DOMAIN chain' = 1..(Len(chain) + 1)
      /\ chain'[Len(chain) + 1] = o
      /\ \A i \in 1..Len(chain) : chain'[i] = chain[i] /\ chain[i] \in Operators \ {o}
  <2>1. chain \in Seq(Operators) /\ Len(chain) \in Nat /\ DOMAIN chain = 1..Len(chain)
    BY <1>a, LenProperties DEF AuditShape
  <2>2. \A i \in 1..Len(chain) : chain[i] \in Operators \ {o}
    BY <2>1, <1>a, ElementOfSeq DEF ChainSound
  <2>3. /\ Append(chain, o) \in Seq(Operators) /\ Len(Append(chain, o)) = Len(chain) + 1
        /\ Append(chain, o)[Len(chain) + 1] = o
        /\ \A i \in 1..Len(chain) : Append(chain, o)[i] = chain[i]
    BY <2>1, AppendProperties
  <2> QED
    BY <2>1, <2>2, <2>3, <1>a, LenProperties
<1>7. AuditShape'
  BY <1>a, <1>3, <1>5, <1>6 DEF AuditShape
<1>8. ChainSound'
  <2>1. \A i \in DOMAIN chain' : i \in 1..Len(chain) \/ (i = Len(chain) + 1 /\ chain'[i] = o)
    BY <1>6
  <2>2. \A i \in DOMAIN chain' : operator'[chain'[i]].pc = "chained"
    BY <2>1, <1>2, <1>5, <1>6, <1>a DEF ChainSound
  <2>3. \A i, j \in DOMAIN chain' : chain'[i] = chain'[j] => i = j
    BY <2>1, <1>6, <1>a DEF ChainSound
  <2> QED
    BY <2>2, <2>3 DEF ChainSound
<1> QED
  BY <1>5, <1>7, <1>8 DEF AuditInv

LEMMA ChangeKeeps ==
    ASSUME AuditInv, NEW o \in Operators, ChangeApplies(o)
    PROVE  AuditInv'
<1>a. AuditShape /\ ChainSound
  BY DEF AuditInv
<1>1. /\ chain \in Seq(Operators) /\ Len(chain) \in Nat /\ DOMAIN chain = 1..Len(chain) /\ Len(chain) >= 1
      /\ chain[1] = o /\ chain' \in Seq(Operators) /\ DOMAIN chain' = 1..(Len(chain) - 1)
      /\ \A i \in 1..(Len(chain) - 1) : chain'[i] = chain[i + 1]
  <2>1. chain \in Seq(Operators) /\ chain # <<>> /\ Head(chain) = o /\ chain' = Tail(chain)
    BY <1>a DEF AuditShape, ChangeApplies
  <2>2. Len(chain) \in Nat /\ DOMAIN chain = 1..Len(chain) /\ Len(chain) # 0
    BY <2>1, LenProperties, EmptySeq
  <2> QED
    BY <2>1, <2>2, HeadTailProperties, LenProperties
<1>2. operator[o].pc = "chained" /\ operator[o].code = 0 /\ operator[o] \in OperatorStates /\ operator[o].own <= manRev
  <2>1. 1 \in DOMAIN chain
    BY <1>1
  <2>2. OperatorSound(o)
    BY DEF AuditInv
  <2> QED
    BY <1>1, <2>1, <2>2, <1>a DEF ChainSound, OperatorSound, AuditShape
<1>b. manRev \in Nat
  BY <1>a DEF AuditShape
<1>3. PICK s \in OperatorStates :
         /\ operator' = [operator EXCEPT ![o] = s] /\ s.pc \in {"changed", "missing"}
         /\ s.own <= manRev' /\ s.code = 0 /\ manRev' \in Nat /\ manRev <= manRev'
  <2>1. CASE manRev' = manRev + 1 /\ OperatorIs(o, [operator[o] EXCEPT !.pc = "changed", !.own = manRev + 1])
    <3>1. PICK t : t = [operator[o] EXCEPT !.pc = "changed"]
      OBVIOUS
    <3>2. t \in OperatorStates /\ t.pc = "changed" /\ t.code = 0
      BY <3>1, <1>2 DEF OperatorStates
    <3>3. PICK s : s = [t EXCEPT !.own = manRev + 1]
      OBVIOUS
    <3>4. s \in OperatorStates /\ s.pc = "changed" /\ s.code = 0 /\ s.own = manRev + 1
      BY <3>2, <3>3, <1>b DEF OperatorStates
    <3>5. operator' = [operator EXCEPT ![o] = s]
      BY <2>1, <3>1, <3>3 DEF OperatorIs
    <3>6. s.own <= manRev' /\ manRev' \in Nat /\ manRev <= manRev'
      BY <2>1, <3>4, <1>b
    <3> QED
      BY <3>4, <3>5, <3>6
  <2>2. CASE OperatorIs(o, [operator[o] EXCEPT !.pc = "missing"]) /\ UNCHANGED manRev
    <3>1. PICK s : s = [operator[o] EXCEPT !.pc = "missing"]
      OBVIOUS
    <3>2. s \in OperatorStates /\ s.pc = "missing" /\ s.code = 0 /\ s.own = operator[o].own
      BY <3>1, <1>2 DEF OperatorStates
    <3>3. operator' = [operator EXCEPT ![o] = s]
      BY <2>2, <3>1 DEF OperatorIs
    <3>4. s.own <= manRev' /\ manRev' \in Nat /\ manRev <= manRev'
      BY <2>2, <3>2, <1>2, <1>b
    <3> QED
      BY <3>2, <3>3, <3>4
  <2> QED
    BY <2>1, <2>2 DEF ChangeApplies
<1>4. UNCHANGED <<held, ring, auditFile, auditFaults>> /\ held' \in BOOLEAN
  BY <1>a DEF ChangeApplies, AuditShape
<1>5. /\ operator' \in [Operators -> OperatorStates]
      /\ operator'[o] = s /\ \A p \in Operators \ {o} : operator'[p] = operator[p]
      /\ RingSound' /\ AuditFileSound'
      /\ \A p \in Operators : OperatorSound(p)'
  <2>1. UNCHANGED <<ring, auditFile, auditFaults>>
    BY <1>4
  <2> QED
    BY <2>1, <1>2, <1>3, <1>4, LogsStay
<1>6. AuditShape'
  BY <1>a, <1>1, <1>3, <1>4, <1>5 DEF AuditShape
<1>7. ChainSound'
  <2>1. \A i \in DOMAIN chain' : i \in DOMAIN chain /\ i + 1 \in DOMAIN chain /\ chain'[i] = chain[i + 1]
    BY <1>1
  <2>2. \A i \in DOMAIN chain' : chain'[i] \in Operators \ {o}
    <3>1. \A i \in DOMAIN chain : chain[i] \in Operators
      BY <1>1, ElementOfSeq
    <3>2. \A i \in DOMAIN chain' : 1 # i + 1 /\ 1 \in DOMAIN chain
      BY <1>1
    <3> QED
      BY <2>1, <3>1, <3>2, <1>1, <1>a DEF ChainSound
  <2>3. \A i \in DOMAIN chain' : operator'[chain'[i]].pc = "chained"
    BY <2>1, <2>2, <1>5, <1>a DEF ChainSound
  <2>4. \A i, j \in DOMAIN chain' : i + 1 = j + 1 => i = j
    BY <1>1
  <2> QED
    BY <2>1, <2>3, <2>4, <1>a DEF ChainSound
<1> QED
  BY <1>5, <1>6, <1>7 DEF AuditInv

(* A request is over, its event in the file or not.                        *)
EndsWith(o, c) ==
    /\ operator' = [operator EXCEPT ![o] = [operator[o] EXCEPT !.pc = "over", !.code = c]]
    /\ AppendFails(o) /\ FailClosed => c = 500
    /\ AppendFails(o) \/ c = Reply(o)

LEMMA EndKeeps ==
    ASSUME AuditInv, NEW o \in Operators, AppendEnds(o) \/ AppendFails(o)
    PROVE  AuditInv'
<1>a. AuditShape /\ ChainSound /\ RingSound /\ AuditFileSound /\ OperatorSound(o)
  BY DEF AuditInv
<1>b. operator[o].pc = "appending" /\ UNCHANGED <<manRev, held, chain, ring>>
  BY DEF AppendEnds, AppendFails
<1>f. PICK c \in {200, 404, 500} : EndsWith(o, c)
  <2>1. Reply(o) \in {200, 404}
    BY DEF Reply
  <2>2. CASE AppendFails(o)
    <3>1. PICK c : c = IF FailClosed THEN 500 ELSE Reply(o)
      OBVIOUS
    <3>2. operator' = [operator EXCEPT ![o] = [operator[o] EXCEPT !.pc = "over", !.code = c]]
      BY <3>1, <2>2 DEF AppendFails, OperatorIs
    <3>3. c \in {200, 404, 500} /\ (FailClosed => c = 500)
      BY <3>1, <2>1
    <3>4. EndsWith(o, c)
      BY <3>2, <3>3, <2>2 DEF EndsWith
    <3> QED
      BY <3>3, <3>4
  <2>3. CASE AppendEnds(o) /\ ~AppendFails(o)
    <3>1. operator' = [operator EXCEPT ![o] = [operator[o] EXCEPT !.pc = "over", !.code = Reply(o)]]
      BY <2>3 DEF AppendEnds, OperatorIs
    <3>2. EndsWith(o, Reply(o))
      BY <2>3, <3>1 DEF EndsWith
    <3> QED
      BY <2>1, <3>2
  <2> QED
    BY <2>2, <2>3
<1>c. /\ operator' = [operator EXCEPT ![o] = [operator[o] EXCEPT !.pc = "over", !.code = c]]
      /\ AppendFails(o) /\ FailClosed => c = 500
      /\ AppendFails(o) \/ c = Reply(o)
  BY <1>f DEF EndsWith
<1>e. PICK s : s = [operator[o] EXCEPT !.pc = "over", !.code = c]
  OBVIOUS
<1>d. /\ s \in OperatorStates /\ s.pc = "over" /\ s.own = operator[o].own /\ s.code = c
      /\ s.event = operator[o].event /\ s.event.by = o /\ s.event \in AuditEvents
  <2>1. /\ operator[o] \in OperatorStates /\ operator[o].event.by = o
        /\ operator[o].event \in AuditEvents
    BY <1>a, <1>b DEF AuditShape, OperatorSound
  <2>2. PICK t : t = [operator[o] EXCEPT !.pc = "over"]
    OBVIOUS
  <2>3. t \in OperatorStates /\ t.pc = "over" /\ t.own = operator[o].own /\ t.event = operator[o].event
    BY <2>1, <2>2 DEF OperatorStates
  <2>4. s = [t EXCEPT !.code = c]
    BY <1>e, <2>2
  <2> QED
    BY <2>1, <2>3, <2>4 DEF OperatorStates
<1>1. /\ operator' \in [Operators -> OperatorStates] /\ operator'[o] = s
      /\ \A p \in Operators : p # o => operator'[p] = operator[p]
  BY <1>a, <1>c, <1>d, <1>e DEF AuditShape
<1>2. /\ auditFile \in Seq(AuditEvents) /\ DOMAIN auditFile = 1..Len(auditFile) /\ Len(auditFile) \in Nat
      /\ \A i \in DOMAIN auditFile : auditFile[i] \in AuditEvents /\ auditFile[i].by \in Operators \ {o}
  <2>1. auditFile \in Seq(AuditEvents) /\ DOMAIN auditFile = 1..Len(auditFile) /\ Len(auditFile) \in Nat
    BY <1>a, LenProperties DEF AuditShape
  <2>2. \A i \in DOMAIN auditFile : auditFile[i] \in AuditEvents
    BY <2>1, ElementOfSeq
  <2> QED
    BY <2>1, <2>2, <1>a, <1>b DEF AuditFileSound, AuditEvents
<1>4. /\ auditFaults' \in 0..MaxAuditFaults
      /\ \/ auditFile' = auditFile /\ auditFaults' > 0 /\ (FailClosed => s.code = 500)
         \/ auditFile' = Append(auditFile, s.event) /\ auditFaults' = auditFaults
  <2>1. MaxAuditFaults \in Nat /\ auditFaults \in 0..MaxAuditFaults
    BY <1>a, AuditAssumption DEF AuditShape
  <2>2. CASE AppendEnds(o)
    BY <2>1, <2>2, <1>d DEF AppendEnds
  <2>3. CASE AppendFails(o)
    <3>1. auditFile' = auditFile /\ auditFaults < MaxAuditFaults /\ auditFaults' = auditFaults + 1
      BY <2>3 DEF AppendFails
    <3>2. FailClosed => s.code = 500
      BY <2>3, <1>c, <1>d
    <3> QED
      BY <2>1, <3>1, <3>2
  <2> QED
    BY <2>2, <2>3
<1>6. RingSound'
  <2>1. \A i \in DOMAIN ring : ring[i] \in AuditEvents
    BY <1>a, ElementOfSeq DEF AuditShape
  <2>2. \A i \in DOMAIN ring : ring[i].by \in Operators
    BY <2>1 DEF AuditEvents
  <2>3. ASSUME NEW i \in DOMAIN ring
        PROVE  /\ operator'[ring[i].by].pc \in {"appending", "over"}
               /\ operator'[ring[i].by].event = operator[ring[i].by].event
               /\ operator'[ring[i].by].own = operator[ring[i].by].own
    <3>1. CASE ring[i].by = o
      BY <3>1, <1>1, <1>d
    <3>2. CASE ring[i].by # o
      BY <3>2, <2>2, <1>1, <1>a DEF RingSound
    <3> QED
      BY <3>1, <3>2
  <2> QED
    BY <2>3, <1>a, <1>b DEF RingSound
<1>7. ChainSound'
  <2>1. \A i \in DOMAIN chain : chain[i] \in Operators /\ chain[i] # o
    BY <1>a, <1>b, ElementOfSeq DEF AuditShape, ChainSound
  <2> QED
    BY <2>1, <1>1, <1>a, <1>b DEF ChainSound
<1>5. CASE auditFile' = auditFile /\ auditFaults' > 0 /\ (FailClosed => s.code = 500)
  <2>1. AuditShape'
    BY <1>a, <1>b, <1>1, <1>4, <1>5 DEF AuditShape
  <2>2. ASSUME NEW p \in Operators PROVE OperatorSound(p)'
    <3>1. OperatorSound(p)
      BY DEF AuditInv
    <3>2. CASE p = o
      BY <3>1, <3>2, <1>1, <1>5, <1>b, <1>d DEF OperatorSound
    <3>3. CASE p # o
      <4>1. operator'[p] = operator[p] /\ auditFile' = auditFile /\ ring' = ring /\ manRev' = manRev
        BY <3>3, <1>1, <1>5, <1>b
      <4> QED
        BY <4>1, <3>1, <1>5 DEF OperatorSound, Has
    <3> QED
      BY <3>2, <3>3
  <2>3. AuditFileSound'
    BY <1>1, <1>2, <1>5, <1>a DEF AuditFileSound
  <2> QED
    BY <2>1, <2>2, <2>3, <1>6, <1>7 DEF AuditInv
<1>8. CASE auditFile' = Append(auditFile, s.event) /\ auditFaults' = auditFaults
  <2>1. /\ auditFile' \in Seq(AuditEvents) /\ DOMAIN auditFile' = 1..(Len(auditFile) + 1)
        /\ auditFile'[Len(auditFile) + 1] = s.event
        /\ \A i \in 1..Len(auditFile) : auditFile'[i] = auditFile[i]
    BY <1>2, <1>8, <1>d, AppendProperties, LenProperties
  <2>2. \A i \in DOMAIN auditFile' :
            (i \in DOMAIN auditFile /\ auditFile'[i] = auditFile[i])
            \/ (i = Len(auditFile) + 1 /\ auditFile'[i].by = o)
    BY <2>1, <1>2, <1>d
  <2>3. AuditShape'
    BY <2>1, <1>a, <1>b, <1>1, <1>4 DEF AuditShape
  <2>4. AuditFileSound'
    <3>1. OnceEach(auditFile')
      BY <2>2, <1>2, <1>a DEF AuditFileSound, OnceEach
    <3>2. \A i \in DOMAIN auditFile' : operator'[auditFile'[i].by].pc = "over"
      BY <2>2, <1>1, <1>2, <1>a, <1>d DEF AuditFileSound
    <3> QED
      BY <3>1, <3>2 DEF AuditFileSound
  <2>5. \A p : Has(p, auditFile) => Has(p, auditFile')
    BY <2>1, <1>2 DEF Has
  <2>6. Has(o, auditFile')
    BY <2>1, <1>2, <1>d DEF Has
  <2>7. ASSUME NEW p \in Operators PROVE OperatorSound(p)'
    <3>1. OperatorSound(p)
      BY DEF AuditInv
    <3>2. CASE p = o
      BY <3>1, <3>2, <2>6, <1>1, <1>b, <1>d DEF OperatorSound
    <3>3. CASE p # o
      <4>1. /\ operator'[p] = operator[p] /\ ring' = ring /\ manRev' = manRev
            /\ auditFaults' = auditFaults
        BY <3>3, <1>1, <1>8, <1>b
      <4> QED
        BY <4>1, <3>1, <2>5 DEF OperatorSound, Has
    <3> QED
      BY <3>2, <3>3
  <2> QED
    BY <2>3, <2>4, <2>7, <1>6, <1>7 DEF AuditInv
<1> QED
  BY <1>4, <1>5, <1>8

LEMMA RecordKeeps ==
    ASSUME AuditInv, NEW o \in Operators,
           RecordChange(o) \/ QuarantineByHand(o) \/ ReleaseByHand(o)
    PROVE  AuditInv'
<1>1. AuditShape /\ OperatorSound(o) /\ operator[o] \in OperatorStates /\ manRev \in Nat /\ held \in BOOLEAN
  BY DEF AuditInv, AuditShape
<1>2. CASE RecordChange(o)
  <2>1. /\ operator[o].pc \in {"changed", "missing"} /\ operator[o].own <= manRev
        /\ operator[o].code = 0
        /\ UNCHANGED <<manRev, held, chain, auditFile, auditFaults>>
    BY <1>1, <1>2 DEF RecordChange, OperatorSound
  <2>2. PICK outcome \in {"success", "failure"} : Recording(o, operator[o], outcome)
    BY <1>2 DEF RecordChange
  <2> QED
    BY <2>1, <2>2, <1>1, RecordingKeeps
<1>3. CASE QuarantineByHand(o) \/ ReleaseByHand(o)
  <2>1. PICK new : new = [NotAsked EXCEPT !.own = manRev]
    OBVIOUS
  <2>2. new \in OperatorStates /\ new.own = manRev /\ new.code = 0
    BY <2>1, <1>1 DEF OperatorStates, NotAsked
  <2>3. /\ operator[o].pc = "idle" /\ held' \in BOOLEAN /\ Recording(o, new, "success")
        /\ UNCHANGED <<manRev, chain, auditFile, auditFaults>>
    BY <1>3, <2>1 DEF QuarantineByHand, ReleaseByHand
  <2>4. new.own <= manRev
    BY <2>2, <1>1
  <2> QED
    BY <2>2, <2>3, <2>4, RecordingKeeps
<1> QED
  BY <1>2, <1>3

LEMMA DeathKeeps == ASSUME AuditInv, ProcessDies PROVE AuditInv'
<1>a. AuditShape /\ AuditFileSound /\ \A o \in Operators : OperatorSound(o)
  BY DEF AuditInv
<1>1. /\ ring' = <<>> /\ chain' = <<>> /\ held' = FALSE /\ manRev' = manRev /\ auditFile' = auditFile
      /\ auditFaults < MaxAuditFaults /\ auditFaults' = auditFaults + 1
  BY DEF ProcessDies
<1>2. ASSUME NEW o \in Operators
      PROVE  /\ operator'[o] \in OperatorStates
             /\ \/ operator'[o] = operator[o] /\ operator[o].pc \in {"idle", "over"}
                \/ /\ operator[o].pc # "over" /\ operator'[o].pc = "lost"
                   /\ operator'[o].own = operator[o].own /\ operator'[o].code = operator[o].code
  <2>1. operator[o] \in OperatorStates
    BY <1>a DEF AuditShape
  <2>2. operator'[o] = IF operator[o].pc \in {"idle", "over"} THEN operator[o]
                       ELSE [operator[o] EXCEPT !.pc = "lost"]
    BY DEF ProcessDies
  <2>3. CASE operator[o].pc \in {"idle", "over"}
    BY <2>1, <2>2, <2>3
  <2>4. CASE operator[o].pc \notin {"idle", "over"}
    <3>1. PICK t : t = [operator[o] EXCEPT !.pc = "lost"]
      OBVIOUS
    <3>2. /\ t \in OperatorStates /\ t.pc = "lost" /\ t.own = operator[o].own
          /\ t.code = operator[o].code
      BY <3>1, <2>1 DEF OperatorStates
    <3>3. operator'[o] = t
      BY <2>2, <2>4, <3>1
    <3> QED
      BY <3>2, <3>3, <2>4
  <2> QED
    BY <2>3, <2>4
<1>3. AuditShape'
  <2>1. operator' = [o \in Operators |-> operator'[o]]
    BY DEF ProcessDies
  <2>2. operator' \in [Operators -> OperatorStates]
    BY <2>1, <1>2
  <2>3. <<>> \in Seq(Operators) /\ <<>> \in Seq(AuditEvents) /\ Len(<<>>) = 0
    BY EmptySeq
  <2>4. auditFaults' \in 0..MaxAuditFaults
    BY <1>1, <1>a, AuditAssumption DEF AuditShape
  <2>5. Len(ring') <= MemoryCap
    BY <2>3, <1>1, AuditAssumption
  <2>6. held' \in BOOLEAN
    BY <1>1
  <2> QED
    BY <2>2, <2>3, <2>4, <2>5, <2>6, <1>1, <1>a DEF AuditShape
<1>4. ChainSound' /\ RingSound'
  BY <1>1 DEF ChainSound, RingSound, OnceEach
<1>5. AuditFileSound'
  <2>1. \A i \in DOMAIN auditFile : auditFile[i] \in AuditEvents
    BY <1>a, ElementOfSeq DEF AuditShape
  <2>2. \A i \in DOMAIN auditFile : auditFile[i].by \in Operators
    BY <2>1 DEF AuditEvents
  <2> QED
    BY <2>2, <1>1, <1>2, <1>a DEF AuditFileSound
<1>6. ASSUME NEW o \in Operators PROVE OperatorSound(o)'
  <2>1. auditFaults \in Nat
    BY <1>a DEF AuditShape
  <2> QED
    BY <2>1, <1>1, <1>2, <1>a DEF OperatorSound, Has
<1> QED
  BY <1>3, <1>4, <1>5, <1>6 DEF AuditInv

LEMMA AuditStepKeeps == AuditInv /\ [AuditNext]_auditVars => AuditInv'
<1> SUFFICES ASSUME AuditInv, [AuditNext]_auditVars PROVE AuditInv'
  OBVIOUS
<1>1. CASE UNCHANGED auditVars
  BY <1>1 DEF auditVars, AuditInv, AuditShape, ChainSound, RingSound, AuditFileSound, OperatorSound, OnceEach, Has
<1>2. CASE AuditNext
  BY <1>2, AskKeeps, ChangeKeeps, RecordKeeps, EndKeeps, DeathKeeps DEF AuditNext
<1> QED
  BY <1>1, <1>2

(* In production a mutation answered well is in the audit file, once, and  *)
(* the ring tells the newest events in the order of their revisions, for   *)
(* any number of operators and any size of the ring (audit.ts,             *)
(* addons.routes.ts).                                                      *)
THEOREM MutationsAreAudited == AuditSpec => []AuditSound
<1> QED
  BY AuditStarts, AuditStepKeeps, AuditConcludes, PTL DEF AuditSpec
----------------------------------------------------------------------------
(* The operator console.                                                   *)

CallKinds == {"none", "list", "inspect", "login", "toggle", "move", "remove", "refresh"}

IsServer(s) ==
    /\ s = [rev |-> s.rev, status |-> s.status, order |-> s.order, session |-> s.session]
    /\ s.rev \in Nat \ {0} /\ s.status \in Statuses
IsPage(p) ==
    /\ p = [seen |-> p.seen, rev |-> p.rev, status |-> p.status, order |-> p.order,
            signedIn |-> p.signedIn, renders |-> p.renders]
    /\ p.seen \in Nat /\ p.rev \in Nat /\ p.renders \in Nat /\ p.status \in Statuses
IsCall(c) ==
    /\ c = [kind |-> c.kind, row |-> c.row, value |-> c.value, ifMatch |-> c.ifMatch,
            base |-> c.base, renders |-> c.renders, stage |-> c.stage, code |-> c.code,
            rev |-> c.rev, answer |-> c.answer]
    /\ c.kind \in CallKinds /\ c.ifMatch \in Nat /\ c.renders \in Nat
    /\ c.kind \in {"toggle", "remove", "refresh"} => c.row \in Rows
    /\ c.stage \in {"sent", "answered", "over"} /\ c.rev \in Nat

Gone(r) == server.status[r] = "gone"

(* A list the server answered with is of its time: what has changed since  *)
(* was changed by others, or by a later call of the console.               *)
NowSound(now) ==
    /\ IsServer(now) /\ now.rev <= server.rev
    /\ \A r \in Rows : now.status[r] = "gone" => Gone(r)
    /\ ownRev <= now.rev =>
          /\ now.order = server.order
          /\ \A r \in Rows : now.status[r] = server.status[r] \/ foreign[r] > now.rev

CallSound(c) ==
    /\ IsCall(c) /\ c.renders <= page.renders /\ c.ifMatch <= server.rev /\ c.rev <= server.rev
    /\ c.kind \in Mutations /\ c.stage # "over" => c.ifMatch > 0
    /\ c.kind = "toggle" /\ c.stage # "over" =>
          /\ c.value \in {"on", "off"}
          /\ c.renders = page.renders => page.status[c.row] # "gone"
    /\ c.stage = "answered" =>
          /\ c.code \in {200, 401, 404, 412}
          /\ c.kind \in {"list", "login"} => c.code \in {200, 401}
          /\ c.code = 404 => c.kind \in {"toggle", "remove", "refresh"} /\ Gone(c.row)
          /\ c.kind = "list" /\ c.code = 200 =>
                NowSound(c.answer[1]) /\ c.answer[1].rev = c.rev

IsSeq(s) == \E S : s \in Seq(S)

ConsoleShape ==
    /\ IsServer(server) /\ IsPage(page)
    /\ page.rev <= page.seen /\ page.seen <= server.rev
    /\ page.rev = 0 => page.order = <<>> /\ \A r \in Rows : page.status[r] = "gone"
    /\ page.rev > 0 => \A r \in Rows : page.status[r] = "gone" => Gone(r)
    /\ foreign \in [Rows -> Nat] /\ \A r \in Rows : foreign[r] <= server.rev
    /\ ownRev \in Nat
    /\ IsSeq(calls) /\ \A i \in DOMAIN calls : CallSound(calls[i])

(* A call at whose end the list is rendered anew, or the operator has to   *)
(* sign in, which ends in a rendering too.                                 *)
Loads(c) ==
    \/ c.kind \in {"list", "login"} /\ c.stage # "over"
    \/ /\ c.stage = "answered"
       /\ \/ c.code \in {401, 412}
          \/ c.code = 200 /\ c.kind \in {"move", "remove", "refresh"}

(* Nothing is claimed of the page now.                                     *)
Waived == spanned \/ ~page.signedIn \/ \E i \in DOMAIN calls : Loads(calls[i])

(* A toggle is on its way that will make the server agree with the box.    *)
Hopes(r) ==
    \E i \in DOMAIN calls : /\ calls[i].kind = "toggle" /\ calls[i].row = r
                            /\ calls[i].stage = "sent" /\ calls[i].value = page.status[r]

RowAgrees(r) ==
    \/ foreign[r] > page.rev
    \/ page.status[r] = server.status[r]
    \/ ~Gone(r) /\ Hopes(r)

OrderAgrees == page.order = InOrder(server) \/ \E r \in Rows : foreign[r] > page.rev

(* A toggle that the server would accept, of a box as it was rendered, is  *)
(* the newest of its row, or a newer one is on its way.                    *)
Followed(c) ==
    /\ c.kind = "toggle" /\ c.stage = "sent" /\ c.renders = page.renders
    /\ c.ifMatch = server.rev /\ ~Gone(c.row)
    => Hopes(c.row)

PageSound ==
    ~Waived =>
        /\ page.rev > 0 => OrderAgrees /\ \A r \in Rows : RowAgrees(r)
        /\ \A i \in DOMAIN calls : Followed(calls[i])

ConsoleInv == ConsoleShape /\ PageSound

LEMMA ConsoleConcludes == ConsoleInv => ShownIsTrue
<1> SUFFICES ASSUME ConsoleInv, \A i \in 1..Len(calls) : calls[i].stage = "over", page.signedIn,
                    page.rev > 0, ~spanned, \A r \in Rows : foreign[r] <= page.rev
             PROVE  page.status = server.status /\ page.order = InOrder(server)
  BY DEF ShownIsTrue
<1>1. ConsoleShape /\ PageSound
  BY DEF ConsoleInv
<1>2. DOMAIN calls = 1..Len(calls)
  BY <1>1, LenProperties DEF ConsoleShape, IsSeq
<1>3. ~Waived
  BY <1>2 DEF Waived, Loads
<1>4. \A r \in Rows : ~Hopes(r)
  BY <1>2 DEF Hopes
<1>5. \A r \in Rows : ~(foreign[r] > page.rev)
  BY <1>1 DEF ConsoleShape, IsPage
<1>6. \A r \in Rows : page.status[r] = server.status[r]
  BY <1>1, <1>3, <1>4, <1>5 DEF PageSound, RowAgrees
<1>7. page.status \in Statuses /\ server.status \in Statuses
  BY <1>1 DEF ConsoleShape, IsPage, IsServer
<1>8. page.status = server.status
  BY <1>6, <1>7 DEF Statuses
<1>9. page.order = InOrder(server)
  BY <1>1, <1>3, <1>5 DEF PageSound, OrderAgrees
<1> QED
  BY <1>8, <1>9

LEMMA ConsoleStarts == ConsoleInit => ConsoleInv
<1> SUFFICES ASSUME ConsoleInit PROVE ConsoleInv
  OBVIOUS
<1>1. PICK order : server = [rev |-> 1, status |-> [r \in Rows |-> "on"], order |-> order, session |-> TRUE]
  BY DEF ConsoleInit
<1>2. page = [seen |-> 0, rev |-> 0, status |-> [r \in Rows |-> "gone"],
              order |-> <<>>, signedIn |-> TRUE, renders |-> 0]
  BY DEF ConsoleInit
<1>3. IsServer(server) /\ server.rev = 1
  BY <1>1 DEF IsServer, Statuses
<1>4. IsPage(page) /\ page.seen = 0 /\ page.rev = 0 /\ page.order = <<>> /\ \A r \in Rows : page.status[r] = "gone"
  BY <1>2 DEF IsPage, Statuses
<1>5. /\ foreign \in [Rows -> Nat] /\ \A r \in Rows : foreign[r] = 0
      /\ ownRev \in Nat
  BY DEF ConsoleInit
<1>6. IsSeq(calls) /\ DOMAIN calls = {}
  <2>1. calls \in Seq({}) /\ calls = <<>>
    BY EmptySeq DEF ConsoleInit
  <2> QED
    BY <2>1, LenProperties, EmptySeq DEF IsSeq
<1>7. ConsoleShape
  BY <1>3, <1>4, <1>5, <1>6 DEF ConsoleShape
<1>8. PageSound
  BY <1>4, <1>6 DEF PageSound
<1> QED
  BY <1>7, <1>8 DEF ConsoleInv

(* What a step may do to server and page, for the calls it leaves alone.   *)
Forwards ==
    /\ IsServer(server') /\ server.rev <= server'.rev
    /\ \A r \in Rows : Gone(r) => Gone(r)'
    /\ IsPage(page') /\ page.renders <= page'.renders
    /\ page'.renders = page.renders =>
          \A r \in Rows : page.status[r] # "gone" => page'.status[r] # "gone"
    /\ ownRev' \in Nat
    /\ \/ ownRev' > server.rev
       \/ /\ ownRev' = ownRev /\ server'.order = server.order
          /\ \A r \in Rows : \/ server'.status[r] = server.status[r] /\ foreign'[r] = foreign[r]
                             \/ foreign'[r] > server.rev

LEMMA NowOnward ==
    ASSUME NEW now, NowSound(now), Forwards, IsServer(server), foreign \in [Rows -> Nat], ownRev \in Nat,
           foreign' \in [Rows -> Nat]
    PROVE  NowSound(now)'
<1>1. /\ IsServer(now) /\ now.rev \in Nat /\ now.rev <= server.rev /\ server.rev \in Nat
      /\ server'.rev \in Nat /\ server.rev <= server'.rev
  BY DEF NowSound, Forwards, IsServer
<1>2. now.rev <= server'.rev
  BY <1>1
<1>3. \A r \in Rows : now.status[r] = "gone" => Gone(r)'
  BY DEF NowSound, Forwards
<1>4. ASSUME ownRev' <= now.rev
      PROVE  /\ now.order = server'.order
             /\ \A r \in Rows : now.status[r] = server'.status[r] \/ foreign'[r] > now.rev
  <2>1. ~(ownRev' > server.rev) /\ ownRev' \in Nat
    BY <1>1, <1>4 DEF Forwards
  <2>2. /\ ownRev' = ownRev /\ server'.order = server.order
        /\ \A r \in Rows : \/ server'.status[r] = server.status[r] /\ foreign'[r] = foreign[r]
                           \/ foreign'[r] > server.rev
    BY <2>1 DEF Forwards
  <2>3. /\ now.order = server.order
        /\ \A r \in Rows : now.status[r] = server.status[r] \/ foreign[r] > now.rev
    BY <2>2, <1>4 DEF NowSound
  <2>4. \A r \in Rows : foreign'[r] > server.rev => foreign'[r] > now.rev
    BY <1>1
  <2> QED
    BY <2>2, <2>3, <2>4
<1> QED
  BY <1>1, <1>2, <1>3, <1>4 DEF NowSound

LEMMA CallOnward ==
    ASSUME NEW c, CallSound(c), Forwards, ConsoleShape, foreign' \in [Rows -> Nat]
    PROVE  CallSound(c)'
<1>1. /\ IsCall(c) /\ c.renders \in Nat /\ c.ifMatch \in Nat /\ c.rev \in Nat
      /\ (c.kind \in {"toggle", "remove", "refresh"} => c.row \in Rows)
      /\ c.renders <= page.renders /\ c.ifMatch <= server.rev /\ c.rev <= server.rev
  BY DEF CallSound, IsCall
<1>2. /\ page.renders \in Nat /\ page'.renders \in Nat /\ page.renders <= page'.renders
      /\ server.rev \in Nat /\ server'.rev \in Nat /\ server.rev <= server'.rev
  BY DEF Forwards, ConsoleShape, IsPage, IsServer
<1>3. c.renders <= page'.renders /\ c.ifMatch <= server'.rev /\ c.rev <= server'.rev
  BY <1>1, <1>2
<1>4. c.kind = "toggle" /\ c.stage # "over" =>
          c.value \in {"on", "off"} /\ (c.renders = page'.renders => page'.status[c.row] # "gone")
  <2>1. c.renders = page'.renders => page'.renders = page.renders /\ c.renders = page.renders
    BY <1>1, <1>2
  <2> QED
    BY <2>1, <1>1 DEF CallSound, Forwards
<1>5. ASSUME c.kind = "list", c.code = 200, c.stage = "answered"
      PROVE  NowSound(c.answer[1])' /\ c.answer[1].rev = c.rev
  <2>1. PICK now : now = c.answer[1]
    OBVIOUS
  <2>2. NowSound(now) /\ now.rev = c.rev
    BY <2>1, <1>5 DEF CallSound
  <2>3. NowSound(now)'
    BY <2>2, NowOnward DEF ConsoleShape
  <2> QED
    BY <2>1, <2>2, <2>3
<1>6. c.code = 404 /\ c.stage = "answered" => c.kind \in {"toggle", "remove", "refresh"} /\ Gone(c.row)'
  BY <1>1 DEF CallSound, Forwards
<1> QED
  BY <1>1, <1>3, <1>4, <1>5, <1>6 DEF CallSound

(* One call more, and one call changed.                                    *)
LEMMA OneMore ==
    ASSUME NEW s, NEW c, IsSeq(s)
    PROVE  /\ IsSeq(Append(s, c)) /\ Len(s) \in Nat /\ DOMAIN s = 1..Len(s)
           /\ DOMAIN Append(s, c) = 1..(Len(s) + 1) /\ Append(s, c)[Len(s) + 1] = c
           /\ \A i \in DOMAIN s : i \in DOMAIN Append(s, c) /\ i # Len(s) + 1 /\ Append(s, c)[i] = s[i]
<1>1. PICK S : s \in Seq(S)
  BY DEF IsSeq
<1>2. s \in Seq(S \cup {c}) /\ c \in S \cup {c}
  BY <1>1, SeqMonotonic
<1>3. /\ Append(s, c) \in Seq(S \cup {c}) /\ Len(Append(s, c)) = Len(s) + 1
      /\ Append(s, c)[Len(s) + 1] = c
      /\ \A i \in 1..Len(s) : Append(s, c)[i] = s[i]
  BY <1>2, AppendProperties
<1>4. Len(s) \in Nat /\ DOMAIN s = 1..Len(s) /\ DOMAIN Append(s, c) = 1..(Len(s) + 1)
  BY <1>1, <1>3, LenProperties
<1> QED
  BY <1>3, <1>4 DEF IsSeq

LEMMA OneOther ==
    ASSUME NEW s, NEW c, IsSeq(s), NEW i \in DOMAIN s
    PROVE  /\ IsSeq([s EXCEPT ![i] = c]) /\ Len([s EXCEPT ![i] = c]) = Len(s)
           /\ DOMAIN [s EXCEPT ![i] = c] = DOMAIN s /\ [s EXCEPT ![i] = c][i] = c
           /\ \A j \in DOMAIN s : j # i => [s EXCEPT ![i] = c][j] = s[j]
<1>1. PICK S : s \in Seq(S)
  BY DEF IsSeq
<1>2. s \in Seq(S \cup {c}) /\ c \in S \cup {c} /\ DOMAIN s = 1..Len(s)
  BY <1>1, SeqMonotonic, LenProperties
<1>3. [s EXCEPT ![i] = c] \in Seq(S \cup {c})
  BY <1>2, ExceptSeq
<1>4. DOMAIN [s EXCEPT ![i] = c] = DOMAIN s
  BY <1>2
<1>5. Len([s EXCEPT ![i] = c]) = Len(s)
  BY <1>2, <1>3, ExceptSeq
<1> QED
  BY <1>2, <1>3, <1>4, <1>5 DEF IsSeq

LEMMA ShapeOnward ==
    ASSUME ConsoleShape, Forwards, foreign' \in [Rows -> Nat],
           \A r \in Rows : foreign'[r] <= server'.rev,
           page'.rev <= page'.seen, page'.seen <= server'.rev,
           page'.rev = 0 => page'.order = <<>> /\ \A r \in Rows : page'.status[r] = "gone",
           page'.rev > 0 => \A r \in Rows : page'.status[r] = "gone" => Gone(r)',
           IsSeq(calls'),
           \A i \in DOMAIN calls' :
              (i \in DOMAIN calls /\ calls'[i] = calls[i]) \/ CallSound(calls[i])'
    PROVE  ConsoleShape'
<1>1. ASSUME NEW i \in DOMAIN calls' PROVE CallSound(calls[i])'
  <2>1. CASE i \in DOMAIN calls /\ calls'[i] = calls[i]
    <3>1. PICK c : c = calls[i]
      OBVIOUS
    <3>2. CallSound(c)
      BY <2>1, <3>1 DEF ConsoleShape
    <3>3. CallSound(c)'
      BY <3>2, CallOnward
    <3> QED
      BY <2>1, <3>1, <3>3
  <2> QED
    BY <2>1
<1> QED
  BY <1>1 DEF ConsoleShape, Forwards

(* A step that leaves the page as it is.                                   *)
LEMMA StillOnward ==
    ASSUME ConsoleShape, page' = page, IsServer(server'), server.rev <= server'.rev, ownRev' \in Nat,
           \A r \in Rows : Gone(r) => Gone(r)',
           \/ ownRev' > server.rev
           \/ /\ ownRev' = ownRev /\ server'.order = server.order
              /\ \A r \in Rows : \/ server'.status[r] = server.status[r] /\ foreign'[r] = foreign[r]
                                 \/ foreign'[r] > server.rev
    PROVE  /\ Forwards /\ page'.rev <= page'.seen /\ page'.seen <= server'.rev
           /\ page'.rev = 0 => page'.order = <<>> /\ \A r \in Rows : page'.status[r] = "gone"
           /\ page'.rev > 0 => \A r \in Rows : page'.status[r] = "gone" => Gone(r)'
<1>1. /\ IsPage(page) /\ page.rev \in Nat /\ page.seen \in Nat /\ server.rev \in Nat /\ server'.rev \in Nat
      /\ page.rev <= page.seen /\ page.seen <= server.rev /\ page.renders \in Nat
  BY DEF ConsoleShape, IsPage, IsServer
<1>2. page'.seen <= server'.rev
  BY <1>1
<1>3. Forwards
  BY <1>1 DEF Forwards
<1> QED
  BY <1>1, <1>2, <1>3 DEF ConsoleShape

(* The operator asks for something.                                        *)
LEMMA NewCalls ==
    ASSUME ConsoleShape, NEW kind \in CallKinds \ {"none"}, NEW row, NEW value,
           kind \in {"toggle", "remove", "refresh"} => row \in Rows,
           kind \in Mutations => page.rev > 0
    PROVE  LET c == NewCall(kind, row, value) IN
           /\ IsCall(c) /\ c.kind = kind /\ c.row = row /\ c.value = value /\ c.stage = "sent"
           /\ c.renders = page.renders /\ c.renders \in Nat
           /\ c.ifMatch = IF kind \in Mutations THEN page.seen ELSE 0
           /\ c.ifMatch <= server.rev /\ c.rev = 0 /\ (kind \in Mutations => c.ifMatch > 0)
<1> DEFINE c == NewCall(kind, row, value)
<1>1. /\ page.seen \in Nat /\ page.renders \in Nat /\ page.rev \in Nat /\ server.rev \in Nat
      /\ page.rev <= page.seen /\ page.seen <= server.rev
  BY DEF ConsoleShape, IsPage, IsServer
<1>2. c = [kind |-> kind, row |-> row, value |-> value,
           ifMatch |-> IF kind \in Mutations THEN page.seen ELSE 0,
           base |-> page.rev, renders |-> page.renders, stage |-> "sent", code |-> 0, rev |-> 0,
           answer |-> <<>>]
  <2>1. PICK m : m = IF kind \in Mutations THEN page.seen ELSE 0
    OBVIOUS
  <2>2. c = [NoCall EXCEPT !.kind = kind, !.row = row, !.value = value, !.stage = "sent",
                           !.ifMatch = m, !.base = page.rev, !.renders = page.renders]
    BY <2>1 DEF NewCall
  <2> HIDE DEF c
  <2>3. c = [kind |-> kind, row |-> row, value |-> value, ifMatch |-> m, base |-> page.rev,
             renders |-> page.renders, stage |-> "sent", code |-> 0, rev |-> 0, answer |-> <<>>]
    BY ONLY <2>2 DEF NoCall
  <2> QED
    BY <2>1, <2>3
<1> HIDE DEF c
<1>3. /\ c.kind = kind /\ c.row = row /\ c.value = value /\ c.stage = "sent"
      /\ c.renders = page.renders /\ c.rev = 0
      /\ c.ifMatch = IF kind \in Mutations THEN page.seen ELSE 0
  BY <1>2
<1>4. c.ifMatch \in Nat /\ c.ifMatch <= server.rev /\ (kind \in Mutations => c.ifMatch > 0)
  BY <1>1, <1>3
<1>5. IsCall(c)
  BY <1>1, <1>2, <1>4 DEF IsCall
<1> QED
  BY <1>1, <1>3, <1>4, <1>5 DEF c

(* The calls of a step that sends one.                                     *)
LEMMA SentCalls ==
    ASSUME ConsoleShape, NEW c, calls' = Append(calls, c)
    PROVE  /\ IsSeq(calls') /\ Len(calls) + 1 \in DOMAIN calls' /\ calls'[Len(calls) + 1] = c
           /\ \A i \in DOMAIN calls : i \in DOMAIN calls' /\ calls'[i] = calls[i]
           /\ \A i \in DOMAIN calls' : (i \in DOMAIN calls /\ calls'[i] = calls[i]) \/ calls'[i] = c
<1>1. IsSeq(calls)
  BY DEF ConsoleShape
<1>2. /\ IsSeq(Append(calls, c)) /\ Len(calls) \in Nat /\ DOMAIN calls = 1..Len(calls)
      /\ DOMAIN Append(calls, c) = 1..(Len(calls) + 1) /\ Append(calls, c)[Len(calls) + 1] = c
      /\ \A i \in DOMAIN calls : i \in DOMAIN Append(calls, c) /\ i # Len(calls) + 1 /\ Append(calls, c)[i] = calls[i]
  BY <1>1, OneMore
<1>3. \A i \in 1..(Len(calls) + 1) : i \in 1..Len(calls) \/ i = Len(calls) + 1
  BY <1>2
<1> QED
  BY <1>2, <1>3

LEMMA SendKeeps ==
    ASSUME ConsoleInv, NEW kind \in CallKinds \ {"none", "toggle"}, NEW row, NEW value,
           kind \in {"toggle", "remove", "refresh"} => row \in Rows,
           kind \in Mutations => page.rev > 0,
           Send(NewCall(kind, row, value)), page' = page
    PROVE  ConsoleInv'
<1> DEFINE n == NewCall(kind, row, value)
<1>1. PICK c : c = n
  OBVIOUS
<1>2. ConsoleShape /\ PageSound
  BY DEF ConsoleInv
<1>3. /\ IsCall(c) /\ c.kind = kind /\ c.stage = "sent" /\ c.renders = page.renders /\ c.renders \in Nat
      /\ c.ifMatch <= server.rev /\ c.rev = 0 /\ (kind \in Mutations => c.ifMatch > 0)
  BY <1>1, <1>2, NewCalls
<1>4. calls' = Append(calls, c) /\ UNCHANGED <<server, foreign, blind, ownRev, spanned, cuts>>
  BY <1>1 DEF Send
<1> HIDE DEF n
<1>5. /\ IsSeq(calls') /\ \A i \in DOMAIN calls : i \in DOMAIN calls' /\ calls'[i] = calls[i]
      /\ \A i \in DOMAIN calls' : (i \in DOMAIN calls /\ calls'[i] = calls[i]) \/ calls'[i] = c
  BY <1>2, <1>4, SentCalls
<1>6. /\ IsServer(server) /\ server.rev \in Nat /\ ownRev \in Nat /\ foreign \in [Rows -> Nat]
      /\ page.renders \in Nat /\ \A r \in Rows : foreign[r] <= server.rev
  BY <1>2 DEF ConsoleShape, IsServer, IsPage
<1>7. CallSound(c)'
  <2>1. c.rev <= server'.rev /\ c.renders <= page'.renders /\ c.ifMatch <= server'.rev
    BY <1>3, <1>4, <1>6
  <2> QED
    BY <1>3, <2>1 DEF CallSound
<1>8. ConsoleShape'
  <2>1. /\ IsServer(server') /\ server.rev <= server'.rev /\ ownRev' \in Nat
        /\ (\A r \in Rows : Gone(r) => Gone(r)')
        /\ ownRev' = ownRev /\ server'.order = server.order
        /\ \A r \in Rows : server'.status[r] = server.status[r] /\ foreign'[r] = foreign[r]
    BY <1>4, <1>6 DEF Gone
  <2>2. /\ Forwards /\ page'.rev <= page'.seen /\ page'.seen <= server'.rev
        /\ page'.rev = 0 => page'.order = <<>> /\ \A r \in Rows : page'.status[r] = "gone"
        /\ page'.rev > 0 => \A r \in Rows : page'.status[r] = "gone" => Gone(r)'
    BY <1>2, <2>1, StillOnward
  <2>3. \A i \in DOMAIN calls' : (i \in DOMAIN calls /\ calls'[i] = calls[i]) \/ CallSound(calls[i])'
    BY <1>5, <1>7
  <2>4. foreign' \in [Rows -> Nat] /\ \A r \in Rows : foreign'[r] <= server'.rev
    BY <1>4, <1>6
  <2> QED
    BY <1>2, <1>5, <2>2, <2>3, <2>4, ShapeOnward
<1>9. PageSound'
  <2> SUFFICES ASSUME ~Waived' PROVE /\ page'.rev > 0 => OrderAgrees' /\ \A r \in Rows : RowAgrees(r)'
                                     /\ \A i \in DOMAIN calls' : Followed(calls[i])'
    BY DEF PageSound
  <2>1. ~Waived
    BY <1>4, <1>5 DEF Waived
  <2>2. ASSUME NEW r, Hopes(r) PROVE Hopes(r)'
    BY <2>2, <1>5 DEF Hopes
  <2>3. page'.rev > 0 => OrderAgrees' /\ \A r \in Rows : RowAgrees(r)'
    BY <2>1, <2>2, <1>2, <1>4 DEF PageSound, OrderAgrees, RowAgrees, Gone
  <2>4. ASSUME NEW i \in DOMAIN calls' PROVE Followed(calls[i])'
    <3>1. CASE calls'[i] = c
      BY <3>1, <1>3 DEF Followed
    <3>2. CASE i \in DOMAIN calls /\ calls'[i] = calls[i]
      <4>1. Followed(calls[i])
        BY <3>2, <2>1, <1>2 DEF PageSound
      <4> QED
        BY <4>1, <3>2, <2>2, <1>4 DEF Followed, Gone
    <3> QED
      BY <3>1, <3>2, <1>5
  <2> QED
    BY <2>3, <2>4
<1> QED
  BY <1>8, <1>9 DEF ConsoleInv

LEMMA ToggleKeeps ==
    ASSUME ConsoleInv, NEW r \in Rows, ToggleRow(r)
    PROVE  ConsoleInv'
<1> DEFINE n == NewCall("toggle", r, Other(page.status[r]))
<1>1. PICK c : c = n
  OBVIOUS
<1>2. ConsoleShape /\ PageSound
  BY DEF ConsoleInv
<1>a. page.status[r] # "gone" /\ page.rev \in Nat /\ page.rev > 0 /\ page.status \in Statuses
  <2>1. page.status[r] # "gone" /\ page.rev \in Nat /\ page.status \in Statuses
    BY <1>2 DEF ToggleRow, Shown, ConsoleShape, IsPage
  <2> QED
    BY <2>1, <1>2 DEF ConsoleShape
<1>b. PICK v : v = Other(page.status[r])
  OBVIOUS
<1>c. v \in {"on", "off"}
  BY <1>b DEF Other
<1>3. /\ IsCall(c) /\ c.kind = "toggle" /\ c.stage = "sent" /\ c.renders = page.renders /\ c.renders \in Nat
      /\ c.row = r /\ c.value = v
      /\ c.ifMatch <= server.rev /\ c.rev = 0 /\ c.ifMatch > 0
  BY <1>1, <1>2, <1>a, <1>b, NewCalls DEF CallKinds, Mutations
<1>4. calls' = Append(calls, c) /\ UNCHANGED <<server, foreign, blind, ownRev, spanned, cuts>>
  BY <1>1 DEF ToggleRow, Send
<1> HIDE DEF n
<1>5. /\ IsSeq(calls') /\ \A i \in DOMAIN calls : i \in DOMAIN calls' /\ calls'[i] = calls[i]
      /\ \A i \in DOMAIN calls' : (i \in DOMAIN calls /\ calls'[i] = calls[i]) \/ calls'[i] = c
      /\ Len(calls) + 1 \in DOMAIN calls' /\ calls'[Len(calls) + 1] = c
  BY <1>2, <1>4, SentCalls
<1>6. /\ IsServer(server) /\ server.rev \in Nat /\ ownRev \in Nat /\ foreign \in [Rows -> Nat]
      /\ page.renders \in Nat /\ \A p \in Rows : foreign[p] <= server.rev
  BY <1>2 DEF ConsoleShape, IsServer, IsPage
<1>p. /\ IsPage(page') /\ page'.renders = page.renders /\ page'.rev = page.rev /\ page'.seen = page.seen
      /\ page'.order = page.order /\ page'.signedIn = page.signedIn
      /\ page'.status[r] = v /\ \A p \in Rows : p # r => page'.status[p] = page.status[p]
  <2>1. PICK st : st = [page.status EXCEPT ![r] = v]
    OBVIOUS
  <2>2. page' = [page EXCEPT !.status = st]
    BY <2>1, <1>b DEF ToggleRow
  <2>3. IsPage(page)
    BY <1>2 DEF ConsoleShape
  <2>4. st \in Statuses /\ st[r] = v /\ \A p \in Rows : p # r => st[p] = page.status[p]
    BY <2>1, <1>a, <1>c DEF Statuses
  <2>5. page' = [seen |-> page.seen, rev |-> page.rev, status |-> st, order |-> page.order,
                 signedIn |-> page.signedIn, renders |-> page.renders]
    BY <2>2, <2>3 DEF IsPage
  <2> QED
    BY <2>3, <2>4, <2>5 DEF IsPage
<1>7. CallSound(c)'
  <2>1. c.rev <= server'.rev /\ c.renders <= page'.renders /\ c.ifMatch <= server'.rev
    BY <1>3, <1>4, <1>6, <1>p
  <2>2. page'.status[c.row] # "gone" /\ c.value \in {"on", "off"}
    BY <1>3, <1>c, <1>p
  <2> QED
    BY <1>3, <2>1, <2>2 DEF CallSound
<1>8. ConsoleShape'
  <2>1. Forwards
    <3>1. /\ IsServer(server') /\ server.rev <= server'.rev /\ ownRev' \in Nat
          /\ (\A p \in Rows : Gone(p) => Gone(p)')
          /\ ownRev' = ownRev /\ server'.order = server.order
          /\ \A p \in Rows : server'.status[p] = server.status[p] /\ foreign'[p] = foreign[p]
      BY <1>4, <1>6 DEF Gone
    <3>2. \A p \in Rows : page.status[p] # "gone" => page'.status[p] # "gone"
      BY <1>p, <1>c
    <3>3. page.renders <= page'.renders
      BY <1>6, <1>p
    <3> QED
      BY <3>1, <3>2, <3>3, <1>p DEF Forwards
  <2>2. /\ page'.rev <= page'.seen /\ page'.seen <= server'.rev /\ page'.rev # 0
        /\ \A p \in Rows : page'.status[p] = "gone" => Gone(p)'
    BY <1>2, <1>4, <1>a, <1>c, <1>p DEF ConsoleShape, Gone
  <2>3. \A i \in DOMAIN calls' : (i \in DOMAIN calls /\ calls'[i] = calls[i]) \/ CallSound(calls[i])'
    BY <1>5, <1>7
  <2>4. foreign' \in [Rows -> Nat] /\ \A p \in Rows : foreign'[p] <= server'.rev
    BY <1>4, <1>6
  <2> QED
    BY <1>2, <1>5, <2>1, <2>2, <2>3, <2>4, ShapeOnward
<1>9. PageSound'
  <2> SUFFICES ASSUME ~Waived' PROVE /\ page'.rev > 0 => OrderAgrees' /\ \A p \in Rows : RowAgrees(p)'
                                     /\ \A i \in DOMAIN calls' : Followed(calls[i])'
    BY DEF PageSound
  <2>1. ~Waived
    BY <1>4, <1>5, <1>p DEF Waived
  <2>2. ASSUME NEW p \in Rows, p # r, Hopes(p) PROVE Hopes(p)'
    BY <2>2, <1>5, <1>p DEF Hopes
  <2>3. Hopes(r)'
    BY <1>3, <1>5, <1>p DEF Hopes
  <2>4. OrderAgrees'
    BY <2>1, <1>2, <1>4, <1>a, <1>p DEF PageSound, OrderAgrees
  <2>5. ASSUME NEW p \in Rows PROVE RowAgrees(p)'
    <3>1. RowAgrees(p)
      BY <2>1, <1>2, <1>a DEF PageSound
    <3>2. CASE p # r
      BY <3>1, <3>2, <2>2, <1>4, <1>p DEF RowAgrees, Gone
    <3>3. CASE p = r
      BY <3>1, <3>3, <2>3, <1>4, <1>a, <1>p DEF RowAgrees, Gone
    <3> QED
      BY <3>2, <3>3
  <2>6. ASSUME NEW i \in DOMAIN calls' PROVE Followed(calls[i])'
    <3>1. CASE calls'[i] = c
      BY <3>1, <1>3, <2>3 DEF Followed
    <3>2. CASE i \in DOMAIN calls /\ calls'[i] = calls[i]
      <4>1. Followed(calls[i]) /\ (calls[i].kind = "toggle" => calls[i].row \in Rows)
        BY <3>2, <2>1, <1>2 DEF PageSound, ConsoleShape, CallSound, IsCall
      <4>2. CASE calls[i].row = r
        BY <4>2, <3>2, <2>3 DEF Followed
      <4>3. CASE calls[i].row # r
        BY <4>1, <4>3, <3>2, <2>2, <1>4, <1>p DEF Followed, Gone
      <4> QED
        BY <4>2, <4>3
    <3> QED
      BY <3>1, <3>2, <1>5
  <2> QED
    BY <2>4, <2>5, <2>6
<1> QED
  BY <1>8, <1>9 DEF ConsoleInv

(* The server answers.                                                     *)
LEMMA Refusals ==
    ASSUME NEW c, IsCall(c), CallSound(c)
    PROVE  /\ Refusal(c) \in {200, 401, 404, 412}
           /\ c.kind \in {"list", "login"} => Refusal(c) \in {200, 401}
           /\ Refusal(c) = 404 => c.kind \in {"toggle", "remove", "refresh"} /\ Gone(c.row)
           /\ Refusal(c) = 200 /\ c.kind \in Mutations =>
                 ~Stale(c) /\ (c.kind # "move" => ~Gone(c.row))
BY DEF Refusal, Mutations, Gone, IsCall, CallKinds

LEMMA ChangedCalls ==
    ASSUME ConsoleShape, NEW i \in DOMAIN calls, NEW n, calls' = [calls EXCEPT ![i] = n]
    PROVE  /\ IsSeq(calls') /\ DOMAIN calls' = DOMAIN calls /\ calls'[i] = n
           /\ \A j \in DOMAIN calls : j # i => calls'[j] = calls[j]
BY OneOther DEF ConsoleShape

(* What an answer is, whatever the call.                                   *)
LEMMA Answered ==
    ASSUME ConsoleShape, NEW i \in DOMAIN calls, Serve(i)
    PROVE  \E c, n :
              /\ c = calls[i] /\ CallSound(c) /\ c.stage = "sent" /\ calls' = [calls EXCEPT ![i] = n]
              /\ n.kind = c.kind /\ n.row = c.row /\ n.value = c.value /\ n.renders = c.renders
              /\ n.ifMatch = c.ifMatch /\ n.stage = "answered" /\ n.code = Refusal(c) /\ n.rev = server'.rev
              /\ (c.kind = "list" => n.answer[1] = server')
              /\ (server'.rev \in Nat => IsCall(n))
<1>1. PICK c : c = calls[i]
  OBVIOUS
<1>2. CallSound(c) /\ IsCall(c)
  BY <1>1 DEF ConsoleShape, CallSound
<1>3. PICK a : a = IF c.kind = "list" THEN <<server'>> ELSE <<>>
  OBVIOUS
<1>4. PICK rv : rv = server'.rev
  OBVIOUS
<1>5. PICK n : n = [c EXCEPT !.stage = "answered", !.code = Refusal(c), !.rev = rv, !.answer = a]
  OBVIOUS
<1>6. c.stage = "sent" /\ AnswerWith(i, Refusal(c), server')
  BY <1>1 DEF Serve
<1>7. calls' = [calls EXCEPT ![i] = n]
  <2>1. IsSeq(calls)
    BY DEF ConsoleShape
  <2>2. calls' = [calls EXCEPT ![i].stage = "answered", ![i].code = Refusal(c), ![i].rev = rv, ![i].answer = a]
    BY <1>1, <1>3, <1>4, <1>6 DEF AnswerWith
  <2> QED
    BY <2>2, <1>1, <1>5
<1>8. n = [kind |-> c.kind, row |-> c.row, value |-> c.value, ifMatch |-> c.ifMatch,
           base |-> c.base, renders |-> c.renders, stage |-> "answered", code |-> Refusal(c),
           rev |-> rv, answer |-> a]
  BY <1>2, <1>5 DEF IsCall
<1>9. /\ n.kind = c.kind /\ n.row = c.row /\ n.value = c.value /\ n.renders = c.renders /\ n.rev = rv
      /\ n.ifMatch = c.ifMatch /\ n.stage = "answered" /\ n.code = Refusal(c) /\ n.answer = a /\ n.base = c.base
  BY <1>8
<1>10. c.kind = "list" => n.answer[1] = server'
  BY <1>3, <1>9
<1>11. server'.rev \in Nat => IsCall(n)
  BY <1>2, <1>4, <1>8, <1>9 DEF IsCall
<1> QED
  BY <1>1, <1>2, <1>4, <1>6, <1>7, <1>9, <1>10, <1>11

(* A change the server makes: its revision is newer than any list.         *)
LEMMA AcceptKeeps ==
    ASSUME ConsoleInv, NEW i \in DOMAIN calls, Serve(i),
           Refusal(calls[i]) = 200, calls[i].kind \in Mutations
    PROVE  ConsoleInv'
<1>1. ConsoleShape /\ PageSound
  BY DEF ConsoleInv
<1>2. PICK c, n :
              /\ c = calls[i] /\ CallSound(c) /\ c.stage = "sent" /\ calls' = [calls EXCEPT ![i] = n]
              /\ n.kind = c.kind /\ n.row = c.row /\ n.value = c.value /\ n.renders = c.renders
              /\ n.ifMatch = c.ifMatch /\ n.stage = "answered" /\ n.code = Refusal(c) /\ n.rev = server'.rev
              /\ (c.kind = "list" => n.answer[1] = server')
              /\ (server'.rev \in Nat => IsCall(n))
  BY <1>1, Answered
<1>3. Refusal(c) = 200 /\ c.kind \in Mutations
  BY <1>2
<1>4. /\ server' = Mutated(c) /\ ownRev' = server.rev + 1
      /\ spanned' = (spanned \/ c.renders # page.renders)
      /\ UNCHANGED <<page, foreign, cuts>>
  BY <1>2, <1>3 DEF Serve
<1>5. /\ IsServer(server) /\ server.rev \in Nat \ {0} /\ server.status \in Statuses /\ foreign \in [Rows -> Nat]
      /\ \A r \in Rows : foreign[r] <= server.rev
  BY <1>1 DEF ConsoleShape, IsServer
<1>6. ~Stale(c) /\ (c.kind # "move" => ~Gone(c.row)) /\ (c.kind # "move" => c.row \in Rows) /\ IsCall(c)
      /\ (c.kind = "toggle" => c.value \in {"on", "off"}) /\ c.ifMatch > 0 /\ c.ifMatch \in Nat
  BY <1>2, <1>3, Refusals DEF CallSound, IsCall, Mutations
<1>7. c.ifMatch = server.rev
  BY <1>5, <1>6 DEF Stale
<1>8. /\ IsServer(server') /\ server'.rev = server.rev + 1
      /\ \A r \in Rows : Gone(r) => Gone(r)'
      /\ c.kind = "toggle" => /\ server'.order = server.order
                              /\ server'.status = [server.status EXCEPT ![c.row] = c.value]
  <2>1. PICK next : next = [server EXCEPT !.rev = server.rev + 1]
    OBVIOUS
  <2>2. next = [rev |-> server.rev + 1, status |-> server.status, order |-> server.order, session |-> server.session]
    BY <2>1, <1>5 DEF IsServer
  <2>3. next.rev = server.rev + 1 /\ next.status = server.status /\ next.order = server.order
    BY <2>2
  <2>4. IsServer(next)
    BY <2>2, <2>3, <1>5 DEF IsServer
  <2>5. CASE c.kind = "toggle"
    <3>1. PICK st : st = [server.status EXCEPT ![c.row] = c.value]
      OBVIOUS
    <3>a. c.value \in {"on", "off"} /\ c.row \in Rows /\ server.status[c.row] # "gone"
      BY <1>6, <2>5 DEF Gone
    <3>b. PICK v : v = c.value
      OBVIOUS
    <3>c. st = [server.status EXCEPT ![c.row] = v] /\ v \in {"on", "off", "gone"}
      BY <3>1, <3>a, <3>b
    <3>d. st \in Statuses
      BY <3>c, <1>5 DEF Statuses
    <3>2. ASSUME NEW r \in Rows, server.status[r] = "gone" PROVE st[r] = "gone"
      <4>1. r # c.row
        BY <3>2, <3>a
      <4> QED
        BY <4>1, <3>2, <3>c, <1>5 DEF Statuses
    <3>3. server' = [next EXCEPT !.status = st]
      BY <3>1, <1>4, <2>1, <2>3, <2>5 DEF Mutated
    <3>4. server' = [rev |-> server.rev + 1, status |-> st, order |-> server.order, session |-> server.session]
      BY <3>3, <2>2
    <3> QED
      BY <3>1, <3>2, <3>d, <3>4, <1>5, <2>5 DEF IsServer, Gone
  <2>6. CASE c.kind = "remove"
    <3>1. PICK st : st = [server.status EXCEPT ![c.row] = "gone"]
      OBVIOUS
    <3>d. st \in Statuses
      BY <3>1, <1>5 DEF Statuses
    <3>2. ASSUME NEW r \in Rows, server.status[r] = "gone" PROVE st[r] = "gone"
      BY <3>1, <3>2, <1>5 DEF Statuses
    <3>3. server' = [next EXCEPT !.status = st]
      BY <3>1, <1>4, <2>1, <2>3, <2>6 DEF Mutated
    <3>4. server' = [rev |-> server.rev + 1, status |-> st, order |-> server.order, session |-> server.session]
      BY <3>3, <2>2
    <3> QED
      BY <3>2, <3>d, <3>4, <1>5, <2>6 DEF IsServer, Gone
  <2>7. CASE c.kind = "move"
    <3>1. PICK o : o = c.value \o OnlyOf(next.order, Rows \ ToSet(c.value))
      OBVIOUS
    <3>3. server' = [next EXCEPT !.order = o]
      BY <3>1, <1>4, <2>1, <2>7 DEF Mutated
    <3>4. server' = [rev |-> server.rev + 1, status |-> server.status, order |-> o, session |-> server.session]
      BY <3>3, <2>2
    <3> QED
      BY <3>4, <1>5, <2>7 DEF IsServer, Gone
  <2>8. CASE c.kind = "refresh"
    BY <1>4, <2>1, <2>3, <2>4, <2>8 DEF Mutated, Gone
  <2> QED
    BY <2>5, <2>6, <2>7, <2>8, <1>3 DEF Mutations
<1>9. /\ IsSeq(calls') /\ DOMAIN calls' = DOMAIN calls /\ calls'[i] = n
      /\ \A j \in DOMAIN calls : j # i => calls'[j] = calls[j]
  BY <1>1, <1>2, ChangedCalls
<1>10. CallSound(n)'
  <2>1. /\ n.renders <= page'.renders /\ n.ifMatch <= server'.rev /\ n.rev <= server'.rev /\ server'.rev \in Nat
        /\ n.ifMatch > 0
    BY <1>2, <1>4, <1>5, <1>6, <1>7, <1>8 DEF CallSound
  <2>2. n.kind = "toggle" => n.value \in {"on", "off"} /\ (n.renders = page'.renders => page'.status[n.row] # "gone")
    BY <1>2, <1>4 DEF CallSound
  <2> QED
    BY <1>2, <1>3, <2>1, <2>2 DEF CallSound, Mutations
<1>11. ConsoleShape'
  <2>1. IsServer(server') /\ server.rev <= server'.rev /\ ownRev' \in Nat /\ ownRev' > server.rev
        /\ page' = page /\ (\A r \in Rows : Gone(r) => Gone(r)')
    BY <1>4, <1>5, <1>8
  <2>2. /\ Forwards /\ page'.rev <= page'.seen /\ page'.seen <= server'.rev
        /\ page'.rev = 0 => page'.order = <<>> /\ \A r \in Rows : page'.status[r] = "gone"
        /\ page'.rev > 0 => \A r \in Rows : page'.status[r] = "gone" => Gone(r)'
    BY <1>1, <2>1, StillOnward
  <2>3. \A j \in DOMAIN calls' : (j \in DOMAIN calls /\ calls'[j] = calls[j]) \/ CallSound(calls[j])'
    BY <1>9, <1>10
  <2>4. foreign' \in [Rows -> Nat] /\ \A r \in Rows : foreign'[r] <= server'.rev
    BY <1>4, <1>5, <1>8
  <2> QED
    BY <1>1, <1>9, <2>2, <2>3, <2>4, ShapeOnward
<1>12. PageSound'
  <2> SUFFICES ASSUME ~Waived' PROVE /\ page'.rev > 0 => OrderAgrees' /\ \A r \in Rows : RowAgrees(r)'
                                     /\ \A j \in DOMAIN calls' : Followed(calls[j])'
    BY DEF PageSound
  <2>1. c.kind = "toggle" /\ c.renders = page.renders /\ ~spanned /\ page.signedIn
    <3>1. ~Loads(n)
      BY <1>9 DEF Waived
    <3>2. n.kind \notin {"move", "remove", "refresh"}
      BY <3>1, <1>2, <1>3 DEF Loads
    <3>3. c.kind = "toggle"
      BY <3>2, <1>2, <1>3 DEF Mutations
    <3>4. ~spanned' /\ page'.signedIn
      BY DEF Waived
    <3> QED
      BY <3>3, <3>4, <1>4
  <2>2. ~Waived
    <3>1. ASSUME NEW j \in DOMAIN calls PROVE ~Loads(calls[j])
      <4>1. CASE j = i
        BY <4>1, <1>2, <2>1 DEF Loads
      <4>2. CASE j # i
        BY <4>2, <1>9 DEF Waived
      <4> QED
        BY <4>1, <4>2
    <3> QED
      BY <3>1, <2>1 DEF Waived
  <2>3. Hopes(c.row)
    BY <1>1, <1>2, <1>6, <1>7, <2>1, <2>2 DEF PageSound, Followed
  <2>4. ASSUME NEW r, r # c.row, Hopes(r) PROVE Hopes(r)'
    BY <2>4, <1>2, <1>4, <1>9 DEF Hopes
  <2>5. \A r \in Rows : Gone(r)' <=> Gone(r)
    BY <1>5, <1>6, <1>8, <2>1 DEF Gone, Statuses
  <2>6. ASSUME page'.rev > 0 PROVE OrderAgrees'
    <3>1. {r \in Rows : server'.status[r] # "gone"} = {r \in Rows : server.status[r] # "gone"}
      BY <2>5 DEF Gone
    <3>2. InOrder(server') = InOrder(server)
      BY <3>1, <1>8, <2>1 DEF InOrder
    <3> QED
      BY <3>2, <2>2, <2>6, <1>1, <1>4 DEF PageSound, OrderAgrees
  <2>7. ASSUME page'.rev > 0, NEW r \in Rows PROVE RowAgrees(r)'
    <3>1. RowAgrees(r)
      BY <2>2, <2>7, <1>1, <1>4 DEF PageSound
    <3>2. CASE r # c.row
      <4>1. server'.status[r] = server.status[r]
        BY <3>2, <1>5, <1>8, <2>1 DEF Statuses
      <4> QED
        BY <3>1, <3>2, <4>1, <2>4, <2>5, <1>4 DEF RowAgrees
    <3>3. CASE r = c.row
      <4>1. server'.status[r] = c.value /\ ~Gone(r)'
        BY <3>3, <1>5, <1>6, <1>8, <2>1, <2>5 DEF Statuses
      <4>2. PICK j \in DOMAIN calls : /\ calls[j].kind = "toggle" /\ calls[j].row = r
                                      /\ calls[j].stage = "sent" /\ calls[j].value = page.status[r]
        BY <2>3, <3>3 DEF Hopes
      <4>3. CASE j = i
        BY <4>1, <4>2, <4>3, <1>2, <1>4 DEF RowAgrees
      <4>4. CASE j # i
        <5>1. Hopes(r)'
          BY <4>2, <4>4, <1>4, <1>9 DEF Hopes
        <5> QED
          BY <5>1, <4>1 DEF RowAgrees
      <4> QED
        BY <4>3, <4>4
    <3> QED
      BY <3>2, <3>3
  <2>8. ASSUME NEW j \in DOMAIN calls' PROVE Followed(calls[j])'
    <3>1. CASE j = i
      BY <3>1, <1>2, <1>9 DEF Followed
    <3>2. CASE j # i
      <4>1. calls'[j] = calls[j] /\ calls[j].ifMatch <= server.rev /\ calls[j].ifMatch \in Nat
        BY <3>2, <1>1, <1>9 DEF ConsoleShape, CallSound, IsCall
      <4>2. calls'[j].ifMatch # server'.rev
        BY <4>1, <1>5, <1>8
      <4> QED
        BY <4>2 DEF Followed
    <3> QED
      BY <3>1, <3>2
  <2> QED
    BY <2>6, <2>7, <2>8
<1> QED
  BY <1>11, <1>12 DEF ConsoleInv

(* Any other answer tells how the server is.                               *)
LEMMA ReplyKeeps ==
    ASSUME ConsoleInv, NEW i \in DOMAIN calls, Serve(i),
           ~(Refusal(calls[i]) = 200 /\ calls[i].kind \in Mutations)
    PROVE  ConsoleInv'
<1>1. ConsoleShape /\ PageSound
  BY DEF ConsoleInv
<1>2. PICK c, n :
              /\ c = calls[i] /\ CallSound(c) /\ c.stage = "sent" /\ calls' = [calls EXCEPT ![i] = n]
              /\ n.kind = c.kind /\ n.row = c.row /\ n.value = c.value /\ n.renders = c.renders
              /\ n.ifMatch = c.ifMatch /\ n.stage = "answered" /\ n.code = Refusal(c) /\ n.rev = server'.rev
              /\ (c.kind = "list" => n.answer[1] = server')
              /\ (server'.rev \in Nat => IsCall(n))
  BY <1>1, Answered
<1>3. ~(Refusal(c) = 200 /\ c.kind \in Mutations)
  BY <1>2
<1>4. /\ server' = [server EXCEPT !.session = @ \/ c.kind = "login"]
      /\ UNCHANGED <<page, foreign, cuts, ownRev, spanned>>
  BY <1>2, <1>3 DEF Serve
<1>5. /\ IsServer(server) /\ server.rev \in Nat \ {0} /\ server.status \in Statuses /\ foreign \in [Rows -> Nat]
      /\ ownRev \in Nat /\ \A r \in Rows : foreign[r] <= server.rev
  BY <1>1 DEF ConsoleShape, IsServer
<1>6. /\ IsServer(server') /\ server'.rev = server.rev /\ server'.order = server.order
      /\ server'.status = server.status
  <2>1. PICK se : se = (server.session \/ c.kind = "login")
    OBVIOUS
  <2>2. server' = [server EXCEPT !.session = se]
    BY <2>1, <1>4
  <2>3. server' = [rev |-> server.rev, status |-> server.status, order |-> server.order, session |-> se]
    BY <2>2, <1>5 DEF IsServer
  <2> QED
    BY <2>3, <1>5 DEF IsServer
<1>7. /\ Refusal(c) \in {200, 401, 404, 412}
      /\ c.kind \in {"list", "login"} => Refusal(c) \in {200, 401}
      /\ Refusal(c) = 404 => c.kind \in {"toggle", "remove", "refresh"} /\ Gone(c.row)
  BY <1>2, Refusals DEF CallSound
<1>8. \A r \in Rows : Gone(r)' <=> Gone(r)
  BY <1>6 DEF Gone
<1>9. /\ IsSeq(calls') /\ DOMAIN calls' = DOMAIN calls /\ calls'[i] = n
      /\ \A j \in DOMAIN calls : j # i => calls'[j] = calls[j]
  BY <1>1, <1>2, ChangedCalls
<1>10. CallSound(n)'
  <2>1. /\ n.renders <= page'.renders /\ n.ifMatch <= server'.rev /\ n.rev <= server'.rev /\ server'.rev \in Nat
        /\ (n.kind \in Mutations => n.ifMatch > 0)
    BY <1>2, <1>4, <1>5, <1>6 DEF CallSound
  <2>2. n.kind = "toggle" => n.value \in {"on", "off"} /\ (n.renders = page'.renders => page'.status[n.row] # "gone")
    BY <1>2, <1>4 DEF CallSound
  <2>3. n.code = 404 => n.kind \in {"toggle", "remove", "refresh"} /\ Gone(n.row)'
    BY <1>2, <1>6, <1>7 DEF Gone
  <2>4. ASSUME n.kind = "list" PROVE NowSound(n.answer[1])' /\ n.answer[1].rev = n.rev
    <3>1. n.answer[1] = server' /\ n.answer[1].rev = n.rev
      BY <1>2, <2>4
    <3>2. PICK now : now = server'
      OBVIOUS
    <3>3. NowSound(now)'
      BY <3>2, <1>6, <2>1 DEF NowSound, Gone
    <3> QED
      BY <3>1, <3>2, <3>3
  <2> QED
    BY <1>2, <1>7, <2>1, <2>2, <2>3, <2>4 DEF CallSound
<1>11. ConsoleShape'
  <2>1. /\ IsServer(server') /\ server.rev <= server'.rev /\ ownRev' \in Nat /\ page' = page
        /\ (\A r \in Rows : Gone(r) => Gone(r)')
        /\ ownRev' = ownRev /\ server'.order = server.order
        /\ \A r \in Rows : server'.status[r] = server.status[r] /\ foreign'[r] = foreign[r]
    BY <1>4, <1>5, <1>6, <1>8
  <2>2. /\ Forwards /\ page'.rev <= page'.seen /\ page'.seen <= server'.rev
        /\ page'.rev = 0 => page'.order = <<>> /\ \A r \in Rows : page'.status[r] = "gone"
        /\ page'.rev > 0 => \A r \in Rows : page'.status[r] = "gone" => Gone(r)'
    BY <1>1, <2>1, StillOnward
  <2>3. \A j \in DOMAIN calls' : (j \in DOMAIN calls /\ calls'[j] = calls[j]) \/ CallSound(calls[j])'
    BY <1>9, <1>10
  <2>4. foreign' \in [Rows -> Nat] /\ \A r \in Rows : foreign'[r] <= server'.rev
    BY <1>4, <1>5, <1>6
  <2> QED
    BY <1>1, <1>9, <2>2, <2>3, <2>4, ShapeOnward
<1>12. PageSound'
  <2> SUFFICES ASSUME ~Waived' PROVE /\ page'.rev > 0 => OrderAgrees' /\ \A r \in Rows : RowAgrees(r)'
                                     /\ \A j \in DOMAIN calls' : Followed(calls[j])'
    BY DEF PageSound
  <2>1. ~Loads(n) /\ ~spanned /\ page.signedIn
    BY <1>4, <1>9 DEF Waived
  <2>2. n.code = 404 \/ (n.code = 200 /\ n.kind \notin Mutations)
    BY <2>1, <1>2, <1>3, <1>7 DEF Loads
  <2>3. ~Waived
    <3>1. ASSUME NEW j \in DOMAIN calls PROVE ~Loads(calls[j])
      <4>1. CASE j = i
        BY <4>1, <1>2, <2>1 DEF Loads
      <4>2. CASE j # i
        BY <4>2, <1>9 DEF Waived
      <4> QED
        BY <4>1, <4>2
    <3> QED
      BY <3>1, <2>1 DEF Waived
  <2>4. ASSUME NEW r \in Rows, ~Gone(r), Hopes(r) PROVE Hopes(r)'
    <3>1. PICK j \in DOMAIN calls : /\ calls[j].kind = "toggle" /\ calls[j].row = r
                                    /\ calls[j].stage = "sent" /\ calls[j].value = page.status[r]
      BY <2>4 DEF Hopes
    <3>2. j # i
      BY <3>1, <2>2, <2>4, <1>2, <1>7 DEF Mutations
    <3> QED
      BY <3>1, <3>2, <1>4, <1>9 DEF Hopes
  <2>5. ASSUME page'.rev > 0 PROVE OrderAgrees'
    <3>1. InOrder(server') = InOrder(server)
      BY <1>6 DEF InOrder
    <3> QED
      BY <3>1, <2>3, <2>5, <1>1, <1>4 DEF PageSound, OrderAgrees
  <2>6. ASSUME page'.rev > 0, NEW r \in Rows PROVE RowAgrees(r)'
    <3>1. RowAgrees(r)
      BY <2>3, <2>6, <1>1, <1>4 DEF PageSound
    <3> QED
      BY <3>1, <2>4, <1>4, <1>6, <1>8 DEF RowAgrees
  <2>7. ASSUME NEW j \in DOMAIN calls' PROVE Followed(calls[j])'
    <3>1. CASE j = i
      BY <3>1, <1>2, <1>9 DEF Followed
    <3>2. CASE j # i
      <4>1. calls'[j] = calls[j] /\ Followed(calls[j]) /\ (calls[j].kind = "toggle" => calls[j].row \in Rows)
        BY <3>2, <1>1, <1>9, <2>3 DEF PageSound, ConsoleShape, CallSound, IsCall
      <4> QED
        BY <4>1, <2>4, <1>4, <1>6, <1>8 DEF Followed
    <3> QED
      BY <3>1, <3>2
  <2> QED
    BY <2>5, <2>6, <2>7
<1> QED
  BY <1>11, <1>12 DEF ConsoleInv

LEMMA ServeKeeps == ASSUME ConsoleInv, NEW i \in DOMAIN calls, Serve(i) PROVE ConsoleInv'
BY AcceptKeeps, ReplyKeeps

(* Others change an addon: it is newer than what the page shows.           *)
LEMMA OthersKeep ==
    ASSUME ConsoleInv, NEW r \in Rows, NEW to \in {"on", "off", "gone"}, OthersChange(r, to)
    PROVE  ConsoleInv'
<1>1. ConsoleShape /\ PageSound
  BY DEF ConsoleInv
<1>2. /\ IsServer(server) /\ server.rev \in Nat \ {0} /\ server.status \in Statuses /\ foreign \in [Rows -> Nat]
      /\ ownRev \in Nat /\ \A p \in Rows : foreign[p] <= server.rev
      /\ page.rev \in Nat /\ page.seen \in Nat /\ page.rev <= page.seen /\ page.seen <= server.rev
  BY <1>1 DEF ConsoleShape, IsServer, IsPage
<1>3. UNCHANGED <<page, calls, blind, ownRev, spanned, cuts>> /\ server.status[r] # "gone"
  BY DEF OthersChange
<1>4. /\ IsServer(server') /\ server'.rev = server.rev + 1 /\ server'.order = server.order
      /\ \A p \in Rows : p # r => server'.status[p] = server.status[p]
  <2>1. PICK st : st = [server.status EXCEPT ![r] = to]
    OBVIOUS
  <2>2. st \in Statuses /\ \A p \in Rows : p # r => st[p] = server.status[p]
    BY <2>1, <1>2 DEF Statuses
  <2>3. PICK rv : rv = server.rev + 1
    OBVIOUS
  <2>4. server' = [server EXCEPT !.rev = rv, !.status = st]
    BY <2>1, <2>3 DEF OthersChange
  <2>5. server' = [rev |-> rv, status |-> st, order |-> server.order, session |-> server.session]
    BY <2>4, <1>2 DEF IsServer
  <2>6. rv \in Nat \ {0}
    BY <2>3, <1>2
  <2> QED
    BY <2>2, <2>3, <2>5, <2>6 DEF IsServer
<1>5. /\ foreign' \in [Rows -> Nat] /\ foreign'[r] = server.rev + 1
      /\ \A p \in Rows : p # r => foreign'[p] = foreign[p]
  BY <1>2 DEF OthersChange
<1>6. \A p \in Rows : Gone(p) => Gone(p)'
  <2>1. ASSUME NEW p \in Rows, server.status[p] = "gone" PROVE server'.status[p] = "gone"
    BY <2>1, <1>3, <1>4
  <2> QED
    BY <2>1 DEF Gone
<1>7. ConsoleShape'
  <2>1. /\ server.rev <= server'.rev /\ ownRev' \in Nat /\ page' = page
        /\ ownRev' = ownRev /\ foreign'[r] > server.rev
    BY <1>2, <1>3, <1>4, <1>5
  <2>2. \A p \in Rows : \/ server'.status[p] = server.status[p] /\ foreign'[p] = foreign[p]
                        \/ foreign'[p] > server.rev
    BY <2>1, <1>4, <1>5
  <2>3. /\ Forwards /\ page'.rev <= page'.seen /\ page'.seen <= server'.rev
        /\ page'.rev = 0 => page'.order = <<>> /\ \A p \in Rows : page'.status[p] = "gone"
        /\ page'.rev > 0 => \A p \in Rows : page'.status[p] = "gone" => Gone(p)'
    BY <1>1, <1>4, <1>6, <2>1, <2>2, StillOnward
  <2>4. ASSUME NEW p \in Rows PROVE foreign'[p] <= server'.rev
    <3>1. CASE p = r
      BY <3>1, <1>2, <1>4, <1>5
    <3>2. CASE p # r
      BY <3>2, <1>2, <1>4, <1>5
    <3> QED
      BY <3>1, <3>2
  <2>5. IsSeq(calls') /\ \A i \in DOMAIN calls' : i \in DOMAIN calls /\ calls'[i] = calls[i]
    BY <1>1, <1>3 DEF ConsoleShape
  <2> QED
    BY <1>1, <1>5, <2>3, <2>4, <2>5, ShapeOnward
<1>8. PageSound'
  <2> SUFFICES ASSUME ~Waived' PROVE /\ page'.rev > 0 => OrderAgrees' /\ \A p \in Rows : RowAgrees(p)'
                                     /\ \A j \in DOMAIN calls' : Followed(calls[j])'
    BY DEF PageSound
  <2>1. ~Waived
    BY <1>3 DEF Waived
  <2>2. foreign'[r] > page'.rev
    BY <1>2, <1>3, <1>5
  <2>3. OrderAgrees'
    BY <2>2 DEF OrderAgrees
  <2>4. ASSUME page'.rev > 0, NEW p \in Rows PROVE RowAgrees(p)'
    <3>1. CASE p = r
      BY <2>2, <3>1 DEF RowAgrees
    <3>2. CASE p # r
      BY <2>1, <2>4, <3>2, <1>1, <1>3, <1>4, <1>5 DEF PageSound, RowAgrees, Hopes, Gone
    <3> QED
      BY <3>1, <3>2
  <2>5. ASSUME NEW j \in DOMAIN calls' PROVE Followed(calls[j])'
    <3>1. calls'[j] = calls[j] /\ calls[j].ifMatch <= server.rev /\ calls[j].ifMatch \in Nat
      BY <1>1, <1>3 DEF ConsoleShape, CallSound, IsCall
    <3>2. calls'[j].ifMatch # server'.rev
      BY <3>1, <1>2, <1>4
    <3> QED
      BY <3>2 DEF Followed
  <2> QED
    BY <2>3, <2>4, <2>5
<1> QED
  BY <1>7, <1>8 DEF ConsoleInv

LEMMA ExpiryKeeps == ASSUME ConsoleInv, SessionExpires PROVE ConsoleInv'
<1>1. ConsoleShape /\ PageSound
  BY DEF ConsoleInv
<1>2. /\ IsServer(server) /\ server.rev \in Nat \ {0} /\ foreign \in [Rows -> Nat]
      /\ ownRev \in Nat /\ \A p \in Rows : foreign[p] <= server.rev
  BY <1>1 DEF ConsoleShape, IsServer
<1>3. UNCHANGED <<page, calls, foreign, blind, ownRev, spanned>>
  BY DEF SessionExpires
<1>4. /\ IsServer(server') /\ server'.rev = server.rev /\ server'.order = server.order
      /\ server'.status = server.status
  <2>1. server' = [rev |-> server.rev, status |-> server.status, order |-> server.order, session |-> FALSE]
    BY <1>2 DEF SessionExpires, IsServer
  <2> QED
    BY <2>1, <1>2 DEF IsServer
<1>5. ConsoleShape'
  <2>1. /\ server.rev <= server'.rev /\ ownRev' \in Nat /\ page' = page /\ ownRev' = ownRev
        /\ (\A p \in Rows : Gone(p) => Gone(p)')
        /\ \A p \in Rows : server'.status[p] = server.status[p] /\ foreign'[p] = foreign[p]
    BY <1>2, <1>3, <1>4 DEF Gone
  <2>2. /\ Forwards /\ page'.rev <= page'.seen /\ page'.seen <= server'.rev
        /\ page'.rev = 0 => page'.order = <<>> /\ \A p \in Rows : page'.status[p] = "gone"
        /\ page'.rev > 0 => \A p \in Rows : page'.status[p] = "gone" => Gone(p)'
    BY <1>1, <1>4, <2>1, StillOnward
  <2>3. IsSeq(calls') /\ \A i \in DOMAIN calls' : i \in DOMAIN calls /\ calls'[i] = calls[i]
    BY <1>1, <1>3 DEF ConsoleShape
  <2>4. foreign' \in [Rows -> Nat] /\ \A p \in Rows : foreign'[p] <= server'.rev
    BY <1>2, <1>3, <1>4
  <2> QED
    BY <1>1, <2>2, <2>3, <2>4, ShapeOnward
<1>6. PageSound'
  <2>1. InOrder(server') = InOrder(server)
    BY <1>4 DEF InOrder
  <2>2. Waived' <=> Waived
    BY <1>3 DEF Waived
  <2>3. OrderAgrees' <=> OrderAgrees
    BY <2>1, <1>3 DEF OrderAgrees
  <2>4. \A r \in Rows : RowAgrees(r)' <=> RowAgrees(r)
    BY <1>3, <1>4 DEF RowAgrees, Gone, Hopes
  <2>5. \A i \in DOMAIN calls : Followed(calls[i])' <=> Followed(calls[i])
    BY <1>3, <1>4 DEF Followed, Gone, Hopes
  <2> QED
    BY <2>2, <2>3, <2>4, <2>5, <1>1, <1>3 DEF PageSound
<1> QED
  BY <1>5, <1>6 DEF ConsoleInv
----------------------------------------------------------------------------
(* The answers reach the page.                                             *)
LEMMA NothingSound ==
    ASSUME page'.renders \in Nat, server'.rev \in Nat
    PROVE  CallSound(NoCall)' /\ ~Loads(NoCall) /\ NoCall.kind = "none" /\ NoCall.stage = "over"
<1>1. PICK c : c = NoCall
  OBVIOUS
<1>2. PICK a : a = AnyRow
  OBVIOUS
<1>3. c = [kind |-> "none", row |-> a, value |-> <<>>, ifMatch |-> 0, base |-> 0,
           renders |-> 0, stage |-> "over", code |-> 0, rev |-> 0, answer |-> <<>>]
  BY <1>1, <1>2 DEF NoCall
<1>4. c.kind = "none" /\ c.stage = "over" /\ c.renders = 0 /\ c.ifMatch = 0 /\ c.rev = 0
  BY <1>3
<1>5. IsCall(c)
  BY <1>3, <1>4 DEF IsCall, CallKinds
<1>6. 0 <= page'.renders /\ 0 <= server'.rev
  OBVIOUS
<1>7. CallSound(c)'
  BY <1>4, <1>5, <1>6 DEF CallSound, Mutations
<1>8. ~Loads(c)
  BY <1>4 DEF Loads
<1> QED
  BY <1>1, <1>4, <1>7, <1>8

(* The calls of a step that ends one.                                      *)
LEMMA OverCalls ==
    ASSUME ConsoleShape, NEW i \in DOMAIN calls, calls' = Over(i),
           page'.renders \in Nat, server'.rev \in Nat
    PROVE  /\ IsSeq(calls') /\ DOMAIN calls' = DOMAIN calls /\ calls'[i] = NoCall
           /\ \A j \in DOMAIN calls : j # i => calls'[j] = calls[j]
           /\ \A j \in DOMAIN calls' : (j \in DOMAIN calls /\ calls'[j] = calls[j]) \/ CallSound(calls[j])'
<1>1. /\ IsSeq(calls') /\ DOMAIN calls' = DOMAIN calls /\ calls'[i] = NoCall
      /\ \A j \in DOMAIN calls : j # i => calls'[j] = calls[j]
  BY ChangedCalls DEF Over
<1>2. PICK c : c = NoCall
  OBVIOUS
<1>3. CallSound(c)'
  BY <1>2, NothingSound
<1> QED
  BY <1>1, <1>2, <1>3

(* Those of a step that loads the list again.                              *)
LEMMA LoadingCalls ==
    ASSUME ConsoleShape, NEW i \in DOMAIN calls, ThenLoad(i),
           page'.renders \in Nat, server'.rev \in Nat, page.renders <= page'.renders
    PROVE  /\ IsSeq(calls') /\ Waived'
           /\ \A j \in DOMAIN calls' : (j \in DOMAIN calls /\ calls'[j] = calls[j]) \/ CallSound(calls[j])'
<1>1. PICK mid : mid = Over(i)
  OBVIOUS
<1>2. PICK o : o = NoCall
  OBVIOUS
<1>3. mid = [calls EXCEPT ![i] = o] /\ IsSeq(calls)
  BY <1>1, <1>2 DEF Over, ConsoleShape
<1>4. /\ IsSeq(mid) /\ DOMAIN mid = DOMAIN calls /\ mid[i] = o
      /\ \A j \in DOMAIN calls : j # i => mid[j] = calls[j]
  BY <1>3, OneOther
<1>5. PICK n : n = NewCall("list", AnyRow, <<>>)
  OBVIOUS
<1>6. calls' = Append(mid, n)
  BY <1>1, <1>5 DEF ThenLoad
<1>7. /\ IsCall(n) /\ n.kind = "list" /\ n.stage = "sent" /\ n.renders = page.renders /\ n.renders \in Nat
      /\ n.ifMatch = 0 /\ n.rev = 0
  BY <1>5, NewCalls DEF CallKinds, Mutations
<1>8. CallSound(n)'
  <2>1. n.renders <= page'.renders /\ n.ifMatch <= server'.rev /\ n.rev <= server'.rev
    BY <1>7
  <2> QED
    BY <2>1, <1>7 DEF CallSound, Mutations
<1>9. CallSound(o)'
  BY <1>2, NothingSound
<1>10. /\ IsSeq(calls') /\ Len(mid) \in Nat /\ DOMAIN mid = 1..Len(mid)
       /\ DOMAIN calls' = 1..(Len(mid) + 1) /\ calls'[Len(mid) + 1] = n
       /\ \A j \in DOMAIN mid : calls'[j] = mid[j]
  BY <1>4, <1>6, OneMore
<1>11. Len(mid) + 1 \in DOMAIN calls' /\ Loads(n)
  BY <1>7, <1>10 DEF Loads
<1>12. Waived'
  BY <1>10, <1>11 DEF Waived, Loads
<1>13. ASSUME NEW j \in DOMAIN calls', ~(j \in DOMAIN calls /\ calls'[j] = calls[j]) PROVE CallSound(calls[j])'
  <2>1. CASE j = Len(mid) + 1
    BY <2>1, <1>8, <1>10
  <2>2. CASE j # Len(mid) + 1
    <3>1. j \in DOMAIN mid
      BY <2>2, <1>10
    <3>2. j = i
      BY <3>1, <1>4, <1>10, <1>13
    <3> QED
      BY <3>1, <3>2, <1>4, <1>9, <1>10
  <2> QED
    BY <2>1, <2>2
<1> QED
  BY <1>10, <1>12, <1>13

(* A step of the page that renders no list keeps the same rows on it.      *)
LEMMA PageOnly ==
    ASSUME ConsoleShape, UNCHANGED <<server, foreign, ownRev>>,
           NEW sn \in Nat, page.seen <= sn, sn <= server.rev, NEW si,
           NEW st \in Statuses, \A r \in Rows : st[r] = "gone" <=> page.status[r] = "gone",
           page' = [seen |-> sn, rev |-> page.rev, status |-> st, order |-> page.order,
                    signedIn |-> si, renders |-> page.renders],
           IsSeq(calls'),
           \A j \in DOMAIN calls' : (j \in DOMAIN calls /\ calls'[j] = calls[j]) \/ CallSound(calls[j])'
    PROVE  ConsoleShape'
<1>1. /\ IsServer(server) /\ server.rev \in Nat /\ foreign \in [Rows -> Nat]
      /\ ownRev \in Nat /\ \A p \in Rows : foreign[p] <= server.rev
      /\ page.rev \in Nat /\ page.seen \in Nat /\ page.renders \in Nat /\ page.rev <= page.seen
  BY DEF ConsoleShape, IsServer, IsPage
<1>2. /\ page'.seen = sn /\ page'.rev = page.rev /\ page'.status = st /\ page'.order = page.order
      /\ page'.signedIn = si /\ page'.renders = page.renders
  OBVIOUS
<1>3. IsPage(page')
  BY <1>1, <1>2 DEF IsPage
<1>4. page'.rev <= page'.seen /\ page'.seen <= server'.rev
  BY <1>1, <1>2
<1>5. Forwards
  <2>1. server'.rev = server.rev /\ server.rev <= server'.rev /\ page.renders <= page'.renders
    BY <1>1, <1>2
  <2>2. \A r \in Rows : page.status[r] # "gone" => page'.status[r] # "gone"
    BY <1>2
  <2> QED
    BY <2>1, <2>2, <1>1, <1>3 DEF Forwards, Gone
<1>6. /\ page'.rev = 0 => page'.order = <<>> /\ \A p \in Rows : page'.status[p] = "gone"
      /\ page'.rev > 0 => \A p \in Rows : page'.status[p] = "gone" => Gone(p)'
  BY <1>2 DEF ConsoleShape, Gone
<1>7. foreign' \in [Rows -> Nat] /\ \A r \in Rows : foreign'[r] <= server'.rev
  BY <1>1
<1> QED
  BY <1>4, <1>5, <1>6, <1>7, ShapeOnward

LEMMA RaisedIs ==
    ASSUME ConsoleShape, NEW i \in DOMAIN calls
    PROVE  \E sn \in Nat :
              /\ page.seen <= sn /\ sn <= server.rev
              /\ Raised(i) = [seen |-> sn, rev |-> page.rev, status |-> page.status, order |-> page.order,
                              signedIn |-> page.signedIn, renders |-> page.renders]
<1>1. /\ IsPage(page) /\ page.seen \in Nat /\ page.seen <= server.rev /\ server.rev \in Nat
  BY DEF ConsoleShape, IsPage, IsServer
<1>2. calls[i].rev \in Nat /\ calls[i].rev <= server.rev
  BY DEF ConsoleShape, CallSound, IsCall
<1>3. PICK sn : sn = IF calls[i].rev > page.seen THEN calls[i].rev ELSE page.seen
  OBVIOUS
<1>4. sn \in Nat /\ page.seen <= sn /\ sn <= server.rev
  BY <1>1, <1>2, <1>3
<1>5. Raised(i) = [page EXCEPT !.seen = sn]
  BY <1>3 DEF Raised
<1>6. Raised(i) = [seen |-> sn, rev |-> page.rev, status |-> page.status, order |-> page.order,
                   signedIn |-> page.signedIn, renders |-> page.renders]
  BY <1>1, <1>5 DEF IsPage
<1> QED
  BY <1>4, <1>6

(* The page with its boxes put back, if it had any to put back, is `q`.    *)
BoxesPut(c, sn, q) ==
    \E st \in Statuses :
       /\ \A r \in Rows : st[r] = "gone" <=> page.status[r] = "gone"
       /\ \A r \in Rows : st[r] = page.status[r] \/ (c.kind = "toggle" /\ r = c.row)
       /\ q = [seen |-> sn, rev |-> page.rev, status |-> st, order |-> page.order,
               signedIn |-> page.signedIn, renders |-> page.renders]

(* A box is put back on a row that the page still shows.                   *)
LEMMA PutsBack ==
    ASSUME ConsoleShape, NEW c, CallSound(c), c.stage # "over", NEW sn, NEW p,
           p = [seen |-> sn, rev |-> page.rev, status |-> page.status, order |-> page.order,
                signedIn |-> page.signedIn, renders |-> page.renders]
    PROVE  BoxesPut(c, sn, PutBack(c, p))
<1>1. page.status \in Statuses /\ p.status = page.status /\ p.renders = page.renders
  BY DEF ConsoleShape, IsPage
<1>2. CASE c.kind = "toggle" /\ c.renders = p.renders
  <2>1. c.row \in Rows /\ page.status[c.row] # "gone"
    BY <1>1, <1>2 DEF CallSound, IsCall
  <2>2. PICK v : v = Other(c.value)
    OBVIOUS
  <2>3. v \in {"on", "off", "gone"} /\ v # "gone"
    BY <2>2 DEF Other
  <2>4. PICK st : st = [page.status EXCEPT ![c.row] = v]
    OBVIOUS
  <2>5. st \in Statuses
    BY <1>1, <2>3, <2>4 DEF Statuses
  <2>6. \A r \in Rows : st[r] = page.status[r] \/ r = c.row
    BY <1>1, <2>4 DEF Statuses
  <2>7. st[c.row] = v
    BY <1>1, <2>1, <2>4 DEF Statuses
  <2>8. \A r \in Rows : st[r] = "gone" <=> page.status[r] = "gone"
    BY <2>1, <2>3, <2>6, <2>7
  <2>9. PutBack(c, p) = [p EXCEPT !.status = st]
    BY <1>1, <1>2, <2>2, <2>4 DEF PutBack
  <2>10. PutBack(c, p) = [seen |-> sn, rev |-> page.rev, status |-> st, order |-> page.order,
                          signedIn |-> page.signedIn, renders |-> page.renders]
    BY <2>9
  <2> QED
    BY <1>2, <2>5, <2>6, <2>8, <2>10 DEF BoxesPut
<1>3. CASE ~(c.kind = "toggle" /\ c.renders = p.renders)
  <2>1. PutBack(c, p) = p
    BY <1>3 DEF PutBack
  <2> QED
    BY <1>1, <2>1 DEF BoxesPut
<1> QED
  BY <1>2, <1>3

LEMMA RenderKeeps ==
    ASSUME ConsoleInv, NEW i \in DOMAIN calls, Succeeds(i), calls[i].kind = "list"
    PROVE  ConsoleInv'
<1>1. ConsoleShape /\ PageSound
  BY DEF ConsoleInv
<1>2. PICK c : c = calls[i]
  OBVIOUS
<1>3. PICK now : now = c.answer[1]
  OBVIOUS
<1>4. CallSound(c) /\ c.stage = "answered" /\ c.code = 200 /\ c.kind = "list" /\ NowSound(now) /\ now.rev = c.rev
  BY <1>1, <1>2, <1>3 DEF ConsoleShape, CallSound, Succeeds
<1>5. /\ page' = Rendered(now) /\ calls' = Over(i) /\ spanned' = (spanned \/ c.rev < ownRev)
      /\ UNCHANGED <<server, foreign, blind, ownRev, cuts>>
  BY <1>2, <1>3, <1>4 DEF Succeeds
<1>6. /\ IsServer(server) /\ server.rev \in Nat /\ foreign \in [Rows -> Nat] /\ IsPage(page) /\ page.renders \in Nat
      /\ ownRev \in Nat /\ (\A p \in Rows : foreign[p] <= server.rev)
      /\ IsServer(now) /\ now.rev \in Nat \ {0} /\ now.status \in Statuses /\ now.rev <= server.rev
  BY <1>1, <1>4 DEF ConsoleShape, IsServer, IsPage, NowSound
<1>7. /\ page'.seen = now.rev /\ page'.rev = now.rev /\ page'.status = now.status
      /\ page'.order = InOrder(now) /\ page'.renders = page.renders + 1 /\ IsPage(page')
  <2>1. PICK o, k : o = InOrder(now) /\ k = page.renders + 1
    OBVIOUS
  <2>2. page' = [page EXCEPT !.rev = now.rev, !.seen = now.rev, !.order = o,
                             !.status = now.status, !.renders = k]
    BY <1>5, <2>1 DEF Rendered
  <2>3. page' = [seen |-> now.rev, rev |-> now.rev, status |-> now.status, order |-> o,
                 signedIn |-> page.signedIn, renders |-> k]
    BY <2>2, <1>6 DEF IsPage
  <2>4. k \in Nat
    BY <2>1, <1>6
  <2> QED
    BY <2>1, <2>3, <2>4, <1>6 DEF IsPage
<1>8. page'.renders \in Nat /\ server'.rev \in Nat /\ page.renders < page'.renders
  BY <1>5, <1>6, <1>7
<1>9. /\ IsSeq(calls') /\ DOMAIN calls' = DOMAIN calls /\ calls'[i] = NoCall
      /\ \A j \in DOMAIN calls : j # i => calls'[j] = calls[j]
      /\ \A j \in DOMAIN calls' : (j \in DOMAIN calls /\ calls'[j] = calls[j]) \/ CallSound(calls[j])'
  BY <1>1, <1>5, <1>8, OverCalls
<1>10. ConsoleShape'
  <2>1. Forwards
    <3>1. server'.rev = server.rev /\ server.rev <= server'.rev /\ page.renders <= page'.renders
          /\ page'.renders # page.renders
      BY <1>5, <1>6, <1>7
    <3> QED
      BY <3>1, <1>5, <1>6, <1>7 DEF Forwards, Gone
  <2>2. /\ page'.rev <= page'.seen /\ page'.seen <= server'.rev /\ page'.rev # 0
        /\ \A p \in Rows : page'.status[p] = "gone" => Gone(p)'
    BY <1>4, <1>5, <1>6, <1>7 DEF NowSound, Gone
  <2>3. foreign' \in [Rows -> Nat] /\ \A r \in Rows : foreign'[r] <= server'.rev
    BY <1>5, <1>6
  <2> QED
    BY <1>1, <1>9, <2>1, <2>2, <2>3, ShapeOnward
<1>11. PageSound'
  <2> SUFFICES ASSUME ~Waived' PROVE /\ page'.rev > 0 => OrderAgrees' /\ \A p \in Rows : RowAgrees(p)'
                                     /\ \A j \in DOMAIN calls' : Followed(calls[j])'
    BY DEF PageSound
  <2>1. ~(c.rev < ownRev)
    BY <1>5 DEF Waived
  <2>2. ownRev <= now.rev
    BY <2>1, <1>4, <1>6
  <2>3. /\ now.order = server.order
        /\ \A r \in Rows : now.status[r] = server.status[r] \/ foreign[r] > now.rev
    BY <2>2, <1>4 DEF NowSound
  <2>4. OrderAgrees'
    <3>1. CASE \E r \in Rows : foreign[r] > now.rev
      BY <3>1, <1>5, <1>7 DEF OrderAgrees
    <3>2. CASE ~\E r \in Rows : foreign[r] > now.rev
      <4>1. {r \in Rows : now.status[r] # "gone"} = {r \in Rows : server.status[r] # "gone"}
        BY <3>2, <2>3
      <4>2. InOrder(now) = InOrder(server)
        BY <4>1, <2>3 DEF InOrder
      <4> QED
        BY <4>2, <1>5, <1>7 DEF OrderAgrees
    <3> QED
      BY <3>1, <3>2
  <2>5. \A p \in Rows : RowAgrees(p)'
    BY <2>3, <1>5, <1>7 DEF RowAgrees
  <2>6. ASSUME NEW j \in DOMAIN calls' PROVE Followed(calls[j])'
    <3>1. CASE calls'[j] = NoCall
      BY <3>1, NothingSound, <1>8 DEF Followed
    <3>2. CASE j \in DOMAIN calls /\ calls'[j] = calls[j]
      <4>1. calls[j].renders \in Nat /\ calls[j].renders <= page.renders
        BY <3>2, <1>1 DEF ConsoleShape, CallSound, IsCall
      <4>2. calls'[j].renders # page'.renders
        BY <4>1, <3>2, <1>6, <1>7
      <4> QED
        BY <4>2 DEF Followed
    <3> QED
      BY <3>1, <3>2, <1>9
  <2> QED
    BY <2>4, <2>5, <2>6
<1> QED
  BY <1>10, <1>11 DEF ConsoleInv

(* A handler that ends without a new list, and after which no failure is   *)
(* left to be shown.                                                       *)
LEMMA HandlerEndKeeps ==
    ASSUME ConsoleInv, NEW i \in DOMAIN calls, calls' = Over(i), calls[i].stage = "answered",
           UNCHANGED <<server, foreign, ownRev>>, spanned => spanned', ConsoleShape',
           page'.rev = page.rev, page'.order = page.order, page'.renders = page.renders,
           page'.signedIn => page.signedIn,
           NEW back \in SUBSET Rows, \A r \in Rows : page'.status[r] = page.status[r] \/ r \in back,
           \A r \in back : Gone(r) /\ page.status[r] # "gone",
           Loads(calls[i]) => ~page'.signedIn
    PROVE  ConsoleInv'
<1>1. ConsoleShape /\ PageSound
  BY DEF ConsoleInv
<1>2. page'.renders \in Nat /\ server'.rev \in Nat /\ page.rev \in Nat
  BY <1>1 DEF ConsoleShape, IsPage, IsServer
<1>3. /\ DOMAIN calls' = DOMAIN calls /\ calls'[i] = NoCall
      /\ \A j \in DOMAIN calls : j # i => calls'[j] = calls[j]
  BY <1>1, <1>2, OverCalls
<1>4. SUFFICES ASSUME ~Waived' PROVE /\ page'.rev > 0 => OrderAgrees' /\ \A p \in Rows : RowAgrees(p)'
                                     /\ \A j \in DOMAIN calls' : Followed(calls[j])'
  BY DEF PageSound, ConsoleInv
<1>5. ~Waived
  <2>1. ~spanned /\ page.signedIn /\ page'.signedIn
    BY <1>4 DEF Waived
  <2>2. ASSUME NEW j \in DOMAIN calls PROVE ~Loads(calls[j])
    <3>1. CASE j = i
      BY <2>1, <3>1
    <3>2. CASE j # i
      BY <3>2, <1>3, <1>4 DEF Waived
    <3> QED
      BY <3>1, <3>2
  <2> QED
    BY <2>1, <2>2 DEF Waived
<1>6. ASSUME NEW r \in Rows, ~Gone(r), Hopes(r) PROVE Hopes(r)'
  <2>1. PICK j \in DOMAIN calls : /\ calls[j].kind = "toggle" /\ calls[j].row = r
                                  /\ calls[j].stage = "sent" /\ calls[j].value = page.status[r]
    BY <1>6 DEF Hopes
  <2>2. j # i /\ page'.status[r] = page.status[r]
    BY <2>1, <1>6
  <2> QED
    BY <2>1, <2>2, <1>3 DEF Hopes
<1>7. page'.rev > 0 => OrderAgrees'
  BY <1>1, <1>5 DEF PageSound, OrderAgrees, InOrder
<1>8. ASSUME page'.rev > 0, NEW r \in Rows PROVE RowAgrees(r)'
  <2>1. RowAgrees(r)
    BY <1>1, <1>5, <1>8 DEF PageSound
  <2>2. CASE r \in back
    BY <2>1, <2>2 DEF RowAgrees, Gone
  <2>3. CASE r \notin back
    BY <2>1, <2>3, <1>6 DEF RowAgrees, Gone
  <2> QED
    BY <2>2, <2>3
<1>9. ASSUME NEW j \in DOMAIN calls' PROVE Followed(calls[j])'
  <2>1. CASE j = i
    BY <2>1, <1>2, <1>3, NothingSound DEF Followed
  <2>2. CASE j # i
    <3>1. calls'[j] = calls[j] /\ Followed(calls[j]) /\ (calls[j].kind = "toggle" => calls[j].row \in Rows)
      BY <2>2, <1>1, <1>3, <1>5 DEF PageSound, ConsoleShape, CallSound, IsCall
    <3> QED
      BY <3>1, <1>6 DEF Followed, Gone
  <2> QED
    BY <2>1, <2>2
<1> QED
  BY <1>7, <1>8, <1>9

LEMMA SucceedsKeeps == ASSUME ConsoleInv, NEW i \in DOMAIN calls, Succeeds(i) PROVE ConsoleInv'
<1>1. ConsoleShape /\ PageSound
  BY DEF ConsoleInv
<1>2. PICK c : c = calls[i]
  OBVIOUS
<1>3. c.stage = "answered" /\ c.code = 200 /\ UNCHANGED <<server, foreign, blind, ownRev, cuts>>
  BY <1>2 DEF Succeeds
<1>4. /\ page.renders \in Nat /\ server.rev \in Nat /\ page.seen \in Nat /\ page.seen <= server.rev
      /\ page.status \in Statuses /\ IsPage(page)
  BY <1>1 DEF ConsoleShape, IsPage, IsServer
<1>5. CASE c.kind = "list"
  BY <1>2, <1>5, RenderKeeps
<1>6. ASSUME c.kind # "list", NEW si, NEW sn \in Nat, page.seen <= sn, sn <= server.rev,
             page' = [seen |-> sn, rev |-> page.rev, status |-> page.status, order |-> page.order,
                      signedIn |-> si, renders |-> page.renders],
             ThenLoad(i)
      PROVE  ConsoleInv'
  <2>1. page'.renders = page.renders /\ page'.renders \in Nat /\ server'.rev \in Nat
        /\ page.renders <= page'.renders
    BY <1>3, <1>4, <1>6
  <2>2. /\ IsSeq(calls') /\ Waived'
        /\ \A j \in DOMAIN calls' : (j \in DOMAIN calls /\ calls'[j] = calls[j]) \/ CallSound(calls[j])'
    BY <1>1, <1>6, <2>1, LoadingCalls
  <2>3. ConsoleShape'
    BY <1>1, <1>3, <1>4, <1>6, <2>2, PageOnly
  <2> QED
    BY <2>2, <2>3 DEF ConsoleInv, PageSound
<1>7. CASE c.kind = "login"
  <2>1. page' = [page EXCEPT !.signedIn = TRUE] /\ ThenLoad(i)
    BY <1>2, <1>7 DEF Succeeds
  <2>2. page' = [seen |-> page.seen, rev |-> page.rev, status |-> page.status, order |-> page.order,
                 signedIn |-> TRUE, renders |-> page.renders]
    BY <2>1, <1>4 DEF IsPage
  <2>3. page.seen <= page.seen
    BY <1>4
  <2> QED
    BY <1>4, <1>6, <1>7, <2>1, <2>2, <2>3
<1>8. PICK sn \in Nat :
              /\ page.seen <= sn /\ sn <= server.rev
              /\ Raised(i) = [seen |-> sn, rev |-> page.rev, status |-> page.status, order |-> page.order,
                              signedIn |-> page.signedIn, renders |-> page.renders]
  BY <1>1, RaisedIs
<1>9. CASE c.kind \in {"move", "remove", "refresh"}
  <2>1. page' = Raised(i) /\ ThenLoad(i)
    BY <1>2, <1>9 DEF Succeeds
  <2> QED
    BY <1>6, <1>8, <1>9, <2>1
<1>10. CASE c.kind \notin {"list", "login", "move", "remove", "refresh"}
  <2>1. page' = Raised(i) /\ calls' = Over(i) /\ (spanned => spanned')
    BY <1>2, <1>10 DEF Succeeds
  <2>2. page'.renders = page.renders /\ page'.rev = page.rev /\ page'.status = page.status
        /\ page'.order = page.order /\ page'.signedIn = page.signedIn
    BY <1>8, <2>1
  <2>3. /\ IsSeq(calls')
        /\ \A j \in DOMAIN calls' : (j \in DOMAIN calls /\ calls'[j] = calls[j]) \/ CallSound(calls[j])'
    BY <1>1, <1>3, <1>4, <2>1, <2>2, OverCalls
  <2>4. ConsoleShape'
    BY <1>1, <1>3, <1>4, <1>8, <2>1, <2>3, PageOnly
  <2>5. ~Loads(calls[i])
    BY <1>2, <1>3, <1>10 DEF Loads
  <2>6. {} \in SUBSET Rows /\ \A r \in Rows : page'.status[r] = page.status[r]
    BY <2>2
  <2> QED
    BY <1>2, <1>3, <2>1, <2>2, <2>4, <2>5, <2>6, HandlerEndKeeps
<1> QED
  BY <1>5, <1>7, <1>9, <1>10

LEMMA FailsKeeps == ASSUME ConsoleInv, NEW i \in DOMAIN calls, Fails(i) PROVE ConsoleInv'
<1>1. ConsoleShape /\ PageSound
  BY DEF ConsoleInv
<1>2. PICK c : c = calls[i]
  OBVIOUS
<1>3. /\ c.stage = "answered" /\ c.code # 200 /\ UNCHANGED <<server, foreign, blind, ownRev, spanned, cuts>>
      /\ CallSound(c) /\ c.code \in {401, 404, 412}
  BY <1>1, <1>2 DEF Fails, ConsoleShape, CallSound
<1>4. /\ page.renders \in Nat /\ server.rev \in Nat /\ page.seen \in Nat /\ page.seen <= server.rev
      /\ page.status \in Statuses /\ IsPage(page)
  BY <1>1 DEF ConsoleShape, IsPage, IsServer
<1>5. PICK sn \in Nat :
              /\ page.seen <= sn /\ sn <= server.rev
              /\ Raised(i) = [seen |-> sn, rev |-> page.rev, status |-> page.status, order |-> page.order,
                              signedIn |-> page.signedIn, renders |-> page.renders]
  BY <1>1, RaisedIs
<1>6. PICK p : p = Raised(i)
  OBVIOUS
<1>a. p = [seen |-> sn, rev |-> page.rev, status |-> page.status, order |-> page.order,
           signedIn |-> page.signedIn, renders |-> page.renders]
  BY <1>5, <1>6
<1>b. ConsoleShape /\ CallSound(c) /\ c.stage # "over"
  BY <1>1, <1>3
<1>q. BoxesPut(c, sn, PutBack(c, p))
  BY <1>a, <1>b, PutsBack
<1>7. PICK st \in Statuses :
              /\ \A r \in Rows : st[r] = "gone" <=> page.status[r] = "gone"
              /\ \A r \in Rows : st[r] = page.status[r] \/ (c.kind = "toggle" /\ r = c.row)
              /\ PutBack(c, p) = [seen |-> sn, rev |-> page.rev, status |-> st, order |-> page.order,
                                  signedIn |-> page.signedIn, renders |-> page.renders]
  BY <1>q DEF BoxesPut
<1>8. PICK si : si = (page.signedIn /\ c.code # 401)
  OBVIOUS
<1>9. page' = [seen |-> sn, rev |-> page.rev, status |-> st, order |-> page.order,
               signedIn |-> si, renders |-> page.renders]
  <2>1. PICK q : q = PutBack(c, p)
    OBVIOUS
  <2>2. q.signedIn = page.signedIn
    BY <1>7, <2>1
  <2>3. page' = [q EXCEPT !.signedIn = si]
    BY <1>2, <1>6, <1>8, <2>1, <2>2 DEF Fails
  <2> QED
    BY <1>7, <2>1, <2>3
<1>10. page'.renders = page.renders /\ page'.renders \in Nat /\ server'.rev \in Nat
       /\ page.renders <= page'.renders /\ page'.rev = page.rev /\ page'.status = st
       /\ page'.order = page.order /\ page'.signedIn = si
  BY <1>3, <1>4, <1>9
<1>11. CASE c.code = 412
  <2>1. ThenLoad(i)
    BY <1>2, <1>11 DEF Fails
  <2>2. /\ IsSeq(calls') /\ Waived'
        /\ \A j \in DOMAIN calls' : (j \in DOMAIN calls /\ calls'[j] = calls[j]) \/ CallSound(calls[j])'
    BY <1>1, <1>10, <2>1, LoadingCalls
  <2>3. ConsoleShape'
    BY <1>1, <1>3, <1>5, <1>7, <1>9, <2>2, PageOnly
  <2> QED
    BY <2>2, <2>3 DEF ConsoleInv, PageSound
<1>12. CASE c.code # 412
  <2>1. calls' = Over(i)
    BY <1>2, <1>12 DEF Fails
  <2>2. /\ IsSeq(calls')
        /\ \A j \in DOMAIN calls' : (j \in DOMAIN calls /\ calls'[j] = calls[j]) \/ CallSound(calls[j])'
    BY <1>1, <1>10, <2>1, OverCalls
  <2>3. ConsoleShape'
    BY <1>1, <1>3, <1>5, <1>7, <1>9, <2>2, PageOnly
  <2>4. CASE c.code = 401
    <3>1. ~page'.signedIn
      BY <1>8, <1>10, <2>4
    <3>2. Waived'
      BY <3>1 DEF Waived
    <3> QED
      BY <2>3, <3>2 DEF ConsoleInv, PageSound
  <2>5. CASE c.code = 404
    <3>1. PICK back : back = {r \in Rows : st[r] # page.status[r]}
      OBVIOUS
    <3>2. back \in SUBSET Rows /\ \A r \in Rows : page'.status[r] = page.status[r] \/ r \in back
      BY <3>1, <1>10
    <3>3. Gone(c.row) /\ c.kind \notin {"list", "login"}
      BY <1>3, <2>5 DEF CallSound
    <3>4. ASSUME NEW r \in back PROVE Gone(r) /\ page.status[r] # "gone"
      BY <3>1, <3>3, <1>7
    <3>5. ~Loads(calls[i])
      BY <3>3, <1>2, <1>3, <2>5 DEF Loads
    <3>6. page'.signedIn => page.signedIn
      BY <1>8, <1>10
    <3> QED
      BY <1>2, <1>3, <1>10, <2>1, <2>3, <3>2, <3>4, <3>5, <3>6, HandlerEndKeeps
  <2> QED
    BY <1>3, <1>12, <2>4, <2>5
<1> QED
  BY <1>11, <1>12

LEMMA OfflineKeeps == ASSUME ConsoleInv, NEW i \in DOMAIN calls, Offline(i) PROVE ConsoleInv'
<1>1. ConsoleShape
  BY DEF ConsoleInv
<1>2. PICK c : c = calls[i]
  OBVIOUS
<1>3. /\ c.stage # "over" /\ CallSound(c) /\ page' = PutBack(c, page) /\ calls' = Over(i) /\ spanned'
      /\ UNCHANGED <<server, foreign, ownRev>>
  BY <1>1, <1>2 DEF Offline, ConsoleShape
<1>4. /\ page.renders \in Nat /\ server.rev \in Nat /\ page.seen \in Nat /\ page.seen <= server.rev
      /\ page = [seen |-> page.seen, rev |-> page.rev, status |-> page.status, order |-> page.order,
                 signedIn |-> page.signedIn, renders |-> page.renders]
  BY <1>1 DEF ConsoleShape, IsPage, IsServer
<1>5. PICK sn, p : sn = page.seen /\ p = page
  OBVIOUS
<1>q. BoxesPut(c, sn, PutBack(c, p))
  BY <1>1, <1>3, <1>4, <1>5, PutsBack
<1>6. PICK st \in Statuses :
              /\ \A r \in Rows : st[r] = "gone" <=> page.status[r] = "gone"
              /\ \A r \in Rows : st[r] = page.status[r] \/ (c.kind = "toggle" /\ r = c.row)
              /\ PutBack(c, p) = [seen |-> sn, rev |-> page.rev, status |-> st, order |-> page.order,
                                  signedIn |-> page.signedIn, renders |-> page.renders]
  BY <1>q DEF BoxesPut
<1>7. page' = [seen |-> sn, rev |-> page.rev, status |-> st, order |-> page.order,
               signedIn |-> page.signedIn, renders |-> page.renders]
  BY <1>3, <1>5, <1>6
<1>8. page'.renders \in Nat /\ server'.rev \in Nat
  BY <1>3, <1>4, <1>7
<1>9. /\ IsSeq(calls')
      /\ \A j \in DOMAIN calls' : (j \in DOMAIN calls /\ calls'[j] = calls[j]) \/ CallSound(calls[j])'
  BY <1>1, <1>3, <1>8, OverCalls
<1>10. sn \in Nat /\ page.seen <= sn /\ sn <= server.rev
  BY <1>4, <1>5
<1>11. ConsoleShape'
  BY <1>1, <1>3, <1>6, <1>7, <1>9, <1>10, PageOnly
<1>12. Waived'
  BY <1>3 DEF Waived
<1> QED
  BY <1>11, <1>12 DEF ConsoleInv, PageSound

LEMMA ConsoleStepKeeps == ConsoleInv /\ [ConsoleNext]_consoleVars => ConsoleInv'
<1> SUFFICES ASSUME ConsoleInv, [ConsoleNext]_consoleVars PROVE ConsoleInv'
  OBVIOUS
<1>1. ConsoleShape
  BY DEF ConsoleInv
<1>2. page.rev \in Nat
  BY <1>1 DEF ConsoleShape, IsPage
<1>3. \A r \in Shown : r \in Rows /\ page.rev > 0
  BY <1>1, <1>2 DEF ConsoleShape, Shown
<1>4. CASE LoadAddons
  BY <1>4, SendKeeps DEF LoadAddons, CallKinds, Mutations
<1>5. CASE LoginWithToken
  BY <1>5, SendKeeps DEF LoginWithToken, CallKinds, Mutations
<1>6. CASE SessionExpires
  BY <1>6, ExpiryKeeps
<1>7. ASSUME NEW r \in Rows, InspectProvider(r) PROVE ConsoleInv'
  BY <1>7, SendKeeps DEF InspectProvider, CallKinds, Mutations
<1>8. ASSUME NEW r \in Rows, ToggleRow(r) PROVE ConsoleInv'
  BY <1>8, ToggleKeeps
<1>9. ASSUME NEW r \in Rows, RemoveRow(r) PROVE ConsoleInv'
  BY <1>3, <1>9, SendKeeps DEF RemoveRow, CallKinds, Mutations
<1>10. ASSUME NEW r \in Rows, RefreshRow(r) PROVE ConsoleInv'
  BY <1>3, <1>10, SendKeeps DEF RefreshRow, CallKinds, Mutations
<1>11. ASSUME NEW r \in Rows, NEW to \in {"on", "off", "gone"}, OthersChange(r, to) PROVE ConsoleInv'
  BY <1>11, OthersKeep
<1>12. ASSUME NEW i \in 1..Cardinality(Rows), NEW to \in 1..Cardinality(Rows), MoveProvider(i, to)
       PROVE  ConsoleInv'
  <2>1. page.rev > 0
    <3>1. CASE page.rev = 0
      <4>1. page.order = <<>>
        BY <1>1, <3>1 DEF ConsoleShape
      <4>2. DOMAIN page.order = {}
        BY <4>1
      <4> QED
        BY <1>12, <4>2 DEF MoveProvider
    <3> QED
      BY <3>1, <1>2
  <2> QED
    BY <1>12, <2>1, SendKeeps DEF MoveProvider, CallKinds, Mutations
<1>13. ASSUME NEW i \in 1..Len(calls), Serve(i) \/ Succeeds(i) \/ Fails(i) \/ Offline(i) PROVE ConsoleInv'
  <2>1. i \in DOMAIN calls
    BY <1>1, LenProperties DEF ConsoleShape, IsSeq
  <2> QED
    BY <1>13, <2>1, ServeKeeps, SucceedsKeeps, FailsKeeps, OfflineKeeps
<1>14. CASE UNCHANGED consoleVars
  BY <1>14 DEF consoleVars, ConsoleInv, ConsoleShape, PageSound, Waived, OrderAgrees, RowAgrees, Followed,
               Hopes, Gone, CallSound, NowSound
<1> QED
  BY <1>4, <1>5, <1>6, <1>7, <1>8, <1>9, <1>10, <1>11, <1>12, <1>13, <1>14 DEF ConsoleNext

(* When every call is over, the page shows what the server has, up to what *)
(* others changed since: refreshCurrentTab(), renderProviders() and the    *)
(* revision the console keeps, however calls and answers interleave.       *)
THEOREM PageIsTrue == ConsoleSpec => []ShownIsTrue
<1>1. ConsoleInit => ConsoleInv
  BY ConsoleStarts
<1>2. ConsoleInv /\ [ConsoleNext]_consoleVars => ConsoleInv'
  BY ConsoleStepKeeps
<1>3. ConsoleInv => ShownIsTrue
  BY ConsoleConcludes
<1> QED
  BY <1>1, <1>2, <1>3, PTL DEF ConsoleSpec
===============================================================================
