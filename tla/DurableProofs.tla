---------------------------- MODULE DurableProofs ----------------------------
(***************************************************************************)
(* Proofs about what outlives a request: storage under a shutdown, the     *)
(* torrents on an account, the rows and the schema of Postgres, the file,  *)
(* and the list of addons a replica serves from.                           *)
(***************************************************************************)
EXTENDS WorkProofs, Shutdown, DebridTransfer, PostgresStore, Migrations, FileStore,
        AddonCatalog

----------------------------------------------------------------------------
(* Shutdown.                                                               *)

Names == {"schedulers", "drain", "abort", "http", "bus", "cache", "storage", "egress"}
Endings == {"none", "ok", "threw", "timed_out", "skipped"}
JobStates == {"none", "asked", "granted", "active", "kept"}

(* The listener closes with its phase and stays closed: what it was        *)
(* waiting for is gone if the phase ended well, and only the end of the    *)
(* grace period cuts it.                                                   *)
ListenerClosed ==
    /\ phase = 4 /\ phaseCap > 0 => "http" \notin open /\ phaseCap = Grace
    /\ phase > 4 => results["http"] # "none"
    /\ results["http"] = "ok" => "http" \notin open /\ InFlight = {}
    /\ results["http"] \in {"timed_out", "skipped"} => elapsed >= Grace /\ "storage" \in open

(* Once the engine has stopped, a job still being acquired is late; once   *)
(* the drain has ended well, an active one is too.                         *)
Drained ==
    /\ "engine" \notin open
    /\ ~DrainsJobs \/ \A j \in Leases : lease[j] = "active" => j \in late

JobsDrained ==
    /\ phase = 2 /\ phaseCap > 0 => "engine" \notin open
    /\ phase > 2 <=> results["drain"] # "none"
    /\ "engine" \notin open => \A j \in Leases : lease[j] \in {"asked", "granted"} => j \in late
    /\ results["drain"] = "ok" => Drained
    /\ results["drain"] = "skipped" => elapsed >= Grace /\ "storage" \in open

DownInv ==
    /\ DownTypeOK
    /\ phase <= 6 => "storage" \in open
    /\ phaseCap > 0 => phase <= 8
    /\ ListenerClosed /\ JobsDrained

(* The phases by their number.                                             *)
LEMMA PhaseNames ==
    /\ Len(Phases) = 8 /\ {Phases[i] : i \in DOMAIN Phases} = Names
    /\ Phases[1] = "schedulers" /\ Phases[2] = "drain" /\ Phases[3] = "abort" /\ Phases[4] = "http"
    /\ Phases[5] = "bus" /\ Phases[6] = "cache" /\ Phases[7] = "storage" /\ Phases[8] = "egress"
    /\ \A i \in 1..8 : Phases[i] \in Names
    /\ \A i \in 1..8 : \A n \in Names : Phases[i] = n =>
          i = CASE n = "schedulers" -> 1 [] n = "drain" -> 2 [] n = "abort" -> 3 [] n = "http" -> 4
                [] n = "bus" -> 5 [] n = "cache" -> 6 [] n = "storage" -> 7 [] n = "egress" -> 8
BY DEF Phases, Names

(* The end of a phase is noted under its name and under no other.          *)
LEMMA Settles ==
    ASSUME DownTypeOK, phase \in 1..8, NEW how \in Endings, Settle(how)
    PROVE  /\ results' \in [Names -> Endings] /\ phase' = phase + 1 /\ phaseCap' = 0
           /\ results'["http"] = IF phase = 4 THEN how ELSE results["http"]
           /\ results'["drain"] = IF phase = 2 THEN how ELSE results["drain"]
<1>1. results \in [Names -> Endings]
  BY PhaseNames DEF DownTypeOK, Endings
<1>2. Phases[phase] \in Names /\ (Phases[phase] = "http" <=> phase = 4)
      /\ (Phases[phase] = "drain" <=> phase = 2)
  BY PhaseNames DEF Names
<1> QED
  BY <1>1, <1>2 DEF Settle, Names

(* Where a phase that starts, or works, is in the order.                   *)
LEMMA PhaseAt ==
    ASSUME DownTypeOK, NEW n \in Names, Starting(n) \/ Working(n)
    PROVE  /\ phase \in 1..8 /\ Phases[phase] = n
           /\ phase = CASE n = "schedulers" -> 1 [] n = "drain" -> 2 [] n = "abort" -> 3
                        [] n = "http" -> 4 [] n = "bus" -> 5 [] n = "cache" -> 6
                        [] n = "storage" -> 7 [] n = "egress" -> 8
           /\ Starting(n) => phaseCap = 0 /\ elapsed < Grace
           /\ Working(n) => phaseCap > 0
           /\ procState = "shutting_down"
BY PhaseNames DEF DownTypeOK, Starting, Working

(* A phase that has begun, and is not over at once.                        *)
LEMMA PhaseBegins ==
    ASSUME DownInv, NEW n \in Names \ {"storage"}, NEW cap \in Nat, BeginPhase(n, cap),
           open' \subseteq open, lease' = lease, late' = late, client' = client,
           \A m \in open \ open' : m # "storage" /\ m # "engine",
           n # "drain", n = "http" => cap = Grace /\ "http" \notin open'
    PROVE  DownInv'
<1>1. DownTypeOK
  BY DEF DownInv
<1>2. Starting(n) /\ phaseCap' = IF elapsed + cap < Grace THEN elapsed + cap ELSE Grace
  BY DEF BeginPhase
<1>3. /\ UNCHANGED <<procState, signals, elapsed, phase, results>>
      /\ phase \in 1..8 /\ (phase = 4 <=> n = "http") /\ phase # 2 /\ elapsed < Grace
  BY <1>1, <1>2, PhaseAt DEF BeginPhase, Names
<1>4. elapsed \in Nat /\ phaseCap' \in 0..Grace /\ (n = "http" => phaseCap' = Grace)
  BY <1>1, <1>2, DownAssumption DEF DownTypeOK
<1>5. DownTypeOK'
  BY <1>1, <1>3, <1>4 DEF DownTypeOK
<1>6. InFlight' = InFlight
  BY DEF InFlight
<1>7. ListenerClosed' /\ JobsDrained'
  BY <1>3, <1>4, <1>6 DEF DownInv, ListenerClosed, JobsDrained, Drained
<1> QED
  BY <1>3, <1>5, <1>7 DEF DownInv

(* A phase that is over without having touched anything but jobs.          *)
LEMMA PhaseSettles ==
    ASSUME DownInv, phase \in 1..8, NEW how \in Endings \ {"none"}, Settle(how),
           UNCHANGED <<procState, signals, elapsed>>,
           open' \subseteq open, open \ open' \subseteq {"schedulers", "engine"},
           lease' \in [Leases -> JobStates], late' \subseteq Leases,
           "engine" \notin open' => \A j \in Leases :
                lease'[j] \in {"asked", "granted"} => j \in late',
           results["drain"] = "ok" => late' = late /\ \A j \in Leases :
                lease'[j] = "active" => lease[j] = "active",
           client' \in [Clients -> {"idle", "queued", "running", "done"}],
           InFlight' \subseteq InFlight,
           phase = 4 => /\ how = "ok" => "http" \notin open /\ InFlight = {}
                        /\ how \in {"timed_out", "skipped"} => elapsed >= Grace,
           phase = 2 => /\ how = "ok" => Drained'
                        /\ how = "skipped" => elapsed >= Grace
    PROVE  DownInv'
<1>1. DownTypeOK
  BY DEF DownInv
<1>2. /\ results' \in [Names -> Endings] /\ phase' = phase + 1 /\ phaseCap' = 0
      /\ results'["http"] = IF phase = 4 THEN how ELSE results["http"]
      /\ results'["drain"] = IF phase = 2 THEN how ELSE results["drain"]
  BY <1>1, Settles
<1>3. DownTypeOK'
  BY <1>1, <1>2, PhaseNames, DownAssumption DEF DownTypeOK, Endings, JobStates
<1>4. "storage" \in open => "storage" \in open'
  OBVIOUS
<1>5. ListenerClosed'
  BY <1>2, <1>4 DEF DownInv, ListenerClosed, Endings
<1>6. JobsDrained'
  <2>1. results'["drain"] = "ok" => Drained'
    BY <1>2 DEF DownInv, JobsDrained, Drained
  <2> QED
    BY <1>1, <1>2, <1>4, <2>1 DEF DownInv, JobsDrained, Endings, DownTypeOK
<1> QED
  BY <1>2, <1>3, <1>4, <1>5, <1>6 DEF DownInv

(* A phase that is over and left the jobs as they were.                    *)
LEMMA PhaseOver ==
    ASSUME DownInv, phase \in 1..8, NEW how \in Endings \ {"none"}, Settle(how),
           UNCHANGED <<procState, signals, elapsed, lease, late>>,
           open' \subseteq open, open \ open' \subseteq {"schedulers"},
           client' \in [Clients -> {"idle", "queued", "running", "done"}],
           InFlight' \subseteq InFlight,
           phase = 4 => /\ how = "ok" => "http" \notin open /\ InFlight = {}
                        /\ how \in {"timed_out", "skipped"} => elapsed >= Grace,
           phase = 2 => how # "ok" /\ (how = "skipped" => elapsed >= Grace)
    PROVE  DownInv'
<1>1. lease \in [Leases -> JobStates] /\ late \subseteq Leases
  BY DEF DownInv, DownTypeOK, JobStates
<1>2. open \ open' \subseteq {"schedulers", "engine"} /\ ("engine" \in open <=> "engine" \in open')
  OBVIOUS
<1>3. "engine" \notin open' => \A j \in Leases : lease'[j] \in {"asked", "granted"} => j \in late'
  BY <1>2 DEF DownInv, JobsDrained
<1> QED
  BY <1>1, <1>2, <1>3, PhaseSettles

(* Every step of a replica, serving or shutting down, keeps the invariant. *)
LEMMA DownStepKeeps == DownInv /\ [DownNext]_downVars => DownInv'
<1> SUFFICES ASSUME DownInv, [DownNext]_downVars PROVE DownInv'
  OBVIOUS
<1>t. DownTypeOK
  BY DEF DownInv
<1>1. CASE Signal \/ Completes
  BY <1>1 DEF Signal, Completes, DownInv, DownTypeOK, ListenerClosed, JobsDrained, Drained, InFlight
<1>2. CASE ClockTicks
  <2>1. elapsed' \in 0..MaxClock /\ elapsed' >= elapsed /\ elapsed \in Nat
    BY <1>t, <1>2, DownAssumption DEF ClockTicks, DownTypeOK
  <2> QED
    BY <1>2, <2>1, DownAssumption DEF ClockTicks, DownInv, DownTypeOK, ListenerClosed, JobsDrained, Drained, InFlight
<1>3. CASE SkipPhase
  <2>1. phase \in 1..8 /\ elapsed >= Grace /\ Settle("skipped")
        /\ UNCHANGED <<procState, signals, elapsed, open, client, lease, late>>
    BY <1>t, <1>3, PhaseNames DEF SkipPhase, DownTypeOK
  <2> QED
    BY <1>t, <2>1, PhaseOver DEF Endings, InFlight, DownTypeOK
<1>4. CASE StopSchedulers
  <2>1. phase = 1 /\ Settle("ok") /\ open' = open \ {"schedulers"}
        /\ UNCHANGED <<procState, signals, elapsed, client, lease, late>>
    BY <1>t, <1>4, PhaseAt DEF StopSchedulers, Names
  <2> QED
    BY <1>t, <2>1, PhaseOver DEF Endings, InFlight, DownTypeOK
<1>5. CASE BeginDrain
  <2>1. phase = 2 /\ phaseCap = 0 /\ elapsed < Grace /\ results["drain"] = results["drain"]
    <3>1. Starting("drain")
      BY <1>5 DEF BeginDrain, BeginPhase
    <3> QED
      BY <1>t, <3>1, PhaseAt DEF Names
  <2>2. /\ open' = open \ {"engine"} /\ UNCHANGED <<client, lease>>
        /\ late' = {j \in Leases : lease[j] \in {"asked", "granted"}}
    BY <1>5 DEF BeginDrain, StopEngine
  <2>3. CASE DrainsJobs
    <3>1. /\ UNCHANGED <<procState, signals, elapsed, phase, results>>
          /\ phaseCap' = IF elapsed + DrainCap < Grace THEN elapsed + DrainCap ELSE Grace
      BY <1>5, <2>3 DEF BeginDrain, BeginPhase
    <3>2. DownTypeOK'
      BY <1>t, <2>2, <3>1, DownAssumption DEF DownTypeOK
    <3>3. InFlight' = InFlight
      BY <2>2 DEF InFlight
    <3>4. results["drain"] = "none"
      BY <1>t, <2>1 DEF DownInv, JobsDrained, DownTypeOK
    <3>5. JobsDrained'
      BY <2>1, <2>2, <3>1, <3>4 DEF JobsDrained
    <3>6. ListenerClosed'
      BY <2>1, <2>2, <3>1, <3>3 DEF DownInv, ListenerClosed
    <3> QED
      BY <2>1, <2>2, <3>1, <3>2, <3>5, <3>6 DEF DownInv
  <2>4. CASE ~DrainsJobs
    <3>1. Settle("ok") /\ UNCHANGED <<procState, signals, elapsed>>
      BY <1>5, <2>4 DEF BeginDrain
    <3>2. Drained' /\ lease' \in [Leases -> JobStates] /\ late' \subseteq Leases
      BY <1>t, <2>2, <2>4 DEF Drained, DownTypeOK, JobStates
    <3>3. results["drain"] = "none"
      BY <1>t, <2>1 DEF DownInv, JobsDrained, DownTypeOK
    <3>4. InFlight' = InFlight /\ client' \in [Clients -> {"idle", "queued", "running", "done"}]
      BY <1>t, <2>2 DEF InFlight, DownTypeOK
    <3>5. \A j \in Leases : lease'[j] \in {"asked", "granted"} => j \in late'
      BY <2>2
    <3>6. open' \subseteq open /\ open \ open' \subseteq {"schedulers", "engine"}
      BY <2>2
    <3>7. "ok" \in Endings \ {"none"} /\ phase \in 1..8 /\ phase # 4
      BY <2>1 DEF Endings
    <3>8. /\ "engine" \notin open' => \A j \in Leases : lease'[j] \in {"asked", "granted"} => j \in late'
          /\ results["drain"] = "ok" => late' = late /\ \A j \in Leases :
                lease'[j] = "active" => lease[j] = "active"
      BY <3>3, <3>5
    <3> QED
      BY <3>1, <3>2, <3>4, <3>6, <3>7, <3>8, PhaseSettles
  <2> QED
    BY <2>3, <2>4
<1>6. CASE DrainEnds
  <2>1. phase = 2 /\ phaseCap > 0 /\ Settle("ok")
        /\ UNCHANGED <<procState, signals, elapsed, open, client, late>>
    BY <1>t, <1>6, PhaseAt DEF DrainEnds, Names
  <2>2. PICK failed \in SUBSET InActiveJobs :
           lease' = [j \in Leases |-> IF j \in failed THEN "kept"
                                     ELSE IF j \in InActiveJobs THEN "none" ELSE lease[j]]
    BY <1>6 DEF DrainEnds
  <2>3. /\ lease' \in [Leases -> JobStates]
        /\ \A j \in Leases : lease'[j] # "active"
        /\ \A j \in Leases : lease'[j] \in {"asked", "granted"} => lease[j] = lease'[j]
    BY <1>t, <2>2 DEF DownTypeOK, InActiveJobs, JobStates
  <2>4. "engine" \notin open
    BY <2>1 DEF DownInv, JobsDrained
  <2>5. Drained'
    BY <2>1, <2>3, <2>4 DEF Drained
  <2>6. \A j \in Leases : lease'[j] \in {"asked", "granted"} => j \in late
    BY <2>3, <2>4 DEF DownInv, JobsDrained
  <2>7. results["drain"] = "none"
    BY <1>t, <2>1 DEF DownInv, JobsDrained, DownTypeOK
  <2>8. InFlight' = InFlight /\ client' \in [Clients -> {"idle", "queued", "running", "done"}]
    BY <1>t, <2>1 DEF InFlight, DownTypeOK
  <2>9. /\ open' \subseteq open /\ open \ open' \subseteq {"schedulers", "engine"}
        /\ late' \subseteq Leases /\ "ok" \in Endings \ {"none"} /\ phase \in 1..8 /\ phase # 4
    BY <1>t, <2>1 DEF Endings, DownTypeOK
  <2>10. /\ "engine" \notin open' => \A j \in Leases : lease'[j] \in {"asked", "granted"} => j \in late'
         /\ results["drain"] = "ok" => late' = late /\ \A j \in Leases :
               lease'[j] = "active" => lease[j] = "active"
    BY <2>1, <2>6, <2>7
  <2> QED
    BY <2>1, <2>3, <2>5, <2>8, <2>9, <2>10, PhaseSettles
<1>7. CASE AbortWaiters
  <2>1. phase = 3 /\ Settle("ok")
        /\ UNCHANGED <<procState, signals, elapsed, open, lease, late>>
    BY <1>t, <1>7, PhaseAt DEF AbortWaiters, Names
  <2>2. /\ client' \in [Clients -> {"idle", "queued", "running", "done"}]
        /\ InFlight' \subseteq InFlight
    BY <1>t, <1>7 DEF AbortWaiters, DownTypeOK, InFlight
  <2> QED
    BY <2>1, <2>2, PhaseOver DEF Endings
<1>8. CASE BeginHttpClose
  BY <1>8, PhaseBegins, DownAssumption DEF BeginHttpClose, Names
<1>9. CASE HttpClosed
  <2>1. phase = 4 /\ phaseCap > 0 /\ Settle("ok") /\ InFlight = {}
        /\ UNCHANGED <<procState, signals, elapsed, open, client, lease, late>>
    BY <1>t, <1>9, PhaseAt DEF HttpClosed, Names
  <2>2. "http" \notin open
    BY <2>1 DEF DownInv, ListenerClosed
  <2> QED
    BY <1>t, <2>1, <2>2, PhaseOver DEF Endings, InFlight, DownTypeOK
<1>10. ASSUME NEW n \in {"bus", "cache", "storage", "egress"}, BeginClose(n) PROVE DownInv'
  <2>1. CASE n # "storage"
    BY <1>10, <2>1, PhaseBegins, DownAssumption DEF BeginClose, Names
  <2>2. CASE n = "storage"
    <3>1. phase = 7 /\ elapsed < Grace
      BY <1>t, <1>10, <2>2, PhaseAt DEF BeginClose, BeginPhase, Names
    <3>2. phaseCap' = Grace /\ open' = open \ {"storage"}
          /\ UNCHANGED <<procState, signals, elapsed, phase, results, client, lease, late>>
      BY <1>t, <1>10, <2>2, DownAssumption DEF BeginClose, BeginPhase, DownTypeOK
    <3>3. DownTypeOK'
      BY <1>t, <3>2, DownAssumption DEF DownTypeOK
    <3>4. InFlight' = InFlight
      BY <3>2 DEF InFlight
    <3>5. ~(elapsed >= Grace)
      BY <1>t, <3>1, DownAssumption DEF DownTypeOK
    <3>6. ListenerClosed' /\ JobsDrained'
      BY <3>1, <3>2, <3>4, <3>5 DEF DownInv, ListenerClosed, JobsDrained, Drained
    <3> QED
      BY <3>1, <3>2, <3>3, <3>6 DEF DownInv
  <2> QED
    BY <2>1, <2>2
<1>11. CASE DependencyClosed
  <2>1. PICK n \in {"bus", "cache", "storage", "egress"} : Working(n)
    BY <1>11 DEF DependencyClosed
  <2>2. phase \in {5, 6, 7, 8}
    BY <1>t, <2>1, PhaseAt DEF Names
  <2>3. Settle("ok") /\ UNCHANGED <<procState, signals, elapsed, open, client, lease, late>>
    BY <1>11 DEF DependencyClosed
  <2> QED
    BY <1>t, <2>2, <2>3, PhaseOver DEF Endings, InFlight, DownTypeOK
<1>12. CASE PhaseThrows
  <2>1. PICK n \in {"drain", "http", "bus", "cache", "storage", "egress"} : Working(n)
    BY <1>12 DEF PhaseThrows
  <2>2. phase \in 1..8
    BY <1>t, <2>1, PhaseAt DEF Names
  <2>3. Settle("threw") /\ UNCHANGED <<procState, signals, elapsed, open, client, lease, late>>
    BY <1>12 DEF PhaseThrows
  <2> QED
    BY <1>t, <2>2, <2>3, PhaseOver DEF Endings, InFlight, DownTypeOK
<1>13. CASE PhaseTimesOut
  <2>1. /\ phaseCap > 0 /\ elapsed >= phaseCap /\ Settle("timed_out")
        /\ UNCHANGED <<procState, signals, elapsed, open, client, lease, late>>
    BY <1>13 DEF PhaseTimesOut
  <2>2. phase \in 1..8 /\ (phase = 4 => elapsed >= Grace)
    BY <1>t, <2>1 DEF DownInv, DownTypeOK, ListenerClosed
  <2> QED
    BY <1>t, <2>1, <2>2, PhaseOver DEF Endings, InFlight, DownTypeOK
<1>14. CASE ClientAsks
  <2>1. /\ client' \in [Clients -> {"idle", "queued", "running", "done"}] /\ "http" \in open
        /\ UNCHANGED <<procState, signals, elapsed, phase, phaseCap, results, open, lease, late>>
    BY <1>t, <1>14 DEF ClientAsks, DownTypeOK
  <2> QED
    BY <1>t, <2>1 DEF DownInv, DownTypeOK, ListenerClosed, JobsDrained, Drained
<1>15. CASE ClientSteps
  <2>1. /\ client' \in [Clients -> {"idle", "queued", "running", "done"}] /\ InFlight # {}
        /\ UNCHANGED <<procState, signals, elapsed, phase, phaseCap, results, open, lease, late>>
    BY <1>t, <1>15 DEF ClientSteps, DownTypeOK
  <2> QED
    BY <1>t, <2>1 DEF DownInv, DownTypeOK, ListenerClosed, JobsDrained, Drained
<1>16. ASSUME NEW j \in Leases, NEW from \in JobStates, NEW to \in JobStates,
              JobMoves(j, from, to),
              to = "asked" => "engine" \in open,
              to = "granted" => from = "asked", to = "active" => from = "granted"
       PROVE  DownInv'
  <2>1. /\ lease[j] = from /\ lease' = [lease EXCEPT ![j] = to]
        /\ UNCHANGED <<procState, signals, elapsed, phase, phaseCap, results, open, client, late>>
    BY <1>16 DEF JobMoves
  <2>2. lease' \in [Leases -> JobStates] /\ lease'[j] = to /\ \A k \in Leases \ {j} : lease'[k] = lease[k]
    BY <1>t, <2>1 DEF DownTypeOK, JobStates
  <2>3. DownTypeOK' /\ InFlight' = InFlight /\ ListenerClosed'
    BY <1>t, <2>1, <2>2 DEF DownInv, DownTypeOK, JobStates, InFlight, ListenerClosed
  <2>4. "engine" \notin open => \A k \in Leases : lease'[k] \in {"asked", "granted"} => k \in late
    BY <1>16, <2>1, <2>2 DEF DownInv, JobsDrained
  <2>5. Drained => Drained'
    <3>1. Drained => (to = "active" => j \in late)
      BY <1>16, <2>1 DEF DownInv, JobsDrained, Drained
    <3> QED
      BY <2>1, <2>2, <3>1 DEF Drained
  <2>6. JobsDrained'
    BY <2>1, <2>4, <2>5 DEF DownInv, JobsDrained
  <2> QED
    BY <2>1, <2>3, <2>6 DEF DownInv
<1>18. ASSUME NEW j \in Leases,
              \/ PollAsks(j) \/ PollGetsNone(j) \/ StoreGrants(j) \/ PollEnters(j)
              \/ JobEnds(j) \/ LeaseRunsOut(j)
       PROVE  DownInv'
  <2> USE DEF JobStates
  <2>1. CASE PollAsks(j)
    BY <1>16, <2>1 DEF PollAsks
  <2>2. CASE PollGetsNone(j) \/ LeaseRunsOut(j) \/ JobEnds(j)
    BY <1>16, <2>2 DEF PollGetsNone, LeaseRunsOut, JobEnds
  <2>3. CASE StoreGrants(j) \/ PollEnters(j)
    BY <1>16, <2>3 DEF StoreGrants, PollEnters
  <2> QED
    BY <1>18, <2>1, <2>2, <2>3
<1>17. CASE UNCHANGED downVars
  BY <1>t, <1>17 DEF downVars, DownInv, DownTypeOK, ListenerClosed, JobsDrained, Drained, InFlight
<1> QED
  BY <1>1, <1>2, <1>3, <1>4, <1>5, <1>6, <1>7, <1>8, <1>9, <1>10, <1>11, <1>12, <1>13, <1>14,
     <1>15, <1>17, <1>18 DEF DownNext

(* The invariant of the shutdown holds.                                    *)
LEMMA ShutdownIsSound == DownSpec => []DownInv
<1>1. DownInit => DownInv
  <2> SUFFICES ASSUME DownInit PROVE DownInv
    OBVIOUS
  <2>1. DownTypeOK
    BY PhaseNames, DownAssumption DEF DownInit, DownTypeOK
  <2>2. results["http"] = "none" /\ results["drain"] = "none" /\ phase = 1 /\ phaseCap = 0
    BY PhaseNames DEF DownInit, Names
  <2> QED
    BY <2>1, <2>2 DEF DownInit, DownInv, ListenerClosed, JobsDrained, Drained, Resources
<1> QED
  BY <1>1, DownStepKeeps, PTL DEF DownSpec

(* Graceful shutdown: storage closes under a live request only if closing  *)
(* the listener threw, and under a job the replica runs only if the drain  *)
(* was cut or is switched off, or the job was being acquired when the      *)
(* engine stopped (shutdown.ts, engine.ts, server.ts).                     *)
THEOREM StorageLast == DownSpec => []StorageOutlivesWork
<1>1. DownInv => StorageOutlivesWork
  <2> SUFFICES ASSUME DownInv, "storage" \notin open PROVE StorageOutlivesWork
    BY DEF StorageOutlivesWork
  <2>1. phase > 6
    BY DEF DownInv, DownTypeOK
  <2>2. results["http"] \in Endings /\ results["drain"] \in Endings
    BY PhaseNames DEF DownInv, DownTypeOK, Endings, Names
  <2>3. phase > 2 /\ phase > 4
    BY <2>1 DEF DownInv, DownTypeOK
  <2>4. InFlight = {} \/ results["http"] = "threw"
    BY <2>2, <2>3 DEF DownInv, ListenerClosed, Endings
  <2>5. ASSUME NEW j \in Leases, lease[j] \in {"granted", "active"}
        PROVE  results["drain"] \in {"threw", "timed_out"} \/ ~DrainsJobs \/ j \in late
    <3>1. results["drain"] \in {"ok", "threw", "timed_out"}
      BY <2>2, <2>3 DEF DownInv, JobsDrained, Endings
    <3>2. CASE results["drain"] = "ok"
      BY <2>5, <3>2 DEF DownInv, JobsDrained, Drained
    <3> QED
      BY <3>1, <3>2
  <2> QED
    BY <2>4, <2>5 DEF StorageOutlivesWork
<1> QED
  BY <1>1, ShutdownIsSound, PTL
----------------------------------------------------------------------------
(* The torrents of a debrid account.                                       *)

Ends == {"none", "resolved", "uncached", "invalid", "provider-error",
         "aborted", "timed-out", "store-error"}
Before == {"idle", "counted", "adding"}          \* an attempt without its torrent
Attempting == {"adding", "examining", "unrestricting", "polling"}
TaskStates == [stage : Before \cup Attempting \cup {"queued", "ended"}, acct : Nat, polls : Nat,
               aborted : {"no", "cancel", "drain"}, attempt : 0..MaxAttempts,
               ends : [1..MaxAttempts -> Ends]]

DebridShape ==
    /\ debridAccount \in Nat
    /\ task \in [Tasks -> TaskStates]
    /\ torrents \subseteq [acct : Nat, task : Tasks, attempt : 1..MaxAttempts]
    /\ submitted \in [Tasks -> Nat]
    /\ linkCache # NoLink => linkCache \in 0..debridAccount

(* A task at r with n magnets uploaded: one for each attempt at most, and  *)
(* none yet in an attempt that is about to send it; only what is queued or *)
(* not yet enqueued has an attempt left, and only what is over has an end. *)
Fits(t, r, n) ==
    /\ r.acct <= debridAccount
    /\ r.stage \in {"counted", "queued", "polling"} => t \in Transfers
    /\ t \notin Transfers => r.attempt = 1
    /\ r.stage \in Attempting => r.attempt >= 1
    /\ r.stage \in {"counted", "queued"} \/ (r.stage = "idle" /\ t \in Transfers)
          => r.attempt < MaxAttempts
    /\ \A k \in 1..MaxAttempts :
          k > r.attempt \/ (k = r.attempt /\ r.stage \notin {"queued", "ended"})
             => r.ends[k] = "none"
    /\ n <= r.attempt
    /\ r.stage = "adding" \/ (r.stage = "idle" /\ t \notin Transfers) => n < r.attempt

(* A torrent is of an attempt that sent its magnet, on the account the     *)
(* attempt began with.                                                     *)
Tells(x) ==
    /\ x.attempt <= task[x.task].attempt
    /\ x.attempt = task[x.task].attempt
          => x.acct = task[x.task].acct /\ task[x.task].stage \notin Before
    /\ x.acct <= debridAccount
    /\ MayStay(x)

TaskTold ==
    /\ \A t \in Tasks : Fits(t, task[t], submitted[t])
    /\ \A x \in torrents : Tells(x)

DebridInv == DebridShape /\ TaskTold

(* A task goes on as r: the torrents and the deletions that failed stay as *)
(* they are but for the attempt's own, which may stay or is gone.          *)
GoesOn(t, r) ==
    /\ task' = [task EXCEPT ![t] = r]
    /\ debridAccount' = debridAccount /\ submitted' = submitted
    /\ torrents' \subseteq torrents /\ undeletable \subseteq undeletable'
    /\ linkCache' \in {linkCache, NoLink, task[t].acct}
    /\ Fits(t, r, submitted[t])
    /\ \/ r.attempt = task[t].attempt + 1
       \/ /\ r.attempt = task[t].attempt
          /\ task[t].stage \in Before \/ (r.acct = task[t].acct /\ r.stage \notin Before)
    /\ \A k \in 1..MaxAttempts :
          \/ r.ends[k] = task[t].ends[k]
          \/ /\ k = task[t].attempt
             /\ \/ r.ends[k] = "resolved" \/ task[t].stage \in Before
                \/ Torrent(t) \in undeletable' \/ Torrent(t) \notin torrents'
                \/ t \in Transfers /\ (r.ends[k] \in {"provider-error", "store-error"}
                                       \/ task[t].acct # debridAccount)

(* It keeps the invariant.                                                 *)
LEMMA TaskGoesOn ==
    ASSUME DebridInv, NEW t \in Tasks, NEW r \in TaskStates, GoesOn(t, r)
    PROVE  DebridInv'
<1> USE DEF GoesOn
<1>0. /\ task' \in [Tasks -> TaskStates] /\ task'[t] = r
      /\ \A s \in Tasks : s # t => task'[s] = task[s]
  BY DEF DebridInv, DebridShape
<1>a. task[t].acct \in 0..debridAccount /\ task[t].acct \in Nat
  BY DEF DebridInv, DebridShape, TaskTold, Fits, TaskStates
<1>1. DebridShape'
  BY <1>0, <1>a DEF DebridInv, DebridShape
<1>2. ASSUME NEW s \in Tasks PROVE Fits(s, task[s], submitted[s])'
  <2>1. CASE s = t
    BY <1>0, <2>1 DEF Fits
  <2>2. CASE s # t
    BY <1>0, <2>2 DEF DebridInv, TaskTold, Fits
  <2> QED
    BY <2>1, <2>2
<1>3. ASSUME NEW x \in torrents' PROVE Tells(x)'
  <2>1. x \in torrents /\ x.task \in Tasks /\ x.attempt \in 1..MaxAttempts /\ Tells(x)
    BY <1>3 DEF DebridInv, DebridShape, TaskTold
  <2>2. CASE x.task = t
    <3>1. /\ x.attempt <= task[t].attempt /\ x.acct <= debridAccount /\ MayStay(x)
          /\ x.attempt = task[t].attempt => x.acct = task[t].acct /\ task[t].stage \notin Before
      BY <2>1, <2>2 DEF Tells
    <3>2. task[t].attempt \in 0..MaxAttempts /\ r.attempt \in 0..MaxAttempts /\ MaxAttempts \in Nat
      BY DebridAssumption DEF DebridInv, DebridShape, TaskStates
    <3>3. /\ x.attempt <= r.attempt
          /\ x.attempt = r.attempt => x.acct = r.acct /\ r.stage \notin Before
      BY <2>1, <3>1, <3>2
    <3>4. MayStay(x)'
      <4>1. CASE r.ends[x.attempt] = task[t].ends[x.attempt]
        BY <1>0, <2>2, <3>1, <4>1 DEF MayStay, EndOf
      <4>2. CASE r.ends[x.attempt] # task[t].ends[x.attempt]
        <5>1. x.attempt = task[t].attempt /\ x.acct = task[t].acct /\ task[t].stage \notin Before
          BY <2>1, <3>1, <4>2
        <5>2. x = Torrent(t)
          BY <2>1, <2>2, <5>1 DEF Torrent, DebridInv, DebridShape
        <5>3. \/ r.ends[x.attempt] = "resolved" \/ x \in undeletable'
              \/ t \in Transfers /\ (r.ends[x.attempt] \in {"provider-error", "store-error"}
                                     \/ x.acct # debridAccount)
          BY <1>3, <2>1, <4>2, <5>1, <5>2
        <5> QED
          BY <1>0, <2>2, <5>3 DEF MayStay, EndOf
      <4> QED
        BY <4>1, <4>2
    <3> QED
      BY <1>0, <2>2, <3>1, <3>3, <3>4 DEF Tells
  <2>3. CASE x.task # t
    <3>1. task'[x.task] = task[x.task]
      BY <1>0, <2>1, <2>3
    <3>2. MayStay(x)'
      BY <2>1, <3>1 DEF MayStay, EndOf, Tells
    <3> QED
      BY <2>1, <3>1, <3>2 DEF Tells
  <2> QED
    BY <2>2, <2>3
<1> QED
  BY <1>1, <1>2, <1>3 DEF DebridInv, TaskTold

(* cleanup() takes the torrent away or notes that it could not.            *)
LEMMA CleansUp ==
    ASSUME NEW x, Cleanup(x)
    PROVE  /\ torrents' \subseteq torrents /\ undeletable \subseteq undeletable'
           /\ x \in undeletable' \/ x \notin torrents'
BY DEF Cleanup

(* An attempt ends, its torrent cleaned up or one that may stay.           *)
LEMMA TaskEnds ==
    ASSUME DebridInv, NEW t \in Tasks, NEW how \in Ends, EndsAs(t, how),
           task[t].stage \in Attempting, debridAccount' = debridAccount, submitted' = submitted,
           linkCache' \in {linkCache, NoLink, task[t].acct},
           \/ Cleanup(Torrent(t))
           \/ /\ NoCleanup
              /\ \/ how = "resolved" \/ task[t].stage \in Before
                 \/ t \in Transfers /\ (how \in {"provider-error", "store-error"}
                                        \/ task[t].acct # debridAccount)
    PROVE  DebridInv'
<1>1. PICK x \in TaskStates : x = task[t]
  BY DEF DebridInv, DebridShape
<1>2. PICK stage \in AfterEnd(t, how) :
         task' = [task EXCEPT ![t].stage = stage, ![t].ends[task[t].attempt] = how]
  BY DEF EndsAs
<1>3. /\ stage \in {"queued", "ended"}
      /\ stage = "queued" => t \in Transfers /\ x.attempt # MaxAttempts
  BY <1>1, <1>2 DEF AfterEnd, Keeps
<1>4. /\ x.attempt \in 1..MaxAttempts /\ x.attempt \in Nat /\ MaxAttempts \in Nat
      /\ Fits(t, x, submitted[t])
  BY <1>1, DebridAssumption DEF DebridInv, TaskTold, Fits, TaskStates
<1> DEFINE r == [x EXCEPT !.stage = stage, !.ends = [x.ends EXCEPT ![x.attempt] = how]]
<1>5. task' = [task EXCEPT ![t] = r]
  BY <1>1, <1>2 DEF DebridInv, DebridShape
<1>6. /\ r \in TaskStates /\ r.stage = stage /\ r.acct = x.acct /\ r.attempt = x.attempt
      /\ r.ends[x.attempt] = how
      /\ \A k \in 1..MaxAttempts : k # x.attempt => r.ends[k] = x.ends[k]
  BY <1>3, <1>4 DEF TaskStates
<1> HIDE DEF r
<1>7. Fits(t, r, submitted[t])
  BY <1>3, <1>4, <1>6 DEF Fits, Attempting
<1>8. torrents' \subseteq torrents /\ undeletable \subseteq undeletable'
  BY CleansUp DEF NoCleanup
<1>9. \/ how = "resolved" \/ task[t].stage \in Before
      \/ Torrent(t) \in undeletable' \/ Torrent(t) \notin torrents'
      \/ t \in Transfers /\ (how \in {"provider-error", "store-error"} \/ task[t].acct # debridAccount)
  <2>1. \A y : Cleanup(y) => y \in undeletable' \/ y \notin torrents'
    BY CleansUp
  <2> QED
    BY <2>1
<1>10. r.stage \notin Before
  BY <1>3, <1>6 DEF Before
<1>11. GoesOn(t, r)
  BY <1>1, <1>5, <1>6, <1>7, <1>8, <1>9, <1>10 DEF GoesOn
<1> QED
  BY <1>6, <1>11, TaskGoesOn

(* A task that goes on, and touches no torrent.                            *)
MovesAs(t, r) ==
    /\ task' = [task EXCEPT ![t] = r]
    /\ UNCHANGED <<debridAccount, submitted, linkCache>> /\ NoCleanup
    /\ r.ends = task[t].ends /\ Fits(t, r, submitted[t])
    /\ \/ r.attempt = task[t].attempt + 1
       \/ /\ r.attempt = task[t].attempt
          /\ task[t].stage \in Before \/ (r.acct = task[t].acct /\ r.stage \notin Before)

(* A step that only moves a task on, and does not end its attempt, keeps   *)
(* the invariant.                                                          *)
LEMMA TaskMoves ==
    ASSUME DebridInv, NEW t \in Tasks, NEW r \in TaskStates, MovesAs(t, r)
    PROVE  DebridInv'
<1>1. torrents' \subseteq torrents /\ undeletable \subseteq undeletable'
  BY DEF MovesAs, NoCleanup
<1>2. GoesOn(t, r)
  BY <1>1 DEF MovesAs, GoesOn
<1> QED
  BY <1>2, TaskGoesOn

(* The stage of a task alone is changed.                                   *)
LEMMA StageMoves ==
    ASSUME DebridInv, NEW t \in Tasks, NEW stage, TorrentGoes(t, stage),
           UNCHANGED <<debridAccount, submitted, linkCache>>, NoCleanup,
           \/ task[t].stage \in {"idle", "counted"} /\ t \in Transfers
              /\ stage \in {"counted", "queued", "ended"}
           \/ task[t].stage = "queued" /\ stage = "ended"
           \/ task[t].stage = "examining" /\ stage = "unrestricting"
           \/ task[t].stage = "examining" /\ stage = "polling" /\ t \in Transfers
    PROVE  DebridInv'
<1>1. PICK x \in TaskStates : x = task[t]
  BY DEF DebridInv, DebridShape
<1> DEFINE r == [x EXCEPT !.stage = stage]
<1>2. /\ r \in TaskStates /\ r.stage = stage /\ r.acct = x.acct /\ r.attempt = x.attempt
      /\ r.ends = x.ends
  BY DEF TaskStates, Before, Attempting
<1>3. task' = [task EXCEPT ![t] = r]
  BY <1>1 DEF TorrentGoes, DebridInv, DebridShape
<1> HIDE DEF r
<1>4. Fits(t, x, submitted[t])
  BY <1>1 DEF DebridInv, TaskTold
<1>5. Fits(t, r, submitted[t])
  BY <1>1, <1>2, <1>4 DEF Fits, Attempting
<1>6. task[t].stage \in Before \/ r.stage \notin Before
  BY <1>2 DEF Before
<1>7. MovesAs(t, r)
  BY <1>1, <1>2, <1>3, <1>5, <1>6 DEF MovesAs
<1> QED
  BY <1>2, <1>7, TaskMoves

(* Every step of the lookups and the transfers keeps the invariant.        *)
LEMMA DebridStepKeeps ==
    ASSUME DebridInv, [DebridNext]_debridVars
    PROVE  DebridInv'
<1>1. CASE UNCHANGED debridVars
  BY <1>1 DEF debridVars, DebridInv, DebridShape, TaskTold, Fits, Tells, MayStay, EndOf
<1>2. CASE Configure
  <2>1. DebridShape'
    BY <1>2 DEF Configure, DebridInv, DebridShape
  <2>2. ASSUME NEW x \in torrents' PROVE Tells(x)'
    <3>1. x \in torrents /\ x.acct \in Nat /\ debridAccount \in Nat /\ Tells(x)
      BY <1>2, <2>2 DEF Configure, DebridInv, DebridShape, TaskTold
    <3>2. debridAccount' = debridAccount + 1 /\ x.acct <= debridAccount
      BY <1>2, <3>1 DEF Configure, Tells
    <3>3. x.acct <= debridAccount' /\ x.acct # debridAccount'
      BY <3>1, <3>2
    <3> QED
      BY <1>2, <3>1, <3>3 DEF Configure, Tells, MayStay, EndOf
  <2>3. ASSUME NEW t \in Tasks PROVE Fits(t, task[t], submitted[t])'
    <3>1. /\ task[t].acct \in Nat /\ debridAccount \in Nat /\ task[t].acct <= debridAccount
          /\ Fits(t, task[t], submitted[t])
      BY DEF DebridInv, DebridShape, TaskTold, TaskStates, Fits
    <3>2. task[t].acct <= debridAccount'
      BY <1>2, <3>1 DEF Configure
    <3> QED
      BY <1>2, <3>1, <3>2 DEF Configure, Fits
  <2> QED
    BY <2>1, <2>2, <2>3 DEF DebridInv, TaskTold
<1>3. ASSUME NEW t \in Tasks, LookupTorrent(t) PROVE DebridInv'
  <2>1. PICK x \in TaskStates : x = task[t]
    BY DEF DebridInv, DebridShape
  <2>2. /\ x.stage = "idle" /\ t \notin Transfers /\ debridAccount \in Nat
        /\ 1 \in 1..MaxAttempts /\ Fits(t, x, submitted[t])
        /\ UNCHANGED <<debridAccount, torrents, linkCache, undeletable, submitted>>
    BY <1>3, <2>1, DebridAssumption
       DEF LookupTorrent, AtStage, DebridInv, DebridShape, TaskTold
  <2>3. x.attempt = 1 /\ x.stage \in Before
    BY <2>2 DEF Fits, Before
  <2>4. CASE linkCache # NoLink
    <3> DEFINE r == [x EXCEPT !.stage = "ended", !.ends = [x.ends EXCEPT ![1] = "resolved"],
                              !.acct = linkCache]
    <3>1. linkCache \in Nat /\ linkCache <= debridAccount
      BY <2>2, <2>4 DEF DebridInv, DebridShape
    <3>2. /\ r \in TaskStates /\ r.stage = "ended" /\ r.acct = linkCache /\ r.attempt = x.attempt
          /\ \A k \in 1..MaxAttempts : k # 1 => r.ends[k] = x.ends[k]
      BY <2>2, <3>1 DEF TaskStates, Ends
    <3>3. task' = [task EXCEPT ![t] = r]
      BY <1>3, <2>1, <2>4 DEF LookupTorrent, DebridInv, DebridShape
    <3> HIDE DEF r
    <3>4. Fits(t, r, submitted[t])
      BY <2>2, <2>3, <3>1, <3>2 DEF Fits, Attempting
    <3>5. GoesOn(t, r)
      BY <2>1, <2>2, <2>3, <3>2, <3>3, <3>4 DEF GoesOn
    <3> QED
      BY <3>2, <3>5, TaskGoesOn
  <2>5. CASE linkCache = NoLink
    <3> DEFINE r == [x EXCEPT !.stage = "adding", !.acct = debridAccount]
    <3>1. /\ r \in TaskStates /\ r.stage = "adding" /\ r.acct = debridAccount
          /\ r.attempt = x.attempt /\ r.ends = x.ends
      BY <2>2 DEF TaskStates, Before
    <3>2. task' = [task EXCEPT ![t] = r]
      BY <1>3, <2>1, <2>5 DEF LookupTorrent, DebridInv, DebridShape
    <3> HIDE DEF r
    <3>3. Fits(t, r, submitted[t])
      BY <2>2, <2>3, <3>1 DEF Fits
    <3>4. MovesAs(t, r)
      BY <2>1, <2>2, <2>3, <3>1, <3>2, <3>3 DEF MovesAs, NoCleanup
    <3> QED
      BY <3>1, <3>4, TaskMoves
  <2> QED
    BY <2>4, <2>5
<1>4. ASSUME NEW t \in Tasks, AddMagnet(t) PROVE DebridInv'
  <2>1. PICK x \in TaskStates : x = task[t]
    BY DEF DebridInv, DebridShape
  <2>2. /\ x.stage = "adding" /\ x.stage \in Before /\ x.stage \in Attempting
        /\ UNCHANGED <<debridAccount, linkCache, undeletable>>
    BY <1>4, <2>1 DEF AddMagnet, AtStage, Before, Attempting
  <2>3. CASE EndsAs(t, "provider-error") /\ UNCHANGED <<torrents, submitted>>
    <3>1. NoCleanup /\ "provider-error" \in Ends
      BY <2>2, <2>3 DEF NoCleanup, Ends
    <3> QED
      BY <2>1, <2>2, <2>3, <3>1, TaskEnds
  <2>4. CASE /\ torrents' = torrents \cup {Torrent(t)}
             /\ submitted' = [submitted EXCEPT ![t] = @ + 1]
             /\ TorrentGoes(t, "examining")
    <3> DEFINE r == [x EXCEPT !.stage = "examining"]
    <3>1. /\ r \in TaskStates /\ r.stage = "examining" /\ r.acct = x.acct
          /\ r.attempt = x.attempt /\ r.ends = x.ends
      BY DEF TaskStates, Attempting
    <3>2. task' = [task EXCEPT ![t] = r]
      BY <2>1, <2>4 DEF TorrentGoes, DebridInv, DebridShape
    <3> HIDE DEF r
    <3>3. /\ task' \in [Tasks -> TaskStates] /\ task'[t] = r
          /\ \A s \in Tasks : s # t => task'[s] = task[s]
      BY <3>1, <3>2 DEF DebridInv, DebridShape
    <3>4. /\ submitted' \in [Tasks -> Nat] /\ submitted[t] \in Nat
          /\ submitted'[t] = submitted[t] + 1
          /\ \A s \in Tasks : s # t => submitted'[s] = submitted[s]
      BY <2>4 DEF DebridInv, DebridShape
    <3>5. /\ Fits(t, x, submitted[t]) /\ x.attempt \in 0..MaxAttempts /\ x.acct \in Nat
          /\ MaxAttempts \in Nat
      BY <2>1, DebridAssumption DEF DebridInv, TaskTold, TaskStates
    <3>6. /\ x.attempt \in 1..MaxAttempts /\ submitted[t] < x.attempt
          /\ x.ends[x.attempt] = "none" /\ x.acct <= debridAccount
      BY <2>2, <3>5 DEF Fits
    <3>7. /\ Torrent(t).acct = x.acct /\ Torrent(t).task = t /\ Torrent(t).attempt = x.attempt
          /\ Torrent(t) \in [acct : Nat, task : Tasks, attempt : 1..MaxAttempts]
      BY <2>1, <3>5, <3>6 DEF Torrent
    <3>8. DebridShape'
      BY <2>2, <2>4, <3>3, <3>4, <3>7 DEF DebridInv, DebridShape
    <3>9. ASSUME NEW s \in Tasks PROVE Fits(s, task[s], submitted[s])'
      <4>1. CASE s = t
        <5>1. submitted'[t] <= r.attempt
          BY <3>1, <3>4, <3>5, <3>6
        <5> QED
          BY <2>2, <3>1, <3>3, <3>5, <4>1, <5>1 DEF Fits, Attempting
      <4>2. CASE s # t
        BY <2>2, <3>3, <3>4, <4>2 DEF DebridInv, TaskTold, Fits
      <4> QED
        BY <4>1, <4>2
    <3>10. ASSUME NEW y \in torrents' PROVE Tells(y)'
      <4>1. CASE y = Torrent(t)
        <5>1. /\ task'[y.task].attempt = x.attempt /\ task'[y.task].acct = x.acct
              /\ task'[y.task].stage = "examining" /\ task'[y.task].ends[y.attempt] = "none"
          BY <3>1, <3>3, <3>6, <3>7, <4>1
        <5> QED
          BY <2>2, <3>5, <3>6, <3>7, <4>1, <5>1 DEF Tells, MayStay, EndOf, Before
      <4>2. CASE y \in torrents
        <5>1. y.task \in Tasks /\ Tells(y)
          BY <4>2 DEF DebridInv, DebridShape, TaskTold
        <5>2. /\ task'[y.task].attempt = task[y.task].attempt
              /\ task'[y.task].ends = task[y.task].ends
              /\ task'[y.task].acct = task[y.task].acct
              /\ task'[y.task].stage \in Before => task[y.task].stage \in Before
          BY <2>1, <2>2, <3>1, <3>3, <5>1
        <5> QED
          BY <2>2, <5>1, <5>2 DEF Tells, MayStay, EndOf
      <4> QED
        BY <2>4, <3>10, <4>1, <4>2
    <3> QED
      BY <3>8, <3>9, <3>10 DEF DebridInv, TaskTold
  <2> QED
    BY <1>4, <2>3, <2>4 DEF AddMagnet
<1>5. ASSUME NEW t \in Tasks, CallThrows(t) PROVE DebridInv'
  <2>1. /\ t \in Transfers \/ ~Keeps(t)
        /\ EndsAs(t, "provider-error") /\ "provider-error" \in Ends /\ task[t].stage \in Attempting
    BY <1>5 DEF CallThrows, Ends, Keeps, Attempting
  <2> QED
    BY <1>5, <2>1, TaskEnds DEF CallThrows
<1>6. ASSUME NEW t \in Tasks, Examined(t) PROVE DebridInv'
  <2>1. /\ task[t].stage = "examining" /\ task[t].stage \in Attempting
        /\ {"invalid", "uncached"} \subseteq Ends
        /\ debridAccount' = debridAccount /\ linkCache' = linkCache /\ submitted' = submitted
    BY <1>6 DEF Examined, AtStage, Ends, Attempting
  <2>2. CASE EndsAs(t, "invalid") /\ Cleanup(Torrent(t))
    BY <2>1, <2>2, TaskEnds
  <2>3. CASE EndsAs(t, "uncached") /\ Cleanup(Torrent(t))
    BY <2>1, <2>3, TaskEnds
  <2>4. CASE t \in Transfers /\ TorrentGoes(t, "polling") /\ NoCleanup
    <3>1. PICK s : s = "polling"
      OBVIOUS
    <3> QED
      BY <2>1, <2>4, <3>1, StageMoves
  <2>5. CASE TorrentGoes(t, "unrestricting") /\ NoCleanup
    <3>1. PICK s : s = "unrestricting"
      OBVIOUS
    <3> QED
      BY <2>1, <2>5, <3>1, StageMoves
  <2> QED
    BY <1>6, <2>2, <2>3, <2>4, <2>5 DEF Examined, Keeps
<1>7. ASSUME NEW t \in Tasks, Unrestricted(t) PROVE DebridInv'
  <2>1. /\ {"resolved", "provider-error", "store-error"} \subseteq Ends
        /\ task[t].stage \in Attempting
    BY <1>7 DEF Ends, Unrestricted, AtStage, Attempting
  <2>2. linkCache' \in {linkCache, NoLink, task[t].acct}
    BY <1>7 DEF Unrestricted, SetCache
  <2>3. debridAccount' = debridAccount /\ submitted' = submitted
    BY <1>7 DEF Unrestricted
  <2>4. \/ EndsAs(t, "resolved") /\ NoCleanup
        \/ t \in Transfers /\ EndsAs(t, "store-error") /\ NoCleanup
        \/ EndsAs(t, "provider-error") /\ Cleanup(Torrent(t))
    BY <1>7 DEF Unrestricted, Keeps
  <2> QED
    BY <2>1, <2>2, <2>3, <2>4, TaskEnds
<1>8. ASSUME NEW t \in Tasks, Count(t) \/ EnqueueTransfer(t) PROVE DebridInv'
  <2>1. /\ UNCHANGED <<debridAccount, submitted, linkCache>> /\ NoCleanup
        /\ task[t].stage \in {"idle", "counted"}
    BY <1>8 DEF Count, EnqueueTransfer, AtStage, NoCleanup
  <2>2. t \in Transfers
    BY <1>8 DEF Count, EnqueueTransfer, AtStage, DebridInv, TaskTold, Fits
  <2>3. \E s \in {"counted", "queued", "ended"} : TorrentGoes(t, s)
    BY <1>8 DEF Count, EnqueueTransfer
  <2> QED
    BY <2>1, <2>2, <2>3, StageMoves
<1>9. ASSUME NEW t \in Tasks, StartTransfer(t) PROVE DebridInv'
  <2>1. PICK x \in TaskStates : x = task[t]
    BY DEF DebridInv, DebridShape
  <2>2. /\ x.stage = "queued" /\ debridAccount \in Nat /\ submitted[t] \in Nat
        /\ UNCHANGED <<debridAccount, linkCache, submitted>> /\ NoCleanup
        /\ Fits(t, x, submitted[t]) /\ MaxAttempts \in Nat /\ x.attempt \in 0..MaxAttempts
    BY <1>9, <2>1, DebridAssumption
       DEF StartTransfer, AtStage, NoCleanup, DebridInv, DebridShape, TaskTold, TaskStates
  <2>3. /\ t \in Transfers /\ x.attempt < MaxAttempts /\ submitted[t] <= x.attempt
        /\ \A k \in 1..MaxAttempts : k > x.attempt => x.ends[k] = "none"
    BY <2>2 DEF Fits
  <2>4. x.attempt + 1 \in 0..MaxAttempts
    BY <2>2, <2>3
  <2> DEFINE r == [x EXCEPT !.stage = "adding", !.acct = debridAccount, !.polls = 0,
                            !.aborted = "no", !.attempt = x.attempt + 1]
  <2>5. /\ r \in TaskStates /\ r.stage = "adding" /\ r.acct = debridAccount
        /\ r.attempt = x.attempt + 1 /\ r.ends = x.ends
    BY <2>2, <2>4 DEF TaskStates, Before
  <2>6. task' = [task EXCEPT ![t] = r]
    BY <1>9, <2>1 DEF StartTransfer, DebridInv, DebridShape
  <2> HIDE DEF r
  <2>7. Fits(t, r, submitted[t])
    <3>1. /\ r.attempt >= 1 /\ submitted[t] < r.attempt /\ submitted[t] <= r.attempt
          /\ \A k \in 1..MaxAttempts : k > r.attempt \/ k = r.attempt => r.ends[k] = "none"
      BY <2>2, <2>3, <2>5
    <3> QED
      BY <2>2, <2>3, <2>5, <3>1 DEF Fits
  <2>8. MovesAs(t, r)
    BY <2>1, <2>2, <2>5, <2>6, <2>7 DEF MovesAs
  <2> QED
    BY <2>5, <2>8, TaskMoves
<1>10. ASSUME NEW t \in Tasks, NEW why \in {"cancel", "drain"}, AbortTransfer(t, why)
       PROVE  DebridInv'
  <2>1. PICK x \in TaskStates : x = task[t]
    BY DEF DebridInv, DebridShape
  <2>2. /\ x.stage \notin {"idle", "counted", "ended"}
        /\ UNCHANGED <<debridAccount, linkCache, submitted>> /\ NoCleanup
        /\ Fits(t, x, submitted[t])
    BY <1>10, <2>1 DEF AbortTransfer, NoCleanup, DebridInv, TaskTold
  <2>3. CASE x.stage = "queued" /\ TorrentGoes(t, "ended")
    <3>1. PICK s : s = "ended"
      OBVIOUS
    <3> QED
      BY <2>1, <2>2, <2>3, <3>1, StageMoves
  <2>4. CASE x.stage # "queued" /\ task' = [task EXCEPT ![t].aborted = why]
    <3> DEFINE r == [x EXCEPT !.aborted = why]
    <3>1. /\ r \in TaskStates /\ r.stage = x.stage /\ r.acct = x.acct
          /\ r.attempt = x.attempt /\ r.ends = x.ends
      BY DEF TaskStates
    <3>2. task' = [task EXCEPT ![t] = r]
      BY <2>1, <2>4 DEF DebridInv, DebridShape
    <3> HIDE DEF r
    <3>3. Fits(t, r, submitted[t])
      BY <2>2, <3>1 DEF Fits
    <3>4. MovesAs(t, r)
      BY <2>1, <2>2, <3>1, <3>2, <3>3 DEF MovesAs
    <3> QED
      BY <3>1, <3>4, TaskMoves
  <2> QED
    BY <1>10, <2>1, <2>3, <2>4 DEF AbortTransfer, AtStage
<1>11. ASSUME NEW t \in Tasks, PollTorrent(t) PROVE DebridInv'
  <2>1. PICK x \in TaskStates : x = task[t]
    BY DEF DebridInv, DebridShape
  <2>2. /\ x.stage = "polling" /\ x.stage \in Attempting
        /\ UNCHANGED <<debridAccount, linkCache, submitted>> /\ {"invalid", "resolved"} \subseteq Ends
        /\ Fits(t, x, submitted[t])
    BY <1>11, <2>1 DEF PollTorrent, AtStage, DebridInv, TaskTold, Ends, Attempting
  <2>3. CASE task' = [task EXCEPT ![t].polls = @ + 1] /\ NoCleanup
    <3> DEFINE r == [x EXCEPT !.polls = x.polls + 1]
    <3>1. /\ r \in TaskStates /\ r.stage = x.stage /\ r.acct = x.acct
          /\ r.attempt = x.attempt /\ r.ends = x.ends
      BY DEF TaskStates
    <3>2. task' = [task EXCEPT ![t] = r]
      BY <2>1, <2>3 DEF DebridInv, DebridShape
    <3> HIDE DEF r
    <3>3. Fits(t, r, submitted[t]) /\ r.stage \notin Before
      BY <2>2, <3>1 DEF Fits, Before
    <3>4. MovesAs(t, r)
      BY <2>1, <2>2, <2>3, <3>1, <3>2, <3>3 DEF MovesAs
    <3> QED
      BY <3>1, <3>4, TaskMoves
  <2>4. CASE EndsAs(t, "invalid") /\ Cleanup(Torrent(t))
    BY <2>1, <2>2, <2>4, TaskEnds
  <2>5. CASE EndsAs(t, "resolved") /\ NoCleanup
    BY <2>1, <2>2, <2>5, TaskEnds
  <2> QED
    BY <1>11, <2>3, <2>4, <2>5 DEF PollTorrent
<1>12. ASSUME NEW t \in Tasks, StopPolling(t) \/ StoreFails(t) PROVE DebridInv'
  <2>1. /\ task[t].stage \in Attempting /\ task[t].stage \in {"adding", "polling"}
        /\ UNCHANGED <<debridAccount, linkCache, submitted>>
        /\ {"aborted", "timed-out", "store-error"} \subseteq Ends
    BY <1>12 DEF StopPolling, StoreFails, AtStage, Ends, Attempting
  <2>2. ServiceCleanup(t) => \/ Cleanup(Torrent(t))
                             \/ NoCleanup /\ task[t].acct # debridAccount
    BY DEF ServiceCleanup, NoCleanup
  <2>3. t \in Transfers
    BY <1>12 DEF StopPolling, StoreFails, AtStage, Keeps, DebridInv, TaskTold, Fits
  <2>4. \/ \E how \in {"aborted", "timed-out"} : EndsAs(t, how) /\ ServiceCleanup(t)
        \/ EndsAs(t, "store-error") /\ NoCleanup
        \/ \E how \in {"aborted", "store-error"} :
              EndsAs(t, how) /\ NoCleanup /\ task[t].stage = "adding"
    BY <1>12, <2>1 DEF StopPolling, StoreFails, AtStage
  <2>5. "adding" \in Before
    BY DEF Before
  <2> QED
    BY <2>1, <2>2, <2>3, <2>4, <2>5, TaskEnds
<1> QED
  BY <1>1, <1>2, <1>3, <1>4, <1>5, <1>6, <1>7, <1>8, <1>9, <1>10, <1>11, <1>12
     DEF DebridNext

(* The invariant of the torrents holds.                                    *)
LEMMA DebridIsSound == DebridSpec => []DebridInv
<1>1. DebridInit => DebridInv
  <2> SUFFICES ASSUME DebridInit PROVE DebridInv
    OBVIOUS
  <2>1. MaxAttempts \in Nat /\ MaxAttempts >= 1
    BY DebridAssumption
  <2>2. ASSUME NEW t \in Tasks
        PROVE  NewTask(t) \in TaskStates /\ task[t] = NewTask(t) /\ submitted[t] = 0
    BY <2>1 DEF DebridInit, NewTask, TaskStates, Before, Ends
  <2>3. DebridShape
    BY <2>2 DEF DebridInit, DebridShape
  <2>4. ASSUME NEW t \in Tasks PROVE Fits(t, task[t], submitted[t])
    BY <2>1, <2>2 DEF DebridInit, NewTask, Fits, Attempting
  <2> QED
    BY <2>3, <2>4 DEF DebridInit, DebridInv, TaskTold
<1> QED
  BY <1>1, DebridStepKeeps, PTL DEF DebridSpec

(* DebridTransfer: whatever fails, whenever the key is changed and however *)
(* often the engine runs a transfer again, a lookup without a link and an  *)
(* attempt that was aborted, rejected or timed out leave no torrent but one*)
(* that could not be deleted, or a transfer's on an account that is no     *)
(* longer configured; and no attempt uploads its magnet twice.             *)
THEOREM NothingStays == DebridSpec => []NothingLeftBehind
<1>1. DebridInv => NothingLeftBehind
  BY DEF DebridInv, TaskTold, Tells, Fits, NothingLeftBehind
<1> QED
  BY <1>1, DebridIsSound, PTL
----------------------------------------------------------------------------
(* The transactions of the Postgres backend.                               *)

TxStates == [op : {"none", "save", "remove", "reorder", "bump"},
             at : {"over", "select", "upsert", "delete", "update", "bump", "commit"},
             todo : Seq(PgAddons), seen : Nat, expected : {NoVersion} \cup Nat,
             changes : SUBSET PgAddons, bumps : BOOLEAN]

PgShape ==
    /\ rowVersion \in [PgAddons -> Nat] /\ pgRevision \in Nat
    /\ owner \in [PgRows -> Connections \cup {Nobody}]
    /\ tx \in [Connections -> TxStates]

(* A transaction that works on addons names one, and only a reorder has    *)
(* more than one statement for them.                                       *)
Named(x) ==
    /\ x.at \in {"select", "upsert", "delete", "update"} => x.todo # <<>>
    /\ x.at = "update" => x.op = "reorder"
    /\ x.at \in {"delete", "update"} => x.expected = NoVersion

(* The rows it may have locked: addons first, and the revision only when   *)
(* it is about to commit.                                                  *)
MayHold(x, row) ==
    \/ x.at = "commit"
    \/ x.at \in {"update", "bump"} /\ row \in PgAddons
    \/ x.at = "upsert" /\ row = x.todo[1]

(* It has read the version it expects.                                     *)
ReadExpected(x) ==
    x.expected # NoVersion /\ x.seen > 0 /\ x.at \in {"upsert", "bump", "commit"}

TxTold ==
    \A c \in Connections :
        /\ Named(tx[c])
        /\ \A row \in PgRows : owner[row] = c => MayHold(tx[c], row)
        /\ \A a \in tx[c].changes : owner[a] = c
        /\ ReadExpected(tx[c]) => /\ tx[c].todo # <<>> /\ owner[tx[c].todo[1]] = c
                                  /\ rowVersion[tx[c].todo[1]] = tx[c].expected

PgInv == PgShape /\ TxTold /\ pgRevision = mutated /\ ~clobbered

(* The transaction of c goes on as x: it takes and gives up only what is   *)
(* free or its own, and writes only rows it has locked.                    *)
TxGoes(c, x) ==
    /\ tx' = [tx EXCEPT ![c] = x]
    /\ rowVersion' \in [PgAddons -> Nat]
    /\ \A a \in PgAddons : rowVersion'[a] = rowVersion[a] \/ owner[a] = c
    /\ pgRevision' \in Nat /\ pgRevision' = mutated' /\ ~clobbered'
    /\ owner' \in [PgRows -> Connections \cup {Nobody}]
    /\ \A row \in PgRows :
          \/ owner'[row] = owner[row]
          \/ owner[row] \in {c, Nobody} /\ owner'[row] \in {c, Nobody}
    /\ Named(x)
    /\ \A row \in PgRows : owner'[row] = c => MayHold(x, row)
    /\ \A a \in x.changes : owner'[a] = c
    /\ ReadExpected(x) => /\ x.todo # <<>> /\ owner'[x.todo[1]] = c
                          /\ rowVersion'[x.todo[1]] = x.expected

(* It keeps the invariant, of the other transactions too.                  *)
LEMMA TxGoesOn ==
    ASSUME PgInv, NEW c \in Connections, NEW x \in TxStates, TxGoes(c, x)
    PROVE  PgInv'
<1>1. /\ tx' \in [Connections -> TxStates] /\ tx'[c] = x
      /\ \A d \in Connections : d # c => tx'[d] = tx[d]
  BY DEF TxGoes, PgInv, PgShape
<1>2. PgShape' /\ (pgRevision = mutated /\ ~clobbered)'
  BY <1>1 DEF TxGoes, PgShape
<1>3. ASSUME NEW d \in Connections, NEW y \in TxStates, y = tx'[d]
      PROVE  /\ Named(y)
             /\ \A row \in PgRows : owner'[row] = d => MayHold(y, row)
             /\ \A a \in y.changes : owner'[a] = d
             /\ ReadExpected(y) => /\ y.todo # <<>> /\ owner'[y.todo[1]] = d
                                   /\ rowVersion'[y.todo[1]] = y.expected
  <2>1. CASE d = c
    BY <1>1, <1>3, <2>1 DEF TxGoes
  <2>2. CASE d # c
    <3>1. y = tx[d] /\ d # Nobody
      BY <1>1, <1>3, <2>2, PgAssumption
    <3>2. \A row \in PgRows : owner'[row] = d <=> owner[row] = d
      BY <2>2, <3>1 DEF TxGoes
    <3>3. /\ Named(y)
          /\ \A row \in PgRows : owner[row] = d => MayHold(y, row)
          /\ \A a \in y.changes : owner[a] = d
          /\ ReadExpected(y) => /\ y.todo # <<>> /\ owner[y.todo[1]] = d
                                /\ rowVersion[y.todo[1]] = y.expected
      BY <3>1 DEF PgInv, TxTold
    <3>4. y.changes \subseteq PgRows /\ PgAddons \subseteq PgRows
      BY DEF TxStates, PgRows
    <3>5. y.todo # <<>> => y.todo[1] \in PgAddons
      BY DEF TxStates
    <3>6. y.todo # <<>> /\ owner[y.todo[1]] = d => rowVersion'[y.todo[1]] = rowVersion[y.todo[1]]
      BY <2>2, <3>5 DEF TxGoes
    <3> QED
      BY <3>2, <3>3, <3>4, <3>5, <3>6
  <2> QED
    BY <2>1, <2>2
<1>4. TxTold'
  BY <1>1, <1>3 DEF TxTold
<1> QED
  BY <1>2, <1>4 DEF PgInv

(* A transaction that is over has nothing locked and changes nothing.      *)
LEMMA TxEnds ==
    ASSUME PgInv, NEW c \in Connections, TxOver(c),
           rowVersion' \in [PgAddons -> Nat],
           \A a \in PgAddons : rowVersion'[a] = rowVersion[a] \/ owner[a] = c,
           pgRevision' \in Nat, pgRevision' = mutated', ~clobbered'
    PROVE  PgInv'
<1>1. NoTx \in TxStates /\ Named(NoTx) /\ NoTx.changes = {} /\ ~ReadExpected(NoTx)
  BY DEF NoTx, TxStates, Named, ReadExpected
<1>2. owner' \in [PgRows -> Connections \cup {Nobody}] /\ c # Nobody
  BY PgAssumption DEF TxOver, LocksLeft, PgInv, PgShape
<1>3. \A row \in PgRows : owner'[row] = IF owner[row] = c THEN Nobody ELSE owner[row]
  BY DEF TxOver, LocksLeft
<1>4. TxGoes(c, NoTx)
  BY <1>1, <1>2, <1>3 DEF TxGoes, TxOver
<1> QED
  BY <1>1, <1>4, TxGoesOn

(* A rollback leaves the committed rows as they are.                       *)
LEMMA TxRollsBack ==
    ASSUME PgInv, NEW c \in Connections, RollsBack(c)
    PROVE  PgInv'
BY TxEnds DEF RollsBack, PgInv, PgShape

(* A transaction that begins.                                              *)
LEMMA TxBegins ==
    ASSUME PgInv, NEW c \in Connections, NEW op \in {"save", "remove", "reorder", "bump"},
           NEW at \in {"select", "delete", "update", "bump"}, NEW todo \in Seq(PgAddons),
           NEW expected \in {NoVersion} \cup Nat, BeginTx(c, op, at, todo, expected),
           at # "bump" => todo # <<>>, at = "update" => op = "reorder",
           at # "select" => expected = NoVersion
    PROVE  PgInv'
<1>0. PICK n \in TxStates : /\ n = NoTx /\ n.seen = 0 /\ n.changes = {}
  <2>1. NoTx \in TxStates /\ NoTx.seen = 0 /\ NoTx.changes = {}
    BY DEF NoTx, TxStates
  <2> QED
    BY <2>1
<1> DEFINE x == [n EXCEPT !.op = op, !.at = at, !.todo = todo, !.expected = expected]
<1>1. /\ x \in TxStates /\ x.at = at /\ x.op = op /\ x.todo = todo /\ x.seen = 0
      /\ x.changes = {} /\ x.expected = expected
  BY <1>0 DEF TxStates
<1>2. tx' = [tx EXCEPT ![c] = x]
  BY <1>0 DEF BeginTx
<1> HIDE DEF x
<1>3. Named(x) /\ ~ReadExpected(x)
  BY <1>1 DEF Named, ReadExpected
<1>4. tx[c].at = "over" /\ UNCHANGED <<rowVersion, pgRevision, owner, mutated, clobbered>>
  BY DEF BeginTx
<1>5. \A row \in PgRows : owner[row] # c
  BY <1>4 DEF PgInv, TxTold, MayHold
<1>6. TxGoes(c, x)
  BY <1>1, <1>2, <1>3, <1>4, <1>5 DEF TxGoes, PgInv, PgShape
<1> QED
  BY <1>1, <1>6, TxGoesOn

(* Every statement keeps the invariant.                                    *)
LEMMA PgStepKeeps ==
    ASSUME PgInv, [PgNext]_pgVars
    PROVE  PgInv'
<1>1. CASE UNCHANGED pgVars
  BY <1>1 DEF pgVars, PgInv, PgShape, TxTold
<1>2. ASSUME NEW c \in Connections, NEW a \in PgAddons, NEW e \in {NoVersion} \cup 1..MaxCommits,
             BeginSave(c, a, e)
      PROVE  PgInv'
  <2>1. e \in {NoVersion} \cup Nat /\ <<a>> \in Seq(PgAddons) /\ <<a>> # <<>>
    BY PgAssumption
  <2> QED
    BY <1>2, <2>1, TxBegins DEF BeginSave
<1>3. ASSUME NEW c \in Connections, NEW a \in PgAddons, BeginRemove(c, a)
      PROVE  PgInv'
  <2>1. <<a>> \in Seq(PgAddons) /\ <<a>> # <<>>
    OBVIOUS
  <2> QED
    BY <1>3, <2>1, TxBegins DEF BeginRemove
<1>4. ASSUME NEW c \in Connections, NEW o \in Orders, BeginReorder(c, o)
      PROVE  PgInv'
  <2>1. Cardinality(PgAddons) \in Nat /\ Cardinality(PgAddons) # 0
    BY PgAssumption, FS_CardinalityType, FS_EmptySet
  <2>2. o \in [1..Cardinality(PgAddons) -> PgAddons]
    BY DEF Orders
  <2>3. o \in Seq(PgAddons) /\ Len(o) = Cardinality(PgAddons)
    BY <2>1, <2>2
  <2>4. o # <<>>
    BY <2>1, <2>3
  <2> QED
    BY <1>4, <2>3, <2>4, TxBegins DEF BeginReorder
<1>5. ASSUME NEW c \in Connections, BeginBump(c)
      PROVE  PgInv'
  <2>1. <<>> \in Seq(PgAddons)
    OBVIOUS
  <2> QED
    BY <1>5, <2>1, TxBegins DEF BeginBump
<1>6. ASSUME NEW c \in Connections, SelectForUpdate(c)
      PROVE  PgInv'
  <2>1. PICK y \in TxStates : y = tx[c]
    BY DEF PgInv, PgShape
  <2>2. y.at = "select" /\ y.todo # <<>> /\ y.changes = {}
    BY <1>6, <2>1 DEF SelectForUpdate, PgInv, TxTold, Named, MayHold, TxStates, PgRows
  <2>3. CASE RollsBack(c)
    BY <2>3, TxRollsBack
  <2>4. CASE ~RollsBack(c)
    <3>1. PICK a \in PgAddons : a = y.todo[1]
      BY <2>2 DEF TxStates
    <3>2. PICK v \in Nat : v = rowVersion[a]
      BY DEF PgInv, PgShape
    <3> DEFINE x == [y EXCEPT !.at = "upsert", !.seen = v]
    <3>3. /\ x \in TxStates /\ x.at = "upsert" /\ x.seen = v /\ x.todo = y.todo
          /\ x.changes = y.changes /\ x.expected = y.expected
      BY DEF TxStates
    <3>a. tx' = [tx EXCEPT ![c].at = "upsert", ![c].seen = v]
      BY <1>6, <2>1, <2>4, <3>1, <3>2 DEF SelectForUpdate
    <3>4. tx' = [tx EXCEPT ![c] = x]
      BY <2>1, <3>a DEF PgInv, PgShape
    <3> HIDE DEF x
    <3>5. /\ UNCHANGED <<rowVersion, pgRevision, mutated, clobbered>>
          /\ IF v > 0 THEN owner' = [owner EXCEPT ![a] = c] ELSE owner' = owner
          /\ v > 0 => owner[a] \in {Nobody, c}
          /\ ~(y.expected # NoVersion /\ v > 0 /\ v # y.expected)
      BY <1>6, <2>1, <2>4, <3>1, <3>2 DEF SelectForUpdate, Locks, Free
    <3>6. \A row \in PgRows : owner[row] # c
      BY <2>1, <2>2 DEF PgInv, TxTold, MayHold
    <3>7. a \in PgRows /\ owner' \in [PgRows -> Connections \cup {Nobody}]
      BY <3>5 DEF PgInv, PgShape, PgRows
    <3>8. \A row \in PgRows : owner'[row] = c => MayHold(x, row)
      BY <3>1, <3>3, <3>5, <3>6 DEF MayHold, PgInv, PgShape
    <3>9. v > 0 => owner'[a] = c
      BY <3>5, <3>7 DEF PgInv, PgShape
    <3>10. \A row \in PgRows :
              \/ owner'[row] = owner[row]
              \/ owner[row] \in {c, Nobody} /\ owner'[row] \in {c, Nobody}
      BY <3>5, <3>7 DEF PgInv, PgShape
    <3>11. Named(x)
      BY <2>2, <3>3 DEF Named
    <3>12. ReadExpected(x) => /\ x.todo # <<>> /\ owner'[x.todo[1]] = c
                              /\ rowVersion'[x.todo[1]] = x.expected
      BY <2>2, <3>1, <3>2, <3>3, <3>5, <3>9 DEF ReadExpected
    <3>13. TxGoes(c, x)
      BY <2>2, <3>3, <3>4, <3>5, <3>7, <3>8, <3>10, <3>11, <3>12 DEF TxGoes, PgInv, PgShape
    <3> QED
      BY <3>3, <3>13, TxGoesOn
  <2> QED
    BY <2>3, <2>4
<1>7. ASSUME NEW c \in Connections, Upsert(c) \/ Delete(c)
      PROVE  PgInv'
  <2>1. PICK y \in TxStates : y = tx[c]
    BY DEF PgInv, PgShape
  <2>2. y.at \in {"upsert", "delete"} /\ y.todo # <<>>
    BY <1>7, <2>1 DEF Upsert, Delete, PgInv, TxTold, Named
  <2>3. PICK a \in PgAddons : a = y.todo[1]
    BY <2>2 DEF TxStates
  <2>4. CASE TxOver(c)
    <3>1. UNCHANGED <<rowVersion, pgRevision, mutated, clobbered>>
      BY <1>7 DEF Upsert, Delete
    <3> QED
      BY <2>4, <3>1, TxEnds DEF PgInv, PgShape
  <2>5. CASE ~TxOver(c)
    <3> DEFINE x == [y EXCEPT !.at = "bump", !.changes = {a}]
    <3>1. /\ x \in TxStates /\ x.at = "bump" /\ x.seen = y.seen /\ x.todo = y.todo
          /\ x.changes = {a} /\ x.expected = y.expected
      BY DEF TxStates
    <3>2. tx' = [tx EXCEPT ![c] = x]
      BY <1>7, <2>1, <2>3, <2>5 DEF Upsert, Delete, PgInv, PgShape
    <3> HIDE DEF x
    <3>3. owner[a] \in {Nobody, c} \/ rowVersion[a] = 0
      BY <1>7, <2>1, <2>3, <2>5 DEF Upsert, Delete, Free, PgInv, PgShape
    <3>4. owner' = [owner EXCEPT ![a] = c] /\ owner[a] \in {Nobody, c}
      BY <1>7, <2>1, <2>3, <2>5 DEF Upsert, Delete, Free, Locks, PgInv, PgShape
    <3>5. UNCHANGED <<rowVersion, pgRevision, mutated, clobbered>>
      BY <1>7 DEF Upsert, Delete
    <3>6. a \in PgRows /\ owner' \in [PgRows -> Connections \cup {Nobody}] /\ owner'[a] = c
      BY <3>4 DEF PgInv, PgShape, PgRows
    <3>7. \A row \in PgRows : owner[row] = c => row = a
      BY <2>1, <2>2, <2>3 DEF PgInv, TxTold, MayHold
    <3>8. \A row \in PgRows :
              \/ owner'[row] = owner[row]
              \/ owner[row] \in {c, Nobody} /\ owner'[row] \in {c, Nobody}
      BY <3>4, <3>6 DEF PgInv, PgShape
    <3>9. \A row \in PgRows : owner'[row] = c => MayHold(x, row)
      BY <3>1, <3>4, <3>7 DEF MayHold, PgInv, PgShape
    <3>10. Named(x)
      BY <3>1 DEF Named
    <3>11. ReadExpected(x) => rowVersion'[a] = x.expected
      <4>1. ASSUME ReadExpected(x), y.at = "upsert" PROVE ReadExpected(y)
        BY <3>1, <4>1 DEF ReadExpected
      <4>2. ReadExpected(y) => rowVersion[a] = y.expected
        BY <2>1, <2>3 DEF PgInv, TxTold
      <4>3. y.at = "delete" => ~ReadExpected(x)
        BY <3>1, <2>1 DEF ReadExpected, PgInv, TxTold, Named
      <4> QED
        BY <2>2, <3>1, <3>5, <4>1, <4>2, <4>3
    <3>12. TxGoes(c, x)
      BY <2>2, <2>3, <3>1, <3>2, <3>5, <3>6, <3>8, <3>9, <3>10, <3>11 DEF TxGoes, PgInv, PgShape
    <3> QED
      BY <3>1, <3>12, TxGoesOn
  <2> QED
    BY <2>4, <2>5
<1>8. ASSUME NEW c \in Connections, UpdateOrder(c)
      PROVE  PgInv'
  <2>1. PICK y \in TxStates : y = tx[c]
    BY DEF PgInv, PgShape
  <2>2. y.at = "update" /\ y.op = "reorder" /\ y.todo # <<>>
    BY <1>8, <2>1 DEF UpdateOrder, PgInv, TxTold, Named
  <2>3. PICK a \in PgAddons : a = Head(y.todo)
    BY <2>2 DEF TxStates
  <2>z. y.todo \in Seq(PgAddons) /\ Len(y.todo) \in Nat /\ Len(y.todo) # 0
    BY <2>2 DEF TxStates
  <2>4. PICK rest \in Seq(PgAddons) : rest = Tail(y.todo)
    <3>1. Tail(y.todo) \in Seq(PgAddons)
      BY <2>2, <2>z
    <3> QED
      BY <3>1
  <2>5. PICK next \in {"bump", "update"} : next = IF Len(y.todo) = 1 THEN "bump" ELSE "update"
    OBVIOUS
  <2>6. next = "update" => rest # <<>>
    <3>1. Len(Tail(y.todo)) = Len(y.todo) - 1
      BY <2>2, <2>z
    <3>2. next = "update" => Len(rest) # 0
      BY <2>z, <2>4, <2>5, <3>1
    <3> QED
      BY <3>2
  <2> DEFINE x == [y EXCEPT !.todo = rest, !.at = next]
  <2>7. /\ x \in TxStates /\ x.at = next /\ x.op = "reorder" /\ x.seen = y.seen /\ x.todo = rest
        /\ x.changes = y.changes /\ x.expected = y.expected
    BY <2>2 DEF TxStates
  <2>8. tx' = [tx EXCEPT ![c] = x]
    BY <1>8, <2>1, <2>4, <2>5 DEF UpdateOrder, PgInv, PgShape
  <2> HIDE DEF x
  <2>9. /\ \/ owner' = owner
           \/ owner' = [owner EXCEPT ![a] = c] /\ owner[a] \in {Nobody, c}
        /\ UNCHANGED <<rowVersion, pgRevision, mutated, clobbered>>
    BY <1>8, <2>1, <2>3 DEF UpdateOrder, Locks, Free
  <2>10. a \in PgRows /\ owner' \in [PgRows -> Connections \cup {Nobody}]
    BY <2>9 DEF PgInv, PgShape, PgRows
  <2>11. \A row \in PgRows :
            \/ owner'[row] = owner[row]
            \/ owner[row] \in {c, Nobody} /\ owner'[row] \in {c, Nobody}
    BY <2>9, <2>10 DEF PgInv, PgShape
  <2>12. \A row \in PgRows : owner[row] = c => row \in PgAddons
    BY <2>1, <2>2 DEF PgInv, TxTold, MayHold
  <2>13. \A row \in PgRows : owner'[row] = c => MayHold(x, row)
    BY <2>7, <2>9, <2>10, <2>12 DEF MayHold, PgInv, PgShape
  <2>14. \A b \in x.changes : owner'[b] = c
    <3>1. \A b \in y.changes : owner[b] = c /\ b \in PgRows
      BY <2>1 DEF PgInv, TxTold, TxStates, PgRows
    <3> QED
      BY <2>7, <2>9, <3>1 DEF PgInv, PgShape
  <2>15. Named(x)
    <3>1. y.expected = NoVersion
      BY <2>1, <2>2 DEF PgInv, TxTold, Named
    <3>2. x.at = "bump" \/ x.at = "update"
      BY <2>7
    <3> QED
      BY <2>6, <2>7, <3>1, <3>2 DEF Named
  <2>16. ~ReadExpected(x)
    BY <2>1, <2>2, <2>7 DEF ReadExpected, PgInv, TxTold, Named
  <2>17. TxGoes(c, x)
    BY <2>8, <2>9, <2>10, <2>11, <2>13, <2>14, <2>15, <2>16 DEF TxGoes, PgInv, PgShape
  <2> QED
    BY <2>7, <2>17, TxGoesOn
<1>9. ASSUME NEW c \in Connections, BumpMeta(c)
      PROVE  PgInv'
  <2>1. PICK y \in TxStates : y = tx[c]
    BY DEF PgInv, PgShape
  <2> DEFINE x == [y EXCEPT !.at = "commit", !.bumps = TRUE]
  <2>2. /\ x \in TxStates /\ x.at = "commit" /\ x.seen = y.seen /\ x.todo = y.todo
        /\ x.changes = y.changes /\ x.expected = y.expected
    BY DEF TxStates
  <2>3. tx' = [tx EXCEPT ![c] = x]
    BY <1>9, <2>1 DEF BumpMeta, PgInv, PgShape
  <2> HIDE DEF x
  <2>4. /\ y.at = "bump" /\ owner[MetaRow] \in {Nobody, c} /\ owner' = [owner EXCEPT ![MetaRow] = c]
        /\ UNCHANGED <<rowVersion, pgRevision, mutated, clobbered>>
    BY <1>9, <2>1 DEF BumpMeta, Free, Locks
  <2>5. MetaRow \in PgRows /\ PgAddons \subseteq PgRows /\ MetaRow \notin PgAddons
    BY PgAssumption DEF PgRows
  <2>6. owner' \in [PgRows -> Connections \cup {Nobody}]
    BY <2>4 DEF PgInv, PgShape
  <2>7. \A row \in PgRows :
            \/ owner'[row] = owner[row]
            \/ owner[row] \in {c, Nobody} /\ owner'[row] \in {c, Nobody}
    BY <2>4, <2>5 DEF PgInv, PgShape
  <2>8. \A a \in PgAddons : owner'[a] = owner[a]
    BY <2>4, <2>5 DEF PgInv, PgShape
  <2>9. x.changes \subseteq PgAddons /\ (x.todo # <<>> => x.todo[1] \in PgAddons)
    BY <2>2 DEF TxStates
  <2>10. ReadExpected(x) => ReadExpected(y)
    BY <2>2, <2>4 DEF ReadExpected
  <2>11. /\ \A a \in y.changes : owner[a] = c
         /\ ReadExpected(y) => /\ y.todo # <<>> /\ owner[y.todo[1]] = c
                               /\ rowVersion[y.todo[1]] = y.expected
    BY <2>1 DEF PgInv, TxTold
  <2>12. Named(x) /\ \A row \in PgRows : MayHold(x, row)
    BY <2>2 DEF Named, MayHold
  <2>13. /\ \A a \in x.changes : owner'[a] = c
         /\ ReadExpected(x) => /\ x.todo # <<>> /\ owner'[x.todo[1]] = c
                               /\ rowVersion'[x.todo[1]] = x.expected
    BY <2>2, <2>4, <2>8, <2>9, <2>10, <2>11
  <2>14. TxGoes(c, x)
    BY <2>3, <2>4, <2>6, <2>7, <2>12, <2>13 DEF TxGoes, PgInv, PgShape
  <2> QED
    BY <2>2, <2>14, TxGoesOn
<1>10. ASSUME NEW c \in Connections, CommitTx(c)
       PROVE  PgInv'
  <2>1. PICK y \in TxStates : y = tx[c]
    BY DEF PgInv, PgShape
  <2>2. /\ y.at = "commit" /\ TxOver(c) /\ rowVersion' = CommittedBy(c)
        /\ pgRevision' = pgRevision + 1 /\ mutated' = mutated + 1
    BY <1>10, <2>1 DEF CommitTx
  <2>3. ~clobbered'
    <3>1. ReadExpected(y) <=> y.expected # NoVersion /\ y.seen > 0
      BY <2>2 DEF ReadExpected
    <3>2. ReadExpected(y) => rowVersion[y.todo[1]] = y.expected
      BY <2>1 DEF PgInv, TxTold
    <3>3. ~(y.expected # NoVersion /\ y.seen > 0 /\ rowVersion[y.todo[1]] # y.expected)
      BY <3>1, <3>2
    <3> QED
      BY <1>10, <2>1, <3>3 DEF CommitTx, PgInv
  <2>4. \A a \in PgAddons : a \notin y.changes => rowVersion'[a] = rowVersion[a]
    BY <2>1, <2>2 DEF CommittedBy
  <2>5. \A a \in y.changes : owner[a] = c
    BY <2>1 DEF PgInv, TxTold
  <2>6. rowVersion' \in [PgAddons -> Nat]
    <3>1. \A a \in PgAddons : rowVersion[a] \in Nat
      BY DEF PgInv, PgShape
    <3>2. y.seen + 1 \in Nat
      BY DEF TxStates
    <3> QED
      BY <2>1, <2>2, <3>1, <3>2 DEF CommittedBy
  <2>7. pgRevision' \in Nat /\ pgRevision' = mutated'
    BY <2>2 DEF PgInv, PgShape
  <2> QED
    BY <2>2, <2>3, <2>4, <2>5, <2>6, <2>7, TxEnds
<1>11. ASSUME NEW c \in Connections, DeadlockVictim(c) \/ TxFails(c)
       PROVE  PgInv'
  BY <1>11, TxRollsBack DEF DeadlockVictim, TxFails
<1> QED
  BY <1>1, <1>2, <1>3, <1>4, <1>5, <1>6, <1>7, <1>8, <1>9, <1>10, <1>11 DEF PgNext

(* A ring of waiting transactions is one of reorders: the others have      *)
(* nothing locked when they wait for an addon, and whoever has the         *)
(* revision waits for nobody.                                              *)
LEMMA RingsAreReorders ==
    ASSUME PgInv, NEW c \in Connections, InRing(c)
    PROVE  tx[c].op = "reorder"
<1>1. PICK loop \in SUBSET Connections :
          c \in loop /\ \A d \in loop : /\ WaitsFor(d) \cap loop # {}
                                        /\ \E f \in loop : d \in WaitsFor(f)
  BY DEF InRing
<1>2. ASSUME NEW d \in loop
      PROVE  /\ WantedRow(d) # {} /\ WantedRow(d) \subseteq PgRows
             /\ \E row \in WantedRow(d) : owner[row] # d
             /\ \E row \in PgRows : owner[row] = d
  <2>1. PICK e \in loop : e \in WaitsFor(d)
    BY <1>1, <1>2
  <2>2. PICK f \in loop : d \in WaitsFor(f)
    BY <1>1, <1>2
  <2>3. ASSUME NEW g \in loop PROVE WantedRow(g) \subseteq PgRows
    <3>1. PICK y \in TxStates : y = tx[g]
      BY <1>1 DEF PgInv, PgShape
    <3>2. Named(y) /\ (y.todo # <<>> => y.todo[1] \in PgRows) /\ MetaRow \in PgRows
      BY <1>1, <3>1 DEF PgInv, TxTold, TxStates, PgRows
    <3>3. CASE y.at \in {"select", "delete", "update", "upsert"}
      <4>1. y.todo[1] \in PgRows
        BY <3>2, <3>3 DEF Named
      <4>2. WantedRow(g) \subseteq {y.todo[1]}
        BY <3>1, <3>3 DEF WantedRow
      <4> QED
        BY <4>1, <4>2
    <3>4. CASE y.at \in {"bump", "over", "commit"}
      BY <3>1, <3>2, <3>4 DEF WantedRow
    <3> QED
      BY <3>3, <3>4 DEF TxStates
  <2> QED
    BY <1>1, <1>2, <2>1, <2>2, <2>3 DEF WaitsFor
<1>3. PICK y \in TxStates : y = tx[c]
  BY DEF PgInv, PgShape
<1>4. y.at \in {"select", "delete", "update", "upsert", "bump"}
  BY <1>1, <1>2, <1>3 DEF WantedRow
<1>5. \A row \in PgRows : owner[row] = c => MayHold(y, row)
  BY <1>3 DEF PgInv, TxTold
<1>6. y.at \notin {"select", "delete"}
  BY <1>1, <1>2, <1>5 DEF MayHold
<1>7. y.at # "upsert"
  <2>1. SUFFICES ASSUME y.at = "upsert" PROVE FALSE
    OBVIOUS
  <2>2. WantedRow(c) = {y.todo[1]}
    BY <1>3, <2>1 DEF WantedRow
  <2>3. \A row \in PgRows : owner[row] = c => row = y.todo[1]
    BY <1>5, <2>1 DEF MayHold
  <2>4. owner[y.todo[1]] # c
    BY <1>1, <1>2, <2>2
  <2> QED
    BY <1>1, <1>2, <2>3, <2>4
<1>8. y.at # "bump"
  <2>1. SUFFICES ASSUME y.at = "bump" PROVE FALSE
    OBVIOUS
  <2>2. WantedRow(c) = {MetaRow}
    BY <1>3, <2>1 DEF WantedRow
  <2>3. PICK d \in loop : d = owner[MetaRow]
    BY <1>1, <2>2 DEF WaitsFor
  <2>4. MetaRow \in PgRows /\ MetaRow \notin PgAddons
    BY PgAssumption DEF PgRows
  <2>5. MayHold(tx[d], MetaRow) /\ Named(tx[d])
    BY <2>3, <2>4 DEF PgInv, TxTold
  <2>6. tx[d].todo # <<>> => tx[d].todo[1] \in PgAddons
    BY <2>3 DEF PgInv, PgShape, TxStates
  <2>7. tx[d].at = "commit"
    BY <2>4, <2>5, <2>6 DEF MayHold, Named
  <2>8. WantedRow(d) = {}
    BY <2>7 DEF WantedRow
  <2> QED
    BY <1>2, <2>3, <2>8
<1> QED
  BY <1>3, <1>4, <1>6, <1>7, <1>8 DEF PgInv, TxTold, Named

(* The invariant of the transactions holds.                                *)
LEMMA PgIsSound == PgSpec => []PgInv
<1>1. PgInit => PgInv
  <2> SUFFICES ASSUME PgInit PROVE PgInv
    OBVIOUS
  <2>1. /\ NoTx \in TxStates /\ Named(NoTx) /\ NoTx.changes = {} /\ ~ReadExpected(NoTx)
    BY DEF NoTx, TxStates, Named, ReadExpected
  <2>2. \A c \in Connections : \A row \in PgRows : owner[row] # c
    BY PgAssumption DEF PgInit
  <2> QED
    BY <2>1, <2>2 DEF PgInit, PgInv, PgShape, TxTold
<1> QED
  BY <1>1, PgStepKeeps, PTL DEF PgSpec

(* PostgresStore: the revision counts the changes that were committed, no  *)
(* save overwrites a version it did not expect, and only reorders can wait *)
(* for each other in a ring, for any number of connections and addons.     *)
THEOREM PgKeepsItsWord == PgSpec => []PgSound
<1>1. PgInv => PgSound
  BY RingsAreReorders DEF PgInv, PgSound
<1> QED
  BY <1>1, PgIsSound, PTL
----------------------------------------------------------------------------
(* The migrations.                                                         *)

(* A set of numbers that is not empty has a least one.                     *)
LEMMA LeastIs ==
    ASSUME NEW S \in SUBSET Nat, S # {}
    PROVE  Least(S) \in S /\ \A w \in S : Least(S) <= w
<1>1. PICK k \in S : TRUE
  OBVIOUS
<1>2. PICK T \in SUBSET (1..k + 1) : T = {j \in 1..k + 1 : k + 1 - j \in S}
  OBVIOUS
<1>3. k \in Nat /\ 1 \in T /\ k + 1 \in Nat
  BY <1>1, <1>2
<1>4. PICK m \in T : \A j \in T : j <= m
  BY <1>3, Largest
<1>5. k + 1 - m \in S /\ m \in 1..k + 1
  BY <1>2, <1>4
<1>6. ASSUME NEW w \in S PROVE k + 1 - m <= w
  <2>1. CASE w > k
    BY <1>3, <1>5, <2>1
  <2>2. CASE w <= k
    <3>1. k + 1 - w \in 1..k + 1 /\ k + 1 - (k + 1 - w) = w
      BY <1>3, <2>2
    <3>2. k + 1 - w \in T
      BY <1>2, <3>1
    <3> QED
      BY <1>3, <1>4, <1>5, <3>1, <3>2
  <2> QED
    BY <1>3, <2>1, <2>2
<1> QED
  BY <1>5, <1>6 DEF Least

BootStates == [step : {"down", "waiting", "locked", "migrating", "migrated", "serving"},
               saw : SUBSET Versions, at : Nat, next : Nat]

BootShape ==
    /\ ran \in [Versions -> 0..Statements] /\ recorded \in [Versions -> Nat]
    /\ boot \in [Starters -> BootStates]

RowsRecorded == \A v \in Versions :
    /\ recorded[v] <= 1
    /\ recorded[v] = 1 => ran[v] = Statements
    /\ ran[v] > 0 => \A w \in Versions : w < v => recorded[w] = 1

(* Where a replica stands: the one that migrates has recorded exactly the  *)
(* versions before the one it is at, however many it saw at first.         *)
Stands(b, rows, done, meta) ==
    /\ b.step \in {"down", "waiting", "locked"} => b.next = 1
    /\ b.step = "migrating" =>
          /\ b.at \in Versions /\ b.next \in 1..Statements + 1 /\ done[b.at] >= b.next - 1
          /\ \A v \in Versions : rows[v] = 1 <=> v < b.at
          /\ \A v \in b.saw : rows[v] = 1
    /\ b.step \in {"migrated", "serving"} => \A v \in Versions : rows[v] = 1
    /\ b.step = "serving" => meta

BootInv ==
    /\ BootShape /\ RowsRecorded
    /\ \A s, t \in LockHolders : s = t
    /\ \A s \in Starters : Stands(boot[s], recorded, ran, hasMeta)

(* A replica goes on as b; the schema changes only under the lock.         *)
BootGoes(s, b) ==
    /\ boot' = [boot EXCEPT ![s] = b]
    /\ (BootShape /\ RowsRecorded)'
    /\ \A v \in Versions : recorded[v] = 1 => recorded'[v] = 1
    /\ hasMeta => hasMeta'
    /\ s \in LockHolders \/ UNCHANGED <<ran, recorded>>
    /\ b.step \in {"locked", "migrating"} => s \in LockHolders \/ LockHolders = {}
    /\ Stands(b, recorded', ran', hasMeta')

(* It keeps the invariant.                                                 *)
LEMMA BootGoesOn ==
    ASSUME BootInv, NEW s \in Starters, NEW b \in BootStates, BootGoes(s, b)
    PROVE  BootInv'
<1>1. /\ boot' \in [Starters -> BootStates] /\ boot'[s] = b
      /\ \A t \in Starters : t # s => boot'[t] = boot[t]
  BY DEF BootGoes, BootInv, BootShape
<1>2. \A t \in Starters : t # s => (t \in LockHolders' <=> t \in LockHolders)
  BY <1>1 DEF LockHolders
<1>3. s \in LockHolders' => s \in LockHolders \/ LockHolders = {}
  BY <1>1 DEF BootGoes, LockHolders
<1>4. \A t, u \in LockHolders' : t = u
  <2>1. LockHolders' \subseteq Starters /\ \A t, u \in LockHolders : t = u
    BY DEF LockHolders, BootInv
  <2> QED
    BY <1>2, <1>3, <2>1
<1>5. ASSUME NEW t \in Starters, NEW y \in BootStates, y = boot'[t]
      PROVE  Stands(y, recorded', ran', hasMeta')
  <2>1. CASE t = s
    BY <1>1, <1>5, <2>1 DEF BootGoes
  <2>2. CASE t # s
    <3>1. y = boot[t] /\ Stands(y, recorded, ran, hasMeta)
      BY <1>1, <1>5, <2>2 DEF BootInv
    <3>2. y.step \in {"locked", "migrating"} => UNCHANGED <<ran, recorded>>
      <4>1. y.step \in {"locked", "migrating"} => t \in LockHolders
        BY <3>1 DEF LockHolders
      <4> QED
        BY <2>2, <4>1 DEF BootGoes, BootInv
    <3>3. /\ \A v \in Versions : recorded[v] = 1 => recorded'[v] = 1
          /\ hasMeta => hasMeta'
      BY DEF BootGoes
    <3> QED
      BY <3>1, <3>2, <3>3 DEF Stands
  <2> QED
    BY <2>1, <2>2
<1> QED
  BY <1>1, <1>4, <1>5 DEF BootGoes, BootInv

(* Every step of init() keeps the invariant.                               *)
LEMMA BootStepKeeps ==
    ASSUME BootInv, [BootNext]_bootVars
    PROVE  BootInv'
<1>1. CASE UNCHANGED bootVars
  BY <1>1 DEF bootVars, BootInv, BootShape, RowsRecorded, LockHolders
<1>2. ASSUME NEW s \in Starters, Start(s) \/ AdvisoryLock(s) PROVE BootInv'
  <2>1. PICK y \in BootStates : y = boot[s]
    BY DEF BootInv, BootShape
  <2>2. PICK step \in {"waiting", "locked"} : boot' = [boot EXCEPT ![s].step = step]
                                             /\ (step = "locked" => LockHolders = {})
    BY <1>2 DEF Start, AdvisoryLock
  <2>3. y.step \in {"down", "waiting"} /\ UNCHANGED <<ran, recorded, hasMeta>> /\ y.next = 1
    BY <1>2, <2>1 DEF Start, AdvisoryLock, BootInv, Stands
  <2> DEFINE b == [y EXCEPT !.step = step]
  <2>4. b \in BootStates /\ b.step = step /\ b.next = y.next
    BY DEF BootStates
  <2>5. boot' = [boot EXCEPT ![s] = b]
    BY <2>1, <2>2 DEF BootInv, BootShape
  <2> HIDE DEF b
  <2>6. Stands(b, recorded', ran', hasMeta')
    BY <2>3, <2>4 DEF Stands
  <2>7. (BootShape /\ RowsRecorded)'
    BY <2>3, <2>4, <2>5 DEF BootInv, BootShape, RowsRecorded
  <2>8. BootGoes(s, b)
    BY <2>2, <2>3, <2>4, <2>5, <2>6, <2>7 DEF BootGoes
  <2> QED
    BY <2>4, <2>8, BootGoesOn
<1>3. ASSUME NEW s \in Starters, BootDies(s) \/ InitMeta(s) PROVE BootInv'
  <2>1. PICK y \in BootStates : y = boot[s]
    BY DEF BootInv, BootShape
  <2>2. PICK b \in BootStates :
            /\ boot' = [boot EXCEPT ![s] = b]
            /\ b.next = 1 /\ b.step \in {"down", "serving"}
            /\ b.step = "serving" => InitMeta(s)
    <3>1. /\ NotStarted \in BootStates /\ NotStarted.next = 1 /\ NotStarted.step = "down"
      BY MigrationAssumption DEF NotStarted, BootStates
    <3>2. /\ [NotStarted EXCEPT !.step = "serving"] \in BootStates
          /\ [NotStarted EXCEPT !.step = "serving"].next = 1
          /\ [NotStarted EXCEPT !.step = "serving"].step = "serving"
      BY MigrationAssumption DEF NotStarted, BootStates
    <3> QED
      BY <1>3, <3>1, <3>2 DEF BootDies, InitMeta
  <2>3. UNCHANGED <<ran, recorded>> /\ (hasMeta => hasMeta')
    BY <1>3 DEF BootDies, InitMeta
  <2>4. Stands(b, recorded', ran', hasMeta')
    <3>1. b.step = "serving" => hasMeta' /\ \A v \in Versions : recorded[v] = 1
      BY <2>2 DEF InitMeta, BootInv, Stands
    <3> QED
      BY <2>2, <2>3, <3>1 DEF Stands
  <2>5. (BootShape /\ RowsRecorded)'
    BY <2>2, <2>3 DEF BootInv, BootShape, RowsRecorded
  <2>6. BootGoes(s, b)
    BY <2>2, <2>3, <2>4, <2>5 DEF BootGoes
  <2> QED
    BY <2>2, <2>6, BootGoesOn
<1>4. ASSUME NEW s \in Starters, ReadApplied(s) PROVE BootInv'
  <2>1. PICK y \in BootStates : y = boot[s]
    BY DEF BootInv, BootShape
  <2>2. PICK step \in {"migrated", "migrating"}, at \in Nat :
            /\ step = IF Versions \subseteq Applied THEN "migrated" ELSE "migrating"
            /\ at = IF Versions \subseteq Applied THEN 0 ELSE Least(Versions \ Applied)
            /\ step = "migrating" => /\ at \in Versions \ Applied
                                     /\ \A w \in Versions \ Applied : at <= w
    <3>1. CASE Versions \subseteq Applied
      BY <3>1
    <3>2. CASE ~(Versions \subseteq Applied)
      <4>1. Versions \ Applied # {} /\ Versions \ Applied \in SUBSET Nat
        BY <3>2, MigrationAssumption
      <4> QED
        BY <3>2, <4>1, LeastIs
    <3> QED
      BY <3>1, <3>2
  <2>3. PICK saw \in SUBSET Versions : saw = Applied
    BY DEF Applied
  <2> DEFINE b == [y EXCEPT !.step = step, !.saw = saw, !.at = at]
  <2>4. b \in BootStates /\ b.step = step /\ b.next = y.next /\ b.at = at /\ b.saw = saw
    BY DEF BootStates
  <2>5. boot' = [boot EXCEPT ![s] = b]
    BY <1>4, <2>1, <2>2, <2>3 DEF ReadApplied, BootInv, BootShape
  <2> HIDE DEF b
  <2>6. /\ y.step = "locked" /\ UNCHANGED <<ran, recorded, hasMeta>> /\ y.next = 1
        /\ s \in LockHolders
    BY <1>4, <2>1 DEF ReadApplied, BootInv, Stands, LockHolders
  <2>7. \A v \in Versions : v \in saw <=> recorded[v] = 1
    BY <2>3 DEF Applied, BootInv, BootShape, RowsRecorded
  <2>8. \A v \in saw : \A w \in Versions : w < v => recorded[w] = 1
    BY <2>7, MigrationAssumption DEF BootInv, BootShape, RowsRecorded
  <2>9. step = "migrating" => \A v \in Versions : recorded[v] = 1 <=> v < at
    BY <2>2, <2>3, <2>7, <2>8, MigrationAssumption
  <2>10. step = "migrated" => \A v \in Versions : recorded[v] = 1
    BY <2>2, <2>3, <2>7
  <2>11. Stands(b, recorded', ran', hasMeta')
    <3>1. step = "migrating" => ran[at] \in Nat /\ at \in Versions /\ 1 \in 1..Statements + 1
      BY <2>2, MigrationAssumption DEF BootInv, BootShape
    <3> QED
      BY <2>4, <2>6, <2>7, <2>9, <2>10, <3>1 DEF Stands
  <2>12. (BootShape /\ RowsRecorded)'
    BY <2>4, <2>5, <2>6 DEF BootInv, BootShape, RowsRecorded
  <2>13. BootGoes(s, b)
    BY <2>5, <2>6, <2>11, <2>12 DEF BootGoes
  <2> QED
    BY <2>4, <2>13, BootGoesOn
<1>5. ASSUME NEW s \in Starters, RunStatement(s) PROVE BootInv'
  <2>1. PICK y \in BootStates : y = boot[s]
    BY DEF BootInv, BootShape
  <2> DEFINE b == [y EXCEPT !.next = y.next + 1]
  <2>2. b \in BootStates /\ b.step = y.step /\ b.next = y.next + 1 /\ b.at = y.at /\ b.saw = y.saw
    BY DEF BootStates
  <2>3. boot' = [boot EXCEPT ![s] = b]
    BY <1>5, <2>1 DEF RunStatement, BootInv, BootShape
  <2> HIDE DEF b
  <2>4. /\ y.step = "migrating" /\ y.next <= Statements /\ UNCHANGED <<recorded, hasMeta>>
        /\ ran' = [ran EXCEPT ![y.at] = IF @ < y.next THEN y.next ELSE @]
        /\ s \in LockHolders /\ Stands(y, recorded, ran, hasMeta)
    BY <1>5, <2>1 DEF RunStatement, BootInv, LockHolders
  <2>5. /\ y.at \in Versions /\ y.at \in Nat /\ y.next \in Nat /\ y.next \in 1..Statements + 1
        /\ ran[y.at] >= y.next - 1
        /\ \A v \in Versions : recorded[v] = 1 <=> v < y.at
        /\ \A v \in y.saw : recorded[v] = 1
    BY <2>4, MigrationAssumption DEF Stands, BootStates
  <2>6. /\ ran' \in [Versions -> 0..Statements] /\ ran'[y.at] >= y.next
        /\ \A v \in Versions : v # y.at => ran'[v] = ran[v]
        /\ ran[y.at] \in 0..Statements /\ Statements \in Nat
    BY <2>4, <2>5, MigrationAssumption DEF BootInv, BootShape
  <2>7. RowsRecorded'
    <3>1. recorded[y.at] # 1
      BY <2>5
    <3> QED
      BY <2>4, <2>5, <2>6, <3>1 DEF BootInv, RowsRecorded
  <2>8. Stands(b, recorded', ran', hasMeta')
    <3>1. b.next \in 1..Statements + 1 /\ ran'[b.at] >= b.next - 1
      BY <2>2, <2>4, <2>5, <2>6
    <3> QED
      BY <2>2, <2>4, <2>5, <3>1 DEF Stands
  <2>9. BootShape'
    BY <2>2, <2>3, <2>4, <2>6 DEF BootInv, BootShape
  <2>10. BootGoes(s, b)
    BY <2>3, <2>4, <2>7, <2>8, <2>9 DEF BootGoes
  <2> QED
    BY <2>2, <2>10, BootGoesOn
<1>6. ASSUME NEW s \in Starters, Record(s) PROVE BootInv'
  <2>1. PICK y \in BootStates : y = boot[s]
    BY DEF BootInv, BootShape
  <2>2. /\ y.step = "migrating" /\ y.next > Statements /\ UNCHANGED <<ran, hasMeta>>
        /\ recorded' = [recorded EXCEPT ![y.at] = @ + 1] /\ Onward(s)
        /\ s \in LockHolders /\ Stands(y, recorded, ran, hasMeta)
    BY <1>6, <2>1 DEF Record, BootInv, LockHolders
  <2>3. /\ y.at \in Versions /\ y.at \in Nat /\ y.next \in 1..Statements + 1
        /\ ran[y.at] >= y.next - 1
        /\ \A v \in Versions : recorded[v] = 1 <=> v < y.at
        /\ \A v \in y.saw : recorded[v] = 1
    BY <2>2, MigrationAssumption DEF Stands
  <2>4. ran[y.at] = Statements
    BY <2>2, <2>3, MigrationAssumption DEF BootInv, BootShape
  <2>5. recorded[y.at] = 0
    BY <2>3, MigrationAssumption DEF BootInv, BootShape, RowsRecorded
  <2>6. /\ recorded' \in [Versions -> Nat] /\ recorded'[y.at] = 1
        /\ \A v \in Versions : v # y.at => recorded'[v] = recorded[v]
    BY <2>2, <2>3, <2>5 DEF BootInv, BootShape
  <2>a. \A v \in Versions : recorded[v] = 1 => recorded'[v] = 1
    BY <2>6
  <2>7. \A v \in Versions : recorded'[v] = 1 <=> v <= y.at
    BY <2>3, <2>6, MigrationAssumption
  <2>8. RowsRecorded'
    BY <2>2, <2>3, <2>4, <2>6 DEF BootInv, RowsRecorded
  <2>9. PICK D \in SUBSET Versions : D = ToDo(s)
    BY DEF ToDo
  <2>10. \A v \in Versions : v \in D <=> v > y.at
    BY <2>1, <2>3, <2>9, MigrationAssumption DEF ToDo
  <2>11. CASE D = {}
    <3> DEFINE b == [y EXCEPT !.step = "migrated"]
    <3>1. b \in BootStates /\ b.step = "migrated"
      BY DEF BootStates
    <3>2. boot' = [boot EXCEPT ![s] = b]
      BY <2>1, <2>2, <2>9, <2>11 DEF Onward, BootInv, BootShape
    <3> HIDE DEF b
    <3>3. \A v \in Versions : recorded'[v] = 1
      BY <2>3, <2>7, <2>10, <2>11, MigrationAssumption
    <3>4. Stands(b, recorded', ran', hasMeta')
      BY <3>1, <3>3 DEF Stands
    <3>5. BootShape'
      BY <2>2, <2>6, <3>1, <3>2 DEF BootInv, BootShape
    <3>6. BootGoes(s, b)
      BY <2>2, <2>a, <2>8, <3>2, <3>4, <3>5 DEF BootGoes
    <3> QED
      BY <3>1, <3>6, BootGoesOn
  <2>12. CASE D # {}
    <3>1. PICK at \in D : at = Least(D) /\ \A w \in D : at <= w
      BY <2>12, LeastIs, MigrationAssumption
    <3>2. at \in Versions /\ at \in Nat /\ at > y.at
      BY <2>10, <3>1, MigrationAssumption
    <3> DEFINE b == [y EXCEPT !.at = at, !.next = 1]
    <3>3. b \in BootStates /\ b.step = "migrating" /\ b.at = at /\ b.next = 1 /\ b.saw = y.saw
      BY <2>2, <3>2 DEF BootStates
    <3>4. boot' = [boot EXCEPT ![s] = b]
      BY <2>1, <2>2, <2>9, <2>12, <3>1 DEF Onward, BootInv, BootShape
    <3> HIDE DEF b
    <3>5. \A v \in Versions : recorded'[v] = 1 <=> v < at
      <4>1. ASSUME NEW v \in Versions PROVE v <= y.at <=> v < at
        BY <2>3, <2>10, <3>1, <3>2, <4>1, MigrationAssumption
      <4> QED
        BY <2>7, <4>1
    <3>6. \A v \in y.saw : recorded'[v] = 1
      BY <2>3, <2>5, <2>6 DEF BootStates
    <3>7. Stands(b, recorded', ran', hasMeta')
      <4>1. ran[at] \in Nat /\ 1 \in 1..Statements + 1
        BY <3>2, MigrationAssumption DEF BootInv, BootShape
      <4> QED
        BY <2>2, <3>2, <3>3, <3>5, <3>6, <4>1 DEF Stands
    <3>8. BootShape'
      BY <2>2, <2>6, <3>3, <3>4 DEF BootInv, BootShape
    <3>9. BootGoes(s, b)
      BY <2>2, <2>a, <2>8, <3>4, <3>7, <3>8 DEF BootGoes
    <3> QED
      BY <3>3, <3>9, BootGoesOn
  <2> QED
    BY <2>11, <2>12
<1> QED
  BY <1>1, <1>2, <1>3, <1>4, <1>5, <1>6 DEF BootNext

(* The invariant of the migrations holds.                                  *)
LEMMA BootIsSound == BootSpec => []BootInv
<1>1. BootInit => BootInv
  <2> SUFFICES ASSUME BootInit PROVE BootInv
    OBVIOUS
  <2>1. /\ NotStarted \in BootStates /\ NotStarted.next = 1 /\ NotStarted.step = "down"
    BY MigrationAssumption DEF NotStarted, BootStates
  <2> QED
    BY <2>1, MigrationAssumption DEF BootInit, BootInv, BootShape, RowsRecorded, LockHolders, Stands
<1> QED
  BY <1>1, BootStepKeeps, PTL DEF BootSpec

(* Migrations: whatever replicas start together and die on the way, every  *)
(* migration is recorded once, in order and after all of its statements,   *)
(* and a replica serves from a whole schema.                               *)
THEOREM SchemaIsWhole == BootSpec => []SchemaWhole
<1>1. BootInv => SchemaWhole
  BY DEF BootInv, BootShape, RowsRecorded, Stands, SchemaWhole, Applied
<1> QED
  BY <1>1, BootIsSound, PTL
----------------------------------------------------------------------------
(* The file backend.                                                       *)

Objects == [n : Nat, revision : Nat, version : [StoredAddons -> Nat], grants : SUBSET StoredGrants]
Turns == [step : {"idle", "called", "changed", "written"}, snap : Objects]

(* No operation touches the count of changes itself.                       *)
LEMMA OutcomesAre ==
    ASSUME NEW d \in Objects, NEW e \in Outcomes(d)
    PROVE  e \in Objects /\ e.n = d.n
<1>1. PICK b \in Objects : b = BumpRevision(d) /\ b.n = d.n
  <2> DEFINE b == [d EXCEPT !.revision = d.revision + 1]
  <2>1. b \in Objects /\ b.n = d.n
    BY DEF Objects
  <2>2. BumpRevision(d) = b
    BY DEF BumpRevision
  <2> QED
    BY <2>1, <2>2
<1>2. ASSUME NEW v \in [StoredAddons -> Nat], e = [b EXCEPT !.version = v]
      PROVE  e \in Objects /\ e.n = d.n
  BY <1>1, <1>2 DEF Objects
<1>3. ASSUME NEW g \in SUBSET StoredGrants, e = [d EXCEPT !.grants = g]
      PROVE  e \in Objects /\ e.n = d.n
  BY <1>3 DEF Objects
<1>4. CASE e = BumpRevision(d)
  BY <1>1, <1>4
<1>5. CASE e = ReorderAddons(d)
  <2> DEFINE v == [a \in StoredAddons |-> IF b.version[a] = 0 THEN 0 ELSE b.version[a] + 1]
  <2>1. v \in [StoredAddons -> Nat]
    BY DEF Objects
  <2>2. e = [b EXCEPT !.version = v]
    BY <1>1, <1>5 DEF ReorderAddons
  <2> QED
    BY <1>2, <2>1, <2>2
<1>6. ASSUME NEW a \in StoredAddons, e = SaveAddon(d, a) \/ e = RemoveAddon(d, a)
      PROVE  e \in Objects /\ e.n = d.n
  <2>1. /\ [b.version EXCEPT ![a] = @ + 1] \in [StoredAddons -> Nat]
        /\ [b.version EXCEPT ![a] = 0] \in [StoredAddons -> Nat]
    BY DEF Objects
  <2>2. \/ e = d \/ e = [b EXCEPT !.version = [b.version EXCEPT ![a] = @ + 1]]
        \/ e = [b EXCEPT !.version = [b.version EXCEPT ![a] = 0]]
    BY <1>1, <1>6 DEF SaveAddon, RemoveAddon, Objects
  <2> QED
    BY <1>2, <2>1, <2>2
<1>7. ASSUME NEW g \in SUBSET StoredGrants,
             e = [d EXCEPT !.grants = @ \cup g] \/ e = [d EXCEPT !.grants = @ \ g]
      PROVE  e \in Objects /\ e.n = d.n
  <2>1. d.grants \cup g \in SUBSET StoredGrants /\ d.grants \ g \in SUBSET StoredGrants
    BY DEF Objects
  <2>2. e = [d EXCEPT !.grants = d.grants \cup g] \/ e = [d EXCEPT !.grants = d.grants \ g]
    BY <1>7
  <2> QED
    BY <1>3, <2>1, <2>2
<1>8. \/ e = BumpRevision(d) \/ e = ReorderAddons(d)
      \/ \E a \in StoredAddons : e = SaveAddon(d, a) \/ e = RemoveAddon(d, a)
      \/ \E g \in StoredGrants : e = SaveGrant(d, g) \/ e = RevokeGrant(d, g)
      \/ \E g \in SUBSET StoredGrants : e = CleanupExpiredGrants(d, g)
  BY DEF Outcomes
<1>9. ASSUME NEW g \in StoredGrants, e = SaveGrant(d, g) \/ e = RevokeGrant(d, g)
      PROVE  e \in Objects /\ e.n = d.n
  <2>1. {g} \in SUBSET StoredGrants
    OBVIOUS
  <2> QED
    BY <1>7, <1>9, <2>1 DEF SaveGrant, RevokeGrant
<1> QED
  BY <1>4, <1>5, <1>6, <1>7, <1>8, <1>9 DEF CleanupExpiredGrants

FileShape ==
    /\ data \in Objects /\ file \in Objects /\ told \in Nat /\ lost \in BOOLEAN
    /\ writer \in [Writers -> Turns] /\ closing \in Turns /\ line \in Seq(Writers)

(* Only the first of the line is between its change and its rename, so the *)
(* object is still what it is about to write; close() may be behind.       *)
InTurn ==
    /\ \A w \in Writers : writer[w].step \in {"changed", "written"} => HasTurn(w)
    /\ closing.step = "written" => closing.snap.n <= data.n
    /\ lost \/ \A w \in Writers : writer[w].step = "written" => writer[w].snap.n = data.n

FileInv == FileShape /\ InTurn /\ AckedSurvive

(* A caller that leaves the line was its first: nobody else is writing.    *)
LEMMA LeavesTheLine ==
    ASSUME FileInv, NEW w \in Writers, HasTurn(w), Leaves(w)
    PROVE  /\ writer' \in [Writers -> Turns] /\ line' \in Seq(Writers)
           /\ \A v \in Writers : writer'[v].step \notin {"changed", "written"}
<1>1. Quiet \in Turns /\ Quiet.step = "idle"
  BY DEF Quiet, Turns, EmptyStore, Objects
<1>2. writer' = [writer EXCEPT ![w] = Quiet]
  BY DEF Leaves
<1>3. line' \in Seq(Writers)
  <2>1. line \in Seq(Writers) /\ line # <<>> /\ line' = Tail(line)
    BY DEF Leaves, HasTurn, FileInv, FileShape
  <2> QED
    BY <2>1
<1>4. \A v \in Writers : v # w => writer[v].step \notin {"changed", "written"}
  BY DEF FileInv, InTurn, HasTurn
<1> QED
  BY <1>1, <1>2, <1>3, <1>4 DEF FileInv, FileShape

(* Every step of the backend keeps the invariant.                          *)
LEMMA FileStepKeeps ==
    ASSUME FileInv, [StoreNext]_fileStoreVars
    PROVE  FileInv'
<1>0. /\ data.n \in Nat /\ file.n \in Nat /\ told \in Nat
      /\ \A w \in Writers : writer[w].snap \in Objects /\ writer[w].snap.n \in Nat
      /\ closing.snap \in Objects /\ closing.snap.n \in Nat
  BY DEF FileInv, FileShape, Turns, Objects
<1>1. CASE UNCHANGED fileStoreVars
  BY <1>1 DEF fileStoreVars, FileInv, FileShape, InTurn, HasTurn, AckedSurvive
<1>2. ASSUME NEW w \in Writers, Call(w) PROVE FileInv'
  <2>1. PICK y \in Turns : y = writer[w]
    BY DEF FileInv, FileShape
  <2> DEFINE x == [y EXCEPT !.step = "called"]
  <2>2. x \in Turns /\ x.step = "called" /\ y.step = "idle"
    BY <1>2, <2>1 DEF Turns, Call
  <2>3. writer' = [writer EXCEPT ![w] = x]
    BY <1>2, <2>1 DEF Call, FileInv, FileShape
  <2> HIDE DEF x
  <2>4. line' \in Seq(Writers) /\ (line # <<>> => line' # <<>> /\ Head(line') = Head(line))
    BY <1>2 DEF Call, FileInv, FileShape
  <2>5. /\ writer' \in [Writers -> Turns] /\ writer'[w] = x
        /\ \A v \in Writers : v # w => writer'[v] = writer[v]
    BY <2>2, <2>3 DEF FileInv, FileShape
  <2>6. UNCHANGED <<data, file, closing, told, lost>>
    BY <1>2 DEF Call
  <2>7. ASSUME NEW v \in Writers, writer'[v].step \in {"changed", "written"}
        PROVE  /\ HasTurn(v)' /\ writer'[v] = writer[v]
    BY <2>2, <2>4, <2>5, <2>7 DEF FileInv, InTurn, HasTurn
  <2> QED
    BY <2>4, <2>5, <2>6, <2>7 DEF FileInv, FileShape, InTurn, AckedSurvive
<1>3. ASSUME NEW w \in Writers, Change(w) PROVE FileInv'
  <2>1. PICK d \in Outcomes(data) :
            IF d = data THEN Leaves(w) /\ UNCHANGED data
            ELSE /\ data' = [d EXCEPT !.n = @ + 1]
                 /\ writer' = [writer EXCEPT ![w].step = "changed"]
                 /\ UNCHANGED line
    BY <1>3 DEF Change
  <2>2. d \in Objects /\ d.n = data.n
    BY OutcomesAre DEF FileInv, FileShape
  <2>3. /\ writer[w].step = "called" /\ HasTurn(w)
        /\ UNCHANGED <<file, closing, told, lost>>
    BY <1>3 DEF Change
  <2>4. CASE d = data
    <3>1. Leaves(w) /\ UNCHANGED data
      BY <2>1, <2>4
    <3> QED
      BY <2>3, <3>1, LeavesTheLine DEF FileInv, FileShape, InTurn, AckedSurvive
  <2>5. CASE d # data
    <3>1. PICK y \in Turns : y = writer[w]
      BY DEF FileInv, FileShape
    <3> DEFINE x == [y EXCEPT !.step = "changed"]
               e == [d EXCEPT !.n = d.n + 1]
    <3>2. x \in Turns /\ x.step = "changed"
      BY DEF Turns
    <3>3. e \in Objects /\ e.n = data.n + 1
      BY <2>2 DEF Objects
    <3>4. writer' = [writer EXCEPT ![w] = x] /\ data' = e /\ line' = line
      BY <2>1, <2>5, <3>1 DEF FileInv, FileShape
    <3> HIDE DEF x, e
    <3>5. /\ writer' \in [Writers -> Turns] /\ writer'[w] = x
          /\ \A v \in Writers : v # w => writer'[v] = writer[v]
      BY <3>2, <3>4 DEF FileInv, FileShape
    <3>6. \A v \in Writers : writer'[v].step \in {"changed", "written"} => v = w
      BY <2>3, <3>5 DEF FileInv, InTurn, HasTurn
    <3>7. data'.n = data.n + 1
      BY <3>3, <3>4
    <3>8. FileShape'
      BY <2>3, <3>3, <3>4, <3>5 DEF FileInv, FileShape
    <3>9. InTurn'
      <4>1. HasTurn(w)'
        BY <2>3, <3>4 DEF HasTurn
      <4>2. closing'.step = "written" => closing'.snap.n <= data'.n
        BY <1>0, <2>3, <3>7 DEF FileInv, InTurn
      <4>3. \A v \in Writers : writer'[v].step # "written"
        BY <3>2, <3>5, <3>6
      <4> QED
        BY <3>6, <4>1, <4>2, <4>3 DEF InTurn
    <3>10. AckedSurvive'
      BY <1>0, <2>3, <3>7 DEF FileInv, AckedSurvive
    <3> QED
      BY <3>8, <3>9, <3>10 DEF FileInv
  <2> QED
    BY <2>4, <2>5
<1>4. ASSUME NEW w \in Writers, Snapshot(w) PROVE FileInv'
  <2>1. PICK x \in Turns : x = [step |-> "written", snap |-> data] /\ x.step = "written"
                           /\ x.snap = data
    <3>1. \A d \in Objects : [step |-> "written", snap |-> d] \in Turns
      BY DEF Turns
    <3> QED
      BY <3>1 DEF FileInv, FileShape
  <2>2. /\ writer' \in [Writers -> Turns] /\ writer'[w] = x
        /\ \A v \in Writers : v # w => writer'[v] = writer[v]
    BY <1>4, <2>1 DEF Snapshot, FileInv, FileShape
  <2>3. HasTurn(w) /\ UNCHANGED <<data, file, line, closing, told, lost>>
    BY <1>4 DEF Snapshot
  <2>4. \A v \in Writers : v # w => writer[v].step \notin {"changed", "written"}
    BY <2>3 DEF FileInv, InTurn, HasTurn
  <2> QED
    BY <2>1, <2>2, <2>3, <2>4 DEF FileInv, FileShape, InTurn, HasTurn, AckedSurvive
<1>5. ASSUME NEW w \in Writers, Rename(w) PROVE FileInv'
  <2>1. /\ HasTurn(w) /\ Leaves(w) /\ UNCHANGED <<data, closing, lost>>
        /\ writer[w].step = "written" /\ file' = writer[w].snap
        /\ told' = IF told < writer[w].snap.n THEN writer[w].snap.n ELSE told
    BY <1>5 DEF Rename
  <2>2. FileShape' /\ \A v \in Writers : writer'[v].step \notin {"changed", "written"}
    BY <1>0, <2>1, LeavesTheLine DEF FileInv, FileShape
  <2>3. lost \/ writer[w].snap.n = data.n
    BY <2>1 DEF FileInv, InTurn
  <2>4. AckedSurvive'
    BY <1>0, <2>1, <2>3 DEF FileInv, AckedSurvive
  <2> QED
    BY <2>1, <2>2, <2>4 DEF FileInv, InTurn
<1>6. ASSUME NEW w \in Writers, WriteFails(w) PROVE FileInv'
  <2>1. HasTurn(w) /\ Leaves(w) /\ UNCHANGED <<data, file, closing, told, lost>>
    BY <1>6 DEF WriteFails
  <2> QED
    BY <2>1, LeavesTheLine DEF FileInv, FileShape, InTurn, AckedSurvive
<1>7. CASE Close
  <2>1. PICK x \in Turns : x = [step |-> "written", snap |-> data] /\ x.snap = data
    <3>1. \A d \in Objects : [step |-> "written", snap |-> d] \in Turns
      BY DEF Turns
    <3> QED
      BY <3>1 DEF FileInv, FileShape
  <2>2. closing' = x /\ UNCHANGED <<data, file, line, writer, told, lost>>
    BY <1>7, <2>1 DEF Close
  <2> QED
    BY <1>0, <2>1, <2>2 DEF FileInv, FileShape, InTurn, HasTurn, AckedSurvive
<1>8. CASE CloseRenames
  <2>1. PICK x \in Turns : x = [Quiet EXCEPT !.step = "changed"] /\ x.step = "changed"
    <3>1. /\ [Quiet EXCEPT !.step = "changed"] \in Turns
          /\ [Quiet EXCEPT !.step = "changed"].step = "changed"
      BY DEF Quiet, Turns, EmptyStore, Objects
    <3> QED
      BY <3>1
  <2>2. /\ closing.step = "written" /\ file' = closing.snap /\ closing' = x
        /\ lost' = (lost \/ closing.snap.n < told) /\ UNCHANGED <<data, line, writer, told>>
    BY <1>8, <2>1 DEF CloseRenames
  <2>3. closing.snap.n <= data.n
    BY <2>2 DEF FileInv, InTurn
  <2>4. AckedSurvive'
    <3>1. closing.snap.n < told \/ told <= closing.snap.n
      BY <1>0
    <3>2. file'.n = closing.snap.n /\ data'.n = data.n /\ told' = told
      BY <2>2
    <3>3. lost' \/ (told' <= file'.n /\ file'.n <= data'.n)
      BY <2>2, <2>3, <3>1, <3>2, Zenon
    <3> QED
      BY <3>3 DEF AckedSurvive
  <2>5. FileShape'
    BY <1>0, <2>2 DEF FileInv, FileShape
  <2>6. InTurn'
    BY <2>1, <2>2 DEF FileInv, InTurn, HasTurn
  <2> QED
    BY <2>4, <2>5, <2>6 DEF FileInv
<1>9. ASSUME NEW readable \in BOOLEAN, ProcessStarts(readable) PROVE FileInv'
  <2>1. /\ Quiet \in Turns /\ Quiet.step = "idle"
        /\ EmptyStore \in Objects /\ EmptyStore.n = 0 /\ 0 \in Nat
    BY DEF Quiet, Turns, EmptyStore, Objects
  <2>2. /\ line' = <<>> /\ writer' = [v \in Writers |-> Quiet] /\ closing' = Quiet
        /\ data' = (IF readable THEN file ELSE EmptyStore) /\ file' = data'
        /\ told' = (IF readable THEN told ELSE 0)
        /\ lost' = (lost \/ ~readable)
    BY <1>9 DEF ProcessStarts
  <2>3. FileShape'
    BY <2>1, <2>2 DEF FileInv, FileShape
  <2>4. InTurn'
    BY <2>1, <2>2 DEF InTurn
  <2>5. AckedSurvive'
    <3>1. CASE readable
      <4>1. file' = file /\ data' = file /\ told' = told /\ file.n <= file.n
        BY <1>0, <2>2, <3>1
      <4>2. lost \/ told <= file.n
        BY DEF FileInv, AckedSurvive
      <4>3. lost' = (lost \/ FALSE)
        BY <2>2, <3>1, Zenon
      <4> QED
        BY <4>1, <4>2, <4>3, Zenon DEF AckedSurvive
    <3>2. CASE ~readable
      BY <2>2, <3>2 DEF AckedSurvive
    <3> QED
      BY <3>1, <3>2
  <2> QED
    BY <2>3, <2>4, <2>5 DEF FileInv
<1> QED
  BY <1>1, <1>2, <1>3, <1>4, <1>5, <1>6, <1>7, <1>8, <1>9 DEF StoreNext

(* The invariant of the file holds.                                        *)
LEMMA FileIsSound == StoreSpec => []FileInv
<1>1. StoreInit => FileInv
  <2> SUFFICES ASSUME StoreInit PROVE FileInv
    OBVIOUS
  <2>1. /\ Quiet \in Turns /\ Quiet.step = "idle"
        /\ EmptyStore \in Objects /\ EmptyStore.n = 0 /\ 0 \in Nat
    BY DEF Quiet, Turns, EmptyStore, Objects
  <2>2. FileShape
    <3>1. lost \in BOOLEAN
      BY Zenon DEF StoreInit
    <3>2. writer \in [Writers -> Turns] /\ line \in Seq(Writers)
      BY <2>1 DEF StoreInit
    <3>3. data \in Objects /\ file \in Objects /\ told \in Nat /\ closing \in Turns
      BY <2>1 DEF StoreInit
    <3> QED
      BY <3>1, <3>2, <3>3 DEF FileShape
  <2>3. InTurn
    BY <2>1 DEF StoreInit, InTurn
  <2>4. told <= file.n /\ file.n <= data.n
    BY <2>1 DEF StoreInit
  <2> QED
    BY <2>2, <2>3, <2>4 DEF FileInv, AckedSurvive
<1> QED
  BY <1>1, FileStepKeeps, PTL DEF StoreSpec

(* FileStore: what a caller was told is in the file, through failing writes*)
(* and restarts, unless the file was unreadable or close() overtook a      *)
(* writer.                                                                 *)
THEOREM FileKeepsItsWord == StoreSpec => []AckedSurvive
<1>1. FileInv => AckedSurvive
  BY DEF FileInv
<1> QED
  BY <1>1, FileIsSound, PTL
----------------------------------------------------------------------------
(* The addons of one replica.                                              *)

(* R puts the members of S in a row.                                       *)
Strict(S, R) ==
    /\ \A x \in S : <<x, x>> \notin R
    /\ \A x, y \in S : x # y => <<x, y>> \in R \/ <<y, x>> \in R
    /\ \A x, y, z \in S : <<x, y>> \in R /\ <<y, z>> \in R => <<x, z>> \in R

Below(S, R, x) == {y \in S : <<y, x>> \in R}

(* What stands before another has fewer before it.                         *)
LEMMA RanksRise ==
    ASSUME NEW S, NEW R, IsFiniteSet(S), Strict(S, R)
    PROVE  /\ Cardinality(S) \in Nat
           /\ \A x \in S : Cardinality(Below(S, R, x)) \in 0..Cardinality(S) - 1
           /\ \A x, y \in S :
                  <<x, y>> \in R => Cardinality(Below(S, R, x)) < Cardinality(Below(S, R, y))
           /\ \A x, y \in S :
                  Cardinality(Below(S, R, x)) = Cardinality(Below(S, R, y)) => x = y
<1>1. ASSUME NEW T, NEW U, NEW x, IsFiniteSet(T), U \subseteq T, x \in T, x \notin U
      PROVE  Cardinality(U) \in Nat /\ Cardinality(T) \in Nat /\ Cardinality(U) < Cardinality(T)
  <2>1. IsFiniteSet(T \ {x}) /\ Cardinality(T \ {x}) = Cardinality(T) - 1
    BY <1>1, FS_RemoveElement
  <2>2. U \in SUBSET (T \ {x})
    BY <1>1
  <2>3. IsFiniteSet(U) /\ Cardinality(U) <= Cardinality(T \ {x})
    BY <2>1, <2>2, FS_Subset
  <2> QED
    BY <1>1, <2>1, <2>3, FS_CardinalityType
<1>2. Cardinality(S) \in Nat
  BY FS_CardinalityType
<1>3. ASSUME NEW x \in S
      PROVE  /\ Cardinality(Below(S, R, x)) \in 0..Cardinality(S) - 1
             /\ IsFiniteSet(Below(S, R, x))
  <2>1. Below(S, R, x) \subseteq S /\ x \notin Below(S, R, x)
    BY DEF Below, Strict
  <2>2. /\ Cardinality(Below(S, R, x)) \in Nat
        /\ Cardinality(Below(S, R, x)) < Cardinality(S)
    BY <1>1, <2>1
  <2> QED
    BY <1>2, <2>1, <2>2, FS_Subset
<1>4. ASSUME NEW x \in S, NEW y \in S, <<x, y>> \in R
      PROVE  Cardinality(Below(S, R, x)) < Cardinality(Below(S, R, y))
  <2>1. Below(S, R, x) \subseteq Below(S, R, y)
    BY <1>4 DEF Below, Strict
  <2>2. x \in Below(S, R, y) /\ x \notin Below(S, R, x)
    BY <1>4 DEF Below, Strict
  <2> QED
    BY <1>1, <1>3, <2>1, <2>2
<1>5. ASSUME NEW x \in S, NEW y \in S, x # y
      PROVE  Cardinality(Below(S, R, x)) # Cardinality(Below(S, R, y))
  <2>1. <<x, y>> \in R \/ <<y, x>> \in R
    BY <1>5 DEF Strict
  <2>2. Cardinality(Below(S, R, x)) \in Nat /\ Cardinality(Below(S, R, y)) \in Nat
    BY <1>2, <1>3
  <2> QED
    BY <1>4, <2>1, <2>2
<1> QED
  BY <1>2, <1>3, <1>4, <1>5

(* The row has every member, once, and each after those before it.         *)
LEMMA InLineIs ==
    ASSUME NEW S, NEW R, IsFiniteSet(S), Strict(S, R)
    PROVE  LET f == InLine(S, R)  n == Cardinality(S) IN
           /\ n \in Nat /\ f \in [1..n -> S]
           /\ \A k \in 1..n : Cardinality(Below(S, R, f[k])) = k - 1
           /\ \A x \in S : \E k \in 1..n : f[k] = x
           /\ \A j, k \in 1..n : f[j] = f[k] => j = k
           /\ \A j, k \in 1..n : j < k <=> <<f[j], f[k]>> \in R
<1> DEFINE n == Cardinality(S)
           r == [x \in S |-> Cardinality(Below(S, R, x))]
           f == InLine(S, R)
<1>1. n \in Nat
  BY RanksRise
<1>2. 0 \in Int /\ n - 1 \in Int
  BY <1>1
<1>3. IsFiniteSet(0..n - 1) /\ Cardinality(0..n - 1) = IF 0 > n - 1 THEN 0 ELSE n - 1 - 0 + 1
  BY <1>2, FS_Interval, Zenon
<1>4. Cardinality(0..n - 1) = n
  BY <1>1, <1>3
<1>5. r \in [S -> 0..n - 1]
  BY RanksRise
<1>6. \A x, y \in S : r[x] = r[y] => x = y
  BY RanksRise
<1> HIDE DEF n, r
<1>7. r \in Injection(S, 0..n - 1)
  BY <1>5, <1>6 DEF Injection, IsInjective
<1>8. r \in Surjection(S, 0..n - 1)
  BY <1>3, <1>4, <1>7, FS_Injection DEF n
<1>9. ASSUME NEW k \in 1..n PROVE \E x \in S : Cardinality(Below(S, R, x)) = k - 1
  <2>1. k - 1 \in 0..n - 1
    BY <1>1
  <2> QED
    BY <1>8, <2>1 DEF Surjection, r
<1>10. f = [k \in 1..n |-> CHOOSE x \in S : Cardinality(Below(S, R, x)) = k - 1]
  BY DEF InLine, Below, n
<1> HIDE DEF f
<1>11. ASSUME NEW k \in 1..n PROVE f[k] \in S /\ Cardinality(Below(S, R, f[k])) = k - 1
  BY <1>9, <1>10
<1>12. f \in [1..n -> S]
  BY <1>10, <1>11
<1>13. ASSUME NEW x \in S PROVE \E k \in 1..n : f[k] = x
  <2>1. Cardinality(Below(S, R, x)) \in 0..n - 1
    BY RanksRise DEF n
  <2>2. PICK k \in 1..n : Cardinality(Below(S, R, x)) = k - 1
    BY <1>1, <2>1
  <2>3. f[k] \in S /\ Cardinality(Below(S, R, f[k])) = k - 1
    BY <1>11
  <2> QED
    BY <2>2, <2>3, RanksRise
<1>14. ASSUME NEW j \in 1..n, NEW k \in 1..n, f[j] = f[k] PROVE j = k
  <2>1. j - 1 = k - 1
    BY <1>11, <1>14
  <2> QED
    BY <1>1, <2>1
<1>15. ASSUME NEW j \in 1..n, NEW k \in 1..n PROVE j < k <=> <<f[j], f[k]>> \in R
  <2>1. /\ f[j] \in S /\ Cardinality(Below(S, R, f[j])) = j - 1
        /\ f[k] \in S /\ Cardinality(Below(S, R, f[k])) = k - 1
    BY <1>11
  <2>2. CASE <<f[j], f[k]>> \in R
    <3>1. Cardinality(Below(S, R, f[j])) < Cardinality(Below(S, R, f[k]))
      BY <2>1, <2>2, RanksRise
    <3> QED
      BY <1>1, <2>1, <2>2, <3>1
  <2>3. CASE <<f[j], f[k]>> \notin R /\ f[j] # f[k]
    <3>1. <<f[k], f[j]>> \in R
      BY <2>1, <2>3 DEF Strict
    <3>2. Cardinality(Below(S, R, f[k])) < Cardinality(Below(S, R, f[j]))
      BY <2>1, <3>1, RanksRise
    <3> QED
      BY <1>1, <2>1, <2>3, <3>2
  <2>4. CASE <<f[j], f[k]>> \notin R /\ f[j] = f[k]
    BY <1>14, <2>4
  <2> QED
    BY <2>2, <2>3, <2>4
<1> QED
  BY <1>1, <1>11, <1>12, <1>13, <1>14, <1>15 DEF n, f

RowOf(S, R, n, g) ==
    /\ n \in Nat /\ g \in [1..n -> S]
    /\ \A x \in S : \E k \in 1..n : g[k] = x
    /\ \A j, k \in 1..n : j < k => <<g[j], g[k]>> \in R

(* There is one such row.                                                  *)
LEMMA OneLine ==
    ASSUME NEW S, NEW R, IsFiniteSet(S), Strict(S, R), NEW n, NEW g, RowOf(S, R, n, g)
    PROVE  g = InLine(S, R) /\ n = Cardinality(S)
<1>0. /\ n \in Nat /\ g \in [1..n -> S]
      /\ \A x \in S : \E k \in 1..n : g[k] = x
      /\ \A j, k \in 1..n : j < k => <<g[j], g[k]>> \in R
  BY DEF RowOf
<1>1. \A j, k \in 1..n : g[j] = g[k] => j = k
  <2> SUFFICES ASSUME NEW j \in 1..n, NEW k \in 1..n, j < k PROVE g[j] # g[k]
    OBVIOUS
  <2> QED
    BY <1>0 DEF Strict
<1>2. g \in Bijection(1..n, S)
  BY <1>0, <1>1 DEF Bijection, Injection, Surjection, IsInjective
<1>3. n = Cardinality(S)
  BY <1>0, <1>2, FS_CountingElements DEF ExistsBijection
<1> DEFINE f == InLine(S, R)
<1>4. ASSUME NEW k \in 1..n PROVE f[k] = g[k]
  <2> DEFINE b == [j \in 1..k - 1 |-> g[j]]
             B == Below(S, R, g[k])
  <2>1. ASSUME NEW j \in 1..k - 1 PROVE j \in 1..n /\ g[j] \in B
    <3>1. j \in 1..n /\ j < k
      BY <1>0
    <3> QED
      BY <1>0, <3>1 DEF Below
  <2>2. ASSUME NEW x \in B PROVE \E j \in 1..k - 1 : g[j] = x
    <3>1. x \in S /\ <<x, g[k]>> \in R
      BY DEF Below
    <3>2. PICK j \in 1..n : g[j] = x
      BY <1>0, <3>1
    <3>3. ~(k < j)
      <4> SUFFICES ASSUME k < j PROVE FALSE
        OBVIOUS
      <4>1. <<g[k], g[j]>> \in R
        BY <1>0
      <4> QED
        BY <1>0, <3>1, <3>2, <4>1 DEF Strict
    <3>4. j # k
      BY <3>1, <3>2 DEF Strict
    <3> QED
      BY <1>0, <3>2, <3>3, <3>4
  <2> HIDE DEF B
  <2>3. b \in Bijection(1..k - 1, B)
    BY <1>0, <1>1, <2>1, <2>2 DEF Bijection, Injection, Surjection, IsInjective
  <2>4. k - 1 \in Nat
    BY <1>0
  <2>5. Cardinality(B) = k - 1
    BY <2>3, <2>4, FS_CountingElements DEF ExistsBijection
  <2>6. f[k] \in S /\ Cardinality(Below(S, R, f[k])) = k - 1
    BY <1>3, InLineIs
  <2>7. g[k] \in S /\ Cardinality(Below(S, R, g[k])) = k - 1
    BY <1>0, <2>5 DEF B
  <2> HIDE DEF f
  <2> QED
    BY <2>6, <2>7, RanksRise
<1>5. f \in [1..n -> S]
  BY <1>3, InLineIs
<1> HIDE DEF f
<1>6. f = g
  BY <1>0, <1>4, <1>5
<1> QED
  BY <1>3, <1>6 DEF f

(* The addons have ids and places of their own.                            *)
WellListed(L) ==
    /\ L \in Seq(AddonRecords)
    /\ \A i, j \in DOMAIN L : i # j => L[i].id # L[j].id /\ L[i].order # L[j].order

On(L) == {i \in DOMAIN L : L[i].enabled /\ StreamCapable(L[i])}

Providers == [id : 1..MaxRequests, base : Urls, manifest : Manifests, timeout : {0, NewTimeout}]

(* The order of the addons and that of the providers are such.             *)
LEMMA OrderIsStrict ==
    ASSUME NEW L, WellListed(L), NEW D \in SUBSET DOMAIN L
    PROVE  IsFiniteSet(D) /\ Strict(D, SortAddons(L))
<1>1. Len(L) \in Nat /\ DOMAIN L = 1..Len(L) /\ 1 \in Int /\ Len(L) \in Int
  BY DEF WellListed
<1>2. IsFiniteSet(1..Len(L))
  BY <1>1, FS_Interval, Zenon
<1>3. IsFiniteSet(D)
  BY <1>1, <1>2, FS_Subset
<1>4. ASSUME NEW x \in D PROVE x \in DOMAIN L /\ x \in Nat /\ L[x].order \in Nat
  <2>1. x \in DOMAIN L /\ x \in Nat
    BY <1>1
  <2>2. L[x] \in AddonRecords
    BY <2>1 DEF WellListed
  <2> QED
    BY <2>1, <2>2 DEF AddonRecords
<1>5. ASSUME NEW x \in D, NEW y \in D
      PROVE  <<x, y>> \in SortAddons(L) <=>
                 L[x].order < L[y].order \/ (L[x].order = L[y].order /\ x < y)
  BY <1>4 DEF SortAddons
<1>6. ASSUME NEW x \in D PROVE <<x, x>> \notin SortAddons(L)
  BY <1>4, <1>5
<1>7. ASSUME NEW x \in D, NEW y \in D, x # y
      PROVE  <<x, y>> \in SortAddons(L) \/ <<y, x>> \in SortAddons(L)
  BY <1>4, <1>5, <1>7
<1>8. ASSUME NEW x \in D, NEW y \in D, NEW z \in D,
             <<x, y>> \in SortAddons(L), <<y, z>> \in SortAddons(L)
      PROVE  <<x, z>> \in SortAddons(L)
  BY <1>4, <1>5, <1>8
<1> QED
  BY <1>3, <1>6, <1>7, <1>8 DEF Strict

(* The waterfall is the enabled stream addons, each once.                  *)
LEMMA WaterfallIs ==
    ASSUME NEW L, WellListed(L)
    PROVE  LET W == StreamEnabled(L)  on == InLine(On(L), SortAddons(L))  n == Cardinality(On(L)) IN
           /\ n \in Nat /\ on \in [1..n -> On(L)]
           /\ W \in Seq(AddonRecords) /\ Len(W) = n /\ W = [k \in 1..n |-> L[on[k]]]
           /\ \A k \in 1..n : on[k] \in DOMAIN L /\ on[k] \in On(L) /\ W[k] = L[on[k]]
           /\ \A i \in On(L) : \E k \in 1..n : on[k] = i
           /\ \A j, k \in 1..n : j # k => W[j].id # W[k].id
<1> DEFINE on == InLine(On(L), SortAddons(L))  n == Cardinality(On(L))
           W == [k \in 1..n |-> L[on[k]]]
<1>1. On(L) \in SUBSET DOMAIN L
  BY DEF On
<1>2. /\ n \in Nat /\ on \in [1..n -> On(L)]
      /\ \A i \in On(L) : \E k \in 1..n : on[k] = i
      /\ \A j, k \in 1..n : on[j] = on[k] => j = k
  BY <1>1, OrderIsStrict, InLineIs
<1>3. DOMAIN on = 1..n
  BY <1>2
<1>4. StreamEnabled(L) = W
  BY <1>3 DEF StreamEnabled, On
<1> HIDE DEF on, n
<1>5. ASSUME NEW k \in 1..n PROVE on[k] \in DOMAIN L /\ on[k] \in On(L) /\ L[on[k]] \in AddonRecords
  BY <1>1, <1>2 DEF WellListed
<1>6. W \in [1..n -> AddonRecords] /\ \A k \in 1..n : W[k] = L[on[k]]
  BY <1>5
<1> HIDE DEF W
<1>7. W \in Seq(AddonRecords) /\ Len(W) = n
  BY <1>2, <1>6
<1>8. ASSUME NEW j \in 1..n, NEW k \in 1..n, j # k PROVE W[j].id # W[k].id
  BY <1>2, <1>5, <1>6, <1>8 DEF WellListed
<1> QED
  BY <1>2, <1>4, <1>5, <1>6, <1>7, <1>8 DEF on, n, W

(* The ids in the waterfall are those of the enabled stream addons.        *)
LEMMA WaterfallIds ==
    ASSUME NEW L, WellListed(L), NEW j \in DOMAIN L
    PROVE  L[j].id \in Ids(StreamEnabled(L)) <=> j \in On(L)
<1> DEFINE on == InLine(On(L), SortAddons(L))  n == Cardinality(On(L))  W == StreamEnabled(L)
<1>1. /\ DOMAIN W = 1..n
      /\ \A k \in 1..n : on[k] \in DOMAIN L /\ on[k] \in On(L) /\ W[k] = L[on[k]]
      /\ \A i \in On(L) : \E k \in 1..n : on[k] = i
  BY WaterfallIs
<1> HIDE DEF on, n, W
<1>2. ASSUME j \in On(L) PROVE L[j].id \in Ids(W)
  BY <1>1, <1>2 DEF Ids
<1>3. ASSUME L[j].id \in Ids(W) PROVE j \in On(L)
  <2>1. PICK k \in 1..n : W[k].id = L[j].id
    BY <1>1, <1>3 DEF Ids
  <2>2. on[k] = j
    BY <1>1, <2>1 DEF WellListed
  <2> QED
    BY <1>1, <2>2
<1> QED
  BY <1>2, <1>3 DEF W

(* The providers of some ids are providers, of these ids.                  *)
LEMMA TheseAre ==
    ASSUME NEW reg \in Seq(Providers), NEW ids
    PROVE  LET r == OnlyThese(reg, ids) IN
           /\ r \in Seq(Providers)
           /\ \A i \in DOMAIN r : r[i].id \in ids /\ \E j \in DOMAIN reg : r[i] = reg[j]
<1> DEFINE S == {i \in DOMAIN reg : reg[i].id \in ids}
           R == {p \in (DOMAIN reg) \X (DOMAIN reg) : p[1] < p[2]}
           left == InLine(S, R)
           n == Cardinality(S)
           r == [k \in 1..n |-> reg[left[k]]]
<1>1. Len(reg) \in Nat /\ DOMAIN reg = 1..Len(reg) /\ 1 \in Int /\ Len(reg) \in Int
  OBVIOUS
<1>2. IsFiniteSet(1..Len(reg))
  BY <1>1, FS_Interval, Zenon
<1>3. S \in SUBSET (1..Len(reg))
  OBVIOUS
<1>4. IsFiniteSet(S)
  BY <1>2, <1>3, FS_Subset
<1>5. ASSUME NEW x \in S, NEW y \in S PROVE <<x, y>> \in R <=> x < y
  OBVIOUS
<1>6. \A x \in S : x \in Nat
  OBVIOUS
<1>s. \A i \in S : i \in DOMAIN reg /\ reg[i].id \in ids
  OBVIOUS
<1>l. OnlyThese(reg, ids) = [k \in DOMAIN left |-> reg[left[k]]]
  BY DEF OnlyThese
<1> HIDE DEF S, R
<1>7. Strict(S, R)
  BY <1>5, <1>6 DEF Strict
<1>8. n \in Nat /\ left \in [1..n -> S]
  BY <1>4, <1>7, InLineIs
<1>9. OnlyThese(reg, ids) = r
  BY <1>8, <1>l
<1> HIDE DEF left, n
<1>10. ASSUME NEW k \in 1..n PROVE left[k] \in DOMAIN reg /\ reg[left[k]].id \in ids
  BY <1>8, <1>s
<1>11. r \in [1..n -> Providers] /\ \A k \in 1..n : r[k] = reg[left[k]]
  BY <1>10
<1> HIDE DEF r
<1> QED
  BY <1>8, <1>9, <1>10, <1>11

(* What is left of a sequence without its element at place k.              *)
LEMMA TakenOut ==
    ASSUME NEW S, NEW q \in Seq(S), NEW k \in 1..Len(q)
    PROVE  LET r == RemoveAt(q, k)  n == Len(q) IN
           /\ n \in Nat /\ r \in Seq(S) /\ Len(r) = n - 1
           /\ \A i \in 1..(n - 1) : r[i] = IF i < k THEN q[i] ELSE q[i + 1]
<1> DEFINE r == RemoveAt(q, k)
           n == Len(q)
           before == SubSeq(q, 1, k - 1)
           after  == SubSeq(q, k + 1, n)
<1>1. n \in Nat /\ DOMAIN q = 1..n /\ \A i \in 1..n : q[i] \in S
  BY LenProperties, ElementOfSeq
<1>3. k \in 1..n /\ n \in Nat
  BY <1>1
<1>4. /\ before \in Seq(S) /\ Len(before) = k - 1
      /\ \A i \in 1..(k - 1) : before[i] = q[i]
  BY <1>1, <1>3, SubSeqProperties
<1>5. /\ after \in Seq(S) /\ Len(after) = n - k
      /\ \A i \in 1..(n - k) : after[i] = q[k + i]
  <2>1. (IF k + 1 <= n THEN n - (k + 1) + 1 ELSE 0) = n - k
    BY <1>3
  <2>2. k + 1 \in Int /\ n \in Int /\ \A i \in (k + 1)..n : q[i] \in S
    BY <1>1, <1>3
  <2>3. \A i \in 1..(n - k) : (k + 1) + i - 1 = k + i
    BY <1>3
  <2>4. /\ after \in Seq(S)
        /\ Len(after) = IF k + 1 <= n THEN n - (k + 1) + 1 ELSE 0
        /\ \A i \in 1..(n - (k + 1) + 1) : after[i] = q[(k + 1) + i - 1]
    BY <2>2, SubSeqProperties
  <2> QED
    BY <1>3, <2>1, <2>3, <2>4
<1>6. /\ r \in Seq(S) /\ Len(r) = Len(before) + Len(after)
      /\ \A i \in 1..(Len(before) + Len(after)) :
            r[i] = IF i <= Len(before) THEN before[i] ELSE after[i - Len(before)]
  BY <1>4, <1>5, ConcatProperties DEF RemoveAt
<1>7. Len(before) + Len(after) = n - 1
  <2>1. Len(before) = k - 1 /\ Len(after) = n - k
    BY <1>4, <1>5
  <2>2. (k - 1) + (n - k) = n - 1
    BY <1>3
  <2> QED
    BY <2>1, <2>2
<1>8. ASSUME NEW i \in 1..(n - 1) PROVE r[i] = IF i < k THEN q[i] ELSE q[i + 1]
  <2>1. r[i] = IF i <= k - 1 THEN before[i] ELSE after[i - (k - 1)]
    BY <1>4, <1>6, <1>7
  <2>2. CASE i < k
    <3>1. i \in 1..(k - 1) /\ i <= k - 1
      BY <1>1, <2>2
    <3> QED
      BY <1>4, <2>1, <2>2, <3>1
  <2>3. CASE i >= k
    <3>1. /\ i - (k - 1) \in 1..(n - k) /\ k + (i - (k - 1)) = i + 1
          /\ ~ (i <= k - 1) /\ ~ (i < k)
      BY <1>1, <2>3
    <3>2. after[i - (k - 1)] = q[i + 1]
      BY <1>5, <3>1
    <3> QED
      BY <2>1, <3>1, <3>2
  <2> QED
    BY <1>1, <2>2, <2>3
<1> QED
  BY <1>1, <1>6, <1>7, <1>8

----------------------------------------------------------------------------

(* The suffix a new addon gets is free.                                    *)
LEMMA FreeIdIs ==
    ASSUME NEW L \in Seq(AddonRecords)
    PROVE  FreeId(L) \in 1..Len(L) + 1 /\ FreeId(L) \notin Ids(L)
<1> DEFINE n == Len(L)
           g == [i \in 1..n |-> L[i].id]
           S == {m \in 1..n + 1 : m \notin Ids(L)}
<1>1. n \in Nat /\ DOMAIN L = 1..n
  OBVIOUS
<1> HIDE DEF n
<1>2. g \in Surjection(1..n, Ids(L))
  BY <1>1 DEF Surjection, Ids
<1>3. PICK top \in Nat : top = n + 1
  BY <1>1
<1>4. ASSUME NEW m \in Nat PROVE IsFiniteSet(1..m) /\ Cardinality(1..m) = m
  <2>1. 1 \in Int /\ m \in Int
    OBVIOUS
  <2>2. IsFiniteSet(1..m) /\ Cardinality(1..m) = IF 1 > m THEN 0 ELSE m - 1 + 1
    BY <2>1, FS_Interval, Zenon
  <2> QED
    BY <2>2
<1>5. /\ IsFiniteSet(1..n) /\ Cardinality(1..n) = n
      /\ Cardinality(1..top) = top
  BY <1>1, <1>4
<1>6. IsFiniteSet(Ids(L)) /\ Cardinality(Ids(L)) <= n
  BY <1>2, <1>5, FS_Surjection
<1>7. Cardinality(Ids(L)) \in Nat
  BY <1>6, FS_CardinalityType
<1>8. S # {}
  <2>1. ASSUME S = {} PROVE FALSE
    <3>1. 1..top \in SUBSET Ids(L)
      BY <1>3, <2>1
    <3>2. Cardinality(1..top) <= Cardinality(Ids(L))
      BY <1>6, <3>1, FS_Subset, Zenon
    <3> QED
      BY <1>1, <1>3, <1>5, <1>6, <1>7, <3>2
  <2> QED
    BY <2>1
<1>9. S \in SUBSET Nat
  BY <1>1
<1>10. Least(S) \in S /\ \A w \in S : Least(S) <= w
  BY <1>8, <1>9, LeastIs
<1>11. PICK k \in 1..n + 1 : k \notin Ids(L) /\ \A w \in S : k <= w
  BY <1>10
<1>12. ASSUME NEW m \in 1..(k - 1) PROVE m \in Ids(L)
  <2>1. m \in 1..n + 1 /\ ~(k <= m)
    BY <1>1
  <2> QED
    BY <1>11, <2>1
<1>13. \E k_1 \in 1..(n + 1) : k_1 \notin Ids(L) /\ \A m \in 1..(k_1 - 1) : m \in Ids(L)
  BY <1>11, <1>12
<1> QED
  BY <1>13 DEF FreeId, n

(* The place a new addon gets is after all others.                         *)
LEMMA NextOrderIs ==
    ASSUME NEW L, WellListed(L)
    PROVE  NextOrder(L) \in Nat /\ \A i \in DOMAIN L : L[i].order < NextOrder(L)
<1> DEFINE T == {0} \cup {L[i].order + 1 : i \in DOMAIN L}
<1>1. ASSUME NEW i \in DOMAIN L PROVE L[i].order \in Nat
  <2>1. L[i] \in AddonRecords
    BY DEF WellListed
  <2> QED
    BY <2>1 DEF AddonRecords
<1>2. \E k \in T : \A i \in DOMAIN L : L[i].order < k
  <2>1. CASE DOMAIN L = {}
    BY <2>1
  <2>2. CASE DOMAIN L # {}
    <3> DEFINE n == Cardinality(DOMAIN L)  f == InLine(DOMAIN L, SortAddons(L))
    <3>1. IsFiniteSet(DOMAIN L) /\ Strict(DOMAIN L, SortAddons(L))
      BY OrderIsStrict
    <3>2. /\ n \in Nat /\ f \in [1..n -> DOMAIN L]
          /\ \A i \in DOMAIN L : \E k \in 1..n : f[k] = i
          /\ \A j, k \in 1..n : j < k <=> <<f[j], f[k]>> \in SortAddons(L)
      BY <3>1, InLineIs
    <3> HIDE DEF n, f
    <3>3. n \in 1..n
      BY <2>2, <3>2
    <3>4. PICK top \in DOMAIN L : top = f[n]
      BY <3>2, <3>3
    <3>5. ASSUME NEW i \in DOMAIN L PROVE L[i].order < L[top].order + 1
      <4>1. PICK k \in 1..n : f[k] = i
        BY <3>2
      <4>2. i = top \/ <<i, top>> \in SortAddons(L)
        BY <3>2, <3>3, <3>4, <4>1
      <4>3. i = top \/ L[i].order < L[top].order \/ L[i].order = L[top].order
        BY <4>2 DEF SortAddons
      <4> QED
        BY <1>1, <4>3
    <3> QED
      BY <3>5
  <2> QED
    BY <2>1, <2>2
<1>3. NextOrder(L) \in T /\ \A i \in DOMAIN L : L[i].order < NextOrder(L)
  BY <1>2 DEF NextOrder
<1> QED
  BY <1>1, <1>3

(* What a change leaves registered: the waterfall, and of every addon the  *)
(* provider it would have now, but for those replaced by a reload.         *)
Current(reg, L, gone) ==
    \A i \in DOMAIN reg, j \in DOMAIN L :
        reg[i].id = L[j].id => reg[i] = Built(L[j]) \/ reg[i].id \in gone

InStep(reg, L, gone) ==
    /\ reg \in Seq(Providers)
    /\ IdSeq(reg) = IdSeq(StreamEnabled(L))
    /\ Current(reg, L, gone)

(* What is built for an addon of a list is a provider.                     *)
LEMMA BuiltTypes ==
    ASSUME NEW a \in AddonRecords
    PROVE  Built(a) \in Providers /\ Built(a).id = a.id
BY DEF Built, AddonRecords, Providers

(* The registry is in order once it is reconciled, whatever it held of the *)
(* addons that are not asked.                                              *)
LEMMA ReconcileFollows ==
    ASSUME NEW L, WellListed(L), NEW reg \in Seq(Providers), NEW gone,
           \A i \in DOMAIN reg, j \in On(L) :
               reg[i].id = L[j].id => reg[i] = Built(L[j]) \/ reg[i].id \in gone
    PROVE  InStep(Reconcile(reg, L), L, gone)
<1> DEFINE W == StreamEnabled(L)
           kept == OnlyThese(reg, Ids(W))
           new == [k \in DOMAIN W |-> Built(W[k])]
<1>1. /\ W \in Seq(AddonRecords)
      /\ \A k \in DOMAIN W : \E i \in On(L) : i \in DOMAIN L /\ W[k] = L[i]
  BY WaterfallIs
<1>2. /\ kept \in Seq(Providers)
      /\ \A i \in DOMAIN kept : kept[i].id \in Ids(W) /\ \E j \in DOMAIN reg : kept[i] = reg[j]
  BY TheseAre
<1>3. Reconcile(reg, L) = IF IdSeq(kept) = IdSeq(W) THEN kept ELSE new
  BY DEF Reconcile
<1>4. \A j \in DOMAIN L : L[j].id \in Ids(W) <=> j \in On(L)
  BY WaterfallIds
<1> HIDE DEF W
<1>5. Current(kept, L, gone)
  <2>1. ASSUME NEW i \in DOMAIN kept, NEW j \in DOMAIN L, kept[i].id = L[j].id
        PROVE  kept[i] = Built(L[j]) \/ kept[i].id \in gone
    <3>1. j \in On(L)
      BY <1>2, <1>4, <2>1
    <3>2. PICK k \in DOMAIN reg : kept[i] = reg[k]
      BY <1>2
    <3> QED
      BY <2>1, <3>1, <3>2
  <2> QED
    BY <2>1 DEF Current
<1>6. ASSUME NEW k \in DOMAIN W
      PROVE  /\ Built(W[k]) \in Providers /\ Built(W[k]).id = W[k].id
             /\ \A j \in DOMAIN L : W[k].id = L[j].id => W[k] = L[j]
  <2>1. PICK i \in DOMAIN L : W[k] = L[i]
    BY <1>1
  <2>2. W[k] \in AddonRecords
    BY <1>1
  <2> QED
    BY <2>1, <2>2, BuiltTypes DEF WellListed
<1>7. /\ new \in Seq(Providers) /\ DOMAIN new = DOMAIN W
      /\ \A k \in DOMAIN W : new[k] = Built(W[k])
  BY <1>1, <1>6
<1> HIDE DEF new
<1>8. IdSeq(new) = IdSeq(W)
  BY <1>6, <1>7 DEF IdSeq
<1>9. Current(new, L, gone)
  BY <1>6, <1>7 DEF Current
<1> QED
  BY <1>2, <1>3, <1>5, <1>7, <1>8, <1>9 DEF InStep, W

(* The providers have ids of their own, those of the waterfall.            *)
LEMMA ProvidersDiffer ==
    ASSUME NEW L, WellListed(L), NEW reg, NEW gone, InStep(reg, L, gone)
    PROVE  /\ Len(reg) = Cardinality(On(L)) /\ DOMAIN reg = 1..Len(reg)
           /\ \A k \in DOMAIN reg : reg[k].id = StreamEnabled(L)[k].id
           /\ \A j, k \in DOMAIN reg : reg[j].id = reg[k].id => j = k
           /\ \A k \in DOMAIN reg : \E j \in DOMAIN L : reg[k].id = L[j].id
<1> DEFINE W == StreamEnabled(L)  n == Cardinality(On(L))
<1>0. \A k \in 1..n : \E j \in DOMAIN L : W[k] = L[j]
  BY WaterfallIs
<1>1. /\ n \in Nat /\ W \in Seq(AddonRecords) /\ Len(W) = n
      /\ \A j, k \in 1..n : j # k => W[j].id # W[k].id
  BY WaterfallIs
<1> HIDE DEF W, n
<1>2. reg \in Seq(Providers) /\ IdSeq(reg) = IdSeq(W)
  BY DEF InStep, W
<1>3. DOMAIN IdSeq(reg) = DOMAIN reg /\ DOMAIN IdSeq(W) = DOMAIN W
  BY DEF IdSeq
<1>4. DOMAIN reg = DOMAIN W
  BY <1>2, <1>3
<1>5. ASSUME NEW k \in DOMAIN reg PROVE reg[k].id = W[k].id
  <2>1. IdSeq(reg)[k] = reg[k].id /\ IdSeq(W)[k] = W[k].id
    BY <1>4 DEF IdSeq
  <2> QED
    BY <1>2, <2>1
<1>6. DOMAIN reg = 1..Len(reg) /\ Len(reg) \in Nat /\ DOMAIN W = 1..n
  BY <1>1, <1>2
<1>7. Len(reg) = n
  <2>1. ASSUME Len(reg) < n PROVE FALSE
    <3>1. n \in 1..n /\ n \notin 1..Len(reg)
      BY <1>1, <1>6, <2>1
    <3> QED
      BY <1>4, <1>6, <3>1
  <2>2. ASSUME n < Len(reg) PROVE FALSE
    <3>1. Len(reg) \in 1..Len(reg) /\ Len(reg) \notin 1..n
      BY <1>1, <1>6, <2>2
    <3> QED
      BY <1>4, <1>6, <3>1
  <2>3. Len(reg) \in Nat /\ n \in Nat
    BY <1>1, <1>6
  <2>4. Len(reg) < n \/ n < Len(reg) \/ Len(reg) = n
    BY <2>3
  <2> QED
    BY <2>1, <2>2, <2>4
<1> QED
  BY <1>0, <1>1, <1>4, <1>5, <1>6, <1>7 DEF W, n

(* Without the provider of an addon the others stay.                       *)
LEMMA Unregistered ==
    ASSUME NEW reg \in Seq(Providers), NEW id,
           \A j, k \in DOMAIN reg : reg[j].id = reg[k].id => j = k
    PROVE  LET r == Unregister(reg, id) IN
           /\ r \in Seq(Providers)
           /\ \A i \in DOMAIN r : r[i].id # id /\ \E j \in DOMAIN reg : r[i] = reg[j]
<1>1. CASE id \notin Ids(reg)
  BY <1>1 DEF Unregister, Ids
<1>2. CASE id \in Ids(reg)
  <2> DEFINE at == IndexOf(reg, id)  r == RemoveAt(reg, at)
  <2>1. at \in 1..Len(reg) /\ reg[at].id = id
    BY <1>2 DEF IndexOf, Ids
  <2> HIDE DEF at
  <2>2. /\ Len(reg) \in Nat /\ r \in Seq(Providers) /\ Len(r) = Len(reg) - 1
        /\ \A i \in 1..(Len(reg) - 1) : r[i] = IF i < at THEN reg[i] ELSE reg[i + 1]
    BY <2>1, TakenOut
  <2> HIDE DEF r
  <2>3. ASSUME NEW i \in DOMAIN r
        PROVE  r[i].id # id /\ \E j \in DOMAIN reg : r[i] = reg[j]
    <3>1. i \in 1..(Len(reg) - 1)
      BY <2>2
    <3>2. PICK j \in DOMAIN reg : r[i] = reg[j] /\ j # at
      BY <2>1, <2>2, <3>1
    <3> QED
      BY <2>1, <3>2
  <2>4. Unregister(reg, id) = r
    BY <1>2 DEF Unregister, r, at
  <2> QED
    BY <2>2, <2>3, <2>4
<1> QED
  BY <1>1, <1>2

(* An addon that is registered adds one provider or none.                  *)
LEMMA Registered ==
    ASSUME NEW reg \in Seq(Providers), NEW a \in AddonRecords
    PROVE  LET r == Register(reg, a) IN
           /\ r \in Seq(Providers)
           /\ \A i \in DOMAIN r : r[i] = Built(a) \/ \E j \in DOMAIN reg : r[i] = reg[j]
<1>1. Append(reg, Built(a)) \in Seq(Providers)
  BY BuiltTypes
<1>2. \A i \in DOMAIN Append(reg, Built(a)) :
          Append(reg, Built(a))[i] = Built(a) \/ \E j \in DOMAIN reg : Append(reg, Built(a))[i] = reg[j]
  BY BuiltTypes
<1> QED
  BY <1>1, <1>2 DEF Register

(* A removal leaves the other addons in their order, and so the waterfall  *)
(* without the one it took: no other provider moves.                       *)
LEMMA RemovalFollows ==
    ASSUME NEW L, WellListed(L), NEW p \in 1..Len(L), NEW reg, NEW gone, InStep(reg, L, gone)
    PROVE  LET M == RemoveAt(L, p) IN
           /\ WellListed(M) /\ Len(M) = Len(L) - 1
           /\ \A i \in DOMAIN M : \E j \in DOMAIN L : M[i] = L[j]
           /\ InStep(Unregister(reg, L[p].id), M, gone)
<1> DEFINE M == RemoveAt(L, p)
           len == Len(L)
           up(i) == IF i < p THEN i ELSE i + 1
           down(i) == IF i < p THEN i ELSE i - 1
<1>1. L \in Seq(AddonRecords) /\ len \in Nat /\ DOMAIN L = 1..len
  BY DEF WellListed
<1>2. /\ M \in Seq(AddonRecords) /\ Len(M) = len - 1
      /\ \A i \in 1..(len - 1) : M[i] = IF i < p THEN L[i] ELSE L[i + 1]
  BY <1>1, TakenOut
<1> HIDE DEF M
<1> HIDE DEF len
<1>l. p \in 1..len
  BY DEF len
<1>3. DOMAIN M = 1..(len - 1)
  BY <1>1, <1>2
<1>4. ASSUME NEW i \in DOMAIN M
      PROVE  up(i) \in DOMAIN L /\ up(i) # p /\ M[i] = L[up(i)] /\ down(up(i)) = i
  BY <1>1, <1>2, <1>3, <1>l
<1>5. ASSUME NEW i \in DOMAIN L, i # p
      PROVE  down(i) \in DOMAIN M /\ up(down(i)) = i
  BY <1>1, <1>3, <1>5, <1>l
<1>6. ASSUME NEW i \in DOMAIN L, NEW j \in DOMAIN L, i # p, j # p
      PROVE  i < j <=> down(i) < down(j)
  BY <1>1, <1>6, <1>l
<1> HIDE DEF up, down
<1>7. ASSUME NEW i \in DOMAIN L, i # p PROVE M[down(i)] = L[i]
  BY <1>4, <1>5, <1>7
<1>8. WellListed(M)
  <2>1. ASSUME NEW i \in DOMAIN M, NEW j \in DOMAIN M, i # j
        PROVE  M[i].id # M[j].id /\ M[i].order # M[j].order
    BY <1>4, <2>1 DEF WellListed
  <2> QED
    BY <1>2, <2>1 DEF WellListed
<1>9. ASSUME NEW i \in DOMAIN L, NEW j \in DOMAIN L, i # p, j # p,
             <<i, j>> \in SortAddons(L)
      PROVE  <<down(i), down(j)>> \in SortAddons(M)
  <2>1. down(i) \in DOMAIN M /\ down(j) \in DOMAIN M
    BY <1>5, <1>9
  <2>2. M[down(i)] = L[i] /\ M[down(j)] = L[j]
    BY <1>7, <1>9
  <2>3. L[i].order < L[j].order \/ (L[i].order = L[j].order /\ i < j)
    BY <1>9 DEF SortAddons
  <2>4. i < j => down(i) < down(j)
    BY <1>6, <1>9
  <2> QED
    BY <2>1, <2>2, <2>3, <2>4 DEF SortAddons
<1>10. /\ \A i \in On(L) : i # p => down(i) \in On(M)
       /\ \A i \in On(M) : up(i) \in On(L) /\ up(i) # p /\ down(up(i)) = i
  BY <1>4, <1>5, <1>7 DEF On
<1> DEFINE on == InLine(On(L), SortAddons(L))  n == Cardinality(On(L))
           W == StreamEnabled(L)  V == StreamEnabled(M)
           r == Unregister(reg, L[p].id)
<1>11. /\ n \in Nat /\ on \in [1..n -> On(L)]
       /\ \A k \in 1..n : on[k] \in DOMAIN L /\ on[k] \in On(L) /\ W[k] = L[on[k]]
       /\ \A i \in On(L) : \E k \in 1..n : on[k] = i
  BY WaterfallIs
<1>12. \A j, k \in 1..n : (on[j] = on[k] => j = k) /\ (j < k <=> <<on[j], on[k]>> \in SortAddons(L))
  <2>1. On(L) \in SUBSET DOMAIN L
    BY DEF On
  <2> QED
    BY <2>1, OrderIsStrict, InLineIs
<1>13. /\ reg \in Seq(Providers) /\ Len(reg) = n /\ DOMAIN reg = 1..n
       /\ \A k \in 1..n : reg[k].id = W[k].id
       /\ \A j, k \in DOMAIN reg : reg[j].id = reg[k].id => j = k
  BY ProvidersDiffer DEF InStep
<1>14. IsFiniteSet(On(M)) /\ Strict(On(M), SortAddons(M))
  <2>1. On(M) \in SUBSET DOMAIN M
    BY DEF On
  <2> QED
    BY <1>8, <2>1, OrderIsStrict
<1> HIDE DEF on, n, W
<1> DEFINE Picked(m, h) ==
               /\ m \in Nat /\ h \in [1..m -> 1..n]
               /\ \A j, k \in 1..m : j < k => h[j] < h[k]
               /\ \A k \in 1..m : on[h[k]] # p
               /\ \A i \in 1..n : on[i] # p => \E k \in 1..m : h[k] = i
               /\ r \in Seq(Providers) /\ Len(r) = m /\ \A k \in 1..m : r[k] = reg[h[k]]
<1> HIDE DEF Picked
<1>15. ASSUME NEW m, NEW h, Picked(m, h)
       PROVE  InStep(r, M, gone)
  <2> USE <1>15 DEF Picked
  <2> DEFINE g == [k \in 1..m |-> down(on[h[k]])]
  <2>1. ASSUME NEW k \in 1..m
        PROVE  h[k] \in 1..n /\ on[h[k]] \in DOMAIN L /\ on[h[k]] \in On(L) /\ on[h[k]] # p
    BY <1>11, <1>15
  <2>2. g \in [1..m -> On(M)] /\ \A k \in 1..m : g[k] = down(on[h[k]])
    BY <1>10, <2>1
  <2> HIDE DEF g
  <2>3. ASSUME NEW x \in On(M) PROVE \E k \in 1..m : g[k] = x
    <3>1. up(x) \in On(L) /\ up(x) # p /\ down(up(x)) = x
      BY <1>10
    <3>2. PICK i \in 1..n : on[i] = up(x)
      BY <1>11, <3>1
    <3>3. PICK k \in 1..m : h[k] = i
      BY <1>15, <3>1, <3>2
    <3> QED
      BY <2>2, <3>1, <3>2, <3>3
  <2>4. ASSUME NEW j \in 1..m, NEW k \in 1..m, j < k PROVE <<g[j], g[k]>> \in SortAddons(M)
    <3>1. h[j] < h[k]
      BY <1>15, <2>4
    <3>2. <<on[h[j]], on[h[k]]>> \in SortAddons(L)
      BY <1>12, <2>1, <3>1
    <3> QED
      BY <1>9, <2>1, <2>2, <3>2
  <2>5. g = InLine(On(M), SortAddons(M)) /\ m = Cardinality(On(M))
    <3>1. RowOf(On(M), SortAddons(M), m, g)
      BY <1>15, <2>2, <2>3, <2>4 DEF RowOf, Picked
    <3> QED
      BY <1>14, <3>1, OneLine
  <2>6. V \in Seq(AddonRecords) /\ Len(V) = m /\ \A k \in 1..m : V[k] = M[g[k]]
    BY <1>8, <2>5, WaterfallIs
  <2> HIDE DEF V
  <2>7. DOMAIN r = 1..m /\ DOMAIN V = 1..m
    BY <1>15, <2>6
  <2>8. ASSUME NEW k \in 1..m PROVE r[k].id = V[k].id
    <3>1. r[k].id = W[h[k]].id
      BY <1>13, <1>15, <2>1
    <3>2. W[h[k]] = L[on[h[k]]]
      BY <1>11, <2>1
    <3>3. V[k] = M[down(on[h[k]])]
      BY <2>2, <2>6
    <3>4. M[down(on[h[k]])] = L[on[h[k]]]
      BY <1>7, <2>1
    <3> QED
      BY <3>1, <3>2, <3>3, <3>4
  <2>9. IdSeq(r) = IdSeq(V)
    BY <2>7, <2>8 DEF IdSeq
  <2>10. Current(r, M, gone)
    <3>1. ASSUME NEW i \in DOMAIN r, NEW j \in DOMAIN M, r[i].id = M[j].id
          PROVE  r[i] = Built(M[j]) \/ r[i].id \in gone
      <4>1. h[i] \in DOMAIN reg /\ r[i] = reg[h[i]]
        BY <1>13, <1>15, <2>1, <2>7
      <4>2. up(j) \in DOMAIN L /\ M[j] = L[up(j)]
        BY <1>4
      <4> QED
        BY <3>1, <4>1, <4>2 DEF InStep, Current
    <3> QED
      BY <3>1 DEF Current
  <2> QED
    BY <1>15, <2>9, <2>10 DEF InStep, V
<1>16. ASSUME p \in On(L) PROVE InStep(r, M, gone)
  <2>1. PICK q \in 1..n : on[q] = p
    BY <1>11, <1>16
  <2>0. q \in 1..Len(reg)
    BY <1>13, <2>1
  <2>2. reg[q].id = L[p].id
    BY <1>11, <1>13, <2>1
  <2>3. L[p].id \in Ids(reg) /\ IndexOf(reg, L[p].id) = q
    BY <1>13, <2>1, <2>2 DEF Ids, IndexOf
  <2>4. r = RemoveAt(reg, q)
    BY <2>3 DEF Unregister
  <2> HIDE DEF r
  <2>5. /\ r \in Seq(Providers) /\ Len(r) = n - 1
        /\ \A k \in 1..(n - 1) : r[k] = IF k < q THEN reg[k] ELSE reg[k + 1]
    BY <1>13, <2>0, <2>4, TakenOut
  <2> DEFINE h == [k \in 1..(n - 1) |-> IF k < q THEN k ELSE k + 1]
  <2>6. n - 1 \in Nat /\ h \in [1..(n - 1) -> 1..n]
    BY <1>11, <2>1
  <2>7. \A j, k \in 1..(n - 1) : j < k => h[j] < h[k]
    BY <1>11, <2>1
  <2>8. \A k \in 1..(n - 1) : h[k] # q
    BY <1>11, <2>1
  <2>9. \A i \in 1..n : i # q => \E k \in 1..(n - 1) : h[k] = i
    <3> SUFFICES ASSUME NEW i \in 1..n, i # q PROVE \E k \in 1..(n - 1) : h[k] = i
      OBVIOUS
    <3>1. CASE i < q
      <4>1. i \in 1..(n - 1) /\ h[i] = i
        BY <1>11, <2>1, <3>1
      <4> QED
        BY <4>1
    <3>2. CASE ~(i < q)
      <4>1. i - 1 \in 1..(n - 1) /\ h[i - 1] = i
        BY <1>11, <2>1, <3>2
      <4> QED
        BY <4>1
    <3> QED
      BY <3>1, <3>2
  <2>10. \A k \in 1..(n - 1) : r[k] = reg[h[k]]
    BY <2>5
  <2> HIDE DEF h
  <2>11. \A k \in 1..(n - 1) : on[h[k]] # p
    BY <1>12, <2>1, <2>6, <2>8
  <2>12. \A i \in 1..n : on[i] # p => \E k \in 1..(n - 1) : h[k] = i
    BY <2>1, <2>9
  <2>13. InStep(r, M, gone)
    <3>1. Picked(n - 1, h)
      BY <2>5, <2>6, <2>7, <2>10, <2>11, <2>12 DEF Picked
    <3> QED
      BY <1>15, <3>1
  <2> QED
    BY <2>13 DEF r
<1>17. ASSUME p \notin On(L) PROVE InStep(r, M, gone)
  <2>1. L[p].id \notin Ids(reg)
    <3>1. ASSUME NEW k \in 1..n PROVE reg[k].id # L[p].id
      <4>1. on[k] \in DOMAIN L /\ on[k] # p
        BY <1>11, <1>17
      <4>2. reg[k].id = L[on[k]].id
        BY <1>11, <1>13
      <4> QED
        BY <1>1, <1>l, <4>1, <4>2 DEF WellListed
    <3> QED
      BY <1>13, <3>1 DEF Ids
  <2>2. r = reg
    BY <2>1 DEF Unregister
  <2> HIDE DEF r
  <2> DEFINE h == [k \in 1..n |-> k]
  <2>3. /\ h \in [1..n -> 1..n] /\ \A k \in 1..n : h[k] = k
        /\ \A j, k \in 1..n : j < k => h[j] < h[k]
    OBVIOUS
  <2> HIDE DEF h
  <2>4. \A k \in 1..n : on[h[k]] # p
    BY <1>11, <1>17, <2>3
  <2>5. \A i \in 1..n : on[i] # p => \E k \in 1..n : h[k] = i
    BY <2>3
  <2>6. r \in Seq(Providers) /\ Len(r) = n /\ \A k \in 1..n : r[k] = reg[h[k]]
    BY <1>13, <2>2, <2>3
  <2>7. InStep(r, M, gone)
    <3>1. Picked(n, h)
      BY <1>11, <2>3, <2>4, <2>5, <2>6 DEF Picked
    <3> QED
      BY <1>15, <3>1
  <2> QED
    BY <2>7 DEF r
<1> QED
  BY <1>2, <1>4, <1>8, <1>16, <1>17 DEF M, len

CatKinds == {"install", "remove", "enable", "timeout", "reorder", "reload"}

CatOps == [kind : CatKinds, id : Nat, url : Urls \cup {""}, arg : BOOLEAN,
           match : Nat \cup {NoRevision}]

Installs(q) == {i \in DOMAIN q : q[i].kind = "install"}

(* Every addon was asked for, and so was every one that will be.           *)
Room(list) == Len(list) + Cardinality(Installs(lockQueue)) <= catCounts.requests

(* TrustGate, of any list.                                                 *)
Trusted(list) ==
    \A i \in DOMAIN list :
        /\ list[i].enabled => list[i].asked \/ MayAutoEnable(list[i].admitted)
        /\ list[i].admission = "pending" => ~list[i].enabled

Listed(list) == WellListed(list) /\ Trusted(list) /\ Room(list)

CatShape ==
    /\ site \in [Urls -> [to : Urls, kind : Served]]
    /\ lockQueue \in Seq(CatOps)
    /\ \A i \in Installs(lockQueue) : lockQueue[i].url \in Urls
    /\ mgrRevision \in Nat
    /\ sharedRows \in [addons : Seq(AddonRecords), revision : Nat]
    /\ reloaded \subseteq 1..MaxRequests
    /\ lostUpdates \in 0..1
    /\ catCounts \in [requests : 0..MaxRequests, outside : Nat]

CatInv ==
    /\ CatShape
    /\ Listed(installed) /\ Listed(sharedRows.addons)
    /\ InStep(registry, installed, reloaded)

(* One more callback waits at most for one more install.                   *)
LEMMA QueueGrows ==
    ASSUME NEW q \in Seq(CatOps), NEW op \in CatOps
    PROVE  /\ Append(q, op) \in Seq(CatOps)
           /\ Cardinality(Installs(q)) \in Nat /\ Cardinality(Installs(Append(q, op))) \in Nat
           /\ Cardinality(Installs(Append(q, op))) <= Cardinality(Installs(q)) + 1
           /\ op.kind # "install" => Installs(Append(q, op)) = Installs(q)
           /\ op.kind = "install" => Installs(Append(q, op)) = Installs(q) \cup {Len(q) + 1}
           /\ \A i \in Installs(q) : Append(q, op)[i] = q[i]
           /\ Append(q, op)[Len(q) + 1] = op
<1> DEFINE r == Append(q, op)
<1>1. /\ r \in Seq(CatOps) /\ Len(q) \in Nat /\ DOMAIN q = 1..Len(q) /\ DOMAIN r = 1..Len(q) + 1
      /\ \A i \in 1..Len(q) : r[i] = q[i]
      /\ r[Len(q) + 1] = op
  OBVIOUS
<1> HIDE DEF r
<1>2. DOMAIN r = (DOMAIN q) \cup {Len(q) + 1}
  BY <1>1
<1>3. op.kind # "install" => Installs(r) = Installs(q)
  BY <1>1, <1>2 DEF Installs
<1>4. op.kind = "install" => Installs(r) = Installs(q) \cup {Len(q) + 1}
  BY <1>1, <1>2 DEF Installs
<1>5. IsFiniteSet(Installs(q))
  <2>1. 1 \in Int /\ Len(q) \in Int
    BY <1>1
  <2>2. IsFiniteSet(1..Len(q))
    BY <2>1, FS_Interval, Zenon
  <2>3. Installs(q) \in SUBSET (1..Len(q))
    BY <1>1 DEF Installs
  <2> QED
    BY <2>2, <2>3, FS_Subset
<1>6. Cardinality(Installs(q)) \in Nat
  BY <1>5, FS_CardinalityType
<1>7. /\ IsFiniteSet(Installs(q) \cup {Len(q) + 1})
      /\ Cardinality(Installs(q) \cup {Len(q) + 1}) \in {Cardinality(Installs(q)), Cardinality(Installs(q)) + 1}
  BY <1>5, FS_AddElement
<1>8. /\ Cardinality(Installs(r)) \in Nat
      /\ Cardinality(Installs(r)) <= Cardinality(Installs(q)) + 1
  <2>1. CASE op.kind = "install"
    <3>1. Cardinality(Installs(r)) \in {Cardinality(Installs(q)), Cardinality(Installs(q)) + 1}
      BY <1>4, <1>7, <2>1
    <3> QED
      BY <1>6, <3>1
  <2>2. CASE op.kind # "install"
    BY <1>3, <1>6, <2>2
  <2> QED
    BY <2>1, <2>2
<1>9. \A i \in Installs(q) : r[i] = q[i]
  BY <1>1 DEF Installs
<1> QED
  BY <1>1, <1>3, <1>4, <1>6, <1>8, <1>9 DEF r

(* The one whose turn it is waits no more.                                 *)
LEMMA QueueShrinks ==
    ASSUME NEW q \in Seq(CatOps), q # <<>>
    PROVE  LET m == Cardinality(Installs(Tail(q)))  n == Cardinality(Installs(q)) IN
           /\ Head(q) \in CatOps /\ Head(q) = q[1] /\ Tail(q) \in Seq(CatOps)
           /\ m \in Nat /\ n \in Nat /\ m <= n
           /\ Head(q).kind = "install" => m + 1 <= n /\ 1 \in Installs(q)
           /\ \A i \in Installs(Tail(q)) : i + 1 \in Installs(q) /\ Tail(q)[i] = q[i + 1]
<1> DEFINE t == Tail(q)  len == Len(q)
           later == [i \in Installs(t) |-> i + 1]
<1>1. /\ len \in Nat /\ len >= 1 /\ DOMAIN q = 1..len /\ DOMAIN t = 1..(len - 1)
      /\ t \in Seq(CatOps) /\ \A i \in 1..(len - 1) : t[i] = q[i + 1]
      /\ Head(q) = q[1] /\ Head(q) \in CatOps
  BY HeadTailProperties
<1> HIDE DEF t, len
<1>2. ASSUME NEW i \in Installs(t)
      PROVE  i \in Nat /\ i + 1 \in Installs(q) \ {1} /\ t[i] = q[i + 1]
  <2>1. i \in 1..(len - 1) /\ t[i].kind = "install" /\ t[i] = q[i + 1]
    BY <1>1 DEF Installs
  <2>2. i \in Nat /\ i + 1 \in 1..len /\ i + 1 # 1
    BY <1>1, <2>1
  <2> QED
    BY <1>1, <2>1, <2>2 DEF Installs
<1>3. IsFiniteSet(Installs(q))
  <2>1. 1 \in Int /\ len \in Int
    BY <1>1
  <2>2. IsFiniteSet(1..len)
    BY <2>1, FS_Interval, Zenon
  <2>3. Installs(q) \in SUBSET (1..len)
    BY <1>1 DEF Installs
  <2> QED
    BY <2>2, <2>3, FS_Subset
<1>4. /\ IsFiniteSet(Installs(q) \ {1})
      /\ Cardinality(Installs(q) \ {1}) = IF 1 \in Installs(q) THEN Cardinality(Installs(q)) - 1
                                                               ELSE Cardinality(Installs(q))
  BY <1>3, FS_RemoveElement
<1>5. later \in Injection(Installs(t), Installs(q) \ {1})
  BY <1>2 DEF Injection, IsInjective
<1> HIDE DEF later
<1>6. IsFiniteSet(Installs(t)) /\ Cardinality(Installs(t)) <= Cardinality(Installs(q) \ {1})
  BY <1>4, <1>5, FS_Injection
<1>7. Cardinality(Installs(t)) \in Nat /\ Cardinality(Installs(q)) \in Nat
  BY <1>3, <1>6, FS_CardinalityType
<1>8. Head(q).kind = "install" => 1 \in Installs(q)
  BY <1>1 DEF Installs
<1>9. /\ Cardinality(Installs(t)) <= Cardinality(Installs(q))
      /\ Head(q).kind = "install" => Cardinality(Installs(t)) + 1 <= Cardinality(Installs(q))
  BY <1>4, <1>6, <1>7, <1>8
<1> QED
  BY <1>1, <1>2, <1>7, <1>8, <1>9 DEF t

(* A request that joins the chain changes no addon.                        *)
LEMMA JoinKeeps ==
    ASSUME CatInv, NEW op \in CatOps, op.kind = "install" => op.url \in Urls, JoinChain(op)
    PROVE  CatInv'
<1>1. /\ CatShape /\ Listed(installed) /\ Listed(sharedRows.addons)
      /\ InStep(registry, installed, reloaded)
  BY DEF CatInv
<1>2. /\ lockQueue' = Append(lockQueue, op)
      /\ site' = site /\ installed' = installed /\ registry' = registry /\ mgrRevision' = mgrRevision
      /\ sharedRows' = sharedRows /\ reloaded' = reloaded /\ lostUpdates' = lostUpdates
  BY DEF JoinChain
<1>3. /\ catCounts' \in [requests : 0..MaxRequests, outside : Nat]
      /\ catCounts'.requests = catCounts.requests + 1 /\ catCounts.requests \in Nat
  BY <1>1, ManagerAssumption DEF JoinChain, CatCount, CatShape
<1>4. PICK q \in Seq(CatOps) : q = lockQueue
  BY <1>1 DEF CatShape
<1>5. /\ Append(q, op) \in Seq(CatOps)
      /\ Cardinality(Installs(q)) \in Nat /\ Cardinality(Installs(Append(q, op))) \in Nat
      /\ Cardinality(Installs(Append(q, op))) <= Cardinality(Installs(q)) + 1
      /\ op.kind # "install" => Installs(Append(q, op)) = Installs(q)
      /\ op.kind = "install" => Installs(Append(q, op)) = Installs(q) \cup {Len(q) + 1}
      /\ \A i \in Installs(q) : Append(q, op)[i] = q[i]
      /\ Append(q, op)[Len(q) + 1] = op
  BY QueueGrows
<1>6. \A i \in Installs(Append(q, op)) : Append(q, op)[i].url \in Urls
  BY <1>1, <1>4, <1>5 DEF CatShape
<1>7. CatShape'
  BY <1>1, <1>2, <1>3, <1>4, <1>5, <1>6 DEF CatShape
<1>8. ASSUME NEW list, Listed(list), Len(list) \in Nat
      PROVE  WellListed(list) /\ Trusted(list) /\ Len(list) + Cardinality(Installs(Append(q, op))) <= catCounts'.requests
  BY <1>3, <1>4, <1>5, <1>8 DEF Listed, Room
<1>9. Len(installed) \in Nat /\ Len(sharedRows.addons) \in Nat
  BY <1>1 DEF Listed, WellListed
<1>10. Listed(installed)' /\ Listed(sharedRows.addons)'
  <2>1. /\ WellListed(installed)' /\ Trusted(installed)'
        /\ WellListed(sharedRows.addons)' /\ Trusted(sharedRows.addons)'
    BY <1>1, <1>2 DEF Listed, WellListed, Trusted
  <2>2. Room(installed)'
    BY <1>1, <1>2, <1>4, <1>8, <1>9 DEF Room
  <2>3. Room(sharedRows.addons)'
    BY <1>1, <1>2, <1>4, <1>8, <1>9 DEF Room
  <2> QED
    BY <2>1, <2>2, <2>3 DEF Listed
<1>11. InStep(registry, installed, reloaded)'
  BY <1>1, <1>2 DEF InStep, Current
<1> QED
  BY <1>7, <1>10, <1>11 DEF CatInv

(* A callback that has its turn leaves the rest of the queue in order, and *)
(* room for the addons there are.                                          *)
LEMMA TurnTaken ==
    ASSUME CatShape, lockQueue # <<>>, lockQueue' = Tail(lockQueue), catCounts' = catCounts
    PROVE  /\ lockQueue' \in Seq(CatOps) /\ Head(lockQueue) \in CatOps
           /\ \A i \in Installs(lockQueue)' : lockQueue'[i].url \in Urls
           /\ Head(lockQueue).kind = "install" => Head(lockQueue).url \in Urls
           /\ \A list, more :
                  /\ Room(list) /\ Len(list) \in Nat /\ Len(more) \in Nat
                  /\ Len(more) <= Len(list) + (IF Head(lockQueue).kind = "install" THEN 1 ELSE 0)
                  => Len(more) + Cardinality(Installs(Tail(lockQueue))) <= catCounts.requests
<1>1. PICK q \in Seq(CatOps) : q = lockQueue /\ q # <<>>
  BY DEF CatShape
<1> DEFINE m == Cardinality(Installs(Tail(q)))  n == Cardinality(Installs(q))
<1>2. /\ Head(q) \in CatOps /\ Head(q) = q[1] /\ Tail(q) \in Seq(CatOps)
      /\ m \in Nat /\ n \in Nat /\ m <= n
      /\ Head(q).kind = "install" => m + 1 <= n /\ 1 \in Installs(q)
      /\ \A i \in Installs(Tail(q)) : i + 1 \in Installs(q) /\ Tail(q)[i] = q[i + 1]
  BY <1>1, QueueShrinks
<1>3. \A i \in Installs(q) : q[i].url \in Urls
  BY <1>1 DEF CatShape
<1>4. \A i \in Installs(Tail(q)) : Tail(q)[i].url \in Urls
  BY <1>2, <1>3
<1>5. Head(q).kind = "install" => Head(q).url \in Urls
  BY <1>2, <1>3
<1>6. catCounts.requests \in Nat
  BY DEF CatShape
<1>7. ASSUME NEW list, NEW more, Room(list), Len(list) \in Nat, Len(more) \in Nat,
             Len(more) <= Len(list) + (IF Head(q).kind = "install" THEN 1 ELSE 0)
      PROVE  Len(more) + m <= catCounts.requests
  <2>1. Len(list) + n <= catCounts.requests
    BY <1>1, <1>7 DEF Room
  <2>2. CASE Head(q).kind = "install"
    BY <1>2, <1>6, <1>7, <2>1, <2>2
  <2>3. CASE Head(q).kind # "install"
    BY <1>2, <1>6, <1>7, <2>1, <2>3
  <2> QED
    BY <2>2, <2>3
<1> QED
  BY <1>1, <1>2, <1>4, <1>5, <1>7

(* A mutation that commits a list that is in order, with the registry      *)
(* after it, leaves both in order.                                         *)
LEMMA CommitKeeps ==
    ASSUME CatInv, lockQueue # <<>>, lockQueue' = Tail(lockQueue), site' = site,
           catCounts' = catCounts, NEW L, Commit(L), WellListed(L), Trusted(L),
           Len(L) <= Len(installed) + (IF Head(lockQueue).kind = "install" THEN 1 ELSE 0),
           InStep(registry', L, reloaded)
    PROVE  CatInv'
<1>1. /\ CatShape /\ Listed(installed)
  BY DEF CatInv
<1>2. /\ installed' = L /\ mgrRevision' = mgrRevision + 1
      /\ sharedRows' = [addons |-> L, revision |-> mgrRevision + 1]
      /\ lostUpdates' \in 0..1 /\ reloaded' = reloaded
  BY <1>1 DEF Commit, CatShape
<1>3. /\ lockQueue' \in Seq(CatOps)
      /\ \A i \in Installs(lockQueue)' : lockQueue'[i].url \in Urls
  BY <1>1, TurnTaken
<1>4. Len(L) \in Nat /\ Len(installed) \in Nat /\ L \in Seq(AddonRecords)
  BY <1>1 DEF Listed, WellListed
<1>5. Len(L) + Cardinality(Installs(Tail(lockQueue))) <= catCounts.requests
  BY <1>1, <1>4, TurnTaken DEF Listed
<1>6. mgrRevision + 1 \in Nat
  BY <1>1 DEF CatShape
<1>7. CatShape'
  BY <1>1, <1>2, <1>3, <1>4, <1>6 DEF CatShape, Installs
<1>8. sharedRows'.addons = L
  BY <1>2
<1>9. Listed(installed)' /\ Listed(sharedRows.addons)'
  <2>1. Room(installed)' /\ Room(sharedRows.addons)'
    BY <1>2, <1>5, <1>8 DEF Room
  <2>2. /\ WellListed(installed)' /\ Trusted(installed)'
        /\ WellListed(sharedRows.addons)' /\ Trusted(sharedRows.addons)'
    BY <1>2, <1>8 DEF WellListed, Trusted
  <2> QED
    BY <2>1, <2>2 DEF Listed
<1>10. InStep(registry, installed, reloaded)'
  BY <1>2 DEF InStep, Current
<1> QED
  BY <1>7, <1>9, <1>10 DEF CatInv

(* A callback that returns early changes no addon.                         *)
LEMMA NothingKeeps ==
    ASSUME CatInv, lockQueue # <<>>, lockQueue' = Tail(lockQueue), site' = site,
           catCounts' = catCounts, CatNothing
    PROVE  CatInv'
<1>1. /\ CatShape /\ Listed(installed) /\ Listed(sharedRows.addons)
      /\ InStep(registry, installed, reloaded)
  BY DEF CatInv
<1>2. /\ installed' = installed /\ registry' = registry /\ mgrRevision' = mgrRevision
      /\ sharedRows' = sharedRows /\ reloaded' = reloaded /\ lostUpdates' = lostUpdates
  BY DEF CatNothing
<1>3. /\ lockQueue' \in Seq(CatOps)
      /\ \A i \in Installs(lockQueue)' : lockQueue'[i].url \in Urls
  BY <1>1, TurnTaken
<1>4. Len(installed) \in Nat /\ Len(sharedRows.addons) \in Nat
  BY <1>1 DEF Listed, WellListed
<1>5. ASSUME NEW list, Room(list), Len(list) \in Nat
      PROVE  Len(list) + Cardinality(Installs(Tail(lockQueue))) <= catCounts.requests
  <2>1. Len(list) <= Len(list) + (IF Head(lockQueue).kind = "install" THEN 1 ELSE 0)
    BY <1>5
  <2> QED
    BY <1>1, <1>5, <2>1, TurnTaken
<1>6. CatShape'
  BY <1>1, <1>2, <1>3 DEF CatShape, Installs
<1>7. Room(installed)' /\ Room(sharedRows.addons)'
  BY <1>1, <1>2, <1>4, <1>5 DEF Room, Listed
<1>8. /\ WellListed(installed)' /\ Trusted(installed)'
      /\ WellListed(sharedRows.addons)' /\ Trusted(sharedRows.addons)'
  BY <1>1, <1>2 DEF Listed, WellListed, Trusted
<1>9. InStep(registry, installed, reloaded)'
  BY <1>1, <1>2 DEF InStep, Current
<1> QED
  BY <1>6, <1>7, <1>8, <1>9 DEF CatInv, Listed

(* Another version of an addon takes its place.                            *)
Replaced(L, p, a, M) ==
    /\ WellListed(L) /\ p \in DOMAIN L /\ a \in AddonRecords
    /\ a.id = L[p].id /\ a.order = L[p].order /\ M = [L EXCEPT ![p] = a]

LEMMA Changed ==
    ASSUME NEW L, NEW p, NEW a, NEW M, Replaced(L, p, a, M)
    PROVE  /\ WellListed(M) /\ Len(M) = Len(L) /\ DOMAIN M = DOMAIN L
           /\ M[p] = a /\ \A j \in DOMAIN L : j # p => M[j] = L[j]
<1>1. /\ WellListed(L) /\ p \in DOMAIN L /\ a \in AddonRecords
      /\ a.id = L[p].id /\ a.order = L[p].order /\ M = [L EXCEPT ![p] = a]
      /\ L \in Seq(AddonRecords) /\ DOMAIN L = 1..Len(L)
  BY DEF Replaced, WellListed
<1>2. /\ M \in Seq(AddonRecords) /\ Len(M) = Len(L) /\ DOMAIN M = DOMAIN L
      /\ M[p] = a /\ \A j \in DOMAIN L : j # p => M[j] = L[j]
  BY <1>1
<1>3. \A j \in DOMAIN L : M[j].id = L[j].id /\ M[j].order = L[j].order
  BY <1>1, <1>2
<1>4. \A i, j \in DOMAIN M : i # j => M[i].id # M[j].id /\ M[i].order # M[j].order
  BY <1>1, <1>2, <1>3 DEF WellListed
<1> QED
  BY <1>2, <1>4 DEF WellListed

(* New numbers, one for each addon.                                        *)
LEMMA RenumberedIs ==
    ASSUME NEW L, WellListed(L)
    PROVE  /\ WellListed(Renumbered(L)) /\ Len(Renumbered(L)) = Len(L)
           /\ DOMAIN Renumbered(L) = DOMAIN L
           /\ \A i \in DOMAIN L : \E n \in Nat : Renumbered(L)[i] = [L[i] EXCEPT !.order = n]
<1> DEFINE M == Renumbered(L)
           rank(i) == Cardinality(Below(DOMAIN L, SortAddons(L), i))
<1>1. L \in Seq(AddonRecords) /\ Len(L) \in Nat /\ DOMAIN L = 1..Len(L)
  BY DEF WellListed
<1>2. IsFiniteSet(DOMAIN L) /\ Strict(DOMAIN L, SortAddons(L))
  BY OrderIsStrict
<1>3. /\ Cardinality(DOMAIN L) \in Nat
      /\ \A i \in DOMAIN L : rank(i) \in 0..Cardinality(DOMAIN L) - 1
      /\ \A i, j \in DOMAIN L : rank(i) = rank(j) => i = j
  BY <1>2, RanksRise
<1>4. M = [i \in DOMAIN L |-> [L[i] EXCEPT !.order = rank(i)]]
  BY DEF Renumbered, Below
<1> HIDE DEF rank, M
<1>5. ASSUME NEW i \in DOMAIN L
      PROVE  /\ L[i] \in AddonRecords /\ rank(i) \in Nat
             /\ M[i] = [L[i] EXCEPT !.order = rank(i)]
  BY <1>1, <1>3, <1>4
<1>6. ASSUME NEW i \in DOMAIN L
      PROVE  M[i] \in AddonRecords /\ M[i].id = L[i].id /\ M[i].order = rank(i)
  <2>1. PICK s : s = L[i]
    OBVIOUS
  <2>2. PICK n : n = rank(i)
    OBVIOUS
  <2>3. s \in AddonRecords /\ n \in Nat /\ M[i] = [s EXCEPT !.order = n]
    BY <1>5, <2>1, <2>2
  <2>4. PICK t : t = [s EXCEPT !.order = n]
    OBVIOUS
  <2>5. t \in AddonRecords
    BY <2>3, <2>4 DEF AddonRecords
  <2>6. t.id = s.id /\ t.order = n
    BY <2>3, <2>4 DEF AddonRecords
  <2> QED
    BY <2>1, <2>2, <2>3, <2>4, <2>5, <2>6
<1>7. DOMAIN M = 1..Len(L) /\ M \in [1..Len(L) -> AddonRecords]
  BY <1>1, <1>4, <1>6
<1>8. M \in Seq(AddonRecords) /\ Len(M) = Len(L) /\ DOMAIN M = DOMAIN L
  BY <1>1, <1>7
<1>9. \A i, j \in DOMAIN M : i # j => M[i].id # M[j].id /\ M[i].order # M[j].order
  BY <1>3, <1>6, <1>8 DEF WellListed
<1> QED
  BY <1>5, <1>8, <1>9 DEF WellListed, M

(* Providers that need no change are those of the new list once they are   *)
(* reconciled with it.                                                     *)
LEMMA StillFollows ==
    ASSUME NEW L, NEW reg, NEW gone, InStep(reg, L, gone), NEW M, WellListed(M),
           \A j \in DOMAIN M : \E i \in DOMAIN L : M[j].id = L[i].id /\ Built(M[j]) = Built(L[i])
    PROVE  InStep(Reconcile(reg, M), M, gone)
<1>1. ASSUME NEW i \in DOMAIN reg, NEW j \in On(M), reg[i].id = M[j].id
      PROVE  reg[i] = Built(M[j]) \/ reg[i].id \in gone
  <2>1. j \in DOMAIN M
    BY DEF On
  <2>2. PICK k \in DOMAIN L : M[j].id = L[k].id /\ Built(M[j]) = Built(L[k])
    BY <2>1
  <2> QED
    BY <1>1, <2>2 DEF InStep, Current
<1>2. reg \in Seq(Providers)
  BY DEF InStep
<1> QED
  BY <1>1, <1>2, ReconcileFollows

(* The addon of an id in the list.                                         *)
LEMMA IndexIs ==
    ASSUME NEW L, WellListed(L), NEW id \in Ids(L)
    PROVE  /\ IndexOf(L, id) \in DOMAIN L /\ L[IndexOf(L, id)].id = id
           /\ L[IndexOf(L, id)] \in AddonRecords
BY DEF IndexOf, Ids, WellListed

(* A removal takes its addon and its provider, and no other moves.         *)
LEMMA UninstallKeeps == CatInv /\ Uninstall => CatInv'
<1> SUFFICES ASSUME CatInv, Uninstall PROVE CatInv'
  OBVIOUS
<1>1. /\ lockQueue # <<>> /\ lockQueue' = Tail(lockQueue) /\ site' = site /\ catCounts' = catCounts
  BY DEF Uninstall, CatTurn
<1>2. Listed(installed) /\ InStep(registry, installed, reloaded)
  BY DEF CatInv
<1>3. PICK id : id = Head(lockQueue).id
  OBVIOUS
<1>4. CASE id \notin Ids(installed)
  BY <1>1, <1>3, <1>4, NothingKeeps DEF Uninstall
<1>5. CASE id \in Ids(installed)
  <2>1. PICK p \in DOMAIN installed : p = IndexOf(installed, id) /\ installed[p].id = id
    BY <1>2, <1>5, IndexIs DEF Listed
  <2>2. PICK L, M : L = installed /\ M = RemoveAt(L, p)
    OBVIOUS
  <2>3. WellListed(L) /\ p \in 1..Len(L) /\ Len(L) \in Nat
    BY <1>2, <2>1, <2>2 DEF Listed, WellListed
  <2>4. /\ WellListed(M) /\ Len(M) = Len(L) - 1
        /\ \A i \in DOMAIN M : \E j \in DOMAIN L : M[i] = L[j]
        /\ InStep(Unregister(registry, L[p].id), M, reloaded)
    BY <1>2, <2>2, <2>3, RemovalFollows
  <2>5. Commit(M) /\ registry' = Unregister(registry, L[p].id)
    BY <1>3, <1>5, <2>1, <2>2 DEF Uninstall
  <2>6. Trusted(M)
    BY <1>2, <2>2, <2>4 DEF Listed, Trusted
  <2>7. Len(M) <= Len(installed) + (IF Head(lockQueue).kind = "install" THEN 1 ELSE 0)
    BY <2>2, <2>3, <2>4
  <2> QED
    BY <1>1, <2>4, <2>5, <2>6, <2>7, CommitKeeps
<1> QED
  BY <1>4, <1>5

(* An addon turned on or off keeps its provider's settings.                *)
LEMMA SetEnabledKeeps == CatInv /\ SetEnabled => CatInv'
<1> SUFFICES ASSUME CatInv, SetEnabled PROVE CatInv'
  OBVIOUS
<1>1. /\ lockQueue # <<>> /\ lockQueue' = Tail(lockQueue) /\ site' = site /\ catCounts' = catCounts
  BY DEF SetEnabled, CatTurn
<1>2. Listed(installed) /\ InStep(registry, installed, reloaded)
  BY DEF CatInv
<1>3. PICK id \in Nat, on \in BOOLEAN : id = Head(lockQueue).id /\ on = Head(lockQueue).arg
  BY <1>1, TurnTaken DEF CatInv, CatOps
<1>4. CASE id \notin Ids(installed)
  BY <1>1, <1>3, <1>4, NothingKeeps DEF SetEnabled
<1>5. CASE id \in Ids(installed)
  <2>1. PICK L : L = installed
    OBVIOUS
  <2>2. WellListed(L) /\ Trusted(L) /\ InStep(registry, L, reloaded)
    BY <1>2, <2>1 DEF Listed
  <2>3. PICK p \in DOMAIN L : p = IndexOf(L, id) /\ L[p].id = id /\ L[p] \in AddonRecords
    BY <1>5, <2>1, <2>2, IndexIs
  <2>4. PICK a : a = [L[p] EXCEPT !.enabled = on,
                                  !.admission = Toggled(on), !.asked = TRUE]
    OBVIOUS
  <2>5. /\ a \in AddonRecords /\ a.id = L[p].id /\ a.order = L[p].order /\ a.asked = TRUE
        /\ a.admission # "pending" /\ Built(a) = Built(L[p])
    BY <2>3, <2>4 DEF AddonRecords, Built, Toggled
  <2>6. PICK M : M = [L EXCEPT ![p] = a]
    OBVIOUS
  <2>7. /\ WellListed(M) /\ Len(M) = Len(L) /\ DOMAIN M = DOMAIN L
        /\ M[p] = a /\ \A j \in DOMAIN L : j # p => M[j] = L[j]
    <3>1. Replaced(L, p, a, M)
      BY <2>2, <2>3, <2>5, <2>6 DEF Replaced
    <3> QED
      BY <3>1, Changed
  <2>8. M = [L EXCEPT ![p].enabled = on, ![p].admission = Toggled(on), ![p].asked = TRUE]
    BY <2>4, <2>6
  <2>9. Commit(M) /\ registry' = Reconcile(registry, M)
    BY <1>3, <1>5, <2>1, <2>3, <2>8 DEF SetEnabled
  <2>10. Trusted(M)
    BY <2>2, <2>5, <2>7 DEF Trusted
  <2>11. \A j \in DOMAIN M : \E i \in DOMAIN L : M[j].id = L[i].id /\ Built(M[j]) = Built(L[i])
    BY <2>5, <2>7
  <2>12. InStep(registry', M, reloaded)
    BY <2>2, <2>7, <2>9, <2>11, StillFollows
  <2>13. Len(M) <= Len(installed) + (IF Head(lockQueue).kind = "install" THEN 1 ELSE 0)
    <3>1. Len(L) \in Nat
      BY <2>2 DEF WellListed
    <3> QED
      BY <2>1, <2>7, <3>1
  <2> QED
    BY <1>1, <2>7, <2>9, <2>10, <2>12, <2>13, CommitKeeps
<1> QED
  BY <1>4, <1>5

(* An addon that changes is registered anew: its provider has the settings *)
(* of the new list, and the others those of the old one.                   *)
LEMMA AnewFollows ==
    ASSUME NEW L, NEW p, NEW a, NEW M, Replaced(L, p, a, M), NEW reg, NEW gone,
           InStep(reg, L, gone)
    PROVE  InStep(Reconcile(Register(Unregister(reg, a.id), a), M), M, gone)
<1> DEFINE u == Unregister(reg, a.id)  r == Register(u, a)
<1>1. /\ WellListed(M) /\ Len(M) = Len(L) /\ DOMAIN M = DOMAIN L
      /\ M[p] = a /\ \A j \in DOMAIN L : j # p => M[j] = L[j]
  BY Changed
<1>w. /\ WellListed(L) /\ p \in DOMAIN L /\ a \in AddonRecords
      /\ a.id = L[p].id /\ a.order = L[p].order
  BY DEF Replaced
<1>2. /\ reg \in Seq(Providers)
      /\ \A j, k \in DOMAIN reg : reg[j].id = reg[k].id => j = k
  BY <1>w, ProvidersDiffer DEF InStep
<1>3. /\ u \in Seq(Providers)
      /\ \A i \in DOMAIN u : u[i].id # a.id /\ \E j \in DOMAIN reg : u[i] = reg[j]
  BY <1>2, Unregistered
<1> HIDE DEF u
<1>4. /\ r \in Seq(Providers)
      /\ \A i \in DOMAIN r : r[i] = Built(a) \/ \E j \in DOMAIN u : r[i] = u[j]
  BY <1>3, <1>w, Registered
<1> HIDE DEF r
<1>5. ASSUME NEW i \in DOMAIN r, NEW j \in On(M), r[i].id = M[j].id
      PROVE  r[i] = Built(M[j]) \/ r[i].id \in gone
  <2>1. j \in DOMAIN M
    BY DEF On
  <2>2. CASE r[i] = Built(a)
    <3>1. r[i].id = M[p].id
      BY <1>1, <1>w, <2>2, BuiltTypes
    <3>2. j = p
      BY <1>1, <1>5, <1>w, <2>1, <3>1 DEF WellListed
    <3> QED
      BY <1>1, <2>2, <3>2
  <2>3. ASSUME NEW k \in DOMAIN u, r[i] = u[k] PROVE r[i] = Built(M[j]) \/ r[i].id \in gone
    <3>1. r[i].id # a.id /\ \E m \in DOMAIN reg : r[i] = reg[m]
      BY <1>3, <2>3
    <3>2. j # p /\ j \in DOMAIN L /\ M[j] = L[j]
      BY <1>1, <1>5, <1>w, <2>1, <3>1
    <3> QED
      BY <1>5, <3>1, <3>2 DEF InStep, Current
  <2> QED
    BY <1>4, <2>2, <2>3
<1> QED
  BY <1>1, <1>4, <1>5, ReconcileFollows DEF r, u

(* A new timeout reaches the provider.                                     *)
LEMMA SetTimeoutKeeps == CatInv /\ SetTimeout => CatInv'
<1> SUFFICES ASSUME CatInv, SetTimeout PROVE CatInv'
  OBVIOUS
<1>1. /\ lockQueue # <<>> /\ lockQueue' = Tail(lockQueue) /\ site' = site /\ catCounts' = catCounts
  BY DEF SetTimeout, CatTurn
<1>2. Listed(installed) /\ InStep(registry, installed, reloaded)
  BY DEF CatInv
<1>3. PICK id : id = Head(lockQueue).id
  OBVIOUS
<1>4. CASE id \notin Ids(installed)
  BY <1>1, <1>3, <1>4, NothingKeeps DEF SetTimeout
<1>5. CASE id \in Ids(installed)
  <2>1. PICK L : L = installed
    OBVIOUS
  <2>2. WellListed(L) /\ Trusted(L) /\ InStep(registry, L, reloaded)
    BY <1>2, <2>1 DEF Listed
  <2>3. PICK p \in DOMAIN L : p = IndexOf(L, id) /\ L[p].id = id /\ L[p] \in AddonRecords
    BY <1>5, <2>1, <2>2, IndexIs
  <2>4. PICK a : a = [L[p] EXCEPT !.timeout = NewTimeout]
    OBVIOUS
  <2>5. /\ a \in AddonRecords /\ a.id = L[p].id /\ a.order = L[p].order /\ a.asked = L[p].asked
        /\ a.enabled = L[p].enabled /\ a.admitted = L[p].admitted
        /\ a.admission = L[p].admission
    BY <2>3, <2>4 DEF AddonRecords
  <2>6. PICK M : M = [L EXCEPT ![p] = a]
    OBVIOUS
  <2>7. /\ WellListed(M) /\ Len(M) = Len(L) /\ DOMAIN M = DOMAIN L
        /\ M[p] = a /\ \A j \in DOMAIN L : j # p => M[j] = L[j]
    <3>1. Replaced(L, p, a, M)
      BY <2>2, <2>3, <2>5, <2>6 DEF Replaced
    <3> QED
      BY <3>1, Changed
  <2>8. M = [L EXCEPT ![p].timeout = NewTimeout]
    BY <2>4, <2>6
  <2>9. M[IndexOf(M, id)] = a
    <3>1. id \in Ids(M)
      BY <2>3, <2>5, <2>7 DEF Ids
    <3>2. IndexOf(M, id) \in DOMAIN M /\ M[IndexOf(M, id)].id = id
      BY <2>7, <3>1, IndexIs
    <3>3. IndexOf(M, id) = p
      BY <2>3, <2>5, <2>7, <3>2 DEF WellListed
    <3> QED
      BY <2>7, <3>3
  <2>10. Commit(M) /\ registry' = Reconcile(Register(Unregister(registry, a.id), a), M)
    BY <1>3, <1>5, <2>1, <2>3, <2>5, <2>8, <2>9 DEF SetTimeout
  <2>11. Trusted(M)
    BY <2>2, <2>5, <2>7 DEF Trusted
  <2>12. InStep(registry', M, reloaded)
    <3>1. Replaced(L, p, a, M)
      BY <2>2, <2>3, <2>5, <2>6 DEF Replaced
    <3> QED
      BY <2>2, <2>10, <3>1, AnewFollows
  <2>13. Len(M) <= Len(installed) + (IF Head(lockQueue).kind = "install" THEN 1 ELSE 0)
    <3>1. Len(L) \in Nat
      BY <2>2 DEF WellListed
    <3> QED
      BY <2>1, <2>7, <3>1
  <2> QED
    BY <1>1, <2>7, <2>10, <2>11, <2>12, <2>13, CommitKeeps
<1> QED
  BY <1>4, <1>5

(* A list in another order, and numbered anew.                             *)
LEMMA ReorderKeeps == CatInv /\ Reorder => CatInv'
<1> SUFFICES ASSUME CatInv, Reorder PROVE CatInv'
  OBVIOUS
<1>1. /\ lockQueue # <<>> /\ lockQueue' = Tail(lockQueue) /\ site' = site /\ catCounts' = catCounts
  BY DEF Reorder, CatTurn
<1>2. Listed(installed) /\ InStep(registry, installed, reloaded)
  BY DEF CatInv
<1>3. PICK id, L : id = Head(lockQueue).id /\ L = installed
  OBVIOUS
<1>4. /\ WellListed(L) /\ Trusted(L) /\ InStep(registry, L, reloaded)
      /\ L \in Seq(AddonRecords) /\ Len(L) \in Nat /\ DOMAIN L = 1..Len(L)
  BY <1>2, <1>3 DEF Listed, WellListed
<1> DEFINE place(i) == IF L[i].id = id THEN 0 ELSE i
<1>5. PICK K : K = [i \in DOMAIN L |-> [L[i] EXCEPT !.order = place(i)]]
  OBVIOUS
<1>6. ASSUME NEW i \in DOMAIN L
      PROVE  /\ L[i] \in AddonRecords /\ place(i) \in Nat
             /\ K[i] = [L[i] EXCEPT !.order = place(i)]
  BY <1>4, <1>5
<1>7. ASSUME NEW i \in DOMAIN L, NEW j \in DOMAIN L, i # j PROVE place(i) # place(j)
  BY <1>4, <1>7 DEF WellListed
<1> HIDE DEF place
<1>8. ASSUME NEW i \in DOMAIN L
      PROVE  /\ K[i] \in AddonRecords /\ K[i].id = L[i].id /\ K[i].order = place(i)
             /\ Built(K[i]) = Built(L[i])
             /\ K[i].enabled = L[i].enabled /\ K[i].asked = L[i].asked /\ K[i].admitted = L[i].admitted
             /\ K[i].admission = L[i].admission
  <2>1. PICK n \in Nat : n = place(i)
    BY <1>6
  <2>2. L[i] \in AddonRecords /\ K[i] = [L[i] EXCEPT !.order = n]
    BY <1>6, <2>1
  <2>3. K[i] \in AddonRecords /\ K[i].id = L[i].id /\ K[i].order = n
    BY <2>2 DEF AddonRecords
  <2>4. /\ K[i].enabled = L[i].enabled /\ K[i].asked = L[i].asked /\ K[i].admitted = L[i].admitted
        /\ K[i].admission = L[i].admission /\ Built(K[i]) = Built(L[i])
    BY <2>2 DEF AddonRecords, Built
  <2> QED
    BY <2>1, <2>3, <2>4
<1>9. DOMAIN K = 1..Len(L) /\ K \in [1..Len(L) -> AddonRecords]
  BY <1>4, <1>5, <1>8
<1>10. K \in Seq(AddonRecords) /\ Len(K) = Len(L) /\ DOMAIN K = DOMAIN L
  BY <1>4, <1>9
<1>11. \A i, j \in DOMAIN K : i # j => K[i].id # K[j].id /\ K[i].order # K[j].order
  BY <1>4, <1>7, <1>8, <1>10 DEF WellListed
<1>12. WellListed(K)
  BY <1>10, <1>11 DEF WellListed
<1>13. PICK M : M = Renumbered(K)
  OBVIOUS
<1>14. /\ WellListed(M) /\ Len(M) = Len(L) /\ DOMAIN M = DOMAIN L
       /\ \A i \in DOMAIN L : \E n \in Nat : M[i] = [K[i] EXCEPT !.order = n]
  <2>1. /\ WellListed(M) /\ Len(M) = Len(K) /\ DOMAIN M = DOMAIN K
        /\ \A i \in DOMAIN K : \E n \in Nat : M[i] = [K[i] EXCEPT !.order = n]
    BY <1>12, <1>13, RenumberedIs
  <2> QED
    BY <1>10, <2>1
<1>15. ASSUME NEW i \in DOMAIN L
       PROVE  /\ M[i].id = L[i].id /\ Built(M[i]) = Built(L[i])
              /\ M[i].enabled = L[i].enabled /\ M[i].asked = L[i].asked /\ M[i].admitted = L[i].admitted
              /\ M[i].admission = L[i].admission
  <2>1. PICK n \in Nat : M[i] = [K[i] EXCEPT !.order = n]
    BY <1>14
  <2>2. /\ M[i].id = K[i].id /\ Built(M[i]) = Built(K[i])
        /\ M[i].enabled = K[i].enabled /\ M[i].asked = K[i].asked /\ M[i].admitted = K[i].admitted
        /\ M[i].admission = K[i].admission
    BY <1>8, <2>1 DEF AddonRecords, Built
  <2> QED
    BY <1>8, <2>2
<1>16. Commit(M) /\ registry' = Reconcile(registry, M)
  <2>1. K = [i \in DOMAIN installed |->
                [installed[i] EXCEPT !.order = IF installed[i].id = Head(lockQueue).id THEN 0 ELSE i]]
    BY <1>3, <1>5 DEF place
  <2> QED
    BY <1>13, <2>1 DEF Reorder
<1>17. Trusted(M)
  BY <1>4, <1>14, <1>15 DEF Trusted
<1>18. InStep(registry', M, reloaded)
  <2>1. \A j \in DOMAIN M : \E i \in DOMAIN L : M[j].id = L[i].id /\ Built(M[j]) = Built(L[i])
    BY <1>14, <1>15
  <2> QED
    BY <1>4, <1>14, <1>16, <2>1, StillFollows
<1>19. Len(M) <= Len(installed) + (IF Head(lockQueue).kind = "install" THEN 1 ELSE 0)
  BY <1>3, <1>4, <1>14
<1> QED
  BY <1>1, <1>14, <1>16, <1>17, <1>18, <1>19, CommitKeeps

(* An addon that is new comes last, under an id that is free.              *)
LEMMA NewFollows ==
    ASSUME NEW L, WellListed(L), NEW reg, NEW gone, InStep(reg, L, gone),
           NEW a \in AddonRecords, a.id \notin Ids(L), \A i \in DOMAIN L : L[i].order < a.order
    PROVE  LET M == Append(L, a) IN
           /\ WellListed(M) /\ Len(M) = Len(L) + 1
           /\ \A i \in DOMAIN M : M[i] = a \/ \E j \in DOMAIN L : M[i] = L[j]
           /\ InStep(Reconcile(reg, M), M, gone)
<1> DEFINE M == Append(L, a)
<1>1. L \in Seq(AddonRecords) /\ Len(L) \in Nat /\ DOMAIN L = 1..Len(L)
  BY DEF WellListed
<1>2. /\ M \in Seq(AddonRecords) /\ Len(M) = Len(L) + 1 /\ DOMAIN M = 1..Len(L) + 1
      /\ \A i \in DOMAIN L : M[i] = L[i]
      /\ M[Len(L) + 1] = a
  BY <1>1
<1> HIDE DEF M
<1>3. ASSUME NEW i \in DOMAIN M PROVE i \in DOMAIN L \/ (i \notin DOMAIN L /\ i = Len(L) + 1)
  BY <1>1, <1>2
<1>4. ASSUME NEW i \in DOMAIN L
      PROVE  L[i].id # a.id /\ L[i].order # a.order /\ L[i].order \in Nat
  <2>1. L[i] \in AddonRecords
    BY <1>1
  <2>2. L[i].order \in Nat /\ a.order \in Nat /\ L[i].order < a.order
    BY <2>1 DEF AddonRecords
  <2> QED
    BY <2>2 DEF Ids
<1>5. ASSUME NEW i \in DOMAIN M, NEW j \in DOMAIN M, i # j
      PROVE  M[i].id # M[j].id /\ M[i].order # M[j].order
  <2>1. CASE i \in DOMAIN L /\ j \in DOMAIN L
    BY <1>2, <1>5, <2>1 DEF WellListed
  <2>2. CASE i \in DOMAIN L /\ j = Len(L) + 1
    BY <1>2, <1>4, <2>2
  <2>3. CASE i = Len(L) + 1 /\ j \in DOMAIN L
    BY <1>2, <1>4, <2>3
  <2> QED
    BY <1>3, <1>5, <2>1, <2>2, <2>3
<1>6. WellListed(M)
  BY <1>2, <1>5 DEF WellListed
<1>7. /\ reg \in Seq(Providers)
      /\ \A k \in DOMAIN reg : \E j \in DOMAIN L : reg[k].id = L[j].id
  BY ProvidersDiffer DEF InStep
<1>8. ASSUME NEW i \in DOMAIN reg, NEW j \in On(M), reg[i].id = M[j].id
      PROVE  reg[i] = Built(M[j]) \/ reg[i].id \in gone
  <2>1. j \in DOMAIN M
    BY DEF On
  <2>2. CASE j \in DOMAIN L
    BY <1>2, <1>8, <2>2 DEF InStep, Current
  <2>3. CASE j = Len(L) + 1
    BY <1>2, <1>4, <1>7, <1>8, <2>3
  <2> QED
    BY <1>3, <2>1, <2>2, <2>3
<1>9. InStep(Reconcile(reg, M), M, gone)
  BY <1>6, <1>7, <1>8, ReconcileFollows
<1>10. \A i \in DOMAIN M : M[i] = a \/ \E j \in DOMAIN L : M[i] = L[j]
  BY <1>2, <1>3
<1> QED
  BY <1>2, <1>6, <1>9, <1>10 DEF M

(* An install adds an addon or updates the first that matches.             *)
LEMMA InstallKeeps == CatInv /\ Install => CatInv'
<1> SUFFICES ASSUME CatInv, Install PROVE CatInv'
  OBVIOUS
<1>1. /\ lockQueue # <<>> /\ lockQueue' = Tail(lockQueue) /\ site' = site /\ catCounts' = catCounts
      /\ Head(lockQueue).kind = "install"
  BY DEF Install, CatTurn
<1>2. CatShape /\ Listed(installed) /\ InStep(registry, installed, reloaded)
  BY DEF CatInv
<1>3. PICK op \in CatOps : op = Head(lockQueue) /\ op.url \in Urls /\ op.kind = "install"
  BY <1>1, <1>2, TurnTaken
<1>4. PICK s : s = [to |-> site[op.url].to, kind |-> site[site[op.url].to].kind]
  OBVIOUS
<1>5. s.to \in Urls /\ s.kind \in Served
  <2>1. site[op.url].to \in Urls
    BY <1>2, <1>3 DEF CatShape
  <2>2. site[site[op.url].to].kind \in Served
    BY <1>2, <2>1 DEF CatShape
  <2> QED
    BY <1>4, <2>1, <2>2
<1>6. PICK on \in BOOLEAN : on = (op.arg /\ MayAutoEnable(s.kind))
  OBVIOUS
<1>7. PICK L : L = installed
  OBVIOUS
<1>8. /\ WellListed(L) /\ Trusted(L) /\ InStep(registry, L, reloaded)
      /\ L \in Seq(AddonRecords) /\ Len(L) \in Nat /\ DOMAIN L = 1..Len(L)
  BY <1>2, <1>7 DEF Listed, WellListed
<1>9. CASE s.kind \notin Manifests
  BY <1>1, <1>3, <1>4, <1>9, NothingKeeps DEF Install
<1>10. CASE s.kind \in Manifests /\ Matching(op.url, s.to) = {}
  <2>1. PICK a : a = NewAddon(op, s, on)
    OBVIOUS
  <2>2. Len(L) + 1 <= MaxRequests
    <3>1. PICK q \in Seq(CatOps) : q = lockQueue /\ q # <<>>
      BY <1>1, <1>2 DEF CatShape
    <3>2. /\ Cardinality(Installs(Tail(q))) \in Nat /\ Cardinality(Installs(q)) \in Nat
          /\ Cardinality(Installs(Tail(q))) + 1 <= Cardinality(Installs(q))
      BY <1>1, <3>1, QueueShrinks
    <3>3. Len(L) + Cardinality(Installs(q)) <= catCounts.requests
      BY <1>2, <1>7, <3>1 DEF Listed, Room
    <3>4. catCounts.requests \in 0..MaxRequests
      BY <1>2 DEF CatShape
    <3> QED
      BY <1>8, <3>2, <3>3, <3>4, ManagerAssumption
  <2>3. FreeId(L) \in 1..MaxRequests /\ FreeId(L) \notin Ids(L)
    <3>1. FreeId(L) \in 1..Len(L) + 1 /\ FreeId(L) \notin Ids(L)
      BY <1>8, FreeIdIs
    <3> QED
      BY <1>8, <2>2, <3>1, ManagerAssumption
  <2>4. NextOrder(L) \in Nat /\ \A i \in DOMAIN L : L[i].order < NextOrder(L)
    BY <1>8, NextOrderIs
  <2>5. a = [id |-> FreeId(L), base |-> op.url, at |-> s.to, orig |-> op.url,
             manifest |-> s.kind, enabled |-> on,
             admission |-> IF on THEN "validated" ELSE "pending",
             order |-> NextOrder(L), timeout |-> 0, asked |-> FALSE, admitted |-> s.kind]
    BY <1>7, <2>1 DEF NewAddon
  <2>6. /\ a \in AddonRecords /\ a.id = FreeId(L) /\ a.order = NextOrder(L)
        /\ a.enabled = on /\ a.admitted = s.kind /\ (a.admission = "pending" => ~a.enabled)
    BY <1>3, <1>5, <1>10, <2>3, <2>4, <2>5 DEF AddonRecords
  <2>7. PICK M : M = Append(L, a)
    OBVIOUS
  <2>8. /\ WellListed(M) /\ Len(M) = Len(L) + 1
        /\ \A i \in DOMAIN M : M[i] = a \/ \E j \in DOMAIN L : M[i] = L[j]
        /\ InStep(Reconcile(registry, M), M, reloaded)
    BY <1>8, <2>3, <2>4, <2>6, <2>7, NewFollows
  <2>9. Commit(M) /\ registry' = Reconcile(registry, M)
    BY <1>3, <1>4, <1>6, <1>7, <1>10, <2>1, <2>7 DEF Install
  <2>10. a.enabled => MayAutoEnable(a.admitted)
    BY <1>6, <2>6
  <2>11. Trusted(M)
    BY <1>8, <2>6, <2>8, <2>10 DEF Trusted
  <2>12. Len(M) <= Len(installed) + (IF Head(lockQueue).kind = "install" THEN 1 ELSE 0)
    BY <1>1, <1>7, <1>8, <2>8
  <2> QED
    BY <1>1, <2>8, <2>9, <2>11, <2>12, CommitKeeps
<1>11. CASE s.kind \in Manifests /\ Matching(op.url, s.to) # {}
  <2> DEFINE S == Matching(op.url, s.to)
  <2>1. S \in SUBSET DOMAIN L /\ S \in SUBSET Nat
    BY <1>7, <1>8 DEF Matching
  <2>2. \E i \in S : \A j \in S : i <= j
    BY <1>11, <2>1, LeastIs
  <2>3. PICK p \in DOMAIN L : p = FirstOf(S)
    BY <2>1, <2>2 DEF FirstOf
  <2> HIDE DEF S
  <2>4. PICK a : a = UpdatedAddon(L[p], op, s, on)
    OBVIOUS
  <2>5. L[p] \in AddonRecords
    BY <1>8
  <2>6. a = [L[p] EXCEPT !.manifest = s.kind, !.base = op.url, !.at = s.to, !.orig = op.url,
                         !.admission = IF on THEN "validated" ELSE @]
    BY <2>4 DEF UpdatedAddon
  <2>7. /\ a \in AddonRecords /\ a.id = L[p].id /\ a.order = L[p].order
        /\ a.enabled = L[p].enabled /\ a.asked = L[p].asked /\ a.admitted = L[p].admitted
        /\ (a.admission = "pending" => L[p].admission = "pending")
    BY <1>3, <1>5, <1>11, <2>5, <2>6 DEF AddonRecords
  <2>8. PICK M : M = [L EXCEPT ![p] = a]
    OBVIOUS
  <2>9. Replaced(L, p, a, M)
    BY <1>8, <2>3, <2>7, <2>8 DEF Replaced
  <2>10. /\ WellListed(M) /\ Len(M) = Len(L) /\ DOMAIN M = DOMAIN L
         /\ M[p] = a /\ \A j \in DOMAIN L : j # p => M[j] = L[j]
    BY <2>9, Changed
  <2>11. Commit(M) /\ registry' = Reconcile(IF ~a.enabled THEN registry
                                            ELSE Register(Unregister(registry, a.id), a), M)
    BY <1>3, <1>4, <1>6, <1>7, <1>11, <2>3, <2>4, <2>8 DEF Install, S
  <2>12. Trusted(M)
    BY <1>8, <2>7, <2>10 DEF Trusted
  <2>13. InStep(registry', M, reloaded)
    <3>1. CASE a.enabled
      BY <1>8, <2>9, <2>11, <3>1, AnewFollows
    <3>2. CASE ~a.enabled
      <4>1. ASSUME NEW i \in DOMAIN registry, NEW j \in On(M), registry[i].id = M[j].id
            PROVE  registry[i] = Built(M[j]) \/ registry[i].id \in reloaded
        <5>1. j \in DOMAIN L /\ j # p /\ M[j] = L[j]
          BY <2>10, <3>2 DEF On
        <5> QED
          BY <1>8, <4>1, <5>1 DEF InStep, Current
      <4>2. registry \in Seq(Providers)
        BY <1>8 DEF InStep
      <4> QED
        BY <2>10, <2>11, <3>2, <4>1, <4>2, ReconcileFollows
    <3> QED
      BY <3>1, <3>2
  <2>14. Len(M) <= Len(installed) + (IF Head(lockQueue).kind = "install" THEN 1 ELSE 0)
    BY <1>1, <1>7, <1>8, <2>10
  <2> QED
    BY <1>1, <2>10, <2>11, <2>12, <2>13, <2>14, CommitKeeps
<1> QED
  BY <1>9, <1>10, <1>11

(* What another replica stored replaces the addons, numbered anew.         *)
LEMMA ReloadAddonsKeeps == CatInv /\ Reload => CatInv'
<1> SUFFICES ASSUME CatInv, Reload PROVE CatInv'
  OBVIOUS
<1>1. /\ lockQueue # <<>> /\ lockQueue' = Tail(lockQueue) /\ site' = site /\ catCounts' = catCounts
  BY DEF Reload, CatTurn
<1>2. CatShape /\ Listed(sharedRows.addons) /\ InStep(registry, installed, reloaded)
  BY DEF CatInv
<1>3. CASE ~(sharedRows.revision > mgrRevision)
  BY <1>1, <1>3, NothingKeeps DEF Reload
<1>4. CASE sharedRows.revision > mgrRevision
  <2>1. PICK L, M : L = sharedRows.addons /\ M = Renumbered(L)
    OBVIOUS
  <2>2. /\ installed' = M /\ mgrRevision' = sharedRows.revision
        /\ registry' = Reconcile(registry, M) /\ reloaded' = reloaded \cup Ids(M)
        /\ sharedRows' = sharedRows /\ lostUpdates' = lostUpdates
    BY <1>4, <2>1 DEF Reload
  <2>3. /\ WellListed(L) /\ Trusted(L) /\ Room(L)
        /\ L \in Seq(AddonRecords) /\ Len(L) \in Nat
    BY <1>2, <2>1 DEF Listed, WellListed
  <2>4. /\ WellListed(M) /\ Len(M) = Len(L) /\ DOMAIN M = DOMAIN L
        /\ \A i \in DOMAIN L : \E n \in Nat : M[i] = [L[i] EXCEPT !.order = n]
    <3>1. /\ WellListed(Renumbered(L)) /\ Len(Renumbered(L)) = Len(L)
          /\ DOMAIN Renumbered(L) = DOMAIN L
          /\ \A i \in DOMAIN L : \E n \in Nat : Renumbered(L)[i] = [L[i] EXCEPT !.order = n]
      BY <2>3, RenumberedIs
    <3> QED
      BY <2>1, <3>1
  <2>5. ASSUME NEW i \in DOMAIN M
        PROVE  /\ M[i].id \in 1..MaxRequests
               /\ M[i].enabled = L[i].enabled /\ M[i].asked = L[i].asked
               /\ M[i].admitted = L[i].admitted /\ M[i].admission = L[i].admission
    <3>1. L[i] \in AddonRecords
      BY <2>3, <2>4
    <3>2. PICK n \in Nat : M[i] = [L[i] EXCEPT !.order = n]
      BY <2>4
    <3> QED
      BY <3>1, <3>2 DEF AddonRecords
  <2>6. Trusted(M)
    BY <2>3, <2>4, <2>5 DEF Trusted
  <2>7. /\ lockQueue' \in Seq(CatOps)
        /\ \A i \in Installs(lockQueue)' : lockQueue'[i].url \in Urls
    BY <1>1, <1>2, TurnTaken
  <2>8. Ids(M) \subseteq 1..MaxRequests
    BY <2>5 DEF Ids
  <2>9. CatShape'
    BY <1>1, <1>2, <2>2, <2>7, <2>8 DEF CatShape, Installs
  <2>10. Len(L) + Cardinality(Installs(Tail(lockQueue))) <= catCounts.requests
    <3>1. Len(L) <= Len(L) + (IF Head(lockQueue).kind = "install" THEN 1 ELSE 0)
      BY <2>3
    <3> QED
      BY <1>1, <1>2, <2>3, <3>1, TurnTaken
  <2>11. Room(installed)' /\ Room(sharedRows.addons)'
    BY <1>1, <2>1, <2>2, <2>4, <2>10 DEF Room
  <2>12. /\ WellListed(installed)' /\ Trusted(installed)'
         /\ WellListed(sharedRows.addons)' /\ Trusted(sharedRows.addons)'
    BY <2>1, <2>2, <2>3, <2>4, <2>6 DEF WellListed, Trusted
  <2>13. InStep(registry', M, reloaded')
    <3>1. registry \in Seq(Providers)
      BY <1>2 DEF InStep
    <3>2. PICK gone : gone = reloaded \cup Ids(M)
      OBVIOUS
    <3>3. \A i \in DOMAIN registry, j \in On(M) :
              registry[i].id = M[j].id => registry[i] = Built(M[j]) \/ registry[i].id \in gone
      BY <3>2 DEF Ids, On
    <3>4. InStep(Reconcile(registry, M), M, gone)
      BY <2>4, <3>1, <3>3, ReconcileFollows
    <3> QED
      BY <2>2, <3>2, <3>4
  <2>14. InStep(registry, installed, reloaded)'
    BY <2>2, <2>13 DEF InStep, Current
  <2> QED
    BY <2>9, <2>11, <2>12, <2>14 DEF CatInv, Listed
<1> QED
  BY <1>3, <1>4

(* A callback and what it was asked with.                                  *)
Asking(kind, id, url, arg, m) ==
    /\ kind \in CatKinds /\ id \in Nat /\ url \in Urls \cup {""} /\ arg \in BOOLEAN
    /\ m \in Nat \cup {NoRevision}

LEMMA OpTypes ==
    ASSUME NEW kind, NEW id, NEW url, NEW arg, NEW m, Asking(kind, id, url, arg, m)
    PROVE  /\ CatOp(kind, id, url, arg, m) \in CatOps
           /\ CatOp(kind, id, url, arg, m).kind = kind
           /\ CatOp(kind, id, url, arg, m).url = url
<1>1. PICK op : op = [kind |-> kind, id |-> id, url |-> url, arg |-> arg, match |-> m]
  OBVIOUS
<1>2. op \in CatOps /\ op.kind = kind /\ op.url = url
  BY <1>1 DEF CatOps, Asking
<1> QED
  BY <1>1, <1>2 DEF CatOp

(* A request joins with what its handler has read.                         *)
LEMMA RequestKeeps ==
    ASSUME CatInv,
           RequestInstall \/ RequestRefresh \/ RequestRemove \/ RequestPatch \/ RequestReorder
    PROVE  CatInv'
<1>1. PICK L : L = installed
  OBVIOUS
<1>2. WellListed(L) /\ mgrRevision \in Nat
  BY <1>1 DEF CatInv, CatShape, Listed
<1>3. ASSUME NEW id \in Ids(L)
      PROVE  id \in Nat /\ Addon(id).orig \in Urls /\ Addon(id).enabled \in BOOLEAN
  <2>1. /\ IndexOf(L, id) \in DOMAIN L /\ L[IndexOf(L, id)].id = id
        /\ L[IndexOf(L, id)] \in AddonRecords
    BY <1>2, IndexIs
  <2> QED
    BY <1>1, <2>1 DEF Addon, AddonRecords
<1>4. \A m \in Matches : m \in Nat \cup {NoRevision}
  BY <1>2 DEF Matches
<1>5. CASE RequestInstall
  <2>1. PICK u \in Urls, enable \in BOOLEAN : JoinChain(CatOp("install", 0, u, enable, NoRevision))
    BY <1>5 DEF RequestInstall
  <2>2. Asking("install", 0, u, enable, NoRevision)
    BY <2>1 DEF Asking, CatKinds
  <2>3. PICK op : op = CatOp("install", 0, u, enable, NoRevision)
    OBVIOUS
  <2>4. op \in CatOps /\ op.url \in Urls
    BY <2>1, <2>2, <2>3, OpTypes
  <2> QED
    BY <2>1, <2>3, <2>4, JoinKeeps
<1>6. CASE RequestRefresh
  <2>1. PICK id \in Ids(L), m \in Matches : JoinChain(RefreshOp(id, m))
    BY <1>1, <1>6 DEF RequestRefresh
  <2>2. PICK url, on : url = Addon(id).orig /\ on = Addon(id).enabled
    OBVIOUS
  <2>3. Asking("install", id, url, on, m) /\ url \in Urls
    BY <1>3, <1>4, <2>1, <2>2 DEF Asking, CatKinds
  <2>4. PICK op : op = CatOp("install", id, url, on, m)
    OBVIOUS
  <2>5. op \in CatOps /\ op.url \in Urls
    BY <2>3, <2>4, OpTypes
  <2>6. JoinChain(op)
    BY <2>1, <2>2, <2>4 DEF RefreshOp
  <2> QED
    BY <2>5, <2>6, JoinKeeps
<1>7. ASSUME NEW kind \in {"remove", "enable", "timeout", "reorder"}, NEW id \in Ids(L),
             NEW arg \in BOOLEAN, NEW m \in Matches, JoinChain(CatOp(kind, id, "", arg, m))
      PROVE  CatInv'
  <2>0. PICK none : none = ""
    OBVIOUS
  <2>1. Asking(kind, id, none, arg, m) /\ kind # "install"
    BY <1>3, <1>4, <1>7, <2>0 DEF Asking, CatKinds
  <2>2. PICK op : op = CatOp(kind, id, none, arg, m)
    OBVIOUS
  <2>3. op \in CatOps /\ op.kind = kind
    BY <2>1, <2>2, OpTypes
  <2>4. op.kind # "install"
    BY <2>1, <2>3
  <2>5. JoinChain(op)
    BY <1>7, <2>0, <2>2
  <2> QED
    BY <2>3, <2>4, <2>5, JoinKeeps
<1>8. CASE RequestRemove
  BY <1>1, <1>7, <1>8 DEF RequestRemove
<1>9. CASE RequestPatch
  BY <1>1, <1>7, <1>9 DEF RequestPatch
<1>10. CASE RequestReorder
  BY <1>1, <1>7, <1>10 DEF RequestReorder
<1> QED
  BY <1>5, <1>6, <1>8, <1>9, <1>10

(* What a URL serves and what another replica stores change; the addons of *)
(* this replica do not.                                                    *)
LEMMA OutsideKeeps == CatInv /\ (SiteChanges \/ PeerChanges) => CatInv'
<1> SUFFICES ASSUME CatInv, SiteChanges \/ PeerChanges PROVE CatInv'
  OBVIOUS
<1>1. /\ CatShape /\ Listed(installed) /\ Listed(sharedRows.addons)
      /\ InStep(registry, installed, reloaded)
  BY DEF CatInv
<1>2. /\ catCounts' \in [requests : 0..MaxRequests, outside : Nat]
      /\ catCounts'.requests = catCounts.requests
      /\ installed' = installed /\ registry' = registry /\ mgrRevision' = mgrRevision
      /\ reloaded' = reloaded /\ lostUpdates' = lostUpdates
  <2>1. /\ catCounts' = [catCounts EXCEPT !["outside"] = @ + 1]
        /\ installed' = installed /\ registry' = registry /\ mgrRevision' = mgrRevision
        /\ reloaded' = reloaded /\ lostUpdates' = lostUpdates
    BY DEF SiteChanges, PeerChanges, CatCount
  <2>2. catCounts \in [requests : 0..MaxRequests, outside : Nat]
    BY <1>1 DEF CatShape
  <2> QED
    BY <2>1, <2>2
<1>3. InStep(registry, installed, reloaded)'
  BY <1>1, <1>2 DEF InStep, Current
<1>4. CASE SiteChanges
  <2>1. lockQueue' = lockQueue /\ sharedRows' = sharedRows
    BY <1>4 DEF SiteChanges
  <2>2. PICK u \in Urls, to \in Urls, k \in Served :
            site' = [site EXCEPT ![u] = [to |-> to, kind |-> k]]
    BY <1>4 DEF SiteChanges
  <2>3. site' \in [Urls -> [to : Urls, kind : Served]]
    BY <1>1, <2>2 DEF CatShape
  <2>4. CatShape'
    BY <1>1, <1>2, <2>1, <2>3 DEF CatShape, Installs
  <2>5. /\ WellListed(installed)' /\ Trusted(installed)'
        /\ WellListed(sharedRows.addons)' /\ Trusted(sharedRows.addons)'
    BY <1>1, <1>2, <2>1 DEF Listed, WellListed, Trusted
  <2>6. Room(installed)' /\ Room(sharedRows.addons)'
    BY <1>1, <1>2, <2>1 DEF Listed, Room, Installs
  <2> QED
    BY <1>3, <2>4, <2>5, <2>6 DEF CatInv, Listed
<1>5. CASE PeerChanges
  <2>0. PICK kind, url, no : kind = "reload" /\ url = "" /\ no = FALSE
    OBVIOUS
  <2>1. PICK op : op = CatOp(kind, 0, url, no, NoRevision)
    OBVIOUS
  <2>2. op \in CatOps /\ op.kind # "install"
    <3>1. Asking(kind, 0, url, no, NoRevision)
      BY <2>0 DEF Asking, CatKinds
    <3>2. op \in CatOps /\ op.kind = kind
      BY <2>1, <3>1, OpTypes
    <3> QED
      BY <2>0, <3>2
  <2>3. site' = site /\ lockQueue' = Append(lockQueue, op)
    BY <1>5, <2>0, <2>1 DEF PeerChanges
  <2>4. PICK q \in Seq(CatOps) : q = lockQueue
    BY <1>1 DEF CatShape
  <2>5. /\ Append(q, op) \in Seq(CatOps) /\ Installs(Append(q, op)) = Installs(q)
        /\ \A i \in Installs(q) : Append(q, op)[i] = q[i]
    BY <2>2, QueueGrows
  <2>6. Installs(lockQueue)' = Installs(lockQueue) /\ lockQueue' \in Seq(CatOps)
    BY <2>3, <2>4, <2>5 DEF Installs
  <2>7. \A i \in Installs(lockQueue)' : lockQueue'[i].url \in Urls
    BY <1>1, <2>3, <2>4, <2>5, <2>6 DEF CatShape
  <2>8. PICK L : L = sharedRows.addons
    OBVIOUS
  <2>9. WellListed(L) /\ Trusted(L) /\ Room(L) /\ sharedRows.revision \in Nat
    BY <1>1, <2>8 DEF Listed, CatShape
  <2>10. \E M : /\ WellListed(M) /\ Len(M) = Len(L) /\ Trusted(M)
                /\ sharedRows' = [addons |-> M, revision |-> sharedRows.revision + 1]
    <3>1. PICK p \in DOMAIN L :
              \/ sharedRows' = [addons |-> [L EXCEPT ![p].timeout = NewTimeout],
                                revision |-> sharedRows.revision + 1]
              \/ sharedRows' = [addons |-> [L EXCEPT ![p].enabled = ~@,
                                                     ![p].admission = Toggled(~L[p].enabled),
                                                     ![p].asked = TRUE],
                                revision |-> sharedRows.revision + 1]
      BY <1>5, <2>8 DEF PeerChanges
    <3>2. L[p] \in AddonRecords
      BY <2>9 DEF WellListed
    <3>3. CASE sharedRows' = [addons |-> [L EXCEPT ![p].timeout = NewTimeout],
                              revision |-> sharedRows.revision + 1]
      <4>1. PICK a, M : a = [L[p] EXCEPT !.timeout = NewTimeout] /\ M = [L EXCEPT ![p] = a]
        OBVIOUS
      <4>2. /\ a \in AddonRecords /\ a.id = L[p].id /\ a.order = L[p].order /\ a.asked = L[p].asked
            /\ a.enabled = L[p].enabled /\ a.admitted = L[p].admitted
            /\ a.admission = L[p].admission
        BY <3>2, <4>1 DEF AddonRecords
      <4>3. Replaced(L, p, a, M)
        BY <2>9, <4>1, <4>2 DEF Replaced
      <4>4. /\ WellListed(M) /\ Len(M) = Len(L) /\ DOMAIN M = DOMAIN L
            /\ M[p] = a /\ \A j \in DOMAIN L : j # p => M[j] = L[j]
        BY <4>3, Changed
      <4>5. Trusted(M)
        BY <2>9, <4>2, <4>4 DEF Trusted
      <4>6. M = [L EXCEPT ![p].timeout = NewTimeout]
        BY <4>1
      <4> QED
        BY <3>3, <4>4, <4>5, <4>6
    <3>4. CASE sharedRows' = [addons |-> [L EXCEPT ![p].enabled = ~@,
                                                  ![p].admission = Toggled(~L[p].enabled),
                                                  ![p].asked = TRUE],
                              revision |-> sharedRows.revision + 1]
      <4>1. PICK a, M : /\ a = [L[p] EXCEPT !.enabled = ~@, !.admission = Toggled(~L[p].enabled),
                                           !.asked = TRUE]
                        /\ M = [L EXCEPT ![p] = a]
        OBVIOUS
      <4>2. /\ a \in AddonRecords /\ a.id = L[p].id /\ a.order = L[p].order /\ a.asked = TRUE
            /\ a.admission # "pending"
        BY <3>2, <4>1 DEF AddonRecords, Toggled
      <4>3. Replaced(L, p, a, M)
        BY <2>9, <4>1, <4>2 DEF Replaced
      <4>4. /\ WellListed(M) /\ Len(M) = Len(L) /\ DOMAIN M = DOMAIN L
            /\ M[p] = a /\ \A j \in DOMAIN L : j # p => M[j] = L[j]
        BY <4>3, Changed
      <4>5. Trusted(M)
        BY <2>9, <4>2, <4>4 DEF Trusted
      <4>6. M = [L EXCEPT ![p].enabled = ~@, ![p].admission = Toggled(~L[p].enabled),
                          ![p].asked = TRUE]
        BY <4>1
      <4> QED
        BY <3>4, <4>4, <4>5, <4>6
    <3> QED
      BY <3>1, <3>3, <3>4
  <2>11. PICK M : /\ WellListed(M) /\ Len(M) = Len(L) /\ Trusted(M)
                  /\ sharedRows' = [addons |-> M, revision |-> sharedRows.revision + 1]
    BY <2>10
  <2>12. /\ sharedRows' \in [addons : Seq(AddonRecords), revision : Nat]
         /\ sharedRows'.addons = M
    BY <2>9, <2>11 DEF WellListed
  <2>13. CatShape'
    BY <1>1, <1>2, <2>3, <2>6, <2>7, <2>12 DEF CatShape
  <2>14. /\ WellListed(installed)' /\ Trusted(installed)'
         /\ WellListed(sharedRows.addons)' /\ Trusted(sharedRows.addons)'
    BY <1>1, <1>2, <2>11, <2>12 DEF Listed, WellListed, Trusted
  <2>15. Room(installed)'
    BY <1>1, <1>2, <2>6 DEF Listed, Room
  <2>16. Room(sharedRows.addons)'
    BY <1>2, <2>6, <2>8, <2>9, <2>11, <2>12 DEF Room
  <2> QED
    BY <1>3, <2>13, <2>14, <2>15, <2>16 DEF CatInv, Listed
<1> QED
  BY <1>4, <1>5

LEMMA CatStepKeeps == CatInv /\ [CatNext]_catVars => CatInv'
<1> SUFFICES ASSUME CatInv, [CatNext]_catVars PROVE CatInv'
  OBVIOUS
<1>1. CASE UNCHANGED catVars
  <2>1. /\ site' = site /\ installed' = installed /\ registry' = registry
        /\ mgrRevision' = mgrRevision /\ lockQueue' = lockQueue /\ sharedRows' = sharedRows
        /\ reloaded' = reloaded /\ lostUpdates' = lostUpdates /\ catCounts' = catCounts
    BY <1>1 DEF catVars
  <2> QED
    BY <2>1 DEF CatInv, CatShape, Listed, WellListed, Trusted, Room, InStep, Current, Installs
<1> QED
  BY <1>1, RequestKeeps, OutsideKeeps, InstallKeeps, UninstallKeeps, SetEnabledKeeps,
     SetTimeoutKeeps, ReorderKeeps, ReloadAddonsKeeps DEF CatNext

(* What the run checks follows from the invariant.                         *)
LEMMA CatShows == CatInv => WaterfallExact /\ TrustGate /\ CatTypeOK
<1> SUFFICES ASSUME CatInv PROVE WaterfallExact /\ TrustGate /\ CatTypeOK
  OBVIOUS
<1>1. /\ CatShape /\ Listed(installed) /\ Listed(sharedRows.addons)
      /\ InStep(registry, installed, reloaded)
  BY DEF CatInv
<1>2. WellListed(installed) /\ WellListed(sharedRows.addons) /\ Trusted(installed)
  BY <1>1 DEF Listed
<1>3. TrustGate
  BY <1>2 DEF Trusted, TrustGate
<1>4. CatTypeOK
  BY <1>1, <1>2 DEF CatShape, WellListed, CatTypeOK
<1>5. ASSUME NEW i \in DOMAIN registry
      PROVE  registry[i] = Built(Addon(registry[i].id)) \/ registry[i].id \in reloaded
  <2>1. PICK j \in DOMAIN installed : registry[i].id = installed[j].id
    BY <1>1, <1>2, ProvidersDiffer
  <2>2. IndexOf(installed, registry[i].id) = j
    <3>1. registry[i].id \in Ids(installed)
      BY <2>1 DEF Ids
    <3>2. /\ IndexOf(installed, registry[i].id) \in DOMAIN installed
          /\ installed[IndexOf(installed, registry[i].id)].id = registry[i].id
      BY <1>2, <3>1, IndexIs
    <3> QED
      BY <1>2, <2>1, <3>2 DEF WellListed
  <2>3. Addon(registry[i].id) = installed[j]
    BY <2>2 DEF Addon
  <2> QED
    BY <1>1, <2>1, <2>3 DEF InStep, Current
<1>6. WaterfallExact
  BY <1>1, <1>2, <1>5 DEF WaterfallExact, WellListed, InStep
<1> QED
  BY <1>3, <1>4, <1>6

LEMMA CatStarts == CatInit => CatInv
<1> SUFFICES ASSUME CatInit PROVE CatInv
  OBVIOUS
<1>1. /\ site \in [Urls -> [to : Urls, kind : Served]]
      /\ installed = <<>> /\ registry = <<>> /\ lockQueue = <<>>
      /\ mgrRevision = 0 /\ sharedRows = [addons |-> <<>>, revision |-> 0]
      /\ reloaded = {} /\ lostUpdates = 0 /\ catCounts = [requests |-> 0, outside |-> 0]
  BY DEF CatInit, Served, Manifests
<1>2. Installs(lockQueue) = {}
  BY <1>1 DEF Installs
<1>3. CatShape
  BY <1>1, <1>2, ManagerAssumption DEF CatShape
<1>4. /\ WellListed(<<>>) /\ Trusted(<<>>) /\ Len(<<>>) = 0
  BY DEF WellListed, Trusted
<1>5. Room(<<>>)
  <2>1. Cardinality(Installs(lockQueue)) = 0
    BY <1>2, FS_EmptySet
  <2> QED
    BY <1>1, <1>4, <2>1 DEF Room
<1>6. On(<<>>) = {}
  BY DEF On
<1>7. StreamEnabled(<<>>) = <<>>
  <2>1. Cardinality(On(<<>>)) = 0
    BY <1>6, FS_EmptySet
  <2>2. StreamEnabled(<<>>) \in Seq(AddonRecords) /\ Len(StreamEnabled(<<>>)) = 0
    BY <1>4, <2>1, WaterfallIs
  <2> QED
    BY <2>2
<1>8. InStep(<<>>, <<>>, {})
  <2>1. <<>> \in Seq(Providers)
    OBVIOUS
  <2> QED
    BY <1>7, <2>1 DEF InStep, Current
<1> QED
  BY <1>1, <1>3, <1>4, <1>5, <1>8 DEF CatInv, Listed

(* For any number of addons and requests: the waterfall asks the enabled   *)
(* stream addons in their order, each with the settings it has unless a    *)
(* reload replaced it.  Of trust it says what the gate does at an addon's  *)
(* first import and nothing of a later manifest: an addon no operator      *)
(* turned on or off is on only if that import was trusted enough, and one  *)
(* pending is off (manager.ts).                                            *)
THEOREM CatalogHolds == CatSpec => [](WaterfallExact /\ TrustGate /\ CatTypeOK)
BY CatStarts, CatStepKeeps, CatShows, PTL DEF CatSpec
==============================================================================
