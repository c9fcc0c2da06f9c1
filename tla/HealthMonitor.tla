---------------------------- MODULE HealthMonitor -----------------------------
(***************************************************************************)
(* Health of the stream addons: the sweeps of src/health/monitor.ts        *)
(* (through the health pool) and of the health-sweep job (in batches of    *)
(* its own), what setHealth of src/addons/manager.ts makes of a probe, and *)
(* the status that is computed from it together with the circuits.         *)
(* Freshness windows, latencies, run lengths and dependencies are left out.*)
(***************************************************************************)
EXTENDS Integers, FiniteSets

CONSTANTS
    StreamAddons,    \* ids of stream-capable addons
    MonitorSweeps,   \* calls of checkAll
    JobSweeps,       \* runs of the health-sweep job
    HealthLimit,     \* cfg.concurrency.health: pool and batch size
    JobBatch,        \* 4: batch size of the job
    MinRatioPct,     \* degradedMinProvidersRatio, in per cent
    MaxUpsets        \* bound: addons removed, present or toggled, servers that
                     \* fail or recover, circuits that open or close

ASSUME HealthAssumption ==
    /\ IsFiniteSet(StreamAddons) /\ MonitorSweeps \cap JobSweeps = {}
    /\ HealthLimit \in Nat /\ MinRatioPct \in Nat /\ MaxUpsets \in Nat

Sweeps == MonitorSweeps \cup JobSweeps

VARIABLES
    health,        \* addon.health; "none" before the first probe
    present,       \* the registry, and those of it that are enabled
    enabled,
    answering,     \* addons whose server answers
    circuitOpen,   \* addons whose circuit is open
    sweep,         \* each sweep: stage, its list, addons to come, batch, tally
    probing,       \* probes under way
    waiting,       \* probes queued at the health pool
    outdated,      \* history: probes under way as their addon changed
    known,         \* history: addons unchanged since the last recorded probe began
    upsets

addonVars == <<present, enabled, answering, circuitOpen>>
healthVars == <<health, addonVars, sweep, probing, waiting, outdated, known, upsets>>

NoHealth == [healthy |-> "none", circuit |-> "unknown"]

HealthInit ==
    /\ health = [a \in StreamAddons |-> NoHealth]
    /\ present = StreamAddons /\ enabled = StreamAddons /\ answering = StreamAddons
    /\ circuitOpen = {} /\ probing = {} /\ waiting = {} /\ outdated = {} /\ known = {}
    /\ sweep = [s \in Sweeps |-> [stage |-> "idle", list |-> {}, todo |-> {}, batch |-> {},
                                   seen |-> {}, healthy |-> 0]]
    /\ upsets = 0
----------------------------------------------------------------------------
Smaller(n, m) == IF n < m THEN n ELSE m
BatchSize(s) == IF s \in JobSweeps THEN JobBatch ELSE HealthLimit
InPool == {p \in probing : p.sweep \in MonitorSweeps}
ProbesOf(s) == {p \in probing \cup waiting : p.sweep = s}

(* BUG: a probe without a circuit state keeps the one of the probe before. *)
RecordedKeeping(h, ok, circuit) ==
    [healthy |-> IF ok THEN "yes" ELSE "no",
     circuit |-> IF circuit = "unknown" THEN h.circuit ELSE circuit]

(* setHealth().  Monitor probes say what the circuit was, the job's do not.*)
Recorded(h, ok, circuit) == [healthy |-> IF ok THEN "yes" ELSE "no", circuit |-> circuit]

(* checkAll() or the job lists the addons of the moment.                   *)
StartSweep(s) ==
    /\ sweep[s].stage = "idle"
    /\ sweep' = [sweep EXCEPT ![s].stage = "sweeping", ![s].list = enabled, ![s].todo = enabled]
    /\ UNCHANGED <<health, addonVars, probing, waiting, outdated, known, upsets>>

ProbesFor(s, batch) == {[sweep |-> s, addon |-> a] : a \in batch}

(* BUG: the probes of a batch do not go through the pool.                  *)
NextBatchUnpooled(s) ==
    /\ sweep[s].stage = "sweeping" /\ sweep[s].batch = {} /\ sweep[s].todo # {}
    /\ \E batch \in SUBSET sweep[s].todo :
          /\ Cardinality(batch) = Smaller(BatchSize(s), Cardinality(sweep[s].todo))
          /\ sweep' = [sweep EXCEPT ![s].batch = batch, ![s].todo = @ \ batch]
          /\ probing' = probing \cup ProbesFor(s, batch)
    /\ UNCHANGED <<health, addonVars, waiting, outdated, known, upsets>>

(* The next batch: the monitor's probes queue for the health pool.         *)
NextBatch(s) ==
    /\ sweep[s].stage = "sweeping" /\ sweep[s].batch = {} /\ sweep[s].todo # {}
    /\ \E batch \in SUBSET sweep[s].todo :
          /\ Cardinality(batch) = Smaller(BatchSize(s), Cardinality(sweep[s].todo))
          /\ sweep' = [sweep EXCEPT ![s].batch = batch, ![s].todo = @ \ batch]
          /\ IF s \in JobSweeps
             THEN probing' = probing \cup ProbesFor(s, batch) /\ UNCHANGED waiting
             ELSE waiting' = waiting \cup ProbesFor(s, batch) /\ UNCHANGED probing
    /\ UNCHANGED <<health, addonVars, outdated, known, upsets>>

ProbeStarts(p) ==
    /\ p \in waiting /\ Cardinality(InPool) < HealthLimit
    /\ waiting' = waiting \ {p} /\ probing' = probing \cup {p}
    /\ UNCHANGED <<health, addonVars, sweep, outdated, known, upsets>>

Tally(s, a, ok) == [sweep EXCEPT ![s].seen = @ \cup {a}, ![s].healthy = @ + (IF ok THEN 1 ELSE 0)]

(* The pool's queue is full or its time is over: counted unhealthy, and    *)
(* nothing is recorded.                                                    *)
ProbeRefused(p) ==
    /\ p \in waiting /\ waiting' = waiting \ {p}
    /\ sweep' = Tally(p.sweep, p.addon, FALSE)
    /\ UNCHANGED <<health, addonVars, probing, outdated, known, upsets>>

(* The manifest answers or not: as the addon's server does, or either way  *)
(* when that changed in the meantime.  The result goes to whoever has the  *)
(* id by then, and to nobody when it is gone.                              *)
ProbeEnds(p) ==
    \E ok \in BOOLEAN :
        LET circuit == IF p.sweep \in JobSweeps THEN "unknown"
                       ELSE IF p.addon \in circuitOpen THEN "open" ELSE "closed"
        IN  /\ p \notin outdated => (ok <=> p.addon \in answering)
            /\ p \in probing /\ probing' = probing \ {p} /\ outdated' = outdated \ {p}
            /\ health' = IF p.addon \in present
                         THEN [health EXCEPT ![p.addon] = Recorded(@, ok, circuit)] ELSE health
            /\ known' = IF p \in outdated THEN known \ {p.addon} ELSE known \cup {p.addon}
            /\ sweep' = Tally(p.sweep, p.addon, ok)
            /\ UNCHANGED <<addonVars, waiting, upsets>>

BatchEnds(s) ==
    /\ sweep[s].stage = "sweeping" /\ ProbesOf(s) = {}
    /\ sweep[s].batch # {} \/ sweep[s].todo = {}
    /\ sweep' = [sweep EXCEPT ![s].batch = {},
                    ![s].stage = IF sweep[s].todo = {} THEN "done" ELSE @]
    /\ UNCHANGED <<health, addonVars, probing, waiting, outdated, known, upsets>>

(* The job sees its abort, or its heartbeat throws, between two batches.   *)
JobSweepStops(s) ==
    /\ s \in JobSweeps /\ sweep[s].stage = "sweeping" /\ sweep[s].batch = {}
    /\ sweep' = [sweep EXCEPT ![s].stage = "stopped"]
    /\ UNCHANGED <<health, addonVars, probing, waiting, outdated, known, upsets>>

(* What was known of the addon is so no longer.                            *)
Changes(a) ==
    /\ upsets < MaxUpsets /\ upsets' = upsets + 1
    /\ known' = known \ {a} /\ outdated' = outdated \cup {p \in probing : p.addon = a}
    /\ UNCHANGED <<sweep, probing, waiting>>

AddonGoes(a) ==
    /\ a \in present /\ Changes(a)
    /\ present' = present \ {a} /\ enabled' = enabled \ {a}
    /\ health' = [health EXCEPT ![a] = NoHealth]
    /\ UNCHANGED <<answering, circuitOpen>>

(* An install, enabled or not, that is given the free id.                  *)
AddonComes(a) ==
    /\ a \notin present /\ Changes(a)
    /\ present' = present \cup {a} /\ enabled' \in {enabled, enabled \cup {a}}
    /\ UNCHANGED <<health, answering, circuitOpen>>

(* A toggle leaves the record of the last probe where it is.               *)
AddonToggled(a) ==
    /\ a \in present /\ upsets < MaxUpsets /\ upsets' = upsets + 1
    /\ enabled' = IF a \in enabled THEN enabled \ {a} ELSE enabled \cup {a}
    /\ UNCHANGED <<health, present, answering, circuitOpen, sweep, probing, waiting, outdated, known>>

ServerFlips(a) ==
    /\ Changes(a)
    /\ answering' = IF a \in answering THEN answering \ {a} ELSE answering \cup {a}
    /\ UNCHANGED <<health, present, enabled, circuitOpen>>

CircuitFlips(a) ==
    /\ Changes(a)
    /\ circuitOpen' = IF a \in circuitOpen THEN circuitOpen \ {a} ELSE circuitOpen \cup {a}
    /\ UNCHANGED <<health, present, enabled, answering>>

HealthNext ==
    \/ \E s \in Sweeps : StartSweep(s) \/ NextBatch(s) \/ BatchEnds(s) \/ JobSweepStops(s)
    \/ \E p \in waiting : ProbeStarts(p) \/ ProbeRefused(p)
    \/ \E p \in probing : ProbeEnds(p)
    \/ \E a \in StreamAddons : \/ AddonGoes(a) \/ AddonComes(a) \/ AddonToggled(a)
                              \/ ServerFlips(a) \/ CircuitFlips(a)

HealthSpec == HealthInit /\ [][HealthNext]_healthVars
----------------------------------------------------------------------------
(* getServiceStatus(), as far as the providers decide it.  The ratio is    *)
(* rounded to whole hundredths before it is compared, so that half of one  *)
(* may be missing (of fewer than 40 addons, the only quotients with half a *)
(* hundredth are odd eighths, which toFixed() rounds up).                  *)
Usable(a) == a \notin circuitOpen /\ health[a].circuit # "open" /\ health[a].healthy = "yes"
UsableAddons == {a \in enabled : Usable(a)}
TooFew(some) == 200 * Cardinality(some) + Cardinality(enabled) < 2 * MinRatioPct * Cardinality(enabled)

ServiceStatus ==
    IF enabled # {} /\ (UsableAddons = {} \/ TooFew(UsableAddons))
    THEN "degraded" ELSE "ok"

HealthTypeOK ==
    /\ health \in [StreamAddons -> [healthy : {"none", "yes", "no"},
                                    circuit : {"unknown", "open", "closed"}]]
    /\ enabled \subseteq present /\ present \subseteq StreamAddons
    /\ answering \subseteq StreamAddons /\ circuitOpen \subseteq StreamAddons
    /\ \A p \in probing \cup waiting : p.sweep \in Sweeps /\ p.addon \in StreamAddons
    /\ outdated \subseteq probing /\ known \subseteq StreamAddons
    /\ upsets \in 0..MaxUpsets

(* However many sweeps overlap, the probes of the monitor hold no more     *)
(* than the pool's slots; a sweep that is over has asked every addon of    *)
(* its list once and counts as healthy no more than there are.             *)
SweepsBounded ==
    /\ Cardinality(InPool) <= HealthLimit
    /\ \A s \in Sweeps : sweep[s].stage = "done" =>
          sweep[s].seen = sweep[s].list /\ sweep[s].healthy <= Cardinality(sweep[s].list)

(* Whichever sweep asked last, of the monitor or of the job, and whatever  *)
(* was recorded before: once every enabled addon has been probed since its *)
(* server, its circuit or the addon itself changed, the status is right:   *)
(* ok if nothing is enabled, and otherwise exactly if some can serve now   *)
(* and so great a share of the enabled.  A probe that overlapped a change, *)
(* of the addon's predecessor under the id too, may be wrong till the next.*)
StatusExplained ==
    enabled \subseteq known =>
        LET able == {a \in enabled : a \in answering /\ a \notin circuitOpen} IN
        /\ able = {} => ServiceStatus = IF enabled = {} THEN "ok" ELSE "degraded"
        /\ able # {} => (ServiceStatus = "ok" <=> ~TooFew(able))
        /\ able = enabled /\ MinRatioPct <= 100 => ServiceStatus = "ok"
=============================================================================
