---------------------------- MODULE MCBackground ----------------------------
(***************************************************************************)
(* The parts that work beside the requests, for TLC: scheduled jobs and    *)
(* the outbox, imports, health sweeps, debrid transfers, shutdown, the     *)
(* addon catalogue with its console and its audit log, the replicas of it, *)
(* and the storage backends with their migrations.  As in MCRequestPath,   *)
(* `part` names the one that runs in a behaviour.                          *)
(***************************************************************************)
EXTENDS ScheduledWork, Outbox, ImportRequests, HealthMonitor, DebridTransfer,
        Shutdown, AddonCatalog, AdminConsole, MCClusterSync, FileStore,
        PostgresStore, Migrations, MutationAudit

VARIABLE part

Parts == {"schedules", "outbox", "imports", "health", "debrid", "shutdown",
          "catalog", "console", "cluster", "file", "postgres", "migrations",
          "audit"}

partVars == <<part, schedVars, outboxVars, importVars, healthVars, debridVars, downVars,
              catVars, consoleVars, vars, fileStoreVars, pgVars, bootVars,
              auditVars>>

(* Only part `p` takes this step.                                          *)
Only(p) ==
    /\ part = p /\ UNCHANGED part
    /\ IF p = "schedules" THEN TRUE ELSE UNCHANGED schedVars
    /\ IF p = "outbox" THEN TRUE ELSE UNCHANGED outboxVars
    /\ IF p = "imports" THEN TRUE ELSE UNCHANGED importVars
    /\ IF p = "health" THEN TRUE ELSE UNCHANGED healthVars
    /\ IF p = "debrid" THEN TRUE ELSE UNCHANGED debridVars
    /\ IF p = "shutdown" THEN TRUE ELSE UNCHANGED downVars
    /\ IF p = "catalog" THEN TRUE ELSE UNCHANGED catVars
    /\ IF p = "console" THEN TRUE ELSE UNCHANGED consoleVars
    /\ IF p = "cluster" THEN TRUE ELSE UNCHANGED vars
    /\ IF p = "file" THEN TRUE ELSE UNCHANGED fileStoreVars
    /\ IF p = "postgres" THEN TRUE ELSE UNCHANGED pgVars
    /\ IF p = "migrations" THEN TRUE ELSE UNCHANGED bootVars
    /\ IF p = "audit" THEN TRUE ELSE UNCHANGED auditVars

(* A part that does not run starts in one state.                           *)
BackgroundInit ==
    /\ part \in Parts
    /\ SchedInit /\ OutboxInit /\ ImportInit /\ HealthInit /\ DebridInit /\ DownInit
    /\ CatInit /\ ConsoleInit /\ Init /\ StoreInit /\ PgInit /\ BootInit /\ AuditInit
    /\ IF part = "catalog" THEN TRUE ELSE \A u \in Urls : site[u].kind = "plain"

(* Bounds that keep the product of rare events small: two kinds of them do *)
(* not meet, or only while not everything else is under way.  Of the two   *)
(* addresses, alike at the start, the first request takes "a".             *)
ClusterBound == counts.health = 0 \/ counts.lookups = 0
CatBound == catCounts.requests > 1 \/ \A i \in DOMAIN lockQueue : lockQueue[i].url # "b"
FileBound == deaths = 0 \/ faultsLeft = MaxDiskFaults
DebridBound == Cardinality({t \in Tasks : task[t].stage # "idle"}) <= 2
DownBound == Cardinality({c \in Clients : client[c] # "idle"} \cup {j \in Leases : lease[j] # "none"}) <= 2
ConsoleBound == cuts = 0 \/ Foreigners = 0
HealthBound == upsets = 0 \/ \E s \in MonitorSweeps : sweep[s].stage = "idle"

SchedStep == part = "schedules" /\ SchedNext /\ Only("schedules")
OutboxStep == part = "outbox" /\ OutboxNext /\ Only("outbox")
ImportStep == part = "imports" /\ ImportNext /\ Only("imports")
HealthStep == part = "health" /\ HealthNext /\ Only("health") /\ HealthBound'
DebridStep == part = "debrid" /\ DebridNext /\ Only("debrid") /\ DebridBound'
DownStep == part = "shutdown" /\ DownNext /\ Only("shutdown") /\ DownBound'
CatStep == part = "catalog" /\ CatNext /\ Only("catalog") /\ CatBound'
ConsoleStep == part = "console" /\ ConsoleNext /\ Only("console") /\ ConsoleBound'
ClusterStep == part = "cluster" /\ Next /\ Only("cluster") /\ ClusterBound'
FileStoreStep == part = "file" /\ StoreNext /\ Only("file") /\ FileBound'
PgStep == part = "postgres" /\ PgNext /\ Only("postgres")
BootStep == part = "migrations" /\ BootNext /\ Only("migrations")
AuditStep == part = "audit" /\ AuditNext /\ Only("audit")

BackgroundNext ==
    \/ SchedStep \/ OutboxStep \/ ImportStep \/ HealthStep \/ DebridStep \/ DownStep
    \/ CatStep \/ ConsoleStep \/ ClusterStep \/ FileStoreStep \/ PgStep \/ BootStep
    \/ AuditStep

BackgroundSpec == BackgroundInit /\ [][BackgroundNext]_partVars
----------------------------------------------------------------------------
(* The instances: two schedulers of one replica and one of another, all of *)
(* one schedule.                                                           *)
MCHostOf == [c \in Schedulers |-> IF c = "c3" THEN "h2" ELSE "h1"]
MCKindOf == [c \in Schedulers |-> "health-sweep"]
----------------------------------------------------------------------------
(* Every variable of the part that runs has its type.                      *)
BackgroundTypeOK ==
    CASE part = "schedules" -> SchedTypeOK
      [] part = "outbox" -> OutboxTypeOK
      [] part = "imports" -> ImportTypeOK
      [] part = "health" -> HealthTypeOK
      [] part = "debrid" -> DebridTypeOK
      [] part = "shutdown" -> DownTypeOK
      [] part = "catalog" -> CatTypeOK
      [] part = "console" -> ConsoleTypeOK
      [] part = "cluster" -> TypeOK
      [] part = "file" -> StoreTypeOK
      [] part = "postgres" -> PgTypeOK
      [] part = "migrations" -> BootTypeOK
      [] part = "audit" -> AuditTypeOK

(* A schedule has at most one active job as long as no lock was outlived   *)
(* or taken in memory; that a health sweep does not run twice is not said. *)
(* A row of a type that has a handler is marked processed only after its   *)
(* enqueue returned, and gets at most one job a replica; a row without a   *)
(* handler is marked and no job made.  Requests of one idempotency key     *)
(* that did not overlap get one job, and a cancelled import that heeds the *)
(* signal ends with the URL under way (locks.ts, engine.ts,                *)
(* import.routes.ts).                                                      *)
WorkOnce ==
    /\ part = "schedules" => OneActivePerSchedule
    /\ part = "outbox" => OutboxDelivers
    /\ part = "imports" => ImportsOnce

(* The monitor's probes stay within the pool, and once every enabled addon *)
(* was probed since it last changed the status is the one their servers    *)
(* and circuits call for, ok with none enabled (monitor.ts).               *)
HealthSound == part = "health" => SweepsBounded /\ StatusExplained

(* The manager's list, its registry and its waterfall agree between two    *)
(* mutations, and an addon nobody turned on or off is on only if its first *)
(* import was trusted enough; in production a mutation that is answered    *)
(* well is in the audit file, once (manager.ts, audit.ts,                  *)
(* addons.routes.ts).                                                      *)
CatalogSound ==
    /\ part = "catalog" => WaterfallExact /\ TrustGate
    /\ part = "audit" => AuditSound

(* What one replica alone changed is durable once its save has ended, and  *)
(* a cached answer is of its revision unless its lookup spanned a change   *)
(* (store.ts, server.ts).                                                  *)
ClusterSound == part = "cluster" => SoleWriterDurable /\ CacheFreshUnlessSpanned

(* What the file store acknowledged survives a restart; no transaction of  *)
(* the Postgres store writes over another's row unseen; every migration    *)
(* ran whole and once (file/index.ts, postgres/index.ts, migrations).      *)
StoresSound ==
    /\ part = "file" => AckedSurvive
    /\ part = "postgres" => PgSound
    /\ part = "migrations" => SchemaWhole
=============================================================================
