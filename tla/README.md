# addons-core: verification project

TLA+ models of the parts of addons-core whose correctness depends on the order
in which things happen, the TLC runs that check them on small instances, and
TLAPS proofs of the properties that matter most for every value of the
constants. Paths below are relative to `src/` of the repository, so
`jobs/engine.ts` is `src/jobs/engine.ts` there, and `src/src/jobs/engine.ts` in
`PROJECT.json`, where `src/` stands for the repository's root.

Run everything from this directory:

    tlasany JobEngine.tla                              # parse
    tlc -config JobNominal.cfg MCJobEngine             # model-check a run
    tlapm JobEngineProofs.tla                          # check the proofs

`PROJECT.json` lists the runs, the code lines behind each definition (`map`),
the hazards, the findings, the theorems, and for every property of a passing
run a mutant: a plausible bug in the code under which TLC finds the property
violated. The mutated forms stand next to the definitions they replace, under
comments that begin with "BUG".

## 1. Inventory

addons-core is a Node.js service that aggregates Stremio-style addons. Each
process runs one event loop: code between two `await`s is atomic, everything
else interleaves, and several processes (replicas, workers) share a store
(Postgres or a file) and Redis.

| Component | State | Operations | What is hard | What makes it correct |
|---|---|---|---|---|
| Weighted semaphore (`concurrency/semaphore.ts`) | units in flight, priority queue | acquire, release, queue timer, abort, abortQueued | a pump that may bypass the head; removals without a pump; double release | units counted exactly; priority and arrival order; no fitting head left waiting |
| Concurrency coordinator (`concurrency/coordinator.ts`) | the named pools, the table of host pools | withSlot, withHostSlot, prune | pools dropped while others use them | the cap of a host holds through pruning |
| Job table (`storage/*`) | job records with status, lock, lease, attempts; addon, grant and outbox rows | enqueue, acquireNextJob, heartbeat, complete, fail, cancel, cleanup; saves | each operation atomic, their callers are not; failJob and completeJob accept writes of former owners; a file that is rewritten whole; row locks | a running job is locked, a retry has attempts left; what was acknowledged survives; no lost update |
| Durable job engine (`jobs/engine.ts`) | running/draining flags, active count, controllers, polls in flight | start, poll, execute, heartbeat, cancel, retry, stop, beginShutdown, enqueueScheduled, drainOutbox | leases that expire under a live worker, stale snapshots, drains, polls in flight, crashes, throwing storage | one handler per job, final states final, every job settles, one job per schedule, no outbox row lost |
| Distributed locks (`jobs/locks.ts`) | Redis or memory locks | acquire, release | locks that are outlived, fall-back to memory | a late release frees nobody else's lock |
| Job handlers (`jobs/handlers/*`) | the progress of imports, transfers, sweeps | run, abort | cancels between steps, clean-up of what a provider keeps | one import a key, nothing left on the account |
| Provider reliability (`reliability/circuit.ts`, `stremio/addonProvider.ts`) | circuit, failures, half-open trial, quarantine, per-provider gate | getState, isProbeAllowed, recordSuccess/Failure, acquire/release | answers recorded long after the state was read; aborts; nested gates | slots and the trial token neither lost nor doubled; recovery |
| Addon manager and store (`addons/*`) | addons and revision in memory, provider registry, rows and revision in the store | install, refresh, setEnabled, setTimeout, remove, reorder, setHealth, reload, save | two replicas; row-by-row saves; a save outside the lock; records rewritten in place | registry, list and waterfall agree; trust gate; durable, monotone revision; replicas agree |
| Admin console (`public/admin/app.js`) | the shown list and its revision, calls under way | load, toggle, move, remove, refresh, sign in | answers out of order, conflicts, an ended session | what is shown is what the server has |
| Audit log (`security/audit.ts`) | ring, file | record, recent | the record comes after the mutation | an acknowledged mutation is in the file |
| Cluster bus (`cluster/bus.ts`) | events in flight | publish, receive | best effort, order against the store | replicas converge |
| Caches (`cache/*`, `patchCacheRevision` in `server.ts`, `media/mediaIdentity.ts`, `catalogs/service.ts`) | LRU map, in-flight promises, Redis entries, revision keys | get, set, single flight, stale-while-revalidate, invalidate | a look-up that spans an invalidation, answers out of order | no answer past its window; one fetch per key |
| Playback grants and proxy (`security/playbackGrant.ts`, `proxyRoute.ts`, `capacity/streams.ts`) | grants in Redis and in each replica's map, stream counters and gauges | issue, get, consume, rewrite a manifest, count, stream, release | Redis commands that interleave or fail, crashes, replicas without Redis, clean-ups that fire twice | caps hold, no slot leaks, grants bounded and found everywhere, bytes recorded once |
| Budgets and rate limits (`capacity/budgets.ts`, `security/rateLimit.ts`) | daily counters, egress windows, buckets | check, consume, window roll | counts across day and window edges | never above the cap |
| Outbound fetches (`security/secureFetch.ts`, `egress/scrapeFetch.ts`, `security/urlPolicy.ts`) | the hop, the pinned address, the timer | redirects, slots | names that change between check and connection | only checked addresses are connected to |
| Source look-ups (`server.ts`, `providers/selection.ts`, `progressiveScrape.ts`, `sources/*`) | picked providers, their answers | bulk, fast-first, progressive | answers in any order, deadlines between batches, providers that go away | every answer in, in the order of the waterfall or the scores |
| Federation, subtitles (`federation/service.ts`, `subtitles/index.ts`) | breakers, what was collected | fan-out, merge | trials kept by an abort or a refusal | first offer wins, best subtitle listed |
| Debrid (`debrid/*`) | torrents on the account, link cache | look up, transfer, poll, clean up, choose a file | a call that fails between two others; a transfer the engine runs again | nothing left behind but where the code leaves it; the wanted file chosen |
| Imports (`routes/import.routes.ts`, `import/*`) | replies by key, import jobs | receive, enqueue, install one by one | retries that overlap or reach another replica | one import a key |
| Health monitor (`health/monitor.ts`) | per-addon health, sweeps | sweep, record, status | sweeps that overlap, probes racing mutations | probes bounded; the status is right once every enabled addon was probed since it changed |
| Graceful shutdown (`lifecycle/shutdown.ts`) | phase list | run phases with time-outs | phases that hang, a second signal, polls in flight when the engine stops | storage outlives the work that uses it, but for jobs acquired too late |
| Migrations (`storage/migrations`) | migration table | run | replicas that start together and die in between | each migration whole, once, in order |
| Config, OpenAPI, validation schemas, telemetry, sessions and secrets | little or none | translation, I/O | | not modelled |

Interactions: routes call the addon manager, the job engine and the look-ups;
a look-up takes a slot of a concurrency pool and calls providers, which pass
their circuit and gate and fetch through the host pools; the job engine calls
the storage and, for cancels and drains, aborts its handlers, which call the
manager, the monitor and the debrid service; the manager's mutations rebuild the
registry, bump the revision, drop caches and announce themselves on the bus,
whose handler on other replicas calls the manager's reload; a shutdown closes
all of it in order.

## 2. Plan

1. `WeightedSemaphore` with `SemaphoreLoops`; `JobStore`, `JobEngine`,
   `JobLifecycle`; `ProviderCircuit`; `ClusterSync`; `PlaybackProxy` (done and
   proved).
2. The parts a request passes through (done): `Budgets`, `RateLimiter`,
   `CacheFlight`, `MediaIdentity`, `Catalogs`, `Egress`, `SourceLookup`,
   `FileSelection`, `Breaker` with `FederatedFetch` and `Subtitles`; composed
   with `PlaybackProxy` in `MCRequestPath`.
3. The parts that work beside the requests (done): `ScheduledWork`, `Outbox`,
   `ImportRequests`, `HealthMonitor`, `DebridTransfer`, `Shutdown`,
   `AddonCatalog`, `AdminConsole`, `MutationAudit`, `FileStore`,
   `PostgresStore`, `Migrations`; composed with `ClusterSync` in `MCBackground`.
4. Proofs (section 6), done: every safety property and action property of the
   passing runs is proved. Liveness stays with TLC.

Abstract specification: `JobLifecycle`, which `JobEngine` implements.

## 3. Modules

Constants and bounds are named in each module's head. A mutation, a fetch or a
storage call is one action where nothing can come between its halves, and one
action per `await` where something can.

### WeightedSemaphore, SemaphoreLoops, MCWeightedSemaphore

One pool. An action is one synchronous stretch of code: `acquire()` up to the
promise it returns (admitted at once, queued, rejected as full, rejected as
aborted), the releaser with the whole `pump()` it ends in, the queue timer, the
abort listener, `abortQueued()`. The queue array is kept as its order: the set
of waiters in front of each waiter. This makes insertion and pump set
definitions; `SemaphoreLoops` keeps the code's loops over sequences, and
`LoopsAgree` says that both give the same in every reachable state. Statistics
counters are left out.

### JobStore, JobEngine, JobLifecycle, MCJobEngine

`JobStore` is what a storage operation does to one record, `JobEngine` the
instances over a shared table. A storage call and its effect are one step, what
the caller does with the answer is another. A poll makes one `acquireNextJob` call:
once that has an answer (`loop` is "acquired", or the call is off `calls`), the
poll locks no other job. The k-th acquisition of job j has an
execution `<<j, k>>` of its own, and k doubles as the `attempts` snapshot
`executeJob` holds. Time is abstracted: `lockedUntil` is the side of now it lies
on, and a lease expires only when nobody keeps it (`Keeps`) or by a fault of
kind "stall". Crashes, throwing storage operations (effect lost or not; an
unhandled rejection ends the process; a release that throws is swallowed, in the
handler's catch block and in the forced release), operators' cancels and retries, `stop()`
and `beginShutdown()` with its two deadlines and forced releases are actions.
`JobLifecycle` is the abstract specification: the statuses and the moves between
them that the documentation promises; `JobEngine` implements it (with
`state` read from the records' statuses) when no drain, cancel of a running job
or fault is in play.

Left out: payloads, progress, the keys, the outbox and the scheduled jobs
(modules of their own), the "no handler registered" branch.

### ProviderCircuit, MCProviderCircuit

One provider under concurrent requests. `circuit` is the breaker record with the
half-open token and the quarantine, `gate` the counting semaphore with its FIFO
queue, `call` the progress of each request through `resolve()`: queued for the
gate, fetching, mapping, fetching subtitles. The registry's methods are
operators on the circuit record (`StateNow` is `getState`, `Probed` is
`isProbeAllowed`, `Failed`, `Succeeded`, `Opened`), and each action applies the
calls its stretch of code makes, including the release of the slot, the hand-over
to the next waiter and the attempt at the next candidate id. Aborts record
nothing. Failures are counted beyond the threshold, up to the bound `MaxFailures`.
The upstream is external: it answers (`up`) or not.

Left out: the negative cache and the budget (they make a request try fewer ids),
the per-host gate, which is twice as wide as the one provider's, latency
metrics.

### ClusterSync, MCClusterSync

Replicas with an `AddonManager` each over the shared rows. `Mutate` changes the
memory and bumps the local revision; `Announce` is the revision hook, which
publishes; only then the save begins, one transaction a row (`ListRows`,
`WriteRow`), each bumping the store's own revision. `setHealth` saves without
the lock. The bus handler compares the announced revision with the local one and
asks for a reload, which takes the lock and reads the rows and the revision in
two queries. Lookups of the response cache remember under which revision they
began; their answer is stored under the revision of the moment. One media key is
enough, since entries differ by revision only.

Left out: addon order, debrid settings, the Redis level of the cache, the
`cache-invalidate` events (what they drop was dropped by the revision handler).

### PlaybackProxy, MCPlaybackProxy

`request` is the progress of each media request through `handleGrantRequest`:
lookup of its grant, a slot of the fetch pool, the fetch with its redirects,
then a manifest to rewrite, a body to buffer, or a stream. A stream reserves its
keys one by one (`Reserve`, `Check`), is rolled back or admitted, relays chunks,
and releases every key it has, including those it never reserved because they
have no cap, as the code does. `count` is keyed by store: "redis" for the
replicas that reached it at start, and the replica itself for the others, where
a counter is one map entry and `decrement` one step. In Redis every command is a
step: DECR and DEL are two. `INCR` and its `EXPIRE` are one step unless the
second fails. `lost` and `saved` are history: the reservations that a crash or a
failed command leaves behind, and the grants Redis accepted. `unbilled` is what a
replica has relayed and not yet recorded.

Left out: single-use grants and revocation, which no caller uses; the rate
limiter, which is one of the reasons for which `Arrive` may refuse; what the URL
policy decides (a fetch or a mint may fail at any time); the insides of
manifests, of which the number of URLs remains.

### Budgets, RateLimiter

`Consume` is `ProviderBudgetRegistry` check-and-count of one provider's day with
its lazy roll-over and its once-a-day report; `Record` and the levels are the
egress monitor's. Days pass at any moment. The limiter's `Take` is one call of
`take()` with the sweep of old buckets or without.

### CacheFlight, Catalogs, MediaIdentity

`CacheFlight` is one key space under `StaleWhileRevalidate`: `Get` reads the LRU
(which moves the key), answers fresh or stale, joins or starts the key's flight;
a flight fetches and writes in two steps, between which callers, invalidations
and `clear()` come. `older` is history: which keys were used
since a key last was, hence the order of their use.

`Catalogs` is `getCatalogPage` on replicas that share Redis: revision and addon
are read when the request comes in, then come the look-up (`LookUpPage`), the
fetch, and the two writes of `CacheManager.set`. A re-import rewrites the address
in the record that waiting requests hold (`Readdressed`), a removal or a reload
leaves them the old record (`Detached`). `named` is history: which address each
revision has stood for. `Kept` is `normalizeCatalogEntries`, compared in
`PagesSound` with the first distinct entries by rank.

`MediaIdentity` is the positive and the negative cache of `mediaIdentity.ts`
with the calls of concurrent viewers and an upstream that edits its answers.

### Egress

A fetch is a chain of hops: resolve and check the name, wait for the host's
slot, connect to the pinned address (`secureFetch.ts:116-125`), read the headers
under the timer, release, follow a redirect or read the body. `dns` changes at
any moment. The table of pools is pruned by age as in `coordinator.ts:150-190`,
idle pools only. Pinned requests bypass the egress
proxy (`scrapeFetch.ts:342`), so the proxied path is not on it.

### SourceLookup

The bulk aggregate, the fast-first variant and the progressive scrape share one
set of providers whose `standing` (circuit, quarantine, budget, health, removal)
changes at any moment. `Selected` and `PickedFor` are the selection, `Batch`,
`AskBatch`, `ProviderReturns` the waves (`Wave` and `FastWave` providers are out at
once and answer in any order), `Normalized`, `FromFirst` (the answers in
the waterfall's order) and `RankedByScore` (a stable insertion sort, `Placed` being
one insertion) what happens to the sources. Deadlines are events. `AnswerExact` says what an answer
holds, `NoneSkipped` that nobody was passed over: an answer without a provider that
was picked was cut by the deadline or had reached its target.

### FileSelection

`Picked` is the scoring and the choice of `scoreAndSelectFile` with the numbers
of the code, over file lists of every combination of extension, size, sample
mark and episode tag. Names are reduced to those features; the parsing of names
is left out.

### Breaker, FederatedFetch, Subtitles

`Breaker` is one breaker record as its callers see it (`AfterFailure`,
`AfterSuccess`, `CircuitNow`, the half-open trial); the two callers differ in
when they take and when they fail to give back the trial. `orphaned` and
`lostTrials` are history: the trials lost in the known ways.

### ScheduledWork, Outbox, ImportRequests

`ScheduledWork` is `enqueueScheduled` and the health trigger under
`withLock`: SET NX, the look at active jobs, the insertion, the release by token,
each a step, with locks that expire and a Redis that fails. `Outbox` is
`drainOutbox` of several replicas over one table. `ImportRequests` is the
handling of `Idempotency-Key` (the replies in the memory of one replica, then
the job table, then a new job) and the import job that looks at its signal
between two installs.

### HealthMonitor, DebridTransfer

Sweeps of the monitor and of the job write what their probes found through
`setHealth`; the status is computed from it, from the circuits and from the enabled
addons of the moment, with the ratio rounded as `toFixed(2)` does (`TooFew`) and
the guard that something is enabled. Servers fail and recover, circuits open and
close, addons come, go and are toggled while probes are under way. `outdated`
(probes that overlapped a change) and `known` (addons unchanged since their last
recorded probe began) are history: `StatusExplained` compares the status with the
servers and circuits themselves, once every enabled addon is known.

`DebridTransfer` has look-ups and transfer jobs on one account, each call of the
provider a step that may fail, with the best-effort deletion. `AfterEnd` is what
the engine makes of the end of a transfer: unless it was cancelled, one that failed,
timed out or was drained (or succeeded, and its `completeJob` threw) is queued
again while attempts are left, and starts from the beginning with another magnet.
Each attempt's torrent is a record of its own.

### Shutdown

The phases of `server.ts` in order, each with its time-out and the rest of the
grace period as its cap; clients and jobs go on meanwhile. A job goes from
"asked" (an `acquireNextJob` in flight) over "granted" to "active" whether or not
the engine still runs, so one that was asked for when the engine stopped (`late`)
may start behind the drain, which looks at the active jobs only. The drain's forced
releases may fail unseen, and so may the write at a job's end: the lease is then
"kept" until it runs out. Time is a clock of coarse ticks.

### AddonCatalog, AdminConsole, MutationAudit

`AddonCatalog` is the manager of one replica: requests join its promise chain
(`lockQueue`), and a turn is one step, since nothing but `setHealth` touches the
addons while it awaits. `site` is what the addresses serve, `sharedRows` the
store another replica writes. `registry` is the insertion order of the provider
registry, rebuilt as `reconcileRegistry` does. `admitted` and `asked` are history: the
manifest an addon was first installed with, and whether somebody ever turned it on
or off. `AdminConsole` is the page and the server's answers to it in any order; a drag
moves a row from any place to any other. The page shows the whole list: filters,
sorting and pages are left out. `MutationAudit` is what the handlers
record after they mutated: the revision read at that moment, the ring and the
file.

### FileStore, PostgresStore, Migrations

`FileStore` is the in-memory data of one process behind `runExclusive`, the
snapshot, the rename, `close()` beside the queue, crashes and a start from the
file. `PostgresStore` has one transaction per connection, a step per statement,
and row locks; `InRing` finds who waits for whom in a circle. `Migrations` is
`init()` of several replicas under the advisory lock, a transaction per
statement.

### MCRequestPath, MCBackground

Each composes its modules in one state space, for TLC. `part`, chosen in the
initial state and never changed, says which module runs in a behaviour; the
others stay in their initial state. The two runs therefore check the modules one
after the other, each by itself, and their properties are conjunctions of the
form `part = p => property of p's module`. Nothing is claimed of interleavings
of two parts: the interactions are inside the modules, where one module holds
both sides (manager, store, bus and cache in `ClusterSync`; look-up, pools and
normalization in `SourceLookup`; handlers, manager's chain and audit in
`MutationAudit`).

Some of a module's steps are cut by a bound of the composition (`CacheBound` and
the like), which the module's own specification does not have; section 4 lists
them.

### The proof modules

`WeightedSemaphoreProofs` and `JobEngineProofs` hold the proofs of one component
each. Of the request side, `AnswerProofs` has what comes between a request and an
upstream's answer (circuit and gate, response cache, catalog pages, media
identities, choice of a file, look-ups), `LimitProofs` what bounds a request
(budgets, rate limiter, playback proxy), and `RequestPathProofs`, which extends
both, the fetches, the federation and the subtitles, and every theorem about
`MCRequestPath` as a whole. Of the parts of `MCBackground`, `WorkProofs` has the
work that must be done once, the health monitor, the audit and the console,
`DurableProofs` the shutdown, the debrid account, the stores, the migrations and
one replica's list of addons, and `BackgroundProofs` the replicas, the types and
the theorems about the composition. A part is proved about by itself, under its
own specification and without the composition's bounds, and the theorem is
carried over to the composition last.

## 4. Runs, bounds, findings

| Run | Shows | Bounds and why they are enough |
|---|---|---|
| weighted_semaphore | exact capacity, queue order, priority and FIFO of admissions, hand-over on release, set definitions equal to the code's loops | 5 callers, limit 4, weights 1–4, queue of 3: a head too big to fit, two tiers, bypass candidates behind it and a full queue occur together; callers are symmetric |
| job_engine | no two handlers on one job | 2 workers, 2 jobs, all cancels, one throwing operation; workers are symmetric |
| job_nominal | ownership, refinement of `JobLifecycle` | 3 workers so that a lease can be lost, taken and lost again; immediate polls |
| job_drain | lock and lease consistency, retry budget, worker counts; every job settles | one drained and one lasting worker, 5 acquisitions of a job with 2 attempts, one fault of either kind |
| provider_circuit | slots, trial token, recovery, every request ends | 3 requests on 2 slots, 2 ids, thresholds of 2 and failures counted to 3, one abort, one request without usable id |
| request_path | the properties of the eleven request-side parts, below | below |
| background | the properties of the thirteen parts beside the requests, below | below |
| job_drain_race, provider_circuit_leak, cluster_diverges, cluster_stale_cache, stream_cap_race | a statement of a comment or a document that the code does not keep | as small as the counterexample allows; job_drain_race has 3 workers of one slot each (one drains, and each poll of the others acquires once), 1 job, 3 attempts |

### request_path

| Part | Property | Bounds |
|---|---|---|
| budgets | `LimitsHold`: granted calls stay under the provider's daily limit; the egress level is that of what was sent today, whenever it is asked for | 2 providers with limits 2 and 1, 3 days, 5 units in chunks of 0–2 around budgets of 4 and 2 |
| rates | `LimitsHold`: at most two quotas in any stretch of one window, the most fixed windows allow, sweeps included | 2 keys, quota 2, window 2, 5 ticks: two windows meet |
| cache | `CachesSound`: one flight a key, the least recently used entry goes, no answer past its window | 3 keys on 2 entries, 2 callers, 3 flights, one clear |
| media | `CachesSound`: an identity, or "not found", is no older than its entry's time and one call | 2 titles on 1 entry, 2 viewers, one edit upstream, one clear |
| pages | `CachesSound`: a page is of no configuration older than the revision the request came in with, no older than its time to live and two requests, and holds the first distinct entries | 2 replicas sharing Redis, 2 browsers with 2 requests, one re-import, removal or reload, one Redis failure |
| egress | `EgressSound`: the requests with a host are those that hold a slot of the pool new callers find; each is connected to a checked address | 3 hosts on 2 pools so that pruning happens, 2 fetches, one redirect, one DNS change |
| lookup | `LookupsSound`: an answer has every source of the providers that answered, in the waterfall's or the scores' order, and no picked provider is passed over but for the deadline or the target | one look-up of each kind, 3 providers, two of which are out at once in a wave of 2 and answer in either order while the third waits, sources that share upstreams, one change of standing; the code's bulk wave is 4, which the theorem covers |
| files | `PickSound`: a proper video of the wanted episode is never passed over | every list of up to 2 files out of the feature combinations, every wish and index |
| federation, subtitles | `FanOutSound`: trials are given back but for those lost in the known ways, the budget is exceeded by no more than the requests under way, first offers win, the best subtitles are listed | 2 backends and 2 look-ups with 3 starts; 3 subtitle providers in batches of 2 with 4 starts: a circuit opens, is tried and closes |
| proxy | `ProxyAccounts`, `LookupFinds`: caps in memory, exact accounts, bounded grants; a stored grant is found by every connected replica | 2 replicas in every mix of Redis and memory, 2 requests of one address (one with a user), cap 1 by address and 2 in all, one grant a replica, 2 mishaps (lapse, failed command, crash); replicas and grants are symmetric |

`PathTypeOK` is the type invariant of whichever part runs.

Five bounds keep rare events from multiplying, each as a condition on the next
state: a third flight of the cache only without `clear()` and within time 1
(`CacheBound`); the change of standing only while one look-up is idle
(`LookupBound`); an edit of the catalogue and a failing Redis do not meet, and
after an edit the time is at most 2 (`PagesBound`); an edit upstream and a
`clear()` of the identities do not meet (`MediaBound`); of the proxy's mishaps and
expired grants there is more than one only while one request is new
(`ProxyBound`). What they leave out is two rare events that meet, or one that
meets everything else under way at once; the theorems of section 6 hold without
the bounds. Of two replicas that start alike, `PathInit` takes the same one to be
cut off from Redis, which loses nothing.

### background

| Part | Property | Bounds |
|---|---|---|
| schedules | `WorkOnce`: one active job a schedule, unless a lock was outlived or taken in memory; whether a sweep runs twice is not its matter (`SweepsOnce`, below) | 2 replicas, 3 callers, 2 troubles (expiry, failing Redis) |
| outbox | `WorkOnce`: a processed row of a type with a handler has its job, one without is marked and has none; a replica makes one job of a row, through deaths | 2 replicas, 2 rows, one of an unknown type, 2 misses |
| imports | `WorkOnce`: requests of one key that did not overlap share a job; a cancelled import stops within one URL | 2 replicas, 2 requests of one key, 2 jobs of 2 URLs, one forgotten reply |
| shutdown | `StorageOutlivesWork`: storage closes under a request only if closing the listener threw, and under a job only if the drain was cut or the job was being acquired as the engine stopped | 2 clients, 1 job, grace of 4, drain of 2 cut at 3, 4 ticks: every timer can fire |
| debrid | `NothingLeftBehind`: a look-up without a link leaves no torrent, nor does an attempt of a transfer that was aborted, rejected or timed out, unless deleting it failed or the account changed under a transfer; an attempt sends one magnet | 2 look-ups, 1 transfer with 2 attempts (of the code's 3: the second meets what the first left) and a poll each, one change of account |
| health | `HealthSound`: probes within the pool; once every enabled addon was probed since it last changed, the status is the one their servers and circuits call for, and ok with none enabled | 2 addons, 2 sweeps of the monitor and 1 of the job, 2 upsets, a ratio of 0.67, so that one of two is too few |
| catalog | `CatalogSound`: list, registry and waterfall agree; an addon whose first import was not trusted enough is off until somebody turns it on (a refresh that lowers the trust of one that is on is `TrustedNow`, below) | 2 addresses of every kind, 3 requests, one outside write |
| audit | `CatalogSound`: an acknowledged mutation is in the file exactly once | 3 operators, ring of 2, one failing append |
| console | `ShownIsTrue`: when every call is over, the page shows the server's state | 3 rows, so that a drag passes over one, 3 calls, one foreign change, one cut connection |
| cluster | `ClusterSound`, `RevisionMonotone`: what a sole writer changed is durable; cached answers are of their revision unless the look-up spanned a change | 2 replicas, 2 addons, 2 mutations, one health save, one fault, one look-up |
| file | `StoresSound`: what was acknowledged survives a restart | 2 writers, 3 writes, one failing write, one crash |
| postgres | `StoresSound`: the revision counts the committed changes, no expected version is overwritten, and a ring of waiting transactions is one of `reorderAddons` calls, which has no caller | 2 connections, 4 commits, one broken connection; two transactions are enough for a circle |
| migrations | `StoresSound`: each migration whole, once, in order | 3 starters, 2 migrations of 2 statements, 2 deaths |

The same kind of bound applies here: the health save and the look-up of the
replicas do not meet (`ClusterBound`); the first request of the catalogue takes
the first address, the two being alike (`CatBound`); a crash and a failing write
of the file do not meet (`FileBound`); addons, servers and circuits change only
while one of the monitor's two sweeps is idle (`HealthBound`); of the look-ups and
the transfer at most two are under way or over (`DebridBound`), and of the clients
and the job of a shutdown too (`DownBound`); a cut connection and a foreign change
of the console do not meet (`ConsoleBound`).

`BackgroundTypeOK` is the type invariant of whichever part runs. Deadlock is
checked except where a system may stop: bounded jobs, requests or mutations that
all ended.

### Findings

Each with the quoted statement in `PROJECT.json`:

- **job_drain_race**: a forced release does not stop the handler; its late
  `failJob` requeues the job under its next owner, so two handlers run at once.
- **provider_circuit_leak**: an aborted half-open trial never gives its token
  back, and the provider is skipped for good.
- **cluster_diverges**: the revision is announced before it is stored; a replica
  that reloads in between stays behind.
- **cluster_stale_cache**: a look-up that spans a mutation stores its answer under
  the new revision.
- **stream_cap_race**: a release deletes a counter that another stream has
  incremented since the release brought it to zero; one stream too many follows.

### Further statements TLC refutes

These are stated in the modules, each at its quoted line, and have no run of
their own: put the name under INVARIANTS of the configuration to see the trace.

| Definition | Statement | What happens instead | Configuration |
|---|---|---|---|
| `SweepsOnce` | `health/monitor.ts:791`: replicas on one schedule do not double-sweep | one replica's job is on its way, and another whose enqueue threw (the lock was taken, or storage failed) sweeps in its process | Background |
| `DrainLeavesNone` | `jobs/engine.ts:225`: in-flight jobs finish within the drain or are aborted | an acquisition in flight when the engine stopped is not called back (`engine.ts:353-362`): the drain sees no active job and ends well, and then the job runs | Background |
| `MagnetOnce` | `uncachedTransferHandler.ts:59`: submits magnet once | the engine runs a failed or drained transfer again, and the magnet is sent again (`engine.ts:531`) | Background |
| `LinksOfAccount` | a cached link belongs to the configured account | a look-up under way when the account changes stores the old account's link after the cache was cleared | Background |
| `TransferLimitHolds` | the 429 answer: per-user transfer limit | two requests count before either has inserted (two transfers: `Transfers = {"t1", "t2"}`) | Background |
| `ProvidersCurrent` | comment of `setTimeout`: providers are registered anew when their settings change | a reload replaces the addons and keeps their providers | Background |
| `TrustedNow` | `addons/manager.ts:953-955`: an addon below the minimum trust is imported disabled until an operator enables it | a refresh or a second import takes the new manifest and leaves `enabled` as it was (`manager.ts:977-999`) | Background |
| `NoLostUpdate` | `docs/api-reference.md`: stale revisions fail with a conflict | the check precedes the wait for the manager's lock | Background |
| `NoBlindWrite` | `public/admin/app.js:6`: optimistic concurrency on mutations | every answer's header raises the page's revision, past changes of others that the page does not show; the next mutation overwrites them without a conflict | Background |
| `EveryMutationAudited` | `docs/adr/0003:22`: every management mutation is audited | the record follows the mutation, and a failing append or a crash comes between | Background |
| `RevisionIsOwn` | `security/audit.ts:30`: the revision after the mutation | the revision is read after another mutation in the chain | Background |
| `UpstreamOnce` | `server.ts:1387`: upstreams are deduplicated | streams are deduplicated within a provider, and two providers offer the same upstream | RequestPath |
| `ProgressiveInTime` | `progressiveScrape.ts:174`: the deadline is respected | a deadline that passed while the scrape waited for its slot leaves it the provider's whole time-out | RequestPath |
| `NoVideoMeansNone` | `no_video_files_found` when there is none | a video marked as a sample or as another episode is outscored by a file of unknown kind, and the answer is that there is none | RequestPath |
| `FailingBackendOpens` | `federation/service.ts:11`: a breaker per backend | an HTTP error or a time-out between hops is taken for a refusal of the policy and not counted | RequestPath |
| `TokenTellsPage` | `docs/integration-cineflix.md:60`: the revision header is the coherence token | it is read when the answer is sent, the page when the request came in | RequestPath |
| `MutationInvalidates` | `cache/namespaces.ts:76`: mutations invalidate catalog pages | a re-import rewrites the address in the record a waiting request holds (`manager.ts:980`), and the new page is kept under the old revision | RequestPath |
| `WithinBudget` | `secureFetch.ts`: an overall budget for the chain | the time that remained before the name look-up and the wait for the slot is given to the timer after them (`MaxFetchClock = 2`) | RequestPath |

Seen while modelling, and without a definition: an expired lease is reclaimed
without a look at `attempts` (`storage/file/index.ts:469`), and a running job
cancelled through another worker is completed by the one that runs it. Both are
behaviour of `JobEngine`, and the reason why `KeepsLifecycle` is claimed without
cancels of running jobs.

## 5. Fairness

Fairness stands only where the code's scheduling gives it. Timers fire and
promises settle: the poll loop, the storage answers, the finally blocks and the
drain deadlines. A handler of a job ends (weak fairness of its end), which the
engine itself does not enforce; `job_drain` names it as an assumption. Every
fetch has a timeout and so ends. In `ProviderCircuit` new requests are fair: this
is demand, not scheduling, since a half-open circuit closes only in a trial;
recovery is claimed on the condition that the upstream eventually answers for
good (`<>[]up`). No fairness is put on operators, mutations, crashes, faults,
aborts or lost events. The two composed runs check safety only.

## 6. Proofs

Each theorem holds for every value of the constants: any finite set of callers,
replicas, addons or requests, any limit, quota, time to live or queue depth. Every
proof has the same shape: an invariant that is inductive, a lemma that it holds
at the start, a lemma per action that the step keeps it, a lemma that it implies
the property, and the temporal step.

### Assumptions

Constants are numbers where the code has numbers (`Nat`; positive where a zero is
replaced by a default or makes no sense), sets of callers, replicas and rows are
finite where something counts them, and values that mean "none" are none of the
values they are told apart from. Beyond that:

- `ProxyAssumption`: the keys of the stream counters have name spaces (`ip:`,
  `user:` and the global key in `capacity/streams.ts`), so the key of an address
  is that of no user and not the global one.
- `FederationAssumption`, `SubtitlesAssumption`: backends and addons are numbered
  in the order of their configuration, which is the order they are asked in.
- `LookupAssumption`: a look-up is of one kind, the waterfall lists no provider
  twice, and a wave asks at least one.
- `CatalogsAssumption`: a page has room for an entry and lives for a while, and an
  entry without an id is none of the titles. Its two bounds (`MaxPageEdits`,
  `MaxPageTime`), and `MaxRequests` of `ManagerAssumption`, are bounds of the
  model: the theorems hold for every value of them, which is any finite behaviour.
- `FilesAssumption`: the score of a video's extension is between 5 and 50, as in
  the table of `scoreAndSelectFile`; `ConsoleAssumption`: the console has finitely
  many rows.
- `ExclusiveCorrect` and `OwnerCorrect` name their hypotheses in the theorem (no
  worker drains, no live worker misses a whole lease; for the latter no cancel of
  a running job): without them the statements are false, as `job_drain_race` shows.
  `LifecycleKept` likewise names the absence of drains, faults and such cancels.

### WeightedSemaphoreProofs

`TypeCorrect`, `CapacityCorrect`, `SortedCorrect`, `NoStrandedCorrect`,
`LoopsCorrect`, and the action properties `OrderServed` and `HeadServed`.
`CapacityExact` needs cardinalities of sets of units, one element per unit of
weight; the step lemmas say how a set of holders gains and loses callers. In the
model the pump admits a whole set at once, and so do these lemmas. `OrderInv`: the arrival
order is a strict total order on the waiters and the queue is sorted by priority
and arrival; from it and the exact capacity (`PoolInv`) follow the other three.
`LoopsCorrect` justifies the sets: `Pumping` holds between two turns of the code's
loop (the admitted and the waiters share the queue, and whoever was passed over did
not fit at its turn), a turn that takes nobody leaves what `PumpAdmits` describes,
and of the sets it describes there is only one. A loop is a recursive function of
the number of turns, and the induction is on that number.

### JobEngineProofs

`TypeCorrect`; `LeaseCorrect` (a record is locked and leased exactly while
running: inductive on the store's operations alone, hence true under every fault,
crash and drain); `RetryCorrect` (an execution's snapshot never exceeds the
record's attempts, so `CanRetry` is never too generous, and the forced releases
go through the same test); `ExclusiveCorrect` and `OwnerCorrect`, whose invariant
ties every execution that still works to the lock it works under: if the lock is
its worker's and the lease valid, it is the only one; otherwise it has been
aborted or is about to write a result that the record no longer takes;
`WorkersCorrect` (the counter equals the registered executions through every
`finally`, abort and drain). `LifecycleKept` is the refinement: the initial states
of the engine are initial states of `JobLifecycle`, and each action maps to a move
of the life cycle or to none, storage operation by storage operation.

### AnswerProofs

`TypeCorrect`, `SlotsCorrect`, `ProbeCorrect`, `TrialCorrect` are the circuit's.
The invariant says of the gate that the waiters are queued once each and none
while a slot is free, and of the circuit that the token is out in the half-open
state only. `TrialCorrect` adds that without an abort somebody who will report
holds it: every answer path of `resolve()`, through ids and subtitles, ends in
`recordSuccess` or `recordFailure`.

`CacheIsSound` (`CacheInv`): a key has one running flight in the table, and at most
one more for each `clear()`; whoever waits, waits for a flight that runs; the LRU
list is ranked by `older`, so that its end is the least recently used key.
`PagesAreSound` (`PagesInv`): an entry kept under a revision, a page in flight and
the record a waiting request holds are all of an address that the revision, or a
later one, has stood for, and none was made after now. `IdentitiesAreSound`
(`MediaInv`): an entry says what TMDB said within its time to live and one call.

`PicksAreSound` and `LookupsAreSound` are about loops over lists of any length. The
loops are recursive functions on numbers or `FlattenSeq`, and a loop's invariant is
shown by taking the least index at which it fails (`LeastNumber`, from the
well-foundedness of the numbers): for the best file seen so far, for the distinct
entries of a page, for the insertions of `RankedByScore`, whose result has the
same sources in an order explained by a permutation. `LookInv` says of a look-up
at every stage which of its providers were asked, that each one's sources carry
its name and no upstream twice, and that an answer is exactly the picked
providers' sources.

The types of these parts follow from the same invariants and from two bounds
(`CacheBounds`, `PagesBounds`) that say which counts and times the model's own
guards keep.

### WorkProofs

`ScheduledOnce`: a caller between SET NX and its release holds the lock, and what
the second look at the active jobs found still stands when the row is inserted.
`OutboxDelivered`: a drain never has an item behind it without the job it makes.
`ImportedOnce`: an answered request's job exists, and two requests of a key that
got different jobs overlapped or lost a reply. `HealthIsSound`: whoever a sweep
has yet to ask, asks or has heard of makes up its list; a probe that is not
outdated will find what the server and the circuit are now, so what is recorded of
a known addon is true, and the usable ones among enabled known addons are those
that can serve, for any number of addons and any ratio. `MutationsAreAudited` (`AuditInv`): who waits to append has its event in
memory unless newer ones pushed it out, ring and file have no operator twice, and
the revisions in the ring rise as the manager's does. `PageIsTrue` (`ConsoleInv`)
is the console's: unless a reload is still to come, the operator has to sign in or
an answer was lost, each row agrees with the server, or was changed by others
since, or a toggle is on its way that will make it agree (`Hopes`); and a toggle
the server would still accept is the newest of its row or is followed by a newer
one (`Followed`), so that the server's acceptance of it leaves the row right.

### DurableProofs

`StorageLast`: a phase that ended well has emptied what it drains, only the end of
the grace period skips one, and a job that is granted or active behind a drain that
ended well was asked for before the engine stopped. `NothingStays`: a torrent on an
account is that of one attempt of one task, on the account the attempt began with;
the attempt sent one magnet, and its end, if it has ended, is a link that was handed
out, a deletion that failed, or one of the ends the code leaves a transfer's torrent
at, for any number of attempts the engine makes. `PgKeepsItsWord`: the stored revision counts the
committed mutations, each transaction has locked the rows it changes, the addon
rows first and the revision row when it is about to commit; only `reorderAddons`
waits for an addon with another one locked, so a ring of waiting transactions is
one of reorders. `SchemaIsWhole`: the advisory lock has one holder, and what it
knows of the schema stands. `FileKeepsItsWord`: the line of `runExclusive` has one
caller at its head, and the file has what was acknowledged. `CatalogHolds`
(`CatInv`): no id and no order is given twice in a list, the registry lists the
enabled stream addons in the waterfall's order, with the settings of their records
but for those a reload replaced (`InStep`), and each mutation, rebuild and renumbering
keeps that, for every place it can have in the chain. What a sort leaves is
described by rank: an element stands where as many precede it as come before it
in the order. An id that is free is there because no more addons are listed than
were asked for (`Room`).

### LimitProofs

`BudgetsAreKept`; `RatesAreBounded` (the calls admitted are explained by windows
that start a whole window apart, and two of them is the most a stretch as long as
a window can meet). `GrantsAreFound` needs little (`GrantsInv`). `AccountsAreKept`
is the longest proof: for each key and store, the counter is the number of
reservations held and of those a crash or a failing command left there
(`CountersExact`; in memory, `MemoryExact`), the gauges are the streams admitted
(`GaugesExact`), and each request's own record says which keys it has yet to give
back (`RequestsSound`), between the Redis commands of a release too. The types add
that no day or window is later than now, that what was counted passed no quota
(`BudgetBounds`, `RateBounds`), and that a grant somebody holds was issued
(`IssuedSound`).

### RequestPathProofs

`EgressIsSound` (a host's pool is in the table as long as anybody uses it, so that
those who hold a slot hold one of the pool that new callers find; a connection
goes to the address that was checked at its own hop); `FederationIsSound` and
`SubtitlesAreSound` (a trial is out only while somebody asks, or was lost in one of
the known ways; what was collected is sorted and of the first that offered it, in
whatever order it came). `PathTypes` puts the types of all eleven parts together.

### BackgroundProofs and the compositions

`ReplicasAreTrue` and the action property `RevisionsRise` are about `ClusterSync`:
the lock serializes saves and reloads but for `setHealth`; what a look-up or a
cache entry has is of the revision it remembers, if that is still the replica's;
and if only one replica ever wrote, what it has not saved it will save under the
lock it holds. `BackgroundTypes` is the types of all thirteen parts: the version of
a stored record is not past the revision of its file, what the Postgres connections
committed is what was counted, a kept answer names a job there is, a torrent is of
an account there has been, and the rows of the console and of the server are in
some order each, once, through every move and removal (`OrdersInv`).

A behaviour of a composition changes the variables of one part and leaves those
of the others alone, so it is a behaviour of each part's own specification,
stuttering of the parts that do not run included (`ConsoleProjects`,
`ProxyWithin` and the like: initial states imply initial states, and each step
a step or a stutter). The step bounds of the composition only remove behaviours.
Hence `WorkIsOnce`, `StoresAreSound`, `StorageIsLast`, `NothingIsLeft`,
`HealthIsKept`, `ReplicasStayTrue`, `RevisionsStayMonotone`, `PageStaysTrue`,
`AuditStaysSound`, `CatalogStaysSound` and `BackgroundTypes` of the one, and
`LimitsAreHeld`, `EgressStaysSound`, `FanOutStaysSound`, `CachesStaySound`,
`PicksStaySound`, `LookupsStaySound`, `GrantsStayFound`, `AccountsStayKept` and
`PathTypes` of the other state every property the two runs check, of the very
specification they check.

### Model-checked only

- Liveness (`JobSettles`, `RequestEnds`, `CircuitRecoversUnaborted`): the proof
  system has no rule for fairness.

## 7. Not modelled

- Telemetry and metrics, configuration, the OpenAPI document, validation schemas
  and routing tables: translation and output, no state whose order matters.
- Authentication, sessions, CSRF, redaction, sealing of secrets: stateless checks
  or cryptography.
- The clients of single debrid services beyond the calls `DebridTransfer` makes,
  the Stremio protocol's URLs and fields, magnet and name parsing, language
  tables: conversions of data.
- Operations without a caller in the repository: `canServeMedia`, `extend` of
  the locks, single-use and revoked grants, the importer of old data. (The
  stores' `reorderAddons` has none either; `PostgresStore` has it, since it is
  what can deadlock.)
- Interleavings of two parts of a composed run (see MCRequestPath,
  MCBackground).
- Priority starvation in the pools: strict priority lets urgent callers keep a
  waiter queued until its timer; the code promises no more.
