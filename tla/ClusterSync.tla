----------------------------- MODULE ClusterSync -----------------------------
(***************************************************************************)
(* The addon configuration of a cluster: the AddonManager of each replica  *)
(* (src/addons/manager.ts), which keeps the addons in memory with a        *)
(* revision of its own, the shared store behind it (BackendAddonStore over *)
(* Postgres), the bus that announces revisions (src/cluster/bus.ts), and   *)
(* the response cache of each replica, keyed by revision (src/server.ts).  *)
(*                                                                         *)
(* The code of a replica between two awaits is one step, and so is one     *)
(* query or transaction of the store.  Mutations and reloads of a replica  *)
(* are serialised by withLock; the saves of setHealth are not.             *)
(*                                                                         *)
(* An addon is "absent", "on" or "off".  One media key is enough for the   *)
(* cache, whose entries are kept apart by revision only; the cache is the  *)
(* in-memory one, and an entry no later read can hit is forgotten.         *)
(***************************************************************************)
EXTENDS Integers, Sequences, FiniteSets

CONSTANTS
    Replicas,      \* processes that share the store
    Addons,        \* the addons there may be
    MaxMutations,  \* bound: mutations by operators
    MaxHealth,     \* bound: saves by the health monitors
    MaxFaults,     \* bound: lost events, failed writes and restarts
    MaxLookups     \* bound: lookups

ASSUME ClusterAssumption ==
    /\ IsFiniteSet(Replicas) /\ IsFiniteSet(Addons)
    /\ MaxMutations \in Nat /\ MaxHealth \in Nat
    /\ MaxFaults \in Nat /\ MaxLookups \in Nat

VARIABLES
    table,      \* the rows of the store
    stored,     \* its revision
    mem,        \* each replica's addons
    rev,        \* each replica's revision
    holder,     \* what the holder of each replica's lock is doing
    loaded,     \* the rows a reload has read, before it reads the revision
    saver,      \* the saves in progress: the lock holder's and the monitor's
    inbox,      \* revision events on their way to each replica
    reload,     \* a reload waits for the lock
    lookup,     \* the cache miss being computed
    cache,      \* the cached response
    writers,    \* history: replicas that changed or saved anything
    counts      \* mutations, health saves, faults and lookups so far

storeVars == <<table, stored>>
replicaVars == <<mem, rev, holder, loaded, saver, inbox, reload>>
cacheVars == <<lookup, cache>>
vars == <<storeVars, replicaVars, cacheVars, writers, counts>>

Values == {"absent", "on", "off"}
Configs == [Addons -> Values]
Kinds == {"mutation", "health"}

NoConfig == [a \in Addons |-> "absent"]
NoSave == [pc |-> "idle", snap |-> NoConfig, todo |-> {}]
NoLookup == [busy |-> FALSE, set |-> {}, from |-> 0]
NoEntry == [key |-> -1, set |-> {}, from |-> 0]

(* The providers a lookup asks.                                            *)
Enabled(config) == {a \in Addons : config[a] = "on"}

Init ==
    /\ table = NoConfig /\ stored = 0
    /\ mem = [r \in Replicas |-> NoConfig]
    /\ rev = [r \in Replicas |-> 0]
    /\ holder = [r \in Replicas |-> "free"]
    /\ loaded = [r \in Replicas |-> NoConfig]
    /\ saver = [r \in Replicas |-> [k \in Kinds |-> NoSave]]
    /\ inbox = [r \in Replicas |-> <<>>]
    /\ reload = [r \in Replicas |-> FALSE]
    /\ lookup = [r \in Replicas |-> NoLookup]
    /\ cache = [r \in Replicas |-> NoEntry]
    /\ writers = {}
    /\ counts = [mutations |-> 0, health |-> 0, faults |-> 0, lookups |-> 0]

Counted(what, max) == /\ counts[what] < max
                      /\ counts' = [counts EXCEPT ![what] = @ + 1]
----------------------------------------------------------------------------
(* Mutations: install, setEnabled, remove and the like.                    *)

(* BUG: a mutation that does not bump the revision.                        *)
MutateNoBump(r, a, v) ==
    /\ holder[r] = "free" /\ v # mem[r][a]
    /\ Counted("mutations", MaxMutations)
    /\ mem' = [mem EXCEPT ![r][a] = v]
    /\ holder' = [holder EXCEPT ![r] = "announcing"]
    /\ writers' = writers \cup {r}
    /\ UNCHANGED <<storeVars, rev, loaded, saver, inbox, reload, cacheVars>>

(* Memory changes and the local revision is bumped in one go.              *)
Mutate(r, a, v) ==
    /\ holder[r] = "free" /\ v # mem[r][a]
    /\ Counted("mutations", MaxMutations)
    /\ mem' = [mem EXCEPT ![r][a] = v]
    /\ rev' = [rev EXCEPT ![r] = @ + 1]
    /\ holder' = [holder EXCEPT ![r] = "announcing"]
    /\ writers' = writers \cup {r}
    /\ UNCHANGED <<storeVars, loaded, saver, inbox, reload, cacheVars>>

(* The revision hook: caches dropped, the event published.  The save of    *)
(* persist() starts only then.                                             *)
Announce(r) ==
    /\ holder[r] = "announcing"
    /\ cache' = [cache EXCEPT ![r] = NoEntry]
    /\ holder' = [holder EXCEPT ![r] = "saving"]
    /\ saver' = [saver EXCEPT ![r]["mutation"] =
                    [pc |-> "listing", snap |-> mem[r], todo |-> {}]]
    /\ \/ /\ inbox' = [s \in Replicas |-> IF s = r THEN inbox[s]
                                          ELSE Append(inbox[s], rev[r])]
          /\ UNCHANGED counts
       \/ /\ UNCHANGED inbox
          /\ Counted("faults", MaxFaults)
    /\ UNCHANGED <<storeVars, mem, rev, loaded, reload, lookup, writers>>

(* setHealth() saves everything and does not wait, nor take the lock.      *)
SaveHealth(r) ==
    /\ saver[r]["health"].pc = "idle"
    /\ Enabled(mem[r]) # {}
    /\ Counted("health", MaxHealth)
    /\ saver' = [saver EXCEPT ![r]["health"] =
                    [pc |-> "listing", snap |-> mem[r], todo |-> {}]]
    /\ writers' = writers \cup {r}
    /\ UNCHANGED <<storeVars, mem, rev, holder, loaded, inbox, reload, cacheVars>>
----------------------------------------------------------------------------
(* BackendAddonStore.save().                                               *)

(* BUG: rows of addons that were removed are left in the store.            *)
StaleKept(snap) == {a \in Addons : snap[a] # "absent"}

(* The rows to touch: those to remove and those to write.                  *)
RowsToTouch(snap) ==
    {a \in Addons : snap[a] # "absent"} \cup {a \in Addons : table[a] # "absent"}

ListRows(r, k) ==
    /\ saver[r][k].pc = "listing"
    /\ saver' = [saver EXCEPT ![r][k].pc = "writing",
                              ![r][k].todo = RowsToTouch(saver[r][k].snap)]
    /\ UNCHANGED <<storeVars, mem, rev, holder, loaded, inbox, reload, cacheVars,
                   writers, counts>>

(* Removals come first.                                                    *)
NextRow(r, k, a) ==
    LET s == saver[r][k] IN
    /\ s.pc = "writing" /\ a \in s.todo
    /\ s.snap[a] # "absent" => \A b \in s.todo : s.snap[b] # "absent"

(* saveAddon() or removeAddon(): one row, and the store's revision bumped. *)
WriteRow(r, k, a) ==
    /\ NextRow(r, k, a)
    /\ table' = [table EXCEPT ![a] = saver[r][k].snap[a]]
    /\ stored' = IF table[a] = "absent" /\ saver[r][k].snap[a] = "absent"
                 THEN stored ELSE stored + 1
    /\ saver' = [saver EXCEPT ![r][k].todo = @ \ {a}]
    /\ UNCHANGED <<mem, rev, holder, loaded, inbox, reload, cacheVars, writers, counts>>

(* BUG: the end of any save frees the replica's lock.                    *)
SaveEndsFreesLock(r, k) ==
    /\ saver' = [saver EXCEPT ![r][k] = NoSave]
    /\ holder' = [holder EXCEPT ![r] = "free"]
    /\ UNCHANGED <<storeVars, mem, rev, loaded, inbox, reload, cacheVars, writers>>

(* persist() is over: the lock is freed if it was the holder's save.       *)
SaveEnds(r, k) ==
    /\ saver' = [saver EXCEPT ![r][k] = NoSave]
    /\ holder' = IF k = "mutation" THEN [holder EXCEPT ![r] = "free"] ELSE holder
    /\ UNCHANGED <<storeVars, mem, rev, loaded, inbox, reload, cacheVars, writers>>

Saved(r, k) ==
    /\ saver[r][k].pc = "writing" /\ saver[r][k].todo = {}
    /\ SaveEnds(r, k)
    /\ UNCHANGED counts

(* A query fails: persist() logs it and gives up the rest.                 *)
SaveFails(r, k) ==
    /\ saver[r][k].pc # "idle"
    /\ Counted("faults", MaxFaults)
    /\ SaveEnds(r, k)
----------------------------------------------------------------------------
(* The bus handler: only a revision above the local one asks for a reload. *)
Receive(r) ==
    /\ inbox[r] # <<>>
    /\ inbox' = [inbox EXCEPT ![r] = Tail(@)]
    /\ reload' = [reload EXCEPT ![r] = @ \/ Head(inbox[r]) > rev[r]]
    /\ UNCHANGED <<storeVars, mem, rev, holder, loaded, saver, cacheVars, writers, counts>>

(* reloadFromStorage(): the rows, then, in a query of its own, the         *)
(* revision.                                                               *)
LoadRows(r) ==
    /\ holder[r] = "free" /\ reload[r]
    /\ reload' = [reload EXCEPT ![r] = FALSE]
    /\ holder' = [holder EXCEPT ![r] = "loading"]
    /\ loaded' = [loaded EXCEPT ![r] = table]
    /\ UNCHANGED <<storeVars, mem, rev, saver, inbox, cacheVars, writers, counts>>

(* BUG: whatever was loaded replaces what is there.                        *)
LoadRevisionAnyway(r) ==
    /\ holder[r] = "loading"
    /\ mem' = [mem EXCEPT ![r] = loaded[r]]
    /\ rev' = [rev EXCEPT ![r] = stored]
    /\ cache' = [cache EXCEPT ![r] = NoEntry]
    /\ holder' = [holder EXCEPT ![r] = "free"]
    /\ loaded' = [loaded EXCEPT ![r] = NoConfig]
    /\ UNCHANGED <<storeVars, saver, inbox, reload, lookup, writers, counts>>

LoadRevision(r) ==
    /\ holder[r] = "loading"
    /\ \/ /\ stored > rev[r]
          /\ mem' = [mem EXCEPT ![r] = loaded[r]]
          /\ rev' = [rev EXCEPT ![r] = stored]
          /\ cache' = [cache EXCEPT ![r] = NoEntry]
       \/ /\ stored <= rev[r]
          /\ UNCHANGED <<mem, rev, cache>>
    /\ holder' = [holder EXCEPT ![r] = "free"]
    /\ loaded' = [loaded EXCEPT ![r] = NoConfig]
    /\ UNCHANGED <<storeVars, saver, inbox, reload, lookup, writers, counts>>

(* The process dies and comes back: init() loads what is stored, its two   *)
(* queries taken as one.  What was published in between is gone.           *)
Restart(r) ==
    /\ Counted("faults", MaxFaults)
    /\ mem' = [mem EXCEPT ![r] = table]
    /\ rev' = [rev EXCEPT ![r] = stored]
    /\ holder' = [holder EXCEPT ![r] = "free"]
    /\ loaded' = [loaded EXCEPT ![r] = NoConfig]
    /\ saver' = [saver EXCEPT ![r] = [k \in Kinds |-> NoSave]]
    /\ inbox' = [inbox EXCEPT ![r] = <<>>]
    /\ reload' = [reload EXCEPT ![r] = FALSE]
    /\ lookup' = [lookup EXCEPT ![r] = NoLookup]
    /\ cache' = [cache EXCEPT ![r] = NoEntry]
    /\ UNCHANGED <<storeVars, writers>>
----------------------------------------------------------------------------
(* The response cache: get() and set() both take the revision of the       *)
(* moment for the key.                                                     *)
Hit(r) == cache[r].key = rev[r]

StartLookup(r) ==
    /\ ~ lookup[r].busy /\ ~ Hit(r)
    /\ Counted("lookups", MaxLookups)
    /\ lookup' = [lookup EXCEPT ![r] =
                     [busy |-> TRUE, set |-> Enabled(mem[r]), from |-> rev[r]]]
    /\ UNCHANGED <<storeVars, replicaVars, cache, writers>>

EndLookup(r) ==
    /\ lookup[r].busy
    /\ cache' = [cache EXCEPT ![r] =
                    [key |-> rev[r], set |-> lookup[r].set, from |-> lookup[r].from]]
    /\ lookup' = [lookup EXCEPT ![r] = NoLookup]
    /\ UNCHANGED <<storeVars, replicaVars, writers, counts>>
----------------------------------------------------------------------------
Saves(r, k) ==
    ListRows(r, k) \/ Saved(r, k) \/ SaveFails(r, k) \/ \E a \in Addons : WriteRow(r, k, a)

Next ==
    \E r \in Replicas :
        \/ \E a \in Addons, v \in Values : Mutate(r, a, v)
        \/ Announce(r) \/ SaveHealth(r)
        \/ \E k \in Kinds : Saves(r, k)
        \/ Receive(r) \/ LoadRows(r) \/ LoadRevision(r) \/ Restart(r)
        \/ StartLookup(r) \/ EndLookup(r)

(* Promises settle, and the bus delivers what it does not lose.            *)
Fairness ==
    \A r \in Replicas :
        /\ WF_vars(Announce(r)) /\ WF_vars(Receive(r))
        /\ WF_vars(LoadRows(r)) /\ WF_vars(LoadRevision(r)) /\ WF_vars(EndLookup(r))
        /\ \A k \in Kinds : WF_vars(Saves(r, k))

Spec == Init /\ [][Next]_vars
FairSpec == Spec /\ Fairness
----------------------------------------------------------------------------
(* Every variable has its type; a mutation keeps the replica's lock for as *)
(* long as its save runs, and rows read are held only under the lock.      *)
TypeOK ==
    /\ table \in Configs /\ stored \in Nat
    /\ mem \in [Replicas -> Configs] /\ rev \in [Replicas -> Nat]
    /\ holder \in [Replicas -> {"free", "announcing", "saving", "loading"}]
    /\ loaded \in [Replicas -> Configs]
    /\ saver \in [Replicas -> [Kinds -> [pc : {"idle", "listing", "writing"},
                                         snap : Configs, todo : SUBSET Addons]]]
    /\ inbox \in [Replicas -> Seq(Nat)]
    /\ reload \in [Replicas -> BOOLEAN]
    /\ lookup \in [Replicas -> [busy : BOOLEAN, set : SUBSET Addons, from : Nat]]
    /\ cache \in [Replicas -> [key : Nat \cup {-1}, set : SUBSET Addons, from : Nat]]
    /\ writers \subseteq Replicas
    /\ \A r \in Replicas :
          /\ holder[r] = "saving" <=> saver[r]["mutation"].pc # "idle"
          /\ holder[r] # "loading" => loaded[r] = NoConfig

(* As long as a process lives its revision never falls back, whatever      *)
(* events, reloads and mutations cross: clients drop older responses.      *)
RevisionMonotone ==
    [][\A r \in Replicas : rev'[r] >= rev[r] \/ Restart(r)]_vars

(* What one replica alone changed is durable once its lock is free, and    *)
(* the store is then at least at its revision, so that a later reload of   *)
(* any other replica takes it.  Saves outside the lock and failed writes   *)
(* are excepted.                                                           *)
SoleWriterDurable ==
    \A r \in Replicas :
        /\ writers \subseteq {r} /\ holder[r] = "free"
        /\ counts.health = 0 /\ counts.faults = 0
        => table = mem[r] /\ stored >= rev[r]

(* A hit gives the answer of the providers now enabled, unless the lookup  *)
(* that filled the entry began under an earlier revision.                  *)
CacheFreshUnlessSpanned ==
    \A r \in Replicas :
        Hit(r) /\ cache[r].from = cache[r].key => cache[r].set = Enabled(mem[r])

(* server.ts: a stale entry is never hit after a mutation.                 *)
StaleNeverHit ==
    \A r \in Replicas : Hit(r) => cache[r].set = Enabled(mem[r])

(* ADR 0004: the replicas converge once the mutations are over.            *)
ReplicasConverge == <>[](\A r, s \in Replicas : mem[r] = mem[s])
=============================================================================
