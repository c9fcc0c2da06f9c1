-------------------------- MODULE BackgroundProofs --------------------------
(***************************************************************************)
(* Proofs about the replicas of the addon configuration (ClusterSync), the *)
(* types of the parts beside the requests, and these parts together: a     *)
(* behaviour of the whole is a behaviour of each part, so what is proved   *)
(* of a part, here and in WorkProofs and DurableProofs, holds of what is   *)
(* model-checked.                                                          *)
(***************************************************************************)
EXTENDS MCBackground, DurableProofs

(* The replicas.                                                           *)

Savers == [pc : {"idle", "listing", "writing"}, snap : Configs, todo : SUBSET Addons]
LookupStates == [busy : BOOLEAN, set : SUBSET Addons, from : Nat]
Entries == [key : Nat \cup {-1}, set : SUBSET Addons, from : Nat]
Counts == [mutations : Nat, health : Nat, faults : Nat, lookups : Nat]

ClusterShape ==
    /\ table \in Configs /\ stored \in Nat
    /\ mem \in [Replicas -> Configs] /\ rev \in [Replicas -> Nat]
    /\ holder \in [Replicas -> {"free", "announcing", "saving", "loading"}]
    /\ loaded \in [Replicas -> Configs]
    /\ saver \in [Replicas -> [Kinds -> Savers]]
    /\ inbox \in [Replicas -> Seq(Nat)]
    /\ reload \in [Replicas -> BOOLEAN]
    /\ lookup \in [Replicas -> LookupStates]
    /\ cache \in [Replicas -> Entries]
    /\ writers \subseteq Replicas
    /\ counts \in Counts

LockKept ==
    \A r \in Replicas :
        /\ holder[r] = "saving" <=> saver[r]["mutation"].pc # "idle"
        /\ holder[r] # "loading" => loaded[r] = NoConfig

(* What an answer that is computed or cached is of: of the addons of now   *)
(* if its revision is that of now, which is never an earlier one.          *)
AnswersOf(r) ==
    /\ lookup[r].busy => lookup[r].from <= rev[r]
    /\ lookup[r].busy /\ lookup[r].from = rev[r] => lookup[r].set = Enabled(mem[r])
    /\ cache[r].key <= rev[r]
    /\ cache[r].key = rev[r] /\ cache[r].from = cache[r].key => cache[r].set = Enabled(mem[r])

ClusterInv == ClusterShape /\ LockKept /\ \A r \in Replicas : AnswersOf(r)

(* What a free slot holds is of the slot's type.                           *)
LEMMA NothingHasTypes ==
    NoConfig \in Configs /\ NoSave \in Savers /\ NoLookup \in LookupStates /\ NoEntry \in Entries
BY DEF NoConfig, Configs, Values, NoSave, Savers, NoLookup, LookupStates, NoEntry, Entries

(* A step that is counted keeps the counters numbers.                      *)
LEMMA CountedTypes ==
    ASSUME counts \in Counts, NEW what \in {"mutations", "health", "faults", "lookups"},
           NEW max, Counted(what, max)
    PROVE  counts' \in Counts
BY DEF Counts, Counted

(* The enabled addons are addons.                                          *)
LEMMA EnabledTypes == ASSUME NEW c PROVE Enabled(c) \subseteq Addons
BY DEF Enabled

(* Mutations, and the saves of the health monitor.                         *)
LEMMA MutateKeeps ==
    ASSUME ClusterInv, NEW r \in Replicas, NEW a \in Addons, NEW v \in Values, Mutate(r, a, v)
    PROVE  ClusterInv'
<1>1. PICK c \in Configs : c = mem[r]
  BY DEF ClusterInv, ClusterShape
<1>2. PICK n \in Nat : n = rev[r]
  BY DEF ClusterInv, ClusterShape
<1> DEFINE d == [c EXCEPT ![a] = v]
<1>3. d \in Configs
  BY DEF Configs
<1>4. /\ mem' = [mem EXCEPT ![r] = d] /\ rev' = [rev EXCEPT ![r] = n + 1]
      /\ holder' = [holder EXCEPT ![r] = "announcing"] /\ holder[r] = "free"
      /\ writers' = writers \cup {r}
      /\ UNCHANGED <<table, stored, loaded, saver, inbox, reload, lookup, cache>>
  BY <1>1, <1>2 DEF Mutate, storeVars, cacheVars
<1> HIDE DEF d
<1>5. counts' \in Counts
  BY CountedTypes DEF Mutate, ClusterInv, ClusterShape
<1>6. ClusterShape'
  BY <1>3, <1>4, <1>5 DEF ClusterInv, ClusterShape
<1>7. LockKept'
  BY <1>4 DEF ClusterInv, ClusterShape, LockKept
<1>8. ASSUME NEW s \in Replicas PROVE AnswersOf(s)'
  <2>1. CASE s = r
    <3>1. /\ rev'[s] = n + 1 /\ lookup'[s] = lookup[s] /\ cache'[s] = cache[s]
          /\ lookup[s].busy => lookup[s].from <= n
          /\ cache[s].key <= n /\ n \in Nat
      BY <1>2, <1>4, <2>1 DEF ClusterInv, ClusterShape, AnswersOf
    <3>2. lookup[s].from \in Nat /\ cache[s].key \in Int
      BY <2>1 DEF ClusterInv, ClusterShape, LookupStates, Entries
    <3>3. /\ lookup[s].busy => lookup[s].from <= n + 1 /\ lookup[s].from # n + 1
          /\ cache[s].key <= n + 1 /\ cache[s].key # n + 1
      BY <3>1, <3>2
    <3> QED
      BY <3>1, <3>3 DEF AnswersOf
  <2>2. CASE s # r
    BY <1>4, <2>2 DEF ClusterInv, ClusterShape, AnswersOf
  <2> QED
    BY <2>1, <2>2
<1> QED
  BY <1>6, <1>7, <1>8 DEF ClusterInv

(* The revision hook: the cache of the replica is dropped, the save starts. *)
LEMMA AnnounceKeeps ==
    ASSUME ClusterInv, NEW r \in Replicas, Announce(r)
    PROVE  ClusterInv'
<1>1. PICK sv \in [Kinds -> Savers] : sv = saver[r]
  BY DEF ClusterInv, ClusterShape
<1>2. PICK w \in Savers : w = [pc |-> "listing", snap |-> mem[r], todo |-> {}]
  BY DEF ClusterInv, ClusterShape, Savers
<1> DEFINE sw == [sv EXCEPT !["mutation"] = w]
<1>3. sw \in [Kinds -> Savers] /\ sw["mutation"].pc = "listing"
  BY <1>2 DEF Kinds
<1>4. /\ cache' = [cache EXCEPT ![r] = NoEntry] /\ holder' = [holder EXCEPT ![r] = "saving"]
      /\ saver' = [saver EXCEPT ![r] = sw] /\ holder[r] = "announcing"
      /\ UNCHANGED <<table, stored, mem, rev, loaded, reload, lookup, writers>>
  BY <1>1, <1>2 DEF Announce, storeVars
<1> HIDE DEF sw
<1>5. counts' \in Counts /\ inbox' \in [Replicas -> Seq(Nat)]
  <2>1. inbox' = inbox \/ inbox' = [s \in Replicas |-> IF s = r THEN inbox[s]
                                                     ELSE Append(inbox[s], rev[r])]
    BY DEF Announce
  <2>2. counts' = counts \/ Counted("faults", MaxFaults)
    BY DEF Announce
  <2>3. rev[r] \in Nat /\ inbox \in [Replicas -> Seq(Nat)] /\ counts \in Counts
    BY DEF ClusterInv, ClusterShape
  <2>4. counts' \in Counts
    BY <2>2, <2>3, CountedTypes
  <2>5. \A s \in Replicas : Append(inbox[s], rev[r]) \in Seq(Nat)
    BY <2>3
  <2>6. inbox' \in [Replicas -> Seq(Nat)]
    BY <2>1, <2>3, <2>5
  <2> QED
    BY <2>4, <2>6
<1>6. ClusterShape'
  BY <1>3, <1>4, <1>5, NothingHasTypes DEF ClusterInv, ClusterShape
<1>7. LockKept'
  BY <1>3, <1>4 DEF ClusterInv, ClusterShape, LockKept
<1>8. ASSUME NEW s \in Replicas PROVE AnswersOf(s)'
  <2>1. CASE s = r
    <3>1. cache'[s].key = -1 /\ rev'[s] \in Nat /\ lookup'[s] = lookup[s] /\ mem'[s] = mem[s]
          /\ rev'[s] = rev[s]
      BY <1>4, <2>1 DEF ClusterInv, ClusterShape, NoEntry
    <3> QED
      BY <3>1 DEF ClusterInv, AnswersOf
  <2>2. CASE s # r
    BY <1>4, <2>2 DEF ClusterInv, ClusterShape, AnswersOf
  <2> QED
    BY <2>1, <2>2
<1> QED
  BY <1>6, <1>7, <1>8 DEF ClusterInv

(* A save of the health monitor, outside the lock.                         *)
LEMMA SaveHealthKeeps ==
    ASSUME ClusterInv, NEW r \in Replicas, SaveHealth(r)
    PROVE  ClusterInv'
<1>1. PICK sv \in [Kinds -> Savers] : sv = saver[r]
  BY DEF ClusterInv, ClusterShape
<1>2. PICK w \in Savers : w = [pc |-> "listing", snap |-> mem[r], todo |-> {}]
  BY DEF ClusterInv, ClusterShape, Savers
<1> DEFINE sw == [sv EXCEPT !["health"] = w]
<1>3. sw \in [Kinds -> Savers] /\ sw["mutation"] = saver[r]["mutation"]
  BY <1>1, <1>2 DEF Kinds
<1>4. /\ saver' = [saver EXCEPT ![r] = sw] /\ writers' = writers \cup {r}
      /\ UNCHANGED <<table, stored, mem, rev, holder, loaded, inbox, reload, lookup, cache>>
  BY <1>1, <1>2 DEF SaveHealth, storeVars, cacheVars
<1> HIDE DEF sw
<1>5. counts' \in Counts
  BY CountedTypes DEF SaveHealth, ClusterInv, ClusterShape
<1>6. ClusterShape'
  <2>1. saver' \in [Replicas -> [Kinds -> Savers]] /\ writers' \subseteq Replicas
    BY <1>3, <1>4 DEF ClusterInv, ClusterShape
  <2>2. ClusterShape
    BY DEF ClusterInv
  <2> QED
    BY <1>4, <1>5, <2>1, <2>2 DEF ClusterShape
<1>7. LockKept'
  BY <1>3, <1>4 DEF ClusterInv, ClusterShape, LockKept
<1>8. \A s \in Replicas : AnswersOf(s)'
  BY <1>4 DEF ClusterInv, AnswersOf
<1> QED
  BY <1>6, <1>7, <1>8 DEF ClusterInv

(* A step of a save that moves it from one state to another.               *)
LEMMA SaveStepKeeps ==
    ASSUME ClusterInv, NEW r \in Replicas, NEW k \in Kinds, Saves(r, k)
    PROVE  ClusterInv'
<1>1. PICK sv \in [Kinds -> Savers] : sv = saver[r]
  BY DEF ClusterInv, ClusterShape
<1>2. ASSUME NEW w \in Savers, saver' = [saver EXCEPT ![r] = [sv EXCEPT ![k] = w]],
             table' \in Configs, stored' \in Nat, counts' \in Counts,
             UNCHANGED <<mem, rev, loaded, inbox, reload, lookup, cache, writers>>,
             \/ holder' = holder /\ (w.pc = "idle" <=> sv[k].pc = "idle")
             \/ holder' = holder /\ k = "health"
             \/ holder' = [holder EXCEPT ![r] = "free"] /\ w.pc = "idle" /\ k = "mutation"
                /\ holder[r] = "saving"
      PROVE  ClusterInv'
  <2> DEFINE sw == [sv EXCEPT ![k] = w]
  <2>1. sw \in [Kinds -> Savers] /\ saver' = [saver EXCEPT ![r] = sw]
        /\ sw["mutation"] = IF k = "mutation" THEN w ELSE saver[r]["mutation"]
    BY <1>1, <1>2 DEF Kinds
  <2> HIDE DEF sw
  <2>2. ClusterShape'
    <3>1. ClusterShape
      BY DEF ClusterInv
    <3>2. saver' \in [Replicas -> [Kinds -> Savers]]
      BY <2>1, <3>1 DEF ClusterShape
    <3>3. holder' \in [Replicas -> {"free", "announcing", "saving", "loading"}]
      BY <1>2, <3>1 DEF ClusterShape
    <3> QED
      BY <1>2, <3>1, <3>2, <3>3 DEF ClusterShape
  <2>3. LockKept'
    <3> SUFFICES ASSUME NEW s \in Replicas
                 PROVE  /\ holder'[s] = "saving" <=> saver'[s]["mutation"].pc # "idle"
                        /\ holder'[s] # "loading" => loaded'[s] = NoConfig
      BY DEF LockKept
    <3>1. holder[s] = "saving" <=> saver[s]["mutation"].pc # "idle"
      BY DEF ClusterInv, LockKept
    <3>2. holder[s] # "loading" => loaded[s] = NoConfig
      BY DEF ClusterInv, LockKept
    <3>3. CASE s = r
      <4>1. saver'[s]["mutation"] = IF k = "mutation" THEN w ELSE saver[r]["mutation"]
        BY <2>1, <3>3 DEF ClusterInv, ClusterShape
      <4>2. k = "mutation" => sv[k] = saver[s]["mutation"]
        BY <1>1, <3>3
      <4>3. holder'[s] = holder[s] \/ (holder'[s] = "free" /\ holder[s] = "saving")
        BY <1>2, <3>3 DEF ClusterInv, ClusterShape
      <4>4. holder'[s] = "saving" <=> saver'[s]["mutation"].pc # "idle"
        BY <1>2, <3>1, <3>3, <4>1, <4>2, <4>3 DEF ClusterInv, ClusterShape
      <4> QED
        BY <1>2, <3>2, <4>3, <4>4
    <3>4. CASE s # r
      BY <1>2, <2>1, <3>1, <3>2, <3>4 DEF ClusterInv, ClusterShape
    <3> QED
      BY <3>3, <3>4
  <2>4. \A s \in Replicas : AnswersOf(s)'
    BY <1>2 DEF ClusterInv, AnswersOf
  <2> QED
    BY <2>2, <2>3, <2>4 DEF ClusterInv
<1>3. sv[k] \in Savers /\ sv[k].snap \in Configs /\ sv[k].todo \subseteq Addons
  BY DEF Savers
<1>4. table \in Configs /\ stored \in Nat /\ counts \in Counts
  BY DEF ClusterInv, ClusterShape
<1>5. CASE ListRows(r, k)
  <2> DEFINE w == [sv[k] EXCEPT !.pc = "writing", !.todo = RowsToTouch(sv[k].snap)]
  <2>1. w \in Savers /\ w.pc = "writing" /\ sv[k].pc = "listing"
    BY <1>1, <1>3, <1>5 DEF ListRows, Savers, RowsToTouch
  <2>2. saver' = [saver EXCEPT ![r] = [sv EXCEPT ![k] = w]]
    BY <1>1, <1>5 DEF ListRows
  <2>3. UNCHANGED <<table, stored, counts, holder, mem, rev, loaded, inbox, reload, lookup,
                    cache, writers>>
    BY <1>5 DEF ListRows, storeVars, cacheVars
  <2> HIDE DEF w
  <2> QED
    BY <1>2, <1>4, <2>1, <2>2, <2>3
<1>6. ASSUME NEW a \in Addons, WriteRow(r, k, a) PROVE ClusterInv'
  <2> DEFINE w == [sv[k] EXCEPT !.todo = sv[k].todo \ {a}]
  <2>1. w \in Savers /\ w.pc = sv[k].pc
    BY <1>3 DEF Savers
  <2>2. saver' = [saver EXCEPT ![r] = [sv EXCEPT ![k] = w]]
    BY <1>1, <1>6 DEF WriteRow
  <2>3. /\ table' = [table EXCEPT ![a] = sv[k].snap[a]] /\ stored' \in {stored, stored + 1}
        /\ UNCHANGED <<counts, holder, mem, rev, loaded, inbox, reload, lookup, cache, writers>>
    BY <1>1, <1>6 DEF WriteRow, cacheVars
  <2>4. table' \in Configs /\ stored' \in Nat
    BY <1>3, <1>4, <2>3 DEF Configs
  <2> HIDE DEF w
  <2> QED
    BY <1>2, <1>4, <2>1, <2>2, <2>3, <2>4
<1>7. CASE Saved(r, k) \/ SaveFails(r, k)
  <2>1. NoSave \in Savers /\ NoSave.pc = "idle"
    BY NothingHasTypes DEF NoSave
  <2>2. /\ saver' = [saver EXCEPT ![r] = [sv EXCEPT ![k] = NoSave]] /\ sv[k].pc # "idle"
        /\ holder' = IF k = "mutation" THEN [holder EXCEPT ![r] = "free"] ELSE holder
        /\ UNCHANGED <<table, stored, mem, rev, loaded, inbox, reload, lookup, cache, writers>>
    BY <1>1, <1>7 DEF Saved, SaveFails, SaveEnds, storeVars, cacheVars
  <2>3. counts' \in Counts
    BY <1>4, <1>7, CountedTypes DEF Saved, SaveFails
  <2>4. k = "mutation" => holder[r] = "saving"
    BY <1>1, <2>2 DEF ClusterInv, LockKept
  <2>5. k = "mutation" \/ k = "health"
    BY DEF Kinds
  <2> QED
    BY <1>2, <1>4, <2>1, <2>2, <2>3, <2>4, <2>5
<1> QED
  BY <1>5, <1>6, <1>7 DEF Saves

(* Events, reloads and restarts.                                           *)
LEMMA ReloadKeeps ==
    ASSUME ClusterInv, NEW r \in Replicas, Receive(r) \/ LoadRows(r) \/ LoadRevision(r)
    PROVE  ClusterInv'
<1>1. CASE Receive(r)
  <2>1. PICK q \in Seq(Nat) : q = inbox[r] /\ q # << >>
    BY <1>1 DEF Receive, ClusterInv, ClusterShape
  <2>2. /\ inbox' = [inbox EXCEPT ![r] = Tail(q)] /\ Tail(q) \in Seq(Nat)
        /\ reload' \in [Replicas -> BOOLEAN]
        /\ UNCHANGED <<table, stored, mem, rev, holder, loaded, saver, lookup, cache, writers,
                       counts>>
    <3>1. reload' = [reload EXCEPT ![r] = reload[r] \/ Head(q) > rev[r]]
      BY <1>1, <2>1 DEF Receive
    <3>2. reload[r] \in BOOLEAN /\ (Head(q) > rev[r]) \in BOOLEAN
      BY DEF ClusterInv, ClusterShape
    <3>3. (reload[r] \/ Head(q) > rev[r]) \in BOOLEAN
      BY <3>2, Zenon
    <3>4. reload' \in [Replicas -> BOOLEAN]
      BY <3>1, <3>3 DEF ClusterInv, ClusterShape
    <3> QED
      BY <1>1, <2>1, <3>4 DEF Receive, storeVars, cacheVars
  <2>3. ClusterShape'
    BY <2>2 DEF ClusterInv, ClusterShape
  <2> QED
    BY <2>2, <2>3 DEF ClusterInv, LockKept, AnswersOf
<1>2. CASE LoadRows(r)
  <2>1. /\ holder' = [holder EXCEPT ![r] = "loading"] /\ loaded' = [loaded EXCEPT ![r] = table]
        /\ reload' = [reload EXCEPT ![r] = FALSE] /\ holder[r] = "free"
        /\ UNCHANGED <<table, stored, mem, rev, saver, inbox, lookup, cache, writers, counts>>
    BY <1>2 DEF LoadRows, storeVars, cacheVars
  <2>2. ClusterShape'
    BY <2>1 DEF ClusterInv, ClusterShape
  <2>3. LockKept'
    BY <2>1 DEF ClusterInv, ClusterShape, LockKept
  <2> QED
    BY <2>1, <2>2, <2>3 DEF ClusterInv, AnswersOf
<1>3. CASE LoadRevision(r)
  <2>1. /\ holder' = [holder EXCEPT ![r] = "free"] /\ loaded' = [loaded EXCEPT ![r] = NoConfig]
        /\ holder[r] = "loading"
        /\ UNCHANGED <<table, stored, saver, inbox, reload, lookup, writers, counts>>
    BY <1>3 DEF LoadRevision, storeVars
  <2>2. LockKept'
    BY <2>1 DEF ClusterInv, ClusterShape, LockKept
  <2>3. CASE UNCHANGED <<mem, rev, cache>>
    <3>1. ClusterShape'
      BY <2>1, <2>3, NothingHasTypes DEF ClusterInv, ClusterShape
    <3> QED
      BY <2>1, <2>2, <2>3, <3>1 DEF ClusterInv, AnswersOf
  <2>4. CASE /\ stored > rev[r] /\ mem' = [mem EXCEPT ![r] = loaded[r]]
             /\ rev' = [rev EXCEPT ![r] = stored] /\ cache' = [cache EXCEPT ![r] = NoEntry]
    <3>1. ClusterShape'
      BY <2>1, <2>4, NothingHasTypes DEF ClusterInv, ClusterShape
    <3>2. ASSUME NEW s \in Replicas PROVE AnswersOf(s)'
      <4>1. CASE s = r
        <5>1. /\ rev'[s] = stored /\ stored > rev[s] /\ lookup'[s] = lookup[s]
              /\ cache'[s].key = -1 /\ stored \in Nat /\ rev[s] \in Nat
              /\ lookup[s].from \in Nat
              /\ lookup[s].busy => lookup[s].from <= rev[s]
          BY <2>1, <2>4, <4>1
             DEF ClusterInv, ClusterShape, NoEntry, AnswersOf, LookupStates
        <5>2. lookup[s].busy => lookup[s].from <= stored /\ lookup[s].from # stored
          BY <5>1
        <5> QED
          BY <5>1, <5>2 DEF AnswersOf
      <4>2. CASE s # r
        BY <2>1, <2>4, <4>2 DEF ClusterInv, ClusterShape, AnswersOf
      <4> QED
        BY <4>1, <4>2
    <3> QED
      BY <2>2, <3>1, <3>2 DEF ClusterInv
  <2> QED
    BY <1>3, <2>3, <2>4 DEF LoadRevision
<1> QED
  BY <1>1, <1>2, <1>3

(* A restart: the replica is as the store is.                              *)
LEMMA RestartKeeps ==
    ASSUME ClusterInv, NEW r \in Replicas, Restart(r)
    PROVE  ClusterInv'
<1>1. PICK sw \in [Kinds -> Savers] : sw = [k \in Kinds |-> NoSave]
  BY NothingHasTypes
<1>2. /\ mem' = [mem EXCEPT ![r] = table] /\ rev' = [rev EXCEPT ![r] = stored]
      /\ holder' = [holder EXCEPT ![r] = "free"] /\ loaded' = [loaded EXCEPT ![r] = NoConfig]
      /\ saver' = [saver EXCEPT ![r] = sw] /\ inbox' = [inbox EXCEPT ![r] = << >>]
      /\ reload' = [reload EXCEPT ![r] = FALSE] /\ lookup' = [lookup EXCEPT ![r] = NoLookup]
      /\ cache' = [cache EXCEPT ![r] = NoEntry] /\ UNCHANGED <<table, stored, writers>>
  BY <1>1 DEF Restart, storeVars
<1>3. counts' \in Counts
  BY CountedTypes DEF Restart, ClusterInv, ClusterShape
<1>4. ClusterShape'
  BY <1>1, <1>2, <1>3, NothingHasTypes DEF ClusterInv, ClusterShape
<1>5. LockKept'
  <2>1. sw["mutation"].pc = "idle"
    BY <1>1 DEF Kinds, NoSave
  <2> QED
    BY <1>2, <2>1 DEF ClusterInv, ClusterShape, LockKept
<1>6. ASSUME NEW s \in Replicas PROVE AnswersOf(s)'
  <2>1. CASE s = r
    <3>1. ~lookup'[s].busy /\ cache'[s].key = -1 /\ rev'[s] \in Nat
      BY <1>2, <2>1 DEF ClusterInv, ClusterShape, NoLookup, NoEntry
    <3> QED
      BY <3>1 DEF AnswersOf
  <2>2. CASE s # r
    BY <1>2, <2>2 DEF ClusterInv, ClusterShape, AnswersOf
  <2> QED
    BY <2>1, <2>2
<1> QED
  BY <1>4, <1>5, <1>6 DEF ClusterInv

(* Lookups.                                                                *)
LEMMA LookupKeeps ==
    ASSUME ClusterInv, NEW r \in Replicas, StartLookup(r) \/ EndLookup(r)
    PROVE  ClusterInv'
<1>1. UNCHANGED <<table, stored, mem, rev, holder, loaded, saver, inbox, reload, writers>>
  BY DEF StartLookup, EndLookup, storeVars, replicaVars
<1>2. counts' \in Counts
  BY CountedTypes DEF StartLookup, EndLookup, ClusterInv, ClusterShape
<1>3. LockKept'
  BY <1>1 DEF ClusterInv, LockKept
<1>4. rev[r] \in Nat /\ lookup[r] \in LookupStates /\ cache[r] \in Entries
  BY DEF ClusterInv, ClusterShape
<1>5. CASE StartLookup(r)
  <2>1. PICK l \in LookupStates :
            l = [busy |-> TRUE, set |-> Enabled(mem[r]), from |-> rev[r]]
    BY <1>4, EnabledTypes DEF LookupStates
  <2>2. lookup' = [lookup EXCEPT ![r] = l] /\ cache' = cache
    BY <1>5, <2>1 DEF StartLookup
  <2>3. ClusterShape'
    BY <1>1, <1>2, <2>2 DEF ClusterInv, ClusterShape
  <2>4. ASSUME NEW s \in Replicas PROVE AnswersOf(s)'
    <3>1. CASE s = r
      <4>1. lookup'[s] = l /\ l.from = rev[s] /\ l.set = Enabled(mem[s])
        BY <2>1, <2>2, <3>1 DEF ClusterInv, ClusterShape
      <4> QED
        BY <1>1, <1>4, <2>2, <3>1, <4>1 DEF ClusterInv, AnswersOf
    <3>2. CASE s # r
      BY <1>1, <2>2, <3>2 DEF ClusterInv, ClusterShape, AnswersOf
    <3> QED
      BY <3>1, <3>2
  <2> QED
    BY <1>3, <2>3, <2>4 DEF ClusterInv
<1>6. CASE EndLookup(r)
  <2>1. PICK e \in Entries :
            e = [key |-> rev[r], set |-> lookup[r].set, from |-> lookup[r].from]
    BY <1>4 DEF LookupStates, Entries
  <2>2. lookup' = [lookup EXCEPT ![r] = NoLookup] /\ cache' = [cache EXCEPT ![r] = e]
        /\ lookup[r].busy
    BY <1>6, <2>1 DEF EndLookup
  <2>3. ClusterShape'
    BY <1>1, <1>2, <2>2, NothingHasTypes DEF ClusterInv, ClusterShape
  <2>4. ASSUME NEW s \in Replicas PROVE AnswersOf(s)'
    <3>1. CASE s = r
      <4>1. cache'[s] = e /\ e.key = rev[s] /\ e.set = lookup[s].set /\ e.from = lookup[s].from
            /\ ~lookup'[s].busy
        BY <2>1, <2>2, <3>1 DEF ClusterInv, ClusterShape, NoLookup
      <4> QED
        BY <1>1, <1>4, <2>2, <3>1, <4>1 DEF ClusterInv, AnswersOf
    <3>2. CASE s # r
      BY <1>1, <2>2, <3>2 DEF ClusterInv, ClusterShape, AnswersOf
    <3> QED
      BY <3>1, <3>2
  <2> QED
    BY <1>3, <2>3, <2>4 DEF ClusterInv
<1> QED
  BY <1>5, <1>6

(* Every step of the replicas keeps the invariant.                         *)
LEMMA ClusterStepKeeps ==
    ASSUME ClusterInv, [Next]_vars
    PROVE  ClusterInv'
<1>1. CASE UNCHANGED vars
  BY <1>1 DEF vars, storeVars, replicaVars, cacheVars, ClusterInv, ClusterShape, LockKept, AnswersOf
<1>2. CASE Next
  BY <1>2, MutateKeeps, AnnounceKeeps, SaveHealthKeeps, SaveStepKeeps, ReloadKeeps,
     RestartKeeps, LookupKeeps DEF Next
<1> QED
  BY <1>1, <1>2

(* The invariant of the replicas holds, for any number of them.            *)
LEMMA ClusterIsSound == Spec => []ClusterInv
<1>1. Init => ClusterInv
  <2> SUFFICES ASSUME Init PROVE ClusterInv
    OBVIOUS
  <2>1. ClusterShape
    <3>1. counts \in Counts /\ [k \in Kinds |-> NoSave] \in [Kinds -> Savers]
      BY NothingHasTypes DEF Init, Counts
    <3> QED
      BY <3>1, NothingHasTypes DEF Init, ClusterShape
  <2>2. LockKept
    BY DEF Init, LockKept, Kinds, NoSave
  <2>3. \A r \in Replicas : AnswersOf(r)
    BY DEF Init, AnswersOf, NoLookup, NoEntry
  <2> QED
    BY <2>1, <2>2, <2>3 DEF ClusterInv
<1> QED
  BY <1>1, ClusterStepKeeps, PTL DEF Spec

(* A step changes the revision of one replica: upwards, unless it restarts. *)
LEMMA RevisionSteps ==
    ASSUME ClusterInv, Next, NEW r \in Replicas, ~Restart(r)
    PROVE  rev'[r] >= rev[r]
<1>1. rev \in [Replicas -> Nat] /\ stored \in Nat
  BY DEF ClusterInv, ClusterShape
<1>2. ASSUME rev' = rev PROVE rev'[r] >= rev[r]
  BY <1>1, <1>2
<1>3. ASSUME NEW s \in Replicas, rev' = [rev EXCEPT ![s] = rev[s] + 1] PROVE rev'[r] >= rev[r]
  <2>1. rev'[r] = IF r = s THEN rev[r] + 1 ELSE rev[r]
    BY <1>1, <1>3
  <2> QED
    BY <1>1, <2>1
<1>4. ASSUME NEW s \in Replicas, LoadRevision(s) PROVE rev'[r] >= rev[r]
  <2>1. CASE rev' = rev
    BY <1>2, <2>1
  <2>2. CASE stored > rev[s] /\ rev' = [rev EXCEPT ![s] = stored]
    <3>1. rev'[r] = IF r = s THEN stored ELSE rev[r]
      BY <1>1, <2>2
    <3> QED
      BY <1>1, <2>2, <3>1
  <2> QED
    BY <1>4, <2>1, <2>2 DEF LoadRevision
<1>5. ASSUME NEW s \in Replicas, Restart(s) PROVE rev'[r] >= rev[r]
  <2>1. r # s
    BY <1>5
  <2>2. rev'[r] = rev[r]
    BY <1>1, <1>5, <2>1 DEF Restart
  <2> QED
    BY <1>1, <2>2
<1>6. ASSUME NEW s \in Replicas, \E a \in Addons, v \in Values : Mutate(s, a, v)
      PROVE  rev'[r] >= rev[r]
  BY <1>3, <1>6 DEF Mutate
<1>7. ASSUME NEW s \in Replicas, NEW k \in Kinds, Saves(s, k) PROVE rev' = rev
  BY <1>7 DEF Saves, ListRows, WriteRow, Saved, SaveFails, SaveEnds
<1>8. ASSUME NEW s \in Replicas, \/ Announce(s) \/ SaveHealth(s) \/ Receive(s) \/ LoadRows(s)
                                \/ StartLookup(s) \/ EndLookup(s)
      PROVE  rev' = rev
  BY <1>8 DEF Announce, SaveHealth, Receive, LoadRows, StartLookup, EndLookup, replicaVars
<1> QED
  BY <1>2, <1>4, <1>5, <1>6, <1>7, <1>8 DEF Next

(* ClusterSync: the revision of a process that lives never falls back, for *)
(* any number of replicas, mutations and events (manager.ts, bus.ts).      *)
THEOREM RevisionsRise == Spec => RevisionMonotone
<1>1. ClusterInv /\ [Next]_vars => [\A r \in Replicas : rev'[r] >= rev[r] \/ Restart(r)]_vars
  BY RevisionSteps
<1> QED
  BY <1>1, ClusterIsSound, PTL DEF Spec, RevisionMonotone
-----------------------------------------------------------------------------
(* What a replica that alone writes makes durable.                         *)
Sole(r) == writers \subseteq {r} /\ counts.health = 0 /\ counts.faults = 0

OthersIdle(r) ==
    \A s \in Replicas :
        /\ saver[s]["health"].pc = "idle"
        /\ s # r => holder[s] \in {"free", "loading"}

(* The store is at the replica's revision, or one write away from it.      *)
StoreFollows(r) ==
    \/ stored >= rev[r]
    \/ stored + 1 >= rev[r] /\ \E a \in Addons : table[a] # mem[r][a]

OwnSave(r) ==
    /\ holder[r] \in {"free", "loading"} => table = mem[r]
    /\ holder[r] = "loading" => loaded[r] = table
    /\ holder[r] = "saving" => saver[r]["mutation"].snap = mem[r]
    /\ saver[r]["mutation"].pc = "writing" =>
          \A a \in Addons \ saver[r]["mutation"].todo : table[a] = mem[r][a]

Follows(r) == OthersIdle(r) /\ StoreFollows(r) /\ OwnSave(r)

(* Who is alone after a step was alone before it.                          *)
LEMMA StillSole ==
    ASSUME ClusterInv, Next, NEW r \in Replicas, Sole(r)'
    PROVE  Sole(r)
<1>1. counts \in Counts
  BY DEF ClusterInv, ClusterShape
<1>2. ASSUME NEW what \in {"mutations", "health", "faults", "lookups"}, NEW max,
             Counted(what, max), writers \subseteq writers'
      PROVE  Sole(r)
  BY <1>1, <1>2 DEF Counted, Counts, Sole
<1>3. ASSUME UNCHANGED counts, writers \subseteq writers' PROVE Sole(r)
  BY <1>3 DEF Sole
<1>4. ASSUME NEW s \in Replicas, \E a \in Addons, v \in Values : Mutate(s, a, v) PROVE Sole(r)
  BY <1>2, <1>4 DEF Mutate
<1>5. ASSUME NEW s \in Replicas, NEW k \in Kinds, Saves(s, k) PROVE Sole(r)
  BY <1>2, <1>3, <1>5 DEF Saves, ListRows, WriteRow, Saved, SaveFails, SaveEnds
<1>6. ASSUME NEW s \in Replicas, Announce(s) \/ SaveHealth(s) \/ Restart(s) PROVE Sole(r)
  BY <1>2, <1>3, <1>6 DEF Announce, SaveHealth, Restart
<1>7. ASSUME NEW s \in Replicas, Receive(s) \/ LoadRows(s) \/ LoadRevision(s) PROVE Sole(r)
  BY <1>3, <1>7 DEF Receive, LoadRows, LoadRevision
<1>8. ASSUME NEW s \in Replicas, StartLookup(s) \/ EndLookup(s) PROVE Sole(r)
  BY <1>2, <1>3, <1>8 DEF StartLookup, EndLookup
<1> QED
  BY <1>4, <1>5, <1>6, <1>7, <1>8 DEF Next

(* A step that counts a fault or a save of the health monitor is excepted. *)
LEMMA CountedShows ==
    ASSUME counts \in Counts, NEW what \in {"health", "faults"}, NEW max, Counted(what, max),
           NEW r, Sole(r)'
    PROVE  FALSE
BY DEF Counts, Counted, Sole

(* A mutation of the replica leaves the store one revision behind.         *)
LEMMA MutateFollows ==
    ASSUME ClusterInv, NEW r \in Replicas, NEW s \in Replicas, NEW b \in Addons,
           NEW v \in Values, Mutate(s, b, v), Sole(r)', Follows(r)
    PROVE  Follows(r)'
<1>1. s = r
  BY DEF Mutate, Sole
<1>2. /\ holder \in [Replicas -> {"free", "announcing", "saving", "loading"}]
      /\ mem[r] \in Configs /\ rev[r] \in Nat /\ stored \in Nat /\ table \in Configs
      /\ rev \in [Replicas -> Nat] /\ mem \in [Replicas -> Configs]
  BY DEF ClusterInv, ClusterShape
<1>3. /\ mem'[r] = [mem[r] EXCEPT ![b] = v] /\ rev'[r] = rev[r] + 1 /\ v # mem[r][b]
      /\ holder' = [holder EXCEPT ![r] = "announcing"] /\ holder[r] = "free"
      /\ UNCHANGED <<table, stored, saver>>
  BY <1>1, <1>2 DEF Mutate, storeVars
<1>4. table = mem[r] /\ saver[r]["mutation"].pc = "idle"
  <2>1. holder[r] # "saving"
    BY <1>3
  <2> QED
    BY <1>3, <2>1 DEF Follows, OwnSave, ClusterInv, LockKept, ClusterShape, Savers, Kinds
<1>5. OthersIdle(r)'
  BY <1>2, <1>3 DEF Follows, OthersIdle
<1>6. StoreFollows(r)'
  <2>1. stored >= rev[r]
    BY <1>4 DEF Follows, StoreFollows
  <2>2. table[b] # mem'[r][b]
    BY <1>2, <1>3, <1>4 DEF Configs
  <2>3. stored' + 1 >= rev'[r]
    BY <1>2, <1>3, <2>1
  <2> QED
    BY <1>3, <2>2, <2>3 DEF StoreFollows
<1>7. OwnSave(r)'
  BY <1>2, <1>3, <1>4 DEF OwnSave
<1> QED
  BY <1>5, <1>6, <1>7 DEF Follows
(* A save of the lock holder starts from the memory it is to make durable. *)
LEMMA AnnounceFollows ==
    ASSUME ClusterInv, NEW r \in Replicas, NEW s \in Replicas, Announce(s), Sole(r)', Follows(r)
    PROVE  Follows(r)'
<1>1. s = r /\ holder[r] = "announcing"
  BY DEF Announce, Follows, OthersIdle
<1>2. /\ holder \in [Replicas -> {"free", "announcing", "saving", "loading"}]
      /\ saver \in [Replicas -> [Kinds -> Savers]]
  BY DEF ClusterInv, ClusterShape
<1>3. PICK sv \in [Kinds -> Savers] : sv = saver[r]
  BY <1>2
<1>4. PICK w \in Savers : w = [pc |-> "listing", snap |-> mem[r], todo |-> {}]
  BY DEF ClusterInv, ClusterShape, Savers
<1> DEFINE sw == [sv EXCEPT !["mutation"] = w]
<1>5. sw["mutation"] = w /\ sw["health"] = saver[r]["health"] /\ w.pc = "listing" /\ w.snap = mem[r]
  BY <1>3, <1>4 DEF Kinds
<1>6. /\ holder' = [holder EXCEPT ![r] = "saving"] /\ saver' = [saver EXCEPT ![r] = sw]
      /\ UNCHANGED <<table, stored, mem, rev, loaded>>
  BY <1>1, <1>3, <1>4 DEF Announce, storeVars
<1> HIDE DEF sw
<1>7. OthersIdle(r)'
  BY <1>2, <1>5, <1>6 DEF Follows, OthersIdle
<1>8. StoreFollows(r)'
  BY <1>6 DEF Follows, StoreFollows
<1>9. OwnSave(r)'
  <2>1. holder'[r] = "saving" /\ saver'[r]["mutation"] = w /\ mem'[r] = mem[r]
    BY <1>2, <1>5, <1>6
  <2> QED
    BY <1>5, <2>1 DEF OwnSave
<1> QED
  BY <1>7, <1>8, <1>9 DEF Follows

(* The rows that a save has not to touch are as it wants them, a row that  *)
(* it writes is then so too, and it ends when there is none left.          *)
LEMMA SaveFollows ==
    ASSUME ClusterInv, NEW r \in Replicas, NEW s \in Replicas, NEW k \in Kinds, Saves(s, k),
           Sole(r)', Follows(r)
    PROVE  Follows(r)'
<1>1. saver[s][k].pc # "idle"
  BY DEF Saves, ListRows, WriteRow, NextRow, Saved, SaveFails
<1>2. k = "mutation"
  BY <1>1 DEF Kinds, Follows, OthersIdle
<1>3. holder[s] = "saving"
  BY <1>1, <1>2 DEF ClusterInv, LockKept
<1>4. s = r
  BY <1>3 DEF Follows, OthersIdle
<1>5. /\ holder \in [Replicas -> {"free", "announcing", "saving", "loading"}]
      /\ saver \in [Replicas -> [Kinds -> Savers]] /\ counts \in Counts
      /\ table \in Configs /\ stored \in Nat /\ rev[r] \in Nat
  BY DEF ClusterInv, ClusterShape
<1>6. PICK sv \in [Kinds -> Savers] : sv = saver[r]
  BY <1>5
<1>7. PICK m \in Savers : m = sv["mutation"]
  BY DEF Kinds
<1>8. m.snap = mem[r] /\ m.snap \in Configs /\ m.todo \subseteq Addons
  BY <1>3, <1>4, <1>6, <1>7 DEF Follows, OwnSave, Savers
<1>9. m.pc = "writing" => \A a \in Addons \ m.todo : table[a] = mem[r][a]
  BY <1>6, <1>7 DEF Follows, OwnSave
<1>10. ASSUME NEW w \in Savers, saver' = [saver EXCEPT ![r] = [sv EXCEPT !["mutation"] = w]]
       PROVE  /\ saver'[r]["mutation"] = w
              /\ \A q \in Replicas : saver'[q]["health"] = saver[q]["health"]
  <2> DEFINE sw == [sv EXCEPT !["mutation"] = w]
  <2>1. sw["mutation"] = w /\ sw["health"] = saver[r]["health"] /\ saver' = [saver EXCEPT ![r] = sw]
    BY <1>6, <1>10 DEF Kinds
  <2> HIDE DEF sw
  <2> QED
    BY <1>5, <2>1
<1>11. CASE ListRows(r, "mutation")
  <2> DEFINE w == [m EXCEPT !.pc = "writing", !.todo = RowsToTouch(m.snap)]
  <2>1. w \in Savers /\ w.pc = "writing" /\ w.todo = RowsToTouch(m.snap) /\ w.snap = m.snap
    BY <1>7, <1>8 DEF Savers, RowsToTouch
  <2>2. /\ saver' = [saver EXCEPT ![r] = [sv EXCEPT !["mutation"] = w]]
        /\ UNCHANGED <<table, stored, mem, rev, holder, loaded>>
    BY <1>6, <1>7, <1>11 DEF ListRows, storeVars
  <2> HIDE DEF w
  <2>3. saver'[r]["mutation"] = w /\ \A q \in Replicas : saver'[q]["health"] = saver[q]["health"]
    BY <1>10, <2>1, <2>2
  <2>4. OthersIdle(r)' /\ StoreFollows(r)'
    BY <2>2, <2>3 DEF Follows, OthersIdle, StoreFollows
  <2>5. \A a \in Addons \ w.todo : table[a] = mem[r][a]
    BY <1>5, <1>8, <2>1 DEF RowsToTouch
  <2>6. OwnSave(r)'
    BY <1>3, <1>4, <1>8, <2>1, <2>2, <2>3, <2>5 DEF OwnSave
  <2> QED
    BY <2>4, <2>6 DEF Follows
<1>12. ASSUME NEW b \in Addons, WriteRow(r, "mutation", b) PROVE Follows(r)'
  <2> DEFINE w == [m EXCEPT !.todo = m.todo \ {b}]
  <2>1. w \in Savers /\ w.pc = "writing" /\ w.todo = m.todo \ {b} /\ w.snap = m.snap
        /\ m.pc = "writing" /\ b \in m.todo
    BY <1>6, <1>7, <1>8, <1>12 DEF Savers, WriteRow, NextRow
  <2>2. /\ saver' = [saver EXCEPT ![r] = [sv EXCEPT !["mutation"] = w]]
        /\ table' = [table EXCEPT ![b] = mem[r][b]]
        /\ stored' = IF table[b] = "absent" /\ mem[r][b] = "absent" THEN stored ELSE stored + 1
        /\ UNCHANGED <<mem, rev, holder, loaded>>
    BY <1>6, <1>7, <1>8, <1>12 DEF WriteRow
  <2> HIDE DEF w
  <2>3. saver'[r]["mutation"] = w /\ \A q \in Replicas : saver'[q]["health"] = saver[q]["health"]
    BY <1>10, <2>1, <2>2
  <2>4. OthersIdle(r)'
    BY <2>2, <2>3 DEF Follows, OthersIdle
  <2>5. \A a \in Addons : table'[a] = IF a = b THEN mem[r][b] ELSE table[a]
    BY <1>5, <2>2 DEF Configs
  <2>6. StoreFollows(r)'
    <3>1. CASE stored >= rev[r]
      BY <1>5, <2>2, <3>1 DEF StoreFollows
    <3>2. ASSUME stored + 1 >= rev[r], NEW a \in Addons, table[a] # mem[r][a]
          PROVE  StoreFollows(r)'
      <4>1. CASE a = b
        <5>1. stored' = stored + 1
          BY <2>2, <3>2, <4>1
        <5> QED
          BY <2>2, <3>2, <5>1 DEF StoreFollows
      <4>2. CASE a # b
        <5>1. table'[a] # mem'[r][a]
          BY <2>2, <2>5, <3>2, <4>2
        <5>2. stored' + 1 >= rev'[r]
          BY <1>5, <2>2, <3>2
        <5> QED
          BY <5>1, <5>2 DEF StoreFollows
      <4> QED
        BY <4>1, <4>2
    <3> QED
      BY <3>1, <3>2 DEF Follows, StoreFollows
  <2>7. \A a \in Addons \ w.todo : table'[a] = mem[r][a]
    BY <1>9, <2>1, <2>5
  <2>8. OwnSave(r)'
    BY <1>3, <1>4, <1>8, <2>1, <2>2, <2>3, <2>7 DEF OwnSave
  <2> QED
    BY <2>4, <2>6, <2>8 DEF Follows
<1>13. CASE Saved(r, "mutation")
  <2>1. /\ m.pc = "writing" /\ m.todo = {} /\ holder' = [holder EXCEPT ![r] = "free"]
        /\ saver' = [saver EXCEPT ![r] = [sv EXCEPT !["mutation"] = NoSave]]
        /\ UNCHANGED <<table, stored, mem, rev, loaded>>
    BY <1>6, <1>7, <1>13 DEF Saved, SaveEnds, storeVars
  <2>2. /\ saver'[r]["mutation"] = NoSave
        /\ \A q \in Replicas : saver'[q]["health"] = saver[q]["health"]
    BY <1>10, <2>1, NothingHasTypes
  <2>3. OthersIdle(r)' /\ StoreFollows(r)'
    BY <1>5, <2>1, <2>2 DEF Follows, OthersIdle, StoreFollows
  <2>4. table = mem[r]
    BY <1>5, <1>8, <1>9, <2>1 DEF Configs
  <2>5. OwnSave(r)'
    BY <1>5, <2>1, <2>2, <2>4 DEF OwnSave, NoSave
  <2> QED
    BY <2>3, <2>5 DEF Follows
<1>14. ~SaveFails(r, "mutation")
  BY <1>5, CountedShows DEF SaveFails
<1> QED
  BY <1>2, <1>4, <1>11, <1>12, <1>13, <1>14 DEF Saves

(* A reload of the replica takes rows that are those it has.               *)
LEMMA ReloadFollows ==
    ASSUME ClusterInv, NEW r \in Replicas, NEW s \in Replicas, LoadRows(s) \/ LoadRevision(s),
           Follows(r)
    PROVE  Follows(r)'
<1>1. /\ holder \in [Replicas -> {"free", "announcing", "saving", "loading"}]
      /\ loaded \in [Replicas -> Configs] /\ mem \in [Replicas -> Configs]
      /\ rev \in [Replicas -> Nat] /\ stored \in Nat
  BY DEF ClusterInv, ClusterShape
<1>2. UNCHANGED <<table, stored, saver>> /\ holder[s] \in {"free", "loading"}
  BY DEF LoadRows, LoadRevision, storeVars
<1>3. holder[r] # "saving" => saver[r]["mutation"].pc = "idle"
  BY DEF ClusterInv, LockKept
<1>4. OthersIdle(r)'
  BY <1>1, <1>2 DEF LoadRows, LoadRevision, Follows, OthersIdle
<1>5. CASE s # r
  <2>1. holder'[r] = holder[r] /\ loaded'[r] = loaded[r] /\ mem'[r] = mem[r] /\ rev'[r] = rev[r]
    BY <1>1, <1>5 DEF LoadRows, LoadRevision
  <2>2. StoreFollows(r)'
    BY <1>2, <2>1 DEF Follows, StoreFollows
  <2>3. OwnSave(r)'
    BY <1>2, <2>1 DEF Follows, OwnSave
  <2> QED
    BY <1>4, <2>2, <2>3 DEF Follows
<1>6. CASE s = r
  <2>1. table = mem[r] /\ stored >= rev[r] /\ saver[r]["mutation"].pc = "idle"
        /\ (holder[r] = "loading" => loaded[r] = table)
    <3>1. table = mem[r] /\ holder[r] # "saving"
      BY <1>2, <1>6 DEF Follows, OwnSave
    <3> QED
      BY <1>3, <3>1 DEF Follows, OwnSave, StoreFollows
  <2>2. mem'[r] = table /\ stored' >= rev'[r]
    <3>1. CASE UNCHANGED <<mem, rev>>
      BY <1>2, <2>1, <3>1
    <3>2. CASE holder[r] = "loading" /\ mem' = [mem EXCEPT ![r] = loaded[r]]
               /\ rev' = [rev EXCEPT ![r] = stored]
      <4>1. mem'[r] = loaded[r] /\ rev'[r] = stored
        BY <1>1, <3>2
      <4> QED
        BY <1>1, <1>2, <2>1, <3>2, <4>1
    <3> QED
      BY <1>6, <3>1, <3>2 DEF LoadRows, LoadRevision
  <2>3. (holder'[r] = "loading" /\ loaded'[r] = table) \/ holder'[r] = "free"
    BY <1>1, <1>6 DEF LoadRows, LoadRevision
  <2>4. StoreFollows(r)'
    BY <2>2 DEF StoreFollows
  <2>5. OwnSave(r)'
    BY <1>2, <2>1, <2>2, <2>3 DEF OwnSave
  <2> QED
    BY <1>4, <2>4, <2>5 DEF Follows
<1> QED
  BY <1>5, <1>6

(* Events and look-ups touch nothing of this.                              *)
LEMMA OthersFollow ==
    ASSUME NEW r \in Replicas, Follows(r),
           UNCHANGED <<table, stored, mem, rev, holder, loaded, saver>>
    PROVE  Follows(r)'
BY DEF Follows, OthersIdle, StoreFollows, OwnSave

SoleFollows == \A r \in Replicas : Sole(r) => Follows(r)

(* Every step of the replicas keeps what a sole writer is promised.        *)
LEMMA SoleStepKeeps ==
    ASSUME ClusterInv, SoleFollows, [Next]_vars
    PROVE  SoleFollows'
<1> SUFFICES ASSUME NEW r \in Replicas, Sole(r)' PROVE Follows(r)'
  BY DEF SoleFollows
<1>1. CASE UNCHANGED vars
  <2>1. Sole(r)
    BY <1>1 DEF vars, Sole
  <2> QED
    BY <1>1, <2>1, OthersFollow DEF vars, storeVars, replicaVars, SoleFollows
<1>2. CASE Next
  <2>1. Follows(r) /\ counts \in Counts
    BY <1>2, StillSole DEF SoleFollows, ClusterInv, ClusterShape
  <2>2. ASSUME NEW s \in Replicas, \E a \in Addons, v \in Values : Mutate(s, a, v)
        PROVE  Follows(r)'
    BY <2>1, <2>2, MutateFollows
  <2>3. ASSUME NEW s \in Replicas, NEW k \in Kinds, Saves(s, k) PROVE Follows(r)'
    BY <2>1, <2>3, SaveFollows
  <2>4. ASSUME NEW s \in Replicas, Announce(s) PROVE Follows(r)'
    BY <2>1, <2>4, AnnounceFollows
  <2>5. ASSUME NEW s \in Replicas, LoadRows(s) \/ LoadRevision(s) PROVE Follows(r)'
    BY <2>1, <2>5, ReloadFollows
  <2>6. ASSUME NEW s \in Replicas, SaveHealth(s) \/ Restart(s) PROVE Follows(r)'
    BY <2>1, <2>6, CountedShows DEF SaveHealth, Restart
  <2>7. ASSUME NEW s \in Replicas, Receive(s) \/ StartLookup(s) \/ EndLookup(s) PROVE Follows(r)'
    <3>1. UNCHANGED <<table, stored, mem, rev, holder, loaded, saver>>
      BY <2>7 DEF Receive, StartLookup, EndLookup, storeVars, replicaVars
    <3> QED
      BY <2>1, <3>1, OthersFollow
  <2> QED
    BY <1>2, <2>2, <2>3, <2>4, <2>5, <2>6, <2>7 DEF Next
<1> QED
  BY <1>1, <1>2

(* ClusterSync: what one replica alone changes is in the store, which is   *)
(* then at its revision, once its lock is free; and a hit of the response  *)
(* cache of a look-up that no mutation crossed is of the providers enabled *)
(* now (manager.ts, server.ts).                                            *)
THEOREM ReplicasAreTrue == Spec => [](SoleWriterDurable /\ CacheFreshUnlessSpanned)
<1>1. Init => SoleFollows
  <2> SUFFICES ASSUME Init, NEW r \in Replicas PROVE Follows(r)
    BY DEF SoleFollows
  <2>1. \A s \in Replicas, k \in Kinds : saver[s][k] = NoSave
    BY DEF Init
  <2>2. \A s \in Replicas : saver[s]["health"].pc = "idle" /\ saver[s]["mutation"].pc = "idle"
    BY <2>1 DEF Kinds, NoSave
  <2>3. stored >= rev[r] /\ holder[r] = "free" /\ table = mem[r]
    BY DEF Init
  <2>4. OthersIdle(r)
    BY <2>2 DEF Init, OthersIdle
  <2> QED
    BY <2>2, <2>3, <2>4 DEF Follows, StoreFollows, OwnSave
<1>2. SoleFollows => SoleWriterDurable
  BY DEF SoleFollows, Sole, Follows, StoreFollows, OwnSave, SoleWriterDurable
<1>3. ClusterInv => CacheFreshUnlessSpanned
  BY DEF ClusterInv, AnswersOf, CacheFreshUnlessSpanned, Hit
<1> QED
  BY <1>1, <1>2, <1>3, ClusterIsSound, SoleStepKeeps, PTL DEF Spec
----------------------------------------------------------------------------
(* The types of the parts.                                                 *)

(* An object within the bounds: no record is newer than the revision.      *)
Bounded(d) == d.n <= MaxWrites /\ \A a \in StoredAddons : d.version[a] <= d.revision

FileBounds ==
    /\ Bounded(data) /\ Bounded(file) /\ Bounded(closing.snap)
    /\ \A w \in Writers : Bounded(writer[w].snap)
    /\ told <= MaxWrites /\ faultsLeft \in 0..MaxDiskFaults

(* What an operation makes of a bounded object is bounded.                 *)
LEMMA OutcomesBounded ==
    ASSUME NEW d \in Objects, Bounded(d), NEW e \in Outcomes(d)
    PROVE  Bounded(e)
<1>1. e.n = d.n /\ e \in Objects /\ d.revision \in Nat /\ d.version \in [StoredAddons -> Nat]
  BY OutcomesAre DEF Objects
<1>2. PICK b \in Objects : /\ b = BumpRevision(d) /\ b.n = d.n /\ b.version = d.version
                           /\ b.revision = d.revision + 1
  <2> DEFINE b == [d EXCEPT !.revision = d.revision + 1]
  <2>1. b \in Objects /\ b.n = d.n /\ b.version = d.version /\ b.revision = d.revision + 1
    BY DEF Objects
  <2>2. BumpRevision(d) = b
    BY DEF BumpRevision
  <2> QED
    BY <2>1, <2>2
<1>3. \A a \in StoredAddons : d.version[a] \in Nat /\ d.version[a] <= d.revision
  BY <1>1 DEF Bounded
<1>4. ASSUME NEW v \in [StoredAddons -> Nat], e = [b EXCEPT !.version = v],
             \A a \in StoredAddons : v[a] <= d.version[a] + 1
      PROVE  Bounded(e)
  <2>1. e.version = v /\ e.revision = d.revision + 1
    BY <1>2, <1>4 DEF Objects
  <2>2. \A a \in StoredAddons : v[a] \in Nat /\ v[a] <= d.revision + 1
    BY <1>1, <1>3, <1>4
  <2> QED
    BY <1>1, <2>1, <2>2 DEF Bounded
<1>5. ASSUME NEW g, e = [d EXCEPT !.grants = g] PROVE Bounded(e)
  <2>1. e.version = d.version /\ e.revision = d.revision
    BY <1>5 DEF Objects
  <2> QED
    BY <1>1, <2>1 DEF Bounded
<1>6. CASE e = BumpRevision(d)
  <2>1. \A a \in StoredAddons : d.version[a] <= d.revision + 1
    BY <1>1, <1>3
  <2> QED
    BY <1>1, <1>2, <1>6, <2>1 DEF Bounded
<1>7. CASE e = ReorderAddons(d)
  <2> DEFINE v == [a \in StoredAddons |-> IF b.version[a] = 0 THEN 0 ELSE b.version[a] + 1]
  <2>1. v \in [StoredAddons -> Nat] /\ \A a \in StoredAddons : v[a] <= d.version[a] + 1
    BY <1>1, <1>2, <1>3
  <2>2. e = [b EXCEPT !.version = v]
    BY <1>2, <1>7 DEF ReorderAddons
  <2> HIDE DEF v
  <2> QED
    BY <1>4, <2>1, <2>2
<1>8. ASSUME NEW a \in StoredAddons, e = SaveAddon(d, a) \/ e = RemoveAddon(d, a)
      PROVE  Bounded(e)
  <2> DEFINE v == [d.version EXCEPT ![a] = d.version[a] + 1]
             z == [d.version EXCEPT ![a] = 0]
  <2>1. /\ v \in [StoredAddons -> Nat] /\ \A c \in StoredAddons : v[c] <= d.version[c] + 1
        /\ z \in [StoredAddons -> Nat] /\ \A c \in StoredAddons : z[c] <= d.version[c] + 1
    BY <1>1, <1>3
  <2>2. e = d \/ e = [b EXCEPT !.version = v] \/ e = [b EXCEPT !.version = z]
    BY <1>2, <1>8 DEF SaveAddon, RemoveAddon, Objects
  <2> HIDE DEF v, z
  <2> QED
    BY <1>4, <2>1, <2>2
<1>9. ASSUME NEW g, e = SaveGrant(d, g) \/ e = RevokeGrant(d, g) \/ e = CleanupExpiredGrants(d, g)
      PROVE  Bounded(e)
  BY <1>5, <1>9 DEF SaveGrant, RevokeGrant, CleanupExpiredGrants
<1> QED
  BY <1>6, <1>7, <1>8, <1>9 DEF Outcomes

(* A save in any order of its steps, a crash and a restart stay within it. *)
LEMMA FileBoundsKept ==
    FileInv /\ FileBounds /\ [StoreNext]_fileStoreVars => FileBounds'
<1> SUFFICES ASSUME FileInv, FileBounds, [StoreNext]_fileStoreVars PROVE FileBounds'
  OBVIOUS
<1>1. /\ data \in Objects /\ file \in Objects /\ writer \in [Writers -> Turns]
      /\ closing \in Turns /\ faultsLeft \in Nat /\ told \in Nat
  BY FileStoreAssumption DEF FileInv, FileShape, FileBounds
<1>2. Bounded(EmptyStore) /\ Quiet.snap = EmptyStore /\ Quiet = [step |-> "idle", snap |-> EmptyStore]
  <2>1. \A a \in StoredAddons : EmptyStore.version[a] = 0
    BY DEF EmptyStore
  <2> QED
    BY <2>1, FileStoreAssumption DEF Bounded, EmptyStore, Quiet
<1>3. \A w \in Writers : Bounded(writer[w].snap) /\ writer[w] \in Turns
  BY <1>1 DEF FileBounds
<1>4. ASSUME NEW w \in Writers, NEW x, writer' = [writer EXCEPT ![w] = x], Bounded(x.snap)
      PROVE  \A v \in Writers : Bounded(writer'[v].snap)
  BY <1>1, <1>3, <1>4
<1>5. ASSUME NEW w \in Writers, NEW step, writer' = [writer EXCEPT ![w].step = step]
      PROVE  \A v \in Writers : Bounded(writer'[v].snap)
  <2>1. PICK y \in Turns : y = writer[w] /\ Bounded(y.snap)
    BY <1>3
  <2>2. PICK x : x = [y EXCEPT !.step = step]
    OBVIOUS
  <2>3. x.snap = y.snap
    BY <2>2 DEF Turns
  <2>4. writer' = [writer EXCEPT ![w] = x]
    BY <1>1, <1>5, <2>1, <2>2
  <2> QED
    BY <1>4, <2>1, <2>3, <2>4
<1>6. ASSUME NEW w \in Writers, Leaves(w) PROVE \A v \in Writers : Bounded(writer'[v].snap)
  BY <1>2, <1>4, <1>6 DEF Leaves
<1>7. CASE UNCHANGED fileStoreVars
  BY <1>7 DEF fileStoreVars, FileBounds, Bounded
<1>8. ASSUME NEW w \in Writers, Call(w) PROVE FileBounds'
  <2>1. \A v \in Writers : Bounded(writer'[v].snap)
    BY <1>5, <1>8 DEF Call
  <2> QED
    BY <1>8, <2>1 DEF Call, FileBounds, Bounded
<1>9. ASSUME NEW w \in Writers, Change(w) PROVE FileBounds'
  <2>1. PICK d \in Outcomes(data) :
            IF d = data THEN Leaves(w) /\ UNCHANGED data
            ELSE /\ data' = [d EXCEPT !.n = @ + 1]
                 /\ writer' = [writer EXCEPT ![w].step = "changed"]
                 /\ UNCHANGED line
    BY <1>9 DEF Change
  <2>2. d \in Objects /\ d.n = data.n /\ Bounded(d) /\ Bounded(data)
    BY <1>1, OutcomesAre, OutcomesBounded DEF FileBounds
  <2>3. /\ data.n < MaxWrites /\ UNCHANGED <<file, closing, told, faultsLeft>>
    BY <1>9 DEF Change
  <2>4. \A v \in Writers : Bounded(writer'[v].snap)
    BY <1>5, <1>6, <2>1
  <2>5. Bounded(data')
    <3>1. PICK e : e = [d EXCEPT !.n = d.n + 1]
      OBVIOUS
    <3>2. e.n = d.n + 1 /\ e.version = d.version /\ e.revision = d.revision
      BY <2>2, <3>1 DEF Objects
    <3>3. d.n \in Nat /\ d.n + 1 <= MaxWrites
      BY <1>1, <2>2, <2>3, FileStoreAssumption DEF Objects
    <3>4. Bounded(e)
      BY <2>2, <3>2, <3>3 DEF Bounded
    <3> QED
      BY <2>1, <2>2, <3>1, <3>4
  <2>6. Bounded(file') /\ Bounded(closing'.snap)
    BY <2>3 DEF FileBounds
  <2> QED
    BY <2>3, <2>4, <2>5, <2>6 DEF FileBounds, Bounded
<1>10. ASSUME NEW w \in Writers, Snapshot(w) PROVE FileBounds'
  <2>1. PICK x \in Turns : x = [step |-> "written", snap |-> data] /\ x.snap = data
    <3>1. \A d \in Objects : [step |-> "written", snap |-> d] \in Turns
      BY DEF Turns
    <3> QED
      BY <1>1, <3>1
  <2>2. \A v \in Writers : Bounded(writer'[v].snap)
    BY <1>4, <1>10, <2>1 DEF Snapshot, FileBounds
  <2> QED
    BY <1>10, <2>2 DEF Snapshot, FileBounds, Bounded
<1>11. ASSUME NEW w \in Writers, Rename(w) PROVE FileBounds'
  <2>1. \A v \in Writers : Bounded(writer'[v].snap)
    BY <1>6, <1>11 DEF Rename
  <2>2. /\ file' = writer[w].snap /\ UNCHANGED <<data, closing, faultsLeft>>
        /\ told' = IF told < writer[w].snap.n THEN writer[w].snap.n ELSE told
    BY <1>11 DEF Rename
  <2>3. told' <= MaxWrites
    BY <1>3, <2>2 DEF FileBounds, Bounded
  <2> QED
    BY <1>3, <2>1, <2>2, <2>3 DEF FileBounds, Bounded
<1>12. ASSUME NEW w \in Writers, WriteFails(w) PROVE FileBounds'
  <2>1. \A v \in Writers : Bounded(writer'[v].snap)
    BY <1>6, <1>12 DEF WriteFails
  <2>2. faultsLeft' \in 0..MaxDiskFaults /\ UNCHANGED <<data, file, closing, told>>
    BY <1>1, <1>12, FileStoreAssumption DEF WriteFails, FileBounds
  <2> QED
    BY <2>1, <2>2 DEF FileBounds, Bounded
<1>13. CASE Close
  <2>1. PICK x \in Turns : x = [step |-> "written", snap |-> data] /\ x.snap = data
    <3>1. \A d \in Objects : [step |-> "written", snap |-> d] \in Turns
      BY DEF Turns
    <3> QED
      BY <1>1, <3>1
  <2>2. closing' = x /\ UNCHANGED <<data, file, line, writer, told, faultsLeft>>
    BY <1>13, <2>1 DEF Close
  <2> QED
    BY <2>1, <2>2 DEF FileBounds, Bounded
<1>14. CASE CloseRenames
  <2>1. PICK x : x = [Quiet EXCEPT !.step = "changed"]
    OBVIOUS
  <2>2. x.snap = EmptyStore
    BY <1>2, <2>1
  <2>3. closing' = x /\ file' = closing.snap /\ UNCHANGED <<data, writer, told, faultsLeft>>
    BY <1>14, <2>1 DEF CloseRenames
  <2> QED
    BY <1>2, <2>2, <2>3 DEF FileBounds, Bounded
<1>15. ASSUME NEW readable \in BOOLEAN, ProcessStarts(readable) PROVE FileBounds'
  <2>1. /\ writer' = [v \in Writers |-> Quiet] /\ closing' = Quiet
        /\ data' = (IF readable THEN file ELSE EmptyStore) /\ file' = data'
        /\ told' = (IF readable THEN told ELSE 0)
        /\ readable \/ faultsLeft > 0
        /\ faultsLeft' = (IF readable THEN faultsLeft ELSE faultsLeft - 1)
    BY <1>15 DEF ProcessStarts
  <2>2. told' <= MaxWrites /\ faultsLeft' \in 0..MaxDiskFaults
    BY <1>1, <2>1, FileStoreAssumption DEF FileBounds
  <2>3. Bounded(data') /\ Bounded(file') /\ Bounded(closing'.snap)
    BY <1>2, <2>1 DEF FileBounds
  <2>4. \A v \in Writers : Bounded(writer'[v].snap)
    BY <1>2, <2>1
  <2> QED
    BY <2>2, <2>3, <2>4 DEF FileBounds, Bounded
<1> QED
  BY <1>7, <1>8, <1>9, <1>10, <1>11, <1>12, <1>13, <1>14, <1>15 DEF StoreNext

(* No record of the stored file is newer than its revision.                *)
LEMMA FileTypes == StoreSpec => []StoreTypeOK
<1>1. StoreInit => FileBounds
  <2> SUFFICES ASSUME StoreInit PROVE FileBounds
    OBVIOUS
  <2>1. Bounded(EmptyStore)
    BY FileStoreAssumption DEF Bounded, EmptyStore
  <2>2. Quiet.snap = EmptyStore
    BY DEF Quiet
  <2> QED
    BY <2>1, <2>2, FileStoreAssumption DEF StoreInit, FileBounds
<1>2. FileInv /\ FileBounds => StoreTypeOK
  <2> SUFFICES ASSUME FileInv, FileBounds PROVE StoreTypeOK
    OBVIOUS
  <2>1. data \in Objects /\ told \in Nat /\ \A w \in Writers : writer[w] \in Turns
    BY DEF FileInv, FileShape
  <2>2. data.n \in Nat /\ data.revision \in Nat /\ \A a \in StoredAddons : data.version[a] \in Nat
    BY <2>1 DEF Objects
  <2> QED
    BY <2>1, <2>2, FileStoreAssumption DEF FileBounds, Bounded, StoreTypeOK, Turns
<1> QED
  BY <1>1, <1>2, FileIsSound, FileBoundsKept, PTL DEF StoreSpec

(* What is committed was begun, and what is under way was too.             *)
UnderWay == {c \in Connections : tx[c].at # "over"}

PgBounds ==
    /\ IsFiniteSet(UnderWay) /\ txBegun \in 0..MaxCommits
    /\ mutated + Cardinality(UnderWay) <= txBegun
    /\ \A a \in PgAddons : rowVersion[a] <= mutated
    /\ \A c \in Connections : tx[c].seen <= mutated

(* A transaction goes on as x, or is over, and commits nothing.            *)
LEMMA BoundsGoOn ==
    ASSUME PgInv, PgBounds, NEW c \in Connections, NEW x \in TxStates, x.seen <= mutated,
           tx' = [tx EXCEPT ![c] = x], x.at # "over" => tx[c].at # "over",
           UNCHANGED <<rowVersion, txBegun, mutated>>
    PROVE  PgBounds'
<1>1. /\ tx \in [Connections -> TxStates] /\ mutated \in Nat
      /\ \A d \in Connections : tx'[d] = IF d = c THEN x ELSE tx[d]
  BY DEF PgInv, PgShape
<1>2. UnderWay' \subseteq UnderWay
  BY <1>1 DEF UnderWay
<1>3. PICK A : A = UnderWay
  OBVIOUS
<1>4. PICK B : B = UnderWay'
  OBVIOUS
<1>5. IsFiniteSet(A) /\ B \in SUBSET A /\ mutated + Cardinality(A) <= txBegun /\ txBegun \in 0..MaxCommits
  BY <1>2, <1>3, <1>4 DEF PgBounds
<1>6. IsFiniteSet(B) /\ Cardinality(B) <= Cardinality(A)
  BY <1>5, FS_Subset
<1>7. Cardinality(B) \in Nat /\ Cardinality(A) \in Nat
  BY <1>5, <1>6, FS_CardinalityType
<1>8. mutated + Cardinality(B) <= txBegun
  BY <1>1, <1>5, <1>6, <1>7, PgAssumption
<1>9. IsFiniteSet(UnderWay') /\ mutated + Cardinality(UnderWay') <= txBegun
  BY <1>4, <1>6, <1>8
<1>10. \A d \in Connections : tx'[d].seen <= mutated
  BY <1>1 DEF PgBounds
<1> QED
  BY <1>9, <1>10 DEF PgBounds

(* A commit moves one transaction from those under way to those done.      *)
LEMMA PgBoundsKept == PgInv /\ PgBounds /\ [PgNext]_pgVars => PgBounds'
<1> SUFFICES ASSUME PgInv, PgBounds, [PgNext]_pgVars PROVE PgBounds'
  OBVIOUS
<1>1. /\ tx \in [Connections -> TxStates] /\ mutated \in Nat /\ pgRevision = mutated
      /\ rowVersion \in [PgAddons -> Nat]
  BY DEF PgInv, PgShape
<1>2. PICK n \in TxStates : n = NoTx /\ n.seen = 0 /\ n.at = "over"
  <2>1. NoTx \in TxStates /\ NoTx.seen = 0 /\ NoTx.at = "over"
    BY DEF NoTx, TxStates
  <2> QED
    BY <2>1
<1>3. ASSUME NEW c \in Connections PROVE tx[c] \in TxStates /\ tx[c].seen \in Nat /\ tx[c].seen <= mutated
  BY <1>1 DEF TxStates, PgBounds
<1>4. ASSUME NEW c \in Connections, TxOver(c), UNCHANGED <<rowVersion, txBegun, mutated>>
      PROVE  PgBounds'
  <2>1. tx' = [tx EXCEPT ![c] = n] /\ n.seen <= mutated /\ ~(n.at # "over")
    BY <1>1, <1>2, <1>4 DEF TxOver
  <2> QED
    BY <1>2, <1>4, <2>1, BoundsGoOn
<1>5. ASSUME NEW c \in Connections, RollsBack(c), txBegun' = txBegun PROVE PgBounds'
  <2>1. TxOver(c) /\ UNCHANGED <<rowVersion, txBegun, mutated>>
    BY <1>5 DEF RollsBack
  <2> QED
    BY <1>4, <2>1
<1>6. ASSUME NEW c \in Connections, NEW op, NEW at, NEW todo, NEW expected,
             BeginTx(c, op, at, todo, expected), at # "over"
      PROVE  PgBounds'
  <2>1. PICK x : x = [n EXCEPT !.op = op, !.at = at, !.todo = todo, !.expected = expected]
    OBVIOUS
  <2>2. x.seen = 0 /\ x.at = at
    BY <1>2, <2>1 DEF TxStates
  <2>3. /\ tx' = [tx EXCEPT ![c] = x] /\ tx[c].at = "over" /\ txBegun < MaxCommits
        /\ txBegun' = txBegun + 1 /\ UNCHANGED <<rowVersion, mutated>>
    BY <1>2, <1>6, <2>1 DEF BeginTx
  <2>4. \A d \in Connections : tx'[d] = IF d = c THEN x ELSE tx[d]
    BY <1>1, <2>3
  <2>5. UnderWay' = UnderWay \cup {c} /\ c \notin UnderWay
    BY <1>6, <2>2, <2>3, <2>4 DEF UnderWay
  <2>6. PICK A : A = UnderWay
    OBVIOUS
  <2>7. IsFiniteSet(A) /\ c \notin A /\ mutated + Cardinality(A) <= txBegun /\ txBegun \in 0..MaxCommits
    BY <2>5, <2>6 DEF PgBounds
  <2>8. IsFiniteSet(A \cup {c}) /\ Cardinality(A \cup {c}) = Cardinality(A) + 1 /\ Cardinality(A) \in Nat
    BY <2>7, FS_AddElement, FS_CardinalityType
  <2>9. IsFiniteSet(UnderWay') /\ Cardinality(UnderWay') = Cardinality(A) + 1
    BY <2>5, <2>6, <2>8
  <2>10. txBegun' \in 0..MaxCommits /\ mutated' + Cardinality(UnderWay') <= txBegun'
    BY <1>1, <2>3, <2>7, <2>8, <2>9, PgAssumption
  <2>11. \A d \in Connections : tx'[d].seen <= mutated
    BY <1>1, <1>3, <2>2, <2>4
  <2> QED
    BY <2>3, <2>9, <2>10, <2>11 DEF PgBounds
<1>7. ASSUME NEW c \in Connections, CommitTx(c) PROVE PgBounds'
  <2>1. /\ tx' = [tx EXCEPT ![c] = n] /\ tx[c].at = "commit" /\ txBegun' = txBegun
        /\ mutated' = mutated + 1 /\ rowVersion' = CommittedBy(c)
    BY <1>2, <1>7 DEF CommitTx, TxOver
  <2>2. \A d \in Connections : tx'[d] = IF d = c THEN n ELSE tx[d]
    BY <1>1, <2>1
  <2>3. UnderWay' = UnderWay \ {c} /\ c \in UnderWay
    BY <1>2, <2>1, <2>2 DEF UnderWay
  <2>4. PICK A : A = UnderWay
    OBVIOUS
  <2>5. IsFiniteSet(A) /\ c \in A /\ mutated + Cardinality(A) <= txBegun /\ txBegun \in 0..MaxCommits
    BY <2>3, <2>4 DEF PgBounds
  <2>6. IsFiniteSet(A \ {c}) /\ Cardinality(A \ {c}) = Cardinality(A) - 1
    BY <2>5, FS_RemoveElement
  <2>7. Cardinality(A) \in Nat
    BY <2>5, FS_CardinalityType
  <2>8. IsFiniteSet(UnderWay') /\ Cardinality(UnderWay') = Cardinality(A) - 1
    BY <2>3, <2>4, <2>6
  <2>9. mutated' + Cardinality(UnderWay') <= txBegun'
    BY <1>1, <2>1, <2>5, <2>7, <2>8, PgAssumption
  <2>10. \A d \in Connections : tx'[d].seen <= mutated'
    BY <1>1, <1>2, <1>3, <2>1, <2>2
  <2>11. ASSUME NEW a \in PgAddons PROVE rowVersion'[a] <= mutated'
    <3>1. rowVersion'[a] \in {rowVersion[a], tx[c].seen + 1, 0}
      BY <2>1 DEF CommittedBy
    <3>2. rowVersion[a] \in Nat /\ rowVersion[a] <= mutated
      BY <1>1 DEF PgBounds
    <3> QED
      BY <1>1, <1>3, <2>1, <3>1, <3>2
  <2> QED
    BY <2>1, <2>5, <2>8, <2>9, <2>10, <2>11 DEF PgBounds
<1>8. ASSUME NEW c \in Connections, NEW x, NEW y \in TxStates, y = tx[c], y.at # "over",
             tx' = [tx EXCEPT ![c] = x], x \in TxStates,
             x.seen = y.seen \/ \E a \in PgAddons : x.seen = rowVersion[a],
             UNCHANGED <<rowVersion, txBegun, mutated>>
      PROVE  PgBounds'
  <2>1. x.seen <= mutated
    BY <1>3, <1>8 DEF PgBounds
  <2> QED
    BY <1>8, <2>1, BoundsGoOn
<1>9. CASE UNCHANGED pgVars
  BY <1>9 DEF pgVars, PgBounds, UnderWay
<1>10. ASSUME NEW c \in Connections, SelectForUpdate(c) PROVE PgBounds'
  <2>1. PICK y \in TxStates : y = tx[c]
    BY <1>3
  <2>2. y.at = "select" /\ txBegun' = txBegun
    BY <1>10, <2>1 DEF SelectForUpdate
  <2>3. y.todo[1] \in PgAddons
    BY <2>1, <2>2 DEF PgInv, TxTold, Named, TxStates
  <2>4. CASE RollsBack(c)
    BY <1>5, <2>2, <2>4
  <2>5. CASE /\ tx' = [tx EXCEPT ![c].at = "upsert", ![c].seen = rowVersion[y.todo[1]]]
             /\ UNCHANGED <<rowVersion, mutated>>
    <3>1. PICK v \in Nat : v = rowVersion[y.todo[1]]
      BY <1>1, <2>3
    <3>2. PICK x : x = [y EXCEPT !.at = "upsert", !.seen = v]
      OBVIOUS
    <3>3. x \in TxStates /\ x.seen = v
      BY <3>2 DEF TxStates
    <3>4. tx' = [tx EXCEPT ![c] = x]
      BY <1>1, <2>1, <2>5, <3>1, <3>2
    <3>5. x.seen <= mutated
      BY <2>3, <3>1, <3>3 DEF PgBounds
    <3>6. x.at # "over" => tx[c].at # "over"
      BY <2>1, <2>2
    <3>7. UNCHANGED <<rowVersion, txBegun, mutated>>
      BY <2>2, <2>5
    <3> QED
      BY <3>3, <3>4, <3>5, <3>6, <3>7, BoundsGoOn
  <2> QED
    BY <1>10, <2>1, <2>4, <2>5 DEF SelectForUpdate
<1>11. ASSUME NEW c \in Connections, Upsert(c) \/ Delete(c) PROVE PgBounds'
  <2>1. PICK y \in TxStates : y = tx[c]
    BY <1>3
  <2>2. y.at \in {"upsert", "delete"} /\ UNCHANGED <<rowVersion, txBegun, mutated>>
    BY <1>11, <2>1 DEF Upsert, Delete
  <2>3. PICK a : a = y.todo[1]
    OBVIOUS
  <2>4. a \in PgAddons
    BY <2>1, <2>2, <2>3 DEF PgInv, TxTold, Named, TxStates
  <2>5. CASE TxOver(c)
    BY <1>4, <2>2, <2>5
  <2>6. CASE tx' = [tx EXCEPT ![c].at = "bump", ![c].changes = {a}]
    <3>1. PICK x : x = [y EXCEPT !.at = "bump", !.changes = {a}]
      OBVIOUS
    <3>2. x \in TxStates /\ x.seen = y.seen
      BY <2>4, <3>1 DEF TxStates
    <3>3. tx' = [tx EXCEPT ![c] = x]
      BY <1>1, <2>1, <2>6, <3>1
    <3> QED
      BY <1>8, <2>1, <2>2, <3>2, <3>3
  <2> QED
    BY <1>11, <2>1, <2>3, <2>5, <2>6 DEF Upsert, Delete
<1>12. ASSUME NEW c \in Connections, UpdateOrder(c) PROVE PgBounds'
  <2>1. PICK y \in TxStates : y = tx[c]
    BY <1>3
  <2>2. y.at = "update" /\ UNCHANGED <<rowVersion, txBegun, mutated>>
    BY <1>12, <2>1 DEF UpdateOrder
  <2>3. PICK next \in {"bump", "update"} : next = IF Len(y.todo) = 1 THEN "bump" ELSE "update"
    OBVIOUS
  <2>4. y.todo \in Seq(PgAddons) /\ y.todo # <<>>
    BY <2>1, <2>2 DEF PgInv, TxTold, Named, TxStates
  <2>5. PICK rest \in Seq(PgAddons) : rest = Tail(y.todo)
    BY <2>4, HeadTailProperties
  <2>6. PICK x : x = [y EXCEPT !.todo = rest, !.at = next]
    OBVIOUS
  <2>7. x \in TxStates /\ x.seen = y.seen
    BY <2>5, <2>6 DEF TxStates
  <2>8. tx' = [tx EXCEPT ![c] = x]
    BY <1>1, <1>12, <2>1, <2>3, <2>5, <2>6 DEF UpdateOrder
  <2> QED
    BY <1>8, <2>1, <2>2, <2>7, <2>8
<1>13. ASSUME NEW c \in Connections, BumpMeta(c) PROVE PgBounds'
  <2>1. PICK y \in TxStates : y = tx[c]
    BY <1>3
  <2>2. y.at = "bump" /\ UNCHANGED <<rowVersion, txBegun, mutated>>
    BY <1>13, <2>1 DEF BumpMeta
  <2>3. PICK x : x = [y EXCEPT !.at = "commit", !.bumps = TRUE]
    OBVIOUS
  <2>4. x \in TxStates /\ x.seen = y.seen
    BY <2>3 DEF TxStates
  <2>5. tx' = [tx EXCEPT ![c] = x]
    BY <1>1, <1>13, <2>1, <2>3 DEF BumpMeta
  <2> QED
    BY <1>8, <2>1, <2>2, <2>4, <2>5
<1>14. ASSUME NEW c \in Connections, DeadlockVictim(c) \/ TxFails(c) PROVE PgBounds'
  BY <1>5, <1>14 DEF DeadlockVictim, TxFails
<1>15. ASSUME NEW c \in Connections, NEW a \in PgAddons, NEW e,
              BeginSave(c, a, e) \/ BeginRemove(c, a)
       PROVE  PgBounds'
  BY <1>6, <1>15 DEF BeginSave, BeginRemove
<1>16. ASSUME NEW c \in Connections, NEW o, BeginReorder(c, o) \/ BeginBump(c)
       PROVE  PgBounds'
  BY <1>6, <1>16 DEF BeginReorder, BeginBump
<1> QED
  BY <1>7, <1>9, <1>10, <1>11, <1>12, <1>13, <1>14, <1>15, <1>16 DEF PgNext

(* Rows and revision count commits, so they stay within the bound.         *)
LEMMA PgTypes == PgSpec => []PgTypeOK
<1>1. PgInit => PgBounds
  <2> SUFFICES ASSUME PgInit PROVE PgBounds
    OBVIOUS
  <2>1. UnderWay = {} /\ \A c \in Connections : tx[c].seen = 0
    BY DEF PgInit, UnderWay, NoTx
  <2>2. IsFiniteSet(UnderWay) /\ Cardinality(UnderWay) = 0
    BY <2>1, FS_EmptySet
  <2> QED
    BY <2>1, <2>2, PgAssumption DEF PgInit, PgBounds
<1>2. PgInv /\ PgBounds => PgTypeOK
  <2> SUFFICES ASSUME PgInv, PgBounds PROVE PgTypeOK
    OBVIOUS
  <2>1. /\ mutated \in Nat /\ pgRevision = mutated /\ rowVersion \in [PgAddons -> Nat]
        /\ owner \in [PgRows -> Connections \cup {Nobody}]
        /\ \A c \in Connections : tx[c] \in TxStates
    BY DEF PgInv, PgShape
  <2>2. Cardinality(UnderWay) \in Nat /\ txBegun \in 0..MaxCommits /\ mutated + Cardinality(UnderWay) <= txBegun
    BY FS_CardinalityType DEF PgBounds
  <2>3. mutated \in 0..MaxCommits
    BY <2>1, <2>2, PgAssumption
  <2>4. \A a \in PgAddons : rowVersion[a] \in 0..MaxCommits
    BY <2>1, <2>3, PgAssumption DEF PgBounds
  <2>5. rowVersion \in [PgAddons -> 0..MaxCommits]
    BY <2>1, <2>4
  <2> QED
    BY <2>1, <2>3, <2>5 DEF PgTypeOK, TxStates
<1> QED
  BY <1>1, <1>2, PgIsSound, PgBoundsKept, PTL DEF PgSpec

(* What could not be deleted was put on an account that was configured.    *)
DebridBounds ==
    /\ debridAccount <= MaxReconfigs
    /\ undeletable \subseteq [acct : 0..debridAccount, task : Tasks, attempt : 1..MaxAttempts]

(* The accounts are those the operator has set up so far.                  *)
LEMMA DebridBoundsKept ==
    DebridInv /\ DebridBounds /\ [DebridNext]_debridVars => DebridBounds'
<1> SUFFICES ASSUME DebridInv, DebridBounds, [DebridNext]_debridVars PROVE DebridBounds'
  OBVIOUS
<1>1. debridAccount \in Nat /\ debridAccount <= MaxReconfigs /\ MaxReconfigs \in Nat
  BY DebridAssumption DEF DebridInv, DebridShape, DebridBounds
<1>2. ASSUME NEW t \in Tasks, task[t].stage \in Attempting
      PROVE  Torrent(t) \in [acct : 0..debridAccount, task : Tasks, attempt : 1..MaxAttempts]
  <2>1. /\ task[t].acct \in Nat /\ task[t].attempt \in 0..MaxAttempts /\ Fits(t, task[t], submitted[t])
    BY DEF DebridInv, DebridShape, TaskTold, TaskStates
  <2>2. task[t].acct <= debridAccount /\ task[t].attempt >= 1
    BY <1>2, <2>1 DEF Fits
  <2> QED
    BY <1>1, <2>1, <2>2, DebridAssumption DEF Torrent
<1>3. ASSUME debridAccount' = debridAccount,
             \/ undeletable' = undeletable
             \/ \E t \in Tasks : task[t].stage \in Attempting /\ undeletable' = undeletable \cup {Torrent(t)}
      PROVE  DebridBounds'
  BY <1>2, <1>3 DEF DebridBounds
<1>4. CASE Configure
  <2>1. /\ debridAccount' = debridAccount + 1 /\ debridAccount < MaxReconfigs
        /\ undeletable' = undeletable
    BY <1>4 DEF Configure
  <2>2. 0..debridAccount \subseteq 0..debridAccount' /\ debridAccount' <= MaxReconfigs
    BY <1>1, <2>1
  <2>3. undeletable' \subseteq [acct : 0..debridAccount', task : Tasks, attempt : 1..MaxAttempts]
    BY <2>1, <2>2 DEF DebridBounds
  <2> QED
    BY <2>2, <2>3 DEF DebridBounds
<1>5. ASSUME NEW t \in Tasks,
             \/ LookupTorrent(t) \/ AddMagnet(t) \/ Count(t) \/ EnqueueTransfer(t)
             \/ StartTransfer(t) \/ \E why \in {"cancel", "drain"} : AbortTransfer(t, why)
      PROVE  DebridBounds'
  BY <1>3, <1>5 DEF LookupTorrent, AddMagnet, Count, EnqueueTransfer, StartTransfer, AbortTransfer
<1>6. ASSUME NEW t \in Tasks,
             \/ CallThrows(t) \/ Examined(t) \/ Unrestricted(t)
             \/ PollTorrent(t) \/ StopPolling(t) \/ StoreFails(t)
      PROVE  DebridBounds'
  <2>1. debridAccount' = debridAccount
    BY <1>6 DEF CallThrows, Examined, Unrestricted, PollTorrent, StopPolling, StoreFails
  <2>2. NoCleanup \/ Cleanup(Torrent(t))
    BY <1>6 DEF CallThrows, Examined, Unrestricted, PollTorrent, StopPolling, StoreFails,
                ServiceCleanup, NoCleanup
  <2>3. undeletable' = undeletable \/ undeletable' = undeletable \cup {Torrent(t)}
    BY <2>2 DEF NoCleanup, Cleanup
  <2>4. task[t].stage \in Attempting
    BY <1>6 DEF CallThrows, Examined, Unrestricted, PollTorrent, StopPolling, StoreFails,
                AtStage, Attempting
  <2> QED
    BY <1>3, <2>1, <2>3, <2>4
<1>7. CASE UNCHANGED debridVars
  BY <1>3, <1>7 DEF debridVars
<1> QED
  BY <1>4, <1>5, <1>6, <1>7 DEF DebridNext

(* A torrent and a kept link are of an account there has been.             *)
LEMMA DebridTypes == DebridSpec => []DebridTypeOK
<1>1. DebridInit => DebridBounds
  BY DebridAssumption DEF DebridInit, DebridBounds
<1>2. DebridInv /\ DebridBounds => DebridTypeOK
  <2> SUFFICES ASSUME DebridInv, DebridBounds PROVE DebridTypeOK
    OBVIOUS
  <2>1. debridAccount \in 0..MaxReconfigs /\ 0..debridAccount \subseteq 0..MaxReconfigs
    BY DebridAssumption DEF DebridInv, DebridShape, DebridBounds
  <2>2. \A t \in Tasks : task[t] \in TaskStates
    BY DEF DebridInv, DebridShape
  <2>3. ASSUME NEW x \in torrents
        PROVE  x \in [acct : 0..MaxReconfigs, task : Tasks, attempt : 1..MaxAttempts]
    <3>1. x \in [acct : Nat, task : Tasks, attempt : 1..MaxAttempts] /\ x.acct <= debridAccount
      BY DEF DebridInv, DebridShape, TaskTold, Tells
    <3>2. x.acct \in 0..MaxReconfigs
      BY <2>1, <3>1, DebridAssumption
    <3> QED
      BY <3>1, <3>2
  <2>4. undeletable \subseteq [acct : 0..MaxReconfigs, task : Tasks, attempt : 1..MaxAttempts]
    BY <2>1 DEF DebridBounds
  <2>5. linkCache \in 0..MaxReconfigs \cup {NoLink}
    BY <2>1 DEF DebridInv, DebridShape
  <2>6. ASSUME NEW t \in Tasks
        PROVE  /\ task[t].stage \in {"idle", "counted", "queued", "adding", "examining",
                                     "unrestricting", "polling", "ended"}
               /\ task[t].attempt \in 0..MaxAttempts
               /\ task[t].ends \in [1..MaxAttempts -> {"none", "resolved", "uncached", "invalid",
                     "provider-error", "aborted", "timed-out", "store-error"}]
    BY <2>2 DEF TaskStates, Before, Attempting, Ends
  <2> QED
    BY <2>1, <2>3, <2>4, <2>5, <2>6 DEF DebridTypeOK
<1> QED
  BY <1>1, <1>2, DebridIsSound, DebridBoundsKept, PTL DEF DebridSpec

(* A job is at most at the end of its list, and a request that has not     *)
(* been answered with a job has none.                                      *)
ImportBounds ==
    /\ \A j \in DOMAIN importJobs :
          importJobs[j].done <= ListLength /\ importJobs[j].late <= importJobs[j].done
    /\ \A c \in Importers : importer[c].pc # "replying" => importer[c].job = NoJob

(* A row of the job table has done no more than the list is long.          *)
LEMMA RowBounded ==
    ASSUME ImportInv, ImportBounds, NEW j \in DOMAIN importJobs, NEW rec,
           RunsTo(j, rec), OnlyJobs, rec.done <= ListLength, rec.late <= rec.done
    PROVE  ImportBounds'
<1>1. DOMAIN importJobs' = DOMAIN importJobs
  BY DEF RunsTo, ImportInv, ImportShape
<1>2. \A i \in DOMAIN importJobs : importJobs'[i] = IF i = j THEN rec ELSE importJobs[i]
  BY DEF RunsTo, ImportInv, ImportShape
<1> QED
  BY <1>1, <1>2 DEF ImportBounds, OnlyJobs

(* An import stays within its list, whatever is cancelled meanwhile.       *)
LEMMA ImportBoundsKept ==
    ImportInv /\ ImportBounds /\ [ImportNext]_importVars => ImportBounds'
<1> SUFFICES ASSUME ImportInv, ImportBounds, [ImportNext]_importVars PROVE ImportBounds'
  OBVIOUS
<1>1. importer \in [Importers -> Importees] /\ importJobs \in Seq(ImportRows)
  BY DEF ImportInv, ImportShape
<1>2. ASSUME NEW j \in DOMAIN importJobs
      PROVE  /\ importJobs[j] \in ImportRows
             /\ importJobs[j].done \in Nat /\ importJobs[j].late \in Nat
             /\ importJobs[j].done <= ListLength /\ importJobs[j].late <= importJobs[j].done
  <2>1. importJobs[j] \in ImportRows
    BY <1>1
  <2> QED
    BY <2>1 DEF ImportRows, ImportBounds
<1>3. ASSUME NEW c \in Importers, NEW x, importer' = [importer EXCEPT ![c] = x],
             x.pc # "replying" => x.job = NoJob, importJobs' = importJobs
      PROVE  ImportBounds'
  BY <1>1, <1>3 DEF ImportBounds
<1>4. IdleImport.job = NoJob
  BY DEF IdleImport
<1>5. ASSUME NEW c \in Importers, NEW h \in ImportHosts, NEW k \in IdemKeys,
             NEW kind \in ImportKinds, ReceiveImport(c, h, k, kind)
      PROVE  ImportBounds'
  <2>1. importJobs' = importJobs
    BY <1>5 DEF ReceiveImport
  <2>2. CASE importer' = importer
    BY <2>1, <2>2 DEF ImportBounds
  <2>3. CASE importer' = [d \in Importers |->
                   IF d = c THEN [pc |-> "asking", host |-> h, key |-> k, kind |-> kind,
                                  job |-> NoJob, overlapped |-> Rivals(c, k) # {}]
                   ELSE IF d \in Rivals(c, k) THEN [importer[d] EXCEPT !.overlapped = TRUE]
                   ELSE importer[d]]
    <3>1. ASSUME NEW d \in Importers, importer'[d].pc # "replying" PROVE importer'[d].job = NoJob
      <4>1. CASE d = c
        BY <2>3, <4>1
      <4>2. CASE d # c
        <5>1. PICK x \in Importees : x = importer[d]
          BY <1>1
        <5>2. importer'[d] = x \/ importer'[d] = [x EXCEPT !.overlapped = TRUE]
          BY <2>3, <4>2, <5>1
        <5>3. importer'[d].pc = x.pc /\ importer'[d].job = x.job
          BY <5>2, OverlapFields
        <5> QED
          BY <3>1, <5>1, <5>3 DEF ImportBounds
      <4> QED
        BY <4>1, <4>2
    <3> QED
      BY <2>1, <3>1 DEF ImportBounds
  <2> QED
    BY <1>5, <2>2, <2>3 DEF ReceiveImport
<1>6. ASSUME NEW c \in Importers, AskForKey(c) PROVE ImportBounds'
  <2>1. PICK x \in Importees : x = importer[c]
    BY <1>1
  <2>2. PICK to, j : /\ to = IF WithKey(x.key) = {} THEN "inserting" ELSE "replying"
                     /\ j = IF WithKey(x.key) = {} THEN NoJob ELSE Latest(WithKey(x.key))
    OBVIOUS
  <2>3. PICK y : y = [x EXCEPT !.pc = to, !.job = j]
    OBVIOUS
  <2>4. y.pc = to /\ y.job = j
    BY <2>3 DEF Importees
  <2>5. importer' = [importer EXCEPT ![c] = y] /\ importJobs' = importJobs
    BY <1>1, <1>6, <2>1, <2>2, <2>3 DEF AskForKey
  <2> QED
    BY <1>3, <2>2, <2>4, <2>5
<1>7. ASSUME NEW c \in Importers, InsertImport(c) PROVE ImportBounds'
  <2>1. PICK x \in Importees : x = importer[c]
    BY <1>1
  <2>2. PICK r : r = [key |-> x.key, kind |-> x.kind, status |-> "queued",
                      done |-> 0, aborted |-> FALSE, late |-> 0]
    OBVIOUS
  <2>3. r \in ImportRows /\ r.done = 0 /\ r.late = 0
    BY <2>2 DEF ImportRows, Importees
  <2>4. importJobs' = Append(importJobs, r)
    BY <1>7, <2>1, <2>2 DEF InsertImport
  <2>5. \A j \in DOMAIN importJobs' :
             importJobs'[j] = r \/ (j \in DOMAIN importJobs /\ importJobs'[j] = importJobs[j])
    BY <1>1, <2>3, <2>4
  <2>6. PICK y : y = [x EXCEPT !.pc = "replying", !.job = Len(importJobs) + 1]
    OBVIOUS
  <2>7. y.pc = "replying"
    BY <2>6 DEF Importees
  <2>8. importer' = [importer EXCEPT ![c] = y]
    BY <1>1, <1>7, <2>1, <2>6 DEF InsertImport
  <2>9. \A d \in Importers : importer'[d].pc # "replying" => importer'[d].job = NoJob
    BY <1>1, <2>7, <2>8 DEF ImportBounds
  <2>10. \A j \in DOMAIN importJobs' :
             importJobs'[j].done <= ListLength /\ importJobs'[j].late <= importJobs'[j].done
    BY <1>2, <2>3, <2>5, ImportAssumption
  <2> QED
    BY <2>9, <2>10 DEF ImportBounds
<1>8. ASSUME NEW c \in Importers, ReplyImport(c) \/ ImportFails(c) PROVE ImportBounds'
  <2>1. importer' = [importer EXCEPT ![c] = IdleImport] /\ importJobs' = importJobs
    BY <1>8 DEF ReplyImport, ImportFails
  <2> QED
    BY <1>3, <1>4, <2>1
<1>9. ASSUME NEW h \in ImportHosts, NEW k \in IdemKeys, ForgetReply(h, k) PROVE ImportBounds'
  BY <1>9 DEF ForgetReply, ImportBounds
<1>10. ASSUME NEW j \in DOMAIN importJobs, StartImport(j) \/ EndImport(j) PROVE ImportBounds'
  <2>1. PICK x \in ImportRows : x = importJobs[j]
    BY <1>2
  <2>2. PICK s : OnlyJobs /\ RunsTo(j, [x EXCEPT !.status = s])
    BY <1>10, <2>1 DEF StartImport, EndImport
  <2>3. PICK y : y = [x EXCEPT !.status = s]
    OBVIOUS
  <2>4. y.done = x.done /\ y.late = x.late
    BY <2>3 DEF ImportRows
  <2> QED
    BY <1>2, <2>1, <2>2, <2>3, <2>4, RowBounded
<1>11. ASSUME NEW j \in DOMAIN importJobs, InstallNext(j) PROVE ImportBounds'
  <2>1. PICK x \in ImportRows : x = importJobs[j]
    BY <1>2
  <2>2. x.done < ListLength /\ OnlyJobs
    BY <1>11, <2>1 DEF InstallNext
  <2>3. CASE RunsTo(j, [x EXCEPT !.status = "stopped"])
    <3>1. PICK y : y = [x EXCEPT !.status = "stopped"]
      OBVIOUS
    <3>2. y.done = x.done /\ y.late = x.late
      BY <3>1 DEF ImportRows
    <3> QED
      BY <1>2, <2>1, <2>2, <2>3, <3>1, <3>2, RowBounded
  <2>4. CASE RunsTo(j, Installed(x))
    <3>1. PICK n, l : n = x.done + 1 /\ l = IF x.aborted THEN x.late + 1 ELSE x.late
      OBVIOUS
    <3>2. PICK y : y = [x EXCEPT !.done = n, !.late = l]
      OBVIOUS
    <3>3. Installed(x) = y
      BY <3>1, <3>2 DEF Installed
    <3>4. y.done = n /\ y.late = l
      BY <3>2 DEF ImportRows
    <3>5. n <= ListLength /\ l <= n
      BY <1>2, <2>1, <2>2, <3>1, ImportAssumption
    <3> QED
      BY <2>2, <2>4, <3>3, <3>4, <3>5, RowBounded
  <2> QED
    BY <1>11, <2>1, <2>3, <2>4 DEF InstallNext
<1>12. ASSUME NEW j \in DOMAIN importJobs, CancelImport(j) PROVE ImportBounds'
  <2>1. PICK x \in ImportRows : x = importJobs[j]
    BY <1>2
  <2>2. PICK s : s = IF x.status = "queued" THEN "stopped" ELSE "cancelled"
    OBVIOUS
  <2>3. CASE OnlyJobs /\ RunsTo(j, [x EXCEPT !.status = s, !.aborted = TRUE])
    <3>1. PICK y : y = [x EXCEPT !.status = s, !.aborted = TRUE]
      OBVIOUS
    <3>2. y.done = x.done /\ y.late = x.late
      BY <3>1 DEF ImportRows
    <3> QED
      BY <1>2, <2>1, <2>3, <3>1, <3>2, RowBounded
  <2>4. CASE OnlyJobs /\ x.done < ListLength
             /\ RunsTo(j, [x EXCEPT !.status = "cancelled", !.aborted = TRUE,
                                    !.done = @ + 1, !.late = 1])
    <3>1. PICK n : n = x.done + 1
      OBVIOUS
    <3>2. PICK y : y = [x EXCEPT !.status = "cancelled", !.aborted = TRUE, !.done = n, !.late = 1]
      OBVIOUS
    <3>3. y.done = n /\ y.late = 1
      BY <3>2 DEF ImportRows
    <3>4. n <= ListLength /\ 1 <= n
      BY <1>2, <2>1, <2>4, <3>1, ImportAssumption
    <3>5. RunsTo(j, y)
      BY <2>4, <3>1, <3>2
    <3> QED
      BY <2>4, <3>3, <3>4, <3>5, RowBounded
  <2> QED
    BY <1>12, <2>1, <2>2, <2>3, <2>4 DEF CancelImport
<1>13. CASE UNCHANGED importVars
  BY <1>13 DEF importVars, ImportBounds
<1> QED
  BY <1>5, <1>6, <1>7, <1>8, <1>9, <1>10, <1>11, <1>12, <1>13 DEF ImportNext

(* An answer that is kept under a key is the number of a job there is.     *)
LEMMA ImportTypes == ImportSpec => []ImportTypeOK
<1>1. ImportInit => ImportBounds
  BY DEF ImportInit, ImportBounds, IdleImport
<1>2. ImportInv /\ ImportBounds => ImportTypeOK
  <2> SUFFICES ASSUME ImportInv, ImportBounds PROVE ImportTypeOK
    OBVIOUS
  <2>1. /\ importJobs \in Seq(ImportRows) /\ importer \in [Importers -> Importees]
        /\ replies \in [ImportHosts -> [IdemKeys -> Nat \cup {NoJob}]]
    BY DEF ImportInv, ImportShape
  <2>2. \A k \in IdemKeys : WithKey(k) \subseteq DOMAIN importJobs
    BY DEF WithKey
  <2>3. ASSUME NEW h \in ImportHosts, NEW k \in IdemKeys
        PROVE  replies[h][k] \in DOMAIN importJobs \cup {NoJob}
    BY <2>2 DEF ImportInv, AnswersExist
  <2>4. replies \in [ImportHosts -> [IdemKeys -> DOMAIN importJobs \cup {NoJob}]]
    <3>1. \A h \in ImportHosts : replies[h] \in [IdemKeys -> DOMAIN importJobs \cup {NoJob}]
      BY <2>1, <2>3
    <3> QED
      BY <2>1, <3>1
  <2>5. ASSUME NEW j \in DOMAIN importJobs
        PROVE  importJobs[j] \in
                  [key : IdemKeys, kind : ImportKinds, done : 0..ListLength, aborted : BOOLEAN,
                   status : {"queued", "running", "cancelled", "stopped", "completed"},
                   late : 0..ListLength]
    <3>1. PICK x \in ImportRows : x = importJobs[j]
      BY <2>1
    <3>2. x.done \in Nat /\ x.late \in Nat /\ x.done <= ListLength /\ x.late <= x.done
      BY <3>1 DEF ImportBounds, ImportRows
    <3>3. x.done \in 0..ListLength /\ x.late \in 0..ListLength
      BY <3>2, ImportAssumption
    <3> QED
      BY <3>1, <3>3 DEF ImportRows
  <2>6. ASSUME NEW c \in Importers
        PROVE  importer[c] \in
                  [pc : {"idle", "asking", "inserting", "replying"}, host : ImportHosts,
                   key : IdemKeys, kind : ImportKinds, job : DOMAIN importJobs \cup {NoJob},
                   overlapped : BOOLEAN]
    <3>1. PICK x \in Importees : x = importer[c]
      BY <2>1
    <3>2. x.key \in IdemKeys
      BY DEF Importees
    <3>3. x.job \in DOMAIN importJobs \cup {NoJob}
      BY <2>2, <3>1, <3>2 DEF ImportBounds, ImportInv, AnswersExist
    <3> QED
      BY <3>1, <3>3 DEF Importees
  <2> QED
    BY <2>1, <2>4, <2>5, <2>6 DEF ImportTypeOK
<1> QED
  BY <1>1, <1>2, ImportsAreSound, ImportBoundsKept, PTL DEF ImportSpec
----------------------------------------------------------------------------
(* The order of the rows on the console.                                   *)

(* `s` has the members of S, each once.                                    *)
Ordering(s, S) ==
    /\ s \in Seq(S) /\ IsInjective(s)
    /\ \A r \in S : \E i \in DOMAIN s : s[i] = r

(* Induction, over a set that stands for the property.                     *)
LEMMA CountUp ==
    ASSUME NEW T \in SUBSET Nat, 0 \in T, \A n \in T : n + 1 \in T
    PROVE  T = Nat
<1> SUFFICES ASSUME Nat \ T # {} PROVE FALSE
  OBVIOUS
<1>1. PICK k \in Nat \ T : \A j \in Nat \ T : k <= j
  <2>1. Nat \ T \in SUBSET Nat /\ Nat \ T # {}
    OBVIOUS
  <2> QED
    BY <2>1, LeastIs
<1>2. k - 1 \in Nat /\ k - 1 \in T
  BY <1>1
<1> QED
  BY <1>1, <1>2

Sifts(f, order, rows, n) ==
    f = [i \in 0..n |-> IF i = 0 THEN <<>>
                        ELSE IF order[i] \in rows THEN Append(f[i - 1], order[i]) ELSE f[i - 1]]

(* The loop of OnlyOf computes what it is defined by.                      *)
LEMMA KeepingIs ==
    ASSUME NEW order, NEW rows, Len(order) \in Nat
    PROVE  \E f : Sifts(f, order, rows, Len(order)) /\ OnlyOf(order, rows) = f[Len(order)]
<1> DEFINE T == {n \in Nat : \E f : Sifts(f, order, rows, n)}
<1>1. 0 \in T
  <2> DEFINE g == [i \in 0..0 |-> <<>>]
  <2>1. g = [i \in 0..0 |-> IF i = 0 THEN <<>>
                        ELSE IF order[i] \in rows THEN Append(g[i - 1], order[i]) ELSE g[i - 1]]
    OBVIOUS
  <2>2. Sifts(g, order, rows, 0)
    <3> HIDE DEF g
    <3> QED
      BY <2>1 DEF Sifts
  <2> QED
    BY <2>2
<1>2. ASSUME NEW n \in T PROVE n + 1 \in T
  <2>1. PICK f : Sifts(f, order, rows, n)
    BY <1>2
  <2> DEFINE g == [i \in 0..(n + 1) |->
                      IF i <= n THEN f[i]
                      ELSE IF order[i] \in rows THEN Append(f[n], order[i]) ELSE f[n]]
  <2>2. ASSUME NEW i \in 0..(n + 1)
        PROVE  g[i] = IF i = 0 THEN <<>>
                      ELSE IF order[i] \in rows THEN Append(g[i - 1], order[i]) ELSE g[i - 1]
    <3>1. CASE i <= n
      <4>1. i \in 0..n
        BY <1>2, <3>1
      <4>2. g[i] = f[i] /\ (i # 0 => g[i - 1] = f[i - 1])
        BY <1>2, <3>1
      <4>3. f[i] = IF i = 0 THEN <<>>
                   ELSE IF order[i] \in rows THEN Append(f[i - 1], order[i]) ELSE f[i - 1]
        BY <2>1, <4>1 DEF Sifts
      <4> QED
        BY <4>2, <4>3
    <3>2. CASE ~(i <= n)
      <4>1. i = n + 1 /\ i # 0 /\ i - 1 = n /\ n \in 0..(n + 1) /\ n <= n
        BY <1>2, <3>2
      <4>2. g[i] = (IF order[i] \in rows THEN Append(f[n], order[i]) ELSE f[n]) /\ g[n] = f[n]
        BY <3>2, <4>1
      <4> QED
        BY <4>1, <4>2
    <3> QED
      BY <3>1, <3>2
  <2>3. g = [i \in 0..(n + 1) |-> g[i]]
    OBVIOUS
  <2>4. Sifts(g, order, rows, n + 1)
    <3> HIDE DEF g
    <3> QED
      BY <2>2, <2>3 DEF Sifts
  <2> QED
    BY <1>2, <2>4
<1>3. T = Nat
  <2> HIDE DEF T
  <2>1. T \in SUBSET Nat
    BY DEF T
  <2> QED
    BY <1>1, <1>2, <2>1, CountUp
<1>4. \E f : Sifts(f, order, rows, Len(order))
  BY <1>3
<1> QED
  BY <1>4 DEF OnlyOf, Sifts

(* What is left of an order is one of the rows that are left.              *)
LEMMA KeptOrder ==
    ASSUME NEW S, NEW order, Ordering(order, S), NEW rows
    PROVE  Ordering(OnlyOf(order, rows), S \cap rows)
<1>1. /\ order \in Seq(S) /\ Len(order) \in Nat /\ DOMAIN order = 1..Len(order)
      /\ \A i \in 1..Len(order) : order[i] \in S
      /\ \A i, j \in 1..Len(order) : order[i] = order[j] => i = j
      /\ \A r \in S : \E i \in 1..Len(order) : order[i] = r
  <2>1. order \in Seq(S)
    BY DEF Ordering
  <2>2. Len(order) \in Nat /\ DOMAIN order = 1..Len(order) /\ \A i \in 1..Len(order) : order[i] \in S
    BY <2>1, LenProperties, ElementOfSeq
  <2> QED
    BY <2>1, <2>2 DEF Ordering, IsInjective
<1>2. PICK f : Sifts(f, order, rows, Len(order)) /\ OnlyOf(order, rows) = f[Len(order)]
  BY <1>1, KeepingIs
<1> DEFINE Kept(n) == {order[i] : i \in 1..n} \cap rows
           T == {n \in Nat : n <= Len(order) => Ordering(f[n], Kept(n))}
<1>3. 0 \in T
  <2>1. f[0] = <<>> /\ Kept(0) = {}
    BY <1>1, <1>2 DEF Sifts
  <2>2. Ordering(<<>>, {})
    BY EmptySeq DEF Ordering, IsInjective
  <2> QED
    BY <2>1, <2>2
<1>4. ASSUME NEW n \in T PROVE n + 1 \in T
  <2> SUFFICES ASSUME n + 1 <= Len(order) PROVE Ordering(f[n + 1], Kept(n + 1))
    BY <1>4
  <2>1. PICK r : r = order[n + 1]
    OBVIOUS
  <2>2. n \in Nat /\ n <= Len(order) /\ Ordering(f[n], Kept(n)) /\ n + 1 \in 1..Len(order)
    BY <1>1, <1>4
  <2>3. f[n + 1] = IF r \in rows THEN Append(f[n], r) ELSE f[n]
    <3>1. n + 1 \in 0..Len(order) /\ n + 1 # 0 /\ (n + 1) - 1 = n
      BY <2>2, <1>1
    <3> QED
      BY <2>1, <3>1, <1>2 DEF Sifts
  <2>4. Kept(n + 1) = IF r \in rows THEN Kept(n) \cup {r} ELSE Kept(n)
    <3>1. 1..(n + 1) = (1..n) \cup {n + 1}
      BY <2>2
    <3> QED
      BY <2>1, <3>1
  <2>5. r \notin Kept(n)
    <3>1. \A i \in 1..n : i \in 1..Len(order) /\ i # n + 1
      BY <2>2, <1>1
    <3> QED
      BY <2>1, <2>2, <3>1, <1>1
  <2> HIDE DEF Kept
  <2>6. CASE r \in rows
    <3>1. f[n] \in Seq(Kept(n)) /\ IsInjective(f[n]) /\ \A s \in Kept(n) : \E i \in DOMAIN f[n] : f[n][i] = s
      BY <2>2 DEF Ordering
    <3>2. PICK K : K = Kept(n) \cup {r}
      OBVIOUS
    <3>3. PICK q : q = f[n]
      OBVIOUS
    <3>4. q \in Seq(K) /\ r \in K
      BY <3>1, <3>2, <3>3, SeqMonotonic
    <3>5. /\ Len(q) \in Nat /\ DOMAIN q = 1..Len(q) /\ \A i \in 1..Len(q) : q[i] \in Kept(n)
      BY <3>1, <3>3, LenProperties, ElementOfSeq
    <3>6. /\ Append(q, r) \in Seq(K) /\ Len(Append(q, r)) = Len(q) + 1
          /\ Append(q, r)[Len(q) + 1] = r /\ \A i \in 1..Len(q) : Append(q, r)[i] = q[i]
      BY <3>4, AppendProperties
    <3>7. DOMAIN Append(q, r) = 1..(Len(q) + 1)
      BY <3>6, LenProperties
    <3>8. \A i \in 1..(Len(q) + 1) : i \in 1..Len(q) \/ i = Len(q) + 1
      BY <3>5
    <3>9. \A i \in 1..Len(q) : i \in 1..(Len(q) + 1)
      BY <3>5
    <3>10. Len(q) + 1 \in 1..(Len(q) + 1)
      BY <3>5
    <3>11. ASSUME NEW i \in 1..(Len(q) + 1), NEW j \in 1..(Len(q) + 1), Append(q, r)[i] = Append(q, r)[j]
           PROVE  i = j
      <4>1. \A a, b \in 1..Len(q) : q[a] = q[b] => a = b
        BY <3>1, <3>3, <3>5 DEF IsInjective
      <4> QED
        BY <4>1, <3>5, <3>6, <3>8, <3>11, <2>5
    <3>12. ASSUME NEW s \in K PROVE \E i \in 1..(Len(q) + 1) : Append(q, r)[i] = s
      <4>1. CASE s = r
        BY <4>1, <3>6, <3>10
      <4>2. CASE s # r
        <5>1. PICK i \in 1..Len(q) : q[i] = s
          BY <4>2, <3>1, <3>2, <3>3, <3>5, <3>12
        <5> QED
          BY <5>1, <3>6, <3>9
      <4> QED
        BY <4>1, <4>2
    <3>13. Ordering(Append(q, r), K)
      BY <3>6, <3>7, <3>11, <3>12 DEF Ordering, IsInjective
    <3> QED
      BY <2>3, <2>4, <2>6, <3>2, <3>3, <3>13
  <2>7. CASE r \notin rows
    BY <2>2, <2>3, <2>4, <2>7
  <2> QED
    BY <2>6, <2>7
<1>5. T = Nat
  <2> HIDE DEF T
  <2>1. T \in SUBSET Nat
    BY DEF T
  <2> QED
    BY <1>3, <1>4, <2>1, CountUp
<1>6. Ordering(f[Len(order)], Kept(Len(order)))
  <2>1. Len(order) \in T
    <3> HIDE DEF T
    <3> QED
      BY <1>1, <1>5
  <2>2. Len(order) <= Len(order)
    BY <1>1
  <2> HIDE DEF Kept
  <2> QED
    BY <2>1, <2>2
<1>7. Kept(Len(order)) = S \cap rows
  BY <1>1
<1> HIDE DEF Kept
<1> QED
  BY <1>2, <1>6, <1>7

(* SetToSeq() gives an order of a finite set.                              *)
LEMMA SomeOrder == Ordering(SetToSeq(Rows), Rows)
<1>1. IsFiniteSet(Rows)
  BY ConsoleAssumption
<1>2. PICK n : n = Cardinality(Rows)
  OBVIOUS
<1>3. n \in Nat
  BY <1>1, <1>2, FS_CardinalityType
<1>4. 1 \in Int /\ n \in Int
  BY <1>3
<1>5. IsFiniteSet(1..n) /\ Cardinality(1..n) = IF 1 > n THEN 0 ELSE n - 1 + 1
  BY <1>4, FS_Interval, Zenon
<1>6. Cardinality(1..n) = n
  BY <1>3, <1>5
<1>7. \E f \in [1..n -> Rows] : IsInjective(f)
  <2>1. ExistsBijection(1..n, Rows)
    BY <1>1, <1>2, <1>5, <1>6, FS_SameCardinalityBij
  <2> QED
    BY <2>1 DEF ExistsBijection, Bijection, Injection
<1>8. PICK s : s = SetToSeq(Rows)
  OBVIOUS
<1>9. s \in [1..n -> Rows] /\ IsInjective(s)
  BY <1>2, <1>7, <1>8 DEF SetToSeq
<1>10. s \in Surjection(1..n, Rows)
  <2>1. s \in Injection(1..n, Rows)
    BY <1>9 DEF Injection
  <2> QED
    BY <2>1, <1>1, <1>2, <1>6, FS_Injection
<1>11. s \in Seq(Rows) /\ DOMAIN s = 1..n
  BY <1>3, <1>9
<1> QED
  BY <1>8, <1>9, <1>10, <1>11 DEF Ordering, Surjection

(* The orders a call carries: of the rows it moves, and of the list that   *)
(* answers it.                                                             *)
CallOrders(c) ==
    /\ c.kind = "move" /\ c.stage = "sent" => c.value \in Seq(Rows) /\ IsInjective(c.value)
    /\ c.kind = "list" /\ c.stage = "answered" /\ c.code = 200 => Ordering(c.answer[1].order, Rows)

OrdersInv ==
    /\ Ordering(server.order, Rows) /\ Ordering(page.order, Shown)
    /\ \A i \in DOMAIN calls : CallOrders(calls[i])

(* At the start the server has some order and the page is empty.           *)
LEMMA OrdersStart == ConsoleInit => OrdersInv
<1> SUFFICES ASSUME ConsoleInit PROVE OrdersInv
  OBVIOUS
<1>1. Ordering(server.order, Rows)
  <2>1. PICK o : o = SetToSeq(Rows)
    OBVIOUS
  <2>2. server = [rev |-> 1, status |-> [r \in Rows |-> "on"], order |-> o, session |-> TRUE]
    BY <2>1 DEF ConsoleInit
  <2>3. server.order = o
    BY <2>2
  <2> QED
    BY <2>1, <2>3, SomeOrder
<1>2. Ordering(page.order, Shown)
  <2>1. page.order = <<>> /\ Shown = {}
    BY DEF ConsoleInit, Shown
  <2> QED
    BY <2>1, EmptySeq DEF Ordering, IsInjective
<1>3. DOMAIN calls = {}
  <2>1. calls \in Seq({}) /\ calls = <<>>
    BY EmptySeq DEF ConsoleInit
  <2> QED
    BY <2>1, LenProperties, EmptySeq
<1> QED
  BY <1>1, <1>2, <1>3 DEF OrdersInv

(* What a step has to show: the two orders, and those of the calls it      *)
(* sends or answers.                                                       *)
LEMMA OrdersOnward ==
    ASSUME OrdersInv, Ordering(server'.order, Rows), Ordering(page'.order, Shown'),
           \A i \in DOMAIN calls' :
              (i \in DOMAIN calls /\ calls'[i] = calls[i]) \/ CallOrders(calls'[i])
    PROVE  OrdersInv'
<1>1. ASSUME NEW i \in DOMAIN calls' PROVE CallOrders(calls'[i])
  <2>1. CASE i \in DOMAIN calls /\ calls'[i] = calls[i]
    BY <2>1 DEF OrdersInv
  <2>2. CASE ~(i \in DOMAIN calls /\ calls'[i] = calls[i])
    BY <2>2
  <2> QED
    BY <2>1, <2>2
<1>2. \A i \in DOMAIN calls' : CallOrders(calls[i])'
  BY <1>1 DEF CallOrders
<1> QED
  BY <1>2 DEF OrdersInv, Ordering

(* The same rows are on the page when none of them came or went.           *)
LEMMA SameShown ==
    ASSUME OrdersInv, page'.order = page.order,
           \A r \in Rows : page'.status[r] = "gone" <=> page.status[r] = "gone"
    PROVE  Ordering(page'.order, Shown')
<1>1. Shown' = Shown
  BY DEF Shown
<1> QED
  BY <1>1 DEF OrdersInv

(* The operator asks for something.                                        *)
LEMMA SendOrders ==
    ASSUME ConsoleInv, OrdersInv, NEW kind, NEW row, NEW value,
           kind = "move" => value \in Seq(Rows) /\ IsInjective(value),
           Send(NewCall(kind, row, value)), page'.order = page.order,
           \A r \in Rows : page'.status[r] = "gone" <=> page.status[r] = "gone"
    PROVE  OrdersInv'
<1>1. PICK c : c = NewCall(kind, row, value)
  OBVIOUS
<1>2. c.kind = kind /\ c.value = value /\ c.stage = "sent"
  <2>1. PICK m : m = IF kind \in Mutations THEN page.seen ELSE 0
    OBVIOUS
  <2>2. c = [NoCall EXCEPT !.kind = kind, !.row = row, !.value = value, !.stage = "sent",
                           !.ifMatch = m, !.base = page.rev, !.renders = page.renders]
    BY <1>1, <2>1 DEF NewCall
  <2>3. c = [kind |-> kind, row |-> row, value |-> value, ifMatch |-> m, base |-> page.rev,
             renders |-> page.renders, stage |-> "sent", code |-> 0, rev |-> 0, answer |-> <<>>]
    BY ONLY <2>2 DEF NoCall
  <2> QED
    BY <2>3
<1>3. CallOrders(c)
  BY <1>2 DEF CallOrders
<1>4. ConsoleShape /\ calls' = Append(calls, c) /\ server' = server
  BY <1>1 DEF Send, ConsoleInv
<1>5. \A i \in DOMAIN calls' : (i \in DOMAIN calls /\ calls'[i] = calls[i]) \/ calls'[i] = c
  BY <1>4, SentCalls
<1>6. Ordering(server'.order, Rows) /\ Ordering(page'.order, Shown')
  BY <1>4, SameShown DEF OrdersInv
<1> QED
  BY <1>3, <1>5, <1>6, OrdersOnward

(* The operator drags a row to another place: each row is still shown, and *)
(* once.                                                                   *)
LEMMA MoveOrders ==
    ASSUME ConsoleInv, OrdersInv, NEW from \in 1..Cardinality(Rows),
           NEW to \in 1..Cardinality(Rows), MoveProvider(from, to)
    PROVE  OrdersInv'
<1>1. PICK o : o = page.order
  OBVIOUS
<1>2. o \in Seq(Shown) /\ IsInjective(o) /\ Shown \subseteq Rows /\ {from, to} \subseteq DOMAIN o
  BY <1>1 DEF OrdersInv, Ordering, Shown, MoveProvider
<1>3. o \in Seq(Rows)
  BY <1>2, SeqMonotonic
<1>4. PICK n : n = Len(o)
  OBVIOUS
<1>5. n \in Nat /\ DOMAIN o = 1..n /\ (\A k \in 1..n : o[k] \in Rows) /\ from \in 1..n /\ to \in 1..n
      /\ \A j, k \in 1..n : o[j] = o[k] => j = k
  <2>1. n \in Nat /\ DOMAIN o = 1..n /\ \A k \in 1..n : o[k] \in Rows
    BY <1>3, <1>4, LenProperties, ElementOfSeq
  <2> QED
    BY <2>1, <1>2, <1>4 DEF IsInjective
<1>6. PICK v : v = Moved(o, from, to)
  OBVIOUS
<1> DEFINE was(k) == CASE k = to -> from
                       [] from <= k /\ k < to -> k + 1
                       [] to < k /\ k <= from -> k - 1
                       [] OTHER -> k
<1>7. v = [k \in 1..n |-> o[was(k)]]
  BY <1>5, <1>6 DEF Moved
<1>11. \A k \in 1..n : was(k) \in 1..n
  BY <1>5
<1>12. \A j, k \in 1..n : was(j) = was(k) => j = k
  BY <1>5
<1> HIDE DEF was
<1>8. v \in Seq(Rows) /\ DOMAIN v = 1..n
  <2>1. v \in [1..n -> Rows]
    BY <1>5, <1>7, <1>11
  <2> QED
    BY <1>5, <2>1
<1>9. IsInjective(v)
  <2> SUFFICES ASSUME NEW j \in 1..n, NEW k \in 1..n, v[j] = v[k] PROVE j = k
    BY <1>8 DEF IsInjective
  <2>1. o[was(j)] = o[was(k)]
    BY <1>7
  <2>2. was(j) = was(k)
    BY <1>5, <1>11, <2>1
  <2> QED
    BY <1>12, <2>2
<1>10. Send(NewCall("move", AnyRow, v)) /\ page' = page
  BY <1>1, <1>6 DEF MoveProvider
<1> QED
  BY <1>8, <1>9, <1>10, SendOrders

(* A box that is toggled stays on the page.                                *)
LEMMA ToggleOrders ==
    ASSUME ConsoleInv, OrdersInv, NEW r \in Rows, ToggleRow(r)
    PROVE  OrdersInv'
<1>1. IsPage(page) /\ page.status \in Statuses
  BY DEF ConsoleInv, ConsoleShape, IsPage
<1>2. PICK v : v = Other(page.status[r])
  OBVIOUS
<1>3. v \in {"on", "off"} /\ page.status[r] # "gone" /\ Send(NewCall("toggle", r, v))
  BY <1>2 DEF ToggleRow, Other, Shown
<1>4. PICK st : st = [page.status EXCEPT ![r] = v]
  OBVIOUS
<1>5. page' = [page EXCEPT !.status = st]
  BY <1>2, <1>4 DEF ToggleRow
<1>6. page'.order = page.order /\ page'.status = st
  BY <1>1, <1>5 DEF IsPage
<1>7. \A p \in Rows : st[p] = "gone" <=> page.status[p] = "gone"
  BY <1>1, <1>3, <1>4 DEF Statuses
<1> QED
  BY <1>3, <1>6, <1>7, SendOrders
----------------------------------------------------------------------------
(* The server keeps an order of all the rows: what a move does not name    *)
(* follows what it names.                                                  *)
LEMMA MovedOrder ==
    ASSUME NEW order, Ordering(order, Rows), NEW v \in Seq(Rows), IsInjective(v)
    PROVE  Ordering(v \o OnlyOf(order, Rows \ ToSet(v)), Rows)
<1>1. PICK L : L = Rows \ ToSet(v)
  OBVIOUS
<1>2. PICK w : w = OnlyOf(order, L)
  OBVIOUS
<1>3. Ordering(w, L)
  <2>1. Rows \cap L = L
    BY <1>1
  <2>2. Ordering(OnlyOf(order, L), Rows \cap L)
    BY KeptOrder
  <2> QED
    BY <1>2, <2>1, <2>2
<1>4. PICK m, n : m = Len(v) /\ n = Len(w)
  OBVIOUS
<1>5. /\ m \in Nat /\ DOMAIN v = 1..m /\ (\A i \in 1..m : v[i] \in Rows)
      /\ \A i, j \in 1..m : v[i] = v[j] => i = j
  <2>1. m \in Nat /\ DOMAIN v = 1..m /\ \A i \in 1..m : v[i] \in Rows
    BY <1>4, LenProperties, ElementOfSeq
  <2> QED
    BY <2>1 DEF IsInjective
<1>6. /\ w \in Seq(L) /\ n \in Nat /\ DOMAIN w = 1..n /\ (\A i \in 1..n : w[i] \in L)
      /\ (\A i, j \in 1..n : w[i] = w[j] => i = j)
      /\ \A r \in L : \E i \in 1..n : w[i] = r
  <2>1. w \in Seq(L)
    BY <1>3 DEF Ordering
  <2>2. n \in Nat /\ DOMAIN w = 1..n /\ \A i \in 1..n : w[i] \in L
    BY <1>4, <2>1, LenProperties, ElementOfSeq
  <2> QED
    BY <1>3, <2>1, <2>2 DEF Ordering, IsInjective
<1>7. L = {r \in Rows : \A i \in 1..m : v[i] # r}
  BY <1>1, <1>5 DEF ToSet
<1>8. w \in Seq(Rows)
  BY <1>6, <1>7, SeqMonotonic
<1>9. PICK q : q = v \o w
  OBVIOUS
<1>10. /\ q \in Seq(Rows) /\ Len(q) = m + n
       /\ \A i \in 1..(m + n) : q[i] = IF i <= m THEN v[i] ELSE w[i - m]
  BY <1>4, <1>8, <1>9, ConcatProperties
<1>11. DOMAIN q = 1..(m + n)
  BY <1>10, LenProperties
<1>12. \A i \in 1..(m + n) : \/ (i <= m /\ i \in 1..m /\ q[i] = v[i])
                              \/ (~(i <= m) /\ i - m \in 1..n /\ q[i] = w[i - m])
  BY <1>5, <1>6, <1>10
<1>13. ASSUME NEW i \in 1..(m + n), NEW j \in 1..(m + n), q[i] = q[j] PROVE i = j
  <2>1. CASE i <= m /\ j <= m
    <3>1. i \in 1..m /\ j \in 1..m /\ v[i] = v[j]
      BY <1>12, <1>13, <2>1
    <3> QED
      BY <1>5, <3>1
  <2>2. CASE ~(i <= m) /\ ~(j <= m)
    <3>1. i - m \in 1..n /\ j - m \in 1..n /\ w[i - m] = w[j - m]
      BY <1>12, <1>13, <2>2
    <3>2. i - m = j - m
      BY <1>6, <3>1
    <3> QED
      BY <1>5, <3>2
  <2>3. ASSUME NEW a \in 1..m, NEW b \in 1..n PROVE v[a] # w[b]
    BY <1>6, <1>7
  <2> QED
    BY <1>12, <1>13, <2>1, <2>2, <2>3
<1>14. ASSUME NEW r \in Rows PROVE \E i \in 1..(m + n) : q[i] = r
  <2>1. CASE r \in L
    <3>1. PICK k \in 1..n : w[k] = r
      BY <1>6, <2>1
    <3>2. k + m \in 1..(m + n) /\ ~(k + m <= m) /\ (k + m) - m = k
      BY <1>5, <1>6
    <3> QED
      BY <1>10, <3>1, <3>2
  <2>2. CASE r \notin L
    <3>1. PICK k \in 1..m : v[k] = r
      BY <1>7, <2>2
    <3>2. k \in 1..(m + n) /\ k <= m
      BY <1>5, <1>6
    <3> QED
      BY <1>10, <3>1, <3>2
  <2> QED
    BY <2>1, <2>2
<1>15. Ordering(q, Rows)
  BY <1>10, <1>11, <1>13, <1>14 DEF Ordering, IsInjective
<1> QED
  BY <1>1, <1>2, <1>9, <1>15

(* The server answers a call, and may make the change it asks for.         *)
LEMMA ServeOrders ==
    ASSUME ConsoleInv, OrdersInv, NEW i \in DOMAIN calls, Serve(i)
    PROVE  OrdersInv'
<1>1. PICK c, n :
         /\ c = calls[i] /\ CallSound(c) /\ c.stage = "sent" /\ calls' = [calls EXCEPT ![i] = n]
         /\ n.kind = c.kind /\ n.row = c.row /\ n.value = c.value /\ n.renders = c.renders
         /\ n.ifMatch = c.ifMatch /\ n.stage = "answered" /\ n.code = Refusal(c) /\ n.rev = server'.rev
         /\ (c.kind = "list" => n.answer[1] = server')
         /\ (server'.rev \in Nat => IsCall(n))
  BY Answered DEF ConsoleInv
<1>2. ConsoleShape /\ IsServer(server) /\ CallOrders(c) /\ Ordering(server.order, Rows)
  BY <1>1 DEF ConsoleInv, ConsoleShape, OrdersInv
<1>3. page' = page
  BY DEF Serve
<1>4. Ordering(server'.order, Rows)
  <2>1. PICK next : next = [server EXCEPT !.rev = server.rev + 1]
    OBVIOUS
  <2>2. /\ next.order = server.order
        /\ next = [rev |-> server.rev + 1, status |-> server.status, order |-> server.order,
                   session |-> server.session]
    BY <1>2, <2>1 DEF IsServer
  <2>3. CASE Refusal(c) = 200 /\ c.kind \in Mutations
    <3>1. server' = Mutated(c)
      BY <1>1, <2>3 DEF Serve
    <3>2. CASE c.kind = "move"
      <4>1. PICK o : o = c.value \o OnlyOf(server.order, Rows \ ToSet(c.value))
        OBVIOUS
      <4>2. Mutated(c) = [next EXCEPT !.order = o]
        BY <2>1, <2>2, <3>2, <4>1 DEF Mutated
      <4>3. server'.order = o
        BY <2>2, <3>1, <4>2
      <4>4. c.value \in Seq(Rows) /\ IsInjective(c.value)
        BY <1>1, <1>2, <3>2 DEF CallOrders
      <4> QED
        BY <1>2, <4>1, <4>3, <4>4, MovedOrder
    <3>3. CASE c.kind = "toggle"
      <4>1. PICK st : st = [next.status EXCEPT ![c.row] = c.value]
        OBVIOUS
      <4>2. Mutated(c) = [next EXCEPT !.status = st]
        BY <2>1, <3>3, <4>1 DEF Mutated
      <4> QED
        BY <1>2, <2>2, <3>1, <4>2
    <3>4. CASE c.kind = "remove"
      <4>1. PICK st : st = [next.status EXCEPT ![c.row] = "gone"]
        OBVIOUS
      <4>2. Mutated(c) = [next EXCEPT !.status = st]
        BY <2>1, <3>4, <4>1 DEF Mutated
      <4> QED
        BY <1>2, <2>2, <3>1, <4>2
    <3>5. CASE c.kind = "refresh"
      <4>1. Mutated(c) = next
        BY <2>1, <3>5 DEF Mutated
      <4> QED
        BY <1>2, <2>2, <3>1, <4>1
    <3> QED
      BY <2>3, <3>2, <3>3, <3>4, <3>5 DEF Mutations
  <2>4. CASE ~(Refusal(c) = 200 /\ c.kind \in Mutations)
    <3>1. PICK b : b = (server.session \/ c.kind = "login")
      OBVIOUS
    <3>2. server' = [server EXCEPT !.session = b]
      BY <1>1, <2>4, <3>1 DEF Serve
    <3>3. server'.order = server.order
      BY <1>2, <3>2 DEF IsServer
    <3> QED
      BY <1>2, <3>3
  <2> QED
    BY <2>3, <2>4
<1>5. CallOrders(n)
  BY <1>1, <1>4 DEF CallOrders
<1>6. /\ DOMAIN calls' = DOMAIN calls /\ calls'[i] = n
      /\ \A j \in DOMAIN calls : j # i => calls'[j] = calls[j]
  BY <1>1, <1>2, ChangedCalls
<1>7. \A j \in DOMAIN calls' : (j \in DOMAIN calls /\ calls'[j] = calls[j]) \/ CallOrders(calls'[j])
  BY <1>5, <1>6
<1>8. Ordering(page'.order, Shown')
  BY <1>3, SameShown
<1> QED
  BY <1>4, <1>7, <1>8, OrdersOnward

(* Others change no order.                                                 *)
LEMMA OthersOrders ==
    ASSUME ConsoleInv, OrdersInv, server'.order = server.order, UNCHANGED <<page, calls>>
    PROVE  OrdersInv'
<1>1. Ordering(page'.order, Shown')
  BY SameShown
<1> QED
  BY <1>1, OrdersOnward DEF OrdersInv
----------------------------------------------------------------------------
(* The answers reach the page.                                             *)
(* A call that is over carries no order, and a new list has none yet.      *)
LEMMA OverOrders ==
    ASSUME ConsoleShape, NEW i \in DOMAIN calls, calls' = Over(i) \/ ThenLoad(i)
    PROVE  \A j \in DOMAIN calls' : (j \in DOMAIN calls /\ calls'[j] = calls[j]) \/ CallOrders(calls'[j])
<1>1. PICK o : o = NoCall
  OBVIOUS
<1>2. CallOrders(o)
  BY <1>1 DEF CallOrders, NoCall
<1>3. PICK mid : mid = Over(i)
  OBVIOUS
<1>4. /\ IsSeq(mid) /\ DOMAIN mid = DOMAIN calls /\ mid[i] = o
      /\ \A j \in DOMAIN calls : j # i => mid[j] = calls[j]
  <2>1. mid = [calls EXCEPT ![i] = o] /\ IsSeq(calls)
    BY <1>1, <1>3 DEF Over, ConsoleShape
  <2> QED
    BY <2>1, OneOther
<1>5. CASE calls' = Over(i)
  BY <1>2, <1>3, <1>4, <1>5
<1>6. CASE ThenLoad(i)
  <2>1. PICK c : c = NewCall("list", AnyRow, <<>>)
    OBVIOUS
  <2>2. calls' = Append(mid, c)
    BY <1>3, <1>6, <2>1 DEF ThenLoad
  <2>3. CallOrders(c)
    <3>1. PICK a, m : a = AnyRow /\ m = IF "list" \in Mutations THEN page.seen ELSE 0
      OBVIOUS
    <3>2. c = [NoCall EXCEPT !.kind = "list", !.row = a, !.value = <<>>, !.stage = "sent",
                             !.ifMatch = m, !.base = page.rev, !.renders = page.renders]
      BY <2>1, <3>1 DEF NewCall
    <3>3. c = [kind |-> "list", row |-> a, value |-> <<>>, ifMatch |-> m, base |-> page.rev,
               renders |-> page.renders, stage |-> "sent", code |-> 0, rev |-> 0, answer |-> <<>>]
      BY ONLY <3>2 DEF NoCall
    <3>4. c.kind = "list" /\ c.stage = "sent"
      BY <3>3
    <3> QED
      BY <3>4 DEF CallOrders
  <2>4. /\ DOMAIN calls' = 1..(Len(mid) + 1) /\ calls'[Len(mid) + 1] = c /\ Len(mid) \in Nat
        /\ DOMAIN mid = 1..Len(mid) /\ \A j \in DOMAIN mid : calls'[j] = mid[j]
    BY <1>4, <2>2, OneMore
  <2>5. ASSUME NEW j \in DOMAIN calls', ~(j \in DOMAIN calls /\ calls'[j] = calls[j])
        PROVE  CallOrders(calls'[j])
    <3>1. CASE j = Len(mid) + 1
      BY <2>3, <2>4, <3>1
    <3>2. CASE j # Len(mid) + 1
      <4>1. j \in DOMAIN mid
        BY <2>4, <2>5, <3>2
      <4> QED
        BY <4>1, <1>2, <1>4, <2>4, <2>5
    <3> QED
      BY <3>1, <3>2
  <2> QED
    BY <2>5
<1> QED
  BY <1>5, <1>6

(* A page that is not rendered anew keeps its rows and their order.        *)
LEMMA HandlerOrders ==
    ASSUME ConsoleInv, OrdersInv, NEW i \in DOMAIN calls, calls' = Over(i) \/ ThenLoad(i),
           server' = server, page'.order = page.order,
           \A r \in Rows : page'.status[r] = "gone" <=> page.status[r] = "gone"
    PROVE  OrdersInv'
<1>1. \A j \in DOMAIN calls' : (j \in DOMAIN calls /\ calls'[j] = calls[j]) \/ CallOrders(calls'[j])
  BY OverOrders DEF ConsoleInv
<1>2. Ordering(page'.order, Shown') /\ Ordering(server'.order, Rows)
  BY SameShown DEF OrdersInv
<1> QED
  BY <1>1, <1>2, OrdersOnward

(* The list is rendered: the rows that are left, in their order.           *)
LEMMA SucceedsOrders ==
    ASSUME ConsoleInv, OrdersInv, NEW i \in DOMAIN calls, Succeeds(i)
    PROVE  OrdersInv'
<1>1. PICK c : c = calls[i]
  OBVIOUS
<1>2. c.stage = "answered" /\ c.code = 200 /\ server' = server /\ ConsoleShape /\ IsPage(page)
  BY <1>1 DEF Succeeds, ConsoleInv, ConsoleShape
<1>3. CASE c.kind = "list"
  <2>1. PICK now : now = c.answer[1]
    OBVIOUS
  <2>2. page' = Rendered(now) /\ calls' = Over(i)
    BY <1>1, <1>2, <1>3, <2>1 DEF Succeeds
  <2>3. page'.order = InOrder(now) /\ page'.status = now.status
    <3>1. PICK o, k : o = InOrder(now) /\ k = page.renders + 1
      OBVIOUS
    <3>2. page' = [page EXCEPT !.rev = now.rev, !.seen = now.rev, !.order = o,
                               !.status = now.status, !.renders = k]
      BY <2>2, <3>1 DEF Rendered
    <3>3. page' = [seen |-> now.rev, rev |-> now.rev, status |-> now.status, order |-> o,
                   signedIn |-> page.signedIn, renders |-> k]
      BY <3>2, <1>2 DEF IsPage
    <3> QED
      BY <3>1, <3>3
  <2>4. Ordering(now.order, Rows)
    BY <1>1, <1>2, <1>3, <2>1 DEF OrdersInv, CallOrders
  <2>5. PICK left : left = {r \in Rows : now.status[r] # "gone"}
    OBVIOUS
  <2>6. Ordering(page'.order, left)
    <3>1. Rows \cap left = left
      BY <2>5
    <3>2. Ordering(OnlyOf(now.order, left), Rows \cap left)
      BY <2>4, KeptOrder
    <3>3. page'.order = OnlyOf(now.order, left)
      BY <2>3, <2>5 DEF InOrder
    <3> QED
      BY <3>1, <3>2, <3>3
  <2>7. Shown' = left
    BY <2>3, <2>5 DEF Shown
  <2>8. \A j \in DOMAIN calls' : (j \in DOMAIN calls /\ calls'[j] = calls[j]) \/ CallOrders(calls'[j])
    BY <1>2, <2>2, OverOrders
  <2>9. Ordering(page'.order, Shown') /\ Ordering(server'.order, Rows)
    BY <1>2, <2>6, <2>7 DEF OrdersInv
  <2> QED
    BY <2>8, <2>9, OrdersOnward
<1>4. CASE c.kind = "login"
  <2>1. page' = [page EXCEPT !.signedIn = TRUE] /\ ThenLoad(i)
    BY <1>1, <1>4 DEF Succeeds
  <2>2. page'.order = page.order /\ page'.status = page.status
    BY <1>2, <2>1 DEF IsPage
  <2> QED
    BY <1>2, <2>1, <2>2, HandlerOrders
<1>5. CASE c.kind \notin {"list", "login"}
  <2>1. page' = Raised(i) /\ (calls' = Over(i) \/ ThenLoad(i))
    <3>1. CASE c.kind \in {"move", "remove", "refresh"}
      BY <1>1, <3>1 DEF Succeeds
    <3>2. CASE c.kind \notin {"move", "remove", "refresh"}
      BY <1>1, <1>5, <3>2 DEF Succeeds
    <3> QED
      BY <3>1, <3>2
  <2>2. page'.order = page.order /\ page'.status = page.status
    BY <1>2, <2>1, RaisedIs
  <2> QED
    BY <1>2, <2>1, <2>2, HandlerOrders
<1> QED
  BY <1>3, <1>4, <1>5

(* A box that is put back is of a row on the page.                         *)
LEMMA PutBackOrders ==
    ASSUME ConsoleShape, NEW c, CallSound(c), c.stage # "over", NEW sn, NEW p,
           p = [seen |-> sn, rev |-> page.rev, status |-> page.status, order |-> page.order,
                signedIn |-> page.signedIn, renders |-> page.renders]
    PROVE  \E st \in Statuses :
              /\ \A r \in Rows : st[r] = "gone" <=> page.status[r] = "gone"
              /\ PutBack(c, p) = [seen |-> sn, rev |-> page.rev, status |-> st, order |-> page.order,
                                  signedIn |-> page.signedIn, renders |-> page.renders]
<1>1. BoxesPut(c, sn, PutBack(c, p))
  BY PutsBack
<1> QED
  BY <1>1 DEF BoxesPut

(* A refusal keeps the rows.                                               *)
LEMMA FailsOrders ==
    ASSUME ConsoleInv, OrdersInv, NEW i \in DOMAIN calls, Fails(i)
    PROVE  OrdersInv'
<1>1. PICK c : c = calls[i]
  OBVIOUS
<1>2. c.stage = "answered" /\ server' = server /\ ConsoleShape /\ CallSound(c)
  BY <1>1 DEF Fails, ConsoleInv, ConsoleShape
<1>3. calls' = Over(i) \/ ThenLoad(i)
  BY DEF Fails
<1>4. PICK sn \in Nat : Raised(i) = [seen |-> sn, rev |-> page.rev, status |-> page.status, order |-> page.order,
                                     signedIn |-> page.signedIn, renders |-> page.renders]
  BY <1>2, RaisedIs
<1>5. PICK p, q : p = Raised(i) /\ q = PutBack(c, p)
  OBVIOUS
<1>6. PICK st \in Statuses :
         /\ \A r \in Rows : st[r] = "gone" <=> page.status[r] = "gone"
         /\ q = [seen |-> sn, rev |-> page.rev, status |-> st, order |-> page.order,
                 signedIn |-> page.signedIn, renders |-> page.renders]
  BY <1>2, <1>4, <1>5, PutBackOrders
<1>7. page'.order = page.order /\ page'.status = st
  <2>1. PICK b : b = (q.signedIn /\ c.code # 401)
    OBVIOUS
  <2>2. page' = [q EXCEPT !.signedIn = b]
    BY <1>1, <1>5, <2>1 DEF Fails
  <2> QED
    BY <1>6, <2>2
<1> QED
  BY <1>2, <1>3, <1>6, <1>7, HandlerOrders

(* So does a lost answer.                                                  *)
LEMMA OfflineOrders ==
    ASSUME ConsoleInv, OrdersInv, NEW i \in DOMAIN calls, Offline(i)
    PROVE  OrdersInv'
<1>1. PICK c : c = calls[i]
  OBVIOUS
<1>2. c.stage # "over" /\ server' = server /\ ConsoleShape /\ CallSound(c) /\ IsPage(page) /\ calls' = Over(i)
  BY <1>1 DEF Offline, ConsoleInv, ConsoleShape
<1>3. PICK p : p = page
  OBVIOUS
<1>4. p = [seen |-> page.seen, rev |-> page.rev, status |-> page.status, order |-> page.order,
           signedIn |-> page.signedIn, renders |-> page.renders]
  BY <1>2, <1>3 DEF IsPage
<1>5. PICK st \in Statuses :
         /\ \A r \in Rows : st[r] = "gone" <=> page.status[r] = "gone"
         /\ PutBack(c, p) = [seen |-> page.seen, rev |-> page.rev, status |-> st, order |-> page.order,
                             signedIn |-> page.signedIn, renders |-> page.renders]
  BY <1>2, <1>4, PutBackOrders
<1>6. page'.order = page.order /\ page'.status = st
  BY <1>1, <1>3, <1>5 DEF Offline
<1> QED
  BY <1>2, <1>5, <1>6, HandlerOrders
----------------------------------------------------------------------------
(* Every step of the console and of the server.                            *)
LEMMA OrdersKeep == ConsoleInv /\ OrdersInv /\ [ConsoleNext]_consoleVars => OrdersInv'
<1> SUFFICES ASSUME ConsoleInv, OrdersInv, [ConsoleNext]_consoleVars PROVE OrdersInv'
  OBVIOUS
<1>1. \A r \in Rows : page.status[r] = "gone" <=> page.status[r] = "gone"
  OBVIOUS
<1>4. CASE LoadAddons
  BY <1>4, SendOrders DEF LoadAddons
<1>5. CASE LoginWithToken
  BY <1>5, SendOrders DEF LoginWithToken
<1>6. CASE SessionExpires
  <2>1. server' = [server EXCEPT !.session = FALSE] /\ IsServer(server)
    BY <1>6 DEF SessionExpires, ConsoleInv, ConsoleShape
  <2>2. server'.order = server.order
    BY <2>1 DEF IsServer
  <2> QED
    BY <1>6, <2>2, OthersOrders DEF SessionExpires
<1>7. ASSUME NEW r \in Rows, InspectProvider(r) PROVE OrdersInv'
  BY <1>7, SendOrders DEF InspectProvider
<1>8. ASSUME NEW r \in Rows, ToggleRow(r) PROVE OrdersInv'
  BY <1>8, ToggleOrders
<1>9. ASSUME NEW r \in Rows, RemoveRow(r) PROVE OrdersInv'
  BY <1>9, SendOrders DEF RemoveRow
<1>10. ASSUME NEW r \in Rows, RefreshRow(r) PROVE OrdersInv'
  BY <1>10, SendOrders DEF RefreshRow
<1>11. ASSUME NEW r \in Rows, NEW to \in {"on", "off", "gone"}, OthersChange(r, to) PROVE OrdersInv'
  <2>1. PICK st, rv : st = [server.status EXCEPT ![r] = to] /\ rv = server.rev + 1
    OBVIOUS
  <2>2. server' = [server EXCEPT !.rev = rv, !.status = st] /\ IsServer(server)
    BY <1>11, <2>1 DEF OthersChange, ConsoleInv, ConsoleShape
  <2>3. server'.order = server.order
    BY <2>2 DEF IsServer
  <2> QED
    BY <1>11, <2>3, OthersOrders DEF OthersChange
<1>12. ASSUME NEW from \in 1..Cardinality(Rows), NEW to \in 1..Cardinality(Rows), MoveProvider(from, to)
       PROVE  OrdersInv'
  BY <1>12, MoveOrders
<1>13. ASSUME NEW i \in 1..Len(calls), Serve(i) \/ Succeeds(i) \/ Fails(i) \/ Offline(i) PROVE OrdersInv'
  <2>1. i \in DOMAIN calls
    BY LenProperties DEF ConsoleInv, ConsoleShape, IsSeq
  <2> QED
    BY <1>13, <2>1, ServeOrders, SucceedsOrders, FailsOrders, OfflineOrders
<1>14. CASE UNCHANGED consoleVars
  BY <1>14, OthersOrders DEF consoleVars
<1> QED
  BY <1>4, <1>5, <1>6, <1>7, <1>8, <1>9, <1>10, <1>11, <1>12, <1>13, <1>14 DEF ConsoleNext

(* The console and the server each show the rows once, and the page never  *)
(* knows a later revision than the server.                                 *)
LEMMA ConsoleTypes == ConsoleSpec => []ConsoleTypeOK
<1>1. ConsoleInv /\ OrdersInv => ConsoleTypeOK
  <2> SUFFICES ASSUME ConsoleInv, OrdersInv PROVE ConsoleTypeOK
    OBVIOUS
  <2>1. ASSUME NEW s, NEW S, Ordering(s, S) PROVE IsInjective(s) /\ Range(s) = S
    <3>1. s \in Seq(S) /\ IsInjective(s) /\ \A r \in S : \E i \in DOMAIN s : s[i] = r
      BY <2>1 DEF Ordering
    <3>2. \A i \in DOMAIN s : s[i] \in S
      BY <3>1, LenProperties, ElementOfSeq
    <3> QED
      BY <3>1, <3>2 DEF Range
  <2> QED
    BY <2>1 DEF ConsoleTypeOK, OrdersInv, ConsoleInv, ConsoleShape, IsServer, IsPage
<1>2. ConsoleInit => ConsoleInv
  BY ConsoleStarts
<1>3. ConsoleInv /\ [ConsoleNext]_consoleVars => ConsoleInv'
  BY ConsoleStepKeeps
<1> QED
  BY <1>1, <1>2, <1>3, OrdersStart, OrdersKeep, PTL DEF ConsoleSpec
----------------------------------------------------------------------------
(* The whole is the scheduler with the lock that may be outlived.          *)
LEMMA SchedulesProject == BackgroundSpec => SchedSpec
<1>1. BackgroundInit => SchedInit
  BY DEF BackgroundInit
<1>2. [BackgroundNext]_partVars => [SchedNext]_schedVars
  BY DEF BackgroundNext, partVars, SchedStep, OutboxStep, ImportStep, HealthStep, DebridStep,
         DownStep, CatStep, ConsoleStep, ClusterStep, FileStoreStep, PgStep, BootStep,
         AuditStep, Only
<1> QED
  BY <1>1, <1>2, PTL DEF BackgroundSpec, SchedSpec

(* The outbox.                                                             *)
LEMMA OutboxProjects == BackgroundSpec => OutboxSpec
<1>1. BackgroundInit => OutboxInit
  BY DEF BackgroundInit
<1>2. [BackgroundNext]_partVars => [OutboxNext]_outboxVars
  BY DEF BackgroundNext, partVars, SchedStep, OutboxStep, ImportStep, HealthStep, DebridStep,
         DownStep, CatStep, ConsoleStep, ClusterStep, FileStoreStep, PgStep, BootStep,
         AuditStep, Only
<1> QED
  BY <1>1, <1>2, PTL DEF BackgroundSpec, OutboxSpec

(* The imports.                                                            *)
LEMMA ImportsProject == BackgroundSpec => ImportSpec
<1>1. BackgroundInit => ImportInit
  BY DEF BackgroundInit
<1>2. [BackgroundNext]_partVars => [ImportNext]_importVars
  BY DEF BackgroundNext, partVars, SchedStep, OutboxStep, ImportStep, HealthStep, DebridStep,
         DownStep, CatStep, ConsoleStep, ClusterStep, FileStoreStep, PgStep, BootStep,
         AuditStep, Only
<1> QED
  BY <1>1, <1>2, PTL DEF BackgroundSpec, ImportSpec

(* The torrents.                                                           *)
LEMMA DebridProjects == BackgroundSpec => DebridSpec
<1>1. BackgroundInit => DebridInit
  BY DEF BackgroundInit
<1>2. [BackgroundNext]_partVars => [DebridNext]_debridVars
  BY DEF BackgroundNext, partVars, SchedStep, OutboxStep, ImportStep, HealthStep, DebridStep,
         DownStep, CatStep, ConsoleStep, ClusterStep, FileStoreStep, PgStep, BootStep,
         AuditStep, Only
<1> QED
  BY <1>1, <1>2, PTL DEF BackgroundSpec, DebridSpec

(* The shutdown.                                                           *)
LEMMA ShutdownProjects == BackgroundSpec => DownSpec
<1>1. BackgroundInit => DownInit
  BY DEF BackgroundInit
<1>2. [BackgroundNext]_partVars => [DownNext]_downVars
  BY DEF BackgroundNext, partVars, SchedStep, OutboxStep, ImportStep, HealthStep, DebridStep,
         DownStep, CatStep, ConsoleStep, ClusterStep, FileStoreStep, PgStep, BootStep,
         AuditStep, Only
<1> QED
  BY <1>1, <1>2, PTL DEF BackgroundSpec, DownSpec

(* The file backend.                                                       *)
LEMMA FileStoreProjects == BackgroundSpec => StoreSpec
<1>1. BackgroundInit => StoreInit
  BY DEF BackgroundInit
<1>2. [BackgroundNext]_partVars => [StoreNext]_fileStoreVars
  BY DEF BackgroundNext, partVars, SchedStep, OutboxStep, ImportStep, HealthStep, DebridStep,
         DownStep, CatStep, ConsoleStep, ClusterStep, FileStoreStep, PgStep, BootStep,
         AuditStep, Only
<1> QED
  BY <1>1, <1>2, PTL DEF BackgroundSpec, StoreSpec

(* The Postgres backend.                                                   *)
LEMMA PostgresProjects == BackgroundSpec => PgSpec
<1>1. BackgroundInit => PgInit
  BY DEF BackgroundInit
<1>2. [BackgroundNext]_partVars => [PgNext]_pgVars
  BY DEF BackgroundNext, partVars, SchedStep, OutboxStep, ImportStep, HealthStep, DebridStep,
         DownStep, CatStep, ConsoleStep, ClusterStep, FileStoreStep, PgStep, BootStep,
         AuditStep, Only
<1> QED
  BY <1>1, <1>2, PTL DEF BackgroundSpec, PgSpec

(* The health sweeps.                                                      *)
LEMMA HealthProjects == BackgroundSpec => HealthSpec
<1>1. BackgroundInit => HealthInit
  BY DEF BackgroundInit
<1>2. [BackgroundNext]_partVars => [HealthNext]_healthVars
  BY DEF BackgroundNext, partVars, SchedStep, OutboxStep, ImportStep, HealthStep, DebridStep,
         DownStep, CatStep, ConsoleStep, ClusterStep, FileStoreStep, PgStep, BootStep,
         AuditStep, Only
<1> QED
  BY <1>1, <1>2, PTL DEF BackgroundSpec, HealthSpec

(* The migrations of Postgres.                                             *)
LEMMA MigrationsProject == BackgroundSpec => BootSpec
<1>1. BackgroundInit => BootInit
  BY DEF BackgroundInit
<1>2. [BackgroundNext]_partVars => [BootNext]_bootVars
  BY DEF BackgroundNext, partVars, SchedStep, OutboxStep, ImportStep, HealthStep, DebridStep,
         DownStep, CatStep, ConsoleStep, ClusterStep, FileStoreStep, PgStep, BootStep,
         AuditStep, Only
<1> QED
  BY <1>1, <1>2, PTL DEF BackgroundSpec, BootSpec

(* The replicas.                                                           *)
LEMMA ClusterProjects == BackgroundSpec => Spec
<1>1. BackgroundInit => Init
  BY DEF BackgroundInit
<1>2. [BackgroundNext]_partVars => [Next]_vars
  BY DEF BackgroundNext, partVars, SchedStep, OutboxStep, ImportStep, HealthStep, DebridStep,
         DownStep, CatStep, ConsoleStep, ClusterStep, FileStoreStep, PgStep, BootStep,
         AuditStep, Only
<1> QED
  BY <1>1, <1>2, PTL DEF BackgroundSpec, Spec

(* The console.                                                            *)
LEMMA ConsoleProjects == BackgroundSpec => ConsoleSpec
<1>1. BackgroundInit => ConsoleInit
  BY DEF BackgroundInit
<1>2. [BackgroundNext]_partVars => [ConsoleNext]_consoleVars
  BY DEF BackgroundNext, partVars, SchedStep, OutboxStep, ImportStep, HealthStep, DebridStep,
         DownStep, CatStep, ConsoleStep, ClusterStep, FileStoreStep, PgStep, BootStep,
         AuditStep, Only
<1> QED
  BY <1>1, <1>2, PTL DEF BackgroundSpec, ConsoleSpec

(* The addons of one replica.                                              *)
LEMMA CatalogProjects == BackgroundSpec => CatSpec
<1>1. BackgroundInit => CatInit
  BY DEF BackgroundInit
<1>2. [BackgroundNext]_partVars => [CatNext]_catVars
  BY DEF BackgroundNext, partVars, SchedStep, OutboxStep, ImportStep, HealthStep, DebridStep,
         DownStep, CatStep, ConsoleStep, ClusterStep, FileStoreStep, PgStep, BootStep,
         AuditStep, Only
<1> QED
  BY <1>1, <1>2, PTL DEF BackgroundSpec, CatSpec

(* The audit log.                                                          *)
LEMMA AuditProjects == BackgroundSpec => AuditSpec
<1>1. BackgroundInit => AuditInit
  BY DEF BackgroundInit
<1>2. [BackgroundNext]_partVars => [AuditNext]_auditVars
  BY DEF BackgroundNext, partVars, SchedStep, OutboxStep, ImportStep, HealthStep, DebridStep,
         DownStep, CatStep, ConsoleStep, ClusterStep, FileStoreStep, PgStep, BootStep,
         AuditStep, Only
<1> QED
  BY <1>1, <1>2, PTL DEF BackgroundSpec, AuditSpec
----------------------------------------------------------------------------
(* A schedule has one active job while no lock is outlived, an outbox row  *)
(* of a handled type is marked after its enqueue, and requests of one      *)
(* idempotency key that do not overlap start one import, whatever number   *)
(* of replicas there is (locks.ts, engine.ts, import.routes.ts).           *)
THEOREM WorkIsOnce == BackgroundSpec => []WorkOnce
<1>1. OneActivePerSchedule /\ OutboxDelivers /\ ImportsOnce => WorkOnce
  BY DEF WorkOnce
<1> QED
  BY <1>1, SchedulesProject, OutboxProjects, ImportsProject, ScheduledOnce, OutboxDelivered,
     ImportedOnce, PTL

(* The three storage backends keep what they acknowledged, for any number  *)
(* of callers, connections, replicas and migrations (file/index.ts,        *)
(* postgres/index.ts, migrations/index.ts).                                *)
THEOREM StoresAreSound == BackgroundSpec => []StoresSound
<1>1. AckedSurvive /\ PgSound /\ SchemaWhole => StoresSound
  BY DEF StoresSound
<1> QED
  BY <1>1, FileStoreProjects, PostgresProjects, MigrationsProject, FileKeepsItsWord,
     PgKeepsItsWord, SchemaIsWhole, PTL

(* The storage is closed only after the requests and the jobs that use it, *)
(* in the checked composition as in Shutdown alone (lifecycle/shutdown.ts).*)
THEOREM StorageIsLast == BackgroundSpec => []StorageOutlivesWork
BY ShutdownProjects, StorageLast, PTL

(* No torrent is left behind, in the checked composition as in             *)
(* DebridTransfer alone (debrid/service.ts, uncachedTransferHandler.ts).   *)
THEOREM NothingIsLeft == BackgroundSpec => []NothingLeftBehind
BY DebridProjects, NothingStays, PTL

(* Probes are bounded and the status is that of the servers and circuits   *)
(* once all were probed, with no addon enabled too, in the checked         *)
(* composition as in HealthMonitor alone (health/monitor.ts).              *)
THEOREM HealthIsKept == BackgroundSpec => []HealthSound
<1>1. SweepsBounded /\ StatusExplained => HealthSound
  BY DEF HealthSound
<1> QED
  BY <1>1, HealthProjects, HealthIsSound, PTL

(* What a sole writer changed is durable and a cached answer is of its     *)
(* revision, in the checked composition as in ClusterSync alone            *)
(* (manager.ts, server.ts).                                                *)
THEOREM ReplicasStayTrue == BackgroundSpec => []ClusterSound
<1>1. SoleWriterDurable /\ CacheFreshUnlessSpanned => ClusterSound
  BY DEF ClusterSound
<1> QED
  BY <1>1, ClusterProjects, ReplicasAreTrue, PTL

(* No revision falls back in the checked composition either (manager.ts).  *)
THEOREM RevisionsStayMonotone == BackgroundSpec => RevisionMonotone
BY ClusterProjects, RevisionsRise, PTL

(* The page shows what the server has in the checked composition as in     *)
(* AdminConsole alone (public/admin/app.js).                               *)
THEOREM PageStaysTrue == BackgroundSpec => []ShownIsTrue
BY ConsoleProjects, PageIsTrue, PTL

(* Nor does the composition lose an audit event or record one twice        *)
(* (security/audit.ts, storage/types.ts).                                  *)
THEOREM AuditStaysSound == BackgroundSpec => []AuditSound
BY AuditProjects, MutationsAreAudited, PTL

(* The waterfall, the list and the registry of one replica agree between   *)
(* two mutations, the trust gate holds of first imports, and a mutation is *)
(* in the audit file, in the checked composition too (manager.ts,          *)
(* audit.ts).                                                              *)
THEOREM CatalogStaysSound == BackgroundSpec => []CatalogSound
<1>1. WaterfallExact /\ TrustGate /\ AuditSound => CatalogSound
  BY DEF CatalogSound
<1> QED
  BY <1>1, CatalogProjects, CatalogHolds, AuditProjects, MutationsAreAudited, PTL
----------------------------------------------------------------------------
(* The part that runs is the same throughout.                              *)
LEMMA SomePartRuns == BackgroundSpec => [](part \in Parts)
<1>1. BackgroundInit => part \in Parts
  BY DEF BackgroundInit
<1>2. part \in Parts /\ [BackgroundNext]_partVars => (part \in Parts)'
  BY DEF BackgroundNext, partVars, Only, SchedStep, OutboxStep, ImportStep, HealthStep, DebridStep,
         DownStep, CatStep, ConsoleStep, ClusterStep, FileStoreStep, PgStep, BootStep, AuditStep
<1> QED
  BY <1>1, <1>2, PTL DEF BackgroundSpec

(* Every part keeps its types: the state of the part that runs is of the   *)
(* shape its module gives it, in every behaviour of the composition.       *)
THEOREM BackgroundTypes == BackgroundSpec => []BackgroundTypeOK
<1>1. ASSUME part \in Parts, SchedInv, OutboxInv, ImportTypeOK, HealthInv, DebridTypeOK, DownInv,
             WaterfallExact /\ TrustGate /\ CatTypeOK, ConsoleTypeOK, ClusterInv, StoreTypeOK,
             PgTypeOK, BootInv, AuditInv
      PROVE  BackgroundTypeOK
  <2>1. SchedTypeOK /\ OutboxTypeOK /\ HealthTypeOK /\ DownTypeOK
    BY <1>1 DEF SchedInv, OutboxInv, HealthInv, DownInv
  <2>2. TypeOK
    BY <1>1 DEF ClusterInv, ClusterShape, LockKept, TypeOK, Savers, LookupStates, Entries
  <2>3. BootTypeOK
    BY <1>1 DEF BootInv, BootShape, BootStates, BootTypeOK
  <2>4. AuditTypeOK
    BY <1>1 DEF AuditInv, AuditShape, OperatorStates, AuditTypeOK
  <2> QED
    BY <1>1, <2>1, <2>2, <2>3, <2>4 DEF BackgroundTypeOK, Parts
<1>2. AuditSpec => []AuditInv
  BY AuditStarts, AuditStepKeeps, PTL DEF AuditSpec
<1> QED
  BY <1>1, <1>2, SomePartRuns, SchedInvCorrect, OutboxIsSound, ImportTypes, SweepsAreSound, DebridTypes,
     ShutdownIsSound, CatalogHolds, ConsoleTypes, ClusterIsSound, FileTypes, PgTypes, BootIsSound,
     SchedulesProject, OutboxProjects, ImportsProject, HealthProjects, DebridProjects, ShutdownProjects,
     CatalogProjects, ConsoleProjects, ClusterProjects, FileStoreProjects, PostgresProjects,
     MigrationsProject, AuditProjects, PTL
=============================================================================
