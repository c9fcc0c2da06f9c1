---------------------------- MODULE CacheFlight ----------------------------
(***************************************************************************)
(* The in-process cache: MemoryLruCache and clear() of src/cache/manager.ts*)
(* under StaleWhileRevalidate (src/cache/swr.ts), whose fetches are joined *)
(* by SingleFlightGroup (src/cache/singleFlight.ts).                       *)
(*                                                                         *)
(* Map operations are synchronous; a fetch, and the write of what it       *)
(* brought, are awaited, so callers, invalidations and clear() come        *)
(* between them.                                                           *)
(***************************************************************************)
EXTENDS Integers, Sequences, FiniteSets, SequencesExt

CONSTANTS
    CacheKeys,
    Askers,       \* callers of getOrFetch
    MaxEntries,   \* capacity of the memory cache
    Ttl, Swr,     \* ticks an entry is fresh, then stale but served
    NoFlight,     \* stands for "no fetch"
    NoKey,        \* stands for "no key asked for"
    MaxTime,      \* bound: ticks
    MaxFlights,   \* bound: fetches started
    MaxResets     \* bound: calls of clear()

ASSUME CacheAssumption ==
    /\ MaxEntries \in Nat \ {0} /\ Ttl \in Nat /\ Swr \in Nat
    /\ MaxTime \in Nat /\ MaxFlights \in Nat /\ MaxResets \in Nat
    /\ NoFlight \notin 1..MaxFlights

VARIABLES
    time,
    lru,         \* the keys of the map, least recently used first
    stamp,       \* when the envelope under each key was made
    flights,     \* the fetches started: key and stage
    inFlights,    \* SingleFlightGroup's map: key to fetch
    asker,       \* what each caller awaits, or was served
    resets,      \* calls of clear() so far
    older        \* history: <<k, l>> if l was used since k last was

cacheFlightVars == <<time, lru, stamp, flights, inFlights, asker, resets, older>>

FlightIds == 1..Len(flights)
Running(f) == flights[f].stage \in {"fetching", "writing"}

FlightOver == [key |-> NoKey, stage |-> "over", made |-> 0]      \* a fetch that ended

NoAsk == [pc |-> "idle", key |-> NoKey, hit |-> FALSE, made |-> 0,
          flight |-> NoFlight, age |-> 0]

CacheInit ==
    /\ time = 0
    /\ lru = << >>
    /\ stamp = [k \in CacheKeys |-> 0]
    /\ flights = << >>
    /\ inFlights = [k \in CacheKeys |-> NoFlight]
    /\ asker = [a \in Askers |-> NoAsk]
    /\ resets = 0
    /\ older = {}

TimePasses ==
    /\ time < MaxTime
    /\ time' = time + 1
    /\ UNCHANGED <<lru, stamp, flights, inFlights, asker, resets, older>>

(* Key k is used: no key was used since, and k is older than none.         *)
Used(k) == {p \in older : p[1] # k /\ p[2] # k} \cup {<<l, k>> : l \in CacheKeys \ {k}}
----------------------------------------------------------------------------
(* MemoryLruCache.  An entry lives for ttl + swr, as the envelope does.    *)
Present(k) == \E i \in 1..Len(lru) : lru[i] = k
Live(k)    == Present(k) /\ time <= stamp[k] + Ttl + Swr
LruBut(k) == IF Present(k) THEN RemoveAt(lru, CHOOSE i \in 1..Len(lru) : lru[i] = k) ELSE lru

(* BUG: get() leaves the entry where it was.                               *)
AfterGetInPlace(k) == IF Live(k) THEN lru ELSE LruBut(k)

(* get(): a live entry becomes the most recent, a dead one is deleted.     *)
AfterGet(k) == IF Live(k) THEN Append(LruBut(k), k) ELSE LruBut(k)

(* The map keeps no stamp of a key that is gone.                           *)
Stamps(l, s) == [k \in CacheKeys |-> IF k \in ToSet(l) THEN s[k] ELSE 0]

(* set(): an existing key is inserted anew, a new one may evict the oldest.*)
AfterSet(k) ==
    IF Present(k) \/ Len(lru) < MaxEntries THEN Append(LruBut(k), k)
    ELSE Append(Tail(lru), k)
----------------------------------------------------------------------------
(* SingleFlightGroup.do: join the key's fetch or start one.                *)
CanFly(k) == inFlights[k] # NoFlight \/ Len(flights) < MaxFlights

Fly(k) ==
    IF inFlights[k] # NoFlight THEN UNCHANGED <<flights, inFlights>>
    ELSE /\ flights' = Append(flights, [key |-> k, stage |-> "fetching", made |-> 0])
         /\ inFlights' = [inFlights EXCEPT ![k] = Len(flights) + 1]

FlightOf(k) == IF inFlights[k] # NoFlight THEN inFlights[k] ELSE Len(flights) + 1

Serve(a, pc, f, age) ==
    asker' = [asker EXCEPT ![a] = [NoAsk EXCEPT !.pc = pc, !.flight = f, !.age = age]]

(* getOrFetch() awaits the look-up ...                                     *)
LookInto(a, k) ==
    /\ asker[a].pc \notin {"looked", "waiting"}
    /\ lru' = AfterGet(k)
    /\ older' = IF Live(k) THEN Used(k) ELSE older
    /\ asker' = [asker EXCEPT ![a] = [NoAsk EXCEPT !.pc = "looked", !.key = k,
                                                    !.hit = Live(k),
                                                    !.made = IF Live(k) THEN stamp[k] ELSE 0]]
    /\ stamp' = Stamps(lru', stamp)
    /\ UNCHANGED <<time, flights, inFlights, resets>>

(* ... and judges what it found: fresh, stale with a refresh in the        *)
(* background, or a miss.                                                  *)
Judge(a) ==
    LET k == asker[a].key  age == time - asker[a].made IN
    /\ asker[a].pc = "looked"
    /\ \/ /\ asker[a].hit /\ age <= Ttl
          /\ Serve(a, "fresh", NoFlight, age)
          /\ UNCHANGED <<flights, inFlights>>
       \/ /\ asker[a].hit /\ age \in (Ttl + 1)..(Ttl + Swr)
          /\ CanFly(k) /\ Fly(k)
          /\ Serve(a, "stale", NoFlight, age)
       \/ /\ ~asker[a].hit \/ age > Ttl + Swr
          /\ CanFly(k) /\ Fly(k)
          /\ Serve(a, "waiting", FlightOf(k), 0)
    /\ UNCHANGED <<time, lru, stamp, resets, older>>

(* The fetcher answers; writeEnvelope stamps the value and awaits the set. *)
Fetched(f) ==
    /\ flights[f].stage = "fetching"
    /\ flights' = [flights EXCEPT ![f].stage = "writing", ![f].made = time]
    /\ UNCHANGED <<time, lru, stamp, inFlights, asker, resets, older>>

(* The finally block of do(), and the answer of the promise all callers    *)
(* of this fetch share.                                                    *)
FlightEnds(f, pc) ==
    /\ flights' = [flights EXCEPT ![f] = FlightOver]
    /\ inFlights' = [inFlights EXCEPT ![flights[f].key] = NoFlight]
    /\ asker' = [a \in Askers |->
                    IF asker[a].pc = "waiting" /\ asker[a].flight = f
                    THEN [asker[a] EXCEPT !.pc = pc, !.flight = NoFlight] ELSE asker[a]]

Written(f) ==
    LET k == flights[f].key IN
    /\ flights[f].stage = "writing"
    /\ lru' = AfterSet(k)
    /\ stamp' = Stamps(lru', [stamp EXCEPT ![k] = flights[f].made])
    /\ older' = Used(k)
    /\ FlightEnds(f, "fetched")
    /\ UNCHANGED <<time, resets>>

(* BUG: a fetch that fails stays in the map.                               *)
FetchFailsKept(f) ==
    /\ Running(f)
    /\ flights' = [flights EXCEPT ![f] = FlightOver]
    /\ asker' = [a \in Askers |->
                    IF asker[a].pc = "waiting" /\ asker[a].flight = f
                    THEN [asker[a] EXCEPT !.pc = "failed", !.flight = NoFlight] ELSE asker[a]]
    /\ UNCHANGED <<time, lru, stamp, inFlights, resets, older>>

(* The fetcher or the write rejects.                                       *)
FetchFails(f) ==
    /\ Running(f)
    /\ FlightEnds(f, "failed")
    /\ UNCHANGED <<time, lru, stamp, resets, older>>

(* del() and deletePrefix().                                               *)
Drop(k) ==
    /\ Present(k)
    /\ lru' = LruBut(k) /\ stamp' = Stamps(lru', stamp)
    /\ UNCHANGED <<time, flights, inFlights, asker, resets, older>>

(* clear(): the map is emptied and the fetches are forgotten, not stopped. *)
Clear ==
    /\ resets < MaxResets
    /\ resets' = resets + 1
    /\ lru' = << >> /\ stamp' = Stamps(lru', stamp)
    /\ inFlights' = [k \in CacheKeys |-> NoFlight]
    /\ UNCHANGED <<time, flights, asker, older>>
----------------------------------------------------------------------------
CacheNext ==
    \/ TimePasses
    \/ \E a \in Askers : Judge(a) \/ \E k \in CacheKeys : LookInto(a, k)
    \/ \E f \in FlightIds : Fetched(f) \/ Written(f) \/ FetchFails(f)
    \/ \E k \in CacheKeys : Drop(k)
    \/ Clear

CacheSpec == CacheInit /\ [][CacheNext]_cacheFlightVars
----------------------------------------------------------------------------
CacheTypeOK ==
    /\ time \in 0..MaxTime /\ resets \in 0..MaxResets
    /\ stamp \in [CacheKeys -> 0..MaxTime]
    /\ inFlights \in [CacheKeys -> 1..MaxFlights \cup {NoFlight}]
    /\ older \subseteq CacheKeys \X CacheKeys
    /\ \A f \in FlightIds :
          flights[f] \in [key : CacheKeys, made : 0..MaxTime, stage : {"fetching", "writing"}]
                            \cup {FlightOver}
    /\ \A a \in Askers :
          /\ asker[a].pc \in {"idle", "looked", "fresh", "stale", "waiting", "fetched", "failed"}
          /\ asker[a].flight \in 1..MaxFlights \cup {NoFlight}

RunningFor(k) == {f \in FlightIds : Running(f) /\ flights[f].key = k}

(* One fetch per key runs at a time, and one more for each clear() that    *)
(* forgot a running one, though the end of that one then also forgets its  *)
(* successor; a key is never left pointing at a fetch that is over, nor a  *)
(* caller awaiting one.                                                    *)
FlightsExact ==
    /\ \A k \in CacheKeys :
          /\ inFlights[k] # NoFlight => inFlights[k] \in RunningFor(k)
          /\ Cardinality(RunningFor(k)) <= resets + (IF inFlights[k] = NoFlight THEN 0 ELSE 1)
    /\ \A a \in Askers : asker[a].pc = "waiting" => Running(asker[a].flight)

(* The map is bounded, holds a key once, and keeps its keys in the order   *)
(* they were last used, so that it evicts the least recently used one.     *)
LruExact ==
    /\ Len(lru) <= MaxEntries
    /\ IsInjective(lru)
    /\ \A i, j \in 1..Len(lru) : i < j => <<lru[i], lru[j]>> \in older

(* No answer is older than its window.                                     *)
ServedInTime ==
    \A a \in Askers :
        /\ asker[a].pc = "fresh" => asker[a].age <= Ttl
        /\ asker[a].pc = "stale" => asker[a].age \in (Ttl + 1)..(Ttl + Swr)

CacheSound == FlightsExact /\ LruExact /\ ServedInTime
=============================================================================
