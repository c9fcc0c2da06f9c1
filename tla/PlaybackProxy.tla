---------------------------- MODULE PlaybackProxy ----------------------------
(***************************************************************************)
(* The playback proxy: grants, the media request that redeems one, and the *)
(* counters of concurrent streams.                                         *)
(*                                                                         *)
(* A replica that reached Redis when it started ("online") shares its      *)
(* grants and its stream counters with the others; a replica that did not  *)
(* never tries again and keeps them in its own memory.  A media request    *)
(* redeems a grant, fetches the upstream inside a slot of a pool, and then *)
(* rewrites a manifest (minting a grant per segment), buffers the body, or *)
(* streams it, for which it must be counted under every key it has: all    *)
(* streams, its user's, its address's.  Every command to Redis is a step   *)
(* of its own, and whatever runs between two awaits is one step.           *)
(*                                                                         *)
(* No caller asks for single-use grants, so consume() does what get()      *)
(* does, and no caller revokes one.  URL policy, headers and bodies are    *)
(* reduced to the outcomes they lead to.                                   *)
(***************************************************************************)
EXTENDS Integers, Sequences, FiniteSets

CONSTANTS
    Nodes,          \* replicas
    Media,          \* media requests
    Grants,         \* grant ids
    IpOf, UserOf,   \* the address and the user ("none": anonymous) of a request
    MaxPerIp, MaxPerUser, MaxGlobal,   \* caps on streams, 0: no cap
    PoolLimit,      \* slots of a fetch pool
    MaxActive,      \* grants a replica may hold
    MaxPerRequest,  \* grants a manifest may mint
    MaxRedirects,   \* redirects a grant allows
    MaxStreamBytes, \* chunks a stream may relay
    MaxSegments,    \* bound: segments of a manifest
    MaxIssued,      \* bound: grants issued by resolvers
    MaxMishaps      \* bound: lapsed counters, failed Redis commands and crashes

VARIABLES
    online,     \* replicas with a Redis connection
    shared,     \* grants in Redis
    memory,     \* grants in each replica's map
    issued, expired,   \* grants minted, and those whose time is over
    saved,      \* history: grants that were written to Redis
    count,      \* the stream counters, of Redis and of each replica
    lapsed,     \* memory counters past their TTL
    lost,       \* history: reservations nobody will give back
    gauge,      \* each replica's activeGlobal
    unbilled,   \* history: bytes relayed by each replica, less those recorded
    request,    \* the media requests
    tally       \* lapsed counters, and failures of Redis or of replicas so far

grantVars == <<shared, memory, issued, expired, saved>>
counterVars == <<count, lapsed, lost>>
proxyVars == <<online, grantVars, counterVars, gauge, unbilled, request, tally>>

Everyone == "everyone"
Keys == {Everyone} \cup {IpOf[q] : q \in Media} \cup ({UserOf[q] : q \in Media} \ {"none"})
Stores == Nodes \cup {"redis"}
Routes == {"grant", "segment", "token"}

Cap(k) == IF k = Everyone THEN MaxGlobal
          ELSE IF k \in {IpOf[q] : q \in Media} THEN MaxPerIp ELSE MaxPerUser

ASSUME ProxyAssumption ==
    /\ IsFiniteSet(Media) /\ IsFiniteSet(Grants) /\ {"redis", "nowhere"} \cap Nodes = {}
    /\ {MaxPerIp, MaxPerUser, MaxGlobal, MaxActive} \subseteq Nat
    /\ {MaxPerRequest, MaxRedirects, MaxStreamBytes, MaxSegments} \subseteq Nat
    /\ \A q, r \in Media : /\ IpOf[q] \notin {Everyone, "none", UserOf[r]}
                           /\ UserOf[q] # Everyone

(* reserve() goes from the strictest key to the loosest, and skips those   *)
(* without a cap; the release function takes every key there is.           *)
Capped(k) == Cap(k) > 0
One(k, wanted) == IF k \in wanted THEN <<k>> ELSE <<>>
StrictestFirst(q, wanted) == One(Everyone, wanted) \o One(UserOf[q], wanted) \o One(IpOf[q], wanted)
KeysToReserve(q) == StrictestFirst(q, {k \in Keys : Capped(k)})
KeysToRelease(q) == <<IpOf[q], Everyone>> \o One(UserOf[q], Keys)

NewRequest == [pc |-> "new", at |-> "nowhere", route |-> "grant", grant |-> "none",
               hops |-> 0, segments |-> 0, budget |-> 0, bytes |-> 0,
               todo |-> <<>>, held |-> {}]

ProxyInit ==
    /\ online \in SUBSET Nodes
    /\ shared = {} /\ memory = [n \in Nodes |-> {}]
    /\ issued = {} /\ expired = {} /\ saved = {}
    /\ count = [s \in Stores |-> [k \in Keys |-> 0]]
    /\ lapsed = [n \in Nodes |-> {}]
    /\ lost = [s \in Stores |-> [k \in Keys |-> 0]]
    /\ gauge = [n \in Nodes |-> 0]
    /\ unbilled = [n \in Nodes |-> 0]
    /\ request = [q \in Media |-> NewRequest]
    /\ tally = [lapses |-> 0, failures |-> 0]

Mishap(what) == /\ tally.lapses + tally.failures < MaxMishaps
                /\ tally' = [tally EXCEPT ![what] = @ + 1]
Failure == Mishap("failures")

At(q) == request[q].at
Goes(q, pc) == request' = [request EXCEPT ![q].pc = pc]
Over(q) == request' = [request EXCEPT ![q] = [NewRequest EXCEPT !.pc = "over"]]
Store(n) == IF n \in online THEN "redis" ELSE n
-----------------------------------------------------------------------------
(* Grants.                                                                 *)

(* BUG: the limit itself leaves room for one more.                         *)
HasRoomAtCap(n) == Cardinality(memory[n] \ expired) <= MaxActive

(* issue() purges what has expired before it counts.                       *)
HasRoom(n) == Cardinality(memory[n] \ expired) < MaxActive

(* issue(): the check and the insertion are one step, the write to Redis   *)
(* follows before the caller learns the id.                                *)
Issue(n, g) ==
    /\ g \notin issued /\ HasRoom(n)
    /\ issued' = issued \cup {g}
    /\ memory' = [memory EXCEPT ![n] = (@ \ expired) \cup {g}]
    /\ \/ /\ n \in online
          /\ shared' = shared \cup {g} /\ saved' = saved \cup {g}
          /\ UNCHANGED tally
       \/ /\ n \in online /\ Failure
          /\ UNCHANGED <<shared, saved>>
       \/ n \notin online /\ UNCHANGED <<shared, saved, tally>>
    /\ UNCHANGED expired

(* A resolver mints a grant for a source it hands to a client.             *)
Resolve(n, g) ==
    /\ Cardinality(issued) < MaxIssued
    /\ Issue(n, g)
    /\ UNCHANGED <<online, counterVars, gauge, unbilled, request>>

Expire(g) ==
    /\ g \in issued \ expired
    /\ expired' = expired \cup {g}
    /\ UNCHANGED <<online, shared, memory, issued, saved, counterVars, gauge, unbilled, request, tally>>
-----------------------------------------------------------------------------
(* The request, up to the answer of the upstream.                          *)

(* A client follows a URL it was given; the rate limiter, a malformed id   *)
(* or a token past its expiry may end it at once.                          *)
Arrive(q, n, route, g) ==
    /\ request[q].pc = "new" /\ g \in issued
    /\ \E pc \in {"lookup", "over"} :
          /\ route = "token" /\ g \in expired => pc = "over"
          /\ IF pc = "over" THEN Over(q)
             ELSE request' = [request EXCEPT ![q] = [NewRequest EXCEPT
                                !.pc = pc, !.at = n, !.route = route, !.grant = g]]
    /\ UNCHANGED <<online, grantVars, counterVars, gauge, unbilled, tally>>

(* consume() and get(): Redis first, this replica's memory if Redis does   *)
(* not have the grant or fails.  An expired copy is deleted where it is    *)
(* found.                                                                  *)
InRedis(q) == At(q) \in online /\ request[q].grant \in shared
InMap(q) == request[q].grant \in memory[At(q)]

Looked(q, found) ==
    IF found \/ request[q].route = "token" THEN Goes(q, "slot") ELSE Over(q)

(* BUG: a replica with a Redis connection looks at its own memory only.    *)
LookupLocal(q) ==
    /\ request[q].pc = "lookup"
    /\ Looked(q, InMap(q) /\ request[q].grant \notin expired)
    /\ UNCHANGED <<online, grantVars, counterVars, gauge, unbilled, tally>>

(* A token that verified is honoured whether or not its grant is found.    *)
Lookup(q) ==
    LET g == request[q].grant IN
    /\ request[q].pc = "lookup"
    /\ \E hit \in {InRedis(q), FALSE} :
          /\ IF hit = InRedis(q) THEN UNCHANGED tally ELSE Failure
          /\ Looked(q, (hit \/ InMap(q)) /\ g \notin expired)
          /\ shared' = IF g \in expired /\ At(q) \in online /\ (hit \/ InMap(q))
                       THEN shared \ {g} ELSE shared
          /\ memory' = IF g \in expired /\ ~ hit
                       THEN [memory EXCEPT ![At(q)] = @ \ {g}] ELSE memory
    /\ UNCHANGED <<online, issued, expired, saved, counterVars, gauge, unbilled>>

(* Segments of a template draw from a pool of their own.                   *)
Pool(q) == IF request[q].route = "segment" THEN "hls-segment" ELSE "proxy-stream"
Fetching(n, pool) == {q \in Media : /\ request[q].pc = "fetch"
                                    /\ At(q) = n /\ Pool(q) = pool}

TakeSlot(q) ==
    /\ request[q].pc = "slot"
    /\ \/ /\ Cardinality(Fetching(At(q), Pool(q))) < PoolLimit
          /\ Goes(q, "fetch")
       \/ /\ Cardinality(Fetching(At(q), Pool(q))) >= PoolLimit
          /\ Over(q)
    /\ UNCHANGED <<online, grantVars, counterVars, gauge, unbilled, tally>>

(* The answer is there; only the replica matters from here on.             *)
Answered(q) ==
    \/ Over(q)
    \/ \E pc \in {"manifest", "buffer", "stream"} :
          request' = [request EXCEPT ![q] = [NewRequest EXCEPT !.pc = pc, !.at = At(q)]]

(* BUG: one redirect more than the grant allows is followed.              *)
FetchOneMore(q) ==
    /\ request[q].pc = "fetch"
    /\ \/ /\ request[q].hops <= MaxRedirects
          /\ request' = [request EXCEPT ![q].hops = @ + 1]
       \/ Answered(q)
    /\ UNCHANGED <<online, grantVars, counterVars, gauge, unbilled, tally>>

(* fetchGrantUpstream(): redirects are followed up to a limit; the slot is *)
(* free as soon as the headers are there, or an error or the deadline.     *)
Fetch(q) ==
    /\ request[q].pc = "fetch"
    /\ \/ /\ request[q].hops < MaxRedirects
          /\ request' = [request EXCEPT ![q].hops = @ + 1]
       \/ Answered(q)
    /\ UNCHANGED <<online, grantVars, counterVars, gauge, unbilled, tally>>
-----------------------------------------------------------------------------
(* Manifests and buffered bodies.                                          *)

(* recordEgress() of some bytes, after the relay of some.                  *)
Billed(n, relayed, recorded) ==
    unbilled' = [unbilled EXCEPT ![n] = @ + relayed - recorded]

(* The body is read, within its limit, before anything is accounted for.   *)
ReadManifest(q) ==
    /\ request[q].pc = "manifest"
    /\ \/ Over(q) /\ UNCHANGED unbilled
       \/ /\ Billed(At(q), 1, 1)
          /\ \E s \in 1 .. MaxSegments :
                request' = [request EXCEPT ![q].pc = "rewrite", ![q].segments = s,
                                           ![q].budget = MaxPerRequest]
    /\ UNCHANGED <<online, grantVars, counterVars, gauge, tally>>

ReadBuffer(q) ==
    /\ request[q].pc = "buffer"
    /\ UNCHANGED unbilled \/ Billed(At(q), 1, 1)
    /\ Over(q)
    /\ UNCHANGED <<online, grantVars, counterVars, gauge, tally>>

(* One segment: minted while the budget lasts, left as it is when the      *)
(* budget is spent, and left or blocked when issue() throws (no room, or   *)
(* the policy forbids the URL).                                            *)
Minted(q, g) ==
    /\ request[q].budget > 0
    /\ Issue(At(q), g)
    /\ request' = [request EXCEPT ![q].segments = @ - 1, ![q].budget = @ - 1]

NotMinted(q) ==
    /\ request' = [request EXCEPT ![q].segments = @ - 1]
    /\ UNCHANGED <<grantVars, tally>>

RewriteSegment(q) ==
    /\ request[q].pc = "rewrite" /\ request[q].segments > 0
    /\ NotMinted(q) \/ \E g \in Grants : Minted(q, g)
    /\ UNCHANGED <<online, counterVars, gauge, unbilled>>

Rewritten(q) ==
    /\ request[q].pc = "rewrite" /\ request[q].segments = 0
    /\ Over(q)
    /\ UNCHANGED <<online, grantVars, counterVars, gauge, unbilled, tally>>
-----------------------------------------------------------------------------
(* StreamConcurrencyTracker.                                               *)

StartStream(q) ==
    /\ request[q].pc = "stream"
    /\ \/ Over(q)
       \/ request' = [request EXCEPT ![q].pc = "reserve", ![q].todo = KeysToReserve(q)]
    /\ UNCHANGED <<online, grantVars, counterVars, gauge, unbilled, tally>>

(* INCR; a memory counter past its TTL starts over.                        *)
Incremented(s, k) ==
    IF s \in Nodes /\ k \in lapsed[s]
    THEN /\ count' = [count EXCEPT ![s][k] = 1]
         /\ lapsed' = [lapsed EXCEPT ![s] = @ \ {k}]
    ELSE /\ count' = [count EXCEPT ![s][k] = @ + 1]
         /\ UNCHANGED lapsed

(* BUG: the rejected stream keeps what it reserved so far.                 *)
RejectKeepsKeys(q) == Over(q)

(* rollback() of what was reserved, before the rejection is thrown.        *)
Reject(q) ==
    request' = [request EXCEPT ![q].pc = "release",
                               ![q].todo = StrictestFirst(q, request[q].held)]

(* reserve(); when EXPIRE fails after INCR nobody knows of the increment.  *)
Reserve(q) ==
    LET k == Head(request[q].todo)
        s == Store(At(q)) IN
    /\ request[q].pc = "reserve" /\ request[q].todo # <<>>
    /\ \/ /\ Incremented(s, k)
          /\ request' = [request EXCEPT ![q].pc = "check", ![q].held = @ \cup {k}]
          /\ UNCHANGED <<lost, tally>>
       \/ /\ s = "redis" /\ Failure
          /\ \/ UNCHANGED <<count, lost>>
             \/ /\ count' = [count EXCEPT ![s][k] = @ + 1]
                /\ lost' = [lost EXCEPT ![s][k] = @ + 1]
          /\ Reject(q)
          /\ UNCHANGED lapsed
    /\ UNCHANGED <<online, grantVars, gauge, unbilled>>

OverLimit(s, k) ==
    /\ count[s][k] > Cap(k)
    /\ s \in Nodes => k \notin lapsed[s]

(* BUG: the counter is compared only with a cap above it.                  *)
CheckOffByOne(q) ==
    LET k == Head(request[q].todo)
        s == Store(At(q)) IN
    /\ request[q].pc = "check"
    /\ IF count[s][k] > Cap(k) + 1 THEN Reject(q)
       ELSE request' = [request EXCEPT ![q].pc = "reserve", ![q].todo = Tail(@)]
    /\ UNCHANGED <<online, grantVars, counterVars, gauge, unbilled, tally>>

Check(q) ==
    LET k == Head(request[q].todo)
        s == Store(At(q)) IN
    /\ request[q].pc = "check"
    /\ \/ /\ IF OverLimit(s, k) THEN Reject(q)
             ELSE request' = [request EXCEPT ![q].pc = "reserve", ![q].todo = Tail(@)]
          /\ UNCHANGED tally
       \/ s = "redis" /\ Failure /\ Reject(q)
    /\ UNCHANGED <<online, grantVars, counterVars, gauge, unbilled>>

(* Every key is reserved: the body flows.                                  *)
Admit(q) ==
    /\ request[q].pc = "reserve" /\ request[q].todo = <<>>
    /\ Goes(q, "open")
    /\ gauge' = [gauge EXCEPT ![At(q)] = @ + 1]
    /\ UNCHANGED <<online, grantVars, counterVars, unbilled, tally>>

(* decrement() of one key.  In Redis, DECR and then DEL if nothing is left *)
(* are two commands; in memory it is one step.                             *)
Given(q, k) == [request EXCEPT ![q].todo = Tail(@), ![q].held = @ \ {k}]

InMemory(s, k) == IF count[s][k] = 0 THEN 0 ELSE count[s][k] - 1

FreeSlot(q) ==
    LET k == Head(request[q].todo)
        s == Store(At(q)) IN
    /\ request[q].pc = "release" /\ request[q].todo # <<>>
    /\ \/ /\ s = "redis"
          /\ count' = [count EXCEPT ![s][k] = @ - 1]
          /\ request' = IF count'[s][k] <= 0
                        THEN [request EXCEPT ![q].pc = "erase", ![q].held = @ \ {k}]
                        ELSE Given(q, k)
          /\ UNCHANGED <<lapsed, lost, tally>>
       \/ /\ s # "redis"
          /\ count' = [count EXCEPT ![s][k] = InMemory(s, k)]
          /\ lapsed' = IF count'[s][k] = 0 THEN [lapsed EXCEPT ![s] = @ \ {k}] ELSE lapsed
          /\ request' = Given(q, k)
          /\ UNCHANGED <<lost, tally>>
       \/ /\ s = "redis" /\ Failure
          /\ lost' = IF k \in request[q].held THEN [lost EXCEPT ![s][k] = @ + 1] ELSE lost
          /\ request' = Given(q, k)
          /\ UNCHANGED <<count, lapsed>>
    /\ UNCHANGED <<online, grantVars, gauge, unbilled>>

Erase(q) ==
    LET k == Head(request[q].todo) IN
    /\ request[q].pc = "erase"
    /\ \/ count' = [count EXCEPT !["redis"][k] = 0] /\ UNCHANGED tally
       \/ Failure /\ UNCHANGED count
    /\ request' = [request EXCEPT ![q].pc = "release", ![q].todo = Tail(@)]
    /\ UNCHANGED <<online, grantVars, lapsed, lost, gauge, unbilled>>

Released(q) ==
    /\ request[q].pc = "release" /\ request[q].todo = <<>>
    /\ Over(q)
    /\ UNCHANGED <<online, grantVars, counterVars, gauge, unbilled, tally>>
-----------------------------------------------------------------------------
(* The body.                                                               *)

(* cleanupStream(): the gauge and the bytes at once, the keys afterwards.  *)
Closing(q, relayed, recorded) ==
    /\ request' = [request EXCEPT ![q].pc = "release", ![q].bytes = 0,
                                  ![q].todo = KeysToRelease(q)]
    /\ gauge' = [gauge EXCEPT ![At(q)] = IF @ > 0 THEN @ - 1 ELSE 0]
    /\ Billed(At(q), relayed, recorded)

(* A chunk; the one that passes the limit ends the stream.                 *)
Chunk(q) ==
    /\ request[q].pc = "open"
    /\ IF request[q].bytes < MaxStreamBytes
       THEN /\ request' = [request EXCEPT ![q].bytes = @ + 1]
            /\ Billed(At(q), 1, 0)
            /\ UNCHANGED gauge
       ELSE Closing(q, 1, request[q].bytes + 1)
    /\ UNCHANGED <<online, grantVars, counterVars, tally>>

(* The body ends or the client goes; `end' and `close' may both fire, the  *)
(* first one cleans up.                                                    *)
Close(q) ==
    /\ request[q].pc = "open"
    /\ Closing(q, 0, request[q].bytes)
    /\ UNCHANGED <<online, grantVars, counterVars, tally>>
-----------------------------------------------------------------------------
(* A counter reaches its TTL: no stream was admitted under it for ten      *)
(* minutes, though some may still run.                                     *)
Lapse(s, k) ==
    /\ count[s][k] > 0
    /\ Mishap("lapses")
    /\ \/ /\ s = "redis"
          /\ count' = [count EXCEPT ![s][k] = 0]
          /\ UNCHANGED lapsed
       \/ /\ s \in Nodes /\ k \notin lapsed[s]
          /\ lapsed' = [lapsed EXCEPT ![s] = @ \cup {k}]
          /\ UNCHANGED count
    /\ UNCHANGED <<online, grantVars, lost, gauge, unbilled, request>>

(* The process dies and comes back: its map, its counters and its requests *)
(* are gone, and nobody gives back what they had reserved in Redis.  This  *)
(* is also what an upstream that breaks in mid-stream leads to: nothing    *)
(* listens for the error of the stream that is piped.                      *)
Mine(n) == {q \in Media : At(q) = n /\ request[q].pc # "over"}

Crash(n) ==
    /\ Failure
    /\ memory' = [memory EXCEPT ![n] = {}]
    /\ count' = [count EXCEPT ![n] = [k \in Keys |-> 0]]
    /\ lapsed' = [lapsed EXCEPT ![n] = {}]
    /\ lost' = IF n \notin online THEN lost
               ELSE [lost EXCEPT !["redis"] = [k \in Keys |->
                        @[k] + Cardinality({q \in Mine(n) : k \in request[q].held})]]
    /\ gauge' = [gauge EXCEPT ![n] = 0]
    /\ unbilled' = [unbilled EXCEPT ![n] = 0]
    /\ request' = [q \in Media |-> IF q \in Mine(n) THEN [NewRequest EXCEPT !.pc = "over"]
                                   ELSE request[q]]
    /\ UNCHANGED <<online, shared, issued, expired, saved>>
-----------------------------------------------------------------------------
Steps(q) ==
    \/ Lookup(q) \/ TakeSlot(q) \/ Fetch(q)
    \/ ReadManifest(q) \/ ReadBuffer(q) \/ RewriteSegment(q) \/ Rewritten(q)
    \/ StartStream(q) \/ Reserve(q) \/ Check(q) \/ Admit(q)
    \/ FreeSlot(q) \/ Erase(q) \/ Released(q)

ProxyNext ==
    \/ \E q \in Media :
          \/ Steps(q) \/ Chunk(q) \/ Close(q)
          \/ \E n \in Nodes, route \in Routes, g \in Grants : Arrive(q, n, route, g)
    \/ \E n \in Nodes : Crash(n) \/ \E g \in Grants : Resolve(n, g)
    \/ \E g \in Grants : Expire(g)
    \/ \E s \in Stores, k \in Keys : Lapse(s, k)

ProxySpec == ProxyInit /\ [][ProxyNext]_proxyVars
-----------------------------------------------------------------------------
RequestType ==
    [pc : {"new", "lookup", "slot", "fetch", "manifest", "buffer", "rewrite", "stream",
           "reserve", "check", "open", "release", "erase", "over"},
     at : Nodes \cup {"nowhere"}, route : Routes, grant : Grants \cup {"none"},
     hops : 0 .. MaxRedirects, segments : 0 .. MaxSegments,
     budget : 0 .. MaxPerRequest, bytes : 0 .. MaxStreamBytes,
     todo : Seq(Keys), held : SUBSET Keys]

(* Every variable has its type, redirects and bytes stay within what the   *)
(* grant and the proxy allow, and only a request that reserves, streams or *)
(* releases holds keys.                                                    *)
ProxyTypeOK ==
    /\ online \subseteq Nodes
    /\ issued \subseteq Grants /\ shared \subseteq issued
    /\ expired \subseteq issued /\ saved \subseteq issued
    /\ memory \in [Nodes -> SUBSET issued]
    /\ count \in [Stores -> [Keys -> Int]]
    /\ lapsed \in [Nodes -> SUBSET Keys]
    /\ lost \in [Stores -> [Keys -> Nat]]
    /\ gauge \in [Nodes -> Nat] /\ unbilled \in [Nodes -> Int]
    /\ request \in [Media -> RequestType]
    /\ \A q \in Media : request[q].held # {} =>
          request[q].pc \in {"reserve", "check", "open", "release", "erase"}

Open(n) == {q \in Media : At(q) = n /\ request[q].pc = "open"}
KeysOf(q) == {IpOf[q], Everyone} \cup ({UserOf[q]} \ {"none"})
OpenIn(s, k) == {q \in Media : /\ request[q].pc = "open" /\ k \in KeysOf(q)
                               /\ Store(At(q)) = s}
Reserved(s, k) == {q \in Media : k \in request[q].held /\ Store(At(q)) = s}

(* A replica that counts in its own memory never has more streams open     *)
(* under a key than the key's cap, however acquires, rejections and        *)
(* releases interleave, as long as no counter has reached its TTL.         *)
MemoryCapHolds ==
    tally.lapses = 0 =>
        \A n \in Nodes \ online, k \in Keys :
            Capped(k) => Cardinality(OpenIn(n, k)) <= Cap(k)

(* The same for the counters all replicas share: "Caps concurrent proxied  *)
(* playback streams", capacity/streams.ts:4.                               *)
SharedCapHolds ==
    tally.lapses = 0 /\ tally.failures = 0 =>
        \A k \in Keys : Capped(k) => Cardinality(OpenIn("redis", k)) <= Cap(k)

(* No counter stays above what is really reserved, but for what crashes    *)
(* and failed commands lost: a slot never leaks.  The gauge is exact, and  *)
(* every byte of a response that is over has been accounted for, once.     *)
Unbilled(n) == {u \in Open(n) \X (1..MaxStreamBytes) : u[2] <= request[u[1]].bytes}

AccountsExact ==
    /\ \A s \in Stores, k \in Keys : count[s][k] <= Cardinality(Reserved(s, k)) + lost[s][k]
    /\ \A n \in Nodes : /\ gauge[n] = Cardinality(Open(n))
                        /\ unbilled[n] = Cardinality(Unbilled(n))

(* However many manifests are rewritten at a time, no replica holds more   *)
(* grants than its limit.                                                  *)
GrantsBounded == \A n \in Nodes : Cardinality(memory[n]) <= MaxActive

(* A grant that Redis accepted is found by every replica that is connected *)
(* until it expires, whatever replica crashes: a request is turned away at *)
(* its lookup only if the command fails.                                   *)
LookupFinds ==
    [][\A q \in Media :
          /\ request[q].pc = "lookup" /\ request'[q].pc = "over"
          /\ At(q) \in online /\ request[q].grant \in saved
          => request[q].grant \in expired \/ tally'.failures > tally.failures]_proxyVars

==============================================================================
