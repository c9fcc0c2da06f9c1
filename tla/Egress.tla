-------------------------------- MODULE Egress --------------------------------
(***************************************************************************)
(* Outbound fetches: the redirect chain of src/security/secureFetch.ts,    *)
(* the URL policy it applies to each hop, the per-host slot and the timer  *)
(* of src/egress/scrapeFetch.ts, and the pruned table of host pools of     *)
(* src/concurrency/coordinator.ts.  The slot is held until the headers are *)
(* there; the body is read after its release and after the timer's.        *)
(***************************************************************************)
EXTENDS Integers, FiniteSets, Sequences, SequencesExt

CONSTANTS
    Fetches,        \* concurrent calls of secureFetch
    Hostnames,      \* hosts they may reach
    Addresses,      \* what the hosts may resolve to
    Blocked,        \* addresses in the ranges of classifyBlockedIp
    PerHost,        \* cfg.concurrency.outboundHost
    QueueMax,       \* cfg.concurrency.queueMax
    MaxTracked,     \* MAX_TRACKED_HOSTS
    MaxHops,   \* maxRedirects
    FetchBudget,    \* timeoutMs, in ticks
    MaxFetchClock,  \* bound: ticks
    MaxDnsChanges   \* bound: changes of what the hosts resolve to

ASSUME EgressAssumption ==
    /\ IsFiniteSet(Fetches) /\ Blocked \subseteq Addresses
    /\ PerHost \in Nat \ {0} /\ MaxTracked \in Nat \ {0}
    /\ QueueMax \in Nat /\ MaxHops \in Nat /\ FetchBudget \in Nat

VARIABLES
    fetch,     \* each call: stage, host, hops, deadline, timer, checked, connected
    dns,       \* what each host resolves to now
    hostPools, \* hosts with a pool: holders of slots and queue of waiters
    hostAccess,\* hosts with a pool: when it was last asked for
    fetchClock, dnsChanges

egressVars == <<fetch, dns, hostPools, hostAccess, fetchClock, dnsChanges>>

NoFetch == [stage |-> "idle", host |-> "", hops |-> 0, deadline |-> 0, remaining |-> 0,
            timer |-> 0, checked |-> "", connected |-> ""]

EgressInit ==
    /\ fetch = [f \in Fetches |-> NoFetch]
    /\ dns \in [Hostnames -> Addresses \ Blocked]
    /\ hostPools = [h \in {} |-> 0] /\ hostAccess = [h \in {} |-> 0]
    /\ fetchClock = 0 /\ dnsChanges = 0
----------------------------------------------------------------------------
(* The table of pools.                                                     *)
EmptyPool == [held |-> {}, queue |-> <<>>]
Tracked == DOMAIN hostPools
TableWith(table, gone, h, entry) ==
    [g \in (DOMAIN table \ gone) \cup {h} |-> IF g = h THEN entry ELSE table[g]]

(* The older half of the table, the order of equal times being left open.  *)
OlderHalves ==
    {old \in SUBSET Tracked :
        /\ Cardinality(old) = MaxTracked \div 2
        /\ \A o \in old, n \in Tracked \ old : hostAccess[o] <= hostAccess[n]}

(* BUG: busy pools go as well.                                             *)
PrunedBusy == OlderHalves

(* pruneIdleHostPools(): what it may delete.                               *)
Pruned == {{o \in old : hostPools[o] = EmptyPool} : old \in OlderHalves}

(* hostPool(): the pools it may delete when it makes one for h.            *)
Displaced(h) == IF h \in Tracked \/ Cardinality(Tracked) < MaxTracked THEN {{}} ELSE Pruned
PoolsWith(h, gone) == IF h \in Tracked THEN hostPools
                      ELSE TableWith(hostPools, gone, h, EmptyPool)
----------------------------------------------------------------------------
FetchAt(f, stage) == fetch[f].stage = stage
Ended == [NoFetch EXCEPT !.stage = "done"]
FetchBecomes(f, r) == fetch' = [fetch EXCEPT ![f] = r]
PoolsKeep == UNCHANGED <<hostPools, hostAccess>>
WorldKeeps == UNCHANGED <<dns, dnsChanges, fetchClock>>

SecureFetch(f) ==
    /\ FetchAt(f, "idle")
    /\ \E h \in Hostnames :
          FetchBecomes(f, [NoFetch EXCEPT !.stage = "hop", !.host = h,
                                          !.deadline = fetchClock + FetchBudget])
    /\ PoolsKeep /\ WorldKeeps

(* The top of the loop: what is left of the budget, or TIMEOUT.            *)
BeginHop(f) ==
    /\ FetchAt(f, "hop")
    /\ FetchBecomes(f, IF fetchClock >= fetch[f].deadline THEN Ended
                       ELSE [fetch[f] EXCEPT !.stage = "lookup",
                                             !.remaining = fetch[f].deadline - fetchClock])
    /\ PoolsKeep /\ WorldKeeps

(* validateOutboundUrl() refuses the URL, an address or a failed lookup.   *)
Refused(f) ==
    /\ FetchAt(f, "lookup") /\ FetchBecomes(f, Ended)
    /\ PoolsKeep /\ WorldKeeps

(* BUG: the name is looked up again for the connection.                    *)
ConnectedAnew(r) == [r EXCEPT !.stage = "headers", !.connected = dns[r.host],
                              !.timer = fetchClock + r.remaining]

(* doFetch(): the dispatcher connects to the pinned address, the timer is  *)
(* set with what remained when the hop began.                              *)
Connected(r) == [r EXCEPT !.stage = "headers", !.connected = r.checked,
                          !.timer = fetchClock + r.remaining]

(* The URL is allowed and its first address pinned; in the same turn the   *)
(* host's pool gives a slot, queues the caller or is full.                 *)
Validated(f) ==
    LET h == fetch[f].host
        r == [fetch[f] EXCEPT !.checked = dns[h]]
    IN  /\ FetchAt(f, "lookup") /\ dns[h] \notin Blocked
        /\ \E gone \in Displaced(h) :
              LET pools == PoolsWith(h, gone)
                  free == Cardinality(pools[h].held) < PerHost /\ pools[h].queue = <<>>
                  full == ~free /\ Len(pools[h].queue) >= QueueMax
              IN  /\ hostAccess' = TableWith(hostAccess, gone, h, fetchClock)
                  /\ hostPools' = IF free THEN [pools EXCEPT ![h].held = @ \cup {f}]
                                  ELSE IF full THEN pools
                                  ELSE [pools EXCEPT ![h].queue = Append(@, f)]
                  /\ FetchBecomes(f, IF free THEN Connected(r) ELSE IF full THEN Ended
                                     ELSE [r EXCEPT !.stage = "queued"])
        /\ WorldKeeps

(* withHostSlot gives the slot back, to the head of the queue if any; the  *)
(* pool of a caller that was forgotten meanwhile is nobody's.              *)
LeaveHost(f, r) ==
    LET h == fetch[f].host
        q == hostPools[h].queue
    IN  IF h \notin Tracked \/ f \notin hostPools[h].held
        THEN FetchBecomes(f, r) /\ UNCHANGED hostPools
        ELSE IF q = <<>>
        THEN FetchBecomes(f, r) /\ hostPools' = [hostPools EXCEPT ![h].held = @ \ {f}]
        ELSE /\ fetch' = [fetch EXCEPT ![f] = r, ![Head(q)] = Connected(@)]
             /\ hostPools' = [hostPools EXCEPT ![h].held = (@ \ {f}) \cup {Head(q)},
                                               ![h].queue = Tail(@)]

(* The queue timeout of the pool: the caller is spliced out of the queue.  *)
WithoutFetch(q, f) ==
    IF \E i \in DOMAIN q : q[i] = f THEN RemoveAt(q, CHOOSE i \in DOMAIN q : q[i] = f) ELSE q

QueueTimesOut(f) ==
    LET h == fetch[f].host IN
    /\ FetchAt(f, "queued") /\ FetchBecomes(f, Ended)
    /\ hostPools' = IF h \in Tracked
                    THEN [hostPools EXCEPT ![h].queue = WithoutFetch(@, f)]
                    ELSE hostPools
    /\ UNCHANGED hostAccess /\ WorldKeeps

(* The upstream's headers: a redirect, a body to read, or a refusal of     *)
(* their type or declared length.                                          *)
Redirected(f) ==
    /\ FetchAt(f, "headers")
    /\ \E h \in Hostnames :
          LeaveHost(f, IF fetch[f].hops = MaxHops THEN Ended
                   ELSE [fetch[f] EXCEPT !.stage = "hop", !.host = h, !.hops = @ + 1])
    /\ UNCHANGED hostAccess /\ WorldKeeps

HeadersCome(f) ==
    /\ FetchAt(f, "headers")
    /\ \E r \in {Ended, [fetch[f] EXCEPT !.stage = "body"]} : LeaveHost(f, r)
    /\ UNCHANGED hostAccess /\ WorldKeeps

(* The connection fails, or doFetch's timer aborts it.                     *)
FetchBreaks(f) ==
    /\ FetchAt(f, "headers") /\ LeaveHost(f, Ended)
    /\ UNCHANGED hostAccess /\ WorldKeeps

(* readBodyLimited(): the end of the body, or more bytes than the limit.   *)
BodyEnds(f) ==
    /\ FetchAt(f, "body") /\ FetchBecomes(f, Ended)
    /\ PoolsKeep /\ WorldKeeps

(* Timers fire when they are due.                                          *)
FetchClockTicks ==
    /\ fetchClock < MaxFetchClock
    /\ \A f \in Fetches : FetchAt(f, "headers") => fetchClock < fetch[f].timer
    /\ fetchClock' = fetchClock + 1
    /\ UNCHANGED <<fetch, dns, dnsChanges>> /\ PoolsKeep

DnsChanges ==
    /\ dnsChanges < MaxDnsChanges /\ dnsChanges' = dnsChanges + 1
    /\ \E h \in Hostnames, a \in Addresses : dns' = [dns EXCEPT ![h] = a]
    /\ UNCHANGED <<fetch, fetchClock>> /\ PoolsKeep

EgressNext ==
    \/ \E f \in Fetches :
          \/ SecureFetch(f) \/ BeginHop(f) \/ Refused(f) \/ Validated(f) \/ QueueTimesOut(f)
          \/ Redirected(f) \/ HeadersCome(f) \/ FetchBreaks(f) \/ BodyEnds(f)
    \/ FetchClockTicks \/ DnsChanges

EgressSpec == EgressInit /\ [][EgressNext]_egressVars
----------------------------------------------------------------------------
EgressTypeOK ==
    /\ \A f \in Fetches :
          /\ fetch[f].stage \in {"idle", "hop", "lookup", "queued", "headers", "body", "done"}
          /\ fetch[f].hops \in 0..MaxHops
    /\ Tracked \subseteq Hostnames /\ DOMAIN hostAccess = Tracked
    /\ \A h \in Tracked : hostPools[h].held \subseteq Fetches
                            /\ Len(hostPools[h].queue) <= QueueMax

(* Whatever is pruned while others wait or run, at most PerHost requests   *)
(* are with a host, each of them and no other holds a slot of the pool     *)
(* that new callers find, and nobody waits in a pool that has room.        *)
HostCapExact ==
    \A h \in Hostnames :
        LET with == {f \in Fetches : FetchAt(f, "headers") /\ fetch[f].host = h}
            waiting == {f \in Fetches : FetchAt(f, "queued") /\ fetch[f].host = h}
        IN  /\ Cardinality(with) <= PerHost
            /\ IF h \in Tracked
               THEN /\ hostPools[h].held = with
                    /\ Range(hostPools[h].queue) = waiting
                    /\ waiting # {} => Cardinality(with) = PerHost
               ELSE with = {} /\ waiting = {}

(* A request goes to an address that the policy has seen for this host at  *)
(* this hop, however the names change while it waits for its slot.         *)
HopsChecked ==
    \A f \in Fetches : FetchAt(f, "headers") => fetch[f].connected \notin Blocked

(* "Overall wall-clock budget for the whole redirect chain."               *)
WithinBudget ==
    \A f \in Fetches : fetch[f].stage \in {"headers", "body"} => fetchClock <= fetch[f].deadline
=============================================================================
