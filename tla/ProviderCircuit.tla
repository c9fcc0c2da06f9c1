--------------------------- MODULE ProviderCircuit ---------------------------
(***************************************************************************)
(* One provider under concurrent requests: its circuit breaker with the    *)
(* half-open trial, its quarantine and its concurrency gate                *)
(* (ReliabilityRegistry in src/reliability/circuit.ts), as                 *)
(* StremioAddonProvider.resolve drives them (src/stremio/addonProvider.ts).*)
(*                                                                         *)
(* A request tries its candidate ids one after the other.  An action is    *)
(* what runs between two awaits, releases included.  Clocks are kept as    *)
(* what they decide: whether the open circuit's cool-down is over, and     *)
(* whether an opening is still in the rolling window.  The half-open       *)
(* success threshold is its default, 1, which nothing overrides.           *)
(*                                                                         *)
(* Left out: the daily budget and the negative cache, which only make a    *)
(* request try fewer ids, and the host gate, twice as wide as the gate of  *)
(* the one provider here.                                                  *)
(***************************************************************************)
EXTENDS Integers, FiniteSets, SequencesExt

CONSTANTS
    Calls,              \* requests in flight at once
    Ids,                \* candidate ids of a request
    Limit,              \* concurrencyLimit: requests inside the gate
    SupportsSubtitles,  \* the manifest has the subtitles resource
    FailureThreshold,   \* failures that open a closed circuit
    MaxFailures,        \* bound: failures are counted up to it
    OpenThreshold,      \* openings in the window that quarantine
    MaxAborts,          \* bound: requests aborted by their callers
    MaxForeign          \* bound: requests with no id the provider knows

ASSUME CircuitAssumption ==
    /\ IsFiniteSet(Calls)
    /\ Ids \in Nat \ {0} /\ Limit \in Nat \ {0}
    /\ SupportsSubtitles \in BOOLEAN
    /\ FailureThreshold \in Nat \ {0} /\ OpenThreshold \in Nat \ {0}
    /\ MaxFailures \in Nat /\ MaxFailures >= FailureThreshold
    /\ MaxAborts \in Nat /\ MaxForeign \in Nat

VARIABLES
    circuit,  \* the breaker and the quarantine of the provider
    gate,     \* its semaphore: count and queue
    call,     \* what each request does, and with which candidate id
    up,       \* a fetch would answer with streams (external)
    aborts,   \* requests aborted so far
    foreign   \* requests without a known id so far

vars == <<circuit, gate, call, up, aborts, foreign>>

(* `cooled`: openTtlMs passed since openedAt.  `failures` passes its       *)
(* threshold by "no results", which open nothing; `opens` are those in the *)
(* window, counted up to their threshold.                                  *)
Circuits == [state : {"closed", "open", "half-open"}, cooled : BOOLEAN,
             failures : 0..MaxFailures, probing : BOOLEAN,
             opens : 0..OpenThreshold, quarantined : BOOLEAN]

Holding == {"fetching", "mapping", "subtitles"}

Idle == [pc |-> "idle", id |-> 0]

Init ==
    /\ circuit = [state |-> "closed", cooled |-> FALSE, failures |-> 0,
                  probing |-> FALSE, opens |-> 0, quarantined |-> FALSE]
    /\ gate = [count |-> 0, queue |-> <<>>]
    /\ call = [c \in Calls |-> Idle]
    /\ up \in BOOLEAN
    /\ aborts = 0 /\ foreign = 0

UpTo(n, max) == IF n < max THEN n + 1 ELSE n
----------------------------------------------------------------------------
(* What the registry's methods make of a circuit.                          *)

(* getState(): reading an open circuit whose cool-down is over opens it    *)
(* half.                                                                   *)
StateNow(ct) ==
    IF ct.state = "open" /\ ct.cooled
    THEN [ct EXCEPT !.state = "half-open"] ELSE ct

(* isProbeAllowed(), asked of a circuit that is not open; it takes the one *)
(* trial of a half-open circuit.                                           *)
ProbeAllowed(ct) == ct.state = "closed" \/ ~ ct.probing
Probed(ct) == [ct EXCEPT !.probing = @ \/ ct.state = "half-open"]

(* The circuit opens, and noteCircuitOpened() counts the opening.          *)
Opened(ct) ==
    LET n == UpTo(ct.opens, OpenThreshold)
    IN [ct EXCEPT !.state = "open", !.cooled = FALSE, !.opens = n,
                  !.quarantined = @ \/ n = OpenThreshold]

(* BUG: a failed trial is not given back.                                  *)
FailedKeepsProbe(ct, noResult) ==
    LET counted == [ct EXCEPT !.failures = UpTo(@, MaxFailures)]
        trips   == /\ ct.state = "closed" /\ ~ noResult
                   /\ counted.failures >= FailureThreshold
    IN IF trips \/ ct.state = "half-open" THEN Opened(counted) ELSE counted

(* recordFailure().  A "no result" counts, but opens no closed circuit.    *)
Failed(ct, noResult) ==
    LET counted == [ct EXCEPT !.failures = UpTo(@, MaxFailures),
                              !.probing  = @ /\ ct.state # "half-open"]
        trips   == /\ ct.state = "closed" /\ ~ noResult
                   /\ counted.failures >= FailureThreshold
    IN IF trips \/ ct.state = "half-open" THEN Opened(counted) ELSE counted

(* BUG: the decay of the failures has no floor.                            *)
SucceededNoFloor(ct) ==
    CASE ct.state = "half-open" ->
           [ct EXCEPT !.state = "closed", !.failures = 0, !.probing = FALSE]
      [] ct.state = "closed" -> [ct EXCEPT !.failures = @ - 1]
      [] OTHER -> ct

(* BUG: a success is only told to a circuit that is closed.                *)
SucceededOnlyClosed(ct) ==
    IF ct.state = "closed" /\ ct.failures > 0
    THEN [ct EXCEPT !.failures = @ - 1] ELSE ct

(* recordSuccess().                                                        *)
Succeeded(ct) ==
    CASE ct.state = "half-open" ->
           [ct EXCEPT !.state = "closed", !.failures = 0, !.probing = FALSE]
      [] ct.state = "closed" /\ ct.failures > 0 -> [ct EXCEPT !.failures = @ - 1]
      [] OTHER -> ct
----------------------------------------------------------------------------
(* releaseSemaphore(): the slot goes to the head of the queue, if any.     *)

(* BUG: the waiter that is let in is not counted.                          *)
FreedUncounted(g) == [count |-> g.count - 1,
                      queue |-> IF g.queue = <<>> THEN <<>> ELSE Tail(g.queue)]

(* BUG: a slot is freed without a look at the queue.                       *)
FreedNoHandover(g) == [g EXCEPT !.count = @ - 1]

Freed(g) == IF g.queue = <<>> THEN [g EXCEPT !.count = @ - 1]
                              ELSE [g EXCEPT !.queue = Tail(@)]

LetIn(g, calls) == IF g.queue = <<>> THEN calls
                   ELSE [calls EXCEPT ![Head(g.queue)].pc = "fetching"]

(* acquire(): inside at once, or at the end of the queue.                  *)
Enters(c, k, g, calls) ==
    \/ /\ g.count < Limit
       /\ gate' = [g EXCEPT !.count = @ + 1]
       /\ call' = [calls EXCEPT ![c] = [pc |-> "fetching", id |-> k]]
    \/ /\ g.count >= Limit
       /\ gate' = [g EXCEPT !.queue = Append(@, c)]
       /\ call' = [calls EXCEPT ![c] = [pc |-> "queued", id |-> k]]

(* The loop of resolve() from candidate id k on.  While the trial is taken *)
(* every remaining id is skipped.  An open circuit skips none: only the    *)
(* first id is tried with the circuit known not to be open.                *)
TriesFrom(c, k, ct, g, calls) ==
    LET seen == StateNow(ct)
    IN \/ /\ k <= Ids /\ ProbeAllowed(seen)
          /\ circuit' = Probed(seen)
          /\ Enters(c, k, g, calls)
       \/ /\ k <= Ids /\ ~ ProbeAllowed(seen)
          /\ circuit' = seen /\ gate' = g /\ call' = [calls EXCEPT ![c] = Idle]
       \/ /\ k > Ids
          /\ circuit' = ct /\ gate' = g /\ call' = [calls EXCEPT ![c] = Idle]

(* The id is done with circuit ct: the finally block, then the next id.    *)
NextId(c, ct) ==
    /\ TriesFrom(c, call[c].id + 1, ct, Freed(gate), LetIn(gate, call))
    /\ UNCHANGED <<up, aborts, foreign>>
----------------------------------------------------------------------------
(* resolve() up to its first await.                                        *)
Request(c) ==
    /\ call[c] = Idle
    /\ StateNow(circuit).state # "open" /\ ~ circuit.quarantined
    /\ TriesFrom(c, 1, circuit, gate, call)
    /\ UNCHANGED <<up, aborts, foreign>>

(* A request none of whose ids the provider knows.                         *)
RequestForeign ==
    /\ foreign < MaxForeign
    /\ foreign' = foreign + 1
    /\ circuit' = Failed(circuit, TRUE)
    /\ UNCHANGED <<gate, call, up, aborts>>

(* The fetch, retried once by withRetry, answers with streams.             *)
FetchOk(c) ==
    /\ call[c].pc = "fetching" /\ up
    /\ circuit' = Succeeded(circuit)
    /\ call' = [call EXCEPT ![c].pc = "mapping"]
    /\ UNCHANGED <<gate, up, aborts, foreign>>

(* It answers without streams.                                             *)
FetchNone(c) ==
    /\ call[c].pc = "fetching" /\ ~ up
    /\ NextId(c, Failed(circuit, TRUE))

(* It throws, in the upstream or in the pool it shares with all providers. *)
FetchFail(c) ==
    /\ call[c].pc = "fetching" /\ ~ up
    /\ NextId(c, Failed(circuit, FALSE))

(* Normalizing the sources or resolving the torrents throws.               *)
MappingFails(c) ==
    /\ call[c].pc = "mapping" /\ ~ up
    /\ NextId(c, Failed(circuit, FALSE))

(* The id has playable sources, and the request returns; or it has none.   *)
Ends(c, ct) ==
    \/ /\ circuit' = ct
       /\ gate' = Freed(gate)
       /\ call' = [LetIn(gate, call) EXCEPT ![c] = Idle]
       /\ UNCHANGED <<up, aborts, foreign>>
    \/ NextId(c, ct)

(* BUG: collectSubtitles() acquires the gate it is already in.             *)
FetchSubtitlesReacquires(c) ==
    LET seen == StateNow(circuit)
    IN /\ call[c].pc = "mapping"
       /\ SupportsSubtitles /\ seen.state # "open" /\ ProbeAllowed(seen)
       /\ circuit' = Probed(seen)
       /\ Enters(c, call[c].id, gate, call)
       /\ UNCHANGED <<up, aborts, foreign>>

(* collectSubtitles() in the slot of the request: the circuit is asked     *)
(* again, and a half-open one gives a trial.                               *)
FetchSubtitles(c) ==
    LET seen == StateNow(circuit)
    IN /\ call[c].pc = "mapping"
       /\ SupportsSubtitles /\ seen.state # "open" /\ ProbeAllowed(seen)
       /\ circuit' = Probed(seen)
       /\ call' = [call EXCEPT ![c].pc = "subtitles"]
       /\ UNCHANGED <<gate, up, aborts, foreign>>

SkipSubtitles(c) ==
    LET seen == IF SupportsSubtitles THEN StateNow(circuit) ELSE circuit
    IN /\ call[c].pc = "mapping"
       /\ ~ SupportsSubtitles \/ seen.state = "open" \/ ~ ProbeAllowed(seen)
       /\ Ends(c, seen)

SubtitlesOk(c) ==
    /\ call[c].pc = "subtitles" /\ up
    /\ Ends(c, Succeeded(circuit))

(* BUG: best-effort subtitles leave no trace of their failure.             *)
SubtitlesFailUnrecorded(c) ==
    /\ call[c].pc = "subtitles" /\ ~ up
    /\ Ends(c, circuit)

SubtitlesFail(c) ==
    /\ call[c].pc = "subtitles" /\ ~ up
    /\ Ends(c, Failed(circuit, FALSE))

(* The caller aborts, or its deadline passes: nothing is recorded (but for *)
(* subtitles cut by a deadline, which count as failed), and the slot or    *)
(* the place in the queue is given up.  A trial is not.                    *)
Abort(c) ==
    /\ aborts < MaxAborts /\ call[c] # Idle
    /\ aborts' = aborts + 1
    /\ \/ /\ call[c].pc = "queued"
          /\ \E i \in DOMAIN gate.queue :
                gate.queue[i] = c /\ gate' = [gate EXCEPT !.queue = RemoveAt(@, i)]
          /\ call' = [call EXCEPT ![c] = Idle]
          /\ UNCHANGED circuit
       \/ /\ call[c].pc \in Holding
          /\ gate' = Freed(gate)
          /\ call' = [LetIn(gate, call) EXCEPT ![c] = Idle]
          /\ \/ UNCHANGED circuit
             \/ /\ call[c].pc = "subtitles"
                /\ circuit' = Failed(circuit, FALSE)
    /\ UNCHANGED <<up, foreign>>
----------------------------------------------------------------------------
(* Time, and readers of the registry.                                      *)
CoolDown ==
    /\ circuit.state = "open" /\ ~ circuit.cooled
    /\ circuit' = [circuit EXCEPT !.cooled = TRUE]
    /\ UNCHANGED <<gate, call, up, aborts, foreign>>

(* Metrics and the addon list read the state of any provider.              *)
Observe ==
    /\ circuit' = StateNow(circuit)
    /\ UNCHANGED <<gate, call, up, aborts, foreign>>

WindowPasses ==
    /\ circuit.opens > 0
    /\ circuit' = [circuit EXCEPT !.opens = @ - 1]
    /\ UNCHANGED <<gate, call, up, aborts, foreign>>

(* releaseQuarantine(), or the time to live of the record.                 *)
QuarantineEnds ==
    /\ circuit.quarantined
    /\ circuit' = [circuit EXCEPT !.quarantined = FALSE, !.opens = 0]
    /\ UNCHANGED <<gate, call, up, aborts, foreign>>

Upstream ==
    /\ up' = ~ up
    /\ UNCHANGED <<circuit, gate, call, aborts, foreign>>

FetchEnds(c) == FetchOk(c) \/ FetchNone(c) \/ FetchFail(c)
Map(c) == FetchSubtitles(c) \/ SkipSubtitles(c) \/ MappingFails(c)
Subtitles(c) == SubtitlesOk(c) \/ SubtitlesFail(c)

Next ==
    \/ \E c \in Calls : Request(c) \/ FetchEnds(c) \/ Map(c) \/ Subtitles(c) \/ Abort(c)
    \/ RequestForeign \/ CoolDown \/ Observe \/ WindowPasses \/ QuarantineEnds
    \/ Upstream

(* Every fetch has a timeout and every timer fires.  That requests keep    *)
(* coming is demand, not scheduling: a circuit closes only in a trial.     *)
Fairness ==
    /\ \A c \in Calls : /\ WF_vars(Request(c)) /\ WF_vars(FetchEnds(c))
                        /\ WF_vars(Map(c)) /\ WF_vars(Subtitles(c))
    /\ WF_vars(CoolDown) /\ WF_vars(QuarantineEnds)

Spec == Init /\ [][Next]_vars
FairSpec == Spec /\ Fairness
----------------------------------------------------------------------------
(* Every variable has its type.                                            *)
TypeOK ==
    /\ circuit \in Circuits
    /\ gate.count \in 0..Limit
    /\ gate.queue \in Seq(Calls)
    /\ call \in [Calls -> [pc : {"idle", "queued"} \cup Holding, id : 0..Ids]]
    /\ up \in BOOLEAN
    /\ aborts \in 0..MaxAborts /\ foreign \in 0..MaxForeign

InGate == {c \in Calls : call[c].pc \in Holding}
InQueue == {c \in Calls : call[c].pc = "queued"}

(* The counter acquire() tests is the number of requests inside the gate,  *)
(* and the queue holds each waiting request once, through failures, aborts *)
(* and slots handed from one request to the next; no request waits while a *)
(* slot is free, since the releases, one per id and not per request, all   *)
(* pass the slot on.                                                       *)
SlotsExact ==
    /\ gate.count = Cardinality(InGate)
    /\ Len(gate.queue) = Cardinality(InQueue)
    /\ {gate.queue[i] : i \in DOMAIN gate.queue} = InQueue
    /\ gate.queue # <<>> => gate.count = Limit

(* The trial token exists only while the circuit is half-open: whatever    *)
(* late answer closes or reopens the circuit also gives the token back.    *)
ProbeOnlyHalfOpen == circuit.probing => circuit.state = "half-open"

(* Unless a caller aborted, the token is never orphaned: some request that *)
(* is still in flight will record an outcome and give it back.             *)
TrialHasRequest ==
    circuit.probing /\ aborts = 0 => \E c \in Calls : call[c] # Idle

(* Every request returns: resolve() takes its slots in an order that       *)
(* cannot deadlock, the subtitles being fetched inside the slot it has.    *)
RequestEnds == \A c \in Calls : call[c] # Idle ~> call[c] = Idle

(* Once the upstream answers for good, the circuit of a provider that is   *)
(* asked keeps closing, provided no caller ever aborted.                   *)
CircuitRecoversUnaborted ==
    <>[]up /\ [](aborts = 0) => []<>(circuit.state = "closed")

(* The same, with callers that may abort.                                  *)
CircuitRecovers == <>[]up => []<>(circuit.state = "closed")
=============================================================================
