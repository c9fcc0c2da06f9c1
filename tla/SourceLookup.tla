----------------------------- MODULE SourceLookup -----------------------------
(***************************************************************************)
(* Stream look-ups: the bulk aggregate of src/server.ts over the providers *)
(* src/providers/selection.ts picks, its fast-first variant, and the       *)
(* progressive scrape of one provider (src/progressiveScrape.ts); the      *)
(* normalization, deduplication and ranking of what they return.           *)
(*                                                                         *)
(* Deadlines are events: they pass at any moment.  The order in which a    *)
(* pool serves its waiters is WeightedSemaphore's, here any that fits.     *)
(***************************************************************************)
EXTENDS Integers, FiniteSets, Sequences, SequencesExt

CONSTANTS
    BulkLookups, FastLookups, ProgressiveLookups,
    ByPriority,     \* the stream providers, in the order of the waterfall
    StreamUrls,     \* the addresses behind streams, headers included
    StreamsOf,      \* provider -> its streams, each [up, score]
    Refusable,      \* upstreams whose probe or grant may fail
    MaxProvidersPerRequest,  \* cfg.bulkMaxProvidersPerRequest, 0 for no limit
    Wave, FastWave, \* providers asked at once: 4, and 2 in fast-first mode
    WeightPer,      \* 4: providers per unit of weight in the bulk pool
    FastTarget,     \* sources after which fast-first stops
    BulkLimit,      \* cfg.concurrency of the bulk pool
    ProgressiveLimit,
    Ranking,        \* cfg.sourceRankingEnabled
    MaxStandings    \* bound: changes of a provider's standing

Lookups == BulkLookups \cup FastLookups \cup ProgressiveLookups
Asked == {ByPriority[i] : i \in DOMAIN ByPriority}
Streams == [up : StreamUrls, score : Int]

ASSUME LookupAssumption ==
    /\ BulkLookups \cap FastLookups = {} /\ BulkLookups \cap ProgressiveLookups = {}
    /\ FastLookups \cap ProgressiveLookups = {}
    /\ ByPriority \in Seq(Asked) /\ IsInjective(ByPriority)
    /\ StreamsOf \in [Asked -> Seq(Streams)]
    /\ MaxProvidersPerRequest \in Nat /\ FastTarget \in Nat
    /\ Wave \in Nat \ {0} /\ FastWave \in Nat \ {0} /\ WeightPer \in Nat \ {0}

VARIABLES
    standing,   \* provider -> "selected", "filtered" (circuit, budget, health) or "gone"
    lookup,     \* each look-up: stage, picked providers, next one to ask
    outcome,    \* look-up -> provider -> "unasked", "asking", "ok", "failed"
    sources,    \* look-up -> provider -> the sources it returned
    answer,     \* look-up -> the sources sent, [provider, up, score]
    lateAsks,   \* history: look-ups that asked a provider after their deadline
    standings

lookupVars == <<standing, lookup, outcome, sources, answer, lateAsks, standings>>

LookupInit ==
    /\ standing = [p \in Asked |-> "selected"]
    /\ lookup = [r \in Lookups |-> [stage |-> "idle", picked |-> <<>>, next |-> 1, over |-> FALSE]]
    /\ outcome = [r \in Lookups |-> [p \in Asked |-> "unasked"]]
    /\ sources = [r \in Lookups |-> [p \in Asked |-> <<>>]]
    /\ answer = [r \in Lookups |-> <<>>]
    /\ lateAsks = {} /\ standings = 0
----------------------------------------------------------------------------
(* Selection and pools.                                                    *)
Selected == FlattenSeq([i \in DOMAIN ByPriority |->
                IF standing[ByPriority[i]] = "selected" THEN <<ByPriority[i]>> ELSE <<>>])

PickedFor(r) ==
    IF r \in BulkLookups /\ MaxProvidersPerRequest > 0 /\ Len(Selected) > MaxProvidersPerRequest
    THEN SubSeq(Selected, 1, MaxProvidersPerRequest) ELSE Selected

Weight(r) ==
    LET w == (Len(lookup[r].picked) + WeightPer - 1) \div WeightPer
    IN  IF w < 1 THEN 1 ELSE IF w > BulkLimit THEN BulkLimit ELSE w

HoldsSlot(r) == lookup[r].stage = "running"
BulkLoad == FoldLeft(LAMBDA n, r : n + Weight(r), 0,
                     SetToSeq({r \in BulkLookups : HoldsSlot(r)}))

Fits(r) ==
    CASE r \in BulkLookups -> BulkLoad + Weight(r) <= BulkLimit
      [] r \in FastLookups -> TRUE
      [] OTHER -> Cardinality({q \in ProgressiveLookups : HoldsSlot(q)}) < ProgressiveLimit

(* The standing of a provider changes: circuit, quarantine, budget, health *)
(* or removal.                                                             *)
StandingChanges(p, to) ==
    /\ standings < MaxStandings /\ standing[p] # to
    /\ standings' = standings + 1
    /\ standing' = [standing EXCEPT ![p] = to]
    /\ UNCHANGED <<lookup, outcome, sources, answer, lateAsks>>

(* The abort timer of a bulk look-up, the caller's signal of a fast-first  *)
(* one, the absolute deadline of a progressive one.                        *)
DeadlinePasses(r) ==
    /\ ~lookup[r].over
    /\ IF r \in BulkLookups THEN HoldsSlot(r) ELSE lookup[r].stage \in {"waiting", "running"}
    /\ lookup' = [lookup EXCEPT ![r].over = TRUE]
    /\ UNCHANGED <<standing, outcome, sources, answer, lateAsks, standings>>
----------------------------------------------------------------------------
(* Normalization of one provider's streams: the first of an upstream is    *)
(* kept, and its key stays taken also when the probe or the grant fails.   *)
Ups(list) == {list[i].up : i \in DOMAIN list}
FirstOfEach(list) == {i \in DOMAIN list : \A j \in 1..(i - 1) : list[j].up # list[i].up}

Normalized(p, refused) ==
    LET list == StreamsOf[p] IN
    FlattenSeq([i \in DOMAIN list |->
        IF i \in FirstOfEach(list) /\ list[i].up \notin refused
        THEN <<[provider |-> p, up |-> list[i].up, score |-> list[i].score]>> ELSE <<>>])

(* rankSources(): by score, and by the place in the list among equals; a   *)
(* source goes in front of those of a smaller score.                       *)
Placed(ranked, x) ==
    LET n == CHOOSE n \in 0..Len(ranked) :
                \A i \in DOMAIN ranked : i <= n <=> ranked[i].score >= x.score
    IN  InsertAt(ranked, n + 1, x)

RankedByScore(list) ==
    LET upTo[n \in 0..Len(list)] == IF n = 0 THEN <<>> ELSE Placed(upTo[n - 1], list[n])
    IN  upTo[Len(list)]

(* The sources of the first n providers, fetchFromProvidersBounded's       *)
(* results in the order of the providers, and buildResponse() of all.      *)
FromFirst(r, n) == FlattenSeq([i \in 1..n |-> sources[r][lookup[r].picked[i]]])

BuiltFor(r) ==
    LET flat == FromFirst(r, Len(lookup[r].picked))
    IN  IF Ranking /\ r \in BulkLookups THEN RankedByScore(flat) ELSE flat
----------------------------------------------------------------------------
(* The requests.                                                           *)
AskSources(r) ==
    /\ lookup[r].stage = "idle" /\ r \notin ProgressiveLookups
    /\ lookup' = [lookup EXCEPT ![r].stage = IF PickedFor(r) = <<>> THEN "done" ELSE "waiting",
                                ![r].picked = PickedFor(r)]
    /\ UNCHANGED <<standing, outcome, sources, answer, lateAsks, standings>>

(* scrapeSingleProvider(): the registry is asked before the pool.          *)
AskProvider(r, p) ==
    /\ lookup[r].stage = "idle" /\ r \in ProgressiveLookups
    /\ lookup' = [lookup EXCEPT ![r].stage = IF standing[p] = "gone" THEN "done" ELSE "waiting",
                                ![r].picked = <<p>>]
    /\ UNCHANGED <<standing, outcome, sources, answer, lateAsks, standings>>

GetSlot(r) ==
    /\ lookup[r].stage = "waiting" /\ Fits(r)
    /\ lookup' = [lookup EXCEPT ![r].stage = "running"]
    /\ UNCHANGED <<standing, outcome, sources, answer, lateAsks, standings>>

NoSlot(r) ==
    /\ lookup[r].stage = "waiting" /\ r \notin FastLookups
    /\ lookup' = [lookup EXCEPT ![r].stage = "done"]
    /\ UNCHANGED <<standing, outcome, sources, answer, lateAsks, standings>>

WaveOf(r) == IF r \in FastLookups THEN FastWave ELSE Wave
Batch(r) == LET last == lookup[r].next + WaveOf(r) - 1 IN
    {lookup[r].picked[i] : i \in lookup[r].next..(IF last < Len(lookup[r].picked) THEN last
                                                 ELSE Len(lookup[r].picked))}
Waiting(r) == {p \in Asked : outcome[r][p] = "asking"}
Found(r) == Len(FromFirst(r, Len(lookup[r].picked)))

(* BUG: a last batch of one provider is not asked.                         *)
MoreToAskTwo(r) ==
    /\ lookup[r].next < Len(lookup[r].picked)
    /\ ~lookup[r].over
    /\ r \in FastLookups => Found(r) < FastTarget

(* The loops of the aggregates stop at an abort; fast-first also once it   *)
(* has enough.                                                             *)
MoreToAsk(r) ==
    /\ lookup[r].next <= Len(lookup[r].picked)
    /\ ~lookup[r].over
    /\ r \in FastLookups => Found(r) < FastTarget

AskBatch(r, batch) ==
    /\ outcome' = [outcome EXCEPT ![r] = [p \in Asked |->
                      IF p \notin batch THEN @[p]
                      ELSE IF standing[p] = "gone" THEN "failed" ELSE "asking"]]
    /\ lookup' = [lookup EXCEPT ![r].next = @ + Cardinality(batch)]
    /\ lateAsks' = IF lookup[r].over THEN lateAsks \cup {r} ELSE lateAsks
    /\ UNCHANGED <<standing, sources, answer, standings>>

(* The next batch of an aggregate.                                         *)
AskNext(r) ==
    /\ HoldsSlot(r) /\ r \notin ProgressiveLookups
    /\ Waiting(r) = {} /\ MoreToAsk(r)
    /\ AskBatch(r, Batch(r))

(* scrapeInner(): filtered meanwhile, or asked with what is left of the    *)
(* time; nothing left means the provider's whole time-out.                 *)
Scrape(r) ==
    LET p == lookup[r].picked[1] IN
    /\ HoldsSlot(r) /\ r \in ProgressiveLookups /\ lookup[r].next = 1
    /\ IF standing[p] = "selected" THEN AskBatch(r, {p})
       ELSE /\ lookup' = [lookup EXCEPT ![r].stage = "done"]
            /\ UNCHANGED <<standing, outcome, sources, answer, lateAsks, standings>>

ProviderReturns(r, p) ==
    /\ p \in Waiting(r)
    /\ \/ \E refused \in SUBSET Refusable :
             /\ outcome' = [outcome EXCEPT ![r][p] = "ok"]
             /\ sources' = [sources EXCEPT ![r][p] = Normalized(p, refused)]
       \/ outcome' = [outcome EXCEPT ![r][p] = "failed"] /\ UNCHANGED sources
    /\ UNCHANGED <<standing, lookup, answer, lateAsks, standings>>

AnswerSources(r) ==
    /\ HoldsSlot(r) /\ Waiting(r) = {}
    /\ IF r \in ProgressiveLookups THEN lookup[r].next = 2 ELSE ~MoreToAsk(r)
    /\ answer' = [answer EXCEPT ![r] = BuiltFor(r)]
    /\ lookup' = [lookup EXCEPT ![r].stage = "answered"]
    /\ UNCHANGED <<standing, outcome, sources, lateAsks, standings>>
----------------------------------------------------------------------------
LookupNext ==
    \/ \E p \in Asked, to \in {"selected", "filtered", "gone"} : StandingChanges(p, to)
    \/ \E r \in Lookups :
          \/ AskSources(r) \/ (\E p \in Asked : AskProvider(r, p))
          \/ GetSlot(r) \/ NoSlot(r) \/ DeadlinePasses(r)
          \/ AskNext(r) \/ Scrape(r) \/ AnswerSources(r)
          \/ \E p \in Asked : ProviderReturns(r, p)

LookupSpec == LookupInit /\ [][LookupNext]_lookupVars
----------------------------------------------------------------------------
LookupTypeOK ==
    /\ standing \in [Asked -> {"selected", "filtered", "gone"}]
    /\ \A r \in Lookups :
          /\ lookup[r].stage \in {"idle", "waiting", "running", "answered", "done"}
          /\ lookup[r].next \in 1..(Len(lookup[r].picked) + 1)
          /\ outcome[r] \in [Asked -> {"unasked", "asking", "ok", "failed"}]
          /\ ToSet(answer[r]) \subseteq UNION {ToSet(sources[r][p]) : p \in Asked}

Place(p) == CHOOSE i \in DOMAIN ByPriority : ByPriority[i] = p

(* a may stand in front of b.                                              *)
InOrder(r, a, b) ==
    IF Ranking /\ r \in BulkLookups
    THEN a.score > b.score \/ (a.score = b.score /\ Place(a.provider) <= Place(b.provider))
    ELSE Place(a.provider) <= Place(b.provider)

(* An answer, empty or not, holds the sources the picked providers         *)
(* returned, all of them, each upstream once per provider, in the order of *)
(* the waterfall or of the scores with the waterfall between equals,       *)
(* however the answers of a batch come in; and it waits for every provider *)
(* that was asked.                                                         *)
AnswerExact ==
    \A r \in Lookups : lookup[r].stage = "answered" =>
        /\ ToSet(answer[r]) = UNION {ToSet(sources[r][p]) : p \in ToSet(lookup[r].picked)}
        /\ \A i, j \in DOMAIN answer[r] : i < j =>
              /\ InOrder(r, answer[r][i], answer[r][j])
              /\ answer[r][i].provider # answer[r][j].provider \/ answer[r][i].up # answer[r][j].up
        /\ \A p \in Asked : outcome[r][p] # "asking"

(* A provider is missing from an answer only behind all that were asked,   *)
(* and only because the look-up was out of time or, fast-first, had        *)
(* enough: whatever the sizes of the batches, the number of providers and  *)
(* the failures.                                                           *)
NoneSkipped ==
    \A r \in Lookups, i \in DOMAIN ByPriority :
        LET p == ByPriority[i] IN
        (lookup[r].stage = "answered" /\ p \in ToSet(lookup[r].picked) /\ outcome[r][p] = "unasked") =>
            /\ lookup[r].over \/ (r \in FastLookups /\ Len(answer[r]) >= FastTarget)
            /\ \A j \in DOMAIN ByPriority : i < j => outcome[r][ByPriority[j]] = "unasked"

LookupsSound == AnswerExact /\ NoneSkipped

(* src/server.ts:1387: "ensure buildResponse respects upstream dedup":     *)
(* one upstream is sent once.                                              *)
UpstreamOnce ==
    \A r \in BulkLookups : \A i, j \in DOMAIN answer[r] :
        i # j => answer[r][i].up # answer[r][j].up

(* src/progressiveScrape.ts:174: "respect absolute deadline if provided".  *)
ProgressiveInTime == lateAsks \cap ProgressiveLookups = {}
=============================================================================
