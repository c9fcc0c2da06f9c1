------------------------------ MODULE Subtitles ------------------------------
(***************************************************************************)
(* GET /v1/subtitles: the addons are asked in batches, each behind its     *)
(* circuit breaker and its gate, and what they bring is ranked, filtered   *)
(* and listed once per URL (src/subtitles/index.ts).  The caller may go    *)
(* away at any time: the batches stop and what is there is ranked.  The    *)
(* resolution of the id before, and the grants after, are left out.        *)
(***************************************************************************)
EXTENDS Breaker, Sequences, FiniteSets

CONSTANTS
    Aggregations,     \* requests in flight at once
    SubAddons,        \* 1..n, in order of priority
    BatchOf,          \* addons asked together
    Brought,          \* answers of an addon: sequences of subtitles, records
                      \* [url, score, hi, lang] (lang: the language asked for)
    FallbackBrings,   \* the answer of the fallback provider
    HearingPref,      \* "include", "avoid" or "only"
    ListedMost,       \* maxResults
    MaxAggregations   \* bound: requests in all

(* What may come, from an addon or from the fallback provider.             *)
Subtitled == UNION {{s[i] : i \in DOMAIN s} : s \in Brought \cup {FallbackBrings}}

ASSUME SubtitlesAssumption ==
    /\ IsFiniteSet(SubAddons) /\ SubAddons = 1..Cardinality(SubAddons)
    /\ BatchOf \in Nat \ {0} /\ ListedMost \in Nat \ {0} /\ MaxAggregations \in Nat
    /\ HearingPref \in {"include", "avoid", "only"}
    /\ Brought \cup {FallbackBrings} \subseteq Seq(Subtitled)
    /\ \A s \in Subtitled : s.score \in Int

VARIABLES
    subBreaker,   \* circuit of each addon
    agg,          \* each request: its batch, its tasks, what it has collected
    started,      \* requests so far
    lostTrials    \* history: addons whose trial an abort has kept

subVars == <<subBreaker, agg, started, lostTrials>>

NoAgg == [pc |-> "idle", from |-> 1, task |-> [a \in SubAddons |-> "none"],
          gone |-> FALSE, collected |-> <<>>, fallback |-> FALSE]

SubInit ==
    /\ subBreaker = [a \in SubAddons |-> NewBreaker]
    /\ agg = [q \in Aggregations |-> NoAgg]
    /\ started = 0 /\ lostTrials = {}
----------------------------------------------------------------------------
(* rankSubtitles(): the ranked positions of the collected sequence `c`.    *)
(* The language is looked at first, and only then the preference for the   *)
(* hearing impaired.                                                       *)
InLanguage(c) == IF \E i \in DOMAIN c : c[i].lang THEN {i \in DOMAIN c : c[i].lang} ELSE DOMAIN c

Accessible(c) == {i \in InLanguage(c) : \/ HearingPref = "include"
                                        \/ HearingPref = "only" /\ c[i].hi
                                        \/ HearingPref = "avoid" /\ ~c[i].hi}

Outranks(c, i, j) == c[i].score > c[j].score \/ (c[i].score = c[j].score /\ i < j)

(* BUG: the first occurrence of a URL is kept, whatever its score.         *)
DistinctFirst(c) == {i \in Accessible(c) :
    \A j \in Accessible(c) : c[j].url = c[i].url => i <= j}

Distinct(c) == {i \in Accessible(c) :
    \A j \in Accessible(c) \ {i} : c[j].url = c[i].url => Outranks(c, i, j)}

Ranked(c) == {i \in Distinct(c) : Cardinality({j \in Distinct(c) : Outranks(c, j, i)}) < ListedMost}
----------------------------------------------------------------------------
InBatch(r) == {a \in SubAddons : r.from <= a /\ a < r.from + BatchOf}
Asking(r) == {a \in SubAddons : r.task[a] \in {"gate", "fetching"}}
TaskEnds(q, a) == [agg[q] EXCEPT !.task[a] = "done"]

StartAggregation(q) ==
    /\ agg[q].pc \in {"idle", "done"} /\ started < MaxAggregations
    /\ started' = started + 1
    /\ agg' = [agg EXCEPT ![q] = [NoAgg EXCEPT !.pc = "batch"]]
    /\ UNCHANGED <<subBreaker, lostTrials>>

(* The next batch starts when no task of the one before is left: each      *)
(* addon whose circuit lets it goes to its gate.  Without a batch, or with *)
(* the caller gone, the ranking follows, and the fallback provider if it   *)
(* came to nothing.                                                        *)
NextBatchOf(q) ==
    LET r == agg[q]
        ask == {a \in InBatch(r) : TrialAllowed(subBreaker[a])}
        empty == Ranked(r.collected) = {}
    IN
    /\ r.pc = "batch" /\ Asking(r) = {}
    /\ IF InBatch(r) = {} \/ r.gone
       THEN /\ agg' = [agg EXCEPT ![q].pc = "done", ![q].fallback = empty /\ ~r.gone,
                         ![q].collected = IF empty /\ ~r.gone THEN FallbackBrings ELSE @]
            /\ UNCHANGED subBreaker
       ELSE /\ agg' = [agg EXCEPT ![q].from = @ + BatchOf,
                         ![q].task = [a \in SubAddons |-> IF a \in ask THEN "gate" ELSE @[a]]]
            /\ subBreaker' = [a \in SubAddons |->
                                 IF a \in ask THEN TrialTaken(subBreaker[a])
                                 ELSE IF a \in InBatch(r) THEN CircuitNow(subBreaker[a])
                                 ELSE subBreaker[a]]
    /\ UNCHANGED <<started, lostTrials>>

(* The provider's slot and its host's.                                     *)
GateOpens(q, a) ==
    /\ agg[q].task[a] = "gate"
    /\ agg' = [agg EXCEPT ![q].task[a] = "fetching"]
    /\ UNCHANGED <<subBreaker, started, lostTrials>>

(* The subtitles come in, after those of the addons that were faster.      *)
SubtitlesCome(q, a, subs) ==
    /\ agg[q].task[a] = "fetching"
    /\ agg' = [agg EXCEPT ![q] = [TaskEnds(q, a) EXCEPT !.collected = @ \o subs]]
    /\ subBreaker' = [subBreaker EXCEPT ![a] = AfterSuccess(@)]
    /\ UNCHANGED <<started, lostTrials>>

(* Both attempts have failed.                                              *)
AddonBreaks(q, a) ==
    /\ agg[q].task[a] = "fetching"
    /\ agg' = [agg EXCEPT ![q] = TaskEnds(q, a)]
    /\ subBreaker' = [subBreaker EXCEPT ![a] = AfterFailure(@)]
    /\ UNCHANGED <<started, lostTrials>>

(* The caller goes away: the tasks at a gate or with an addon end without  *)
(* an outcome, and a trial one of them has taken stays taken.              *)
CallerLeaves(q) ==
    /\ agg[q].pc = "batch" /\ ~agg[q].gone
    /\ agg' = [agg EXCEPT ![q].gone = TRUE,
                 ![q].task = [a \in SubAddons |-> IF a \in Asking(agg[q]) THEN "done" ELSE @[a]]]
    /\ lostTrials' = lostTrials \cup {a \in Asking(agg[q]) : subBreaker[a].trial}
    /\ UNCHANGED <<subBreaker, started>>

AddonCools(a) ==
    /\ subBreaker[a].state = "open" /\ ~subBreaker[a].cooled
    /\ subBreaker' = [subBreaker EXCEPT ![a].cooled = TRUE]
    /\ UNCHANGED <<agg, started, lostTrials>>
----------------------------------------------------------------------------
SubNext ==
    \/ \E q \in Aggregations :
          \/ StartAggregation(q) \/ NextBatchOf(q) \/ CallerLeaves(q)
          \/ \E a \in SubAddons :
                \/ GateOpens(q, a) \/ AddonBreaks(q, a)
                \/ \E subs \in Brought : SubtitlesCome(q, a, subs)
    \/ \E a \in SubAddons : AddonCools(a)

SubSpec == SubInit /\ [][SubNext]_subVars
----------------------------------------------------------------------------
SubTypeOK ==
    /\ subBreaker \in [SubAddons -> Breakers]
    /\ \A q \in Aggregations : agg[q].pc \in {"idle", "batch", "done"}
    /\ lostTrials \subseteq SubAddons /\ started \in 0..MaxAggregations

(* A trial is out only while a request is with the addon, unless an abort  *)
(* has kept it.                                                            *)
SubTrialIsOut ==
    \A a \in SubAddons \ lostTrials :
        subBreaker[a].trial => \E q \in Aggregations : a \in Asking(agg[q])

(* The list is the best of what came, whatever order it came in: a         *)
(* subtitle that may be shown is listed, or its URL is with a score at     *)
(* least as high, or the list is full of such; and the fallback speaks     *)
(* only when the addons had nothing.                                       *)
BestListed ==
    \A q \in Aggregations :
        LET c == agg[q].collected IN
        agg[q].pc = "done" =>
            /\ \A i \in Accessible(c) :
                  \/ \E j \in Ranked(c) : c[j].url = c[i].url /\ c[j].score >= c[i].score
                  \/ /\ Cardinality(Ranked(c)) = ListedMost
                     /\ \A j \in Ranked(c) : c[j].score >= c[i].score
            /\ agg[q].fallback => c = FallbackBrings

SubtitlesSound == SubTrialIsOut /\ BestListed
=============================================================================
