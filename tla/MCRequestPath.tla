---------------------------- MODULE MCRequestPath ----------------------------
(***************************************************************************)
(* The parts a stream request passes through, for TLC: rate limits and     *)
(* budgets, the response cache and the media identities, outbound fetches, *)
(* the lookup of sources, the choice of a file, federation, subtitles,     *)
(* catalog pages, and the playback proxy.  They share no variable: `part`  *)
(* names the one that runs in a behaviour, the others stay as they start,  *)
(* so that the instances of all of them are explored in one run and not    *)
(* multiplied.                                                             *)
(***************************************************************************)
EXTENDS Budgets, RateLimiter, CacheFlight, MediaIdentity, Egress, SourceLookup,
        FileSelection, FederatedFetch, Subtitles, Catalogs, MCPlaybackProxy

CONSTANTS ck1, ck2, ck3    \* model values

VARIABLE part

Parts == {"budgets", "rates", "cache", "media", "egress", "lookup", "files",
          "federation", "subtitles", "pages", "proxy"}

partVars == <<part, budgetVars, rateVars, cacheFlightVars, mediaVars, egressVars,
              lookupVars, fileVars, fedVars, subVars, pageVars, proxyVars>>

(* Only part `p` takes this step.                                          *)
Only(p) ==
    /\ part = p /\ UNCHANGED part
    /\ IF p = "budgets" THEN TRUE ELSE UNCHANGED budgetVars
    /\ IF p = "rates" THEN TRUE ELSE UNCHANGED rateVars
    /\ IF p = "cache" THEN TRUE ELSE UNCHANGED cacheFlightVars
    /\ IF p = "media" THEN TRUE ELSE UNCHANGED mediaVars
    /\ IF p = "egress" THEN TRUE ELSE UNCHANGED egressVars
    /\ IF p = "lookup" THEN TRUE ELSE UNCHANGED lookupVars
    /\ IF p = "files" THEN TRUE ELSE UNCHANGED fileVars
    /\ IF p = "federation" THEN TRUE ELSE UNCHANGED fedVars
    /\ IF p = "subtitles" THEN TRUE ELSE UNCHANGED subVars
    /\ IF p = "pages" THEN TRUE ELSE UNCHANGED pageVars
    /\ IF p = "proxy" THEN TRUE ELSE UNCHANGED proxyVars

(* A part that does not run starts in one state, and of two replicas that  *)
(* start alike it does not matter which one is cut off from Redis.         *)
PathInit ==
    /\ part \in Parts
    /\ BudgetInit /\ RateInit /\ CacheInit /\ MediaInit /\ EgressInit /\ LookupInit
    /\ FilesInit /\ FedInit /\ SubInit /\ PagesInit /\ ProxyInit
    /\ part = "egress" \/ dns = [h \in Hostnames |-> "pub"]
    /\ part = "files" \/ (wish = NoWish /\ fileIdx = 0)
    /\ IF part = "proxy" THEN online \in {{}, {n1}, {n1, n2}} ELSE online = {}

(* Bounds that keep the product of rare events small: two kinds of them do *)
(* not meet, or only while not everything else is under way.               *)
CacheBound == Len(flights) <= 2 \/ (resets = 0 /\ time <= 1)
LookupBound ==
    Cardinality({r \in Lookups : lookup[r].stage # "idle"}) <= (IF standings = 0 THEN 2 ELSE 1)
PagesBound == pageCounts.edits = 0 \/ (pageCounts.faults = 0 /\ pageTime <= 2)
MediaBound == edits = 0 \/ clears = 0
ProxyBound ==
    \/ tally.lapses + tally.failures + Cardinality(expired) <= 1
    \/ \E q \in Media : request[q].pc = "new"

BudgetStep == part = "budgets" /\ BudgetNext /\ Only("budgets")
RateStep == part = "rates" /\ RateNext /\ Only("rates")
CacheStep == part = "cache" /\ CacheNext /\ Only("cache") /\ CacheBound'
MediaStep == part = "media" /\ MediaNext /\ Only("media") /\ MediaBound'
EgressStep == part = "egress" /\ EgressNext /\ Only("egress")
LookupStep == part = "lookup" /\ LookupNext /\ Only("lookup") /\ LookupBound'
FileStep == part = "files" /\ AddFile /\ Only("files")
FedStep == part = "federation" /\ FedNext /\ Only("federation")
SubStep == part = "subtitles" /\ SubNext /\ Only("subtitles")
PageStep == part = "pages" /\ PagesNext /\ Only("pages") /\ PagesBound'
ProxyStep == part = "proxy" /\ ProxyNext /\ Only("proxy") /\ ProxyBound'

PathNext ==
    \/ BudgetStep \/ RateStep \/ CacheStep \/ MediaStep \/ EgressStep
    \/ LookupStep \/ FileStep \/ FedStep \/ SubStep \/ PageStep \/ ProxyStep

PathSpec == PathInit /\ [][PathNext]_partVars

PathSymmetry == Permutations(Grants)
----------------------------------------------------------------------------
(* The instances.                                                          *)
MCLimit == ("p1" :> 2) @@ ("p2" :> 1)
MCByPriority == <<"p1", "p2", "p3">>
MCStreams ==
    ("p1" :> <<[up |-> "u2", score |-> 1], [up |-> "u2", score |-> 2], [up |-> "u1", score |-> 2]>>)
    @@ ("p2" :> <<[up |-> "u1", score |-> 2]>>) @@ ("p3" :> <<[up |-> "u1", score |-> 3]>>)
MCVideoScore == ("mkv" :> 50) @@ ("mpg" :> 5)
MCTags ==
    {NoTag,
     [kind |-> "single", season |-> 1, episode |-> 2, last |-> 2],
     [kind |-> "range", season |-> 1, episode |-> 1, last |-> 3],
     [kind |-> "range", season |-> 2, episode |-> 1, last |-> 3],
     [kind |-> "absolute", season |-> 1, episode |-> 2, last |-> 2]}
MCWishes == {NoWish, [season |-> 1, episode |-> 2], [season |-> 0, episode |-> 2]}
MCSub(u, s, h, l) == [url |-> u, score |-> s, hi |-> h, lang |-> l]
MCBrought ==
    {<<MCSub("u1", 1, FALSE, TRUE)>>,
     <<MCSub("u1", 2, FALSE, TRUE), MCSub("u2", 3, TRUE, TRUE)>>,
     <<MCSub("u3", 1, FALSE, FALSE)>>}
MCListOf == ("pa" :> <<"m1", "m1", NoId, "m2", "m3">>) @@ ("pb" :> <<NoId, "m1">>)
MCHintOf == ("pa" :> 0) @@ ("pb" :> 2)
MCFallback == <<MCSub("u4", 1, FALSE, FALSE)>>
----------------------------------------------------------------------------
(* Every variable of the part that runs has its type.                      *)
PathTypeOK ==
    CASE part = "budgets" -> BudgetTypeOK
      [] part = "rates" -> RateTypeOK
      [] part = "cache" -> CacheTypeOK
      [] part = "media" -> MediaTypeOK
      [] part = "egress" -> EgressTypeOK
      [] part = "lookup" -> LookupTypeOK
      [] part = "files" -> FilesTypeOK
      [] part = "federation" -> FedTypeOK
      [] part = "subtitles" -> SubTypeOK
      [] part = "pages" -> PagesTypeOK
      [] part = "proxy" -> ProxyTypeOK

(* No provider is granted more calls a day than its limit, and it counts   *)
(* as exhausted exactly then, which is reported once a day; the egress     *)
(* level is that of the bytes sent since midnight; and no key passes the   *)
(* rate limiter more than twice its quota in a stretch of time as long as  *)
(* one window (budgets.ts, rateLimit.ts).                                  *)
LimitsHold ==
    /\ part = "budgets" => BudgetsHold
    /\ part = "rates" => RateBounded

(* The response cache answers nothing older than it may, runs one fetch a  *)
(* key and evicts the least recently used entry; the media cache answers   *)
(* what TMDB said within the entry's time; a catalog page is of no         *)
(* configuration from before its request, and no older than it may be      *)
(* (swr.ts, singleFlight.ts, mediaIdentity.ts, catalogs/service.ts).       *)
CachesSound ==
    /\ part = "cache" => CacheSound
    /\ part = "media" => IdentitySound
    /\ part = "pages" => PagesSound

(* Fetches to one host stay under its cap while idle pools are dropped,    *)
(* and every hop goes to an address that was checked (coordinator.ts,      *)
(* secureFetch.ts).                                                        *)
EgressSound == part = "egress" => HostCapExact /\ HopsChecked

(* The fan-out of the federation and of the subtitles gives back every     *)
(* half-open trial but those it is known to keep, asks in priority order   *)
(* and answers each source once (federation/service.ts,                    *)
(* subtitles/index.ts).                                                    *)
FanOutSound ==
    /\ part = "federation" => FederationSound
    /\ part = "subtitles" => SubtitlesSound

(* What the playback proxy counts: the caps on streams in memory hold, the *)
(* counters are the open streams, and grants stay within their bound       *)
(* (streams.ts, playbackGrant.ts).                                         *)
ProxyAccounts == part = "proxy" => MemoryCapHolds /\ AccountsExact /\ GrantsBounded
=============================================================================
