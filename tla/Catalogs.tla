-------------------------------- MODULE Catalogs --------------------------------
(***************************************************************************)
(* Browsing an addon's catalog: getCatalogPage of src/catalogs/service.ts  *)
(* over the CacheManager, by replicas that share Redis and have each their *)
(* own memory cache and their own idea of the addon and the revision.  One *)
(* addon, one catalog, one bag of extra parameters.                        *)
(*                                                                         *)
(* The addon's record and the revision are read when the request comes in; *)
(* look-up, fetch and store are awaited, and mutations come between them:  *)
(* a re-import rewrites the address in the record the request holds.       *)
(***************************************************************************)
EXTENDS Integers, FiniteSets, Sequences, SequencesExt

CONSTANTS
    PageReplicas,
    Browsers,
    PageBases,     \* addresses the addon may have, one upstream each
    Metas,         \* usable ids of metas
    ListOf,        \* the metas each upstream answers
    HintOf,        \* the cacheMaxAge of its answers, 0 if it has none
    NoId,          \* a meta without a usable id
    MaxItems,      \* CATALOG_MAX_ITEMS
    PageTtl,       \* ticks a page may be cached
    NoPage, NoHost,
    MaxPageEdits,  \* bound: mutations, all replicas
    MaxPageAsks,   \* bound: requests
    MaxPageFaults, \* bound: calls that fail, and turns of Redis
    MaxPageTime    \* bound: ticks

ASSUME CatalogsAssumption ==
    /\ MaxItems \in Nat \ {0} /\ PageTtl \in Nat \ {0}
    /\ HintOf \in [PageBases -> Nat]
    /\ NoId \notin Metas /\ ListOf \in [PageBases -> Seq(Metas \cup {NoId})]
    /\ PageBases # {} /\ MaxPageEdits \in Nat /\ MaxPageTime \in Nat

VARIABLES
    shop,        \* each replica's revision, the addon's address, whether it is browsed
    pageRedis,   \* entries of Redis by revision, and whether it can be reached
    pageMemory,  \* entries of each replica's memory cache by revision
    browse,      \* what each browser's request is at
    named,       \* history: which address a revision stood for, anywhere
    pageTime, pageCounts

pageVars == <<shop, pageRedis, pageMemory, browse, named, pageTime, pageCounts>>

Revisions == 0..MaxPageEdits
FirstBase == CHOOSE u \in PageBases : TRUE

(* `live`: the request's addon is still the manager's own record of it.    *)
NoBrowse == [pc |-> "idle", host |-> NoHost, rev |-> 0, base |-> FirstBase, live |-> FALSE,
             page |-> NoPage, since |-> 0]

(* The manifests that matter: the resources named and whether the catalog  *)
(* is described as it should be.                                           *)
CatalogManifests == [resources : {{"catalog"}, {"stream"}}, described : BOOLEAN]

(* deriveCapabilities(): `catalog` and `catalogs` are read independently.  *)
Offers(m) == "catalog" \in m.resources /\ m.described

PagesInit ==
    /\ shop = [r \in PageReplicas |-> [rev |-> 0, base |-> FirstBase, offered |-> TRUE]]
    /\ pageRedis = [up |-> TRUE, at |-> [v \in Revisions |-> NoPage]]
    /\ pageMemory = [r \in PageReplicas |-> [v \in Revisions |-> NoPage]]
    /\ browse = [b \in Browsers |-> NoBrowse]
    /\ named = {[rev |-> 0, base |-> FirstBase]}
    /\ pageTime = 0
    /\ pageCounts = [edits |-> 0, asks |-> 0, faults |-> 0]

PageCount(what, max) == /\ pageCounts[what] < max
                        /\ pageCounts' = [pageCounts EXCEPT ![what] = @ + 1]
----------------------------------------------------------------------------
(* The addon.  Requests that wait for the look-up hold its record.         *)
Holds(b, r) == browse[b].pc = "looking" /\ browse[b].host = r /\ browse[b].live

Readdressed(r, u) == [b \in Browsers |-> IF Holds(b, r) THEN [browse[b] EXCEPT !.base = u] ELSE browse[b]]
Detached(r) == [b \in Browsers |-> IF Holds(b, r) THEN [browse[b] EXCEPT !.live = FALSE] ELSE browse[b]]

Mutated(r, u, offered) ==
    /\ shop' = [shop EXCEPT ![r] = [rev |-> @.rev + 1, base |-> u, offered |-> offered]]
    /\ named' = named \cup {[rev |-> shop[r].rev + 1, base |-> u]}

(* A re-import, a refresh or setEnabled() changes the record in place, a   *)
(* removal leaves it to those who hold it.                                 *)
Reconfigure(r) ==
    /\ PageCount("edits", MaxPageEdits)
    /\ \/ \E u \in PageBases, on \in BOOLEAN, m \in CatalogManifests :
             Mutated(r, u, on /\ Offers(m)) /\ browse' = Readdressed(r, u)
       \/ Mutated(r, shop[r].base, FALSE) /\ browse' = Detached(r)
    /\ UNCHANGED <<pageRedis, pageMemory, pageTime>>

(* reloadFromStorage(): the records of another replica replace all.        *)
Adopt(r, q) ==
    /\ shop[q].rev > shop[r].rev
    /\ shop' = [shop EXCEPT ![r] = shop[q]]
    /\ browse' = Detached(r)
    /\ UNCHANGED <<pageRedis, pageMemory, named, pageTime, pageCounts>>
----------------------------------------------------------------------------
(* normalizeCatalogEntries(): trimmed ids, each once, and no more than     *)
(* MaxItems of them.                                                       *)
Keep(out, x) ==
    IF Len(out) >= MaxItems \/ x = NoId \/ x \in ToSet(out) THEN out ELSE Append(out, x)

Keeping(metas) ==
    LET out[i \in 0..Len(metas)] == IF i = 0 THEN <<>> ELSE Keep(out[i - 1], metas[i]) IN out

Kept(metas) == Keeping(metas)[Len(metas)]

BrowseBecomes(b, new) == browse' = [browse EXCEPT ![b] = new]

(* An unknown or disabled addon, or one without the catalog, is a 404.     *)
AskPage(b, r) ==
    /\ browse[b].pc = "idle" /\ PageCount("asks", MaxPageAsks)
    /\ shop[r].offered
    /\ BrowseBecomes(b, [NoBrowse EXCEPT !.pc = "looking", !.host = r, !.rev = shop[r].rev,
                                         !.base = shop[r].base, !.live = TRUE, !.since = pageTime])
    /\ UNCHANGED <<shop, pageRedis, pageMemory, named, pageTime>>

(* buildCatalogKey(): of the revision read when the request came in.       *)
KeyOf(b) == browse[b].rev

LiveIn(entry, slack) == entry # NoPage /\ pageTime < entry.until + slack
Unexpired(at, slack) == [v \in Revisions |-> IF LiveIn(at[v], slack - 1) THEN at[v] ELSE NoPage]

(* CacheManager.get(): Redis if it can be reached, then the memory, which  *)
(* still has an entry in its last moment.                                  *)
CachedPage(b) ==
    LET far == pageRedis.at[KeyOf(b)]  near == pageMemory[browse[b].host][KeyOf(b)]
    IN  CASE pageRedis.up /\ LiveIn(far, 0) -> far.page
          [] ~(pageRedis.up /\ LiveIn(far, 0)) /\ LiveIn(near, 1) -> near.page
          [] OTHER -> NoPage

LookUpPage(b) ==
    /\ browse[b].pc = "looking"
    /\ BrowseBecomes(b, [browse[b] EXCEPT !.page = CachedPage(b), !.live = FALSE,
                                          !.pc = IF CachedPage(b) = NoPage THEN "fetching" ELSE "answered"])
    /\ UNCHANGED <<shop, pageRedis, pageMemory, named, pageTime, pageCounts>>

(* The address is the record's of the moment the look-up ended; the        *)
(* addon's hint can only shorten the entry's life.                         *)
FetchPage(b) ==
    /\ browse[b].pc = "fetching"
    /\ BrowseBecomes(b, [browse[b] EXCEPT !.pc = IF pageRedis.up THEN "sharing" ELSE "storing",
                                          !.page = [base |-> browse[b].base, made |-> pageTime]])
    /\ UNCHANGED <<shop, pageRedis, pageMemory, named, pageTime, pageCounts>>

PageLife(u) == IF HintOf[u] > 0 /\ HintOf[u] < PageTtl THEN HintOf[u] ELSE PageTtl
PageEntry(b) == [page |-> browse[b].page, until |-> pageTime + PageLife(browse[b].base)]

(* CacheManager.set(): Redis, awaited, then the memory.                    *)
SharePage(b) ==
    /\ browse[b].pc = "sharing"
    /\ pageRedis' = [pageRedis EXCEPT !.at[KeyOf(b)] = PageEntry(b)]
    /\ BrowseBecomes(b, [browse[b] EXCEPT !.pc = "storing"])
    /\ UNCHANGED <<shop, pageMemory, named, pageTime, pageCounts>>

StorePage(b) ==
    /\ browse[b].pc = "storing"
    /\ pageMemory' = [pageMemory EXCEPT ![browse[b].host][KeyOf(b)] = PageEntry(b)]
    /\ BrowseBecomes(b, [browse[b] EXCEPT !.pc = "answered"])
    /\ UNCHANGED <<shop, pageRedis, named, pageTime, pageCounts>>

AnswerPage(b) ==
    /\ browse[b].pc = "answered"
    /\ BrowseBecomes(b, NoBrowse)
    /\ UNCHANGED <<shop, pageRedis, pageMemory, named, pageTime, pageCounts>>

(* A fetch, or a command to Redis, fails: a 502, and no page is kept.      *)
PageFails(b) ==
    /\ browse[b].pc \in {"looking", "fetching", "sharing"}
    /\ PageCount("faults", MaxPageFaults)
    /\ BrowseBecomes(b, NoBrowse)
    /\ UNCHANGED <<shop, pageRedis, pageMemory, named, pageTime>>

(* While Redis cannot be connected to, getRedis() is null.                 *)
RedisTurns ==
    /\ PageCount("faults", MaxPageFaults)
    /\ \A b \in Browsers : browse[b].pc # "sharing"
    /\ pageRedis' = [pageRedis EXCEPT !.up = ~@]
    /\ UNCHANGED <<shop, pageMemory, browse, named, pageTime>>

(* A request is over within a tick: fetchCatalog() times out long before a *)
(* page expires.  An entry that has expired can no more be seen.           *)
PageTimePasses ==
    /\ pageTime < MaxPageTime
    /\ \A b \in Browsers : browse[b].pc # "idle" => browse[b].since = pageTime
    /\ pageTime' = pageTime + 1
    /\ pageRedis' = [pageRedis EXCEPT !.at = Unexpired(@, 0)]
    /\ pageMemory' = [r \in PageReplicas |-> Unexpired(pageMemory[r], 1)]
    /\ UNCHANGED <<shop, browse, named, pageCounts>>
----------------------------------------------------------------------------
PagesNext ==
    \/ \E b \in Browsers :
          \/ \E r \in PageReplicas : AskPage(b, r)
          \/ LookUpPage(b) \/ FetchPage(b) \/ SharePage(b) \/ StorePage(b)
          \/ AnswerPage(b) \/ PageFails(b)
    \/ \E r \in PageReplicas : Reconfigure(r) \/ \E q \in PageReplicas : Adopt(r, q)
    \/ RedisTurns \/ PageTimePasses

PagesSpec == PagesInit /\ [][PagesNext]_pageVars
----------------------------------------------------------------------------
PageType == [base : PageBases, made : 0..MaxPageTime]
PageEntries == [page : PageType, until : 0..(MaxPageTime + PageTtl)] \cup {NoPage}

PagesTypeOK ==
    /\ shop \in [PageReplicas -> [rev : Revisions, base : PageBases, offered : BOOLEAN]]
    /\ \A v \in Revisions : /\ pageRedis.at[v] \in PageEntries
                            /\ \A r \in PageReplicas : pageMemory[r][v] \in PageEntries
    /\ \A b \in Browsers : browse[b].page \in PageType \cup {NoPage}

PagesAnswered == {b \in Browsers : browse[b].pc = "answered"}

(* The distinct usable ids of a list, in the order they come.              *)
Firsts(raw) == {i \in DOMAIN raw : raw[i] # NoId /\ \A j \in 1..(i - 1) : raw[j] # raw[i]}
Rank(raw, i) == Cardinality({j \in Firsts(raw) : j <= i})

(* Whatever mutations, reloads and other requests come between its steps,  *)
(* a request is answered with a page of no older configuration than the    *)
(* revision it came in with, no older than its time to live and the time   *)
(* of two requests, and with the first of its distinct entries.            *)
PagesSound ==
    \A b \in PagesAnswered :
        LET a == browse[b]  raw == ListOf[a.page.base]  metas == Kept(raw) IN
        /\ \E x \in named : x.rev >= a.rev /\ x.base = a.page.base
        /\ pageTime - a.page.made <= PageTtl + 2
        /\ Len(metas) <= MaxItems
        /\ \A i \in Firsts(raw) : Rank(raw, i) <= MaxItems =>
              Rank(raw, i) <= Len(metas) /\ metas[Rank(raw, i)] = raw[i]

(* cache/namespaces.ts:76: "Revision-scoped so provider mutations          *)
(* invalidate catalog caches along with everything else."  A page kept     *)
(* under a revision is of that revision.                                   *)
MutationInvalidates ==
    \A b \in PagesAnswered : [rev |-> browse[b].rev, base |-> browse[b].page.base] \in named

(* docs/integration-cineflix.md:60: x-provider-revision is the coherence   *)
(* token; the header is read when the answer is sent.                      *)
TokenTellsPage == \A b \in PagesAnswered : shop[browse[b].host].rev = browse[b].rev
=============================================================================
