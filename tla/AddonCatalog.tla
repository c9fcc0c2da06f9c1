---------------------------- MODULE AddonCatalog ----------------------------
(***************************************************************************)
(* The addons of one replica and the providers built from them: install,   *)
(* refresh, remove, setEnabled, setTimeout, reorder and reloadFromStorage  *)
(* of src/addons/manager.ts behind its promise-chain lock, the marketplace *)
(* policy they apply, and the handlers of src/routes that check a revision *)
(* and read the addon before they wait for that lock.                      *)
(*                                                                         *)
(* A mutation is one step once its turn has come: nothing but setHealth    *)
(* touches the addons while it waits for the manifest or the store.        *)
(***************************************************************************)
EXTENDS Integers, FiniteSets, Sequences, SequencesExt

CONSTANTS
    Urls,          \* addon URLs, distinct fingerprints
    MinTrusted,    \* MARKETPLACE_MIN_TRUST_FOR_ENABLE asks for a listed manifest
    NoRevision,    \* a request without If-Match
    NewTimeout,    \* the timeout an operator may set (the default is 0)
    MaxRequests,   \* bound: mutations asked for
    MaxOutside     \* bound: changes of what the URLs serve, and by another replica

ASSUME ManagerAssumption == MaxRequests \in Nat

(* What a URL serves: "listed" is on an operator list, "subs" has no       *)
(* stream resource, "blocked" is on the denylist, "down" is no manifest or *)
(* one that validateManifest() finds an error in.                          *)
Manifests == {"plain", "listed", "subs"}
Served == Manifests \cup {"blocked", "down"}

VARIABLES
    site,        \* what each URL serves and the URL it redirects to
    installed,   \* data.addons, in the array's order
    registry,    \* the providers, in insertion order, as they were built
    mgrRevision, \* data.revision
    lockQueue,   \* callbacks waiting in the manager's promise chain
    sharedRows,  \* the store: addons and revision
    reloaded,    \* history: ids replaced by reloadFromStorage
    lostUpdates, \* history: conditional requests applied to another revision
    catCounts

catVars == <<site, installed, registry, mgrRevision, lockQueue, sharedRows,
             reloaded, lostUpdates, catCounts>>

CatInit ==
    /\ site \in [Urls -> {[to |-> u, kind |-> k] : u \in Urls, k \in {"plain", "listed"}}]
    /\ \A u \in Urls : site[u].to = u
    /\ installed = <<>> /\ registry = <<>> /\ lockQueue = <<>>
    /\ mgrRevision = 0
    /\ sharedRows = [addons |-> <<>>, revision |-> 0]
    /\ reloaded = {} /\ lostUpdates = 0
    /\ catCounts = [requests |-> 0, outside |-> 0]

CatCount(what, max) == /\ catCounts[what] < max
                       /\ catCounts' = [catCounts EXCEPT ![what] = @ + 1]
----------------------------------------------------------------------------
(* Ids, order and providers.                                               *)
Ids(list) == {list[i].id : i \in DOMAIN list}
IndexOf(list, id) == CHOOSE i \in DOMAIN list : list[i].id = id
Addon(id) == installed[IndexOf(installed, id)]

(* uniqueProviderId(): manifests share their id, the suffix tells them     *)
(* apart, and a suffix given up is used again.                             *)
FreeId(list) == CHOOSE n \in 1..(Len(list) + 1) :
                    n \notin Ids(list) /\ \A m \in 1..(n - 1) : m \in Ids(list)

(* The members of S one after the other, `before` being pairs of them.     *)
InLine(S, before) ==
    [k \in 1..Cardinality(S) |->
        CHOOSE x \in S : Cardinality({y \in S : <<y, x>> \in before}) = k - 1]

(* sortAddons(): by order.  No two addons have the same; the place in the  *)
(* array stands for the name, which would break a tie.                     *)
SortAddons(list) ==
    {p \in (DOMAIN list) \X (DOMAIN list) :
        \/ list[p[1]].order < list[p[2]].order
        \/ list[p[1]].order = list[p[2]].order /\ p[1] < p[2]}

StreamCapable(a) == a.manifest # "subs"
StreamEnabled(list) ==
    LET on == InLine({i \in DOMAIN list : list[i].enabled /\ StreamCapable(list[i])}, SortAddons(list))
    IN  [k \in DOMAIN on |-> list[on[k]]]

Built(a) == [id |-> a.id, base |-> a.base, manifest |-> a.manifest, timeout |-> a.timeout]
Unregister(reg, id) == IF id \in Ids(reg) THEN RemoveAt(reg, IndexOf(reg, id)) ELSE reg
Register(reg, a) == IF a.enabled /\ StreamCapable(a) /\ a.id \notin Ids(reg)
                    THEN Append(reg, Built(a)) ELSE reg

IdSeq(list) == [i \in DOMAIN list |-> list[i].id]

(* The providers of these ids, in their order.                             *)
OnlyThese(reg, ids) ==
    LET left == InLine({i \in DOMAIN reg : reg[i].id \in ids},
                       {p \in (DOMAIN reg) \X (DOMAIN reg) : p[1] < p[2]})
    IN  [k \in DOMAIN left |-> reg[left[k]]]

(* reconcileRegistry(): built anew only if membership or order differ.     *)
Reconcile(reg, list) ==
    LET ordered == StreamEnabled(list)
        kept == OnlyThese(reg, Ids(ordered))
    IN  IF IdSeq(kept) = IdSeq(ordered) THEN kept
        ELSE [k \in DOMAIN ordered |-> Built(ordered[k])]
----------------------------------------------------------------------------
(* Requests.  A handler compares If-Match with the revision of the moment, *)
(* looks the addon up, and joins the chain.                                *)
JoinChain(op) ==
    /\ CatCount("requests", MaxRequests)
    /\ lockQueue' = Append(lockQueue, op)
    /\ UNCHANGED <<site, installed, registry, mgrRevision, sharedRows, reloaded, lostUpdates>>

CatOp(kind, id, url, arg, match) ==
    [kind |-> kind, id |-> id, url |-> url, arg |-> arg, match |-> match]

Matches == {NoRevision, mgrRevision}

(* An import handler, or its job: manager.install.                         *)
RequestInstall ==
    \E u \in Urls, enable \in BOOLEAN :
        JoinChain(CatOp("install", 0, u, enable, NoRevision))

(* refresh(): URL and enabled are read now, the install comes later.       *)
RefreshOp(id, m) == CatOp("install", id, Addon(id).orig, Addon(id).enabled, m)

RequestRefresh == \E id \in Ids(installed), m \in Matches : JoinChain(RefreshOp(id, m))

RequestRemove ==
    \E id \in Ids(installed), m \in Matches : JoinChain(CatOp("remove", id, "", FALSE, m))

RequestPatch ==
    \E id \in Ids(installed), m \in Matches :
        \/ \E on \in BOOLEAN : JoinChain(CatOp("enable", id, "", on, m))
        \/ JoinChain(CatOp("timeout", id, "", TRUE, m))

RequestReorder ==
    \E id \in Ids(installed), m \in Matches : JoinChain(CatOp("reorder", id, "", FALSE, m))

(* The URLs' operators change what they serve.                             *)
SiteChanges ==
    /\ CatCount("outside", MaxOutside)
    /\ \E u, to \in Urls, k \in Served : site' = [site EXCEPT ![u] = [to |-> to, kind |-> k]]
    /\ UNCHANGED <<installed, registry, mgrRevision, lockQueue, sharedRows, reloaded, lostUpdates>>

Toggled(on) == IF on THEN "validated" ELSE "disabled"

(* Another replica changes an addon's row and publishes the revision.      *)
PeerChanges ==
    /\ CatCount("outside", MaxOutside)
    /\ \E i \in DOMAIN sharedRows.addons :
           \/ sharedRows' = [addons |-> [sharedRows.addons EXCEPT ![i].timeout = NewTimeout],
                             revision |-> sharedRows.revision + 1]
           \/ sharedRows' = [addons |-> [sharedRows.addons EXCEPT ![i].enabled = ~@,
                                                                  ![i].admission = Toggled(~sharedRows.addons[i].enabled),
                                                                  ![i].asked = TRUE],
                             revision |-> sharedRows.revision + 1]
    /\ lockQueue' = Append(lockQueue, CatOp("reload", 0, "", FALSE, NoRevision))
    /\ UNCHANGED <<site, installed, registry, mgrRevision, reloaded, lostUpdates>>
----------------------------------------------------------------------------
(* The mutations.                                                          *)
CatTurn(kind) == lockQueue # <<>> /\ Head(lockQueue).kind = kind
                               /\ lockQueue' = Tail(lockQueue)

(* The callback returns before it changes anything.                        *)
CatNothing == UNCHANGED <<installed, registry, mgrRevision, sharedRows, reloaded, lostUpdates>>

(* bumpRevision() and persist().                                           *)
Commit(list) ==
    /\ installed' = list
    /\ mgrRevision' = mgrRevision + 1
    /\ sharedRows' = [addons |-> list, revision |-> mgrRevision + 1]
    /\ lostUpdates' = IF Head(lockQueue).match \in {NoRevision, mgrRevision}
                      THEN lostUpdates ELSE 1
    /\ UNCHANGED reloaded

MayAutoEnable(kind) == MinTrusted => kind = "listed"

(* The first addon of the array with this base or this manifest URL.       *)
Matching(base, at) == {i \in DOMAIN installed :
                          installed[i].base = base \/ installed[i].at = at}
FirstOf(S) == CHOOSE i \in S : \A j \in S : i <= j

UpdatedAddon(a, op, s, enable) ==
    [a EXCEPT !.manifest = s.kind, !.base = op.url, !.at = s.to, !.orig = op.url,
              !.admission = IF enable THEN "validated" ELSE @]

NextOrder(list) == CHOOSE n \in {0} \cup {list[i].order + 1 : i \in DOMAIN list} :
                       \A i \in DOMAIN list : list[i].order < n

NewAddon(op, s, enable) ==
    [id |-> FreeId(installed), base |-> op.url, at |-> s.to, orig |-> op.url,
     manifest |-> s.kind, enabled |-> enable,
     admission |-> IF enable THEN "validated" ELSE "pending",
     order |-> NextOrder(installed), timeout |-> 0, asked |-> FALSE, admitted |-> s.kind]

(* installInternal()                                                       *)
Install ==
    LET op == Head(lockQueue)
        s == [to |-> site[op.url].to, kind |-> site[site[op.url].to].kind]
        enable == op.arg /\ MayAutoEnable(s.kind)
        old == Matching(op.url, s.to)
        i == FirstOf(old)
        a == UpdatedAddon(installed[i], op, s, enable)
        list == IF old = {} THEN Append(installed, NewAddon(op, s, enable))
                ELSE [installed EXCEPT ![i] = a]
        reg == IF old = {} \/ ~a.enabled THEN registry
               ELSE Register(Unregister(registry, a.id), a)
    IN  /\ CatTurn("install")
        /\ IF s.kind \in Manifests
           THEN Commit(list) /\ registry' = Reconcile(reg, list)
           ELSE CatNothing
        /\ UNCHANGED <<site, catCounts>>

Uninstall ==
    LET op == Head(lockQueue)
    IN  /\ CatTurn("remove")
        /\ IF op.id \in Ids(installed)
           THEN /\ Commit(RemoveAt(installed, IndexOf(installed, op.id)))
                /\ registry' = Unregister(registry, op.id)
           ELSE CatNothing
        /\ UNCHANGED <<site, catCounts>>

SetEnabled ==
    LET op == Head(lockQueue)
        list == [installed EXCEPT ![IndexOf(installed, op.id)].enabled = op.arg,
                                  ![IndexOf(installed, op.id)].admission = Toggled(op.arg),
                                  ![IndexOf(installed, op.id)].asked = TRUE]
    IN  /\ CatTurn("enable")
        /\ IF op.id \in Ids(installed)
           THEN Commit(list) /\ registry' = Reconcile(registry, list)
           ELSE CatNothing
        /\ UNCHANGED <<site, catCounts>>

(* BUG: the provider is not built anew.                                    *)
SetTimeoutOnly ==
    LET op == Head(lockQueue)
        list == [installed EXCEPT ![IndexOf(installed, op.id)].timeout = NewTimeout]
    IN  /\ CatTurn("timeout")
        /\ IF op.id \in Ids(installed)
           THEN Commit(list) /\ registry' = Reconcile(registry, list)
           ELSE CatNothing
        /\ UNCHANGED <<site, catCounts>>

(* setTimeout(): the provider captured the old one, so it is built anew.   *)
SetTimeout ==
    LET op == Head(lockQueue)
        list == [installed EXCEPT ![IndexOf(installed, op.id)].timeout = NewTimeout]
        reg == Register(Unregister(registry, op.id), list[IndexOf(list, op.id)])
    IN  /\ CatTurn("timeout")
        /\ IF op.id \in Ids(installed)
           THEN Commit(list) /\ registry' = Reconcile(reg, list)
           ELSE CatNothing
        /\ UNCHANGED <<site, catCounts>>

(* The orders become 0, 1, ... again.                                      *)
Renumbered(list) ==
    [i \in DOMAIN list |->
        [list[i] EXCEPT !.order = Cardinality({j \in DOMAIN list : <<j, i>> \in SortAddons(list)})]]

(* reorder(), the named addon first, the others in the array's order.      *)
Reorder ==
    LET op == Head(lockQueue)
        ranked == [i \in DOMAIN installed |->
                      [installed[i] EXCEPT !.order = IF installed[i].id = op.id THEN 0 ELSE i]]
        list == Renumbered(ranked)
    IN  /\ CatTurn("reorder")
        /\ Commit(list) /\ registry' = Reconcile(registry, list)
        /\ UNCHANGED <<site, catCounts>>

(* reloadFromStorage()                                                     *)
Reload ==
    LET list == Renumbered(sharedRows.addons) IN
    /\ CatTurn("reload")
    /\ IF sharedRows.revision > mgrRevision
       THEN /\ installed' = list
            /\ mgrRevision' = sharedRows.revision
            /\ registry' = Reconcile(registry, list)
            /\ reloaded' = reloaded \cup Ids(list)
            /\ UNCHANGED <<sharedRows, lostUpdates>>
       ELSE CatNothing
    /\ UNCHANGED <<site, catCounts>>
----------------------------------------------------------------------------
CatNext ==
    \/ RequestInstall \/ RequestRefresh \/ RequestRemove \/ RequestPatch \/ RequestReorder
    \/ SiteChanges \/ PeerChanges
    \/ Install \/ Uninstall \/ SetEnabled \/ SetTimeout \/ Reorder \/ Reload

CatSpec == CatInit /\ [][CatNext]_catVars
----------------------------------------------------------------------------
AddonRecords ==
    [id : 1..MaxRequests, base : Urls, at : Urls, orig : Urls, manifest : Manifests,
     enabled : BOOLEAN, admission : {"validated", "pending", "disabled"},
     order : Nat, timeout : {0, NewTimeout}, asked : BOOLEAN, admitted : Manifests]

CatTypeOK ==
    /\ \A i \in DOMAIN installed : installed[i] \in AddonRecords
    /\ \A i \in DOMAIN sharedRows.addons : sharedRows.addons[i] \in AddonRecords
    /\ \A u \in Urls : site[u] \in [to : Urls, kind : Served]
    /\ mgrRevision \in Nat /\ reloaded \subseteq 1..MaxRequests
    /\ lostUpdates \in 0..1

(* No interleaving of mutations gives two addons an id or a place in the   *)
(* order, and the waterfall asks the enabled stream addons, all of them,   *)
(* each once and in that order; each provider has its addon's address,     *)
(* manifest and timeout, but for addons a reload has replaced.             *)
WaterfallExact ==
    /\ \A i, j \in DOMAIN installed :
          i # j => /\ installed[i].id # installed[j].id
                   /\ installed[i].order # installed[j].order
    /\ IdSeq(registry) = IdSeq(StreamEnabled(installed))
    /\ \A i \in DOMAIN registry :
          \/ registry[i] = Built(Addon(registry[i].id))
          \/ registry[i].id \in reloaded

(* The gate holds of an addon's first import: one no operator ever turned  *)
(* on or off is on only if the manifest it was first installed with was    *)
(* trusted enough, so no later refresh or re-import turns it on; and none  *)
(* still pending is on.  What a refresh brings in is not looked at: an     *)
(* addon that is on stays on with it (TrustedNow).                         *)
TrustGate ==
    \A i \in DOMAIN installed :
        /\ installed[i].enabled => installed[i].asked \/ MayAutoEnable(installed[i].admitted)
        /\ installed[i].admission = "pending" => ~installed[i].enabled

(* The comment of installInternal: "imports below the configured minimum   *)
(* trust level install disabled + pending until an operator enables them". *)
(* A refresh or a re-import is such an import, and leaves `enabled`.       *)
TrustedNow ==
    \A i \in DOMAIN installed :
        installed[i].enabled => installed[i].asked \/ MayAutoEnable(installed[i].manifest)

(* The comment of setTimeout: a provider captures its settings, so it is   *)
(* registered anew when they change.                                       *)
ProvidersCurrent ==
    \A i \in DOMAIN registry : registry[i] = Built(Addon(registry[i].id))

(* "stale revisions fail with a conflict error" (docs/api-reference.md).   *)
NoLostUpdate == lostUpdates = 0
=============================================================================
