---------------------------- MODULE DebridTransfer ----------------------------
(***************************************************************************)
(* Torrents on the debrid account: src/debrid/service.ts over a resolver   *)
(* that keeps its torrents on the account (src/debrid/realdebrid.ts;       *)
(* alldebrid.ts takes the same steps with one call less), the lookups of   *)
(* src/debrid/torrentSources.ts and the transfer job of                    *)
(* src/jobs/handlers/uncachedTransferHandler.ts with its admission.        *)
(*                                                                         *)
(* A lookup takes only what the provider has cached and must leave nothing *)
(* else behind; a transfer leaves its torrent there while it downloads.    *)
(* The engine runs a transfer that did not succeed again, from the start.  *)
(* Left out: an answer of the provider that is lost after it acted, and a  *)
(* worker that dies.                                                       *)
(***************************************************************************)
EXTENDS Integers, FiniteSets

CONSTANTS
    TorrentLookups,          \* resolutions of a stream request, of one torrent
    Transfers,        \* requests of one user for a transfer, of other torrents
    NoLink,           \* nothing cached
    UserLimit,        \* cfg.debridMaxUserTransfers
    MaxAttempts,      \* maxAttempts of the job, 3 when the route enqueues it
    MaxReconfigs,     \* bound: changes of the account's key
    MaxTransferPolls  \* bound: polls before maxWaitSec has passed

ASSUME DebridAssumption ==
    /\ UserLimit \in Nat /\ MaxAttempts \in Nat \ {0}
    /\ MaxReconfigs \in Nat /\ MaxTransferPolls \in Nat
    /\ TorrentLookups \cap Transfers = {}

Tasks == TorrentLookups \cup Transfers

VARIABLES
    debridAccount,  \* the account of the service's resolver
    task,           \* each resolution: stage, account, attempt, how its attempts ended
    torrents,       \* torrents on the accounts: account, task and attempt
    linkCache,      \* the lookups' torrent: account of the link that is cached
    undeletable,    \* history: torrents whose deletion failed
    submitted       \* history: magnets uploaded by each task

debridVars == <<debridAccount, task, torrents, linkCache, undeletable, submitted>>

NewTask(t) ==
    [stage |-> "idle", acct |-> 0, polls |-> 0, aborted |-> "no",
     attempt |-> IF t \in Transfers THEN 0 ELSE 1, ends |-> [k \in 1..MaxAttempts |-> "none"]]

DebridInit ==
    /\ debridAccount = 0
    /\ task = [t \in Tasks |-> NewTask(t)]
    /\ torrents = {} /\ undeletable = {}
    /\ linkCache = NoLink
    /\ submitted = [t \in Tasks |-> 0]
----------------------------------------------------------------------------
AtStage(t, stage) == task[t].stage = stage
TorrentGoes(t, stage) == task' = [task EXCEPT ![t].stage = stage]
Keeps(t) == t \in Transfers       \* input.allowUncached
Torrent(t) == [acct |-> task[t].acct, task |-> t, attempt |-> task[t].attempt]
EndOf(x) == task[x.task].ends[x.attempt]

(* executeJob() when the handler is through, with its result or an error.  *)
(* Cancelled, the job's record stays as cancelJob() left it; what failed,  *)
(* or was drained, is queued again while attempts are left, and so is a    *)
(* success whose completeJob() throws.                                     *)
AfterEnd(t, how) ==
    IF ~Keeps(t) \/ task[t].aborted = "cancel" \/ task[t].attempt = MaxAttempts THEN {"ended"}
    ELSE IF how # "resolved" \/ task[t].aborted = "drain" THEN {"queued"} ELSE {"ended", "queued"}

EndsAs(t, how) ==
    \E stage \in AfterEnd(t, how) :
       task' = [task EXCEPT ![t].stage = stage, ![t].ends[task[t].attempt] = how]

(* cleanup() of the resolver at hand, best effort: a failure is dropped.   *)
Cleanup(x) ==
    \/ torrents' = torrents \ {x} /\ UNCHANGED undeletable
    \/ undeletable' = undeletable \cup {x} /\ UNCHANGED torrents

(* debridService.cleanup() asks the resolver of the moment.                *)
ServiceCleanup(t) ==
    IF task[t].acct = debridAccount THEN Cleanup(Torrent(t)) ELSE UNCHANGED <<torrents, undeletable>>

NoCleanup == UNCHANGED <<torrents, undeletable>>

(* The settings change: configure() clears the cache.                      *)
Configure ==
    /\ debridAccount < MaxReconfigs
    /\ debridAccount' = debridAccount + 1 /\ linkCache' = NoLink
    /\ UNCHANGED <<task, torrents, undeletable, submitted>>

(* resolveCached(): the cache, or the provider.                            *)
LookupTorrent(t) ==
    /\ t \in TorrentLookups /\ AtStage(t, "idle")
    /\ task' = IF linkCache # NoLink
               THEN [task EXCEPT ![t].stage = "ended", ![t].ends[1] = "resolved", ![t].acct = linkCache]
               ELSE [task EXCEPT ![t].stage = "adding", ![t].acct = debridAccount]
    /\ UNCHANGED <<debridAccount, torrents, linkCache, undeletable, submitted>>

(* The link is cached whichever account is set by now.                     *)
SetCache(t) == linkCache' = IF Keeps(t) THEN linkCache ELSE task[t].acct

AddMagnet(t) ==
    /\ AtStage(t, "adding")
    /\ \/ /\ torrents' = torrents \cup {Torrent(t)}
          /\ submitted' = [submitted EXCEPT ![t] = @ + 1]
          /\ TorrentGoes(t, "examining")
       \/ EndsAs(t, "provider-error") /\ UNCHANGED <<torrents, submitted>>
    /\ UNCHANGED <<debridAccount, linkCache, undeletable>>

(* BUG: the catch block leaves the torrent where it is.                    *)
CallThrowsKept(t) ==
    /\ task[t].stage \in {"examining", "unrestricting"}
    /\ EndsAs(t, "provider-error") /\ NoCleanup
    /\ UNCHANGED <<debridAccount, linkCache, submitted>>

(* A call of the provider fails or is refused.                             *)
CallThrows(t) ==
    /\ task[t].stage \in {"examining", "unrestricting"}
    /\ EndsAs(t, "provider-error")
    /\ IF Keeps(t) THEN NoCleanup ELSE Cleanup(Torrent(t))
    /\ UNCHANGED <<debridAccount, linkCache, submitted>>

(* info, selectFiles and up to four looks: no video file or a dead torrent,*)
(* not cached, or downloaded.                                              *)
Examined(t) ==
    /\ AtStage(t, "examining")
    /\ \/ EndsAs(t, "invalid") /\ Cleanup(Torrent(t))
       \/ ~Keeps(t) /\ EndsAs(t, "uncached") /\ Cleanup(Torrent(t))
       \/ Keeps(t) /\ TorrentGoes(t, "polling") /\ NoCleanup
       \/ TorrentGoes(t, "unrestricting") /\ NoCleanup
    /\ UNCHANGED <<debridAccount, linkCache, submitted>>

(* A transfer with a link writes its progress, which may throw.            *)
Unrestricted(t) ==
    /\ AtStage(t, "unrestricting")
    /\ \/ EndsAs(t, "resolved") /\ SetCache(t) /\ NoCleanup
       \/ Keeps(t) /\ EndsAs(t, "store-error") /\ NoCleanup /\ UNCHANGED linkCache
       \/ EndsAs(t, "provider-error") /\ Cleanup(Torrent(t)) /\ UNCHANGED linkCache
    /\ UNCHANGED <<debridAccount, submitted>>
----------------------------------------------------------------------------
(* POST /v1/debrid/transfers: the jobs queued or running are counted, and  *)
(* after an await the request's own is queued.                             *)
ActiveTransfers ==
    {t \in Transfers : task[t].stage \notin {"idle", "counted", "ended"} /\ task[t].aborted # "cancel"}

Count(t) ==
    /\ t \in Transfers /\ AtStage(t, "idle")
    /\ TorrentGoes(t, IF Cardinality(ActiveTransfers) >= UserLimit THEN "ended" ELSE "counted")
    /\ UNCHANGED <<debridAccount, torrents, linkCache, undeletable, submitted>>

EnqueueTransfer(t) ==
    /\ AtStage(t, "counted") /\ TorrentGoes(t, "queued")
    /\ UNCHANGED <<debridAccount, torrents, linkCache, undeletable, submitted>>

(* The job is acquired and its handler starts from the beginning.          *)
StartTransfer(t) ==
    /\ AtStage(t, "queued")
    /\ task' = [task EXCEPT ![t].stage = "adding", ![t].acct = debridAccount, ![t].polls = 0,
                            ![t].aborted = "no", ![t].attempt = @ + 1]
    /\ UNCHANGED <<debridAccount, torrents, linkCache, undeletable, submitted>>

(* The job is cancelled, which ends a queued one; or its worker drains.    *)
AbortTransfer(t, why) ==
    /\ t \in Transfers /\ task[t].stage \notin {"idle", "counted", "ended"}
    /\ IF AtStage(t, "queued") THEN why = "cancel" /\ TorrentGoes(t, "ended")
       ELSE task[t].aborted # "cancel" /\ task' = [task EXCEPT ![t].aborted = why]
    /\ UNCHANGED <<debridAccount, torrents, linkCache, undeletable, submitted>>

(* pollTransferStatus(): still downloading or an error, which are waited   *)
(* out; a dead torrent; or the link, also when the job is aborted in the   *)
(* meantime.  Another account does not know it.                            *)
PollTorrent(t) ==
    /\ AtStage(t, "polling") /\ task[t].polls < MaxTransferPolls
    /\ \/ /\ task[t].aborted = "no" /\ NoCleanup
          /\ task' = [task EXCEPT ![t].polls = @ + 1]
       \/ task[t].acct = debridAccount /\ EndsAs(t, "invalid") /\ Cleanup(Torrent(t))
       \/ task[t].acct = debridAccount /\ EndsAs(t, "resolved") /\ NoCleanup
    /\ UNCHANGED <<debridAccount, linkCache, submitted>>

(* The abort is seen at the loop's top or interrupts its wait, or the time *)
(* is over.                                                                *)
StopPolling(t) ==
    /\ AtStage(t, "polling") /\ (task[t].aborted # "no" \/ task[t].polls = MaxTransferPolls)
    /\ EndsAs(t, IF task[t].aborted # "no" THEN "aborted" ELSE "timed-out")
    /\ ServiceCleanup(t)
    /\ UNCHANGED <<debridAccount, linkCache, submitted>>

(* updateProgress or heartbeat throws: before the magnet is sent, or in    *)
(* the loop, where the torrent is cleaned up only when aborted too.        *)
StoreFails(t) ==
    /\ Keeps(t) /\ task[t].stage \in {"adding", "polling"}
    /\ EndsAs(t, IF task[t].aborted # "no" THEN "aborted" ELSE "store-error")
    /\ IF task[t].aborted # "no" /\ AtStage(t, "polling") THEN ServiceCleanup(t) ELSE NoCleanup
    /\ UNCHANGED <<debridAccount, linkCache, submitted>>

DebridNext ==
    \/ Configure
    \/ \E t \in Tasks :
          \/ LookupTorrent(t) \/ AddMagnet(t) \/ CallThrows(t) \/ Examined(t) \/ Unrestricted(t)
          \/ Count(t) \/ EnqueueTransfer(t) \/ StartTransfer(t)
          \/ (\E why \in {"cancel", "drain"} : AbortTransfer(t, why))
          \/ PollTorrent(t) \/ StopPolling(t) \/ StoreFails(t)

DebridSpec == DebridInit /\ [][DebridNext]_debridVars
----------------------------------------------------------------------------
DebridTypeOK ==
    /\ debridAccount \in 0..MaxReconfigs
    /\ \A t \in Tasks :
          /\ task[t].stage \in {"idle", "counted", "queued", "adding", "examining",
                                "unrestricting", "polling", "ended"}
          /\ task[t].attempt \in 0..MaxAttempts
          /\ task[t].ends \in [1..MaxAttempts -> {"none", "resolved", "uncached", "invalid",
                "provider-error", "aborted", "timed-out", "store-error"}]
    /\ torrents \cup undeletable \subseteq [acct : 0..MaxReconfigs, task : Tasks, attempt : 1..MaxAttempts]
    /\ linkCache \in 0..MaxReconfigs \cup {NoLink}

(* A torrent may be on the account: its attempt runs or gave the link, its *)
(* deletion failed, the account was changed under a transfer, or a         *)
(* transfer's attempt broke off where the handler does not clean up.       *)
MayStay(x) ==
    \/ x \in undeletable \/ EndOf(x) \in {"none", "resolved"}
    \/ /\ x.task \in Transfers
       /\ EndOf(x) \in {"provider-error", "store-error"} \/ x.acct # debridAccount

(* Whichever call fails, and however often the engine runs a transfer: a   *)
(* lookup that gives no link leaves no torrent, nor does an attempt at a   *)
(* transfer that was aborted, rejected or timed out; and an attempt        *)
(* uploads its magnet once however often it asks for its state.            *)
NothingLeftBehind ==
    /\ \A x \in torrents : MayStay(x)
    /\ \A t \in Tasks : submitted[t] <= task[t].attempt

(* src/jobs/handlers/uncachedTransferHandler.ts:59: "submits magnet once". *)
MagnetOnce == \A t \in Tasks : submitted[t] <= 1

(* A cached link belongs to the account that is configured.                *)
LinksOfAccount == linkCache \in {debridAccount, NoLink}

(* "Per-user transfer limit" of the 429 answer.                            *)
TransferLimitHolds == Cardinality(ActiveTransfers) <= UserLimit
=============================================================================
