--------------------------- MODULE ImportRequests ---------------------------
(***************************************************************************)
(* The import endpoints (src/routes/import.routes.ts) and the jobs they    *)
(* enqueue (src/jobs/handlers/importHandlers.ts): a request with an        *)
(* Idempotency-Key is answered from the replies of its replica, or by the  *)
(* job that has the key, or by a new job; the job installs its URLs one    *)
(* after the other and looks at its abort signal between them.             *)
(*                                                                         *)
(* The job engine's own states are JobEngine's: here a job runs once.      *)
(***************************************************************************)
EXTENDS Integers, FiniteSets, Sequences

CONSTANTS
    ImportHosts,   \* replicas
    Importers,     \* requests that may be in progress at once
    IdemKeys,      \* Idempotency-Key values
    NoJob,         \* stands for "no job"
    ListLength,    \* URLs of an import
    MaxImports,    \* bound: requests
    MaxReplyLosses \* bound: replies forgotten: 24 hours pass, a replica restarts

ASSUME ImportAssumption ==
    ImportHosts # {} /\ IdemKeys # {} /\ ListLength \in Nat
    /\ MaxImports \in Nat /\ MaxReplyLosses \in Nat

(* "urls" is multi-addon-import and repository-import, which pass their    *)
(* abort signal on; stremio-account-import does not.                       *)
ImportKinds == {"urls", "stremio"}

VARIABLES
    replies,      \* idempotency map of each replica: the job answered
    importJobs,   \* rows of the job table, in insertion order
    importer,     \* what each request is doing
    answered,     \* history: answers, [key, job, overlapped]
    importCounts

importVars == <<replies, importJobs, importer, answered, importCounts>>

IdleImport == [pc |-> "idle", host |-> CHOOSE h \in ImportHosts : TRUE,
               key |-> CHOOSE k \in IdemKeys : TRUE, kind |-> "urls",
               job |-> NoJob, overlapped |-> FALSE]

ImportInit ==
    /\ replies = [h \in ImportHosts |-> [k \in IdemKeys |-> NoJob]]
    /\ importJobs = <<>>
    /\ importer = [c \in Importers |-> IdleImport]
    /\ answered = {}
    /\ importCounts = [requests |-> 0, losses |-> 0]

ImportCount(what, max) == /\ importCounts[what] < max
                          /\ importCounts' = [importCounts EXCEPT ![what] = @ + 1]

Answer(key, job, overlapped) ==
    answered' = answered \cup {[key |-> key, job |-> job, overlapped |-> overlapped]}
----------------------------------------------------------------------------
(* Requests.                                                               *)
Rivals(c, k) == {d \in Importers \ {c} : importer[d].pc # "idle" /\ importer[d].key = k}

(* tryIdempotency(): the reply of this replica, else jobEngine.enqueue.    *)
ReceiveImport(c, h, k, kind) ==
    /\ importer[c].pc = "idle"
    /\ ImportCount("requests", MaxImports)
    /\ IF replies[h][k] # NoJob
       THEN Answer(k, replies[h][k], FALSE) /\ UNCHANGED importer
       ELSE /\ importer' = [d \in Importers |->
                   IF d = c THEN [pc |-> "asking", host |-> h, key |-> k, kind |-> kind,
                                  job |-> NoJob, overlapped |-> Rivals(c, k) # {}]
                   ELSE IF d \in Rivals(c, k) THEN [importer[d] EXCEPT !.overlapped = TRUE]
                   ELSE importer[d]]
            /\ UNCHANGED answered
    /\ UNCHANGED <<replies, importJobs>>

WithKey(k) == {j \in DOMAIN importJobs : importJobs[j].key = k}
Latest(S) == CHOOSE j \in S : \A i \in S : i <= j

(* getJobByIdempotencyKey, the latest row of the key.                      *)
AskForKey(c) ==
    LET same == WithKey(importer[c].key) IN
    /\ importer[c].pc = "asking"
    /\ importer' = [importer EXCEPT ![c].pc = IF same = {} THEN "inserting" ELSE "replying",
                                    ![c].job = IF same = {} THEN NoJob ELSE Latest(same)]
    /\ UNCHANGED <<replies, importJobs, answered, importCounts>>

(* enqueueJob                                                              *)
InsertImport(c) ==
    /\ importer[c].pc = "inserting"
    /\ importJobs' = Append(importJobs,
           [key |-> importer[c].key, kind |-> importer[c].kind, status |-> "queued",
            done |-> 0, aborted |-> FALSE, late |-> 0])
    /\ importer' = [importer EXCEPT ![c].pc = "replying", ![c].job = Len(importJobs) + 1]
    /\ UNCHANGED <<replies, answered, importCounts>>

(* storeIdempotency() and the 202.                                         *)
ReplyImport(c) ==
    LET i == importer[c] IN
    /\ i.pc = "replying"
    /\ replies' = [replies EXCEPT ![i.host][i.key] = i.job]
    /\ Answer(i.key, i.job, i.overlapped)
    /\ importer' = [importer EXCEPT ![c] = IdleImport]
    /\ UNCHANGED <<importJobs, importCounts>>

(* A storage call throws: 500, nothing is remembered.                      *)
ImportFails(c) ==
    /\ importer[c].pc \in {"asking", "inserting"}
    /\ ImportCount("losses", MaxReplyLosses)
    /\ importer' = [importer EXCEPT ![c] = IdleImport]
    /\ UNCHANGED <<replies, importJobs, answered>>

(* The reply is a day old, or the replica starts again.                    *)
ForgetReply(h, k) ==
    /\ replies[h][k] # NoJob
    /\ ImportCount("losses", MaxReplyLosses)
    /\ replies' = [replies EXCEPT ![h][k] = NoJob]
    /\ UNCHANGED <<importJobs, importer, answered>>
----------------------------------------------------------------------------
(* Jobs.                                                                   *)
RunsTo(j, rec) == importJobs' = [importJobs EXCEPT ![j] = rec]
OnlyJobs == UNCHANGED <<replies, importer, answered, importCounts>>

StartImport(j) ==
    /\ importJobs[j].status = "queued"
    /\ RunsTo(j, [importJobs[j] EXCEPT !.status = "running"])
    /\ OnlyJobs

HeedsSignal(kind) == kind # "stremio"

(* The install of the URL whose turn it is ends.                           *)
Installed(job) == [job EXCEPT !.done = @ + 1, !.late = IF job.aborted THEN @ + 1 ELSE @]

(* BUG: the signal is looked at before the first URL only.                 *)
InstallNextDeaf(j) ==
    LET job == importJobs[j] IN
    /\ job.status \in {"running", "cancelled"} /\ job.done < ListLength
    /\ IF job.aborted /\ HeedsSignal(job.kind) /\ job.done = 0
       THEN RunsTo(j, [job EXCEPT !.status = "stopped"])
       ELSE RunsTo(j, Installed(job))
    /\ OnlyJobs

(* The handler, or installMany, turns to the next URL: once the signal is  *)
(* aborted it throws instead, unless nobody gave it the signal.            *)
InstallNext(j) ==
    LET job == importJobs[j] IN
    /\ job.status \in {"running", "cancelled"} /\ job.done < ListLength
    /\ IF job.aborted /\ HeedsSignal(job.kind)
       THEN RunsTo(j, [job EXCEPT !.status = "stopped"])
       ELSE RunsTo(j, Installed(job))
    /\ OnlyJobs

EndImport(j) ==
    LET job == importJobs[j] IN
    /\ job.status \in {"running", "cancelled"} /\ job.done = ListLength
    /\ RunsTo(j, [job EXCEPT !.status = IF @ = "running" THEN "completed" ELSE "stopped"])
    /\ OnlyJobs

(* DELETE /v1/import/jobs/:jobId: the signal is aborted while a URL may    *)
(* be under way, whose install still ends.                                 *)
CancelImport(j) ==
    LET job == importJobs[j] IN
    /\ job.status \in {"queued", "running"}
    /\ \/ RunsTo(j, [job EXCEPT !.status = IF @ = "queued" THEN "stopped" ELSE "cancelled",
                                !.aborted = TRUE])
       \/ /\ job.status = "running" /\ job.done < ListLength
          /\ RunsTo(j, [job EXCEPT !.status = "cancelled", !.aborted = TRUE,
                                   !.done = @ + 1, !.late = 1])
    /\ OnlyJobs
----------------------------------------------------------------------------
ImportNext ==
    \/ \E c \in Importers :
          \/ \E h \in ImportHosts, k \in IdemKeys, kind \in ImportKinds :
                ReceiveImport(c, h, k, kind)
          \/ AskForKey(c) \/ InsertImport(c) \/ ReplyImport(c) \/ ImportFails(c)
    \/ \E h \in ImportHosts, k \in IdemKeys : ForgetReply(h, k)
    \/ \E j \in DOMAIN importJobs :
          StartImport(j) \/ InstallNext(j) \/ EndImport(j) \/ CancelImport(j)

ImportSpec == ImportInit /\ [][ImportNext]_importVars
----------------------------------------------------------------------------
ImportTypeOK ==
    /\ replies \in [ImportHosts -> [IdemKeys -> DOMAIN importJobs \cup {NoJob}]]
    /\ \A j \in DOMAIN importJobs : importJobs[j] \in
          [key : IdemKeys, kind : ImportKinds, done : 0..ListLength, aborted : BOOLEAN,
           status : {"queued", "running", "cancelled", "stopped", "completed"},
           late : 0..ListLength]
    /\ importer \in [Importers ->
          [pc : {"idle", "asking", "inserting", "replying"}, host : ImportHosts,
           key : IdemKeys, kind : ImportKinds, job : DOMAIN importJobs \cup {NoJob},
           overlapped : BOOLEAN]]

(* Requests with one key that did not overlap are all given the same job,  *)
(* whichever replica answers and even when a reply was forgotten; and a    *)
(* cancelled import that has the signal ends at most the URL under way.    *)
ImportsOnce ==
    /\ \A a, b \in answered :
          a.key = b.key /\ a.job # b.job =>
              \E x \in answered \cup {importer[c] : c \in Importers} :
                  x.key = a.key /\ x.overlapped
    /\ \A j \in DOMAIN importJobs :
          HeedsSignal(importJobs[j].kind) => importJobs[j].late <= 1
=============================================================================
