----------------------------- MODULE MutationAudit -----------------------------
(***************************************************************************)
(* What the audit log says of the mutations of one replica: record() and   *)
(* its ring of src/security/audit.ts, and the handlers of                  *)
(* src/routes/addons.routes.ts that mutate first and record afterwards.    *)
(*                                                                         *)
(* A removal waits for its turn in the manager's chain, a quarantine is    *)
(* made or released at once; a record enters the ring at once and the      *)
(* file when the append ends.                                              *)
(***************************************************************************)
EXTENDS Integers, FiniteSets, Sequences, SequencesExt

CONSTANTS
    Operators,      \* requests that mutate
    OperatorKinds,  \* what they do: "config", "quarantine" or "release"
    FailClosed,     \* NODE_ENV is production
    MemoryCap,      \* events kept in memory
    MaxAuditFaults  \* bound: appends that fail, and crashes

ASSUME AuditAssumption ==
    /\ OperatorKinds \subseteq {"config", "quarantine", "release"} /\ FailClosed \in BOOLEAN
    /\ MemoryCap \in Nat \ {0} /\ MaxAuditFaults \in Nat

VARIABLES
    manRev,       \* the manager's revision
    held,         \* the provider is quarantined
    chain,        \* requests waiting in the manager's promise chain
    operator,     \* what each request is at
    ring,         \* events in memory
    auditFile,    \* events in audit.jsonl
    auditFaults

auditVars == <<manRev, held, chain, operator, ring, auditFile, auditFaults>>

NoEvent == [by |-> "nobody", rev |-> 0, outcome |-> "none"]
(* `own` is history: the revision right after the request's own mutation.  *)
NotAsked == [pc |-> "idle", own |-> 0, event |-> NoEvent, code |-> 0]

AuditInit ==
    /\ manRev = 0 /\ held = FALSE /\ chain = <<>>
    /\ operator = [o \in Operators |-> NotAsked]
    /\ ring = <<>> /\ auditFile = <<>> /\ auditFaults = 0

OperatorIs(o, new) == operator' = [operator EXCEPT ![o] = new]
----------------------------------------------------------------------------
(* ring.push() and shift().                                                *)
Remember(e) ==
    ring' = IF Len(ring) < MemoryCap THEN Append(ring, e) ELSE Append(Tail(ring), e)

(* auditMutation() and record(): the revision is the one of this moment.   *)
Recording(o, new, outcome) ==
    LET e == [by |-> o, rev |-> manRev, outcome |-> outcome] IN
    /\ Remember(e)
    /\ OperatorIs(o, [new EXCEPT !.pc = "appending", !.event = e])

(* DELETE /v1/addons/:providerId: manager.remove() joins the chain.        *)
AskChange(o) ==
    /\ operator[o].pc = "idle" /\ "config" \in OperatorKinds
    /\ chain' = Append(chain, o)
    /\ OperatorIs(o, [NotAsked EXCEPT !.pc = "chained"])
    /\ UNCHANGED <<manRev, held, ring, auditFile, auditFaults>>

(* Its turn, saves included: the addon is removed and the revision goes    *)
(* up, or the addon is gone.  The next turn may come before this handler   *)
(* goes on.                                                                *)
ChangeApplies(o) ==
    /\ chain # <<>> /\ Head(chain) = o
    /\ chain' = Tail(chain)
    /\ \/ manRev' = manRev + 1
          /\ OperatorIs(o, [operator[o] EXCEPT !.pc = "changed", !.own = manRev + 1])
       \/ OperatorIs(o, [operator[o] EXCEPT !.pc = "missing"]) /\ UNCHANGED manRev
    /\ UNCHANGED <<held, ring, auditFile, auditFaults>>

RecordChange(o) ==
    /\ operator[o].pc \in {"changed", "missing"}
    /\ Recording(o, operator[o], IF operator[o].pc = "changed" THEN "success" ELSE "failure")
    /\ UNCHANGED <<manRev, held, chain, auditFile, auditFaults>>

(* POST /v1/quarantine/:providerId                                         *)
QuarantineByHand(o) ==
    /\ operator[o].pc = "idle" /\ "quarantine" \in OperatorKinds
    /\ held' = TRUE
    /\ Recording(o, [NotAsked EXCEPT !.own = manRev], "success")
    /\ UNCHANGED <<manRev, chain, auditFile, auditFaults>>

(* POST /v1/quarantine/:providerId/release; of none it is a 404, which is  *)
(* not recorded.                                                           *)
ReleaseByHand(o) ==
    /\ operator[o].pc = "idle" /\ "release" \in OperatorKinds /\ held
    /\ held' = FALSE
    /\ Recording(o, [NotAsked EXCEPT !.own = manRev], "success")
    /\ UNCHANGED <<manRev, chain, auditFile, auditFaults>>

Reply(o) == IF operator[o].event.outcome = "failure" THEN 404 ELSE 200

(* appendFile() calls that overlap end in any order.                       *)
AppendEnds(o) ==
    /\ operator[o].pc = "appending"
    /\ auditFile' = Append(auditFile, operator[o].event)
    /\ OperatorIs(o, [operator[o] EXCEPT !.pc = "over",
                      !.code = Reply(o)])
    /\ UNCHANGED <<manRev, held, chain, ring, auditFaults>>

(* An append that fails is an error of the request in production, and a    *)
(* line on the console elsewhere.                                          *)
AppendFails(o) ==
    /\ operator[o].pc = "appending" /\ auditFaults < MaxAuditFaults
    /\ auditFaults' = auditFaults + 1
    /\ OperatorIs(o, [operator[o] EXCEPT !.pc = "over", !.code = IF FailClosed THEN 500 ELSE Reply(o)])
    /\ UNCHANGED <<manRev, held, chain, ring, auditFile>>

(* The process dies: its memory, the quarantine in it and the waiting      *)
(* requests are gone, the store and the file are not.                      *)
ProcessDies ==
    /\ auditFaults < MaxAuditFaults /\ auditFaults' = auditFaults + 1
    /\ ring' = <<>> /\ chain' = <<>> /\ held' = FALSE
    /\ operator' = [o \in Operators |->
                       IF operator[o].pc \in {"idle", "over"} THEN operator[o]
                       ELSE [operator[o] EXCEPT !.pc = "lost"]]
    /\ UNCHANGED <<manRev, auditFile>>
----------------------------------------------------------------------------
AuditNext ==
    \/ \E o \in Operators :
          \/ AskChange(o) \/ ChangeApplies(o) \/ RecordChange(o)
          \/ QuarantineByHand(o) \/ ReleaseByHand(o) \/ AppendEnds(o) \/ AppendFails(o)
    \/ ProcessDies

AuditSpec == AuditInit /\ [][AuditNext]_auditVars
----------------------------------------------------------------------------
AuditEvents == [by : Operators, rev : Nat, outcome : {"success", "failure"}]

AuditTypeOK ==
    /\ manRev \in Nat /\ held \in BOOLEAN /\ auditFaults \in 0..MaxAuditFaults
    /\ chain \in Seq(Operators) /\ ring \in Seq(AuditEvents) /\ auditFile \in Seq(AuditEvents)
    /\ Len(ring) <= MemoryCap
    /\ \A o \in Operators :
          operator[o].pc \in {"idle", "chained", "changed", "missing", "appending", "over", "lost"}

TimesRecorded(o, log) == Cardinality({i \in DOMAIN log : log[i].by = o})

(* In production no request is answered well unless its event is in the    *)
(* file; a request that is over is in the file once, but for an append     *)
(* that failed, and so never for a request that did nothing.  The newest   *)
(* events of memory are in the order of their revisions and none tells a   *)
(* revision from before its own mutation.                                  *)
AuditSound ==
    /\ \A o \in Operators :
          /\ TimesRecorded(o, auditFile) <= 1
          /\ operator[o].code = 200 /\ FailClosed => TimesRecorded(o, auditFile) = 1
          /\ operator[o].pc = "over" => TimesRecorded(o, auditFile) = 1 \/ auditFaults > 0
          /\ operator[o].pc \in {"idle", "chained"} => TimesRecorded(o, auditFile \o ring) = 0
    /\ \A i, j \in DOMAIN ring : i < j => ring[i].rev <= ring[j].rev
    /\ \A i \in DOMAIN ring : ring[i].rev >= operator[ring[i].by].own
    /\ \A o \in Operators : operator[o].pc = "appending" =>
          \/ TimesRecorded(o, ring) = 1
          \/ Len(ring) = MemoryCap /\ \A i \in DOMAIN ring : ring[i].rev >= operator[o].event.rev

(* docs/adr/0003-phase-1-security-boundaries.md:22: "Every management      *)
(* mutation is append-only audited (JSONL + in-memory ring)."              *)
EveryMutationAudited ==
    \A o \in Operators :
        operator[o].own > 0 /\ operator[o].pc \in {"over", "lost"} => TimesRecorded(o, auditFile) = 1

(* security/audit.ts:30: an event has the revision "after the mutation".   *)
RevisionIsOwn == \A i \in DOMAIN ring : ring[i].outcome = "success" => ring[i].rev = operator[ring[i].by].own
=============================================================================
