--------------------------- MODULE FederatedFetch ---------------------------
(***************************************************************************)
(* Sources from federated backends: the loop of src/federation/service.ts, *)
(* which asks the backends one after the other in order of priority, with  *)
(* the circuit breaker and the daily budget of each backend, as concurrent *)
(* requests share them.  The routes pass neither a signal nor `force`.     *)
(***************************************************************************)
EXTENDS Breaker, FiniteSets

CONSTANTS
    Federations,       \* requests in flight at once
    Backends,          \* 1..n, in order of priority
    Upstreams,         \* normalised URLs of sources
    BackendBudget,     \* daily calls of a backend
    MaxFederations     \* bound: requests in all

ASSUME FederationAssumption ==
    /\ IsFiniteSet(Federations)
    /\ IsFiniteSet(Backends) /\ Backends = 1..Cardinality(Backends)
    /\ BackendBudget \in Nat \ {0} /\ MaxFederations \in Nat

VARIABLES
    breaker,   \* circuit of each backend, and its half-open trial
    spent,     \* calls consumed from the budget today
    fed,       \* each request: backend it is at, URLs it has seen, by backend
    begun,     \* requests begun so far
    asked,     \* history: answered calls of each backend today
    faults,    \* history: faults of a backend since its last success
    orphaned   \* history: backends skipped after their trial had been taken

fedVars == <<breaker, spent, fed, begun, asked, faults, orphaned>>

NoFed == [pc |-> "idle", at |-> 1, offers |-> [b \in Backends |-> {}],
          sources |-> [b \in Backends |-> {}]]

FedInit ==
    /\ breaker = [b \in Backends |-> NewBreaker]
    /\ spent = [b \in Backends |-> 0]
    /\ fed = [q \in Federations |-> NoFed]
    /\ begun = 0
    /\ asked = [b \in Backends |-> 0]
    /\ faults = [b \in Backends |-> 0]
    /\ orphaned = {}
----------------------------------------------------------------------------
BudgetSpent(b) == spent[b] >= BackendBudget
----------------------------------------------------------------------------
BeginFed(q) ==
    /\ fed[q].pc \in {"idle", "done"} /\ begun < MaxFederations
    /\ begun' = begun + 1
    /\ fed' = [fed EXCEPT ![q] = [NoFed EXCEPT !.pc = "next"]]
    /\ UNCHANGED <<breaker, spent, asked, faults, orphaned>>

(* The loop is at its end, or passes a backend by, or calls it: the        *)
(* half-open trial is taken before the budget is looked at.                *)
ConsiderBackend(q) ==
    LET b == fed[q].at
        skip == [fed EXCEPT ![q].at = b + 1]
    IN
    /\ fed[q].pc = "next"
    /\ IF b \notin Backends
       THEN fed' = [fed EXCEPT ![q].pc = "done"] /\ UNCHANGED <<breaker, orphaned>>
       ELSE /\ breaker' = [breaker EXCEPT ![b] = IF TrialAllowed(@) THEN TrialTaken(@) ELSE CircuitNow(@)]
            /\ fed' = IF TrialAllowed(breaker[b]) /\ ~BudgetSpent(b)
                      THEN [fed EXCEPT ![q].pc = "fetching"] ELSE skip
            /\ orphaned' = IF TrialAllowed(breaker[b]) /\ BudgetSpent(b) /\ TrialTaken(breaker[b]).trial
                           THEN orphaned \cup {b} ELSE orphaned
    /\ UNCHANGED <<spent, begun, asked, faults>>

PassOn(q) == [fed[q] EXCEPT !.pc = "next", !.at = @ + 1]

(* The backend answers with some sources: those whose URL no backend of    *)
(* this request has brought before are added.  Its call counts only now.   *)
BackendAnswers(q, offer) ==
    LET b == fed[q].at IN
    /\ fed[q].pc = "fetching"
    /\ breaker' = [breaker EXCEPT ![b] = AfterSuccess(@)]
    /\ spent' = [spent EXCEPT ![b] = IF @ < BackendBudget THEN @ + 1 ELSE @]
    /\ asked' = [asked EXCEPT ![b] = @ + 1]
    /\ faults' = [faults EXCEPT ![b] = 0]
    /\ fed' = [fed EXCEPT ![q] = [PassOn(q) EXCEPT
                   !.offers[b] = offer,
                   !.sources[b] = offer \ UNION {fed[q].sources[c] : c \in Backends}]]
    /\ UNCHANGED <<begun, orphaned>>

CountFault(b) == faults' = [faults EXCEPT ![b] = IF @ < FaultLimit THEN @ + 1 ELSE @]

(* The connection breaks: the failure is recorded.                         *)
BackendBreaks(q) ==
    LET b == fed[q].at IN
    /\ fed[q].pc = "fetching"
    /\ breaker' = [breaker EXCEPT ![b] = AfterFailure(@)]
    /\ CountFault(b)
    /\ fed' = [fed EXCEPT ![q] = PassOn(q)]
    /\ UNCHANGED <<spent, begun, asked, orphaned>>

(* secureFetchJson() throws a UrlPolicyError, or one of its own: a refused *)
(* redirect, and also an HTTP error, a time-out between hops, bad JSON.    *)
(* All of them are taken for refusals of the policy: nothing is recorded,  *)
(* and a trial stays taken.                                                *)
TakenForPolicy(q, blameless) ==
    LET b == fed[q].at IN
    /\ fed[q].pc = "fetching"
    /\ fed' = [fed EXCEPT ![q] = PassOn(q)]
    /\ IF blameless THEN faults' = faults ELSE CountFault(b)
    /\ orphaned' = IF breaker[b].trial THEN orphaned \cup {b} ELSE orphaned
    /\ UNCHANGED <<breaker, spent, begun, asked>>

BackendCools(b) ==
    /\ breaker[b].state = "open" /\ ~breaker[b].cooled
    /\ breaker' = [breaker EXCEPT ![b].cooled = TRUE]
    /\ UNCHANGED <<spent, fed, begun, asked, faults, orphaned>>

(* Midnight: the counters roll over at their next use.                     *)
BudgetDay ==
    /\ \E b \in Backends : asked[b] > 0
    /\ spent' = [b \in Backends |-> 0] /\ asked' = [b \in Backends |-> 0]
    /\ UNCHANGED <<breaker, fed, begun, faults, orphaned>>
----------------------------------------------------------------------------
FedNext ==
    \/ \E q \in Federations :
          \/ BeginFed(q) \/ ConsiderBackend(q) \/ BackendBreaks(q)
          \/ \E offer \in SUBSET Upstreams : BackendAnswers(q, offer)
          \/ \E blameless \in BOOLEAN : TakenForPolicy(q, blameless)
    \/ \E b \in Backends : BackendCools(b)
    \/ BudgetDay

FedSpec == FedInit /\ [][FedNext]_fedVars
----------------------------------------------------------------------------
FedTypeOK ==
    /\ \A b \in Backends :
          /\ breaker[b] \in Breakers
          /\ spent[b] \in 0..BackendBudget /\ faults[b] \in 0..FaultLimit
    /\ \A q \in Federations : fed[q].pc \in {"idle", "next", "fetching", "done"}
    /\ orphaned \subseteq Backends

CallersOf(b) == {q \in Federations : fed[q].pc = "fetching" /\ fed[q].at = b}

(* A trial is out only while a request that may settle it is with the      *)
(* backend, unless a refusal or an empty budget has lost it.               *)
TrialIsOut == \A b \in Backends \ orphaned : breaker[b].trial => CallersOf(b) # {}

(* The budget is looked at before the call and charged after it: requests  *)
(* that are with a backend together overrun it, by less than their number. *)
OverrunBounded ==
    \A b \in Backends : asked[b] + Cardinality(CallersOf(b)) < BackendBudget + Cardinality(Federations)
                        \/ asked[b] + Cardinality(CallersOf(b)) = 0

(* A source that several backends offer is listed once, under the first of *)
(* them that answered; no offered source is lost.                          *)
FirstOfferWins ==
    \A q \in Federations, b \in Backends :
        fed[q].sources[b] = fed[q].offers[b] \ UNION {fed[q].offers[c] : c \in 1..(b - 1)}

FederationSound == TrialIsOut /\ OverrunBounded /\ FirstOfferWins

(* src/federation/service.ts:11-12: "per-backend health via the shared     *)
(* reliability registry (independent circuit breaker per backend": a       *)
(* backend that fails time after time is not called as if it were well.    *)
FailingBackendOpens ==
    \A b \in Backends : faults[b] >= FaultLimit => breaker[b].state # "closed"
=============================================================================
