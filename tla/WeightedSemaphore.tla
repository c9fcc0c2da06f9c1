------------------------- MODULE WeightedSemaphore -------------------------
(***************************************************************************)
(* One concurrency pool: the weighted, priority-aware semaphore of         *)
(* src/concurrency/semaphore.ts.                                           *)
(*                                                                         *)
(* A caller is one acquire() call after another.  The event loop runs each *)
(* method to completion, so each method is one action: acquire() up to the *)
(* promise it returns, the releaser with the pump() it ends in, the queue  *)
(* timer, the abort listener, and abortQueued().                           *)
(*                                                                         *)
(* The array `queue` is kept as its order: ahead[c] is the set of waiters  *)
(* in front of c, so c is the head when ahead[c] is empty and its index is *)
(* the size of ahead[c].  The entries' seq numbers are only compared, so   *)
(* older[c] keeps the waiters with a smaller seq.  The statistics counters *)
(* are left out.                                                           *)
(***************************************************************************)
EXTENDS Integers, FiniteSets

CONSTANTS
    Callers,      \* the concurrent users of the pool
    Limit,        \* capacity units of the pool
    MaxQueue,     \* waiters allowed before acquire() rejects
    Requests,     \* the weights callers ask for, before clamping
    Priorities,   \* the priorities callers ask for
    Timed         \* the callers whose queue timeout is not disabled (> 0 ms)

ASSUME SemaphoreAssumption ==
    /\ IsFiniteSet(Callers)
    /\ Limit \in Nat \ {0}
    /\ MaxQueue \in Nat
    /\ Requests \subseteq Int
    /\ Priorities \subseteq Int
    /\ Timed \subseteq Callers

VARIABLES
    status,       \* where each caller's current acquire() call stands
    weight,       \* its clamped weight, 0 when it holds no entry or slot
    priority,     \* its priority
    ahead,        \* queue order: the waiters in front of each waiter
    older,        \* arrival order: the waiters with a smaller seq
    inFlight      \* the counter the admission tests read

vars == <<status, weight, priority, ahead, older, inFlight>>

Statuses == {"idle", "queued", "holding", "released", "rejected"}

Queued  == {c \in Callers : status[c] = "queued"}
Holding == {c \in Callers : status[c] = "holding"}

(* The units a set of callers stands for, one element per unit of weight,  *)
(* and their number: the sum of the callers' weights.                      *)
Units(S, w) == {u \in S \X (1..Limit) : u[2] <= w[u[1]]}
Load(S, w)  == Cardinality(Units(S, w))

(* weight = min(limit, max(1, floor(requested))).                          *)
Clamp(r) == IF r < 1 THEN 1 ELSE IF r > Limit THEN Limit ELSE r
----------------------------------------------------------------------------
Init ==
    /\ status   = [c \in Callers |-> "idle"]
    /\ weight   = [c \in Callers |-> 0]
    /\ priority = [c \in Callers |-> 0]
    /\ ahead    = [c \in Callers |-> {}]
    /\ older    = [c \in Callers |-> {}]
    /\ inFlight = 0

MayCall(c) == status[c] \in {"idle", "released", "rejected"}

FastPathOpen(w) == inFlight + w <= Limit /\ Queued = {}

(* Capacity is free and nobody waits: admitted at once.                    *)
AcquireAtOnce(c, r, p) ==
    /\ MayCall(c)
    /\ FastPathOpen(Clamp(r))
    /\ status'   = [status EXCEPT ![c] = "holding"]
    /\ weight'   = [weight EXCEPT ![c] = Clamp(r)]
    /\ priority' = [priority EXCEPT ![c] = p]
    /\ inFlight' = inFlight + Clamp(r)
    /\ UNCHANGED <<ahead, older>>

(* BUG: the loop also walks past entries of an equal priority.             *)
InFrontOfEquals(p) ==
    {d \in Queued : \E e \in Queued : /\ priority[e] > p
                                      /\ d = e \/ d \in ahead[e]}

(* The insertion loop walks from the tail past every entry of a strictly   *)
(* lower priority, so the new entry lands behind the last entry whose      *)
(* priority is at least its own, and behind everything in front of that.   *)
InFrontOf(p) ==
    {d \in Queued : \E e \in Queued : /\ priority[e] >= p
                                      /\ d = e \/ d \in ahead[e]}

(* BUG: the queue takes one waiter more than its depth.                    *)
AcquireQueuedTooDeep(c, r, p) ==
    /\ MayCall(c)
    /\ ~FastPathOpen(Clamp(r))
    /\ Cardinality(Queued) <= MaxQueue
    /\ status'   = [status EXCEPT ![c] = "queued"]
    /\ weight'   = [weight EXCEPT ![c] = Clamp(r)]
    /\ priority' = [priority EXCEPT ![c] = p]
    /\ ahead' = [d \in Callers |->
                    CASE d = c -> InFrontOf(p)
                      [] d # c /\ d \in Queued \ InFrontOf(p) -> ahead[d] \cup {c}
                      [] OTHER -> ahead[d]]
    /\ older' = [older EXCEPT ![c] = Queued]
    /\ UNCHANGED inFlight

AcquireQueued(c, r, p) ==
    /\ MayCall(c)
    /\ ~FastPathOpen(Clamp(r))
    /\ Cardinality(Queued) < MaxQueue
    /\ status'   = [status EXCEPT ![c] = "queued"]
    /\ weight'   = [weight EXCEPT ![c] = Clamp(r)]
    /\ priority' = [priority EXCEPT ![c] = p]
    /\ ahead' = [d \in Callers |->
                    CASE d = c -> InFrontOf(p)
                      [] d # c /\ d \in Queued \ InFrontOf(p) -> ahead[d] \cup {c}
                      [] OTHER -> ahead[d]]
    /\ older' = [older EXCEPT ![c] = Queued]
    /\ UNCHANGED inFlight

RejectCall(c) ==
    /\ MayCall(c)
    /\ status'   = [status EXCEPT ![c] = "rejected"]
    /\ weight'   = [weight EXCEPT ![c] = 0]
    /\ priority' = [priority EXCEPT ![c] = 0]
    /\ UNCHANGED <<ahead, older, inFlight>>

(* The call's signal is aborted already.                                   *)
AcquireAborted(c) == RejectCall(c)

AcquireFull(c, r) ==
    /\ ~FastPathOpen(Clamp(r))
    /\ Cardinality(Queued) >= MaxQueue
    /\ RejectCall(c)
----------------------------------------------------------------------------
(* An order of waiters with the members of S taken out.                    *)
Without(order, S) == [d \in Callers |-> IF d \in S THEN {} ELSE order[d] \ S]

(* removeQueued and the reject that follows it; note that no pump() runs.  *)
Leave(S) ==
    /\ status'   = [c \in Callers |-> IF c \in S THEN "rejected" ELSE status[c]]
    /\ weight'   = [c \in Callers |-> IF c \in S THEN 0 ELSE weight[c]]
    /\ priority' = [c \in Callers |-> IF c \in S THEN 0 ELSE priority[c]]
    /\ ahead'    = Without(ahead, S)
    /\ older'    = Without(older, S)
    /\ UNCHANGED inFlight

Timeout(c) == c \in Timed \cap Queued /\ Leave({c})

Abort(c) == c \in Queued /\ Leave({c})

AbortQueued == Queued # {} /\ Leave(Queued)
----------------------------------------------------------------------------
(* BUG: the bypass looks at every waiter, not only the head's tier.        *)
PumpAdmitsAnyTier(A, base) ==
    /\ base + Load(A, weight) <= Limit
    /\ \A c \in Queued \ A :
          base + Load(A \cap ahead[c], weight) + weight[c] > Limit

(* What one run of pump() admits when inFlight is `base`.  The loop takes  *)
(* the head while it fits, and otherwise the first entry of the head's     *)
(* priority that fits, until neither exists.  inFlight only grows in the   *)
(* loop, so an entry passed over once is passed over for good, and the     *)
(* admitted set A is the one that fits as a whole, takes no entry from     *)
(* behind a passed-over entry of another priority, and passes over only    *)
(* entries behind such a one or too large for what was left at their turn. *)
PumpAdmits(A, base) ==
    /\ base + Load(A, weight) <= Limit
    /\ \A a \in A : \A b \in ahead[a] \ A : priority[b] = priority[a]
    /\ \A c \in Queued \ A :
          \/ \E b \in ahead[c] \ A : priority[b] # priority[c]
          \/ base + Load(A \cap ahead[c], weight) + weight[c] > Limit

(* BUG: the releaser does not pump.                                        *)
ReleaseNoPump(c) ==
    /\ status[c] = "holding"
    /\ status' = [status EXCEPT ![c] = "released"]
    /\ weight' = [weight EXCEPT ![c] = 0]
    /\ priority' = [priority EXCEPT ![c] = 0]
    /\ inFlight' = inFlight - weight[c]
    /\ UNCHANGED <<ahead, older>>

(* The releaser: returns the units, then pumps.                            *)
Release(c) ==
    /\ status[c] = "holding"
    /\ \E A \in SUBSET Queued :
          /\ PumpAdmits(A, inFlight - weight[c])
          /\ status' = [d \in Callers |->
                           CASE d = c -> "released"
                             [] d # c /\ d \in A -> "holding"
                             [] OTHER -> status[d]]
          /\ weight' = [weight EXCEPT ![c] = 0]
          /\ priority' = [priority EXCEPT ![c] = 0]
          /\ ahead' = Without(ahead, A)
          /\ older' = Without(older, A)
          /\ inFlight' = inFlight - weight[c] + Load(A, weight)

(* BUG: the releaser has no `released` flag.                               *)
ReleaseAgainCounts(c) ==
    /\ status[c] = "released"
    /\ inFlight' = inFlight - 1
    /\ UNCHANGED <<status, weight, priority, ahead, older>>

(* Called again, the releaser returns at its `released` flag.              *)
ReleaseAgain(c) == status[c] = "released" /\ UNCHANGED vars
----------------------------------------------------------------------------
Next ==
    \/ \E c \in Callers, r \in Requests, p \in Priorities :
          AcquireAtOnce(c, r, p) \/ AcquireQueued(c, r, p)
    \/ \E c \in Callers, r \in Requests : AcquireFull(c, r)
    \/ \E c \in Callers : AcquireAborted(c) \/ Timeout(c) \/ Abort(c)
    \/ \E c \in Callers : Release(c) \/ ReleaseAgain(c)
    \/ AbortQueued

Spec == Init /\ [][Next]_vars
----------------------------------------------------------------------------
(* Every variable has its type, and the queue is never longer than the     *)
(* depth cap acquire() tests.                                              *)
TypeOK ==
    /\ status \in [Callers -> Statuses]
    /\ weight \in [Callers -> 0..Limit]
    /\ priority \in [Callers -> Int]
    /\ ahead \in [Callers -> SUBSET Callers]
    /\ older \in [Callers -> SUBSET Callers]
    /\ inFlight \in Int
    /\ Cardinality(Queued) <= MaxQueue

(* The counter every admission test reads is the sum of the weights of the *)
(* admitted, unreleased callers, and never exceeds the pool's limit: no    *)
(* sequence of releases, double releases, timeouts and pumps loses or      *)
(* double-counts a unit (semaphore.ts, makeReleaser and pump).             *)
CapacityExact ==
    /\ inFlight = Load(Holding, weight)
    /\ inFlight <= Limit

(* d goes before c in (priority desc, seq asc) order.                      *)
Precedes(d, c) ==
    \/ priority[d] > priority[c]
    \/ priority[d] = priority[c] /\ d \in older[c]

(* The queue stays in (priority desc, seq asc) order, as the comment at    *)
(* the insertion says, through every insertion, removal from the middle    *)
(* and bypassing admission.                                                *)
QueueSorted ==
    \A c \in Callers :
        ahead[c] = IF c \in Queued THEN {d \in Queued : Precedes(d, c)} ELSE {}

(* Nobody waits on an empty pool: removing a waiter runs no pump, yet a    *)
(* waiter always has an admitted caller whose release will pump.           *)
NoStrandedWaiter == Queued # {} => inFlight > 0

Waits(c)       == status[c] = "queued" /\ status'[c] = "queued"
IsAdmitted(c)  == status[c] # "holding" /\ status'[c] = "holding"

(* No step admits a caller while another of higher priority keeps waiting: *)
(* the bypass in pump() stays inside the head's priority tier, and the     *)
(* fast path never overtakes the queue.  Within a priority the bypass only *)
(* helps smaller requests: a waiter that arrived earlier and asks for no   *)
(* more is never left waiting by a step that admits a later one.           *)
ServedInOrder ==
    [][\A a, b \in Callers :
          Waits(a) /\ IsAdmitted(b) =>
              /\ priority[a] <= priority'[b]
              /\ a \in older[b] /\ priority[a] = priority[b]
                     => weight[a] > weight[b]]_vars

(* A release leaves no head waiting that fits: pump() hands on all the     *)
(* capacity it can before the releaser returns.                            *)
ReleaseServesHead ==
    [][(\E c \in Callers : status[c] = "holding" /\ status'[c] = "released")
          => \A h \in Callers : status'[h] = "queued" /\ ahead'[h] = {}
                                  => inFlight' + weight'[h] > Limit]_vars
============================================================================
