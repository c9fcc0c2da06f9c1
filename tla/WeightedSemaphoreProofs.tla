---------------------- MODULE WeightedSemaphoreProofs ----------------------
(***************************************************************************)
(* Proofs about WeightedSemaphore, for every set of callers, limit, queue  *)
(* depth, request weights and priorities; at the end, that its account of  *)
(* the queue in sets is what the loops of SemaphoreLoops do.               *)
(***************************************************************************)
EXTENDS MCWeightedSemaphore, FiniteSetTheorems, SequenceTheorems, WellFoundedInduction,
        TLAPS

----------------------------------------------------------------------------
(* Counting units.  A load is the size of a set of <<caller, unit>> pairs, *)
(* so it adds up over disjoint sets of callers.                            *)

(* The units of a set of callers are finite in number.                     *)
LEMMA UnitsFinite ==
    ASSUME NEW S \in SUBSET Callers, NEW w
    PROVE  IsFiniteSet(Units(S, w)) /\ Load(S, w) \in Nat
<1>1. IsFiniteSet(S) /\ IsFiniteSet(1..Limit)
  BY SemaphoreAssumption, FS_Subset, FS_Interval
<1>2. IsFiniteSet(S \X (1..Limit))
  BY <1>1, FS_Product
<1>3. IsFiniteSet(Units(S, w))
  BY <1>2, FS_Subset DEF Units
<1>4. QED
  BY <1>3, FS_CardinalityType DEF Load

(* Loads of disjoint sets of callers add up.                               *)
LEMMA LoadUnion ==
    ASSUME NEW S \in SUBSET Callers, NEW T \in SUBSET Callers, NEW w, S \cap T = {}
    PROVE  Load(S \cup T, w) = Load(S, w) + Load(T, w)
<1>1. Units(S \cup T, w) = Units(S, w) \cup Units(T, w)
  BY DEF Units
<1>2. Units(S, w) \cap Units(T, w) = {}
  BY DEF Units
<1>3. Cardinality(Units(S, w) \cap Units(T, w)) = 0
  BY <1>2, FS_EmptySet
<1>4. IsFiniteSet(Units(S, w)) /\ IsFiniteSet(Units(T, w))
  BY UnitsFinite
<1>5. Load(S, w) \in Nat /\ Load(T, w) \in Nat
  BY UnitsFinite
<1>6. Cardinality(Units(S, w) \cup Units(T, w))
        = Cardinality(Units(S, w)) + Cardinality(Units(T, w))
                                   - Cardinality(Units(S, w) \cap Units(T, w))
  BY <1>4, FS_Union
<1>7. Cardinality(Units(S, w) \cup Units(T, w)) = Load(S, w) + Load(T, w)
  BY <1>3, <1>5, <1>6 DEF Load
<1>8. QED
  BY <1>1, <1>7 DEF Load

(* One caller's load is its weight.                                        *)
LEMMA LoadOfOne ==
    ASSUME NEW c \in Callers, NEW w, w[c] \in 0..Limit
    PROVE  Load({c}, w) = w[c]
<1>1. Limit \in Nat
  BY SemaphoreAssumption
<1>2. Units({c}, w) = {u \in {c} \X (1..Limit) : u[2] <= w[c]}
  BY DEF Units
<1> DEFINE f == [k \in 1..w[c] |-> <<c, k>>]
<1>3. f \in Bijection(1..w[c], Units({c}, w))
  <2>1. \A k \in 1..w[c] : f[k] \in Units({c}, w)
    <3>1. SUFFICES ASSUME NEW k \in 1..w[c] PROVE <<c, k>> \in Units({c}, w)
      OBVIOUS
    <3>2. k \in 1..Limit /\ k <= w[c]
      BY <1>1
    <3>3. <<c, k>> \in {c} \X (1..Limit)
      BY <3>2
    <3>4. QED
      BY <1>2, <3>2, <3>3
  <2>2. \A u \in Units({c}, w) : \E k \in 1..w[c] : f[k] = u
    BY <1>1, <1>2
  <2>3. \A j, k \in 1..w[c] : f[j] = f[k] => j = k
    OBVIOUS
  <2>4. QED
    BY <2>1, <2>2, <2>3 DEF Bijection, Injection, Surjection, IsInjective
<1>4. IsFiniteSet(1..w[c]) /\ Cardinality(1..w[c]) = w[c]
  <2>1. w[c] \in Nat /\ w[c] \in Int /\ 1 \in Int
    BY <1>1
  <2>2. /\ IsFiniteSet(1..w[c])
        /\ Cardinality(1..w[c]) = IF 1 > w[c] THEN 0 ELSE w[c] - 1 + 1
    BY <2>1, FS_Interval, Zenon
  <2>3. QED
    BY <2>1, <2>2
<1>5. ExistsBijection(1..w[c], Units({c}, w))
  BY <1>3 DEF ExistsBijection
<1>6. Cardinality(Units({c}, w)) = Cardinality(1..w[c])
  BY <1>4, <1>5, UnitsFinite, FS_Bijection
<1>7. QED
  BY <1>4, <1>6 DEF Load

(* A load depends only on the weights of the callers it counts.            *)
LEMMA LoadAgrees ==
    ASSUME NEW S \in SUBSET Callers, NEW v, NEW w, \A c \in S : v[c] = w[c]
    PROVE  Load(S, v) = Load(S, w)
<1>1. Units(S, v) = Units(S, w)
  BY DEF Units
<1>2. QED
  BY <1>1 DEF Load

(* No caller, no load; more callers, no less load.                         *)
LEMMA LoadMonotonic ==
    ASSUME NEW S \in SUBSET Callers, NEW T \in SUBSET S, NEW w
    PROVE  Load({}, w) = 0 /\ Load(T, w) <= Load(S, w)
<1>1. Units({}, w) = {} /\ Units(T, w) \subseteq Units(S, w)
  BY DEF Units
<1>2. QED
  BY <1>1, UnitsFinite, FS_Subset, FS_EmptySet DEF Load
----------------------------------------------------------------------------
(* Type correctness.                                                       *)

(* A clamped request is between one unit and the whole pool.               *)
LEMMA ClampRange ==
    ASSUME NEW r \in Requests
    PROVE  Clamp(r) \in 1..Limit
BY SemaphoreAssumption DEF Clamp

(* The waiters are finitely many.                                          *)
LEMMA QueuedFinite ==
    IsFiniteSet(Queued) /\ Cardinality(Queued) \in Nat
<1>1. IsFiniteSet(Queued)
  BY SemaphoreAssumption, FS_Subset DEF Queued
<1>2. QED
  BY <1>1, FS_CardinalityType

(* A step that makes no new waiter keeps the queue within its depth.       *)
LEMMA FewerWaiters ==
    ASSUME TypeOK, Queued' \subseteq Queued
    PROVE  Cardinality(Queued') <= MaxQueue
<1>1. Cardinality(Queued') <= Cardinality(Queued)
  BY QueuedFinite, FS_Subset
<1>2. Cardinality(Queued') \in Nat
  BY QueuedFinite, FS_Subset, FS_CardinalityType
<1>3. QED
  BY <1>1, <1>2, QueuedFinite, SemaphoreAssumption DEF TypeOK

(* Every variable keeps its type and the queue its depth (acquire's cap).  *)
LEMMA TypeInductive == TypeOK /\ [Next]_vars => TypeOK'
<1> SUFFICES ASSUME TypeOK, [Next]_vars PROVE TypeOK'
  OBVIOUS
<1> USE DEF TypeOK, Statuses
<1>1. ASSUME NEW c \in Callers, NEW r \in Requests, NEW p \in Priorities,
             AcquireAtOnce(c, r, p)
      PROVE  TypeOK'
  <2>1. Queued' \subseteq Queued
    BY <1>1 DEF AcquireAtOnce, Queued
  <2>2. Clamp(r) \in 0..Limit /\ p \in Int
    BY ClampRange, SemaphoreAssumption
  <2>3. QED
    BY <1>1, <2>1, <2>2, FewerWaiters DEF AcquireAtOnce
<1>2. ASSUME NEW c \in Callers, NEW r \in Requests, NEW p \in Priorities,
             AcquireQueued(c, r, p)
      PROVE  TypeOK'
  <2>1. Queued' = Queued \cup {c}
    BY <1>2 DEF AcquireQueued, Queued
  <2>2. Cardinality(Queued') <= Cardinality(Queued) + 1
    <3>1. Cardinality(Queued \cup {c})
            = IF c \in Queued THEN Cardinality(Queued) ELSE Cardinality(Queued) + 1
      BY QueuedFinite, FS_AddElement
    <3>2. QED
      BY <2>1, <3>1, QueuedFinite
  <2>3. Cardinality(Queued') \in Nat
    BY <2>1, QueuedFinite, FS_AddElement, FS_CardinalityType
  <2>4. Cardinality(Queued') <= MaxQueue
    BY <1>2, <2>2, <2>3, QueuedFinite, SemaphoreAssumption DEF AcquireQueued
  <2>5. Clamp(r) \in 0..Limit /\ p \in Int
    BY ClampRange, SemaphoreAssumption
  <2>6. InFrontOf(p) \subseteq Callers /\ Queued \subseteq Callers
    BY DEF InFrontOf, Queued
  <2>7. ahead' \in [Callers -> SUBSET Callers] /\ older' \in [Callers -> SUBSET Callers]
    BY <1>2, <2>6 DEF AcquireQueued
  <2>8. QED
    BY <1>2, <2>4, <2>5, <2>7 DEF AcquireQueued
<1>3. ASSUME NEW c \in Callers, RejectCall(c)
      PROVE  TypeOK'
  <2>1. Queued' \subseteq Queued
    BY <1>3 DEF RejectCall, Queued
  <2>2. QED
    BY <1>3, <2>1, FewerWaiters, SemaphoreAssumption DEF RejectCall
<1>4. ASSUME NEW S \in SUBSET Queued, Leave(S)
      PROVE  TypeOK'
  <2>1. Queued' \subseteq Queued
    BY <1>4 DEF Leave, Queued
  <2>2. QED
    BY <1>4, <2>1, FewerWaiters, SemaphoreAssumption DEF Leave, Without
<1>5. ASSUME NEW c \in Callers, Release(c)
      PROVE  TypeOK'
  <2>1. PICK A \in SUBSET Queued :
           /\ status' = [d \in Callers |->
                            CASE d = c -> "released"
                              [] d # c /\ d \in A -> "holding"
                              [] OTHER -> status[d]]
           /\ weight' = [weight EXCEPT ![c] = 0]
           /\ priority' = [priority EXCEPT ![c] = 0]
           /\ ahead' = Without(ahead, A)
           /\ older' = Without(older, A)
           /\ inFlight' = inFlight - weight[c] + Load(A, weight)
    BY <1>5 DEF Release
  <2>2. Queued' \subseteq Queued
    BY <2>1 DEF Queued
  <2>3. Load(A, weight) \in Nat
    BY UnitsFinite DEF Queued
  <2>4. QED
    BY <2>1, <2>2, <2>3, FewerWaiters, SemaphoreAssumption DEF Without
<1>6. CASE UNCHANGED vars
  BY <1>6 DEF vars, Queued
<1>7. QED
  BY <1>1, <1>2, <1>3, <1>4, <1>5, <1>6
  DEF Next, AcquireAborted, AcquireFull, Timeout, Abort, AbortQueued, ReleaseAgain, Queued

(* The types of the state and the depth of the queue hold in every         *)
(* reachable state of a pool of any size.                                  *)
THEOREM TypeCorrect == Spec => []TypeOK
<1>1. Init => TypeOK
  <2> SUFFICES ASSUME Init PROVE TypeOK
    OBVIOUS
  <2>1. Queued = {}
    BY DEF Init, Queued
  <2>2. Cardinality(Queued) = 0
    BY <2>1, FS_EmptySet
  <2>3. QED
    BY <2>2, SemaphoreAssumption DEF Init, TypeOK, Statuses
<1>2. QED
  BY <1>1, TypeInductive, PTL DEF Spec
----------------------------------------------------------------------------
(* Capacity.                                                               *)

(* A step that leaves the counter and the holders with their weights alone *)
(* keeps the count exact.                                                  *)
LEMMA SameHolders ==
    ASSUME TypeOK, CapacityExact, inFlight' = inFlight, Holding' = Holding,
           \A c \in Holding : weight'[c] = weight[c]
    PROVE  CapacityExact'
<1>1. Holding \in SUBSET Callers
  BY DEF Holding
<1>2. Load(Holding, weight') = Load(Holding, weight)
  BY <1>1, LoadAgrees
<1>3. QED
  BY <1>2 DEF CapacityExact

(* inFlight stays the sum of the holders' weights and within the limit:    *)
(* one step per action; the pump's share is what PumpAdmits fits in.       *)
LEMMA CapacityInductive ==
    TypeOK /\ CapacityExact /\ [Next]_vars => CapacityExact'
<1> SUFFICES ASSUME TypeOK, CapacityExact, [Next]_vars PROVE CapacityExact'
  OBVIOUS
<1>0. Holding \in SUBSET Callers /\ inFlight \in Nat
  BY UnitsFinite DEF Holding, CapacityExact
<1>1. ASSUME NEW c \in Callers, NEW r \in Requests, NEW p \in Priorities,
             AcquireAtOnce(c, r, p)
      PROVE  CapacityExact'
  <2>1. Holding' = Holding \cup {c} /\ Holding \cap {c} = {}
    BY <1>1 DEF AcquireAtOnce, MayCall, Holding, TypeOK
  <2>2. weight'[c] = Clamp(r) /\ weight'[c] \in 0..Limit
    BY <1>1, ClampRange, SemaphoreAssumption DEF AcquireAtOnce, TypeOK
  <2>3. Load({c}, weight') = Clamp(r)
    BY <2>2, LoadOfOne
  <2>4. Load(Holding, weight') = Load(Holding, weight)
    <3>1. \A d \in Holding : weight'[d] = weight[d]
      BY <1>1, <2>1 DEF AcquireAtOnce, TypeOK
    <3>2. QED
      BY <1>0, <3>1, LoadAgrees
  <2>5. Load(Holding \cup {c}, weight') = Load(Holding, weight') + Load({c}, weight')
    BY <1>0, <2>1, LoadUnion
  <2>6. Load(Holding', weight') = inFlight + Clamp(r)
    BY <2>1, <2>3, <2>4, <2>5 DEF CapacityExact
  <2>7. QED
    BY <1>1, <2>6 DEF AcquireAtOnce, FastPathOpen, CapacityExact
<1>2. ASSUME NEW c \in Callers, NEW r \in Requests, NEW p \in Priorities,
             AcquireQueued(c, r, p)
      PROVE  CapacityExact'
  <2>1. Holding' = Holding /\ \A d \in Holding : weight'[d] = weight[d]
    BY <1>2 DEF AcquireQueued, MayCall, Holding, TypeOK
  <2>2. QED
    BY <1>2, <2>1, SameHolders DEF AcquireQueued
<1>3. ASSUME NEW c \in Callers, RejectCall(c)
      PROVE  CapacityExact'
  <2>1. Holding' = Holding /\ \A d \in Holding : weight'[d] = weight[d]
    BY <1>3 DEF RejectCall, MayCall, Holding, TypeOK
  <2>2. QED
    BY <1>3, <2>1, SameHolders DEF RejectCall
<1>4. ASSUME NEW S \in SUBSET Queued, Leave(S)
      PROVE  CapacityExact'
  <2>1. Holding' = Holding /\ \A d \in Holding : weight'[d] = weight[d]
    BY <1>4 DEF Leave, Queued, Holding, TypeOK
  <2>2. QED
    BY <1>4, <2>1, SameHolders DEF Leave
<1>5. ASSUME NEW c \in Callers, Release(c)
      PROVE  CapacityExact'
  <2>1. PICK A \in SUBSET Queued :
           /\ PumpAdmits(A, inFlight - weight[c])
           /\ status' = [d \in Callers |->
                            CASE d = c -> "released"
                              [] d # c /\ d \in A -> "holding"
                              [] OTHER -> status[d]]
           /\ weight' = [weight EXCEPT ![c] = 0]
           /\ inFlight' = inFlight - weight[c] + Load(A, weight)
    BY <1>5 DEF Release
  <2> DEFINE Rest == Holding \ {c}
  <2>2. /\ c \in Holding /\ Holding = Rest \cup {c} /\ Rest \cap {c} = {}
        /\ Rest \cap A = {} /\ c \notin A
        /\ Rest \in SUBSET Callers /\ A \in SUBSET Callers
    BY <1>5 DEF Release, Holding, Queued
  <2>3. Holding' = Rest \cup A
    BY <2>1, <2>2 DEF Holding
  <2>4. weight[c] \in 0..Limit /\ Load({c}, weight) = weight[c]
    BY LoadOfOne DEF TypeOK
  <2>5. Load(Holding, weight) = Load(Rest, weight) + weight[c]
    <3>1. {c} \in SUBSET Callers /\ Rest \in SUBSET Callers /\ Rest \cap {c} = {}
      BY <2>2
    <3>2. Load(Rest \cup {c}, weight) = Load(Rest, weight) + Load({c}, weight)
      BY <3>1, LoadUnion
    <3>3. QED
      BY <2>2, <2>4, <3>2
  <2>6. Load(Rest \cup A, weight') = Load(Rest \cup A, weight)
    <3>1. \A d \in Rest \cup A : weight'[d] = weight[d]
      BY <2>1, <2>2 DEF TypeOK
    <3>2. QED
      BY <2>2, <3>1, LoadAgrees
  <2>7. Load(Rest \cup A, weight) = Load(Rest, weight) + Load(A, weight)
    BY <2>2, LoadUnion
  <2>8. Load(Rest, weight) \in Nat /\ Load(A, weight) \in Nat
    BY <2>2, UnitsFinite
  <2>9. Load(Holding', weight') = inFlight'
    BY <2>1, <2>3, <2>4, <2>5, <2>6, <2>7, <2>8 DEF CapacityExact
  <2>10. inFlight' <= Limit
    BY <2>1 DEF PumpAdmits
  <2>11. QED
    BY <2>9, <2>10 DEF CapacityExact
<1>6. CASE UNCHANGED vars
  BY <1>6 DEF vars, Holding, CapacityExact
<1>7. QED
  BY <1>1, <1>2, <1>3, <1>4, <1>5, <1>6
  DEF Next, AcquireAborted, AcquireFull, Timeout, Abort, AbortQueued, ReleaseAgain, Queued

(* In a pool of any size the admission counter is exactly the weight held  *)
(* and never exceeds the limit.                                            *)
THEOREM CapacityCorrect == Spec => []CapacityExact
<1>1. Init => CapacityExact
  <2> SUFFICES ASSUME Init PROVE CapacityExact
    OBVIOUS
  <2>1. Holding = {}
    BY DEF Init, Holding
  <2>2. Load({}, weight) = 0
    BY LoadMonotonic
  <2>3. QED
    BY <2>1, <2>2, SemaphoreAssumption DEF Init, CapacityExact
<1>2. QED
  BY <1>1, CapacityInductive, TypeCorrect, PTL DEF Spec
----------------------------------------------------------------------------
(* Queue order.                                                            *)

(* What QueueSorted needs to be inductive: older is a strict order of the  *)
(* waiters, total because seq numbers are never shared, and weights are    *)
(* those of the entries.                                                   *)
ArrivalOrder ==
    /\ \A c \in Callers \ Queued : older[c] = {}
    /\ \A c \in Queued : older[c] \subseteq Queued \ {c}
    /\ \A c, d \in Queued : c # d => (d \in older[c] <=> c \notin older[d])
    /\ \A b, c, d \in Queued : b \in older[c] /\ c \in older[d] => b \in older[d]

EntryWeights == \A c \in Queued : weight[c] >= 1

OrderInv == TypeOK /\ ArrivalOrder /\ EntryWeights /\ QueueSorted

(* In a sorted queue the insertion loop passes exactly the entries of      *)
(* lower priority.                                                         *)
LEMMA InsertionPoint ==
    ASSUME OrderInv, NEW p \in Int
    PROVE  InFrontOf(p) = {d \in Queued : priority[d] >= p}
<1>1. ASSUME NEW d \in Queued, NEW e \in Queued, priority[e] >= p, d \in ahead[e]
      PROVE  priority[d] >= p
  <2>1. Precedes(d, e)
    BY <1>1 DEF OrderInv, QueueSorted, Queued
  <2>2. priority[d] \in Int /\ priority[e] \in Int
    BY DEF OrderInv, TypeOK, Queued
  <2>3. QED
    BY <1>1, <2>1, <2>2 DEF Precedes
<1>2. QED
  BY <1>1 DEF InFrontOf

(* A step that only takes waiters out of the queue keeps it in order.      *)
LEMMA RemovalKeepsOrder ==
    ASSUME OrderInv, TypeOK', NEW S \in SUBSET Queued,
           Queued' = Queued \ S,
           ahead' = Without(ahead, S), older' = Without(older, S),
           \A c \in Queued' : weight'[c] = weight[c] /\ priority'[c] = priority[c]
    PROVE  OrderInv'
<1> USE DEF OrderInv
<1>0. Queued \subseteq Callers /\ Queued' \subseteq Queued
  BY DEF Queued
<1>1. ArrivalOrder'
  BY <1>0 DEF ArrivalOrder, Without
<1>2. EntryWeights'
  BY <1>0 DEF EntryWeights
<1>3. QueueSorted'
  <2> SUFFICES ASSUME NEW c \in Callers
               PROVE  ahead'[c] = IF c \in Queued'
                                  THEN {d \in Queued' : Precedes(d, c)'} ELSE {}
    BY DEF QueueSorted
  <2>1. CASE c \in Queued'
    <3>1. ahead'[c] = {d \in Queued : Precedes(d, c)} \ S
      BY <2>1, <1>0 DEF Without, QueueSorted
    <3>2. \A d \in Queued' : Precedes(d, c)' <=> Precedes(d, c)
      BY <2>1, <1>0 DEF Precedes, Without
    <3>3. QED
      BY <2>1, <3>1, <3>2
  <2>2. CASE c \notin Queued'
    BY <2>2, <1>0 DEF Without, QueueSorted
  <2>3. QED
    BY <2>1, <2>2
<1>4. QED
  BY <1>1, <1>2, <1>3

(* A step that touches no waiter keeps the order.                          *)
LEMMA SameQueue ==
    ASSUME OrderInv, TypeOK', Queued' = Queued, ahead' = ahead, older' = older,
           \A c \in Queued : weight'[c] = weight[c] /\ priority'[c] = priority[c]
    PROVE  OrderInv'
<1>1. ArrivalOrder' /\ EntryWeights'
  BY DEF OrderInv, ArrivalOrder, EntryWeights
<1>2. \A c, d \in Queued : Precedes(d, c)' <=> Precedes(d, c)
  BY DEF Precedes
<1>3. QueueSorted'
  BY <1>2 DEF OrderInv, QueueSorted
<1>4. QED
  BY <1>1, <1>3 DEF OrderInv

(* An insertion keeps the queue sorted.                                    *)
LEMMA InsertionKeepsOrder ==
    ASSUME OrderInv, TypeOK', NEW c \in Callers, NEW r \in Requests, NEW p \in Priorities,
           AcquireQueued(c, r, p)
    PROVE  OrderInv'
<1> USE DEF OrderInv
<1>0. /\ Queued \subseteq Callers /\ c \notin Queued /\ Queued' = Queued \cup {c}
      /\ p \in Int /\ \A d \in Queued : priority[d] \in Int
  BY SemaphoreAssumption DEF AcquireQueued, MayCall, Queued, TypeOK
<1>1. /\ priority'[c] = p /\ weight'[c] >= 1
      /\ \A d \in Queued : priority'[d] = priority[d] /\ weight'[d] = weight[d]
  BY <1>0, ClampRange DEF AcquireQueued, TypeOK
<1>2. older' = [older EXCEPT ![c] = Queued] /\ older \in [Callers -> SUBSET Callers]
  BY DEF AcquireQueued, TypeOK
<1>3. ArrivalOrder'
  BY <1>0, <1>2 DEF ArrivalOrder
<1>4. EntryWeights'
  BY <1>0, <1>1 DEF EntryWeights
<1>5. ASSUME NEW d \in Callers
      PROVE  ahead'[d] = IF d \in Queued' THEN {e \in Queued' : Precedes(e, d)'} ELSE {}
  <2>1. ahead'[d] = CASE d = c -> InFrontOf(p)
                      [] d # c /\ d \in Queued \ InFrontOf(p) -> ahead[d] \cup {c}
                      [] OTHER -> ahead[d]
    BY DEF AcquireQueued
  <2>2. InFrontOf(p) = {e \in Queued : priority[e] >= p}
    BY <1>0, InsertionPoint
  <2>3. CASE d = c
    <3>1. \A e \in Queued : Precedes(e, c)' <=> priority[e] >= p
      BY <1>0, <1>1, <1>2 DEF Precedes
    <3>2. ~ Precedes(c, c)'
      BY <1>0, <1>1, <1>2 DEF Precedes
    <3>3. ahead'[d] = InFrontOf(p)
      BY <2>1, <2>3
    <3>4. QED
      BY <1>0, <2>2, <2>3, <3>1, <3>2, <3>3
  <2>4. CASE d \in Queued
    <3>1. \A e \in Queued : Precedes(e, d)' <=> Precedes(e, d)
      BY <1>0, <1>1, <1>2, <2>4 DEF Precedes
    <3>2. Precedes(c, d)' <=> p > priority[d]
      BY <1>0, <1>1, <1>2, <2>4 DEF Precedes, ArrivalOrder
    <3>3. ahead[d] = {e \in Queued : Precedes(e, d)}
      BY <2>4 DEF QueueSorted
    <3>4. p > priority[d] <=> d \notin InFrontOf(p)
      BY <1>0, <2>2, <2>4
    <3>5. CASE d \in InFrontOf(p)
      <4>1. ahead'[d] = ahead[d]
        BY <1>0, <2>1, <2>4, <3>5
      <4>2. QED
        BY <1>0, <2>4, <3>1, <3>2, <3>3, <3>4, <3>5, <4>1
    <3>6. CASE d \notin InFrontOf(p)
      <4>1. ahead'[d] = ahead[d] \cup {c}
        BY <1>0, <2>1, <2>4, <3>6
      <4>2. QED
        BY <1>0, <2>4, <3>1, <3>2, <3>3, <3>4, <3>6, <4>1
    <3>7. QED
      BY <3>5, <3>6
  <2>5. CASE d # c /\ d \notin Queued
    BY <1>0, <2>1, <2>5 DEF QueueSorted
  <2>6. QED
    BY <2>3, <2>4, <2>5
<1>6. QueueSorted'
  BY <1>5 DEF QueueSorted
<1>7. QED
  BY <1>3, <1>4, <1>6

(* Every step keeps the queue in (priority desc, seq asc) order.           *)
LEMMA OrderInductive == OrderInv /\ [Next]_vars => OrderInv'
<1> SUFFICES ASSUME OrderInv, [Next]_vars PROVE OrderInv'
  OBVIOUS
<1>0. TypeOK /\ TypeOK'
  BY TypeInductive DEF OrderInv
<1>1. ASSUME NEW c \in Callers, NEW r \in Requests, NEW p \in Priorities,
             AcquireAtOnce(c, r, p)
      PROVE  OrderInv'
  <2>1. /\ Queued' = Queued /\ ahead' = ahead /\ older' = older
        /\ \A d \in Queued : weight'[d] = weight[d] /\ priority'[d] = priority[d]
    BY <1>0, <1>1 DEF AcquireAtOnce, MayCall, Queued, TypeOK
  <2>2. QED
    BY <1>0, <2>1, SameQueue
<1>2. ASSUME NEW c \in Callers, NEW r \in Requests, NEW p \in Priorities,
             AcquireQueued(c, r, p)
      PROVE  OrderInv'
  BY <1>0, <1>2, InsertionKeepsOrder
<1>3. ASSUME NEW c \in Callers, RejectCall(c)
      PROVE  OrderInv'
  <2>1. /\ Queued' = Queued /\ ahead' = ahead /\ older' = older
        /\ \A d \in Queued : weight'[d] = weight[d] /\ priority'[d] = priority[d]
    BY <1>0, <1>3 DEF RejectCall, MayCall, Queued, TypeOK
  <2>2. QED
    BY <1>0, <2>1, SameQueue
<1>4. ASSUME NEW S \in SUBSET Queued, Leave(S)
      PROVE  OrderInv'
  <2>1. /\ Queued' = Queued \ S
        /\ \A d \in Queued' : weight'[d] = weight[d] /\ priority'[d] = priority[d]
    BY <1>0, <1>4 DEF Leave, Queued, TypeOK
  <2>2. QED
    BY <1>0, <1>4, <2>1, RemovalKeepsOrder DEF Leave
<1>5. ASSUME NEW c \in Callers, Release(c)
      PROVE  OrderInv'
  <2>1. PICK A \in SUBSET Queued :
           /\ status' = [d \in Callers |->
                            CASE d = c -> "released"
                              [] d # c /\ d \in A -> "holding"
                              [] OTHER -> status[d]]
           /\ weight' = [weight EXCEPT ![c] = 0]
           /\ priority' = [priority EXCEPT ![c] = 0]
           /\ ahead' = Without(ahead, A)
           /\ older' = Without(older, A)
    BY <1>5 DEF Release
  <2>2. c \notin Queued
    BY <1>5 DEF Release, Queued
  <2>3. /\ Queued' = Queued \ A
        /\ \A d \in Queued' : weight'[d] = weight[d] /\ priority'[d] = priority[d]
    BY <1>0, <2>1, <2>2 DEF Queued, TypeOK
  <2>4. QED
    BY <1>0, <2>1, <2>3, RemovalKeepsOrder
<1>6. CASE UNCHANGED vars
  <2>1. Queued' = Queued
    BY <1>6 DEF vars, Queued
  <2>2. QED
    BY <1>0, <1>6, <2>1, SameQueue DEF vars
<1>7. QED
  BY <1>1, <1>2, <1>3, <1>4, <1>5, <1>6
  DEF Next, AcquireAborted, AcquireFull, Timeout, Abort, AbortQueued, ReleaseAgain, Queued

(* The order invariant holds in every reachable state.                     *)
LEMMA OrderHolds == Spec => []OrderInv
<1>1. Init => OrderInv
  <2> SUFFICES ASSUME Init PROVE OrderInv
    OBVIOUS
  <2>1. Queued = {}
    BY DEF Init, Queued
  <2>2. Cardinality(Queued) = 0
    BY <2>1, FS_EmptySet
  <2>3. TypeOK
    BY <2>2, SemaphoreAssumption DEF Init, TypeOK, Statuses
  <2>4. QED
    BY <2>1, <2>3 DEF Init, OrderInv, ArrivalOrder, EntryWeights, QueueSorted
<1>2. QED
  BY <1>1, OrderInductive, PTL DEF Spec

(* The queue of a pool of any size is always in (priority desc, seq asc)   *)
(* order.                                                                  *)
THEOREM SortedCorrect == Spec => []QueueSorted
<1>1. OrderInv => QueueSorted
  BY DEF OrderInv
<1>2. QED
  BY <1>1, OrderHolds, PTL
----------------------------------------------------------------------------
(* Who is served.  The queue invariant and the exact count together.       *)

PoolInv == OrderInv /\ CapacityExact

(* Both hold in every reachable state.                                     *)
LEMMA PoolHolds == Spec => []PoolInv
BY OrderHolds, CapacityCorrect, PTL DEF PoolInv

(* A waiter is behind exactly the entries that precede it, which precede   *)
(* each other in turn and never itself.                                    *)
LEMMA AheadIsOrder ==
    ASSUME OrderInv, NEW c \in Queued, NEW d \in ahead[c]
    PROVE  /\ d \in Queued /\ d # c /\ c \notin ahead[d]
           /\ ahead[d] \subseteq ahead[c]
           /\ priority[d] >= priority[c]
<1> USE DEF OrderInv
<1>1. /\ \A e \in Queued : ahead[e] = {x \in Queued : Precedes(x, e)}
      /\ \A e \in Queued : priority[e] \in Int
  BY DEF QueueSorted, Queued, TypeOK
<1>2. d \in Queued /\ Precedes(d, c)
  BY <1>1
<1>3. priority[d] >= priority[c]
  BY <1>1, <1>2 DEF Precedes
<1>4. d # c /\ ~ Precedes(c, d)
  BY <1>1, <1>2 DEF Precedes, ArrivalOrder
<1>5. \A e \in Queued : Precedes(e, d) => Precedes(e, c)
  BY <1>1, <1>2 DEF Precedes, ArrivalOrder
<1>6. QED
  BY <1>1, <1>2, <1>3, <1>4, <1>5

(* A queue that is not empty has a head.                                   *)
LEMMA HeadExists ==
    ASSUME OrderInv, Queued # {}
    PROVE  \E h \in Queued : ahead[h] = {}
<1> DEFINE Fronts == {ahead[c] : c \in Queued}
<1>1. IsFiniteSet(Callers) /\ Queued \subseteq Callers
  BY SemaphoreAssumption DEF Queued
<1>2. \A c \in Queued : ahead[c] \in SUBSET Callers
  BY <1>1 DEF OrderInv, TypeOK
<1>3. Fronts \subseteq SUBSET Callers /\ Fronts # {}
  BY <1>2
<1>4. IsWellFoundedOn(StrictSubsetOrdering(Callers), SUBSET Callers)
  BY <1>1, FS_FiniteSubsetsOfFinite, FS_StrictSubsetOrderingWellFounded
<1>5. PICK F \in Fronts : \A G \in Fronts : <<G, F>> \notin StrictSubsetOrdering(Callers)
  <2> HIDE DEF Fronts
  <2>1. QED
    BY <1>3, <1>4, WFMin
<1>6. PICK h \in Queued : F = ahead[h]
  BY <1>5
<1>7. ASSUME NEW d \in ahead[h] PROVE FALSE
  <2>1. d \in Queued /\ ahead[d] \subseteq ahead[h]
    BY <1>6, <1>7, AheadIsOrder
  <2>2. d \notin ahead[d]
    BY <2>1, AheadIsOrder
  <2>3. <<ahead[d], ahead[h]>> \in StrictSubsetOrdering(Callers)
    BY <1>2, <1>6, <1>7, <2>1, <2>2 DEF StrictSubsetOrdering
  <2>4. QED
    BY <1>5, <1>6, <2>1, <2>3
<1>8. QED
  BY <1>6, <1>7

(* What a releaser does, with the waiters its pump admits.                 *)
LEMMA ReleaseAdmits ==
    ASSUME NEW c \in Callers, Release(c)
    PROVE  \E A \in SUBSET Queued :
              /\ PumpAdmits(A, inFlight - weight[c])
              /\ status' = [d \in Callers |->
                               CASE d = c -> "released"
                                 [] d # c /\ d \in A -> "holding"
                                 [] OTHER -> status[d]]
              /\ weight' = [weight EXCEPT ![c] = 0]
              /\ priority' = [priority EXCEPT ![c] = 0]
              /\ ahead' = Without(ahead, A)
              /\ inFlight' = inFlight - weight[c] + Load(A, weight)
BY DEF Release

(* The units of a holder are part of those in flight, and what a pump      *)
(* admits starts from the rest.                                            *)
LEMMA RestInFlight ==
    ASSUME PoolInv, NEW c \in Holding
    PROVE  inFlight - weight[c] \in Nat
<1>1. c \in Callers /\ Holding \in SUBSET Callers /\ {c} \in SUBSET Holding
  BY DEF Holding
<1>2. weight[c] \in 0..Limit
  BY <1>1 DEF PoolInv, OrderInv, TypeOK
<1>3. weight[c] <= Load(Holding, weight)
  BY <1>1, <1>2, LoadOfOne, LoadMonotonic
<1>4. Load(Holding, weight) \in Nat /\ Limit \in Nat
  BY <1>1, UnitsFinite, SemaphoreAssumption
<1>5. QED
  BY <1>2, <1>3, <1>4 DEF PoolInv, CapacityExact

(* A head the pump leaves waiting does not fit in what is left.            *)
LEMMA HeadLeftDoesNotFit ==
    ASSUME PoolInv, NEW A \in SUBSET Queued, NEW base \in Nat, PumpAdmits(A, base),
           NEW h \in Queued \ A, ahead[h] \subseteq A
    PROVE  base + Load(A, weight) + weight[h] > Limit
<1>1. base + Load(A \cap ahead[h], weight) + weight[h] > Limit
  BY DEF PumpAdmits
<1>2. Queued \in SUBSET Callers /\ A \in SUBSET Callers
  BY DEF Queued
<1>3. Load(A \cap ahead[h], weight) <= Load(A, weight)
  BY <1>2, LoadMonotonic
<1>4. Load(A \cap ahead[h], weight) \in Nat /\ Load(A, weight) \in Nat
  BY <1>2, UnitsFinite
<1>5. weight[h] \in Nat /\ Limit \in Nat
  BY <1>2, SemaphoreAssumption DEF PoolInv, OrderInv, TypeOK
<1>6. QED
  BY <1>1, <1>3, <1>4, <1>5
----------------------------------------------------------------------------
(* Nobody waits on an empty pool, one step per action: a caller queues     *)
(* only behind others or when its weight does not fit, leaving changes no  *)
(* capacity, and a pump that leaves nothing in flight has left nobody.     *)
LEMMA NoStrandedInductive ==
    PoolInv /\ NoStrandedWaiter /\ [Next]_vars => NoStrandedWaiter'
<1> SUFFICES ASSUME PoolInv, NoStrandedWaiter, [Next]_vars, Queued' # {}
             PROVE  inFlight' > 0
  BY DEF NoStrandedWaiter
<1>0. /\ Holding \in SUBSET Callers /\ inFlight \in Nat /\ Limit \in Nat
      /\ Queued \subseteq Callers
  BY UnitsFinite, SemaphoreAssumption DEF Holding, Queued, PoolInv, CapacityExact
<1> USE DEF PoolInv, OrderInv
<1>1. ASSUME NEW c \in Callers, NEW r \in Requests, NEW p \in Priorities,
             AcquireAtOnce(c, r, p)
      PROVE  inFlight' > 0
  BY <1>0, <1>1, ClampRange DEF AcquireAtOnce
<1>2. ASSUME NEW c \in Callers, NEW r \in Requests, NEW p \in Priorities,
             AcquireQueued(c, r, p)
      PROVE  inFlight' > 0
  BY <1>0, <1>2, ClampRange DEF AcquireQueued, FastPathOpen, NoStrandedWaiter
<1>3. ASSUME NEW c \in Callers, RejectCall(c) PROVE inFlight' > 0
  <2>1. Queued' \subseteq Queued
    BY <1>3 DEF RejectCall, Queued
  <2>2. QED
    BY <1>3, <2>1 DEF RejectCall, NoStrandedWaiter
<1>4. ASSUME NEW S \in SUBSET Queued, Leave(S) PROVE inFlight' > 0
  <2>1. Queued' \subseteq Queued
    BY <1>4 DEF Leave, Queued
  <2>2. QED
    BY <1>4, <2>1 DEF Leave, NoStrandedWaiter
<1>5. ASSUME NEW c \in Callers, Release(c) PROVE inFlight' > 0
  <2> DEFINE base == inFlight - weight[c]
  <2>1. PICK A \in SUBSET Queued :
           /\ PumpAdmits(A, base)
           /\ status' = [d \in Callers |->
                            CASE d = c -> "released"
                              [] d # c /\ d \in A -> "holding"
                              [] OTHER -> status[d]]
           /\ inFlight' = base + Load(A, weight)
    BY <1>5, ReleaseAdmits
  <2>2. c \in Holding /\ base \in Nat
    BY <1>5, RestInFlight DEF Release, Holding
  <2>3. Load(A, weight) \in Nat
    BY <1>0, UnitsFinite
  <2>4. CASE A = {}
    <3>1. PICK h \in Queued : ahead[h] = {}
      <4>1. Queued # {}
        BY <2>1 DEF Queued
      <4>2. QED
        BY <4>1, HeadExists
    <3>2. base + Load(A, weight) + weight[h] > Limit
      BY <2>1, <2>2, <2>4, <3>1, HeadLeftDoesNotFit
    <3>3. weight[h] \in 0..Limit
      BY <1>0, <3>1 DEF TypeOK
    <3>4. QED
      BY <1>0, <2>1, <2>2, <2>3, <3>2, <3>3
  <2>5. CASE A # {}
    <3>1. PICK a : a \in A
      BY <2>5
    <3>2. Load({a}, weight) = weight[a] /\ weight[a] >= 1
      BY <1>0, <3>1, LoadOfOne DEF TypeOK, EntryWeights
    <3>3. Load({a}, weight) <= Load(A, weight)
      <4>1. A \in SUBSET Callers /\ {a} \in SUBSET A
        BY <1>0, <3>1
      <4>2. QED
        BY <4>1, LoadMonotonic
    <3>4. weight[a] \in Int
      BY <1>0, <3>1 DEF TypeOK
    <3>5. QED
      BY <2>1, <2>2, <2>3, <3>2, <3>3, <3>4
  <2>6. QED
    BY <2>4, <2>5
<1>6. CASE UNCHANGED vars
  BY <1>6 DEF vars, Queued, NoStrandedWaiter
<1>7. QED
  BY <1>1, <1>2, <1>3, <1>4, <1>5, <1>6
  DEF Next, AcquireAborted, AcquireFull, Timeout, Abort, AbortQueued, ReleaseAgain, Queued

(* In a pool of any size a waiter always has an admitted caller whose      *)
(* release will pump (removeQueued runs no pump of its own).               *)
THEOREM NoStrandedCorrect == Spec => []NoStrandedWaiter
<1>1. Init => NoStrandedWaiter
  BY DEF Init, NoStrandedWaiter, Queued
<1>2. QED
  BY <1>1, NoStrandedInductive, PoolHolds, PTL DEF Spec
----------------------------------------------------------------------------
(* A pump that leaves a waiting while it admits b has not overtaken a.     *)
LEMMA PumpInOrder ==
    ASSUME PoolInv, NEW A \in SUBSET Queued, NEW base \in Nat, PumpAdmits(A, base),
           NEW a \in Queued \ A, NEW b \in A
    PROVE  /\ priority[a] <= priority[b]
           /\ a \in older[b] /\ priority[a] = priority[b] => weight[a] > weight[b]
<1> USE DEF PoolInv, OrderInv
<1>1. /\ Queued \subseteq Callers
      /\ \A e \in Queued : ahead[e] = {x \in Queued : Precedes(x, e)}
      /\ \A e \in Queued : priority[e] \in Int /\ weight[e] \in 0..Limit
      /\ Limit \in Nat
  BY SemaphoreAssumption DEF QueueSorted, Queued, TypeOK
<1>2. a \in ahead[b] => priority[a] = priority[b]
  BY DEF PumpAdmits
<1>3. priority[a] <= priority[b]
  <2>1. priority[a] > priority[b] => a \in ahead[b]
    BY <1>1 DEF Precedes
  <2>2. QED
    BY <1>1, <1>2, <2>1
<1>4. ASSUME a \in older[b], priority[a] = priority[b]
      PROVE  weight[a] > weight[b]
  <2>1. a \in ahead[b]
    BY <1>1, <1>4 DEF Precedes
  <2>2. b \notin ahead[a] /\ ahead[a] \subseteq ahead[b]
    BY <2>1, AheadIsOrder
  <2>3. base + Load(A \cap ahead[a], weight) + weight[a] > Limit
    BY <1>4, <2>2 DEF PumpAdmits
  <2> DEFINE B == A \cap ahead[a]
  <2>4. /\ B \in SUBSET Callers /\ {b} \in SUBSET Callers /\ B \cap {b} = {}
        /\ A \in SUBSET Callers /\ B \cup {b} \in SUBSET A
    BY <1>1, <2>2
  <2>5. Load(B \cup {b}, weight) = Load(B, weight) + Load({b}, weight)
    BY <2>4, LoadUnion
  <2>6. Load({b}, weight) = weight[b]
    BY <1>1, LoadOfOne
  <2>7. Load(B \cup {b}, weight) <= Load(A, weight)
    BY <2>4, LoadMonotonic
  <2>8. Load(B, weight) \in Nat /\ Load(A, weight) \in Nat
    BY <2>4, UnitsFinite
  <2>9. base + Load(A, weight) <= Limit
    BY DEF PumpAdmits
  <2>10. weight[a] \in Int /\ weight[b] \in Int
    BY <1>1
  <2>11. base + Load(B, weight) + weight[a] > Limit
    BY <2>3
  <2> HIDE DEF B
  <2>12. QED
    BY <1>1, <2>5, <2>6, <2>7, <2>8, <2>9, <2>10, <2>11
<1>5. QED
  BY <1>3, <1>4

(* No step of a pool of any size admits a caller past a waiter of higher   *)
(* priority, nor past an earlier waiter of its own priority that asks for  *)
(* no more (the bypass in pump() stays inside the head's tier).            *)
THEOREM OrderServed == Spec => ServedInOrder
<1> DEFINE InOrder == \A a, b \in Callers :
                         Waits(a) /\ IsAdmitted(b) =>
                             /\ priority[a] <= priority'[b]
                             /\ a \in older[b] /\ priority[a] = priority[b]
                                    => weight[a] > weight[b]
<1>1. PoolInv /\ [Next]_vars => InOrder
  <2> SUFFICES ASSUME PoolInv, [Next]_vars, NEW a \in Callers, NEW b \in Callers,
                      Waits(a), IsAdmitted(b)
               PROVE  /\ priority[a] <= priority'[b]
                      /\ a \in older[b] /\ priority[a] = priority[b]
                             => weight[a] > weight[b]
    OBVIOUS
  <2>0. a \in Queued /\ TypeOK
    BY DEF Waits, Queued, PoolInv, OrderInv
  <2>1. ASSUME NEW c \in Callers, NEW r \in Requests, NEW p \in Priorities,
               AcquireAtOnce(c, r, p)
        PROVE  FALSE
    BY <2>0, <2>1 DEF AcquireAtOnce, FastPathOpen
  <2>2. ASSUME NEW c \in Callers, NEW r \in Requests, NEW p \in Priorities,
               AcquireQueued(c, r, p)
        PROVE  FALSE
    BY <2>0, <2>2 DEF AcquireQueued, IsAdmitted, TypeOK
  <2>3. ASSUME NEW c \in Callers, RejectCall(c) PROVE FALSE
    BY <2>0, <2>3 DEF RejectCall, IsAdmitted, TypeOK
  <2>4. ASSUME NEW S \in SUBSET Queued, Leave(S) PROVE FALSE
    BY <2>4 DEF Leave, IsAdmitted
  <2>5. ASSUME NEW c \in Callers, Release(c)
        PROVE  /\ priority[a] <= priority'[b]
               /\ a \in older[b] /\ priority[a] = priority[b]
                      => weight[a] > weight[b]
    <3>1. PICK A \in SUBSET Queued :
             /\ PumpAdmits(A, inFlight - weight[c])
             /\ status' = [d \in Callers |->
                              CASE d = c -> "released"
                                [] d # c /\ d \in A -> "holding"
                                [] OTHER -> status[d]]
             /\ priority' = [priority EXCEPT ![c] = 0]
      BY <2>5, ReleaseAdmits
    <3>2. inFlight - weight[c] \in Nat
      BY <2>5, RestInFlight DEF Release, Holding
    <3>3. b \in A /\ b # c /\ a \notin A
      BY <3>1, <2>5 DEF IsAdmitted, Waits, Release
    <3>4. priority'[b] = priority[b]
      BY <2>0, <3>1, <3>3 DEF TypeOK
    <3>5. QED
      BY <2>0, <3>1, <3>2, <3>3, <3>4, PumpInOrder
  <2>6. CASE UNCHANGED vars
    BY <2>6 DEF vars, IsAdmitted
  <2>7. QED
    BY <2>1, <2>2, <2>3, <2>4, <2>5, <2>6
    DEF Next, AcquireAborted, AcquireFull, Timeout, Abort, AbortQueued, ReleaseAgain, Queued
<1>2. QED
  BY <1>1, PoolHolds, PTL DEF Spec, ServedInOrder

(* A release in a pool of any size hands on all the capacity it can: the   *)
(* head it leaves waiting does not fit in what remains.                    *)
THEOREM HeadServed == Spec => ReleaseServesHead
<1> DEFINE Hands == (\E c \in Callers : status[c] = "holding" /\ status'[c] = "released")
                       => \A h \in Callers : status'[h] = "queued" /\ ahead'[h] = {}
                                               => inFlight' + weight'[h] > Limit
<1>1. PoolInv /\ [Next]_vars => Hands
  <2> SUFFICES ASSUME PoolInv, [Next]_vars, NEW e \in Callers, NEW h \in Callers,
                      status[e] = "holding", status'[e] = "released",
                      status'[h] = "queued", ahead'[h] = {}
               PROVE  inFlight' + weight'[h] > Limit
    OBVIOUS
  <2>0. TypeOK
    BY DEF PoolInv, OrderInv
  <2>1. ASSUME NEW c \in Callers, NEW r \in Requests, NEW p \in Priorities,
               AcquireAtOnce(c, r, p)
        PROVE  FALSE
    BY <2>0, <2>1 DEF AcquireAtOnce, TypeOK
  <2>2. ASSUME NEW c \in Callers, NEW r \in Requests, NEW p \in Priorities,
               AcquireQueued(c, r, p)
        PROVE  FALSE
    BY <2>0, <2>2 DEF AcquireQueued, TypeOK
  <2>3. ASSUME NEW c \in Callers, RejectCall(c) PROVE FALSE
    BY <2>0, <2>3 DEF RejectCall, TypeOK
  <2>4. ASSUME NEW S \in SUBSET Queued, Leave(S) PROVE FALSE
    BY <2>4 DEF Leave
  <2>5. ASSUME NEW c \in Callers, Release(c)
        PROVE  inFlight' + weight'[h] > Limit
    <3>1. PICK A \in SUBSET Queued :
             /\ PumpAdmits(A, inFlight - weight[c])
             /\ status' = [d \in Callers |->
                              CASE d = c -> "released"
                                [] d # c /\ d \in A -> "holding"
                                [] OTHER -> status[d]]
             /\ weight' = [weight EXCEPT ![c] = 0]
             /\ ahead' = Without(ahead, A)
             /\ inFlight' = inFlight - weight[c] + Load(A, weight)
      BY <2>5, ReleaseAdmits
    <3>2. inFlight - weight[c] \in Nat
      BY <2>5, RestInFlight DEF Release, Holding
    <3>3. h \in Queued \ A /\ h # c /\ ahead[h] \subseteq A
      BY <3>1 DEF Queued, Without
    <3>4. weight'[h] = weight[h]
      BY <2>0, <3>1, <3>3 DEF TypeOK
    <3>5. inFlight - weight[c] + Load(A, weight) + weight[h] > Limit
      BY <3>1, <3>2, <3>3, HeadLeftDoesNotFit
    <3>6. QED
      BY <3>1, <3>4, <3>5
  <2>6. CASE UNCHANGED vars
    BY <2>6 DEF vars
  <2>7. QED
    BY <2>1, <2>2, <2>3, <2>4, <2>5, <2>6
    DEF Next, AcquireAborted, AcquireFull, Timeout, Abort, AbortQueued, ReleaseAgain, Queued
<1>2. QED
  BY <1>1, PoolHolds, PTL DEF Spec, ReleaseServesHead
----------------------------------------------------------------------------
(* The loops.  The queue as an array, the loops' states after each turn,   *)
(* and the sets WeightedSemaphore makes of them.                           *)

Entries == [owner : Callers, weight : Nat, priority : Int]

(* q holds the waiters of W, each once, after those ahead of it.           *)
Holds(q, W) ==
    /\ q \in Seq(Entries)
    /\ \A i \in 1..Len(q) : /\ q[i].owner \in W
                            /\ q[i].weight = weight[q[i].owner]
                            /\ q[i].priority = priority[q[i].owner]
    /\ \A c \in W : \E i \in 1..Len(q) : q[i].owner = c
    /\ \A i, j \in 1..Len(q) : i < j => q[i].owner \in ahead[q[j].owner]

(* A set of natural numbers that is not empty has a least element.         *)
LEMMA LeastOf ==
    ASSUME NEW T \in SUBSET Nat, T # {}
    PROVE  \E k \in T : \A j \in T : k <= j
<1>1. PICK m : m \in T
  OBVIOUS
<1> DEFINE C == {0..k : k \in {j \in T : j <= m}}
           F == SUBSET (0..m)
<1>2. IsWellFoundedOn(StrictSubsetOrdering(0..m), F)
  <2>1. IsFiniteSet(0..m)
    BY <1>1, FS_Interval
  <2>2. FiniteSubsetsOf(0..m) = F
    BY <2>1, FS_FiniteSubsetsOfFinite
  <2>3. IsWellFoundedOn(StrictSubsetOrdering(0..m), FiniteSubsetsOf(0..m))
    BY FS_StrictSubsetOrderingWellFounded
  <2>4. QED
    BY <2>2, <2>3
<1>3. C \subseteq F /\ C # {}
  BY <1>1
<1> HIDE DEF F
<1>4. \E x \in C : \A y \in C : ~ (<<y, x>> \in StrictSubsetOrdering(0..m))
  BY <1>2, <1>3, WFMin
<1>5. PICK k \in T : /\ k <= m
                     /\ \A j \in T : j <= m => <<0..j, 0..k>> \notin StrictSubsetOrdering(0..m)
  BY <1>4
<1>6. ASSUME NEW j \in T, j < k PROVE FALSE
  <2>1. j \in Nat /\ k \in Nat /\ m \in Nat /\ j < k /\ k <= m
    BY <1>1, <1>5, <1>6
  <2>2. k \in 0..k /\ k \notin 0..j
    BY <2>1
  <2>3. 0..j \subseteq 0..k /\ 0..j # 0..k /\ 0..j \in SUBSET (0..m) /\ 0..k \in SUBSET (0..m)
    BY <2>1, <2>2
  <2>4. <<0..j, 0..k>> \in StrictSubsetOrdering(0..m)
    BY <2>3 DEF StrictSubsetOrdering
  <2>5. QED
    BY <1>1, <1>5, <1>6, <2>1, <2>4
<1>7. QED
  BY <1>5, <1>6

(* Counting, with a set for the property.                                  *)
LEMMA Counting ==
    ASSUME NEW T \in SUBSET Nat, 0 \in T, \A n \in T : n + 1 \in T
    PROVE  T = Nat
<1> SUFFICES ASSUME Nat \ T # {} PROVE FALSE
  OBVIOUS
<1>1. PICK k \in Nat \ T : \A j \in Nat \ T : k <= j
  BY LeastOf
<1>2. k - 1 \in T
  BY <1>1
<1>3. QED
  BY <1>1, <1>2

(* The place of a waiter is the number of those ahead of it, so the array  *)
(* holds all waiters in order.                                             *)
LEMMA ArrayHolds ==
    ASSUME OrderInv
    PROVE  Holds(QueueArray, Queued)
<1> DEFINE n == Cardinality(Queued)
           place == [c \in Queued |-> Cardinality(ahead[c])]
<1>1. IsFiniteSet(Queued) /\ n \in Nat /\ Queued \subseteq Callers
  BY QueuedFinite, FS_CardinalityType, SemaphoreAssumption, FS_Subset DEF Queued
<1>2. ASSUME NEW c \in Queued
      PROVE  /\ ahead[c] \subseteq Queued \ {c} /\ IsFiniteSet(ahead[c])
             /\ Cardinality(ahead[c]) \in 0..n - 1
  <2>1. ahead[c] \subseteq Queued \ {c}
    BY AheadIsOrder, <1>1 DEF OrderInv, QueueSorted, Precedes, ArrivalOrder, Queued
  <2>2. IsFiniteSet(Queued \ {c}) /\ Cardinality(Queued \ {c}) = n - 1
    BY <1>1, FS_RemoveElement
  <2>3. IsFiniteSet(ahead[c]) /\ Cardinality(ahead[c]) <= n - 1
    BY <2>1, <2>2, FS_Subset
  <2>4. Cardinality(ahead[c]) \in Nat
    BY <2>3, FS_CardinalityType
  <2>5. QED
    BY <1>1, <2>1, <2>3, <2>4
<1>3. ASSUME NEW c \in Queued, NEW d \in ahead[c]
      PROVE  d \in Queued /\ Cardinality(ahead[d]) < Cardinality(ahead[c])
  <2>1. d \in Queued /\ ahead[d] \subseteq ahead[c] \ {d}
    BY <1>2, <1>3, AheadIsOrder
  <2>2. IsFiniteSet(ahead[c] \ {d}) /\ Cardinality(ahead[c] \ {d}) = Cardinality(ahead[c]) - 1
    BY <1>2, <1>3, FS_RemoveElement
  <2>3. Cardinality(ahead[d]) <= Cardinality(ahead[c] \ {d})
    BY <2>1, <2>2, FS_Subset
  <2>4. Cardinality(ahead[c]) \in Nat /\ Cardinality(ahead[d]) \in Nat
    BY <1>2, <2>1
  <2>5. QED
    BY <2>1, <2>2, <2>3, <2>4
<1>4. ASSUME NEW c \in Queued, NEW d \in Queued, c # d PROVE d \in ahead[c] \/ c \in ahead[d]
  BY <1>4 DEF OrderInv, QueueSorted, Precedes, ArrivalOrder, TypeOK, Queued
<1>5. ASSUME NEW c \in Queued, NEW d \in Queued, Cardinality(ahead[c]) = Cardinality(ahead[d])
      PROVE  c = d
  BY <1>2, <1>3, <1>4, <1>5
<1>6. IsFiniteSet(0..n - 1) /\ Cardinality(0..n - 1) = n
  <2>1. 0 \in Int /\ n - 1 \in Int
    BY <1>1
  <2>2. IsFiniteSet(0..n - 1) /\ Cardinality(0..n - 1) = IF 0 > n - 1 THEN 0 ELSE n - 1 - 0 + 1
    BY <2>1, FS_Interval, Zenon
  <2>3. QED
    BY <1>1, <2>2
<1>7. place \in Injection(Queued, 0..n - 1)
  BY <1>2, <1>5 DEF Injection, IsInjective
<1>8. place \in Surjection(Queued, 0..n - 1)
  <2> HIDE DEF place
  <2>1. QED
    BY <1>1, <1>6, <1>7, FS_Injection
<1> DEFINE at(i) == CHOOSE d \in Queued : Cardinality(ahead[d]) = i - 1
<1>9. ASSUME NEW i \in 1..n PROVE at(i) \in Queued /\ Cardinality(ahead[at(i)]) = i - 1
  <2>1. i - 1 \in 0..n - 1
    BY <1>1
  <2>2. \E d \in Queued : place[d] = i - 1
    BY <1>8, <2>1 DEF Surjection
  <2>3. \E d \in Queued : Cardinality(ahead[d]) = i - 1
    BY <2>2
  <2>4. QED
    BY <2>3
<1>10. QueueArray = [i \in 1..n |-> [owner |-> at(i), weight |-> weight[at(i)],
                                     priority |-> priority[at(i)]]]
  BY DEF QueueArray
<1> HIDE DEF at, n
<1>11. ASSUME NEW i \in 1..n
       PROVE  /\ QueueArray[i].owner = at(i) /\ QueueArray[i].weight = weight[at(i)]
              /\ QueueArray[i].priority = priority[at(i)] /\ QueueArray[i] \in Entries
  <2>1. QueueArray[i] = [owner |-> at(i), weight |-> weight[at(i)], priority |-> priority[at(i)]]
    BY <1>10
  <2>2. at(i) \in Callers /\ weight[at(i)] \in Nat /\ priority[at(i)] \in Int
    BY <1>1, <1>9, SemaphoreAssumption DEF OrderInv, TypeOK
  <2>3. QED
    BY <2>1, <2>2 DEF Entries
<1>12. QueueArray \in Seq(Entries) /\ Len(QueueArray) = n
  <2>1. \A i \in 1..n : QueueArray[i] \in Entries
    BY <1>11
  <2>2. QueueArray = [i \in 1..n |-> QueueArray[i]]
    BY <1>10
  <2>3. QueueArray \in [1..n -> Entries]
    BY <2>1, <2>2
  <2>4. DOMAIN QueueArray = 1..n
    BY <2>2
  <2>5. QED
    BY <1>1, <2>3, <2>4, SeqDef, LenProperties
<1>13. ASSUME NEW c \in Queued PROVE \E i \in 1..n : at(i) = c
  <2>1. Cardinality(ahead[c]) \in 0..n - 1
    BY <1>2 DEF n
  <2>2. PICK i \in 1..n : Cardinality(ahead[c]) = i - 1
    <3>1. Cardinality(ahead[c]) + 1 \in 1..n
      BY <1>1, <2>1 DEF n
    <3>2. Cardinality(ahead[c]) = (Cardinality(ahead[c]) + 1) - 1
      BY <2>1, <1>1 DEF n
    <3>3. QED
      BY <3>1, <3>2
  <2>3. QED
    BY <1>5, <1>9, <2>2
<1>14. ASSUME NEW i \in 1..n, NEW j \in 1..n, i < j PROVE at(i) \in ahead[at(j)]
  <2>1. /\ at(i) \in Queued /\ Cardinality(ahead[at(i)]) = i - 1
        /\ at(j) \in Queued /\ Cardinality(ahead[at(j)]) = j - 1
    BY <1>9
  <2>2. i - 1 < j - 1 /\ i - 1 # j - 1
    BY <1>14, <1>1 DEF n
  <2>3. at(j) \notin ahead[at(i)]
    BY <1>1, <1>3, <2>1, <2>2 DEF n
  <2>4. QED
    BY <1>4, <2>1, <2>2, <2>3
<1>15. \A i \in 1..n : /\ QueueArray[i].owner \in Queued
                       /\ QueueArray[i].weight = weight[QueueArray[i].owner]
                       /\ QueueArray[i].priority = priority[QueueArray[i].owner]
  BY <1>9, <1>11
<1>16. \A c \in Queued : \E i \in 1..n : QueueArray[i].owner = c
  BY <1>11, <1>13
<1>17. \A i, j \in 1..n : i < j => QueueArray[i].owner \in ahead[QueueArray[j].owner]
  BY <1>11, <1>14
<1>18. QED
  BY <1>12, <1>15, <1>16, <1>17 DEF Holds

(* An array without one of its entries holds the other waiters.            *)
LEMMA TakenHolds ==
    ASSUME OrderInv, NEW W \in SUBSET Queued, NEW q, Holds(q, W), NEW k \in 1..Len(q)
    PROVE  /\ Holds(RemoveAt(q, k), W \ {q[k].owner})
           /\ Len(RemoveAt(q, k)) = Len(q) - 1
<1> DEFINE r == RemoveAt(q, k)
           n == Len(q)
           before == SubSeq(q, 1, k - 1)
           after  == SubSeq(q, k + 1, n)
<1>1. q \in Seq(Entries) /\ n \in Nat /\ \A i \in 1..n : q[i] \in Entries
  BY LenProperties, ElementOfSeq DEF Holds
<1>2. /\ before \in Seq(Entries) /\ Len(before) = k - 1
      /\ \A i \in 1..(k - 1) : before[i] = q[i]
  BY <1>1, SubSeqProperties
<1>3. /\ after \in Seq(Entries) /\ Len(after) = n - k
      /\ \A i \in 1..(n - k) : after[i] = q[k + i]
  BY <1>1, SubSeqProperties
<1>4. /\ r \in Seq(Entries) /\ Len(r) = Len(before) + Len(after)
      /\ \A i \in 1..(Len(before) + Len(after)) :
            r[i] = IF i <= Len(before) THEN before[i] ELSE after[i - Len(before)]
  BY <1>2, <1>3, ConcatProperties DEF RemoveAt
<1>5. Len(r) = n - 1
  <2>1. Len(r) = (k - 1) + (n - k)
    BY <1>2, <1>3, <1>4
  <2>2. (k - 1) + (n - k) = n - 1
    BY <1>1
  <2>3. QED
    BY <2>1, <2>2
<1>6. \A i \in 1..(n - 1) : r[i] = IF i <= k - 1 THEN before[i] ELSE after[i - (k - 1)]
  BY <1>2, <1>4, <1>5
<1> HIDE DEF r, before, after
<1>7. ASSUME NEW i \in 1..(n - 1)
      PROVE  /\ i < k => r[i] = q[i] /\ i \in 1..n
             /\ ~(i < k) => r[i] = q[i + 1] /\ i + 1 \in 1..n
  <2>1. CASE i < k
    <3>1. i \in 1..(k - 1) /\ i <= k - 1 /\ i \in 1..n
      BY <1>1, <2>1
    <3>2. QED
      BY <1>2, <1>6, <2>1, <3>1
  <2>2. CASE ~(i < k)
    <3>1. /\ ~(i <= k - 1) /\ i - (k - 1) \in 1..(n - k) /\ k + (i - (k - 1)) = i + 1
          /\ i + 1 \in 1..n
      BY <1>1, <2>2
    <3>2. QED
      BY <1>3, <1>6, <2>2, <3>1
  <2>3. QED
    BY <2>1, <2>2
<1> DEFINE old(i) == IF i < k THEN i ELSE i + 1
<1>8. \A i \in 1..(n - 1) : old(i) \in 1..n /\ old(i) # k /\ r[i] = q[old(i)]
  BY <1>1, <1>7
<1>9. \A i, j \in 1..(n - 1) : i < j => old(i) < old(j)
  BY <1>1
<1>10. \A i \in 1..n : i # k => \E j \in 1..(n - 1) : old(j) = i
  <2>1. SUFFICES ASSUME NEW i \in 1..n, i # k PROVE \E j \in 1..(n - 1) : old(j) = i
    OBVIOUS
  <2>2. CASE i < k
    <3>1. i \in 1..(n - 1) /\ old(i) = i
      BY <1>1, <2>2
    <3>2. QED
      BY <3>1
  <2>3. CASE i > k
    <3>1. i - 1 \in 1..(n - 1) /\ old(i - 1) = i
      BY <1>1, <2>3
    <3>2. QED
      BY <3>1
  <2>4. QED
    BY <1>1, <2>1, <2>2, <2>3
<1> HIDE DEF old, n
<1>11. ASSUME NEW i \in 1..n, i # k PROVE q[i].owner # q[k].owner
  <2>1. i < k \/ k < i
    BY <1>1, <1>11 DEF n
  <2>2. q[i].owner \in ahead[q[k].owner] \/ q[k].owner \in ahead[q[i].owner]
    BY <2>1 DEF Holds, n
  <2>3. q[i].owner \in Queued /\ q[k].owner \in Queued
    BY DEF Holds, n
  <2>4. QED
    BY <2>2, <2>3, AheadIsOrder
<1>12. \A i \in 1..(n - 1) : /\ r[i].owner \in W \ {q[k].owner}
                             /\ r[i].weight = weight[r[i].owner]
                             /\ r[i].priority = priority[r[i].owner]
  BY <1>8, <1>11 DEF Holds, n
<1>13. \A c \in W \ {q[k].owner} : \E i \in 1..(n - 1) : r[i].owner = c
  <2>1. SUFFICES ASSUME NEW c \in W \ {q[k].owner} PROVE \E i \in 1..(n - 1) : r[i].owner = c
    OBVIOUS
  <2>2. PICK i \in 1..n : q[i].owner = c
    BY DEF Holds, n
  <2>3. PICK j \in 1..(n - 1) : old(j) = i
    BY <1>10, <2>2
  <2>4. QED
    BY <1>8, <2>2, <2>3
<1>14. \A i, j \in 1..(n - 1) : i < j => r[i].owner \in ahead[r[j].owner]
  BY <1>8, <1>9 DEF Holds, n
<1>15. r \in Seq(Entries) /\ Len(r) = n - 1
  BY <1>4, <1>5 DEF n
<1>16. QED
  BY <1>12, <1>13, <1>14, <1>15 DEF Holds, r, n

(* The insertion loop ends behind the last entry that is not of a lower    *)
(* priority, and InFrontOf is what it leaves in front.                     *)
Stops(f, q, p) ==
    f = [i \in 0..Len(q) |-> IF i > 0 /\ q[i].priority < p THEN f[i - 1] ELSE i]

LEMMA StopExists ==
    ASSUME NEW q, Len(q) \in Nat, NEW p
    PROVE  \E f : Stops(f, q, p)
<1> DEFINE n == Len(q)
           pass(i) == i > 0 /\ q[i].priority < p
           last(i) == CHOOSE k \in 0..i : ~pass(k) /\ \A j \in k + 1..i : pass(j)
<1>1. ASSUME NEW i \in Nat PROVE \E k \in 0..i : ~pass(k) /\ \A j \in k + 1..i : pass(j)
  <2> DEFINE T == {d \in 0..i : ~pass(i - d)}
  <2>1. i \in T
    <3>1. i - i = 0 /\ i \in 0..i
      BY <1>1
    <3>2. ~pass(0)
      OBVIOUS
    <3>3. QED
      BY <3>1, <3>2
  <2>2. T \in SUBSET Nat
    BY <1>1
  <2> HIDE DEF pass
  <2>3. PICK d \in T : \A e \in T : d <= e
    <3> HIDE DEF T
    <3>1. QED
      BY <2>1, <2>2, LeastOf
  <2>4. i - d \in 0..i /\ ~pass(i - d)
    BY <1>1, <2>3
  <2>5. ASSUME NEW j \in (i - d) + 1..i PROVE pass(j)
    <3>1. i - j \in 0..i /\ i - j < d /\ i - (i - j) = j
      BY <1>1, <2>3, <2>5
    <3>2. d \in 0..i /\ ~(d <= i - j)
      BY <1>1, <2>3, <3>1
    <3>3. i - j \notin T
      BY <2>3, <3>2
    <3>4. QED
      BY <3>1, <3>3
  <2>6. QED
    BY <2>4, <2>5
<1> HIDE DEF pass
<1>2. ASSUME NEW i \in Nat, NEW k \in 0..i, NEW l \in 0..i,
             ~pass(k), \A j \in k + 1..i : pass(j), ~pass(l), \A j \in l + 1..i : pass(j)
      PROVE  k = l
  <2>1. k < l => l \in k + 1..i
    BY <1>2
  <2>2. l < k => k \in l + 1..i
    BY <1>2
  <2>3. QED
    BY <1>2, <2>1, <2>2
<1>3. \A i \in Nat : /\ last(i) \in 0..i /\ ~pass(last(i))
                     /\ \A j \in last(i) + 1..i : pass(j)
  BY <1>1
<1> HIDE DEF last
<1> DEFINE f == [i \in 0..n |-> last(i)]
<1>4. ASSUME NEW i \in 0..n PROVE f[i] = IF pass(i) THEN f[i - 1] ELSE i
  <2>1. CASE ~pass(i)
    <3>1. i \in 0..i /\ \A j \in i + 1..i : pass(j)
      BY <1>4
    <3>2. last(i) = i
      BY <1>2, <1>3, <1>4, <2>1, <3>1
    <3>3. QED
      BY <2>1, <3>2
  <2>2. CASE pass(i)
    <3>1. i \in 1..n /\ i - 1 \in 0..n /\ i - 1 \in Nat
      BY <1>4, <2>2 DEF pass
    <3>0. PICK m : m = last(i - 1)
      OBVIOUS
    <3>. m \in 0..(i - 1) /\ ~pass(m) /\ \A j \in m + 1..i - 1 : pass(j)
      BY <1>3, <3>0, <3>1
    <3>2. last(i - 1) \in 0..i
      BY <3>0, <3>1
    <3>3. \A j \in m + 1..i : j = i \/ j \in m + 1..i - 1
      BY <3>1
    <3>4. ~pass(last(i - 1)) /\ \A j \in last(i - 1) + 1..i : pass(j)
      BY <2>2, <3>0, <3>3
    <3>5. last(i) = last(i - 1)
      BY <1>2, <1>3, <3>1, <3>2, <3>4
    <3>6. QED
      BY <2>2, <3>1, <3>5
  <2>3. QED
    BY <2>1, <2>2
<1>5. f = [i \in 0..n |-> f[i]]
  OBVIOUS
<1> HIDE DEF f
<1>6. f = [i \in 0..n |-> IF i > 0 /\ q[i].priority < p THEN f[i - 1] ELSE i]
  BY <1>4, <1>5 DEF pass
<1>7. QED
  BY <1>6 DEF Stops

LEMMA InsertionLoop ==
    ASSUME OrderInv, NEW p \in Int
    PROVE  InFrontOf(p) = {QueueArray[i].owner : i \in 1..InsertIndex(QueueArray, p)}
<1> DEFINE q == QueueArray
           n == Len(q)
<1>1. Holds(q, Queued) /\ n \in Nat
  BY ArrayHolds, LenProperties DEF Holds
<1>2. \A i \in 1..n : q[i].owner \in Queued /\ q[i].priority \in Int
  <2>1. \A c \in Queued : priority[c] \in Int
    BY DEF OrderInv, TypeOK, Queued
  <2>2. QED
    BY <1>1, <2>1 DEF Holds
<1> HIDE DEF q
<1> DEFINE f == CHOOSE g : Stops(g, q, p)
<1>3. Stops(f, q, p) /\ InsertIndex(q, p) = f[n]
  <2>1. \E g : Stops(g, q, p)
    BY <1>1, StopExists
  <2>2. Stops(f, q, p)
    BY <2>1
  <2>3. InsertIndex(q, p) = f[n]
    BY DEF InsertIndex, Stops
  <2>4. QED
    BY <2>2, <2>3
<1> HIDE DEF f
<1> DEFINE Behind(i) == /\ f[i] \in 0..i
                        /\ f[i] > 0 => q[f[i]].priority >= p
                        /\ \A j \in f[i] + 1..i : q[j].priority < p
           T == {i \in Nat : i <= n => Behind(i)}
<1>4. 0 \in T
  <2>1. f[0] = 0
    BY <1>1, <1>3 DEF Stops
  <2>2. QED
    BY <2>1
<1>5. ASSUME NEW i \in T PROVE i + 1 \in T
  <2>1. SUFFICES ASSUME i + 1 <= n PROVE Behind(i + 1)
    BY <1>5
  <2>2. Behind(i) /\ i \in Nat
    BY <1>1, <1>5, <2>1
  <2>3. i + 1 \in 1..n /\ (i + 1) - 1 = i
    BY <1>1, <2>1, <2>2
  <2>4. f[i + 1] = IF q[i + 1].priority < p THEN f[i] ELSE i + 1
    BY <1>3, <2>3 DEF Stops
  <2>5. CASE q[i + 1].priority < p
    BY <2>2, <2>4, <2>5
  <2>6. CASE ~(q[i + 1].priority < p)
    <3>1. q[i + 1].priority >= p /\ f[i + 1] = i + 1
      BY <1>2, <2>3, <2>4, <2>6
    <3>2. QED
      BY <2>2, <3>1
  <2>7. QED
    BY <2>5, <2>6
<1>6. Behind(n)
  <2>1. T \in SUBSET Nat
    OBVIOUS
  <2> HIDE DEF T
  <2>2. n \in T
    BY <1>1, <1>4, <1>5, <2>1, Counting
  <2>3. QED
    BY <1>1, <2>2 DEF T
<1>7. PICK k \in 0..n : /\ k = InsertIndex(q, p)
                        /\ k > 0 => q[k].priority >= p
                        /\ \A j \in k + 1..n : q[j].priority < p
  BY <1>3, <1>6
<1>8. ASSUME NEW d \in InFrontOf(p) PROVE \E i \in 1..k : d = q[i].owner
  <2>1. PICK e \in Queued : d \in Queued /\ priority[e] >= p /\ (d = e \/ d \in ahead[e])
    BY <1>8 DEF InFrontOf
  <2>2. PICK i \in 1..n : q[i].owner = e
    BY <1>1, <2>1 DEF Holds, n
  <2>3. PICK j \in 1..n : q[j].owner = d
    BY <1>1, <2>1 DEF Holds, n
  <2>4. q[i].priority = priority[e] /\ priority[e] \in Int
    BY <1>1, <1>2, <2>2 DEF Holds, n
  <2>5. i <= k
    BY <1>1, <1>7, <2>1, <2>4
  <2>6. i < j => e \in ahead[d]
    BY <1>1, <2>2, <2>3 DEF Holds, n
  <2>7. e \in ahead[d] => d # e /\ d \notin ahead[e]
    BY <2>1, AheadIsOrder
  <2>8. j <= k
    BY <1>1, <1>7, <2>1, <2>5, <2>6, <2>7
  <2>9. QED
    BY <1>1, <1>7, <2>3, <2>8
<1>9. ASSUME NEW i \in 1..k PROVE q[i].owner \in InFrontOf(p)
  <2>1. k \in 1..n /\ i \in 1..n /\ k > 0 /\ (i = k \/ i < k)
    BY <1>1, <1>7, <1>9
  <2>2. q[i].owner = q[k].owner \/ q[i].owner \in ahead[q[k].owner]
    BY <1>1, <2>1 DEF Holds, n
  <2>3. priority[q[k].owner] >= p
    BY <1>1, <1>7, <2>1 DEF Holds, n
  <2>4. q[i].owner \in Queued /\ q[k].owner \in Queued
    BY <1>2, <2>1
  <2>5. QED
    BY <2>2, <2>3, <2>4 DEF InFrontOf
<1>10. InFrontOf(p) = {q[i].owner : i \in 1..k}
  BY <1>8, <1>9
<1>11. QED
  BY <1>7, <1>10 DEF q

(* What a turn of pump() takes: an entry that fits, of the head's          *)
(* priority, in front of which none of that priority does.                 *)
LEMMA ChosenIs ==
    ASSUME OrderInv, NEW W \in SUBSET Queued, NEW q, Holds(q, W), NEW inUse \in Int
    PROVE  LET k == Chosen(q, inUse, Limit) IN
           /\ k = 0 => \A i \in 1..Len(q) :
                  q[i].priority = q[1].priority => inUse + q[i].weight > Limit
           /\ k # 0 => /\ k \in 1..Len(q) /\ inUse + q[k].weight <= Limit
                       /\ q[k].priority = q[1].priority
                       /\ \A i \in 1..k - 1 :
                              q[i].priority = q[1].priority => inUse + q[i].weight > Limit
<1> DEFINE n == Len(q)
           k == Chosen(q, inUse, Limit)
           fits == {i \in DOMAIN q : /\ q[i].priority = q[1].priority
                                     /\ inUse + q[i].weight <= Limit}
<1>1. /\ n \in Nat /\ DOMAIN q = 1..n /\ (q = <<>> <=> n = 0) /\ Limit \in Nat
      /\ \A i \in 1..n : q[i].weight \in Nat
  <2>1. q \in Seq(Entries)
    BY DEF Holds
  <2>2. n \in Nat /\ DOMAIN q = 1..n /\ (q = <<>> <=> n = 0) /\ \A i \in 1..n : q[i] \in Entries
    BY <2>1, LenProperties, ElementOfSeq, EmptySeq
  <2>3. QED
    BY <2>2, SemaphoreAssumption DEF Entries
<1>2. k = IF q = <<>> THEN 0
          ELSE IF inUse + q[1].weight <= Limit THEN 1
          ELSE IF fits = {} THEN 0 ELSE CHOOSE i \in fits : \A j \in fits : i <= j
  BY DEF Chosen, FirstFitting
<1>3. fits # {} => \E i \in fits : \A j \in fits : i <= j
  <2>1. fits \in SUBSET Nat
    BY <1>1
  <2> HIDE DEF fits
  <2>2. QED
    BY <2>1, LeastOf
<1> HIDE DEF k
<1>4. CASE q = <<>>
  <2>1. k = 0 /\ 1..n = {}
    BY <1>1, <1>2, <1>4
  <2>2. QED
    BY <2>1 DEF k, n
<1>5. CASE q # <<>> /\ inUse + q[1].weight <= Limit
  <2>1. k = 1 /\ 1 \in 1..n /\ 1..k - 1 = {}
    BY <1>1, <1>2, <1>5
  <2>2. QED
    BY <1>5, <2>1 DEF k, n
<1>6. CASE q # <<>> /\ ~(inUse + q[1].weight <= Limit) /\ fits = {}
  <2>1. k = 0
    BY <1>2, <1>6
  <2>2. \A i \in 1..n : q[i].priority = q[1].priority => inUse + q[i].weight > Limit
    BY <1>1, <1>6
  <2>3. QED
    BY <2>1, <2>2 DEF k, n
<1>7. CASE q # <<>> /\ ~(inUse + q[1].weight <= Limit) /\ fits # {}
  <2>1. k \in fits /\ \A j \in fits : k <= j
    <3> HIDE DEF fits
    <3>1. QED
      BY <1>2, <1>3, <1>7
  <2>2. /\ k \in 1..n /\ inUse + q[k].weight <= Limit /\ q[k].priority = q[1].priority /\ k # 0
    BY <1>1, <2>1
  <2>3. ASSUME NEW i \in 1..k - 1, q[i].priority = q[1].priority
        PROVE  inUse + q[i].weight > Limit
    <3>1. i \in 1..n /\ ~(k <= i)
      BY <1>1, <2>2, <2>3
    <3>2. i \notin fits
      BY <2>1, <3>1
    <3>3. QED
      BY <1>1, <2>3, <3>1, <3>2
  <2>4. QED
    BY <2>2, <2>3 DEF k, n
<1>8. QED
  BY <1>4, <1>5, <1>6, <1>7

(* Whoever was admitted from behind another was so within its tier, and    *)
(* when the other no longer fitted.                                        *)
Settled(A, base) ==
    \A a \in A : \A b \in ahead[a] \ A :
        /\ priority[b] = priority[a]
        /\ base + Load(A \cap ahead[b], weight) + weight[b] > Limit

(* The state of pump() between two turns.                                  *)
Pumping(s, base) ==
    /\ s.admitted \subseteq Queued
    /\ Holds(s.queue, Queued \ s.admitted)
    /\ s.inUse = base + Load(s.admitted, weight) /\ s.inUse <= Limit
    /\ Settled(s.admitted, base)

(* Who does not fit beside all the admitted did not fit at its turn.       *)
LEMMA PassedOver ==
    ASSUME OrderInv, NEW A \in SUBSET Queued, NEW base \in Int, Settled(A, base),
           NEW b \in Queued \ A, base + Load(A, weight) + weight[b] > Limit
    PROVE  base + Load(A \cap ahead[b], weight) + weight[b] > Limit
<1>1. CASE \E a \in A : b \in ahead[a]
  BY <1>1 DEF Settled
<1>2. CASE \A a \in A : b \notin ahead[a]
  <2>1. \A a \in A : a \in Queued /\ a # b
    OBVIOUS
  <2>2. \A a \in A : a \in ahead[b]
    BY <1>2, <2>1 DEF OrderInv, QueueSorted, Precedes, ArrivalOrder, TypeOK, Queued
  <2>3. A \cap ahead[b] = A
    BY <2>2
  <2>4. QED
    BY <2>3
<1>3. QED
  BY <1>1, <1>2

(* A turn keeps that.                                                      *)
LEMMA TurnKeeps ==
    ASSUME OrderInv, NEW base \in Int, NEW s, Pumping(s, base)
    PROVE  LET k == Chosen(s.queue, s.inUse, Limit)  t == Turn(s, Limit) IN
           /\ Pumping(t, base)
           /\ k = 0 => t = s
           /\ k # 0 => Len(t.queue) = Len(s.queue) - 1
<1> DEFINE k == Chosen(s.queue, s.inUse, Limit)
           q == s.queue
           A == s.admitted
           W == Queued \ A
<1>1. /\ A \in SUBSET Queued /\ Holds(q, W) /\ Settled(A, base)
      /\ s.inUse = base + Load(A, weight) /\ s.inUse <= Limit
      /\ Load(A, weight) \in Nat /\ s.inUse \in Int
  BY UnitsFinite DEF Pumping, Queued
<1>2. CASE k = 0
  <2>1. Turn(s, Limit) = s
    BY <1>2 DEF Turn
  <2>2. QED
    BY <1>2, <2>1
<1>3. CASE k # 0
  <2> DEFINE a == q[k].owner
             B == A \cup {a}
             t == Turn(s, Limit)
  <2>1. t = [queue |-> RemoveAt(q, k), inUse |-> s.inUse + q[k].weight, admitted |-> B]
    BY <1>3 DEF Turn
  <2>2. /\ k \in 1..Len(q) /\ s.inUse + q[k].weight <= Limit /\ q[k].priority = q[1].priority
        /\ \A i \in 1..k - 1 : q[i].priority = q[1].priority => s.inUse + q[i].weight > Limit
    BY <1>1, <1>3, ChosenIs
  <2> HIDE DEF k, q, A
  <2>3. /\ a \in W /\ q[k].weight = weight[a] /\ q[k].priority = priority[a]
        /\ a \in Callers /\ weight[a] \in 0..Limit /\ Len(q) \in Nat
    BY <1>1, <2>2, LenProperties DEF Holds, Queued, OrderInv, TypeOK
  <2>4. Holds(RemoveAt(q, k), Queued \ B) /\ Len(RemoveAt(q, k)) = Len(q) - 1
    <3>1. W \ {a} = Queued \ B
      OBVIOUS
    <3>2. Holds(RemoveAt(q, k), W \ {a}) /\ Len(RemoveAt(q, k)) = Len(q) - 1
      BY <1>1, <2>2, TakenHolds
    <3>3. QED
      BY <3>1, <3>2
  <2>5. Load(B, weight) = Load(A, weight) + weight[a] /\ A \subseteq Callers
    <3>1. A \subseteq Callers /\ {a} \subseteq Callers /\ A \cap {a} = {}
      BY <1>1, <2>3 DEF Queued
    <3>2. Load(B, weight) = Load(A, weight) + Load({a}, weight)
      BY <3>1, LoadUnion
    <3>3. QED
      BY <2>3, <3>1, <3>2, LoadOfOne
  <2>6. ASSUME NEW b \in ahead[a] \ B
        PROVE  /\ priority[b] = priority[a]
               /\ base + Load(A \cap ahead[b], weight) + weight[b] > Limit
    <3>1. b \in W /\ a \notin ahead[b] /\ b # a /\ priority[b] >= priority[a]
      BY <2>3, <2>6, AheadIsOrder
    <3>2. PICK i \in 1..Len(q) : q[i].owner = b
      BY <1>1, <3>1 DEF Holds
    <3>3. i \in 1..k - 1
      <4>1. k < i => a \in ahead[b]
        BY <1>1, <2>2, <3>2 DEF Holds
      <4>2. i # k
        BY <3>1, <3>2
      <4>3. QED
        BY <2>2, <2>3, <3>1, <4>1, <4>2
    <3>4. /\ q[i].priority = priority[b] /\ q[i].weight = weight[b]
          /\ 1 \in 1..Len(q) /\ q[1].owner \in Queued /\ q[1].priority = priority[q[1].owner]
          /\ (i = 1 \/ q[1].owner \in ahead[b])
      <4>1. 1 \in 1..Len(q) /\ (i = 1 \/ 1 < i)
        BY <2>3, <3>2
      <4>2. QED
        BY <1>1, <3>2, <4>1 DEF Holds
    <3>5. priority[q[1].owner] >= priority[b] \/ i = 1
      BY <3>1, <3>4, AheadIsOrder
    <3>6. \A c \in Queued : priority[c] \in Int
      BY DEF OrderInv, TypeOK, Queued
    <3>7. priority[b] = priority[a] /\ q[i].priority = q[1].priority
      <4>1. priority[q[1].owner] = priority[a]
        BY <2>2, <2>3, <3>4
      <4>2. priority[q[1].owner] >= priority[b]
        BY <3>1, <3>2, <3>4, <3>5, <3>6
      <4>3. a \in Queued /\ b \in Queued
        BY <2>3, <3>1
      <4>4. priority[a] \in Int /\ priority[b] \in Int
        BY <3>6, <4>3
      <4>5. priority[b] = priority[a]
        BY <3>1, <4>1, <4>2, <4>4
      <4>6. QED
        BY <3>4, <4>1, <4>5
    <3>8. base + Load(A, weight) + weight[b] > Limit
      BY <1>1, <2>2, <3>3, <3>4, <3>7
    <3>9. base + Load(A \cap ahead[b], weight) + weight[b] > Limit
      BY <1>1, <3>1, <3>8, PassedOver
    <3>10. QED
      BY <3>7, <3>9
  <2>7. ASSUME NEW c \in A, NEW b \in ahead[c] \ B
        PROVE  /\ priority[b] = priority[c]
               /\ base + Load(A \cap ahead[b], weight) + weight[b] > Limit
    BY <1>1, <2>7 DEF Settled
  <2>8. ASSUME NEW b \in Queued, base + Load(A \cap ahead[b], weight) + weight[b] > Limit
        PROVE  base + Load(B \cap ahead[b], weight) + weight[b] > Limit
    <3>1. B \cap ahead[b] \in SUBSET Callers /\ A \cap ahead[b] \in SUBSET (B \cap ahead[b])
      BY <2>3, <2>5
    <3>2. /\ Load(A \cap ahead[b], weight) <= Load(B \cap ahead[b], weight)
          /\ Load(A \cap ahead[b], weight) \in Nat /\ Load(B \cap ahead[b], weight) \in Nat
      BY <3>1, LoadMonotonic, UnitsFinite
    <3>3. weight[b] \in Nat /\ Limit \in Nat
      BY SemaphoreAssumption DEF OrderInv, TypeOK, Queued
    <3>4. QED
      BY <2>8, <3>2, <3>3
  <2>9. \A c \in B : \A b \in ahead[c] : b \in Queued
    BY <1>1, <2>3, AheadIsOrder
  <2>10. Settled(B, base)
    BY <2>6, <2>7, <2>8, <2>9 DEF Settled
  <2>11. B \subseteq Queued /\ s.inUse + q[k].weight = base + Load(B, weight)
    BY <1>1, <2>3, <2>5
  <2>12. Pumping(t, base) /\ Len(t.queue) = Len(q) - 1
    <3> HIDE DEF B
    <3>1. t.queue = RemoveAt(q, k) /\ t.inUse = s.inUse + q[k].weight /\ t.admitted = B
      BY <2>1
    <3>2. QED
      BY <2>2, <2>4, <2>10, <2>11, <3>1 DEF Pumping
  <2>13. QED
    BY <1>3, <2>12 DEF k, q
<1>4. QED
  BY <1>2, <1>3

(* When nothing is chosen, the admitted are what PumpAdmits describes.     *)
LEMMA PumpEnds ==
    ASSUME OrderInv, NEW base \in Int, NEW s, Pumping(s, base),
           Chosen(s.queue, s.inUse, Limit) = 0
    PROVE  PumpAdmits(s.admitted, base)
<1> DEFINE q == s.queue
           A == s.admitted
<1>1. /\ A \in SUBSET Queued /\ Holds(q, Queued \ A) /\ Settled(A, base)
      /\ s.inUse = base + Load(A, weight) /\ s.inUse <= Limit
      /\ Load(A, weight) \in Nat /\ s.inUse \in Int
  BY UnitsFinite DEF Pumping, Queued
<1>2. \A i \in 1..Len(q) : q[i].priority = q[1].priority => s.inUse + q[i].weight > Limit
  BY <1>1, ChosenIs
<1> HIDE DEF q, A
<1>3. ASSUME NEW c \in Queued \ A, \A b \in ahead[c] \ A : priority[b] = priority[c]
      PROVE  base + Load(A \cap ahead[c], weight) + weight[c] > Limit
  <2>1. PICK i \in 1..Len(q) : q[i].owner = c
    BY <1>1 DEF Holds
  <2>2. 1 \in 1..Len(q) /\ (i = 1 \/ 1 < i)
    BY <1>1, <2>1, LenProperties DEF Holds
  <2>3. /\ q[i].priority = priority[c] /\ q[i].weight = weight[c]
        /\ q[1].owner \in Queued \ A /\ q[1].priority = priority[q[1].owner]
        /\ (i = 1 \/ q[1].owner \in ahead[c])
    BY <1>1, <2>1, <2>2 DEF Holds
  <2>4. q[i].priority = q[1].priority
    BY <1>3, <2>1, <2>3
  <2>5. base + Load(A, weight) + weight[c] > Limit
    BY <1>1, <1>2, <2>3, <2>4
  <2>6. QED
    BY <1>1, <1>3, <2>5, PassedOver
<1>4. \A a \in A : \A b \in ahead[a] \ A : priority[b] = priority[a]
  BY <1>1 DEF Settled
<1>5. QED
  BY <1>1, <1>3, <1>4 DEF PumpAdmits, A

(* It describes no other set.                                              *)
LEMMA PumpAdmitsOne ==
    ASSUME OrderInv, NEW base \in Int, NEW A \in SUBSET Queued, NEW B \in SUBSET Queued,
           PumpAdmits(A, base), PumpAdmits(B, base)
    PROVE  A \subseteq B
<1> DEFINE q == QueueArray
           n == Len(q)
           T == {i \in 1..n : ~(q[i].owner \in A <=> q[i].owner \in B)}
<1>1. Holds(q, Queued) /\ n \in Nat
  BY ArrayHolds, LenProperties DEF Holds
<1> HIDE DEF q
<1>2. SUFFICES ASSUME T # {} PROVE FALSE
  BY <1>1 DEF Holds
<1>3. PICK i \in T : \A j \in T : i <= j
  <2>1. T \in SUBSET Nat
    OBVIOUS
  <2> HIDE DEF T
  <2>2. QED
    BY <1>2, <2>1, LeastOf
<1> DEFINE c == q[i].owner
<1>4. c \in Queued /\ c \in Callers /\ weight[c] \in 0..Limit /\ Limit \in Nat
  BY <1>1, SemaphoreAssumption DEF Holds, Queued, OrderInv, TypeOK
<1>5. ASSUME NEW d \in ahead[c] PROVE d \in A <=> d \in B
  <2>1. d \in Queued /\ c \notin ahead[d] /\ d # c
    BY <1>4, <1>5, AheadIsOrder
  <2>2. PICK j \in 1..n : q[j].owner = d
    BY <1>1, <2>1 DEF Holds
  <2>3. j < i
    BY <1>1, <1>3, <2>1, <2>2 DEF Holds
  <2>4. QED
    BY <1>1, <1>3, <2>2, <2>3
<1>6. ~(c \in A <=> c \in B)
  BY <1>3
<1> HIDE DEF c, T
<1>7. ASSUME NEW X \in SUBSET Queued, NEW Y \in SUBSET Queued, c \in X \ Y,
             X \cap ahead[c] = Y \cap ahead[c], PumpAdmits(X, base), PumpAdmits(Y, base)
      PROVE  FALSE
  <2>1. \A b \in ahead[c] \ Y : priority[b] = priority[c]
    BY <1>7 DEF PumpAdmits
  <2>2. base + Load(Y \cap ahead[c], weight) + weight[c] > Limit
    BY <1>4, <1>7, <2>1 DEF PumpAdmits
  <2> DEFINE Z == X \cap ahead[c]
  <2>3. Z \subseteq Callers /\ {c} \subseteq Callers /\ Z \cap {c} = {}
    BY <1>4, AheadIsOrder DEF Queued
  <2> HIDE DEF Z
  <2>4. Load(Z \cup {c}, weight) = Load(Z, weight) + weight[c]
    <3>1. Load(Z \cup {c}, weight) = Load(Z, weight) + Load({c}, weight)
      BY <2>3, LoadUnion
    <3>2. Load({c}, weight) = weight[c]
      BY <1>4, LoadOfOne
    <3>3. QED
      BY <3>1, <3>2
  <2>5. X \in SUBSET Callers /\ Z \cup {c} \in SUBSET X
    BY <1>7 DEF Queued, Z
  <2>6. Load(Z \cup {c}, weight) <= Load(X, weight)
    BY <2>5, LoadMonotonic
  <2>7. base + Load(X, weight) <= Limit
    BY <1>7 DEF PumpAdmits
  <2>8. Load(X, weight) \in Nat /\ Load(Z, weight) \in Nat
    BY <2>3, <2>5, UnitsFinite
  <2>9. Load(Y \cap ahead[c], weight) = Load(Z, weight)
    BY <1>7 DEF Z
  <2>10. QED
    BY <1>4, <2>2, <2>4, <2>6, <2>7, <2>8, <2>9
<1>8. A \cap ahead[c] = B \cap ahead[c]
  BY <1>5
<1>9. QED
  BY <1>4, <1>6, <1>7, <1>8

(* The states of pump()'s loop, turn by turn.                              *)
Turns(f, start, n) ==
    f = [i \in 0..n |-> IF i = 0 THEN start ELSE Turn(f[i - 1], Limit)]

LEMMA TurnsExist ==
    ASSUME NEW start, NEW n \in Nat
    PROVE  \E f : Turns(f, start, n)
<1> DEFINE T == {m \in Nat : \E f : Turns(f, start, m)}
<1>1. 0 \in T
  <2>1. Turns([i \in 0..0 |-> start], start, 0)
    BY DEF Turns
  <2>2. QED
    BY <2>1
<1>2. ASSUME NEW m \in T PROVE m + 1 \in T
  <2>1. PICK f : Turns(f, start, m)
    BY <1>2
  <2> DEFINE g == [i \in 0..m + 1 |-> IF i <= m THEN f[i] ELSE Turn(f[m], Limit)]
  <2>2. ASSUME NEW i \in 0..m + 1
        PROVE  g[i] = IF i = 0 THEN start ELSE Turn(g[i - 1], Limit)
    <3>1. CASE i <= m
      <4>1. i \in 0..m /\ g[i] = f[i] /\ (i # 0 => g[i - 1] = f[i - 1])
        BY <1>2, <3>1
      <4>2. f[i] = IF i = 0 THEN start ELSE Turn(f[i - 1], Limit)
        BY <2>1, <4>1 DEF Turns
      <4>3. QED
        BY <4>1, <4>2
    <3>2. CASE i = m + 1
      <4>1. i # 0 /\ i - 1 = m /\ m \in 0..m + 1 /\ ~(i <= m) /\ m <= m
        BY <1>2, <3>2
      <4>2. g[i] = Turn(f[m], Limit) /\ g[i - 1] = f[m]
        BY <4>1
      <4>3. QED
        BY <4>1, <4>2
    <3>3. QED
      BY <1>2, <3>1, <3>2
  <2>3. g = [i \in 0..m + 1 |-> g[i]]
    OBVIOUS
  <2>4. Turns(g, start, m + 1)
    <3> HIDE DEF g
    <3>1. QED
      BY <2>2, <2>3 DEF Turns
  <2>5. QED
    BY <1>2, <2>4
<1>3. n \in T
  <2>1. T \in SUBSET Nat
    OBVIOUS
  <2> HIDE DEF T
  <2>2. QED
    BY <1>1, <1>2, <2>1, Counting
<1>4. QED
  BY <1>3

(* pump()'s loop admits a set that PumpAdmits describes.                   *)
LEMMA PumpLoopAdmits ==
    ASSUME OrderInv, NEW base \in 0..Limit
    PROVE  LET A == PumpLoop(QueueArray, base, Limit) IN A \in SUBSET Queued /\ PumpAdmits(A, base)
<1> DEFINE q == QueueArray
           n == Len(q)
           start == [queue |-> q, inUse |-> base, admitted |-> {}]
           f == CHOOSE g : Turns(g, start, n)
<1>1. Holds(q, Queued) /\ n \in Nat /\ base \in Int /\ Limit \in Nat
  BY ArrayHolds, LenProperties, SemaphoreAssumption DEF Holds
<1> HIDE DEF q
<1>2. Turns(f, start, n) /\ PumpLoop(q, base, Limit) = f[n].admitted
  <2>1. \E g : Turns(g, start, n)
    BY <1>1, TurnsExist
  <2>2. Turns(f, start, n)
    <3> HIDE DEF start
    <3>1. QED
      BY <2>1
  <2>3. PumpLoop(q, base, Limit) = f[n].admitted
    BY DEF PumpLoop, Turns
  <2>4. QED
    BY <2>2, <2>3
<1>3. start.queue = q /\ start.inUse = base /\ start.admitted = {}
  OBVIOUS
<1> HIDE DEF f, start
<1> DEFINE Done(i) == Chosen(f[i].queue, f[i].inUse, Limit) = 0
           T == {i \in Nat : i <= n => /\ Pumping(f[i], base)
                                       /\ Done(i) \/ Len(f[i].queue) = n - i}
<1>4. 0 \in T
  <2>1. f[0] = start
    BY <1>1, <1>2 DEF Turns
  <2>2. Load({}, weight) = 0 /\ Queued \ {} = Queued
    BY LoadMonotonic
  <2>3. Pumping(start, base)
    BY <1>1, <1>3, <2>2 DEF Pumping, Settled
  <2>4. n = n - 0
    BY <1>1
  <2>5. QED
    BY <1>3, <2>1, <2>3, <2>4
<1>5. ASSUME NEW i \in T PROVE i + 1 \in T
  <2>1. SUFFICES ASSUME i + 1 <= n
                 PROVE  /\ Pumping(f[i + 1], base)
                        /\ Done(i + 1) \/ Len(f[i + 1].queue) = n - (i + 1)
    BY <1>5
  <2>2. i \in Nat /\ Pumping(f[i], base) /\ (Done(i) \/ Len(f[i].queue) = n - i)
    BY <1>1, <1>5, <2>1
  <2>3. f[i + 1] = Turn(f[i], Limit)
    <3>1. i + 1 \in 0..n /\ i + 1 # 0 /\ (i + 1) - 1 = i
      BY <1>1, <2>1, <2>2
    <3>2. QED
      BY <1>2, <3>1 DEF Turns
  <2>4. /\ Pumping(f[i + 1], base)
        /\ Done(i) => f[i + 1] = f[i]
        /\ ~Done(i) => Len(f[i + 1].queue) = Len(f[i].queue) - 1
    BY <1>1, <2>2, <2>3, TurnKeeps
  <2>5. n - (i + 1) = (n - i) - 1
    BY <1>1, <2>2
  <2>6. QED
    BY <2>2, <2>4, <2>5
<1>6. Pumping(f[n], base) /\ (Done(n) \/ Len(f[n].queue) = n - n)
  <2>1. T \in SUBSET Nat
    OBVIOUS
  <2> HIDE DEF T
  <2>2. n \in T
    BY <1>1, <1>4, <1>5, <2>1, Counting
  <2>3. QED
    BY <1>1, <2>2 DEF T
<1>7. Done(n)
  <2>1. n - n = 0 /\ f[n].queue \in Seq(Entries)
    BY <1>1, <1>6 DEF Pumping, Holds
  <2>2. Len(f[n].queue) = 0 => f[n].queue = <<>>
    BY <2>1, EmptySeq
  <2>3. f[n].queue = <<>> => Done(n)
    BY DEF Chosen
  <2>4. QED
    BY <1>6, <2>1, <2>2, <2>3
<1>8. PumpAdmits(f[n].admitted, base) /\ f[n].admitted \in SUBSET Queued
  BY <1>1, <1>6, <1>7, PumpEnds DEF Pumping
<1>9. QED
  BY <1>2, <1>8 DEF q

(* What WeightedSemaphore says of insertion and admission, in sets, is     *)
(* what the loops of the code do with the array, for queues of any length, *)
(* any weights and priorities and whatever capacity a release finds.       *)
THEOREM LoopsCorrect == Spec => []LoopsAgree
<1>1. OrderInv => LoopsAgree
  <2> SUFFICES ASSUME OrderInv PROVE LoopsAgree
    OBVIOUS
  <2>1. ASSUME NEW base \in 0..Limit
        PROVE  {A \in SUBSET Queued : PumpAdmits(A, base)} = {PumpLoop(QueueArray, base, Limit)}
    <3>1. base \in Int
      BY SemaphoreAssumption
    <3>2. PICK L : L = PumpLoop(QueueArray, base, Limit)
      OBVIOUS
    <3>3. L \in SUBSET Queued /\ PumpAdmits(L, base)
      BY <3>2, PumpLoopAdmits
    <3>4. \A A \in SUBSET Queued : PumpAdmits(A, base) => A \subseteq L /\ L \subseteq A
      BY <3>1, <3>3, PumpAdmitsOne
    <3>5. QED
      BY <3>2, <3>3, <3>4
  <2>2. ASSUME NEW p \in Priorities
        PROVE  InFrontOf(p) = {QueueArray[i].owner : i \in 1..InsertIndex(QueueArray, p)}
    BY SemaphoreAssumption, InsertionLoop
  <2>3. QED
    BY <2>1, <2>2 DEF LoopsAgree
<1>2. QED
  BY <1>1, OrderHolds, PTL
============================================================================
