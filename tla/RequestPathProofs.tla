-------------------------- MODULE RequestPathProofs --------------------------
(***************************************************************************)
(* Proofs about the outbound fetches, the federation and the subtitles,    *)
(* and about all the parts a stream request passes through: each property  *)
(* proved of a part, and the parts' types, hold of the specification that  *)
(* is model-checked.                                                       *)
(***************************************************************************)
EXTENDS MCRequestPath, AnswerProofs, LimitProofs

----------------------------------------------------------------------------
(* The outbound fetches.                                                   *)

FetchStages == {"idle", "hop", "lookup", "queued", "headers", "body", "done"}
FetchStates ==
    [stage : FetchStages, host : Hostnames \cup {""}, hops : 0..MaxHops, deadline : Nat,
     remaining : Int, timer : Int, checked : Addresses \cup {""}, connected : Addresses \cup {""}]
PoolStates == [held : SUBSET Fetches, queue : Seq(Fetches)]

WithHost(h, fs) == {f \in Fetches : fs[f].stage = "headers" /\ fs[f].host = h}
WaitingOn(h, fs) == {f \in Fetches : fs[f].stage = "queued" /\ fs[f].host = h}

(* The queue holds each member of w once, and nothing else.                *)
LinesUp(q, w) ==
    /\ q \in Seq(Fetches)
    /\ \A i, j \in 1..Len(q) : q[i] = q[j] => i = j
    /\ \A f \in Fetches : f \in w <=> \E i \in 1..Len(q) : q[i] = f

PoolExact(pool, with, waiting) ==
    /\ pool \in PoolStates
    /\ pool.held = with /\ LinesUp(pool.queue, waiting)
    /\ Cardinality(with) <= PerHost
    /\ pool.queue # <<>> => PerHost <= Cardinality(with)
    /\ Len(pool.queue) <= QueueMax

PoolsExact(pools, fs) ==
    /\ pools \in [DOMAIN pools -> PoolStates] /\ DOMAIN pools \subseteq Hostnames
    /\ \A h \in Hostnames :
          IF h \in DOMAIN pools THEN PoolExact(pools[h], WithHost(h, fs), WaitingOn(h, fs))
          ELSE WithHost(h, fs) = {} /\ WaitingOn(h, fs) = {}

(* What a call carries: its host while it has one, and an address that was *)
(* checked once it is queued or connected.                                 *)
Carries(r) ==
    /\ r \in FetchStates
    /\ r.stage \in {"hop", "lookup", "queued", "headers", "body"} => r.host \in Hostnames
    /\ r.stage = "queued" => r.checked \in Addresses \ Blocked
    /\ r.stage = "headers" => r.connected \in Addresses \ Blocked

CallsFit(fs) == fs \in [Fetches -> FetchStates] /\ \A f \in Fetches : Carries(fs[f])

EgressInv ==
    /\ CallsFit(fetch)
    /\ dns \in [Hostnames -> Addresses] /\ fetchClock \in Nat
    /\ DOMAIN hostAccess = DOMAIN hostPools
    /\ PoolsExact(hostPools, fetch)

(* A call that starts to wait is appended to the queue.                    *)
LEMMA LinesAppend ==
    ASSUME NEW q, NEW w \in SUBSET Fetches, LinesUp(q, w), NEW f \in Fetches, f \notin w
    PROVE  LinesUp(Append(q, f), w \cup {f}) /\ Len(Append(q, f)) = Len(q) + 1
<1>1. q \in Seq(Fetches)
  BY DEF LinesUp
<1>2. /\ Append(q, f) \in Seq(Fetches) /\ Len(q) \in Nat
      /\ Len(Append(q, f)) = Len(q) + 1 /\ Append(q, f)[Len(q) + 1] = f
      /\ \A i \in 1..Len(q) : Append(q, f)[i] = q[i]
  BY <1>1, AppendProperties, LenProperties
<1>3. \A i \in 1..Len(q) : q[i] \in Fetches /\ q[i] # f
  BY <1>1, ElementOfSeq DEF LinesUp
<1> QED
  BY <1>2, <1>3 DEF LinesUp

(* The head leaves it.                                                     *)
LEMMA LinesTail ==
    ASSUME NEW q, NEW w \in SUBSET Fetches, LinesUp(q, w), q # <<>>
    PROVE  /\ Head(q) \in w /\ LinesUp(Tail(q), w \ {Head(q)}) /\ Len(Tail(q)) = Len(q) - 1
           /\ Len(q) \in Nat
<1> DEFINE t == Tail(q)
           h == Head(q)
<1>1. /\ h \in Fetches /\ t \in Seq(Fetches) /\ Len(q) \in Nat /\ Len(q) >= 1
      /\ Len(t) = Len(q) - 1 /\ h = q[1] /\ \A i \in 1..Len(t) : t[i] = q[i + 1]
  BY HeadTailProperties, LenProperties, EmptySeq DEF LinesUp
<1>2. h \in w
  BY <1>1 DEF LinesUp
<1>3. ASSUME NEW c \in Fetches, c # h
      PROVE  (\E i \in 1..Len(q) : q[i] = c) <=> (\E i \in 1..Len(t) : t[i] = c)
  <2>1. ASSUME NEW i \in 1..Len(q), q[i] = c PROVE i - 1 \in 1..Len(t) /\ t[i - 1] = c
    BY <1>1, <1>3, <2>1
  <2>2. ASSUME NEW i \in 1..Len(t), t[i] = c PROVE i + 1 \in 1..Len(q) /\ q[i + 1] = c
    BY <1>1, <2>2
  <2> QED
    BY <2>1, <2>2
<1>4. \A i \in 1..Len(t) : t[i] # h
  BY <1>1 DEF LinesUp
<1>5. \A i, j \in 1..Len(t) : t[i] = t[j] => i = j
  BY <1>1 DEF LinesUp
<1> QED
  BY <1>1, <1>2, <1>3, <1>4, <1>5 DEF LinesUp

(* A call whose time in the queue is over is spliced out of it.            *)
LEMMA LinesWithout ==
    ASSUME NEW q, NEW w \in SUBSET Fetches, LinesUp(q, w), NEW f \in w
    PROVE  /\ LinesUp(WithoutFetch(q, f), w \ {f}) /\ Len(WithoutFetch(q, f)) = Len(q) - 1
           /\ Len(q) \in Nat /\ q # <<>>
<1>1. /\ q \in Seq(Fetches) /\ Len(q) \in Nat /\ DOMAIN q = 1..Len(q)
      /\ \A i \in 1..Len(q) : q[i] \in Fetches
  BY LenProperties, ElementOfSeq DEF LinesUp
<1>2. PICK k \in 1..Len(q) : q[k] = f /\ WithoutFetch(q, f) = RemoveAt(q, k)
  BY <1>1 DEF LinesUp, WithoutFetch
<1> DEFINE r == RemoveAt(q, k)
           n == Len(q)
<1>3. /\ r \in Seq(Fetches) /\ Len(r) = n - 1
      /\ \A i \in 1..(n - 1) : r[i] = IF i < k THEN q[i] ELSE q[i + 1]
  BY <1>1, RemovedAt
<1> HIDE DEF r
<1>4. ASSUME NEW c \in Fetches, c # f
      PROVE  (\E i \in 1..n : q[i] = c) <=> (\E i \in 1..(n - 1) : r[i] = c)
  <2>1. ASSUME NEW i \in 1..n, q[i] = c PROVE \E j \in 1..(n - 1) : r[j] = c
    <3>1. CASE i < k
      BY <1>1, <1>3, <2>1, <3>1
    <3>2. CASE i > k
      <4>1. i - 1 \in 1..(n - 1) /\ ~ (i - 1 < k) /\ (i - 1) + 1 = i
        BY <1>1, <3>2
      <4> QED
        BY <1>3, <2>1, <4>1
    <3> QED
      BY <1>1, <1>2, <1>4, <2>1, <3>1, <3>2
  <2>2. ASSUME NEW i \in 1..(n - 1), r[i] = c PROVE \E j \in 1..n : q[j] = c
    BY <1>1, <1>3, <2>2
  <2> QED
    BY <2>1, <2>2
<1>5. \A i \in 1..(n - 1) : r[i] # f
  BY <1>1, <1>2, <1>3 DEF LinesUp
<1>6. \A i, j \in 1..(n - 1) : r[i] = r[j] => i = j
  BY <1>1, <1>3 DEF LinesUp
<1>7. LinesUp(r, w \ {f})
  BY <1>1, <1>3, <1>4, <1>5, <1>6 DEF LinesUp
<1> QED
  BY <1>1, <1>2, <1>3, <1>7, EmptySeq DEF r

(* One pool, as calls come and go.                                         *)
LEMMA PoolJoins ==
    ASSUME NEW pool, NEW with \in SUBSET Fetches, NEW waiting \in SUBSET Fetches,
           PoolExact(pool, with, waiting), NEW f \in Fetches, f \notin with, f \notin waiting
    PROVE  /\ pool.queue = <<>> /\ Cardinality(pool.held) < PerHost
              => PoolExact([pool EXCEPT !.held = pool.held \cup {f}], with \cup {f}, waiting)
           /\ PerHost <= Cardinality(pool.held) \/ pool.queue # <<>> =>
              (Len(pool.queue) < QueueMax =>
                 PoolExact([pool EXCEPT !.queue = Append(pool.queue, f)], with, waiting \cup {f}))
<1>1. /\ IsFiniteSet(with) /\ Cardinality(with) \in Nat
      /\ Cardinality(with \cup {f}) = Cardinality(with) + 1
      /\ PerHost \in Nat /\ QueueMax \in Nat /\ Len(pool.queue) \in Nat
  <2>1. IsFiniteSet(with)
    BY FS_Subset, EgressAssumption
  <2>2. pool.queue \in Seq(Fetches)
    BY DEF PoolExact, LinesUp
  <2> QED
    BY <2>1, <2>2, FS_CardinalityType, FS_AddElement, LenProperties, EgressAssumption
<1>2. ASSUME pool.queue = <<>>, Cardinality(pool.held) < PerHost
      PROVE  PoolExact([pool EXCEPT !.held = pool.held \cup {f}], with \cup {f}, waiting)
  <2> DEFINE p == [pool EXCEPT !.held = pool.held \cup {f}]
  <2>1. p \in PoolStates /\ p.held = with \cup {f} /\ p.queue = pool.queue
    BY DEF PoolExact, PoolStates
  <2>2. Cardinality(with \cup {f}) <= PerHost
    BY <1>1, <1>2 DEF PoolExact
  <2> HIDE DEF p
  <2>3. PoolExact(p, with \cup {f}, waiting)
    BY <1>1, <1>2, <2>1, <2>2 DEF PoolExact
  <2> QED
    BY <2>3 DEF p
<1>3. ASSUME PerHost <= Cardinality(pool.held) \/ pool.queue # <<>>, Len(pool.queue) < QueueMax
      PROVE  PoolExact([pool EXCEPT !.queue = Append(pool.queue, f)], with, waiting \cup {f})
  <2> DEFINE a == Append(pool.queue, f)
             p == [pool EXCEPT !.queue = a]
  <2>1. LinesUp(a, waiting \cup {f}) /\ Len(a) = Len(pool.queue) + 1
    BY LinesAppend DEF PoolExact
  <2>2. a \in Seq(Fetches)
    BY <2>1 DEF LinesUp
  <2>3. Len(a) <= QueueMax /\ PerHost <= Cardinality(with)
    BY <1>1, <1>3, <2>1 DEF PoolExact
  <2> HIDE DEF a
  <2>4. p \in PoolStates /\ p.held = with /\ p.queue = a
    BY <2>2 DEF PoolExact, PoolStates
  <2> HIDE DEF p
  <2>5. PoolExact(p, with, waiting \cup {f})
    BY <2>1, <2>3, <2>4 DEF PoolExact
  <2> QED
    BY <2>5 DEF p, a
<1> QED
  BY <1>2, <1>3

(* A call that leaves hands its slot to the head of the queue.             *)
LEMMA PoolLeaves ==
    ASSUME NEW pool, NEW with \in SUBSET Fetches, NEW waiting \in SUBSET Fetches,
           PoolExact(pool, with, waiting), with \cap waiting = {}, NEW f \in with
    PROVE  /\ pool.queue = <<>> =>
              PoolExact([pool EXCEPT !.held = pool.held \ {f}], with \ {f}, waiting)
           /\ pool.queue # <<>> =>
              /\ Head(pool.queue) \in waiting
              /\ PoolExact([pool EXCEPT !.held = (pool.held \ {f}) \cup {Head(pool.queue)},
                                        !.queue = Tail(pool.queue)],
                           (with \ {f}) \cup {Head(pool.queue)}, waiting \ {Head(pool.queue)})
<1>1. IsFiniteSet(with) /\ IsFiniteSet(with \ {f})
  BY FS_Subset, EgressAssumption
<1>2. /\ Cardinality(with) \in Nat /\ Cardinality(with \ {f}) = Cardinality(with) - 1
      /\ PerHost \in Nat /\ QueueMax \in Nat
  BY <1>1, FS_CardinalityType, FS_RemoveElement, EgressAssumption
<1>3. ASSUME pool.queue = <<>>
      PROVE  PoolExact([pool EXCEPT !.held = pool.held \ {f}], with \ {f}, waiting)
  <2> DEFINE p == [pool EXCEPT !.held = pool.held \ {f}]
  <2>1. p \in PoolStates /\ p.held = with \ {f} /\ p.queue = pool.queue
    BY DEF PoolExact, PoolStates
  <2>2. Cardinality(with \ {f}) <= PerHost
    BY <1>2 DEF PoolExact
  <2> HIDE DEF p
  <2>3. PoolExact(p, with \ {f}, waiting)
    BY <1>3, <2>1, <2>2 DEF PoolExact
  <2> QED
    BY <2>3 DEF p
<1>4. ASSUME pool.queue # <<>>
      PROVE  /\ Head(pool.queue) \in waiting
             /\ PoolExact([pool EXCEPT !.held = (pool.held \ {f}) \cup {Head(pool.queue)},
                                       !.queue = Tail(pool.queue)],
                          (with \ {f}) \cup {Head(pool.queue)}, waiting \ {Head(pool.queue)})
  <2> DEFINE k == Head(pool.queue)
             t == Tail(pool.queue)
             p == [pool EXCEPT !.held = (pool.held \ {f}) \cup {k}, !.queue = t]
  <2>1. /\ k \in waiting /\ LinesUp(t, waiting \ {k}) /\ Len(t) = Len(pool.queue) - 1
        /\ Len(pool.queue) \in Nat
    BY <1>4, LinesTail DEF PoolExact
  <2>2. t \in Seq(Fetches)
    BY <2>1 DEF LinesUp
  <2> HIDE DEF k, t
  <2>3. p \in PoolStates /\ p.held = (with \ {f}) \cup {k} /\ p.queue = t
    BY <2>1, <2>2 DEF PoolExact, PoolStates
  <2>4. Cardinality((with \ {f}) \cup {k}) = Cardinality(with)
    <3>1. k \notin with \ {f}
      BY <2>1
    <3>2. Cardinality((with \ {f}) \cup {k}) = Cardinality(with \ {f}) + 1
      BY <1>1, <3>1, FS_AddElement
    <3> QED
      BY <1>2, <3>2
  <2>5. Len(t) <= QueueMax
    BY <1>2, <2>1 DEF PoolExact
  <2> HIDE DEF p
  <2>6. PoolExact(p, (with \ {f}) \cup {k}, waiting \ {k})
    BY <1>4, <2>1, <2>3, <2>4, <2>5 DEF PoolExact
  <2> QED
    BY <2>1, <2>6 DEF p, k, t
<1> QED
  BY <1>3, <1>4

(* A call that waits no longer.                                            *)
LEMMA PoolGivesUp ==
    ASSUME NEW pool, NEW with \in SUBSET Fetches, NEW waiting \in SUBSET Fetches,
           PoolExact(pool, with, waiting), NEW f \in waiting
    PROVE  PoolExact([pool EXCEPT !.queue = WithoutFetch(pool.queue, f)], with, waiting \ {f})
<1> DEFINE q == WithoutFetch(pool.queue, f)
           p == [pool EXCEPT !.queue = q]
<1>1. /\ LinesUp(q, waiting \ {f}) /\ Len(q) = Len(pool.queue) - 1
      /\ Len(pool.queue) \in Nat /\ pool.queue # <<>>
  BY LinesWithout DEF PoolExact
<1>2. q \in Seq(Fetches)
  BY <1>1 DEF LinesUp
<1> HIDE DEF q
<1>3. p \in PoolStates /\ p.held = with /\ p.queue = q
  BY <1>2 DEF PoolExact, PoolStates
<1>4. Len(q) <= QueueMax /\ PerHost <= Cardinality(with)
  BY <1>1, EgressAssumption DEF PoolExact
<1> HIDE DEF p
<1>5. PoolExact(p, with, waiting \ {f})
  BY <1>1, <1>3, <1>4 DEF PoolExact
<1> QED
  BY <1>5 DEF p, q

(* A call that neither was nor is at a pool.                               *)
LEMMA OutsidePools ==
    ASSUME NEW pools, NEW fs \in [Fetches -> FetchStates], PoolsExact(pools, fs),
           NEW f \in Fetches, fs[f].stage \notin {"queued", "headers"},
           NEW r \in FetchStates, r.stage \notin {"queued", "headers"},
           NEW gs, gs = [fs EXCEPT ![f] = r]
    PROVE  PoolsExact(pools, gs)
<1>1. \A g \in Fetches : gs[g] = IF g = f THEN r ELSE fs[g]
  OBVIOUS
<1>2. ASSUME NEW h \in Hostnames
      PROVE  WithHost(h, gs) = WithHost(h, fs) /\ WaitingOn(h, gs) = WaitingOn(h, fs)
  BY <1>1 DEF WithHost, WaitingOn
<1> QED
  BY <1>2 DEF PoolsExact

(* A pool that turns while the others stay.                                *)
LEMMA PoolTurns ==
    ASSUME NEW pools, NEW fs, NEW gs, PoolsExact(pools, fs), NEW h \in DOMAIN pools, NEW pool,
           PoolExact(pool, WithHost(h, gs), WaitingOn(h, gs)),
           \A g \in Hostnames \ {h} : WithHost(g, gs) = WithHost(g, fs)
                                      /\ WaitingOn(g, gs) = WaitingOn(g, fs)
    PROVE  PoolsExact([pools EXCEPT ![h] = pool], gs)
<1> DEFINE ps == [pools EXCEPT ![h] = pool]
<1>1. /\ pools \in [DOMAIN pools -> PoolStates] /\ DOMAIN pools \subseteq Hostnames
      /\ pool \in PoolStates
  BY DEF PoolsExact, PoolExact
<1>2. DOMAIN ps = DOMAIN pools /\ ps \in [DOMAIN ps -> PoolStates]
      /\ \A g \in DOMAIN pools : ps[g] = IF g = h THEN pool ELSE pools[g]
  BY <1>1
<1> HIDE DEF ps
<1>3. ASSUME NEW g \in Hostnames
      PROVE  IF g \in DOMAIN ps THEN PoolExact(ps[g], WithHost(g, gs), WaitingOn(g, gs))
             ELSE WithHost(g, gs) = {} /\ WaitingOn(g, gs) = {}
  <2>1. CASE g = h
    BY <1>2, <2>1
  <2>2. CASE g # h
    BY <1>2, <2>2 DEF PoolsExact
  <2> QED
    BY <2>1, <2>2
<1>4. PoolsExact(ps, gs)
  BY <1>1, <1>2, <1>3 DEF PoolsExact
<1> QED
  BY <1>4 DEF ps

(* hostPool(): the pools it drops are nobody's, the one it makes is empty. *)
LEMMA PoolMade ==
    ASSUME NEW fs, PoolsExact(hostPools, fs), NEW h \in Hostnames, NEW gone \in Displaced(h)
    PROVE  PoolsExact(PoolsWith(h, gone), fs) /\ h \in DOMAIN PoolsWith(h, gone)
           /\ DOMAIN PoolsWith(h, gone) = (Tracked \ gone) \cup {h}
<1>1. gone \subseteq Tracked /\ (\A o \in gone : hostPools[o] = EmptyPool)
      /\ (h \in Tracked => gone = {})
  BY DEF Displaced, Pruned, OlderHalves
<1>2. CASE h \in Tracked
  BY <1>1, <1>2 DEF PoolsWith, Tracked
<1>3. CASE h \notin Tracked
  <2> DEFINE ps == TableWith(hostPools, gone, h, EmptyPool)
  <2>1. DOMAIN ps = (Tracked \ gone) \cup {h}
        /\ \A g \in DOMAIN ps : ps[g] = IF g = h THEN EmptyPool ELSE hostPools[g]
    BY DEF TableWith, Tracked
  <2>2. EmptyPool \in PoolStates
    BY DEF EmptyPool, PoolStates
  <2>3. hostPools \in [Tracked -> PoolStates] /\ Tracked \subseteq Hostnames
    BY DEF PoolsExact, Tracked
  <2>4. ps \in [DOMAIN ps -> PoolStates] /\ DOMAIN ps \subseteq Hostnames
    BY <2>2, <2>3 DEF TableWith, Tracked
  <2> HIDE DEF ps
  <2>5. ASSUME NEW g \in gone PROVE WithHost(g, fs) = {} /\ WaitingOn(g, fs) = {}
    <3>1. PoolExact(EmptyPool, WithHost(g, fs), WaitingOn(g, fs))
      BY <1>1, <2>3, <2>5 DEF PoolsExact, Tracked
    <3>2. WithHost(g, fs) = {} /\ LinesUp(<<>>, WaitingOn(g, fs))
      BY <3>1 DEF PoolExact, EmptyPool
    <3> QED
      BY <3>2 DEF LinesUp, WaitingOn
  <2>6. WithHost(h, fs) = {} /\ WaitingOn(h, fs) = {}
    BY <1>3 DEF PoolsExact, Tracked
  <2>7. PoolExact(EmptyPool, {}, {})
    <3>1. LinesUp(<<>>, {})
      BY DEF LinesUp
    <3>2. Cardinality({}) = 0 /\ Len(<<>>) = 0
      BY FS_EmptySet
    <3> QED
      BY <2>2, <3>1, <3>2, EgressAssumption DEF PoolExact, EmptyPool
  <2>8. ASSUME NEW g \in Hostnames
        PROVE  IF g \in DOMAIN ps THEN PoolExact(ps[g], WithHost(g, fs), WaitingOn(g, fs))
               ELSE WithHost(g, fs) = {} /\ WaitingOn(g, fs) = {}
    <3>1. CASE g = h
      BY <2>1, <2>6, <2>7, <3>1
    <3>2. CASE g \in Tracked \ gone /\ g # h
      BY <2>1, <3>2 DEF PoolsExact, Tracked
    <3>3. CASE g \notin Tracked /\ g # h
      BY <2>1, <3>3 DEF PoolsExact, Tracked
    <3>4. CASE g \in gone /\ g # h
      BY <2>1, <2>5, <3>4
    <3> QED
      BY <3>1, <3>2, <3>3, <3>4
  <2>9. PoolsExact(ps, fs)
    BY <2>4, <2>8 DEF PoolsExact
  <2> QED
    BY <1>3, <2>1, <2>9 DEF PoolsWith, ps
<1> QED
  BY <1>2, <1>3

(* What a call becomes.                                                    *)
LEMMA CallBecomes ==
    /\ Carries(NoFetch) /\ Carries(Ended) /\ Ended.stage = "done"
    /\ fetchClock \in Nat =>
          \A r \in FetchStates : r.host \in Hostnames /\ r.checked \in Addresses \ Blocked =>
             /\ Carries(Connected(r))
             /\ Connected(r).stage = "headers" /\ Connected(r).host = r.host
<1>1. NoFetch \in FetchStates
  BY EgressAssumption DEF NoFetch, FetchStates, FetchStages
<1>2. Ended \in FetchStates /\ Ended.stage = "done"
  BY <1>1 DEF Ended, FetchStates, FetchStages
<1>3. ASSUME fetchClock \in Nat, NEW r \in FetchStates, r.host \in Hostnames,
             r.checked \in Addresses \ Blocked
      PROVE  /\ Carries(Connected(r))
             /\ Connected(r).stage = "headers" /\ Connected(r).host = r.host
  <2>1. fetchClock + r.remaining \in Int
    <3>1. r.remaining \in Int
      BY <1>3 DEF FetchStates
    <3> QED
      BY <1>3, <3>1
  <2>2. /\ Connected(r) \in FetchStates /\ Connected(r).stage = "headers"
        /\ Connected(r).host = r.host /\ Connected(r).connected = r.checked
    BY <1>3, <2>1 DEF Connected, FetchStates, FetchStages
  <2> QED
    BY <1>3, <2>2 DEF Carries
<1>4. Carries(NoFetch)
  BY <1>1 DEF Carries, NoFetch
<1>5. Carries(Ended)
  BY <1>2 DEF Carries
<1> QED
  BY <1>2, <1>3, <1>4, <1>5

(* One call changes, the others stay.                                      *)
LEMMA CallTurns ==
    ASSUME NEW fs, CallsFit(fs), NEW f \in Fetches, NEW r, Carries(r),
           NEW gs, gs = [fs EXCEPT ![f] = r]
    PROVE  CallsFit(gs) /\ \A g \in Fetches : gs[g] = IF g = f THEN r ELSE fs[g]
BY DEF CallsFit, Carries

(* A call begins, begins a hop, is refused or ends its body.               *)
LEMMA OutsideKeeps ==
    ASSUME EgressInv, NEW f \in Fetches, SecureFetch(f) \/ BeginHop(f) \/ Refused(f) \/ BodyEnds(f)
    PROVE  EgressInv'
<1>1. PICK fs \in [Fetches -> FetchStates] : fs = fetch /\ CallsFit(fs)
  BY DEF EgressInv, CallsFit
<1>2. UNCHANGED <<dns, fetchClock, hostPools, hostAccess>>
  BY DEF SecureFetch, BeginHop, Refused, BodyEnds, PoolsKeep, WorldKeeps
<1>3. fs[f].stage \notin {"queued", "headers"}
  BY <1>1 DEF SecureFetch, BeginHop, Refused, BodyEnds, FetchAt
<1>4. \E r \in FetchStates : /\ Carries(r) /\ r.stage \notin {"queued", "headers"}
                             /\ fetch' = [fetch EXCEPT ![f] = r]
  <2>1. CASE SecureFetch(f)
    <3>1. PICK h \in Hostnames :
              fetch' = [fetch EXCEPT ![f] = [NoFetch EXCEPT !.stage = "hop", !.host = h,
                                                 !.deadline = fetchClock + FetchBudget]]
      BY <2>1 DEF SecureFetch, FetchBecomes
    <3>2. NoFetch \in FetchStates /\ fetchClock + FetchBudget \in Nat
      BY CallBecomes, EgressAssumption DEF Carries, EgressInv
    <3>3. PICK r \in FetchStates : r = [NoFetch EXCEPT !.stage = "hop", !.host = h,
                                                   !.deadline = fetchClock + FetchBudget]
      BY <3>2 DEF FetchStates, FetchStages
    <3>4. r.stage = "hop" /\ r.host = h
      BY <3>2, <3>3 DEF FetchStates
    <3> QED
      BY <3>1, <3>3, <3>4 DEF Carries
  <2>2. CASE BeginHop(f)
    <3>1. CASE fetchClock >= fetch[f].deadline
      BY <2>2, <3>1, CallBecomes DEF BeginHop, FetchBecomes, Carries
    <3>2. CASE ~(fetchClock >= fetch[f].deadline)
      <4>1. fetch' = [fetch EXCEPT ![f] = [fs[f] EXCEPT !.stage = "lookup",
                                              !.remaining = fs[f].deadline - fetchClock]]
            /\ fs[f].stage = "hop"
        BY <1>1, <2>2, <3>2 DEF BeginHop, FetchBecomes, FetchAt
      <4>2. fs[f].host \in Hostnames /\ fs[f] \in FetchStates /\ fs[f].deadline - fetchClock \in Int
        <5>1. fs[f].host \in Hostnames /\ fs[f] \in FetchStates
          BY <1>1, <4>1 DEF CallsFit, Carries
        <5>2. fs[f].deadline \in Nat /\ fetchClock \in Nat
          BY <5>1 DEF EgressInv, FetchStates
        <5> QED
          BY <5>1, <5>2
      <4>3. PICK r \in FetchStates : r = [fs[f] EXCEPT !.stage = "lookup",
                                              !.remaining = fs[f].deadline - fetchClock]
        BY <4>2 DEF FetchStates, FetchStages
      <4>4. r.stage = "lookup" /\ r.host = fs[f].host
        BY <4>2, <4>3 DEF FetchStates
      <4> QED
        BY <4>1, <4>2, <4>3, <4>4 DEF Carries
    <3> QED
      BY <3>1, <3>2
  <2>3. CASE Refused(f) \/ BodyEnds(f)
    BY <2>3, CallBecomes DEF Refused, BodyEnds, FetchBecomes, Carries
  <2> QED
    BY <2>1, <2>2, <2>3
<1>5. PICK r \in FetchStates : /\ Carries(r) /\ r.stage \notin {"queued", "headers"}
                               /\ fetch' = [fs EXCEPT ![f] = r]
  BY <1>1, <1>4
<1>6. PICK gs : gs = fetch'
  OBVIOUS
<1>7. CallsFit(gs) /\ PoolsExact(hostPools, gs)
  BY <1>1, <1>3, <1>5, <1>6, CallTurns, OutsidePools DEF EgressInv
<1>8. CallsFit(fetch)' /\ PoolsExact(hostPools, fetch)'
  BY <1>2, <1>6, <1>7
<1> QED
  BY <1>2, <1>8 DEF EgressInv

(* An allowed hop goes to the pool of its host.                            *)
LEMMA ValidatedKeeps ==
    ASSUME EgressInv, NEW f \in Fetches, Validated(f)
    PROVE  EgressInv'
<1>1. PICK fs \in [Fetches -> FetchStates] : fs = fetch /\ CallsFit(fs)
  BY DEF EgressInv, CallsFit
<1>2. PICK h \in Hostnames : h = fs[f].host /\ fs[f].stage = "lookup"
  BY <1>1 DEF Validated, FetchAt, CallsFit, Carries
<1>3. UNCHANGED <<dns, fetchClock>> /\ dns[h] \in Addresses \ Blocked
  BY <1>1, <1>2 DEF Validated, WorldKeeps, EgressInv
<1>4. PICK r \in FetchStates : r = [fs[f] EXCEPT !.checked = dns[h]]
  BY <1>3 DEF FetchStates
<1>5. r.host = h /\ r.checked \in Addresses \ Blocked
  BY <1>2, <1>3, <1>4 DEF FetchStates
<1>6. PICK gone \in Displaced(h) :
         LET pools == PoolsWith(h, gone)
             free == Cardinality(pools[h].held) < PerHost /\ pools[h].queue = <<>>
             full == ~free /\ Len(pools[h].queue) >= QueueMax
         IN  /\ hostAccess' = TableWith(hostAccess, gone, h, fetchClock)
             /\ hostPools' = IF free THEN [pools EXCEPT ![h].held = @ \cup {f}]
                             ELSE IF full THEN pools
                             ELSE [pools EXCEPT ![h].queue = Append(@, f)]
             /\ fetch' = [fs EXCEPT ![f] = IF free THEN Connected(r) ELSE IF full THEN Ended
                                           ELSE [r EXCEPT !.stage = "queued"]]
  BY <1>1, <1>2, <1>4 DEF Validated, FetchBecomes
<1>7. PICK ps : ps = PoolsWith(h, gone)
  OBVIOUS
<1>8. PoolsExact(ps, fs) /\ h \in DOMAIN ps /\ DOMAIN ps = (DOMAIN hostPools \ gone) \cup {h}
  BY <1>1, <1>7, PoolMade DEF EgressInv, Tracked
<1>9. PICK pool : pool = ps[h] /\ PoolExact(pool, WithHost(h, fs), WaitingOn(h, fs))
  BY <1>8 DEF PoolsExact
<1>10. f \notin WithHost(h, fs) /\ f \notin WaitingOn(h, fs)
  BY <1>2 DEF WithHost, WaitingOn
<1>11. PICK gs : gs = fetch'
  OBVIOUS
<1> DEFINE free == Cardinality(pool.held) < PerHost /\ pool.queue = <<>>
           full == ~free /\ Len(pool.queue) >= QueueMax
<1>12. /\ hostPools' = IF free THEN [ps EXCEPT ![h] = [pool EXCEPT !.held = pool.held \cup {f}]]
                       ELSE IF full THEN ps
                       ELSE [ps EXCEPT ![h] = [pool EXCEPT !.queue = Append(pool.queue, f)]]
       /\ gs = [fs EXCEPT ![f] = IF free THEN Connected(r) ELSE IF full THEN Ended
                                 ELSE [r EXCEPT !.stage = "queued"]]
       /\ hostAccess' = TableWith(hostAccess, gone, h, fetchClock)
  BY <1>6, <1>7, <1>9, <1>11
<1>13. DOMAIN hostAccess' = DOMAIN ps
  BY <1>8, <1>12 DEF TableWith, EgressInv
<1>14. fetchClock \in Nat
  BY DEF EgressInv
<1> HIDE DEF free, full
<1>15. CASE free
  <2>1. Carries(Connected(r)) /\ Connected(r).stage = "headers" /\ Connected(r).host = h
    BY <1>5, <1>14, CallBecomes
  <2>2. CallsFit(gs) /\ \A g \in Fetches : gs[g] = IF g = f THEN Connected(r) ELSE fs[g]
    BY <1>1, <1>12, <1>15, <2>1, CallTurns
  <2>3. WithHost(h, gs) = WithHost(h, fs) \cup {f} /\ WaitingOn(h, gs) = WaitingOn(h, fs)
    BY <1>10, <2>1, <2>2 DEF WithHost, WaitingOn
  <2>4. \A g \in Hostnames \ {h} : WithHost(g, gs) = WithHost(g, fs)
                                   /\ WaitingOn(g, gs) = WaitingOn(g, fs)
    BY <1>2, <2>1, <2>2 DEF WithHost, WaitingOn
  <2>5. PoolExact([pool EXCEPT !.held = pool.held \cup {f}], WithHost(h, gs), WaitingOn(h, gs))
    <3>1. WithHost(h, fs) \in SUBSET Fetches /\ WaitingOn(h, fs) \in SUBSET Fetches
      BY DEF WithHost, WaitingOn
    <3>2. pool.queue = <<>> /\ Cardinality(pool.held) < PerHost
      BY <1>15 DEF free
    <3>3. PoolExact([pool EXCEPT !.held = pool.held \cup {f}], WithHost(h, fs) \cup {f},
                    WaitingOn(h, fs))
      BY <1>9, <1>10, <3>1, <3>2, PoolJoins
    <3> QED
      BY <2>3, <3>3
  <2>6. PoolsExact(hostPools', gs) /\ DOMAIN hostPools' = DOMAIN ps
    BY <1>8, <1>12, <1>15, <2>4, <2>5, PoolTurns
  <2> QED
    BY <1>3, <1>11, <1>13, <2>2, <2>6 DEF EgressInv
<1>16. CASE ~free /\ full
  <2>1. CallsFit(gs)
    BY <1>1, <1>12, <1>16, CallBecomes, CallTurns
  <2>2. PoolsExact(ps, gs)
    BY <1>1, <1>2, <1>8, <1>12, <1>16, CallBecomes, OutsidePools DEF Carries
  <2> QED
    BY <1>3, <1>11, <1>12, <1>13, <1>16, <2>1, <2>2 DEF EgressInv
<1>17. CASE ~free /\ ~full
  <2>1. PICK w \in FetchStates : w = [r EXCEPT !.stage = "queued"]
    BY DEF FetchStates, FetchStages
  <2>2. w.stage = "queued" /\ w.host = h /\ Carries(w)
    BY <1>5, <2>1 DEF FetchStates, Carries
  <2>3. CallsFit(gs) /\ \A g \in Fetches : gs[g] = IF g = f THEN w ELSE fs[g]
    BY <1>1, <1>12, <1>17, <2>1, <2>2, CallTurns
  <2>4. WithHost(h, gs) = WithHost(h, fs) /\ WaitingOn(h, gs) = WaitingOn(h, fs) \cup {f}
    BY <1>10, <2>2, <2>3 DEF WithHost, WaitingOn
  <2>5. \A g \in Hostnames \ {h} : WithHost(g, gs) = WithHost(g, fs)
                                   /\ WaitingOn(g, gs) = WaitingOn(g, fs)
    BY <1>2, <2>2, <2>3 DEF WithHost, WaitingOn
  <2>6. PoolExact([pool EXCEPT !.queue = Append(pool.queue, f)], WithHost(h, gs), WaitingOn(h, gs))
    <3>1. WithHost(h, fs) \in SUBSET Fetches /\ WaitingOn(h, fs) \in SUBSET Fetches
      BY DEF WithHost, WaitingOn
    <3>2. Cardinality(pool.held) \in Nat /\ Len(pool.queue) \in Nat
      <4>1. IsFiniteSet(WithHost(h, fs)) /\ pool.queue \in Seq(Fetches)
        BY <1>9, <3>1, FS_Subset, EgressAssumption DEF PoolExact, LinesUp
      <4> QED
        BY <1>9, <4>1, FS_CardinalityType, LenProperties DEF PoolExact
    <3>3. /\ PerHost <= Cardinality(pool.held) \/ pool.queue # <<>>
          /\ Len(pool.queue) < QueueMax
      BY <1>17, <3>2, EgressAssumption DEF free, full
    <3>4. PoolExact([pool EXCEPT !.queue = Append(pool.queue, f)], WithHost(h, fs),
                    WaitingOn(h, fs) \cup {f})
      BY <1>9, <1>10, <3>1, <3>3, PoolJoins
    <3> QED
      BY <2>4, <3>4
  <2>7. PoolsExact(hostPools', gs) /\ DOMAIN hostPools' = DOMAIN ps
    BY <1>8, <1>12, <1>17, <2>5, <2>6, PoolTurns
  <2> QED
    BY <1>3, <1>11, <1>13, <2>3, <2>7 DEF EgressInv
<1> QED
  BY <1>15, <1>16, <1>17

(* A connected call leaves its host, as what it becomes.                   *)
LEMMA LeaveKeeps ==
    ASSUME EgressInv, NEW f \in Fetches, FetchAt(f, "headers"), NEW r, Carries(r),
           r.stage \notin {"queued", "headers"}, LeaveHost(f, r),
           UNCHANGED <<dns, fetchClock, hostAccess>>
    PROVE  EgressInv'
<1>1. PICK fs \in [Fetches -> FetchStates] : fs = fetch /\ CallsFit(fs)
  BY DEF EgressInv, CallsFit
<1>2. PICK h \in Hostnames : h = fs[f].host /\ fs[f].stage = "headers"
  BY <1>1 DEF FetchAt, CallsFit, Carries
<1>3. PICK ps : ps = hostPools /\ PoolsExact(ps, fs)
  BY <1>1 DEF EgressInv
<1>4. f \in WithHost(h, fs)
  BY <1>2 DEF WithHost
<1>5. h \in DOMAIN ps
  BY <1>3, <1>4 DEF PoolsExact
<1>6. PICK pool : pool = ps[h] /\ PoolExact(pool, WithHost(h, fs), WaitingOn(h, fs))
  BY <1>3, <1>5 DEF PoolsExact
<1>7. f \in pool.held
  BY <1>4, <1>6 DEF PoolExact
<1>8. /\ WithHost(h, fs) \in SUBSET Fetches /\ WaitingOn(h, fs) \in SUBSET Fetches
      /\ WithHost(h, fs) \cap WaitingOn(h, fs) = {}
  BY DEF WithHost, WaitingOn
<1>9. PICK gs : gs = fetch'
  OBVIOUS
<1>10. PICK q : q = pool.queue
  OBVIOUS
<1>11. CASE q = <<>>
  <2>1. /\ gs = [fs EXCEPT ![f] = r]
        /\ hostPools' = [ps EXCEPT ![h] = [pool EXCEPT !.held = pool.held \ {f}]]
    BY <1>1, <1>2, <1>3, <1>5, <1>6, <1>7, <1>9, <1>10, <1>11
       DEF LeaveHost, FetchBecomes, Tracked
  <2>2. CallsFit(gs) /\ \A g \in Fetches : gs[g] = IF g = f THEN r ELSE fs[g]
    BY <1>1, <2>1, CallTurns
  <2>3. WithHost(h, gs) = WithHost(h, fs) \ {f} /\ WaitingOn(h, gs) = WaitingOn(h, fs)
    BY <1>2, <2>2 DEF WithHost, WaitingOn
  <2>4. \A g \in Hostnames \ {h} : WithHost(g, gs) = WithHost(g, fs)
                                   /\ WaitingOn(g, gs) = WaitingOn(g, fs)
    BY <1>2, <2>2 DEF WithHost, WaitingOn
  <2>5. PoolExact([pool EXCEPT !.held = pool.held \ {f}], WithHost(h, fs) \ {f}, WaitingOn(h, fs))
    BY <1>4, <1>6, <1>8, <1>10, <1>11, PoolLeaves
  <2>6. PoolsExact(hostPools', gs) /\ DOMAIN hostPools' = DOMAIN hostPools
    BY <1>3, <1>5, <2>1, <2>3, <2>4, <2>5, PoolTurns
  <2> QED
    BY <1>9, <2>2, <2>6 DEF EgressInv
<1>12. CASE q # <<>>
  <2>1. PICK k : k = Head(q)
    OBVIOUS
  <2>2. /\ k \in WaitingOn(h, fs)
        /\ PoolExact([pool EXCEPT !.held = (pool.held \ {f}) \cup {k}, !.queue = Tail(q)],
                     (WithHost(h, fs) \ {f}) \cup {k}, WaitingOn(h, fs) \ {k})
    BY <1>4, <1>6, <1>8, <1>10, <1>12, <2>1, PoolLeaves
  <2>3. k \in Fetches /\ k # f /\ fs[k].stage = "queued" /\ fs[k].host = h
    BY <1>2, <2>2 DEF WaitingOn
  <2>4. PICK c : c = Connected(fs[k])
    OBVIOUS
  <2>5. Carries(c) /\ c.stage = "headers" /\ c.host = h
    BY <1>1, <2>3, <2>4, CallBecomes DEF CallsFit, Carries, EgressInv
  <2>6. /\ gs = [fs EXCEPT ![f] = r, ![k] = c]
        /\ hostPools' = [ps EXCEPT ![h] = [pool EXCEPT !.held = (pool.held \ {f}) \cup {k},
                                                       !.queue = Tail(q)]]
    <3>1. /\ fetch' = [fetch EXCEPT ![f] = r, ![Head(hostPools[h].queue)] = Connected(@)]
          /\ hostPools' = [hostPools EXCEPT
                             ![h].held = (@ \ {f}) \cup {Head(hostPools[h].queue)},
                             ![h].queue = Tail(@)]
      BY <1>1, <1>2, <1>3, <1>5, <1>6, <1>7, <1>10, <1>12 DEF LeaveHost, Tracked
    <3>2. hostPools[h].queue = q /\ hostPools[h] = pool /\ hostPools[h].held = pool.held
      BY <1>3, <1>6, <1>10
    <3>3. [fs EXCEPT ![f] = r][k] = fs[k]
      BY <2>3
    <3>4. gs = [fs EXCEPT ![f] = r, ![k] = Connected(@)]
      BY <1>1, <1>9, <2>1, <3>1, <3>2
    <3>5. gs = [fs EXCEPT ![f] = r, ![k] = c]
      BY <2>4, <3>3, <3>4
    <3> QED
      BY <1>3, <1>5, <1>6, <1>10, <2>1, <3>1, <3>2, <3>5
  <2>7. CallsFit(gs) /\ \A g \in Fetches : gs[g] = IF g = k THEN c ELSE IF g = f THEN r ELSE fs[g]
    <3>1. PICK mid : mid = [fs EXCEPT ![f] = r]
      OBVIOUS
    <3>2. CallsFit(mid) /\ \A g \in Fetches : mid[g] = IF g = f THEN r ELSE fs[g]
      BY <1>1, <3>1, CallTurns
    <3>3. gs = [mid EXCEPT ![k] = c]
      BY <2>6, <3>1
    <3>4. CallsFit(gs) /\ \A g \in Fetches : gs[g] = IF g = k THEN c ELSE mid[g]
      <4>1. CallsFit(mid) /\ k \in Fetches /\ Carries(c)
        BY <2>3, <2>5, <3>2
      <4>2. mid \in [Fetches -> FetchStates] /\ c \in FetchStates
        BY <4>1 DEF CallsFit, Carries
      <4>3. /\ gs \in [Fetches -> FetchStates]
            /\ \A g \in Fetches : gs[g] = IF g = k THEN c ELSE mid[g]
        BY <3>3, <4>1, <4>2
      <4> QED
        BY <4>1, <4>3 DEF CallsFit
    <3> QED
      BY <3>2, <3>4
  <2>8. /\ WithHost(h, gs) = (WithHost(h, fs) \ {f}) \cup {k}
        /\ WaitingOn(h, gs) = WaitingOn(h, fs) \ {k}
    BY <1>2, <2>3, <2>5, <2>7 DEF WithHost, WaitingOn
  <2>9. \A g \in Hostnames \ {h} : WithHost(g, gs) = WithHost(g, fs)
                                   /\ WaitingOn(g, gs) = WaitingOn(g, fs)
    BY <1>2, <2>3, <2>5, <2>7 DEF WithHost, WaitingOn
  <2>10. PoolsExact(hostPools', gs) /\ DOMAIN hostPools' = DOMAIN hostPools
    <3>1. PICK next : next = [pool EXCEPT !.held = (pool.held \ {f}) \cup {k}, !.queue = Tail(q)]
      OBVIOUS
    <3>2. PoolExact(next, WithHost(h, gs), WaitingOn(h, gs))
      BY <2>2, <2>8, <3>1
    <3>3. hostPools' = [ps EXCEPT ![h] = next]
      BY <2>6, <3>1
    <3> QED
      BY <1>3, <1>5, <2>9, <3>2, <3>3, PoolTurns
  <2> QED
    BY <1>9, <2>7, <2>10 DEF EgressInv
<1> QED
  BY <1>11, <1>12

(* Its headers, a redirect or a failure make it leave.                     *)
LEMMA HeadersKeep ==
    ASSUME EgressInv, NEW f \in Fetches, Redirected(f) \/ HeadersCome(f) \/ FetchBreaks(f)
    PROVE  EgressInv'
<1>1. FetchAt(f, "headers") /\ UNCHANGED <<dns, fetchClock, hostAccess>>
  BY DEF Redirected, HeadersCome, FetchBreaks, WorldKeeps
<1>2. PICK o \in FetchStates : o = fetch[f] /\ o.host \in Hostnames
  BY <1>1 DEF EgressInv, CallsFit, Carries, FetchAt
<1>3. ASSUME NEW h \in Hostnames, o.hops # MaxHops
      PROVE  Carries([o EXCEPT !.stage = "hop", !.host = h, !.hops = o.hops + 1])
             /\ [o EXCEPT !.stage = "hop", !.host = h, !.hops = o.hops + 1].stage = "hop"
  <2>1. o.hops + 1 \in 0..MaxHops
    <3>1. o.hops \in 0..MaxHops
      BY DEF FetchStates
    <3> QED
      BY <1>3, <3>1, EgressAssumption
  <2>2. PICK r \in FetchStates : r = [o EXCEPT !.stage = "hop", !.host = h, !.hops = o.hops + 1]
    BY <2>1 DEF FetchStates, FetchStages
  <2>3. r.stage = "hop" /\ r.host = h
    BY <2>2 DEF FetchStates
  <2> QED
    BY <2>2, <2>3 DEF Carries
<1>4. Carries([o EXCEPT !.stage = "body"]) /\ [o EXCEPT !.stage = "body"].stage = "body"
  <2>1. PICK r \in FetchStates : r = [o EXCEPT !.stage = "body"]
    BY DEF FetchStates, FetchStages
  <2>2. r.stage = "body" /\ r.host = o.host
    BY <2>1 DEF FetchStates
  <2> QED
    BY <1>2, <2>1, <2>2 DEF Carries
<1>5. \E r : Carries(r) /\ r.stage \notin {"queued", "headers"} /\ LeaveHost(f, r)
  <2>1. CASE Redirected(f)
    BY <1>2, <1>3, <2>1, CallBecomes DEF Redirected
  <2>2. CASE HeadersCome(f)
    BY <1>2, <1>4, <2>2, CallBecomes DEF HeadersCome
  <2>3. CASE FetchBreaks(f)
    BY <2>3, CallBecomes DEF FetchBreaks
  <2> QED
    BY <2>1, <2>2, <2>3
<1> QED
  BY <1>1, <1>5, LeaveKeeps

(* The timeout of the queue.                                               *)
LEMMA TimesOutKeeps ==
    ASSUME EgressInv, NEW f \in Fetches, QueueTimesOut(f)
    PROVE  EgressInv'
<1>1. PICK fs \in [Fetches -> FetchStates] : fs = fetch /\ CallsFit(fs)
  BY DEF EgressInv, CallsFit
<1>2. PICK h \in Hostnames : h = fs[f].host /\ fs[f].stage = "queued"
  BY <1>1 DEF QueueTimesOut, FetchAt, CallsFit, Carries
<1>3. PICK ps : ps = hostPools /\ PoolsExact(ps, fs)
  BY <1>1 DEF EgressInv
<1>4. f \in WaitingOn(h, fs)
  BY <1>2 DEF WaitingOn
<1>5. h \in DOMAIN ps
  BY <1>3, <1>4 DEF PoolsExact
<1>6. PICK pool : pool = ps[h] /\ PoolExact(pool, WithHost(h, fs), WaitingOn(h, fs))
  BY <1>3, <1>5 DEF PoolsExact
<1>7. PICK gs : gs = fetch'
  OBVIOUS
<1>8. /\ gs = [fs EXCEPT ![f] = Ended]
      /\ hostPools' = [ps EXCEPT ![h] = [pool EXCEPT !.queue = WithoutFetch(pool.queue, f)]]
      /\ UNCHANGED <<dns, fetchClock, hostAccess>>
  BY <1>1, <1>2, <1>3, <1>5, <1>6, <1>7 DEF QueueTimesOut, FetchBecomes, Tracked, WorldKeeps
<1>9. CallsFit(gs) /\ \A g \in Fetches : gs[g] = IF g = f THEN Ended ELSE fs[g]
  BY <1>1, <1>8, CallBecomes, CallTurns
<1>10. WithHost(h, gs) = WithHost(h, fs) /\ WaitingOn(h, gs) = WaitingOn(h, fs) \ {f}
  BY <1>2, <1>9, CallBecomes DEF WithHost, WaitingOn
<1>11. \A g \in Hostnames \ {h} : WithHost(g, gs) = WithHost(g, fs)
                                  /\ WaitingOn(g, gs) = WaitingOn(g, fs)
  BY <1>2, <1>9, CallBecomes DEF WithHost, WaitingOn
<1>12. PoolExact([pool EXCEPT !.queue = WithoutFetch(pool.queue, f)], WithHost(h, fs),
                 WaitingOn(h, fs) \ {f})
  <2>1. WithHost(h, fs) \in SUBSET Fetches /\ WaitingOn(h, fs) \in SUBSET Fetches
    BY DEF WithHost, WaitingOn
  <2> QED
    BY <1>4, <1>6, <2>1, PoolGivesUp
<1>13. PoolsExact(hostPools', gs) /\ DOMAIN hostPools' = DOMAIN hostPools
  BY <1>3, <1>5, <1>8, <1>10, <1>11, <1>12, PoolTurns
<1> QED
  BY <1>7, <1>8, <1>9, <1>13 DEF EgressInv

(* Every step of the fetches keeps the invariant.                          *)
LEMMA EgressStepKeeps == EgressInv /\ [EgressNext]_egressVars => EgressInv'
<1> SUFFICES ASSUME EgressInv, [EgressNext]_egressVars PROVE EgressInv'
  OBVIOUS
<1>1. CASE UNCHANGED egressVars
  BY <1>1 DEF egressVars, EgressInv
<1>2. CASE FetchClockTicks
  BY <1>2 DEF FetchClockTicks, PoolsKeep, EgressInv
<1>3. CASE DnsChanges
  <2>1. dns' \in [Hostnames -> Addresses]
    BY <1>3 DEF DnsChanges, EgressInv
  <2> QED
    BY <1>3, <2>1 DEF DnsChanges, PoolsKeep, EgressInv
<1> QED
  BY <1>1, <1>2, <1>3, OutsideKeeps, ValidatedKeeps, HeadersKeep, TimesOutKeeps DEF EgressNext

(* The invariant of the fetches holds.                                     *)
LEMMA FetchesAreSound == EgressSpec => []EgressInv
<1>1. EgressInit => EgressInv
  <2> SUFFICES ASSUME EgressInit PROVE EgressInv
    OBVIOUS
  <2>1. CallsFit(fetch) /\ \A f \in Fetches : fetch[f].stage = "idle"
    BY CallBecomes DEF EgressInit, CallsFit, Carries, NoFetch
  <2>2. DOMAIN hostPools = {} /\ DOMAIN hostAccess = {} /\ hostPools \in [{} -> PoolStates]
    BY DEF EgressInit
  <2>3. PoolsExact(hostPools, fetch)
    BY <2>1, <2>2 DEF PoolsExact, WithHost, WaitingOn
  <2> QED
    BY <2>1, <2>2, <2>3, EgressAssumption DEF EgressInit, EgressInv
<1> QED
  BY <1>1, EgressStepKeeps, PTL DEF EgressSpec

(* Egress: at most PerHost requests are with a host, each of them holds a  *)
(* slot of the pool that new callers find whatever was pruned, nobody      *)
(* waits while there is room, and every connection is to an address that   *)
(* was checked, for any number of calls, hosts and changes of names        *)
(* (coordinator.ts, secureFetch.ts).                                       *)
THEOREM EgressIsSound == EgressSpec => [](HostCapExact /\ HopsChecked)
<1>1. EgressInv => HopsChecked
  BY DEF EgressInv, CallsFit, Carries, HopsChecked, FetchAt
<1>2. EgressInv => HostCapExact
  <2> SUFFICES ASSUME EgressInv, NEW h \in Hostnames
               PROVE  /\ Cardinality(WithHost(h, fetch)) <= PerHost
                      /\ IF h \in Tracked
                         THEN /\ hostPools[h].held = WithHost(h, fetch)
                              /\ Range(hostPools[h].queue) = WaitingOn(h, fetch)
                              /\ WaitingOn(h, fetch) # {} =>
                                    Cardinality(WithHost(h, fetch)) = PerHost
                         ELSE WithHost(h, fetch) = {} /\ WaitingOn(h, fetch) = {}
    BY DEF HostCapExact, WithHost, WaitingOn, FetchAt
  <2>1. CASE h \notin Tracked
    <3>1. WithHost(h, fetch) = {} /\ WaitingOn(h, fetch) = {}
      BY <2>1 DEF EgressInv, PoolsExact, Tracked
    <3> QED
      BY <2>1, <3>1, FS_EmptySet, EgressAssumption
  <2>2. CASE h \in Tracked
    <3>1. PICK q : q = hostPools[h].queue
      OBVIOUS
    <3>2. PoolExact(hostPools[h], WithHost(h, fetch), WaitingOn(h, fetch))
      BY <2>2 DEF EgressInv, PoolsExact, Tracked
    <3>3. LinesUp(q, WaitingOn(h, fetch)) /\ q \in Seq(Fetches)
      BY <3>1, <3>2 DEF PoolExact, LinesUp
    <3>4. DOMAIN q = 1..Len(q) /\ \A i \in 1..Len(q) : q[i] \in Fetches
      BY <3>3, LenProperties, ElementOfSeq
    <3>5. Range(q) = WaitingOn(h, fetch)
      BY <3>3, <3>4 DEF Range, LinesUp, WaitingOn
    <3>6. WaitingOn(h, fetch) # {} => q # <<>>
      BY <3>3, <3>4, <3>5 DEF Range
    <3>7. Cardinality(WithHost(h, fetch)) \in Nat
      BY FS_Subset, FS_CardinalityType, EgressAssumption DEF WithHost
    <3> QED
      BY <2>2, <3>1, <3>2, <3>5, <3>6, <3>7, EgressAssumption DEF PoolExact
  <2> QED
    BY <2>1, <2>2
<1> QED
  BY <1>1, <1>2, FetchesAreSound, PTL
----------------------------------------------------------------------------
(* The federation.                                                         *)

(* Circuits as the callers leave them: a trial is out in half-open only.   *)
SoundBreakers == {c \in Breakers : c.trial => c.state = "half-open"}

(* What every answer and every look makes of such a circuit.               *)
LEMMA BreakerTurns ==
    ASSUME NEW c \in SoundBreakers
    PROVE  /\ CircuitNow(c) \in SoundBreakers /\ CircuitNow(c).trial = c.trial
           /\ TrialTaken(c) \in SoundBreakers
           /\ AfterFailure(c) \in SoundBreakers /\ ~AfterFailure(c).trial
           /\ AfterSuccess(c) \in SoundBreakers /\ ~AfterSuccess(c).trial
           /\ c.state = "open" => /\ [c EXCEPT !.cooled = TRUE] \in SoundBreakers
                                  /\ [c EXCEPT !.cooled = TRUE].trial = c.trial
<1>1. /\ c \in Breakers /\ c.state \in {"closed", "open", "half-open"} /\ c.trial \in BOOLEAN
      /\ c.trial => c.state = "half-open"
      /\ c.failures \in 0..FaultLimit /\ FaultLimit \in Nat \ {0}
  BY BreakerAssumption DEF SoundBreakers, Breakers
<1>2. CircuitNow(c) \in SoundBreakers /\ CircuitNow(c).trial = c.trial
  <2>1. PICK d : d = [c EXCEPT !.state = "half-open"] /\ d \in Breakers /\ d.state = "half-open" /\ d.trial = c.trial
    <3> DEFINE changed == [c EXCEPT !.state = "half-open"]
    <3>1. changed \in Breakers /\ changed.state = "half-open" /\ changed.trial = c.trial
      BY <1>1 DEF Breakers
    <3> QED
      BY <3>1
  <2>2. PICK e : e = [d EXCEPT !.cooled = FALSE] /\ e \in Breakers /\ e.state = "half-open" /\ e.trial = c.trial
    <3> DEFINE changed == [d EXCEPT !.cooled = FALSE]
    <3>1. changed \in Breakers /\ changed.state = "half-open" /\ changed.trial = c.trial
      BY <2>1 DEF Breakers
    <3> QED
      BY <3>1
  <2>3. [c EXCEPT !.state = "half-open", !.cooled = FALSE] = e
    BY <2>1, <2>2
  <2>4. CircuitNow(c) = e \/ CircuitNow(c) = c
    BY <2>3 DEF CircuitNow
  <2> QED
    BY <2>2, <2>4 DEF SoundBreakers
<1>3. TrialTaken(c) \in SoundBreakers
  <2>1. PICK d \in SoundBreakers : d = CircuitNow(c)
    BY <1>2
  <2>2. PICK e : e = [d EXCEPT !.trial = TRUE] /\ e \in Breakers /\ e.state = d.state
    <3> DEFINE changed == [d EXCEPT !.trial = TRUE]
    <3>1. changed \in Breakers /\ changed.state = d.state
      BY <2>1 DEF SoundBreakers, Breakers
    <3> QED
      BY <3>1
  <2> QED
    BY <2>1, <2>2 DEF TrialTaken, SoundBreakers
<1>4. AfterFailure(c) \in SoundBreakers /\ ~AfterFailure(c).trial
  <2>1. PICK m \in 0..FaultLimit : m = IF c.failures < FaultLimit THEN c.failures + 1 ELSE FaultLimit
    BY <1>1
  <2>2. PICK d : d = [c EXCEPT !.failures = m] /\ d \in Breakers /\ d.state = c.state /\ d.trial = c.trial
    <3> DEFINE changed == [c EXCEPT !.failures = m]
    <3>1. changed \in Breakers /\ changed.state = c.state /\ changed.trial = c.trial
      BY <1>1 DEF Breakers
    <3> QED
      BY <3>1
  <2>3. PICK e : e = [d EXCEPT !.state = "open"] /\ e \in Breakers /\ e.state = "open" /\ e.trial = c.trial
    <3> DEFINE changed == [d EXCEPT !.state = "open"]
    <3>1. changed \in Breakers /\ changed.state = "open" /\ changed.trial = c.trial
      BY <2>2 DEF Breakers
    <3> QED
      BY <3>1
  <2>4. PICK f : f = [e EXCEPT !.cooled = FALSE] /\ f \in Breakers /\ f.state = "open" /\ f.trial = c.trial
    <3> DEFINE changed == [e EXCEPT !.cooled = FALSE]
    <3>1. changed \in Breakers /\ changed.state = "open" /\ changed.trial = c.trial
      BY <2>3 DEF Breakers
    <3> QED
      BY <3>1
  <2>5. PICK g : g = [f EXCEPT !.trial = FALSE] /\ g \in Breakers /\ g.trial = FALSE
    <3> DEFINE changed == [f EXCEPT !.trial = FALSE]
    <3>1. changed \in Breakers /\ changed.trial = FALSE
      BY <2>4 DEF Breakers
    <3> QED
      BY <3>1
  <2>6. Reopened(d) = f
    BY <2>3, <2>4 DEF Reopened
  <2>7. AfterFailure(c) = IF c.state = "half-open" THEN g
                          ELSE IF c.state = "closed" /\ m >= FaultLimit THEN f ELSE d
    BY <2>1, <2>2, <2>5, <2>6 DEF AfterFailure
  <2>8. g \in SoundBreakers /\ ~g.trial
    BY <2>5 DEF SoundBreakers
  <2>9. c.state # "half-open" => d \in SoundBreakers /\ ~d.trial /\ f \in SoundBreakers /\ ~f.trial
    BY <1>1, <2>2, <2>4 DEF SoundBreakers
  <2> QED
    BY <2>7, <2>8, <2>9
<1>5. AfterSuccess(c) \in SoundBreakers /\ ~AfterSuccess(c).trial
  <2>1. PICK d : d = [c EXCEPT !.state = "closed"] /\ d \in Breakers /\ d.state = "closed"
    <3> DEFINE changed == [c EXCEPT !.state = "closed"]
    <3>1. changed \in Breakers /\ changed.state = "closed"
      BY <1>1 DEF Breakers
    <3> QED
      BY <3>1
  <2>2. PICK e : e = [d EXCEPT !.failures = 0] /\ e \in Breakers /\ e.state = "closed"
    <3> DEFINE changed == [d EXCEPT !.failures = 0]
    <3>1. 0 \in 0..FaultLimit
      BY <1>1
    <3>2. changed \in Breakers /\ changed.state = "closed"
      BY <2>1, <3>1 DEF Breakers
    <3> QED
      BY <3>2
  <2>3. PICK f : f = [e EXCEPT !.trial = FALSE] /\ f \in Breakers /\ f.trial = FALSE
    <3> DEFINE changed == [e EXCEPT !.trial = FALSE]
    <3>1. changed \in Breakers /\ changed.trial = FALSE
      BY <2>2 DEF Breakers
    <3> QED
      BY <3>1
  <2>4. [c EXCEPT !.state = "closed", !.failures = 0, !.trial = FALSE] = f
    BY <2>1, <2>2, <2>3
  <2>5. CASE c.state = "half-open"
    <3>1. AfterSuccess(c) = f /\ f \in SoundBreakers
      BY <2>3, <2>4, <2>5 DEF AfterSuccess, SoundBreakers
    <3> QED
      BY <2>3, <3>1
  <2>6. CASE c.state = "closed" /\ c.failures > 0
    <3>1. c.failures - 1 \in 0..FaultLimit
      BY <1>1, <2>6
    <3>2. PICK g : g = [c EXCEPT !.failures = c.failures - 1] /\ g \in Breakers /\ g.trial = c.trial
      <4> DEFINE changed == [c EXCEPT !.failures = c.failures - 1]
      <4>1. changed \in Breakers /\ changed.trial = c.trial
        BY <1>1, <3>1 DEF Breakers
      <4> QED
        BY <4>1
    <3>3. AfterSuccess(c) = g /\ g.trial = FALSE
      BY <1>1, <2>6, <3>2 DEF AfterSuccess
    <3> QED
      BY <3>2, <3>3 DEF SoundBreakers
  <2>7. CASE c.state # "half-open" /\ ~(c.state = "closed" /\ c.failures > 0)
    <3>1. AfterSuccess(c) = c
      BY <2>7 DEF AfterSuccess
    <3>2. c.trial = FALSE
      BY <1>1, <2>7
    <3> QED
      BY <3>1, <3>2
  <2>8. c.state = "half-open" \/ c.state # "half-open"
    OBVIOUS
  <2> QED
    BY <2>5, <2>6, <2>7, <2>8
<1>6. c.state = "open" => /\ [c EXCEPT !.cooled = TRUE] \in SoundBreakers
                          /\ [c EXCEPT !.cooled = TRUE].trial = c.trial
  <2>1. PICK d : d = [c EXCEPT !.cooled = TRUE] /\ d \in Breakers /\ d.state = c.state /\ d.trial = c.trial
    <3> DEFINE changed == [c EXCEPT !.cooled = TRUE]
    <3>1. changed \in Breakers /\ changed.state = c.state /\ changed.trial = c.trial
      BY <1>1 DEF Breakers
    <3> QED
      BY <3>1
  <2> QED
    BY <1>1, <2>1 DEF SoundBreakers
<1> QED
  BY <1>2, <1>3, <1>4, <1>5, <1>6

FedStates ==
    [pc : {"idle", "next", "fetching", "done"}, at : Nat \ {0},
     offers : [Backends -> SUBSET Upstreams], sources : [Backends -> SUBSET Upstreams]]

FedShape ==
    /\ breaker \in [Backends -> SoundBreakers]
    /\ spent \in [Backends -> 0..BackendBudget]
    /\ fed \in [Federations -> FedStates]
    /\ asked \in [Backends -> Nat]
    /\ faults \in [Backends -> 0..FaultLimit]
    /\ orphaned \subseteq Backends

(* The budget was charged with the answered calls, as far as it counts.    *)
SpentIsAsked ==
    \A b \in Backends : spent[b] = IF asked[b] < BackendBudget THEN asked[b] ELSE BackendBudget

(* What a request has brought: nothing from the backends it is not past,   *)
(* everything offered, each source under the first that offered it.        *)
Gathered(r) ==
    /\ r.pc = "fetching" => r.at \in Backends
    /\ r.pc \in {"next", "fetching"} => \A b \in Backends : b >= r.at => r.offers[b] = {} /\ r.sources[b] = {}
    /\ UNION {r.sources[c] : c \in Backends} = UNION {r.offers[c] : c \in Backends}
    /\ \A b \in Backends : r.sources[b] = r.offers[b] \ UNION {r.offers[c] : c \in 1..(b - 1)}

FedInv ==
    /\ FedShape
    /\ SpentIsAsked
    /\ \A q \in Federations : Gathered(fed[q])
    /\ TrialIsOut
    /\ OverrunBounded

(* A request that is with a backend, and one that leaves it.               *)
LEMMA CallersCount ==
    ASSUME NEW S, NEW T, IsFiniteSet(Federations), S \subseteq Federations, T \subseteq S
    PROVE  /\ Cardinality(S) \in Nat /\ Cardinality(T) \in Nat
           /\ Cardinality(T) <= Cardinality(S) /\ Cardinality(S) <= Cardinality(Federations)
           /\ Cardinality(Federations) \in Nat
  BY FS_Subset, FS_CardinalityType

(* The start of a request.                                                 *)
LEMMA FedStarts ==
    /\ NoFed \in FedStates /\ Gathered(NoFed) /\ NoFed.pc = "idle"
    /\ [NoFed EXCEPT !.pc = "next"] \in FedStates
    /\ Gathered([NoFed EXCEPT !.pc = "next"]) /\ [NoFed EXCEPT !.pc = "next"].pc = "next"
<1>1. PICK f : f = [b \in Backends |-> {}]
  OBVIOUS
<1>2. f \in [Backends -> SUBSET Upstreams] /\ \A b \in Backends : f[b] = {}
  BY <1>1
<1>3. NoFed = [pc |-> "idle", at |-> 1, offers |-> f, sources |-> f]
  BY <1>1 DEF NoFed
<1>4. NoFed \in FedStates /\ NoFed.pc = "idle" /\ NoFed.offers = f /\ NoFed.sources = f
  BY <1>2, <1>3 DEF FedStates
<1>5. PICK r : r = [NoFed EXCEPT !.pc = "next"]
  OBVIOUS
<1>6. r \in FedStates /\ r.pc = "next" /\ r.offers = f /\ r.sources = f
  BY <1>4, <1>5 DEF FedStates
<1>7. Gathered(NoFed)
  BY <1>2, <1>4 DEF Gathered
<1>8. Gathered(r)
  BY <1>2, <1>6 DEF Gathered
<1> QED
  BY <1>4, <1>5, <1>6, <1>7, <1>8

LEMMA FedBegins ==
    ASSUME FedInv, NEW q \in Federations, BeginFed(q)
    PROVE  FedInv'
<1>1. PICK r : r = [NoFed EXCEPT !.pc = "next"]
  OBVIOUS
<1>2. r \in FedStates /\ Gathered(r) /\ r.pc = "next"
  BY <1>1, FedStarts
<1>3. PICK fs \in [Federations -> FedStates] : fs = fed
  BY DEF FedInv, FedShape
<1>4. fed' = [fs EXCEPT ![q] = r] /\ fs[q].pc \in {"idle", "done"}
      /\ UNCHANGED <<breaker, spent, asked, faults, orphaned>>
  BY <1>1, <1>3 DEF BeginFed
<1>5. fed' \in [Federations -> FedStates] /\ \A p \in Federations : fed'[p] = IF p = q THEN r ELSE fs[p]
  BY <1>2, <1>4
<1>6. \A b \in Backends : CallersOf(b)' = CallersOf(b)
  BY <1>2, <1>3, <1>4, <1>5 DEF CallersOf
<1>7. FedShape' /\ SpentIsAsked'
  BY <1>4, <1>5 DEF FedInv, FedShape, SpentIsAsked
<1>8. \A p \in Federations : Gathered(fed'[p])
  BY <1>2, <1>3, <1>5 DEF FedInv
<1>9. TrialIsOut' /\ OverrunBounded'
  BY <1>4, <1>6 DEF FedInv, TrialIsOut, OverrunBounded
<1> QED
  BY <1>7, <1>8, <1>9 DEF FedInv

(* A request that goes on to the next backend, with what it has or with    *)
(* what the last one brought.                                              *)
LEMMA GathersOn ==
    ASSUME NEW r \in FedStates, r.pc \in {"next", "fetching"}, Gathered(r), r.at \in Backends,
           NEW s, s = [[r EXCEPT !.pc = "next"] EXCEPT !.at = r.at + 1]
    PROVE  s \in FedStates /\ s.pc = "next" /\ Gathered(s)
<1>1. PICK m : m = [r EXCEPT !.pc = "next"]
  OBVIOUS
<1>2. m \in FedStates /\ m.pc = "next" /\ m.at = r.at /\ m.offers = r.offers /\ m.sources = r.sources
  BY <1>1 DEF FedStates
<1>3. s = [m EXCEPT !.at = r.at + 1] /\ r.at + 1 \in Nat \ {0}
  BY <1>1 DEF FedStates
<1>4. s \in FedStates /\ s.pc = "next" /\ s.at = r.at + 1 /\ s.offers = r.offers /\ s.sources = r.sources
  BY <1>2, <1>3 DEF FedStates
<1>5. Backends \subseteq Nat
  BY FederationAssumption, FS_CardinalityType
<1> QED
  BY <1>4, <1>5 DEF Gathered

LEMMA GathersMore ==
    ASSUME NEW r \in FedStates, r.pc = "fetching", Gathered(r), NEW offer \in SUBSET Upstreams, NEW s,
           s = [[[r EXCEPT !.pc = "next"] EXCEPT !.at = r.at + 1] EXCEPT
                  !.offers[r.at] = offer,
                  !.sources[r.at] = offer \ UNION {r.sources[c] : c \in Backends}]
    PROVE  s \in FedStates /\ s.pc = "next" /\ Gathered(s)
<1> DEFINE b == r.at
           new == offer \ UNION {r.sources[c] : c \in Backends}
<1>1. b \in Backends /\ new \in SUBSET Upstreams
  BY DEF Gathered
<1>2. /\ s \in FedStates /\ s.pc = "next" /\ s.at = b + 1
      /\ s.offers = [r.offers EXCEPT ![b] = offer] /\ s.sources = [r.sources EXCEPT ![b] = new]
  <2>1. PICK m : m = [[r EXCEPT !.pc = "next"] EXCEPT !.at = b + 1]
    OBVIOUS
  <2>2. m \in FedStates /\ m.pc = "next" /\ m.at = b + 1 /\ m.offers = r.offers /\ m.sources = r.sources
    BY <1>1, <2>1, GathersOn DEF FedStates
  <2>3. PICK of, so : of = [r.offers EXCEPT ![b] = offer] /\ so = [r.sources EXCEPT ![b] = new]
    OBVIOUS
  <2>4. of \in [Backends -> SUBSET Upstreams] /\ so \in [Backends -> SUBSET Upstreams]
    BY <1>1, <2>3 DEF FedStates
  <2>5. s = [[m EXCEPT !.offers = of] EXCEPT !.sources = so]
    BY <2>1, <2>2, <2>3
  <2> QED
    BY <2>2, <2>3, <2>4, <2>5 DEF FedStates
<1>3. PICK of \in [Backends -> SUBSET Upstreams], so \in [Backends -> SUBSET Upstreams] :
        of = r.offers /\ so = r.sources
  BY DEF FedStates
<1> HIDE DEF b, new
<1>0. b = r.at
  BY DEF b
<1>4. /\ \A c \in Backends : s.offers[c] = IF c = b THEN offer ELSE of[c]
      /\ \A c \in Backends : s.sources[c] = IF c = b THEN new ELSE so[c]
  <2>1. PICK f, g : f = s.offers /\ g = s.sources
    OBVIOUS
  <2>2. f = [of EXCEPT ![b] = offer] /\ g = [so EXCEPT ![b] = new]
    BY <1>2, <1>3, <2>1
  <2>3. \A c \in Backends : f[c] = IF c = b THEN offer ELSE of[c]
    BY <1>1, <2>2
  <2>4. \A c \in Backends : g[c] = IF c = b THEN new ELSE so[c]
    BY <1>1, <2>2
  <2> QED
    BY <2>1, <2>3, <2>4
<1>5. /\ \A c \in Backends : c >= b => of[c] = {} /\ so[c] = {}
      /\ UNION {so[c] : c \in Backends} = UNION {of[c] : c \in Backends}
      /\ \A c \in Backends : so[c] = of[c] \ UNION {of[d] : d \in 1..(c - 1)}
  BY <1>0, <1>3 DEF Gathered
<1>6. /\ b \in Nat /\ \A c \in Backends : c \in Nat /\ c > 0 /\ 1..(c - 1) \subseteq Backends
      /\ of[b] = {} /\ so[b] = {}
  <2>1. Backends = 1..Cardinality(Backends) /\ Cardinality(Backends) \in Nat
    BY FederationAssumption, FS_CardinalityType
  <2>2. \A c \in Backends : c \in Nat /\ c > 0 /\ 1..(c - 1) \subseteq Backends
    BY <2>1
  <2> QED
    BY <1>1, <1>5, <2>2
<1>7. new = offer \ UNION {so[c] : c \in Backends}
  BY <1>3 DEF new
<1>8. UNION {s.sources[c] : c \in Backends} = UNION {s.offers[c] : c \in Backends}
  <2>1. \A u : (\E c \in Backends : u \in s.sources[c]) <=> (\E c \in Backends : u \in so[c]) \/ u \in new
    BY <1>1, <1>4, <1>6
  <2>2. \A u : (\E c \in Backends : u \in s.offers[c]) <=> (\E c \in Backends : u \in of[c]) \/ u \in offer
    BY <1>1, <1>4, <1>6
  <2> QED
    BY <1>5, <1>7, <2>1, <2>2
<1>9. UNION {of[c] : c \in Backends} = UNION {of[c] : c \in 1..(b - 1)}
  BY <1>1, <1>5, <1>6
<1>10. ASSUME NEW c \in Backends
       PROVE  s.sources[c] = s.offers[c] \ UNION {s.offers[d] : d \in 1..(c - 1)}
  <2>1. c \in Nat /\ 1..(c - 1) \subseteq Backends /\ b \in Nat
    BY <1>1, <1>6
  <2>2. CASE c < b
    <3>1. \A d \in 1..(c - 1) : s.offers[d] = of[d]
      BY <1>4, <2>1, <2>2
    <3>2. UNION {s.offers[d] : d \in 1..(c - 1)} = UNION {of[d] : d \in 1..(c - 1)}
      BY <3>1
    <3>3. c # b
      BY <2>1, <2>2
    <3>4. s.sources[c] = so[c] /\ s.offers[c] = of[c]
      BY <1>4, <3>3
    <3> QED
      BY <1>5, <3>2, <3>4
  <2>3. CASE c = b
    <3>1. \A d \in 1..(c - 1) : s.offers[d] = of[d]
      BY <1>4, <2>1, <2>3
    <3>2. UNION {s.offers[d] : d \in 1..(c - 1)} = UNION {of[d] : d \in 1..(b - 1)}
      BY <2>3, <3>1
    <3> QED
      BY <1>4, <1>5, <1>7, <1>9, <2>3, <3>2
  <2>4. CASE c > b
    <3>0. c # b /\ c >= b
      BY <2>1, <2>4
    <3>1. s.sources[c] = {} /\ s.offers[c] = {}
      BY <1>4, <1>5, <3>0
    <3> QED
      BY <3>1
  <2> QED
    BY <2>1, <2>2, <2>3, <2>4
<1>11. \A c \in Backends : c >= b + 1 => s.offers[c] = {} /\ s.sources[c] = {}
  <2> SUFFICES ASSUME NEW c \in Backends, c >= b + 1 PROVE s.offers[c] = {} /\ s.sources[c] = {}
    OBVIOUS
  <2>1. c # b /\ c >= b
    BY <1>6
  <2> QED
    BY <1>4, <1>5, <2>1
<1> QED
  BY <1>2, <1>8, <1>10, <1>11 DEF Gathered, new

LEMMA FedConsiders ==
    ASSUME FedInv, NEW q \in Federations, ConsiderBackend(q)
    PROVE  FedInv'
<1>1. PICK fs \in [Federations -> FedStates] : fs = fed /\ \A p \in Federations : Gathered(fs[p])
  BY DEF FedInv, FedShape
<1>2. PICK r \in FedStates : r = fs[q] /\ r.pc = "next" /\ Gathered(r)
  BY <1>1 DEF ConsiderBackend
<1>3. PICK b : b = r.at
  OBVIOUS
<1>4. UNCHANGED <<spent, asked, faults>>
  BY DEF ConsiderBackend
<1>5. CASE b \notin Backends
  <2> PICK s : s = [r EXCEPT !.pc = "done"]
    OBVIOUS
  <2>1. s \in FedStates /\ s.pc = "done" /\ Gathered(s)
    <3>1. s \in FedStates /\ s.pc = "done" /\ s.offers = r.offers /\ s.sources = r.sources
      BY DEF FedStates
    <3> QED
      BY <1>2, <3>1 DEF Gathered
  <2>2. fed' = [fs EXCEPT ![q] = s] /\ UNCHANGED <<breaker, orphaned>>
    BY <1>1, <1>2, <1>3, <1>5, <2>1 DEF ConsiderBackend
  <2>3. fed' \in [Federations -> FedStates] /\ \A p \in Federations : fed'[p] = IF p = q THEN s ELSE fs[p]
    BY <2>1, <2>2
  <2>4. \A c \in Backends : CallersOf(c)' = CallersOf(c)
    BY <1>1, <1>2, <2>1, <2>3 DEF CallersOf
  <2>5. FedShape' /\ SpentIsAsked'
    BY <1>4, <2>2, <2>3 DEF FedInv, FedShape, SpentIsAsked
  <2>6. \A p \in Federations : Gathered(fed'[p])
    BY <1>1, <2>1, <2>3
  <2>7. TrialIsOut' /\ OverrunBounded'
    BY <1>4, <2>2, <2>4 DEF FedInv, TrialIsOut, OverrunBounded
  <2> QED
    BY <2>5, <2>6, <2>7 DEF FedInv
<1>6. CASE b \in Backends
  <2>1. PICK c \in SoundBreakers : c = breaker[b]
    BY <1>6 DEF FedInv, FedShape
  <2>2. PICK d \in SoundBreakers : /\ d = IF TrialAllowed(c) THEN TrialTaken(c) ELSE CircuitNow(c)
                                   /\ ~TrialAllowed(c) => d.trial = c.trial
    BY BreakerTurns
  <2>3. PICK cs \in [Backends -> SoundBreakers] : cs = breaker
    BY DEF FedInv, FedShape
  <2>4. breaker' = [cs EXCEPT ![b] = d]
    BY <1>1, <1>2, <1>3, <1>6, <2>1, <2>2, <2>3 DEF ConsiderBackend
  <2>5. breaker' \in [Backends -> SoundBreakers] /\ \A e \in Backends : breaker'[e] = IF e = b THEN d ELSE cs[e]
    BY <1>6, <2>4
  <2>6. CASE TrialAllowed(c) /\ ~BudgetSpent(b)
    <3> PICK s : s = [r EXCEPT !.pc = "fetching"]
      OBVIOUS
    <3>1. s \in FedStates /\ s.pc = "fetching" /\ s.at = b /\ Gathered(s)
      <4>1. s \in FedStates /\ s.pc = "fetching" /\ s.at = b /\ s.offers = r.offers /\ s.sources = r.sources
        BY <1>3 DEF FedStates
      <4>2. r.at >= b /\ \A e \in Backends : e >= b => r.offers[e] = {} /\ r.sources[e] = {}
        BY <1>2, <1>3 DEF Gathered, FedStates
      <4> QED
        BY <1>2, <1>6, <4>1, <4>2 DEF Gathered
    <3>2. fed' = [fs EXCEPT ![q] = s] /\ orphaned' = orphaned
      BY <1>1, <1>2, <1>3, <1>6, <2>1, <2>6, <3>1 DEF ConsiderBackend
    <3>3. fed' \in [Federations -> FedStates] /\ \A p \in Federations : fed'[p] = IF p = q THEN s ELSE fs[p]
      BY <3>1, <3>2
    <3>4. CallersOf(b)' \subseteq Federations /\ q \in CallersOf(b)'
      BY <3>1, <3>3 DEF CallersOf
    <3>5. \A e \in Backends \ {b} : CallersOf(e)' = CallersOf(e)
      BY <1>1, <1>2, <3>1, <3>3 DEF CallersOf
    <3>6. FedShape' /\ SpentIsAsked'
      BY <1>4, <2>5, <3>2, <3>3 DEF FedInv, FedShape, SpentIsAsked
    <3>7. \A p \in Federations : Gathered(fed'[p])
      BY <1>1, <3>1, <3>3
    <3>8. TrialIsOut'
      BY <2>3, <2>5, <3>2, <3>4, <3>5 DEF FedInv, TrialIsOut
    <3>9. asked[b] < BackendBudget /\ asked[b] \in Nat /\ BackendBudget \in Nat
      BY <1>6, <2>6, FederationAssumption DEF FedInv, FedShape, SpentIsAsked, BudgetSpent
    <3>10. asked'[b] + Cardinality(CallersOf(b)') < BackendBudget + Cardinality(Federations)
      <4>1. /\ Cardinality(CallersOf(b)') \in Nat /\ Cardinality(Federations) \in Nat
            /\ Cardinality(CallersOf(b)') <= Cardinality(Federations)
        BY <3>4, CallersCount, FederationAssumption
      <4> QED
        BY <1>4, <3>9, <4>1
    <3>11. OverrunBounded'
      BY <1>4, <3>5, <3>10 DEF FedInv, OverrunBounded
    <3> QED
      BY <3>6, <3>7, <3>8, <3>11 DEF FedInv
  <2>7. CASE ~(TrialAllowed(c) /\ ~BudgetSpent(b))
    <3> PICK s : s = [[r EXCEPT !.pc = "next"] EXCEPT !.at = r.at + 1]
      OBVIOUS
    <3>1. s \in FedStates /\ s.pc = "next" /\ Gathered(s)
      BY <1>2, <1>3, <1>6, GathersOn
    <3>2. s = [r EXCEPT !.at = b + 1]
      <4>1. PICK m : m = [r EXCEPT !.at = b + 1]
        OBVIOUS
      <4>2. m \in FedStates /\ m.pc = r.pc /\ m.at = b + 1 /\ m.offers = r.offers /\ m.sources = r.sources
        BY <1>3, <4>1 DEF FedStates
      <4>3. s.at = b + 1 /\ s.offers = r.offers /\ s.sources = r.sources
        BY <1>3 DEF FedStates
      <4> QED
        BY <1>2, <3>1, <4>1, <4>2, <4>3 DEF FedStates
    <3>3. fed' = [fs EXCEPT ![q].at = b + 1]
      BY <1>1, <1>2, <1>3, <1>6, <2>1, <2>7 DEF ConsiderBackend
    <3>4. fed' = [fs EXCEPT ![q] = s]
      BY <1>2, <3>2, <3>3
    <3>5. fed' \in [Federations -> FedStates] /\ \A p \in Federations : fed'[p] = IF p = q THEN s ELSE fs[p]
      BY <3>1, <3>4
    <3>6. \A e \in Backends : CallersOf(e)' = CallersOf(e)
      BY <1>1, <1>2, <3>1, <3>5 DEF CallersOf
    <3>7. orphaned' = IF TrialAllowed(c) /\ d.trial THEN orphaned \cup {b} ELSE orphaned
      BY <1>1, <1>2, <1>3, <1>6, <2>1, <2>2, <2>7 DEF ConsiderBackend
    <3>8. FedShape' /\ SpentIsAsked'
      BY <1>4, <1>6, <2>5, <3>5, <3>7 DEF FedInv, FedShape, SpentIsAsked
    <3>9. \A p \in Federations : Gathered(fed'[p])
      BY <1>1, <3>1, <3>5
    <3>10. TrialIsOut'
      <4> SUFFICES ASSUME NEW e \in Backends \ orphaned', breaker'[e].trial PROVE CallersOf(e) # {}
        BY <3>6 DEF TrialIsOut
      <4>1. e \notin orphaned
        BY <3>7
      <4>2. breaker[e].trial
        BY <2>1, <2>2, <2>3, <2>5, <3>7
      <4> QED
        BY <4>1, <4>2 DEF FedInv, TrialIsOut
    <3>11. OverrunBounded'
      BY <1>4, <3>6 DEF FedInv, OverrunBounded
    <3> QED
      BY <3>8, <3>9, <3>10, <3>11 DEF FedInv
  <2> QED
    BY <2>6, <2>7
<1> QED
  BY <1>5, <1>6

(* A request leaves the backend it was with, and the others do not move:   *)
(* who is left with whom.                                                  *)
LEMMA CallerGone ==
    ASSUME fed \in [Federations -> FedStates], NEW q \in Federations, fed[q].pc = "fetching",
           NEW b, b = fed[q].at,
           NEW s \in FedStates, s.pc = "next", fed' = [fed EXCEPT ![q] = s]
    PROVE  /\ fed' \in [Federations -> FedStates]
           /\ \A p \in Federations : fed'[p] = IF p = q THEN s ELSE fed[p]
           /\ \A e \in Backends \ {b} : CallersOf(e)' = CallersOf(e)
           /\ q \in CallersOf(b) /\ CallersOf(b)' = CallersOf(b) \ {q}
<1>1. fed' \in [Federations -> FedStates] /\ \A p \in Federations : fed'[p] = IF p = q THEN s ELSE fed[p]
  OBVIOUS
<1> QED
  BY <1>1 DEF CallersOf

LEMMA FedAnswered ==
    ASSUME FedInv, NEW q \in Federations, NEW offer \in SUBSET Upstreams, BackendAnswers(q, offer)
    PROVE  FedInv'
<1>1. PICK fs \in [Federations -> FedStates] : fs = fed /\ \A p \in Federations : Gathered(fs[p])
  BY DEF FedInv, FedShape
<1>2. PICK r \in FedStates : r = fs[q] /\ r.pc = "fetching" /\ Gathered(r)
  BY <1>1 DEF BackendAnswers
<1>3. PICK b \in Backends : b = r.at
  BY <1>2 DEF Gathered
<1>19. PICK s :
        s = [[[r EXCEPT !.pc = "next"] EXCEPT !.at = r.at + 1] EXCEPT
               !.offers[r.at] = offer,
               !.sources[r.at] = offer \ UNION {r.sources[c] : c \in Backends}]
  OBVIOUS
<1>4. s \in FedStates /\ s.pc = "next" /\ Gathered(s)
  BY <1>2, <1>19, GathersMore
<1>5. fed' = [fs EXCEPT ![q] = s]
  <2>1. PassOn(q) = [[r EXCEPT !.pc = "next"] EXCEPT !.at = r.at + 1]
    BY <1>1, <1>2 DEF PassOn, FedStates
  <2>2. fed' = [fs EXCEPT ![q] = [PassOn(q) EXCEPT
                   !.offers[r.at] = offer,
                   !.sources[r.at] = offer \ UNION {r.sources[c] : c \in Backends}]]
    BY <1>1, <1>2 DEF BackendAnswers
  <2> QED
    BY <1>19, <2>1, <2>2
<1>6. /\ fed' \in [Federations -> FedStates]
      /\ \A p \in Federations : fed'[p] = IF p = q THEN s ELSE fs[p]
      /\ \A e \in Backends \ {b} : CallersOf(e)' = CallersOf(e)
      /\ q \in CallersOf(b) /\ CallersOf(b)' = CallersOf(b) \ {q}
  <2>1. /\ fed \in [Federations -> FedStates] /\ fed[q].pc = "fetching" /\ b = fed[q].at
        /\ fed' = [fed EXCEPT ![q] = s]
    BY <1>1, <1>2, <1>3, <1>4, <1>5
  <2>2. s \in FedStates /\ s.pc = "next"
    BY <1>4
  <2> QED
    BY <1>1, <2>1, <2>2, CallerGone
<1>7. PICK cs \in [Backends -> SoundBreakers], ns \in [Backends -> Nat], ss \in [Backends -> 0..BackendBudget],
           xs \in [Backends -> 0..FaultLimit] :
        cs = breaker /\ ns = asked /\ ss = spent /\ xs = faults
  BY DEF FedInv, FedShape
<1>8. PICK d \in SoundBreakers : d = AfterSuccess(cs[b]) /\ ~d.trial
  BY BreakerTurns
<1>9. /\ breaker' = [cs EXCEPT ![b] = d] /\ asked' = [ns EXCEPT ![b] = ns[b] + 1]
      /\ spent' = [ss EXCEPT ![b] = IF ss[b] < BackendBudget THEN ss[b] + 1 ELSE ss[b]]
      /\ faults' = [xs EXCEPT ![b] = 0] /\ orphaned' = orphaned
  BY <1>1, <1>2, <1>3, <1>7, <1>8 DEF BackendAnswers
<1>10. BackendBudget \in Nat \ {0} /\ FaultLimit \in Nat
  BY FederationAssumption, BreakerAssumption
<1>11. /\ breaker' \in [Backends -> SoundBreakers] /\ asked' \in [Backends -> Nat]
       /\ \A e \in Backends : breaker'[e] = IF e = b THEN d ELSE cs[e]
       /\ \A e \in Backends : asked'[e] = IF e = b THEN ns[b] + 1 ELSE ns[e]
  BY <1>9
<1>12. /\ spent' \in [Backends -> 0..BackendBudget]
       /\ \A e \in Backends : spent'[e] = IF e = b THEN (IF ss[b] < BackendBudget THEN ss[b] + 1 ELSE ss[b])
                                          ELSE ss[e]
  BY <1>9, <1>10
<1>13. faults' \in [Backends -> 0..FaultLimit]
  BY <1>9, <1>10
<1>14. FedShape'
  BY <1>6, <1>9, <1>11, <1>12, <1>13 DEF FedInv, FedShape
<1>15. SpentIsAsked'
  <2>1. \A e \in Backends : ss[e] = IF ns[e] < BackendBudget THEN ns[e] ELSE BackendBudget
    BY <1>7 DEF FedInv, SpentIsAsked
  <2> QED
    BY <1>10, <1>11, <1>12, <2>1 DEF SpentIsAsked
<1>16. \A p \in Federations : Gathered(fed'[p])
  BY <1>1, <1>4, <1>6
<1>17. TrialIsOut'
  <2> SUFFICES ASSUME NEW e \in Backends \ orphaned', breaker'[e].trial PROVE CallersOf(e)' # {}
    BY DEF TrialIsOut
  <2>1. e # b /\ breaker[e].trial /\ e \notin orphaned
    BY <1>7, <1>8, <1>9, <1>11
  <2> QED
    BY <1>6, <2>1 DEF FedInv, TrialIsOut
<1>18. OverrunBounded'
  <2>1. CallersOf(b) \subseteq Federations /\ IsFiniteSet(Federations)
    BY FederationAssumption DEF CallersOf
  <2>2. Cardinality(CallersOf(b)) \in Nat /\ Cardinality(Federations) \in Nat /\ IsFiniteSet(CallersOf(b))
    BY <2>1, FS_Subset, FS_CardinalityType
  <2>3. Cardinality(CallersOf(b)') = Cardinality(CallersOf(b)) - 1 /\ Cardinality(CallersOf(b)) # 0
    <3>1. PICK S : S = CallersOf(b) /\ IsFiniteSet(S) /\ q \in S
      BY <1>6, <2>2
    <3>2. Cardinality(S \ {q}) = Cardinality(S) - 1 /\ Cardinality(S) # 0
      BY <3>1, FS_RemoveElement, FS_EmptySet
    <3> QED
      BY <1>6, <3>1, <3>2
  <2>4. asked'[b] + Cardinality(CallersOf(b)') < BackendBudget + Cardinality(Federations)
    BY <1>7, <1>10, <1>11, <2>2, <2>3 DEF FedInv, OverrunBounded
  <2> SUFFICES ASSUME NEW e \in Backends
               PROVE  \/ asked'[e] + Cardinality(CallersOf(e)') < BackendBudget + Cardinality(Federations)
                      \/ asked'[e] + Cardinality(CallersOf(e)') = 0
    BY DEF OverrunBounded
  <2>5. CASE e # b
    <3>1. asked'[e] = asked[e] /\ CallersOf(e)' = CallersOf(e)
      BY <1>6, <1>7, <1>11, <2>5
    <3> QED
      BY <3>1 DEF FedInv, OverrunBounded
  <2> QED
    BY <2>4, <2>5
<1> QED
  BY <1>14, <1>15, <1>16, <1>17, <1>18 DEF FedInv

(* The request goes on without an answer: broken, or refused.              *)
LEMMA FedUnanswered ==
    ASSUME FedInv, NEW q \in Federations, fed[q].pc = "fetching", fed' = [fed EXCEPT ![q] = PassOn(q)],
           NEW b, b = fed[q].at, UNCHANGED <<spent, asked>>,
           faults' = faults \/ CountFault(b),
           \/ breaker' = [breaker EXCEPT ![b] = AfterFailure(@)] /\ orphaned' = orphaned
           \/ /\ breaker' = breaker
              /\ orphaned' = IF breaker[b].trial THEN orphaned \cup {b} ELSE orphaned
    PROVE  FedInv'
<1>1. PICK fs \in [Federations -> FedStates] : fs = fed /\ \A p \in Federations : Gathered(fs[p])
  BY DEF FedInv, FedShape
<1>2. PICK r \in FedStates : r = fs[q] /\ r.pc = "fetching" /\ Gathered(r)
  BY <1>1
<1>3. b \in Backends /\ b = r.at
  BY <1>1, <1>2 DEF Gathered
<1>19. PICK s : s = [[r EXCEPT !.pc = "next"] EXCEPT !.at = r.at + 1]
  OBVIOUS
<1>4. s \in FedStates /\ s.pc = "next" /\ Gathered(s)
  BY <1>2, <1>3, <1>19, GathersOn
<1>5. s = PassOn(q)
  BY <1>1, <1>2, <1>4, <1>19 DEF PassOn, FedStates
<1>6. fed' = [fs EXCEPT ![q] = s]
  BY <1>1, <1>5
<1>7. /\ fed' \in [Federations -> FedStates]
      /\ \A p \in Federations : fed'[p] = IF p = q THEN s ELSE fs[p]
      /\ \A e \in Backends \ {b} : CallersOf(e)' = CallersOf(e)
      /\ q \in CallersOf(b) /\ CallersOf(b)' = CallersOf(b) \ {q}
  <2>1. /\ fed \in [Federations -> FedStates] /\ fed[q].pc = "fetching" /\ b = fed[q].at
        /\ fed' = [fed EXCEPT ![q] = s]
    BY <1>1, <1>2, <1>3, <1>4, <1>6
  <2>2. s \in FedStates /\ s.pc = "next"
    BY <1>4
  <2>3. /\ fed' \in [Federations -> FedStates]
        /\ \A p \in Federations : fed'[p] = IF p = q THEN s ELSE fed[p]
    BY <2>1, <2>2, CallerGone
  <2>4. \A e \in Backends \ {b} : CallersOf(e)' = CallersOf(e)
    BY <2>1, <2>2, CallerGone
  <2>5. q \in CallersOf(b) /\ CallersOf(b)' = CallersOf(b) \ {q}
    BY <2>1, <2>2, CallerGone
  <2> QED
    BY <1>1, <2>3, <2>4, <2>5
<1>8. PICK cs \in [Backends -> SoundBreakers], ns \in [Backends -> Nat], xs \in [Backends -> 0..FaultLimit] :
        cs = breaker /\ ns = asked /\ xs = faults
  BY DEF FedInv, FedShape
<1>9. faults' \in [Backends -> 0..FaultLimit]
  <2>1. CASE faults' = faults
    BY <1>8, <2>1
  <2>2. CASE CountFault(b)
    <3>1. PICK n : n = IF xs[b] < FaultLimit THEN xs[b] + 1 ELSE xs[b]
      OBVIOUS
    <3>2. xs[b] \in 0..FaultLimit /\ FaultLimit \in Nat
      BY <1>3, BreakerAssumption
    <3>3. n \in 0..FaultLimit
      BY <3>1, <3>2
    <3>4. faults' = [xs EXCEPT ![b] = n]
      BY <1>8, <2>2, <3>1 DEF CountFault
    <3> QED
      BY <3>3, <3>4
  <2> QED
    BY <2>1, <2>2
<1>10. /\ breaker' \in [Backends -> SoundBreakers] /\ orphaned' \subseteq Backends
       /\ \A e \in Backends \ {b} : breaker'[e] = cs[e]
       /\ b \notin orphaned' => ~breaker'[b].trial
       /\ orphaned \subseteq orphaned'
  <2>1. CASE breaker' = [breaker EXCEPT ![b] = AfterFailure(@)] /\ orphaned' = orphaned
    <3>1. PICK d \in SoundBreakers : d = AfterFailure(cs[b]) /\ ~d.trial
      BY <1>3, BreakerTurns
    <3>2. breaker' = [cs EXCEPT ![b] = d]
      BY <1>8, <2>1, <3>1
    <3> QED
      BY <1>3, <2>1, <3>1, <3>2 DEF FedInv, FedShape
  <2>2. CASE /\ breaker' = breaker
             /\ orphaned' = IF breaker[b].trial THEN orphaned \cup {b} ELSE orphaned
    BY <1>3, <1>8, <2>2 DEF FedInv, FedShape
  <2> QED
    BY <2>1, <2>2
<1>11. FedShape' /\ SpentIsAsked'
  BY <1>7, <1>9, <1>10 DEF FedInv, FedShape, SpentIsAsked
<1>12. \A p \in Federations : Gathered(fed'[p])
  BY <1>1, <1>4, <1>7
<1>13. TrialIsOut'
  BY <1>7, <1>8, <1>10 DEF FedInv, TrialIsOut
<1>14. OverrunBounded'
  <2>1. CallersOf(b) \subseteq Federations /\ IsFiniteSet(Federations) /\ CallersOf(b)' \subseteq CallersOf(b)
    BY <1>7, FederationAssumption DEF CallersOf
  <2>2. /\ Cardinality(CallersOf(b)) \in Nat /\ Cardinality(Federations) \in Nat
        /\ Cardinality(CallersOf(b)') \in Nat /\ Cardinality(CallersOf(b)') <= Cardinality(CallersOf(b))
    BY <2>1, CallersCount
  <2>3. \/ asked'[b] + Cardinality(CallersOf(b)') < BackendBudget + Cardinality(Federations)
        \/ asked'[b] + Cardinality(CallersOf(b)') = 0
    BY <1>3, <1>8, <2>2, FederationAssumption DEF FedInv, OverrunBounded
  <2> QED
    BY <1>7, <2>3 DEF FedInv, OverrunBounded
<1> QED
  BY <1>11, <1>12, <1>13, <1>14 DEF FedInv

LEMMA FedStepKeeps == FedInv /\ [FedNext]_fedVars => FedInv'
<1> SUFFICES ASSUME FedInv, [FedNext]_fedVars PROVE FedInv'
  OBVIOUS
<1>1. CASE UNCHANGED fedVars
  BY <1>1 DEF fedVars, FedInv, FedShape, SpentIsAsked, TrialIsOut, OverrunBounded, CallersOf
<1>2. ASSUME NEW q \in Federations, BackendBreaks(q) PROVE FedInv'
  BY <1>2, FedUnanswered DEF BackendBreaks
<1>3. ASSUME NEW q \in Federations, NEW blameless \in BOOLEAN, TakenForPolicy(q, blameless) PROVE FedInv'
  BY <1>3, FedUnanswered DEF TakenForPolicy
<1>4. ASSUME NEW b \in Backends, BackendCools(b) PROVE FedInv'
  <2>1. PICK cs \in [Backends -> SoundBreakers] : cs = breaker
    BY DEF FedInv, FedShape
  <2>2. PICK d \in SoundBreakers : d = [cs[b] EXCEPT !.cooled = TRUE] /\ d.trial = cs[b].trial
    BY <1>4, <2>1, BreakerTurns DEF BackendCools
  <2>3. breaker' = [cs EXCEPT ![b] = d] /\ UNCHANGED <<spent, fed, asked, faults, orphaned>>
    BY <1>4, <2>1, <2>2 DEF BackendCools
  <2>4. breaker' \in [Backends -> SoundBreakers] /\ \A e \in Backends : breaker'[e].trial = cs[e].trial
    BY <2>2, <2>3
  <2> QED
    BY <2>1, <2>3, <2>4 DEF FedInv, FedShape, SpentIsAsked, TrialIsOut, OverrunBounded, CallersOf
<1>5. CASE BudgetDay
  <2>1. /\ spent' = [b \in Backends |-> 0] /\ asked' = [b \in Backends |-> 0]
        /\ UNCHANGED <<breaker, fed, faults, orphaned>>
    BY <1>5 DEF BudgetDay
  <2>2. FedShape' /\ SpentIsAsked' /\ TrialIsOut'
    BY <2>1, FederationAssumption DEF FedInv, FedShape, SpentIsAsked, TrialIsOut, CallersOf
  <2>3. ASSUME NEW b \in Backends
        PROVE  asked'[b] + Cardinality(CallersOf(b)') < BackendBudget + Cardinality(Federations)
    <3>1. CallersOf(b)' \subseteq Federations /\ asked'[b] = 0
      BY <2>1 DEF CallersOf
    <3>2. /\ Cardinality(CallersOf(b)') \in Nat /\ Cardinality(Federations) \in Nat
          /\ Cardinality(CallersOf(b)') <= Cardinality(Federations)
      BY <3>1, CallersCount, FederationAssumption
    <3> QED
      BY <3>1, <3>2, FederationAssumption
  <2> QED
    BY <2>1, <2>2, <2>3 DEF FedInv, OverrunBounded
<1> QED
  BY <1>1, <1>2, <1>3, <1>4, <1>5, FedBegins, FedConsiders, FedAnswered DEF FedNext

(* The invariant of the federation holds.                                  *)
LEMMA FederationsAreSound == FedSpec => []FedInv
<1>1. FedInit => FedInv
  <2> SUFFICES ASSUME FedInit PROVE FedInv
    OBVIOUS
  <2>1. NoFed \in FedStates /\ Gathered(NoFed) /\ NoFed.pc = "idle"
    BY FedStarts
  <2>2. NewBreaker \in SoundBreakers /\ ~NewBreaker.trial
    BY BreakerAssumption DEF NewBreaker, SoundBreakers, Breakers
  <2>3. FedShape /\ SpentIsAsked
    BY <2>1, <2>2, FederationAssumption, BreakerAssumption DEF FedInit, FedShape, SpentIsAsked
  <2>4. \A b \in Backends : CallersOf(b) = {}
    BY <2>1 DEF FedInit, CallersOf
  <2>5. TrialIsOut /\ OverrunBounded
    BY <2>2, <2>4, FS_EmptySet DEF FedInit, TrialIsOut, OverrunBounded
  <2> QED
    BY <2>1, <2>3, <2>5 DEF FedInit, FedInv
<1> QED
  BY <1>1, FedStepKeeps, PTL DEF FedSpec

(* Federation: a half-open trial is out only while a request can settle    *)
(* it, or was lost in one of the known ways; concurrent requests overrun a *)
(* backend's budget by less than their number; and each request lists      *)
(* every offered source once, under the first backend that offered it, for *)
(* any number of backends and requests (federation/service.ts).            *)
THEOREM FederationIsSound == FedSpec => []FederationSound
<1>1. FedInv => FederationSound
  BY DEF FedInv, FederationSound, FirstOfferWins, Gathered
<1> QED
  BY <1>1, FederationsAreSound, PTL
----------------------------------------------------------------------------
(* The subtitles.                                                          *)

(* A finite set on which a relation is a strict total order has a first.   *)
LEMMA FirstOfAll ==
    ASSUME NEW S, IsFiniteSet(S), S # {}, NEW R,
           \A x \in S : <<x, x>> \notin R,
           \A x, y \in S : x # y => <<x, y>> \in R \/ <<y, x>> \in R,
           \A x, y, z \in S : <<x, y>> \in R /\ <<y, z>> \in R => <<x, z>> \in R
    PROVE  \E x \in S : \A y \in S \ {x} : <<x, y>> \in R
<1> DEFINE Before(x) == {y \in S : <<y, x>> \in R}
           Sets == {Before(x) : x \in S}
<1>1. PICK A \in Sets : \A B \in Sets : ~(<<B, A>> \in StrictSubsetOrdering(S))
  <2>1. \A x \in S : Before(x) \in SUBSET S /\ IsFiniteSet(Before(x))
    <3> SUFFICES ASSUME NEW x \in S PROVE Before(x) \in SUBSET S /\ IsFiniteSet(Before(x))
      OBVIOUS
    <3>1. Before(x) \in SUBSET S
      OBVIOUS
    <3> QED
      BY <3>1, FS_Subset
  <2>2. Sets \subseteq FiniteSubsetsOf(S)
    <3> SUFFICES ASSUME NEW B \in Sets PROVE B \in FiniteSubsetsOf(S)
      OBVIOUS
    <3>1. PICK x \in S : B = Before(x)
      OBVIOUS
    <3>2. B \in SUBSET S /\ IsFiniteSet(B)
      BY <2>1, <3>1
    <3> QED
      BY <3>2 DEF FiniteSubsetsOf
  <2>3. Sets # {}
    <3>1. PICK x \in S : TRUE
      OBVIOUS
    <3>2. Before(x) \in Sets
      OBVIOUS
    <3> QED
      BY <3>2
  <2> HIDE DEF Sets
  <2> QED
    BY <2>2, <2>3, FS_StrictSubsetOrderingWellFounded, WFMin
<1>2. PICK x \in S : A = Before(x)
  OBVIOUS
<1>3. ASSUME NEW y \in S \ {x}, <<x, y>> \notin R PROVE FALSE
  <2>1. <<y, x>> \in R
    BY <1>3
  <2>2. /\ Before(y) \in SUBSET Before(x) /\ y \in Before(x) /\ y \notin Before(y)
        /\ Before(x) \in SUBSET S
    BY <2>1
  <2>3. PICK B : B = Before(y)
    OBVIOUS
  <2>4. B \in Sets /\ B \in SUBSET A /\ B # A /\ A \in SUBSET S
    BY <1>2, <2>2, <2>3
  <2>5. <<B, A>> \in StrictSubsetOrdering(S)
    BY <2>4 DEF StrictSubsetOrdering
  <2> QED
    BY <1>1, <2>4, <2>5
<1> QED
  BY <1>3

(* A rank within a finite, strictly and totally ordered set D: of those    *)
(* with less than `most` before them there are `most`, if any is left out. *)
LEMMA RankedAreMost ==
    ASSUME NEW D, IsFiniteSet(D), NEW R, NEW most \in Nat \ {0},
           \A x \in D : <<x, x>> \notin R,
           \A x, y \in D : x # y => <<x, y>> \in R \/ <<y, x>> \in R,
           \A x, y, z \in D : <<x, y>> \in R /\ <<y, z>> \in R => <<x, z>> \in R,
           NEW top \in SUBSET D,
           \A x \in D : x \in top <=> Cardinality({y \in D : <<y, x>> \in R}) < most,
           NEW out \in D, out \notin top
    PROVE  Cardinality(top) = most /\ \A x \in top : <<x, out>> \in R
<1> DEFINE Before(x) == {y \in D : <<y, x>> \in R}
<1>1. \A x \in D : Before(x) \in SUBSET D /\ IsFiniteSet(Before(x)) /\ Cardinality(Before(x)) \in Nat
  <2> SUFFICES ASSUME NEW x \in D
               PROVE  Before(x) \in SUBSET D /\ IsFiniteSet(Before(x)) /\ Cardinality(Before(x)) \in Nat
    OBVIOUS
  <2>1. Before(x) \in SUBSET D
    OBVIOUS
  <2> QED
    BY <2>1, FS_Subset, FS_CardinalityType
<1>2. \A x \in D : x \in top <=> Cardinality(Before(x)) < most
  OBVIOUS
<1>3. top \in SUBSET D /\ IsFiniteSet(top) /\ Cardinality(top) \in Nat
  <2>1. top \in SUBSET D
    OBVIOUS
  <2> QED
    BY <2>1, FS_Subset, FS_CardinalityType
<1>4. ASSUME NEW x \in top, <<x, out>> \notin R PROVE FALSE
  <2>1. <<out, x>> \in R /\ x \in D
    BY <1>3, <1>4
  <2>2. Before(out) \in SUBSET Before(x)
    BY <2>1
  <2>3. PICK A, B : A = Before(x) /\ B = Before(out)
    OBVIOUS
  <2>4. Cardinality(B) <= Cardinality(A)
    BY <1>1, <2>1, <2>2, <2>3, FS_Subset
  <2>5. Cardinality(A) < most /\ ~(Cardinality(B) < most) /\ Cardinality(A) \in Nat /\ Cardinality(B) \in Nat
    BY <1>1, <1>2, <2>1, <2>3
  <2> QED
    BY <2>4, <2>5
<1>5. ASSUME Cardinality(top) < most PROVE FALSE
  <2>1. PICK S : S = D \ top
    OBVIOUS
  <2>2. S \in SUBSET D /\ S # {} /\ IsFiniteSet(S)
    BY <2>1, FS_Subset
  <2>3. PICK x \in S : \A y \in S \ {x} : <<x, y>> \in R
    <3>1. /\ \A y \in S : <<y, y>> \notin R
          /\ \A y, z \in S : y # z => <<y, z>> \in R \/ <<z, y>> \in R
          /\ \A y, z, w \in S : <<y, z>> \in R /\ <<z, w>> \in R => <<y, w>> \in R
      BY <2>2
    <3> QED
      BY <2>2, <3>1, FirstOfAll
  <2>4. Before(x) \in SUBSET top
    <3> SUFFICES ASSUME NEW y \in D, <<y, x>> \in R, y \notin top PROVE FALSE
      OBVIOUS
    <3>1. y \in S /\ x \in D /\ y # x
      BY <2>1, <2>2, <2>3
    <3>2. <<x, y>> \in R
      BY <2>3, <3>1
    <3> QED
      BY <3>1, <3>2
  <2>5. PICK B : B = Before(x)
    OBVIOUS
  <2>6. Cardinality(B) <= Cardinality(top) /\ Cardinality(B) \in Nat
    BY <1>1, <1>3, <2>2, <2>4, <2>5, FS_Subset
  <2> QED
    BY <1>2, <1>3, <1>5, <2>1, <2>2, <2>5, <2>6
<1>6. ASSUME Cardinality(top) > most PROVE FALSE
  <2>1. PICK T : T = top
    OBVIOUS
  <2>2. T # {} /\ T \in SUBSET D /\ IsFiniteSet(T)
    <3>1. Cardinality(T) # 0 /\ IsFiniteSet(T)
      BY <1>3, <1>6, <2>1
    <3> QED
      BY <1>3, <2>1, <3>1, FS_EmptySet
  <2>3. PICK Q : \A y, z \in D : <<y, z>> \in Q <=> <<z, y>> \in R
    <3> DEFINE Q == {p \in D \X D : <<p[2], p[1]>> \in R}
    <3>1. \A y, z \in D : <<y, z>> \in Q <=> <<z, y>> \in R
      OBVIOUS
    <3> QED
      BY <3>1
  <2>4. PICK x \in T : \A y \in T \ {x} : <<x, y>> \in Q
    <3>1. \A y \in T : <<y, y>> \notin Q
      BY <2>2, <2>3
    <3>2. \A y, z \in T : y # z => <<y, z>> \in Q \/ <<z, y>> \in Q
      BY <2>2, <2>3
    <3>3. \A y, z, w \in T : <<y, z>> \in Q /\ <<z, w>> \in Q => <<y, w>> \in Q
      <4> SUFFICES ASSUME NEW y \in T, NEW z \in T, NEW w \in T, <<y, z>> \in Q, <<z, w>> \in Q
                   PROVE  <<y, w>> \in Q
        OBVIOUS
      <4>1. <<z, y>> \in R /\ <<w, z>> \in R /\ y \in D /\ z \in D /\ w \in D
        BY <2>2, <2>3
      <4>2. <<w, y>> \in R
        BY <4>1
      <4> QED
        BY <2>3, <4>1, <4>2
    <3>4. T # {} /\ IsFiniteSet(T)
      BY <2>2
    <3> QED
      BY <3>1, <3>2, <3>3, <3>4, FirstOfAll
  <2>5. top \ {x} \in SUBSET Before(x) /\ x \in D
    BY <1>3, <2>1, <2>3, <2>4
  <2>6. PICK B : B = Before(x)
    OBVIOUS
  <2>7. IsFiniteSet(B) /\ Cardinality(B) \in Nat /\ Cardinality(B) < most
    BY <1>1, <1>2, <2>1, <2>4, <2>5, <2>6
  <2>8. Cardinality(top \ {x}) = Cardinality(top) - 1
    BY <1>3, <2>1, <2>4, FS_RemoveElement
  <2>9. Cardinality(top \ {x}) <= Cardinality(B)
    BY <2>5, <2>6, <2>7, FS_Subset
  <2> QED
    BY <1>3, <1>6, <2>7, <2>8, <2>9
<1> QED
  BY <1>3, <1>4, <1>5, <1>6

(* The list is the best of what was collected, whatever its order.         *)
LEMMA RankedIsBest ==
    ASSUME NEW c \in Seq(Subtitled), NEW i \in Accessible(c)
    PROVE  \/ \E j \in Ranked(c) : c[j].url = c[i].url /\ c[j].score >= c[i].score
           \/ /\ Cardinality(Ranked(c)) = ListedMost
              /\ \A j \in Ranked(c) : c[j].score >= c[i].score
<1>1. Accessible(c) \in SUBSET (1..Len(c)) /\ DOMAIN c = 1..Len(c) /\ Len(c) \in Nat
  BY LenProperties DEF Accessible, InLanguage
<1>2. \A j \in 1..Len(c) : c[j].score \in Int
  BY <1>1, ElementOfSeq, SubtitlesAssumption
<1>3. PICK R : R = {p \in (1..Len(c)) \X (1..Len(c)) : Outranks(c, p[1], p[2])}
  OBVIOUS
<1>4. \A x, y \in 1..Len(c) :
        <<x, y>> \in R <=> c[x].score > c[y].score \/ (c[x].score = c[y].score /\ x < y)
  BY <1>3 DEF Outranks
<1>5. \A x \in 1..Len(c) : <<x, x>> \notin R
  BY <1>2, <1>4
<1>6. \A x, y \in 1..Len(c) : x # y => <<x, y>> \in R \/ <<y, x>> \in R
  BY <1>2, <1>4
<1>7. ASSUME NEW x \in 1..Len(c), NEW y \in 1..Len(c), NEW z \in 1..Len(c),
             <<x, y>> \in R, <<y, z>> \in R
      PROVE  <<x, z>> \in R
  <2>1. PICK p \in Int, q \in Int, r \in Int : p = c[x].score /\ q = c[y].score /\ r = c[z].score
    BY <1>2
  <2>2. (p > q \/ (p = q /\ x < y)) /\ (q > r \/ (q = r /\ y < z))
    BY <1>4, <1>7, <2>1
  <2>3. p > r \/ (p = r /\ x < z)
    BY <1>1, <2>2
  <2> QED
    BY <1>4, <2>1, <2>3
<1>8. IsFiniteSet(1..Len(c))
  BY <1>1, FS_Interval
<1>9. PICK j \in Distinct(c) : c[j].url = c[i].url /\ (j = i \/ <<j, i>> \in R)
  <2>1. PICK S : S = {k \in Accessible(c) : c[k].url = c[i].url}
    OBVIOUS
  <2>2. i \in S /\ S \in SUBSET (1..Len(c)) /\ S \in SUBSET Accessible(c) /\ IsFiniteSet(S)
    <3>1. i \in S /\ S \in SUBSET (1..Len(c)) /\ S \in SUBSET Accessible(c)
      BY <1>1, <2>1
    <3> QED
      BY <1>8, <3>1, FS_Subset
  <2>3. PICK k \in S : \A y \in S \ {k} : <<k, y>> \in R
    <3>1. /\ \A y \in S : <<y, y>> \notin R
          /\ \A y, z \in S : y # z => <<y, z>> \in R \/ <<z, y>> \in R
          /\ \A y, z, w \in S : <<y, z>> \in R /\ <<z, w>> \in R => <<y, w>> \in R
      BY <1>5, <1>6, <1>7, <2>2
    <3> QED
      BY <2>2, <3>1, FirstOfAll
  <2>4. k \in Distinct(c)
    <3> SUFFICES ASSUME NEW y \in Accessible(c) \ {k}, c[y].url = c[k].url PROVE Outranks(c, k, y)
      BY <2>2 DEF Distinct
    <3>1. y \in S \ {k}
      BY <2>1
    <3> QED
      BY <1>3, <2>3, <3>1
  <2> QED
    BY <2>1, <2>2, <2>3, <2>4
<1>10. j \in 1..Len(c) /\ i \in 1..Len(c) /\ c[j].score >= c[i].score
  BY <1>1, <1>2, <1>4, <1>9 DEF Distinct
<1>11. CASE j \in Ranked(c)
  BY <1>9, <1>10, <1>11
<1>12. CASE j \notin Ranked(c)
  <2>1. PICK D, top : D = Distinct(c) /\ top = Ranked(c)
    OBVIOUS
  <2>2. D \in SUBSET (1..Len(c)) /\ IsFiniteSet(D)
    <3>1. D \in SUBSET (1..Len(c))
      BY <1>1, <2>1 DEF Distinct
    <3> QED
      BY <1>8, <3>1, FS_Subset
  <2>3. /\ top \in SUBSET D
        /\ \A x \in D : x \in top <=> Cardinality({y \in D : <<y, x>> \in R}) < ListedMost
    <3>1. \A x \in D : {y \in D : <<y, x>> \in R} = {y \in D : Outranks(c, y, x)}
      BY <1>3, <2>2
    <3> QED
      BY <2>1, <3>1 DEF Ranked
  <2>4. /\ \A x \in D : <<x, x>> \notin R
        /\ \A x, y \in D : x # y => <<x, y>> \in R \/ <<y, x>> \in R
        /\ \A x, y, z \in D : <<x, y>> \in R /\ <<y, z>> \in R => <<x, z>> \in R
    BY <1>5, <1>6, <1>7, <2>2
  <2>5. ListedMost \in Nat \ {0} /\ j \in D /\ j \notin top
    BY <1>9, <1>12, <2>1, SubtitlesAssumption
  <2>6. Cardinality(top) = ListedMost /\ \A x \in top : <<x, j>> \in R
    BY <2>2, <2>3, <2>4, <2>5, RankedAreMost
  <2>7. ASSUME NEW x \in top PROVE c[x].score >= c[i].score
    <3>1. x \in 1..Len(c) /\ <<x, j>> \in R
      BY <2>2, <2>3, <2>6
    <3> QED
      BY <1>2, <1>4, <1>10, <3>1
  <2> QED
    BY <2>1, <2>6, <2>7
<1> QED
  BY <1>11, <1>12

AggStates ==
    [pc : {"idle", "batch", "done"}, from : Nat,
     task : [SubAddons -> {"none", "gate", "fetching", "done"}],
     gone : BOOLEAN, collected : Seq(Subtitled), fallback : BOOLEAN]

(* Tasks are under way within a batch only, and the fallback provider      *)
(* speaks at the end, in the place of everybody else.                      *)
AggSound(r) ==
    /\ r.pc # "batch" => Asking(r) = {}
    /\ r.fallback => r.pc = "done" /\ r.collected = FallbackBrings

SubInv ==
    /\ subBreaker \in [SubAddons -> SoundBreakers]
    /\ agg \in [Aggregations -> AggStates]
    /\ \A q \in Aggregations : AggSound(agg[q])
    /\ lostTrials \subseteq SubAddons /\ started \in 0..MaxAggregations
    /\ SubTrialIsOut

(* One request becomes s, and the circuits and what is lost change so that *)
(* a trial that is out now was taken by s, or was out and is not one that  *)
(* the request gave up.                                                    *)
LEMMA AggTurns ==
    ASSUME SubInv, NEW q \in Aggregations, NEW s \in AggStates, AggSound(s),
           agg' = [agg EXCEPT ![q] = s],
           subBreaker' \in [SubAddons -> SoundBreakers],
           lostTrials \subseteq lostTrials', lostTrials' \subseteq SubAddons,
           started' \in 0..MaxAggregations,
           \A a \in SubAddons \ lostTrials' : subBreaker'[a].trial =>
              a \in Asking(s) \/ (subBreaker[a].trial /\ a \notin Asking(agg[q]))
    PROVE  SubInv'
<1>1. /\ agg' \in [Aggregations -> AggStates]
      /\ \A p \in Aggregations : agg'[p] = IF p = q THEN s ELSE agg[p]
  BY DEF SubInv
<1>2. \A p \in Aggregations : AggSound(agg'[p])
  BY <1>1 DEF SubInv
<1>3. SubTrialIsOut'
  <2> SUFFICES ASSUME NEW a \in SubAddons \ lostTrials', subBreaker'[a].trial
               PROVE  \E p \in Aggregations : a \in Asking(agg'[p])
    BY DEF SubTrialIsOut, Asking
  <2>1. CASE a \in Asking(s)
    BY <1>1, <2>1
  <2>2. CASE subBreaker[a].trial /\ a \notin Asking(agg[q])
    <3>1. PICK p \in Aggregations : a \in Asking(agg[p])
      BY <2>2 DEF SubInv, SubTrialIsOut
    <3>2. agg'[p] = agg[p]
      BY <1>1, <2>2, <3>1
    <3> QED
      BY <3>1, <3>2
  <2> QED
    BY <2>1, <2>2
<1> QED
  BY <1>1, <1>2, <1>3 DEF SubInv

(* The start of a request.                                                 *)
LEMMA AggStarts ==
    /\ NoAgg \in AggStates /\ NoAgg.pc = "idle" /\ Asking(NoAgg) = {} /\ ~NoAgg.fallback
    /\ [NoAgg EXCEPT !.pc = "batch"] \in AggStates /\ [NoAgg EXCEPT !.pc = "batch"].pc = "batch"
    /\ ~[NoAgg EXCEPT !.pc = "batch"].fallback
<1>1. PICK f : f = [a \in SubAddons |-> "none"]
  OBVIOUS
<1>2. f \in [SubAddons -> {"none", "gate", "fetching", "done"}] /\ \A a \in SubAddons : f[a] = "none"
  BY <1>1
<1>3. NoAgg = [pc |-> "idle", from |-> 1, task |-> f, gone |-> FALSE, collected |-> <<>>, fallback |-> FALSE]
  BY <1>1 DEF NoAgg
<1>4. <<>> \in Seq(Subtitled)
  BY EmptySeq
<1>5. NoAgg \in AggStates /\ NoAgg.pc = "idle" /\ NoAgg.task = f /\ NoAgg.fallback = FALSE
  BY <1>2, <1>3, <1>4 DEF AggStates
<1>6. PICK r : r = [NoAgg EXCEPT !.pc = "batch"]
  OBVIOUS
<1>7. r \in AggStates /\ r.pc = "batch" /\ r.fallback = FALSE
  BY <1>5, <1>6 DEF AggStates
<1> QED
  BY <1>2, <1>5, <1>6, <1>7 DEF Asking

LEMMA SubStarts ==
    ASSUME SubInv, NEW q \in Aggregations, StartAggregation(q)
    PROVE  SubInv'
<1>1. PICK s : s = [NoAgg EXCEPT !.pc = "batch"]
  OBVIOUS
<1>2. s \in AggStates /\ AggSound(s)
  BY <1>1, AggStarts DEF AggSound
<1>3. agg[q].pc # "batch" /\ Asking(agg[q]) = {}
  BY DEF StartAggregation, SubInv, AggSound
<1>4. agg' = [agg EXCEPT ![q] = s] /\ UNCHANGED <<subBreaker, lostTrials>>
  BY <1>1 DEF StartAggregation
<1>5. started' \in 0..MaxAggregations
  BY SubtitlesAssumption DEF StartAggregation, SubInv
<1>6. subBreaker' \in [SubAddons -> SoundBreakers] /\ lostTrials' \subseteq SubAddons
  BY <1>4 DEF SubInv
<1>7. \A a \in SubAddons \ lostTrials' : subBreaker'[a].trial => subBreaker[a].trial /\ a \notin Asking(agg[q])
  BY <1>3, <1>4
<1> QED
  BY <1>2, <1>4, <1>5, <1>6, <1>7, AggTurns

(* A task of the request moves on, and perhaps something has come.         *)
LEMMA TaskMoves ==
    ASSUME NEW r \in AggStates, AggSound(r), NEW a \in SubAddons, r.task[a] \in {"gate", "fetching"},
           NEW to \in {"fetching", "done"}, NEW s, s = [r EXCEPT !.task = [r.task EXCEPT ![a] = to]]
    PROVE  /\ s \in AggStates /\ AggSound(s) /\ r.pc = "batch" /\ s.pc = "batch" /\ ~s.fallback
           /\ s.collected = r.collected
           /\ \A b \in SubAddons \ {a} : b \in Asking(s) <=> b \in Asking(r)
           /\ to = "fetching" => a \in Asking(s)
<1>1. PICK f : f = [r.task EXCEPT ![a] = to]
  OBVIOUS
<1>2. /\ f \in [SubAddons -> {"none", "gate", "fetching", "done"}]
      /\ \A b \in SubAddons : f[b] = IF b = a THEN to ELSE r.task[b]
  BY <1>1 DEF AggStates
<1>3. s = [r EXCEPT !.task = f]
  BY <1>1
<1>4. /\ s \in AggStates /\ s.task = f /\ s.pc = r.pc /\ s.fallback = r.fallback
      /\ s.collected = r.collected
  BY <1>2, <1>3 DEF AggStates
<1>5. a \in Asking(r)
  BY DEF Asking
<1>6. r.pc = "batch" /\ ~r.fallback
  BY <1>5 DEF AggSound
<1> QED
  BY <1>2, <1>4, <1>6 DEF Asking, AggSound

LEMMA SubGates ==
    ASSUME SubInv, NEW q \in Aggregations, NEW a \in SubAddons, GateOpens(q, a)
    PROVE  SubInv'
<1>1. PICK r \in AggStates : r = agg[q] /\ AggSound(r)
  BY DEF SubInv
<1>2. PICK s : s = [r EXCEPT !.task = [r.task EXCEPT ![a] = "fetching"]]
  OBVIOUS
<1>3. r.task[a] = "gate"
  BY <1>1 DEF GateOpens
<1>4. /\ s \in AggStates /\ AggSound(s) /\ a \in Asking(s)
      /\ \A b \in SubAddons \ {a} : b \in Asking(s) <=> b \in Asking(r)
  BY <1>1, <1>2, <1>3, TaskMoves
<1>5. agg' = [agg EXCEPT ![q] = s] /\ UNCHANGED <<subBreaker, started, lostTrials>>
  BY <1>1, <1>2 DEF GateOpens
<1>6. /\ subBreaker' \in [SubAddons -> SoundBreakers] /\ lostTrials' \subseteq SubAddons
      /\ started' \in 0..MaxAggregations
  BY <1>5 DEF SubInv
<1>7. \A b \in SubAddons \ lostTrials' : subBreaker'[b].trial =>
         b \in Asking(s) \/ (subBreaker[b].trial /\ b \notin Asking(agg[q]))
  BY <1>1, <1>4, <1>5
<1> QED
  BY <1>4, <1>5, <1>6, <1>7, AggTurns

(* A task ends with an outcome, which settles the trial it may hold.       *)
LEMMA SubSettles ==
    ASSUME SubInv, NEW q \in Aggregations, NEW a \in SubAddons,
           AddonBreaks(q, a) \/ \E subs \in Brought : SubtitlesCome(q, a, subs)
    PROVE  SubInv'
<1>1. PICK r \in AggStates : r = agg[q] /\ AggSound(r) /\ r.task[a] = "fetching"
  BY DEF SubInv, SubtitlesCome, AddonBreaks
<1>2. PICK m : m = [r EXCEPT !.task = [r.task EXCEPT ![a] = "done"]]
  OBVIOUS
<1>3. /\ m \in AggStates /\ AggSound(m) /\ m.pc = "batch" /\ ~m.fallback /\ m.collected = r.collected
      /\ \A b \in SubAddons \ {a} : b \in Asking(m) <=> b \in Asking(r)
  <2>1. r.task[a] \in {"gate", "fetching"} /\ AggSound(r)
    BY <1>1
  <2>2. m \in AggStates /\ AggSound(m) /\ m.pc = "batch"
    BY <1>2, <2>1, TaskMoves
  <2>3. m.collected = r.collected
    BY <1>2, <2>1, TaskMoves
  <2>4. \A b \in SubAddons \ {a} : b \in Asking(m) <=> b \in Asking(r)
    BY <1>2, <2>1, TaskMoves
  <2>5. ~m.fallback
    BY <1>2, <2>1, TaskMoves
  <2> QED
    BY <2>2, <2>3, <2>4, <2>5
<1>4. m = TaskEnds(q, a)
  BY <1>1, <1>2 DEF TaskEnds
<1>5. PICK s : /\ agg' = [agg EXCEPT ![q] = s]
               /\ s \in AggStates /\ AggSound(s) /\ Asking(s) = Asking(m)
  <2>1. CASE AddonBreaks(q, a)
    BY <1>3, <1>4, <2>1 DEF AddonBreaks
  <2>2. ASSUME NEW subs \in Brought, SubtitlesCome(q, a, subs)
        PROVE  \E t : /\ agg' = [agg EXCEPT ![q] = t]
                      /\ t \in AggStates /\ AggSound(t) /\ Asking(t) = Asking(m)
    <3>1. PICK new : new = m.collected \o subs
      OBVIOUS
    <3>2. subs \in Seq(Subtitled) /\ m.collected \in Seq(Subtitled)
      BY <1>3, SubtitlesAssumption DEF AggStates
    <3>3. new \in Seq(Subtitled)
      BY <3>1, <3>2, ConcatProperties
    <3>4. PICK t : t = [m EXCEPT !.collected = new]
      OBVIOUS
    <3>5. t \in AggStates /\ t.pc = m.pc /\ t.fallback = m.fallback /\ t.task = m.task
      BY <1>3, <3>3, <3>4 DEF AggStates
    <3>6. agg' = [agg EXCEPT ![q] = t]
      BY <1>4, <2>2, <3>1, <3>4 DEF SubtitlesCome
    <3>7. Asking(t) = Asking(m) /\ AggSound(t)
      BY <1>3, <3>5 DEF Asking, AggSound
    <3> QED
      BY <3>5, <3>6, <3>7
  <2> QED
    BY <2>1, <2>2
<1>6. PICK cs \in [SubAddons -> SoundBreakers] : cs = subBreaker
  BY DEF SubInv
<1>7. PICK d \in SoundBreakers : d \in {AfterSuccess(cs[a]), AfterFailure(cs[a])} /\ ~d.trial
                                 /\ subBreaker' = [cs EXCEPT ![a] = d]
  <2>1. PICK u, v : u = AfterSuccess(cs[a]) /\ v = AfterFailure(cs[a])
    OBVIOUS
  <2>2. u \in SoundBreakers /\ ~u.trial /\ v \in SoundBreakers /\ ~v.trial
    BY <2>1, BreakerTurns
  <2>3. subBreaker' = [cs EXCEPT ![a] = u] \/ subBreaker' = [cs EXCEPT ![a] = v]
    BY <1>6, <2>1 DEF SubtitlesCome, AddonBreaks
  <2> QED
    BY <2>1, <2>2, <2>3
<1>8. UNCHANGED <<started, lostTrials>>
  BY DEF SubtitlesCome, AddonBreaks
<1>9. /\ subBreaker' \in [SubAddons -> SoundBreakers]
      /\ \A b \in SubAddons : subBreaker'[b] = IF b = a THEN d ELSE cs[b]
  BY <1>7
<1>10. \A b \in SubAddons \ lostTrials' : subBreaker'[b].trial =>
          b \in Asking(s) \/ (subBreaker[b].trial /\ b \notin Asking(agg[q]))
  BY <1>1, <1>3, <1>5, <1>6, <1>7, <1>9
<1>11. lostTrials' \subseteq SubAddons /\ started' \in 0..MaxAggregations
  BY <1>8 DEF SubInv
<1> QED
  BY <1>5, <1>8, <1>9, <1>10, <1>11, AggTurns

LEMMA SubLeaves ==
    ASSUME SubInv, NEW q \in Aggregations, CallerLeaves(q)
    PROVE  SubInv'
<1>1. PICK r \in AggStates : r = agg[q] /\ AggSound(r) /\ r.pc = "batch"
  BY DEF SubInv, CallerLeaves
<1>2. PICK f : f = [a \in SubAddons |-> IF a \in Asking(r) THEN "done" ELSE r.task[a]]
  OBVIOUS
<1>3. /\ f \in [SubAddons -> {"none", "gate", "fetching", "done"}]
      /\ \A a \in SubAddons : f[a] \notin {"gate", "fetching"}
  BY <1>2 DEF AggStates, Asking
<1>4. PICK m, s : m = [r EXCEPT !.gone = TRUE] /\ s = [m EXCEPT !.task = f]
  OBVIOUS
<1>5. m \in AggStates /\ m.pc = "batch" /\ m.fallback = r.fallback
  BY <1>1, <1>4 DEF AggStates
<1>6. s \in AggStates /\ s.pc = "batch" /\ s.fallback = r.fallback
  BY <1>3, <1>4, <1>5 DEF AggStates
<1>7. AggSound(s)
  BY <1>1, <1>6 DEF AggSound
<1>8. agg' = [agg EXCEPT ![q] = s]
  BY <1>1, <1>2, <1>4 DEF CallerLeaves
<1>9. /\ lostTrials' = lostTrials \cup {a \in Asking(r) : subBreaker[a].trial}
      /\ UNCHANGED <<subBreaker, started>>
  BY <1>1 DEF CallerLeaves
<1>10. Asking(r) \subseteq SubAddons
  BY DEF Asking
<1>11. /\ subBreaker' \in [SubAddons -> SoundBreakers] /\ lostTrials \subseteq lostTrials'
       /\ lostTrials' \subseteq SubAddons /\ started' \in 0..MaxAggregations
  BY <1>9, <1>10 DEF SubInv
<1>12. \A a \in SubAddons \ lostTrials' : subBreaker'[a].trial =>
          subBreaker[a].trial /\ a \notin Asking(agg[q])
  BY <1>1, <1>9
<1> QED
  BY <1>6, <1>7, <1>8, <1>11, <1>12, AggTurns

LEMMA SubBatches ==
    ASSUME SubInv, NEW q \in Aggregations, NextBatchOf(q)
    PROVE  SubInv'
<1>1. PICK r \in AggStates : r = agg[q] /\ AggSound(r) /\ r.pc = "batch" /\ Asking(r) = {}
  BY DEF SubInv, NextBatchOf
<1>2. ~r.fallback
  BY <1>1 DEF AggSound
<1>3. UNCHANGED <<started, lostTrials>>
  BY DEF NextBatchOf
<1>4. /\ lostTrials \subseteq lostTrials' /\ lostTrials' \subseteq SubAddons
      /\ started' \in 0..MaxAggregations
  BY <1>3 DEF SubInv
<1>5. CASE InBatch(r) = {} \/ r.gone
  <2>1. PICK fb \in BOOLEAN : fb = (Ranked(r.collected) = {} /\ ~r.gone)
    OBVIOUS
  <2>2. PICK col : col = IF Ranked(r.collected) = {} /\ ~r.gone THEN FallbackBrings ELSE r.collected
    OBVIOUS
  <2>3. col \in Seq(Subtitled) /\ (fb => col = FallbackBrings)
    BY <2>1, <2>2, SubtitlesAssumption DEF AggStates
  <2>4. PICK m, n, s : m = [r EXCEPT !.pc = "done"] /\ n = [m EXCEPT !.fallback = fb]
                       /\ s = [n EXCEPT !.collected = col]
    OBVIOUS
  <2>5. m \in AggStates /\ m.pc = "done" /\ m.task = r.task
    BY <2>4 DEF AggStates
  <2>6. n \in AggStates /\ n.pc = "done" /\ n.task = r.task /\ n.fallback = fb
    BY <2>4, <2>5 DEF AggStates
  <2>7. s \in AggStates /\ s.pc = "done" /\ s.task = r.task /\ s.fallback = fb /\ s.collected = col
    BY <2>3, <2>4, <2>6 DEF AggStates
  <2>8. Asking(s) = {} /\ AggSound(s)
    BY <1>1, <2>3, <2>7 DEF Asking, AggSound
  <2>9. agg' = [agg EXCEPT ![q] = s] /\ subBreaker' = subBreaker
    BY <1>1, <1>5, <2>1, <2>2, <2>4 DEF NextBatchOf
  <2>10. subBreaker' \in [SubAddons -> SoundBreakers]
    BY <2>9 DEF SubInv
  <2>11. \A a \in SubAddons \ lostTrials' : subBreaker'[a].trial =>
            subBreaker[a].trial /\ a \notin Asking(agg[q])
    BY <1>1, <2>9
  <2> QED
    BY <1>4, <2>7, <2>8, <2>9, <2>10, <2>11, AggTurns
<1>6. CASE ~(InBatch(r) = {} \/ r.gone)
  <2>1. PICK cs \in [SubAddons -> SoundBreakers] : cs = subBreaker
    BY DEF SubInv
  <2>2. PICK ask : ask = {a \in InBatch(r) : TrialAllowed(cs[a])}
    OBVIOUS
  <2>3. PICK f : f = [a \in SubAddons |-> IF a \in ask THEN "gate" ELSE r.task[a]]
    OBVIOUS
  <2>4. /\ f \in [SubAddons -> {"none", "gate", "fetching", "done"}]
        /\ \A a \in SubAddons : a \in ask => f[a] = "gate"
    BY <2>3 DEF AggStates
  <2>5. PICK m, s : m = [r EXCEPT !.from = r.from + BatchOf] /\ s = [m EXCEPT !.task = f]
    OBVIOUS
  <2>6. m \in AggStates /\ m.pc = "batch" /\ m.fallback = r.fallback
    BY <1>1, <2>5, SubtitlesAssumption DEF AggStates
  <2>7. s \in AggStates /\ s.pc = "batch" /\ s.fallback = r.fallback /\ s.task = f
    BY <2>4, <2>5, <2>6 DEF AggStates
  <2>8. AggSound(s) /\ \A a \in SubAddons : a \in ask => a \in Asking(s)
    BY <1>2, <2>4, <2>7 DEF AggSound, Asking
  <2>9. agg' = [agg EXCEPT ![q] = s]
    BY <1>1, <1>6, <2>1, <2>2, <2>3, <2>5 DEF NextBatchOf
  <2>10. subBreaker' = [a \in SubAddons |-> IF a \in ask THEN TrialTaken(cs[a])
                                            ELSE IF a \in InBatch(r) THEN CircuitNow(cs[a]) ELSE cs[a]]
    BY <1>1, <1>6, <2>1, <2>2 DEF NextBatchOf
  <2>11. ASSUME NEW a \in SubAddons
         PROVE  /\ subBreaker'[a] \in SoundBreakers
                /\ a \notin ask => subBreaker'[a].trial = cs[a].trial
    <3>1. PICK u, v : u = TrialTaken(cs[a]) /\ v = CircuitNow(cs[a])
      OBVIOUS
    <3>2. u \in SoundBreakers /\ v \in SoundBreakers /\ v.trial = cs[a].trial
      BY <3>1, BreakerTurns
    <3>3. subBreaker'[a] = IF a \in ask THEN u ELSE IF a \in InBatch(r) THEN v ELSE cs[a]
      BY <2>10, <3>1
    <3> QED
      BY <3>2, <3>3
  <2>12. subBreaker' \in [SubAddons -> SoundBreakers]
    BY <2>10, <2>11
  <2>13. \A a \in SubAddons \ lostTrials' : subBreaker'[a].trial =>
            a \in Asking(s) \/ (subBreaker[a].trial /\ a \notin Asking(agg[q]))
    BY <1>1, <2>1, <2>8, <2>11
  <2> QED
    BY <1>4, <2>7, <2>8, <2>9, <2>12, <2>13, AggTurns
<1> QED
  BY <1>5, <1>6

LEMMA SubStepKeeps == SubInv /\ [SubNext]_subVars => SubInv'
<1> SUFFICES ASSUME SubInv, [SubNext]_subVars PROVE SubInv'
  OBVIOUS
<1>1. CASE UNCHANGED subVars
  BY <1>1 DEF subVars, SubInv, SubTrialIsOut, AggSound, Asking
<1>2. ASSUME NEW a \in SubAddons, AddonCools(a) PROVE SubInv'
  <2>1. PICK cs \in [SubAddons -> SoundBreakers] : cs = subBreaker
    BY DEF SubInv
  <2>2. PICK d : d = [cs[a] EXCEPT !.cooled = TRUE]
    OBVIOUS
  <2>3. d \in SoundBreakers /\ d.trial = cs[a].trial
    BY <1>2, <2>1, <2>2, BreakerTurns DEF AddonCools
  <2>4. subBreaker' = [cs EXCEPT ![a] = d] /\ UNCHANGED <<agg, started, lostTrials>>
    BY <1>2, <2>1, <2>2 DEF AddonCools
  <2>5. /\ subBreaker' \in [SubAddons -> SoundBreakers]
        /\ \A b \in SubAddons : subBreaker'[b].trial = cs[b].trial
    BY <2>3, <2>4
  <2> QED
    BY <2>1, <2>4, <2>5 DEF SubInv, SubTrialIsOut, AggSound, Asking
<1> QED
  BY <1>1, <1>2, SubStarts, SubBatches, SubLeaves, SubGates, SubSettles DEF SubNext

(* The invariant of the subtitles holds.                                   *)
LEMMA AggregationsAreSound == SubSpec => []SubInv
<1>1. SubInit => SubInv
  <2> SUFFICES ASSUME SubInit PROVE SubInv
    OBVIOUS
  <2>1. NewBreaker \in SoundBreakers /\ ~NewBreaker.trial
    BY BreakerAssumption DEF NewBreaker, SoundBreakers, Breakers
  <2>2. SubTrialIsOut
    BY <2>1 DEF SubInit, SubTrialIsOut
  <2> QED
    BY <2>1, <2>2, AggStarts, SubtitlesAssumption DEF SubInit, SubInv, AggSound
<1> QED
  BY <1>1, SubStepKeeps, PTL DEF SubSpec

(* Subtitles: a half-open trial is out only while a request is with the    *)
(* addon, unless an abort kept it; and what is listed is the best of what  *)
(* came in whatever order it came, each URL once at its best score, the    *)
(* fallback provider's only when the addons had nothing, for any number of *)
(* addons, requests and answers (subtitles/index.ts).                      *)
THEOREM SubtitlesAreSound == SubSpec => []SubtitlesSound
<1>1. SubInv => SubtitlesSound
  <2> SUFFICES ASSUME SubInv PROVE BestListed
    BY DEF SubtitlesSound, SubInv
  <2>1. ASSUME NEW q \in Aggregations PROVE agg[q].collected \in Seq(Subtitled) /\ AggSound(agg[q])
    BY DEF SubInv, AggStates
  <2> QED
    BY <2>1, RankedIsBest DEF BestListed, AggSound
<1> QED
  BY <1>1, AggregationsAreSound, PTL
----------------------------------------------------------------------------
(* The composition.                                                        *)

(* The fetches take no other steps within the composition.                 *)
LEMMA EgressWithin == PathSpec => EgressSpec
<1>1. PathInit => EgressInit
  BY DEF PathInit
<1>2. [PathNext]_partVars => [EgressNext]_egressVars
  BY DEF PathNext, partVars, BudgetStep, RateStep, CacheStep, MediaStep, EgressStep, LookupStep,
         FileStep, FedStep, SubStep, PageStep, ProxyStep, Only
<1> QED
  BY <1>1, <1>2, PTL DEF PathSpec, EgressSpec

(* Composition: the cap of a host and the checked addresses, in it.        *)
THEOREM EgressStaysSound == PathSpec => []EgressSound
<1>1. HostCapExact /\ HopsChecked => EgressSound
  BY DEF EgressSound
<1> QED
  BY <1>1, EgressWithin, EgressIsSound, PTL

(* Nor do federation and subtitles.                                        *)
LEMMA FederationWithin == PathSpec => FedSpec
<1>1. PathInit => FedInit
  BY DEF PathInit
<1>2. [PathNext]_partVars => [FedNext]_fedVars
  BY DEF PathNext, partVars, BudgetStep, RateStep, CacheStep, MediaStep, EgressStep, LookupStep,
         FileStep, FedStep, SubStep, PageStep, ProxyStep, Only
<1> QED
  BY <1>1, <1>2, PTL DEF PathSpec, FedSpec

LEMMA SubtitlesWithin == PathSpec => SubSpec
<1>1. PathInit => SubInit
  BY DEF PathInit
<1>2. [PathNext]_partVars => [SubNext]_subVars
  BY DEF PathNext, partVars, BudgetStep, RateStep, CacheStep, MediaStep, EgressStep, LookupStep,
         FileStep, FedStep, SubStep, PageStep, ProxyStep, Only
<1> QED
  BY <1>1, <1>2, PTL DEF PathSpec, SubSpec

(* Composition: what federation and subtitles promise, in it.              *)
THEOREM FanOutStaysSound == PathSpec => []FanOutSound
<1>1. FederationSound /\ SubtitlesSound => FanOutSound
  BY DEF FanOutSound
<1> QED
  BY <1>1, FederationWithin, SubtitlesWithin, FederationIsSound, SubtitlesAreSound, PTL
----------------------------------------------------------------------------
(* The caches in the composition.                                          *)
LEMMA CachesWithin == PathSpec => CacheSpec /\ MediaSpec /\ PagesSpec
<1>1. PathInit => CacheInit /\ MediaInit /\ PagesInit
  BY DEF PathInit
<1>2. [PathNext]_partVars => [CacheNext]_cacheFlightVars
  BY DEF PathNext, partVars, BudgetStep, RateStep, CacheStep, MediaStep, EgressStep, LookupStep,
         FileStep, FedStep, SubStep, PageStep, ProxyStep, Only
<1>3. [PathNext]_partVars => [MediaNext]_mediaVars
  BY DEF PathNext, partVars, BudgetStep, RateStep, CacheStep, MediaStep, EgressStep, LookupStep,
         FileStep, FedStep, SubStep, PageStep, ProxyStep, Only
<1>4. [PathNext]_partVars => [PagesNext]_pageVars
  BY DEF PathNext, partVars, BudgetStep, RateStep, CacheStep, MediaStep, EgressStep, LookupStep,
         FileStep, FedStep, SubStep, PageStep, ProxyStep, Only
<1> QED
  BY <1>1, <1>2, <1>3, <1>4, PTL DEF PathSpec, CacheSpec, MediaSpec, PagesSpec

(* Composition: the caches are sound in it.                                *)
THEOREM CachesStaySound == PathSpec => []CachesSound
<1>1. CacheSound /\ IdentitySound /\ PagesSound => CachesSound
  BY DEF CachesSound
<1> QED
  BY <1>1, CachesWithin, CacheIsSound, IdentitiesAreSound, PagesAreSound, PTL

(* The choice of files and the look-ups in the composition.                *)
LEMMA AnswersWithin == PathSpec => FilesSpec /\ LookupSpec
<1>1. PathInit => FilesInit /\ LookupInit
  BY DEF PathInit
<1>2. [PathNext]_partVars => [AddFile]_fileVars
  BY DEF PathNext, partVars, BudgetStep, RateStep, CacheStep, MediaStep, EgressStep, LookupStep,
         FileStep, FedStep, SubStep, PageStep, ProxyStep, Only
<1>3. [PathNext]_partVars => [LookupNext]_lookupVars
  BY DEF PathNext, partVars, BudgetStep, RateStep, CacheStep, MediaStep, EgressStep, LookupStep,
         FileStep, FedStep, SubStep, PageStep, ProxyStep, Only
<1> QED
  BY <1>1, <1>2, <1>3, PTL DEF PathSpec, FilesSpec, LookupSpec

(* Composition: the file that is played is sound in it.                    *)
THEOREM PicksStaySound == PathSpec => []PickSound
<1> QED
  BY AnswersWithin, PicksAreSound, PTL

(* Composition: the look-ups are sound in it.                              *)
THEOREM LookupsStaySound == PathSpec => []LookupsSound
<1> QED
  BY AnswersWithin, LookupsAreSound, PTL
----------------------------------------------------------------------------
(* The types.                                                              *)

LEMMA FetchTypes == EgressSpec => []EgressTypeOK
<1>1. EgressInv => EgressTypeOK
  BY DEF EgressInv, EgressTypeOK, CallsFit, FetchStates, FetchStages, PoolsExact, PoolExact,
         PoolStates, Tracked
<1> QED
  BY <1>1, FetchesAreSound, PTL

LEMMA FanOutTypes == (FedSpec => []FedTypeOK) /\ (SubSpec => []SubTypeOK)
<1>1. FedInv => FedTypeOK
  BY DEF FedInv, FedShape, FedStates, FedTypeOK, SoundBreakers
<1>2. SubInv => SubTypeOK
  BY DEF SubInv, AggStates, SubTypeOK, SoundBreakers
<1> QED
  BY <1>1, <1>2, FederationsAreSound, AggregationsAreSound, PTL

(* Composition: every part keeps its types: a day or a tick is no later    *)
(* than now, no count passes its quota, what is kept of a page, a flight   *)
(* or a grant was made or issued by then, and an answer holds nothing that *)
(* no provider brought, for any sizes of the parts.                        *)
THEOREM PathTypes == PathSpec => []PathTypeOK
<1>1. PathInit => part \in Parts
  BY DEF PathInit
<1>2. part \in Parts /\ [PathNext]_partVars => (part \in Parts)'
  BY DEF PathNext, partVars, BudgetStep, RateStep, CacheStep, MediaStep, EgressStep, LookupStep,
         FileStep, FedStep, SubStep, PageStep, ProxyStep, Only
<1>3. /\ part \in Parts /\ BudgetTypeOK /\ RateTypeOK /\ CacheTypeOK /\ MediaTypeOK /\ EgressTypeOK
      /\ LookupTypeOK /\ FilesTypeOK /\ FedTypeOK /\ SubTypeOK /\ PagesTypeOK /\ ProxyTypeOK
      => PathTypeOK
  BY DEF PathTypeOK, Parts
<1> QED
  BY <1>1, <1>2, <1>3, BudgetsWithin, RatesWithin, EgressWithin, FederationWithin, SubtitlesWithin,
     CachesWithin, AnswersWithin, ProxyWithin, BudgetTypes, RateTypes, CacheTypes, FetchTypes,
     FanOutTypes, FileAndMediaTypes, LookupTypes, PageTypes, ProxyTypes, PTL DEF PathSpec
=============================================================================
