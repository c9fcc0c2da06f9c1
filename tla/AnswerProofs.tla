---------------------------- MODULE AnswerProofs ----------------------------
(***************************************************************************)
(* Proofs about what comes between a request and an upstream's answer: a   *)
(* provider's circuit and gate, the response cache, the pages of the       *)
(* catalogs, the media identities, the choice of a torrent's file and the  *)
(* stream look-ups, for any requests, keys, lists, limits and lives.       *)
(*                                                                         *)
(* A cache is proved from what its entries may hold (CacheInv, PagesInv    *)
(* and MediaInv): each says how old a value is by when it was made, by     *)
(* what revision it was fetched, and what a request in flight carries      *)
(* across its awaits.  The loops over lists (the entries of a page, the    *)
(* ranking of sources, the best file) are recursive functions on numbers,  *)
(* and what they leave is shown for the least prefix that would refute it. *)
(***************************************************************************)
EXTENDS ProviderCircuit, CacheFlight, Catalogs, MediaIdentity, FileSelection,
        SourceLookup, FiniteSetTheorems, SequenceTheorems, WellFoundedInduction, TLAPS

----------------------------------------------------------------------------
(* The circuit: its type, and the trial token only while it is half-open.  *)

Tokened(ct) == ct \in Circuits /\ (ct.probing => ct.state = "half-open")

(* Everything the registry makes of a circuit keeps the token's rule, and  *)
(* an outcome recorded while it is half-open gives the token back.         *)
LEMMA CircuitOps ==
    ASSUME NEW ct, Tokened(ct), NEW b \in BOOLEAN
    PROVE  /\ Tokened(StateNow(ct)) /\ StateNow(ct).probing = ct.probing
           /\ Tokened(Probed(ct))
           /\ Tokened(Failed(ct, b)) /\ ~ Failed(ct, b).probing
           /\ Tokened(Succeeded(ct)) /\ ~ Succeeded(ct).probing
<1> USE CircuitAssumption DEF Tokened, Circuits
<1>1. Tokened(StateNow(ct)) /\ StateNow(ct).probing = ct.probing
  BY DEF StateNow
<1>2. Tokened(Probed(ct))
  BY DEF Probed
<1>3. \A n \in 0..MaxFailures : UpTo(n, MaxFailures) \in 0..MaxFailures
  BY DEF UpTo
<1>4. \A n \in 0..OpenThreshold : UpTo(n, OpenThreshold) \in 0..OpenThreshold
  BY DEF UpTo
<1>5. ASSUME NEW x \in Circuits PROVE Opened(x) \in Circuits /\ Opened(x).probing = x.probing
  BY <1>4, <1>5 DEF Opened
<1>6. Tokened(Failed(ct, b)) /\ ~ Failed(ct, b).probing
  <2> DEFINE x == [ct EXCEPT !.failures = UpTo(@, MaxFailures),
                             !.probing  = @ /\ ct.state # "half-open"]
  <2>1. x \in Circuits /\ ~ x.probing
    BY <1>3
  <2>2. Failed(ct, b) \in {x, Opened(x)}
    BY DEF Failed
  <2>3. Tokened(x) /\ ~ x.probing
    BY <2>1
  <2>4. Opened(x) \in Circuits /\ Opened(x).probing = x.probing
    BY <1>5, <2>1
  <2>5. Tokened(Opened(x)) /\ ~ Opened(x).probing
    BY <2>3, <2>4
  <2>6. QED
    BY <2>2, <2>3, <2>5
<1>7. Tokened(Succeeded(ct)) /\ ~ Succeeded(ct).probing
  <2> DEFINE closed == [ct EXCEPT !.state = "closed", !.failures = 0, !.probing = FALSE]
             fewer  == [ct EXCEPT !.failures = @ - 1]
  <2>1. Tokened(closed) /\ ~ closed.probing
    <3>1. \A x \in Circuits : [x EXCEPT !.state = "closed"] \in Circuits
      OBVIOUS
    <3>2. \A x \in Circuits : [x EXCEPT !.failures = 0] \in Circuits
      OBVIOUS
    <3>3. \A x \in Circuits : /\ [x EXCEPT !.probing = FALSE] \in Circuits
                              /\ ~ [x EXCEPT !.probing = FALSE].probing
      OBVIOUS
    <3>4. QED
      BY <3>1, <3>2, <3>3
  <2>2. ct.failures > 0 => Tokened(fewer) /\ fewer.probing = ct.probing
    OBVIOUS
  <2>3. CASE ct.state = "half-open"
    <3>1. Succeeded(ct) = closed
      BY <2>3 DEF Succeeded
    <3>2. QED
      BY <2>1, <3>1
  <2>4. CASE ct.state = "closed" /\ ct.failures > 0
    <3>1. Succeeded(ct) = fewer
      BY <2>4 DEF Succeeded
    <3>2. QED
      BY <2>2, <2>4, <3>1
  <2>5. CASE ct.state # "half-open" /\ ~ (ct.state = "closed" /\ ct.failures > 0)
    <3>1. Succeeded(ct) = ct
      BY <2>5 DEF Succeeded
    <3>2. QED
      BY <2>5, <3>1
  <2>6. QED
    BY <2>3, <2>4, <2>5
<1>8. QED
  BY <1>1, <1>2, <1>6, <1>7

----------------------------------------------------------------------------
(* The queue.  A queue lines the requests up if it holds each waiting one  *)
(* once and no other.                                                      *)

CallStates == [pc : {"idle", "queued"} \cup Holding, id : 0..Ids]

Lined(q, calls) ==
    /\ \A c \in Calls : calls[c].pc = "queued" <=> \E i \in 1..Len(q) : q[i] = c
    /\ \A i, j \in 1..Len(q) : q[i] = q[j] => i = j

(* A request that starts to wait is appended.                              *)
LEMMA AppendLined ==
    ASSUME NEW q \in Seq(Calls), NEW calls \in [Calls -> CallStates], Lined(q, calls),
           NEW c \in Calls, calls[c].pc # "queued", NEW x, x.pc = "queued"
    PROVE  Append(q, c) \in Seq(Calls) /\ Lined(Append(q, c), [calls EXCEPT ![c] = x])
<1>1. /\ Append(q, c) \in Seq(Calls) /\ Len(q) \in Nat
      /\ Len(Append(q, c)) = Len(q) + 1 /\ Append(q, c)[Len(q) + 1] = c
      /\ \A i \in 1..Len(q) : Append(q, c)[i] = q[i]
  BY AppendProperties, LenProperties
<1>2. \A i \in 1..Len(q) : q[i] \in Calls /\ q[i] # c
  BY ElementOfSeq DEF Lined
<1>3. QED
  BY <1>1, <1>2 DEF Lined

(* The head that is let in leaves the queue.                               *)
LEMMA TailLined ==
    ASSUME NEW q \in Seq(Calls), q # <<>>, NEW calls \in [Calls -> CallStates],
           Lined(q, calls), NEW x, x.pc # "queued"
    PROVE  /\ Head(q) \in Calls /\ calls[Head(q)].pc = "queued"
           /\ Tail(q) \in Seq(Calls) /\ Lined(Tail(q), [calls EXCEPT ![Head(q)] = x])
<1> DEFINE t == Tail(q)
           h == Head(q)
<1>1. /\ h \in Calls /\ t \in Seq(Calls) /\ Len(q) \in Nat /\ Len(q) >= 1
      /\ Len(t) = Len(q) - 1 /\ h = q[1] /\ \A i \in 1..Len(t) : t[i] = q[i + 1]
  BY HeadTailProperties, LenProperties, EmptySeq
<1>2. calls[h].pc = "queued"
  BY <1>1 DEF Lined
<1>3. ASSUME NEW c \in Calls, c # h
      PROVE  (\E i \in 1..Len(q) : q[i] = c) <=> (\E i \in 1..Len(t) : t[i] = c)
  <2>1. ASSUME NEW i \in 1..Len(q), q[i] = c PROVE i - 1 \in 1..Len(t) /\ t[i - 1] = c
    BY <1>1, <1>3, <2>1
  <2>2. ASSUME NEW i \in 1..Len(t), t[i] = c PROVE i + 1 \in 1..Len(q) /\ q[i + 1] = c
    BY <1>1, <2>2
  <2>3. QED
    BY <2>1, <2>2
<1>4. \A i \in 1..Len(t) : t[i] # h
  BY <1>1 DEF Lined
<1>5. \A i, j \in 1..Len(t) : t[i] = t[j] => i = j
  BY <1>1 DEF Lined
<1>6. QED
  BY <1>1, <1>2, <1>3, <1>4, <1>5 DEF Lined

(* A request that is aborted is spliced out.                               *)
LEMMA RemoveLined ==
    ASSUME NEW q \in Seq(Calls), NEW calls \in [Calls -> CallStates], Lined(q, calls),
           NEW k \in 1..Len(q), NEW x, x.pc # "queued"
    PROVE  /\ RemoveAt(q, k) \in Seq(Calls)
           /\ Lined(RemoveAt(q, k), [calls EXCEPT ![q[k]] = x])
<1> DEFINE r == RemoveAt(q, k)
           n == Len(q)
           before == SubSeq(q, 1, k - 1)
           after  == SubSeq(q, k + 1, n)
<1>1. n \in Nat /\ \A i \in 1..n : q[i] \in Calls
  BY LenProperties, ElementOfSeq
<1>2. /\ before \in Seq(Calls) /\ Len(before) = k - 1
      /\ \A i \in 1..(k - 1) : before[i] = q[i]
  BY <1>1, SubSeqProperties
<1>3. /\ after \in Seq(Calls) /\ Len(after) = n - k
      /\ \A i \in 1..(n - k) : after[i] = q[k + i]
  BY <1>1, SubSeqProperties
<1>4. /\ r \in Seq(Calls) /\ Len(r) = n - 1
      /\ \A i \in 1..(n - 1) : r[i] = IF i < k THEN q[i] ELSE q[i + 1]
  <2>1. /\ r \in Seq(Calls) /\ Len(r) = Len(before) + Len(after)
        /\ \A i \in 1..(Len(before) + Len(after)) :
              r[i] = IF i <= Len(before) THEN before[i] ELSE after[i - Len(before)]
    BY <1>2, <1>3, ConcatProperties DEF RemoveAt
  <2>2. Len(before) + Len(after) = n - 1
    <3>1. Len(before) = k - 1 /\ Len(after) = n - k
      BY <1>2, <1>3
    <3>2. (k - 1) + (n - k) = n - 1
      BY <1>1
    <3>3. QED
      BY <3>1, <3>2
  <2>3. ASSUME NEW i \in 1..(n - 1) PROVE r[i] = IF i < k THEN q[i] ELSE q[i + 1]
    <3>1. i \in 1..(Len(before) + Len(after))
      BY <2>2
    <3>2. r[i] = IF i <= k - 1 THEN before[i] ELSE after[i - (k - 1)]
      BY <1>2, <2>1, <3>1
    <3>3. CASE i < k
      <4>1. i \in 1..(k - 1) /\ i <= k - 1
        BY <1>1, <3>3
      <4>2. QED
        BY <1>2, <3>2, <3>3, <4>1
    <3>4. CASE i >= k
      <4>1. /\ i - (k - 1) \in 1..(n - k) /\ k + (i - (k - 1)) = i + 1
            /\ ~ (i <= k - 1) /\ ~ (i < k)
        BY <1>1, <3>4
      <4>2. after[i - (k - 1)] = q[i + 1]
        BY <1>3, <4>1
      <4>3. QED
        BY <3>2, <4>1, <4>2
    <3>5. QED
      BY <1>1, <3>3, <3>4
  <2>4. QED
    BY <2>1, <2>2, <2>3
<1>5. ASSUME NEW c \in Calls, c # q[k]
      PROVE  (\E i \in 1..n : q[i] = c) <=> (\E i \in 1..(n - 1) : r[i] = c)
  <2>1. ASSUME NEW i \in 1..n, q[i] = c PROVE \E j \in 1..(n - 1) : r[j] = c
    <3>1. CASE i < k
      BY <1>1, <1>4, <2>1, <3>1
    <3>2. CASE i > k
      <4>1. i - 1 \in 1..(n - 1) /\ ~ (i - 1 < k) /\ (i - 1) + 1 = i
        BY <1>1, <3>2
      <4>2. QED
        BY <1>4, <2>1, <4>1
    <3>3. QED
      BY <1>1, <1>5, <2>1, <3>1, <3>2
  <2>2. ASSUME NEW i \in 1..(n - 1), r[i] = c PROVE \E j \in 1..n : q[j] = c
    BY <1>1, <1>4, <2>2
  <2>3. QED
    BY <2>1, <2>2
<1>6. \A i \in 1..(n - 1) : r[i] # q[k]
  BY <1>1, <1>4 DEF Lined
<1>7. \A i, j \in 1..(n - 1) : r[i] = r[j] => i = j
  BY <1>1, <1>4 DEF Lined
<1>8. QED
  BY <1>1, <1>4, <1>5, <1>6, <1>7 DEF Lined

----------------------------------------------------------------------------
(* The gate.  `calls` is what the requests do and `g` the semaphore, at any *)
(* point of a step.                                                        *)

Inside(calls) == {c \in Calls : calls[c].pc \in Holding}

SlotsOf(g, calls) ==
    /\ g \in [count : 0..Limit, queue : Seq(Calls)]
    /\ calls \in [Calls -> CallStates]
    /\ g.count = Cardinality(Inside(calls))
    /\ Lined(g.queue, calls)
    /\ g.queue # <<>> => g.count = Limit

(* The calls inside the gate can be counted.                               *)
LEMMA InsideFinite == \A calls : IsFiniteSet(Inside(calls))
BY FS_Subset, CircuitAssumption DEF Inside

(* releaseSemaphore() on behalf of request c inside, which then is idle.   *)
LEMMA FreedSlots ==
    ASSUME NEW g, NEW calls, SlotsOf(g, calls), NEW c \in Calls, calls[c].pc \in Holding
    PROVE  SlotsOf(Freed(g), [LetIn(g, calls) EXCEPT ![c] = Idle])
<1> USE CircuitAssumption
<1> DEFINE out == [LetIn(g, calls) EXCEPT ![c] = Idle]
<1>1. /\ Idle \in CallStates /\ calls \in [Calls -> CallStates] /\ c \in Inside(calls)
      /\ g \in [count : 0..Limit, queue : Seq(Calls)] /\ g.count = Cardinality(Inside(calls))
      /\ Lined(g.queue, calls)
  BY DEF SlotsOf, Idle, CallStates, Inside
<1>2. Cardinality(Inside(calls) \ {c}) = g.count - 1 /\ g.count - 1 \in 0..Limit
  <2>1. IsFiniteSet(Inside(calls))
    BY InsideFinite
  <2>2. /\ Cardinality(Inside(calls) \ {c}) = Cardinality(Inside(calls)) - 1
        /\ Cardinality(Inside(calls) \ {c}) \in Nat
    BY <1>1, <2>1, FS_RemoveElement, FS_CardinalityType
  <2>3. QED
    BY <1>1, <2>2
<1>3. CASE g.queue = <<>>
  <2>1. LetIn(g, calls) = calls /\ out = [calls EXCEPT ![c] = Idle]
    BY <1>3 DEF LetIn
  <2>2. Inside(out) = Inside(calls) \ {c}
    BY <1>1, <2>1 DEF Inside, Idle, Holding
  <2>3. /\ Freed(g) \in [count : 0..Limit, queue : Seq(Calls)]
        /\ Freed(g).count = g.count - 1 /\ Freed(g).queue = g.queue
    BY <1>1, <1>2, <1>3 DEF Freed
  <2>4. Lined(g.queue, out)
    BY <1>1, <2>1 DEF Lined, Idle, Holding, Inside
  <2>5. out \in [Calls -> CallStates]
    BY <1>1, <2>1
  <2>6. QED
    BY <1>2, <1>3, <2>2, <2>3, <2>4, <2>5 DEF SlotsOf
<1>4. CASE g.queue # <<>>
  <2> DEFINE h == Head(g.queue)
             x == [calls[h] EXCEPT !.pc = "fetching"]
             mid == [calls EXCEPT ![h] = x]
  <2>1. LetIn(g, calls) = mid
    BY <1>4 DEF LetIn
  <2>2. h \in Calls /\ calls[h].pc = "queued"
    BY <1>1, <1>4, TailLined
  <2>3. x \in CallStates /\ x.pc = "fetching"
    BY <1>1, <2>2 DEF CallStates, Holding
  <2>4. Tail(g.queue) \in Seq(Calls) /\ Lined(Tail(g.queue), mid)
    BY <1>1, <1>4, <2>3, TailLined
  <2>5. mid \in [Calls -> CallStates] /\ h # c /\ mid[c].pc \in Holding
    BY <1>1, <2>2, <2>3 DEF Inside, Holding
  <2>6. out = [mid EXCEPT ![c] = Idle] /\ out \in [Calls -> CallStates]
    BY <1>1, <2>1, <2>5
  <2>7. Lined(Tail(g.queue), out)
    <3>1. \A d \in Calls : out[d].pc = "queued" <=> mid[d].pc = "queued"
      BY <2>5, <2>6 DEF Idle, Holding
    <3>2. QED
      BY <2>4, <3>1 DEF Lined
  <2>8. Inside(out) = (Inside(calls) \ {c}) \cup {h} /\ h \notin Inside(calls) \ {c}
    <3>1. \A d \in Calls \ {c, h} : out[d] = calls[d]
      BY <1>1, <2>5, <2>6
    <3>2. out[c].pc = "idle" /\ out[h].pc = "fetching"
      BY <1>1, <2>2, <2>3, <2>5, <2>6 DEF Idle
    <3>3. QED
      BY <2>2, <2>5, <3>1, <3>2 DEF Inside, Holding
  <2>9. IsFiniteSet(Inside(calls) \ {c})
    BY InsideFinite, FS_RemoveElement
  <2>10. Cardinality(Inside(out)) = g.count
    <3>1. Cardinality(Inside(out)) = Cardinality(Inside(calls) \ {c}) + 1
      BY <2>8, <2>9, FS_AddElement
    <3>2. QED
      BY <1>1, <1>2, <3>1
  <2>11. /\ Freed(g) \in [count : 0..Limit, queue : Seq(Calls)]
         /\ Freed(g).count = g.count /\ Freed(g).queue = Tail(g.queue)
    BY <1>1, <1>4, <2>4 DEF Freed
  <2>12. QED
    BY <1>4, <2>6, <2>7, <2>10, <2>11 DEF SlotsOf
<1>5. QED
  BY <1>3, <1>4

(* acquire(), for a request that holds nothing.                            *)
LEMMA EntersSlots ==
    ASSUME NEW g, NEW calls, NEW c \in Calls, NEW k \in 0..Ids,
           SlotsOf(g, [calls EXCEPT ![c] = Idle]), calls \in [Calls -> CallStates],
           Enters(c, k, g, calls)
    PROVE  SlotsOf(gate', call') /\ call'[c].pc \in {"queued", "fetching"}
<1> USE CircuitAssumption
<1> DEFINE idle == [calls EXCEPT ![c] = Idle]
<1>1. /\ g \in [count : 0..Limit, queue : Seq(Calls)] /\ g.count = Cardinality(Inside(idle))
      /\ Lined(g.queue, idle) /\ (g.queue # <<>> => g.count = Limit)
      /\ idle \in [Calls -> CallStates] /\ idle[c] = Idle
  BY DEF SlotsOf
<1>2. Idle.pc = "idle" /\ c \notin Inside(idle)
  BY <1>1 DEF Idle, Inside, Holding
<1>3. ASSUME g.count < Limit, gate' = [g EXCEPT !.count = @ + 1],
             call' = [calls EXCEPT ![c] = [pc |-> "fetching", id |-> k]]
      PROVE  SlotsOf(gate', call') /\ call'[c].pc = "fetching"
  <2>1. call' \in [Calls -> CallStates] /\ call'[c].pc = "fetching"
        /\ \A d \in Calls \ {c} : call'[d] = idle[d]
    BY <1>3 DEF CallStates, Holding
  <2>2. Inside(call') = Inside(idle) \cup {c}
    BY <1>2, <2>1 DEF Inside, Holding
  <2>3. Cardinality(Inside(call')) = g.count + 1
    BY <1>1, <1>2, <2>2, InsideFinite, FS_AddElement
  <2>4. /\ gate' \in [count : 0..Limit, queue : Seq(Calls)]
        /\ gate'.count = g.count + 1 /\ gate'.queue = g.queue
    BY <1>1, <1>3
  <2>5. Lined(g.queue, call')
    BY <1>1, <1>2, <2>1 DEF Lined
  <2>6. QED
    BY <1>1, <1>3, <2>1, <2>3, <2>4, <2>5 DEF SlotsOf
<1>4. ASSUME g.count >= Limit, gate' = [g EXCEPT !.queue = Append(@, c)],
             call' = [calls EXCEPT ![c] = [pc |-> "queued", id |-> k]]
      PROVE  SlotsOf(gate', call') /\ call'[c].pc = "queued"
  <2> DEFINE x == [pc |-> "queued", id |-> k]
  <2>1. x \in CallStates /\ x.pc = "queued" /\ call' = [idle EXCEPT ![c] = x]
    BY <1>4 DEF CallStates
  <2>2. call' \in [Calls -> CallStates] /\ call'[c].pc = "queued"
    BY <1>1, <2>1
  <2>3. Append(g.queue, c) \in Seq(Calls) /\ Lined(Append(g.queue, c), call')
    BY <1>1, <1>2, <2>1, AppendLined
  <2>4. Inside(call') = Inside(idle)
    BY <1>1, <1>2, <2>1, <2>2 DEF Inside, Holding
  <2>5. /\ gate' \in [count : 0..Limit, queue : Seq(Calls)]
        /\ gate'.count = g.count /\ gate'.queue = Append(g.queue, c)
    BY <1>1, <1>4, <2>3
  <2>6. g.count = Limit
    BY <1>1, <1>4
  <2>7. QED
    BY <1>1, <2>2, <2>3, <2>4, <2>5, <2>6 DEF SlotsOf
<1>5. QED
  BY <1>3, <1>4 DEF Enters

----------------------------------------------------------------------------
(* The inductive invariant.  While nobody aborted, the request that took   *)
(* the trial of a half-open circuit waits or fetches: every outcome it can *)
(* record on the way to `mapping` or out has given the token back.         *)

Trying == {"queued", "fetching", "subtitles"}

TriedBy(S) == \E d \in S : call[d].pc \in Trying

IInv ==
    /\ Tokened(circuit) /\ SlotsOf(gate, call)
    /\ up \in BOOLEAN /\ aborts \in 0..MaxAborts /\ foreign \in 0..MaxForeign
    /\ circuit.probing /\ aborts = 0 => TriedBy(Calls)

(* From one candidate id on, for a request whose slot is given back.       *)
LEMMA TriesStep ==
    ASSUME NEW c \in Calls, NEW k \in 1..(Ids + 1), NEW ct, Tokened(ct), NEW g, NEW calls,
           calls \in [Calls -> CallStates], SlotsOf(g, [calls EXCEPT ![c] = Idle]),
           TriesFrom(c, k, ct, g, calls)
    PROVE  /\ Tokened(circuit') /\ SlotsOf(gate', call')
           /\ circuit'.probing => ct.probing \/ call'[c].pc \in Trying
           /\ \A d \in Calls \ {c} : call'[d] = calls[d]
<1> DEFINE seen == StateNow(ct)
<1>1. Tokened(seen) /\ seen.probing = ct.probing /\ Tokened(Probed(seen))
  BY CircuitOps
<1>2. CASE k <= Ids /\ circuit' = Probed(seen) /\ Enters(c, k, g, calls)
  <2>1. k \in 0..Ids
    BY <1>2, CircuitAssumption
  <2>2. SlotsOf(gate', call') /\ call'[c].pc \in {"queued", "fetching"}
    BY <1>2, <2>1, EntersSlots
  <2>3. \A d \in Calls \ {c} : call'[d] = calls[d]
    BY <1>2 DEF Enters
  <2>4. QED
    BY <1>1, <1>2, <2>2, <2>3 DEF Trying
<1>3. CASE circuit' \in {seen, ct} /\ gate' = g /\ call' = [calls EXCEPT ![c] = Idle]
  BY <1>1, <1>3
<1>4. QED
  BY <1>2, <1>3 DEF TriesFrom

(* A request inside is done with an id: the next id, or the end.           *)
LEMMA EndsStep ==
    ASSUME IInv, NEW c \in Calls, call[c].pc \in Holding, NEW ct, Tokened(ct),
           ct.probing /\ aborts = 0 => TriedBy(Calls \ {c}),
           Ends(c, ct)
    PROVE  IInv'
<1> USE CircuitAssumption
<1> DEFINE out == [LetIn(gate, call) EXCEPT ![c] = Idle]
<1>1. call \in [Calls -> CallStates] /\ gate \in [count : 0..Limit, queue : Seq(Calls)]
  BY DEF IInv, SlotsOf
<1>2. SlotsOf(Freed(gate), out)
  BY FreedSlots DEF IInv
<1>3. /\ LetIn(gate, call) \in [Calls -> CallStates]
      /\ \A d \in Calls : LetIn(gate, call)[d].pc \in {call[d].pc, "fetching"}
  <2>1. CASE gate.queue = <<>>
    BY <1>1, <2>1 DEF LetIn
  <2>2. CASE gate.queue # <<>>
    <3>1. Head(gate.queue) \in Calls
      BY <1>1, <2>2, HeadTailProperties
    <3>2. [call[Head(gate.queue)] EXCEPT !.pc = "fetching"] \in CallStates
      BY <1>1, <3>1 DEF CallStates, Holding
    <3>3. QED
      BY <1>1, <2>2, <3>1, <3>2 DEF LetIn, CallStates
  <2>3. QED
    BY <2>1, <2>2
<1>4. UNCHANGED <<up, aborts, foreign>>
  BY DEF Ends, NextId
<1>5. /\ Tokened(circuit') /\ SlotsOf(gate', call')
      /\ circuit'.probing => ct.probing \/ call'[c].pc \in Trying
      /\ \A d \in Calls \ {c} : call'[d] = LetIn(gate, call)[d]
  <2>1. CASE circuit' = ct /\ gate' = Freed(gate) /\ call' = out
    BY <1>2, <1>3, <2>1
  <2>2. CASE NextId(c, ct)
    <3>1. call[c].id + 1 \in 1..(Ids + 1)
      BY <1>1 DEF CallStates
    <3>2. TriesFrom(c, call[c].id + 1, ct, Freed(gate), LetIn(gate, call))
      BY <2>2 DEF NextId
    <3>3. QED
      BY <1>2, <1>3, <3>1, <3>2, TriesStep DEF TriesFrom, Enters
  <2>3. QED
    BY <2>1, <2>2 DEF Ends
<1>6. circuit'.probing /\ aborts' = 0 => TriedBy(Calls)'
  BY <1>3, <1>4, <1>5 DEF TriedBy, Trying
<1>7. QED
  BY <1>4, <1>5, <1>6 DEF IInv

(* A request keeps the invariant: it takes a slot, waits in line or is     *)
(* refused.                                                                *)
LEMMA RequestStep ==
    ASSUME IInv, NEW c \in Calls, Request(c)
    PROVE  IInv'
<1> USE CircuitAssumption
<1>1. call \in [Calls -> CallStates] /\ call[c] = Idle /\ Tokened(circuit)
  BY DEF IInv, SlotsOf, Request
<1>2. [call EXCEPT ![c] = Idle] = call
  BY <1>1
<1>3. /\ Tokened(circuit') /\ SlotsOf(gate', call')
      /\ circuit'.probing => circuit.probing \/ call'[c].pc \in Trying
      /\ \A d \in Calls \ {c} : call'[d] = call[d]
  <2>1. 1 \in 1..(Ids + 1) /\ SlotsOf(gate, [call EXCEPT ![c] = Idle])
    BY <1>2 DEF IInv
  <2>2. TriesFrom(c, 1, circuit, gate, call)
    BY DEF Request
  <2>3. QED
    BY <1>1, <2>1, <2>2, TriesStep DEF TriesFrom, Enters
<1>4. UNCHANGED <<up, aborts, foreign>>
  BY DEF Request
<1>5. circuit'.probing /\ aborts' = 0 => TriedBy(Calls)'
  BY <1>1, <1>3, <1>4 DEF IInv, TriedBy, Trying, Idle
<1>6. QED
  BY <1>3, <1>4, <1>5 DEF IInv

(* A request inside that goes on to another of its awaits.                 *)
LEMMA InsideStep ==
    ASSUME IInv, NEW c \in Calls, FetchOk(c) \/ FetchSubtitles(c)
    PROVE  IInv'
<1> USE CircuitAssumption
<1> DEFINE pc == IF FetchOk(c) THEN "mapping" ELSE "subtitles"
<1>1. /\ call \in [Calls -> CallStates] /\ call[c].pc \in Holding /\ Tokened(circuit)
      /\ gate \in [count : 0..Limit, queue : Seq(Calls)]
  BY DEF IInv, SlotsOf, FetchOk, FetchSubtitles, Holding
<1>2. \E p \in Holding : call' = [call EXCEPT ![c].pc = p]
  BY DEF FetchOk, FetchSubtitles, Holding
<1>3. /\ call' \in [Calls -> CallStates] /\ call'[c].pc \in Holding
      /\ \A d \in Calls \ {c} : call'[d] = call[d]
  BY <1>1, <1>2 DEF CallStates
<1>4. Inside(call') = Inside(call)
  BY <1>1, <1>3 DEF Inside
<1>5. Lined(gate.queue, call')
  BY <1>1, <1>3 DEF IInv, SlotsOf, Lined, Holding
<1>6. gate' = gate /\ UNCHANGED <<up, aborts, foreign>>
  BY DEF FetchOk, FetchSubtitles
<1>7. SlotsOf(gate', call')
  BY <1>3, <1>4, <1>5, <1>6 DEF IInv, SlotsOf
<1>8. Tokened(circuit') /\ (circuit'.probing /\ aborts' = 0 => TriedBy(Calls)')
  <2>1. CASE FetchOk(c)
    BY <1>1, <2>1, CircuitOps DEF FetchOk
  <2>2. CASE FetchSubtitles(c)
    <3>1. call'[c].pc = "subtitles"
      BY <1>1, <2>2 DEF FetchSubtitles, CallStates
    <3>2. circuit' = Probed(StateNow(circuit))
      BY <2>2 DEF FetchSubtitles
    <3>3. Tokened(circuit')
      BY <1>1, <3>2, CircuitOps
    <3>4. QED
      BY <3>1, <3>3 DEF TriedBy, Trying
  <2>3. QED
    BY <2>1, <2>2
<1>9. QED
  BY <1>6, <1>7, <1>8 DEF IInv

(* So does a call that gives up, in the line or inside.                    *)
LEMMA AbortStep ==
    ASSUME IInv, NEW c \in Calls, Abort(c)
    PROVE  IInv'
<1> USE CircuitAssumption
<1>1. /\ call \in [Calls -> CallStates] /\ Tokened(circuit)
      /\ gate \in [count : 0..Limit, queue : Seq(Calls)]
  BY DEF IInv, SlotsOf
<1>2. aborts' \in 0..MaxAborts /\ aborts' # 0 /\ UNCHANGED <<up, foreign>>
  BY DEF Abort, IInv
<1>3. Tokened(circuit')
  <2>1. circuit' = circuit \/ circuit' = Failed(circuit, FALSE)
    BY DEF Abort
  <2>2. Tokened(Failed(circuit, FALSE))
    BY <1>1, CircuitOps
  <2>3. QED
    BY <1>1, <2>1, <2>2
<1>4. SlotsOf(gate', call')
  <2>1. CASE /\ call[c].pc \in Holding /\ gate' = Freed(gate)
             /\ call' = [LetIn(gate, call) EXCEPT ![c] = Idle]
    BY <2>1, FreedSlots DEF IInv
  <2>2. ASSUME call[c].pc = "queued", NEW i \in DOMAIN gate.queue, gate.queue[i] = c,
               gate' = [gate EXCEPT !.queue = RemoveAt(@, i)], call' = [call EXCEPT ![c] = Idle]
        PROVE  SlotsOf(gate', call')
    <3>1. i \in 1..Len(gate.queue) /\ gate.queue \in Seq(Calls)
      BY <1>1, <2>2, LenProperties
    <3>2. Idle \in CallStates /\ Idle.pc = "idle"
      BY DEF Idle, CallStates
    <3>3. /\ RemoveAt(gate.queue, i) \in Seq(Calls)
          /\ Lined(RemoveAt(gate.queue, i), call')
      BY <1>1, <2>2, <3>1, <3>2, RemoveLined DEF IInv, SlotsOf
    <3>4. call' \in [Calls -> CallStates] /\ Inside(call') = Inside(call)
      BY <1>1, <2>2, <3>2 DEF Inside, Holding
    <3>5. /\ gate' \in [count : 0..Limit, queue : Seq(Calls)]
          /\ gate'.count = gate.count /\ gate'.queue = RemoveAt(gate.queue, i)
      BY <1>1, <2>2, <3>3
    <3>6. gate.queue # <<>>
      BY <3>1, EmptySeq
    <3>7. QED
      BY <3>3, <3>4, <3>5, <3>6 DEF IInv, SlotsOf
  <2>3. QED
    BY <2>1, <2>2 DEF Abort
<1>5. QED
  BY <1>2, <1>3, <1>4 DEF IInv

(* A request inside that is answered.                                      *)
LEMMA AnswerStep ==
    ASSUME IInv, NEW c \in Calls,
           \/ FetchNone(c) \/ FetchFail(c) \/ MappingFails(c)
           \/ SkipSubtitles(c) \/ SubtitlesOk(c) \/ SubtitlesFail(c)
    PROVE  IInv'
<1>1. Tokened(circuit) /\ call[c].pc \in Holding
  BY DEF IInv, FetchNone, FetchFail, MappingFails, SkipSubtitles, SubtitlesOk, SubtitlesFail,
         Holding
<1>2. /\ \A b \in BOOLEAN : Tokened(Failed(circuit, b)) /\ ~ Failed(circuit, b).probing
      /\ Tokened(Succeeded(circuit)) /\ ~ Succeeded(circuit).probing
      /\ Tokened(StateNow(circuit)) /\ StateNow(circuit).probing = circuit.probing
  BY <1>1, CircuitOps
<1>3. ASSUME NEW b \in BOOLEAN, Ends(c, Failed(circuit, b))
      PROVE  IInv'
  BY <1>1, <1>2, <1>3, EndsStep DEF Ends, NextId, TriesFrom, Enters
<1>4. CASE FetchNone(c) \/ FetchFail(c) \/ MappingFails(c) \/ SubtitlesFail(c)
  BY <1>3, <1>4 DEF FetchNone, FetchFail, MappingFails, SubtitlesFail, Ends
<1>5. CASE SubtitlesOk(c)
  BY <1>1, <1>2, <1>5, EndsStep DEF SubtitlesOk, Ends, NextId, TriesFrom, Enters
<1>6. CASE SkipSubtitles(c)
  <2>1. circuit.probing /\ aborts = 0 => TriedBy(Calls \ {c})
    BY <1>6 DEF IInv, TriedBy, Trying, SkipSubtitles
  <2>2. PICK ct \in {circuit, StateNow(circuit)} : Ends(c, ct)
    BY <1>6 DEF SkipSubtitles, Ends, NextId, TriesFrom, Enters
  <2>3. Tokened(ct) /\ (ct.probing /\ aborts = 0 => TriedBy(Calls \ {c}))
    BY <1>1, <1>2, <2>1
  <2>4. QED
    BY <1>1, <2>2, <2>3, EndsStep
<1>7. QED
  BY <1>4, <1>5, <1>6

(* The circuit on its own: readers, time, and requests without a known id. *)
LEMMA CircuitStep ==
    ASSUME IInv,
           \/ RequestForeign \/ CoolDown \/ Observe \/ WindowPasses \/ QuarantineEnds
           \/ Upstream
    PROVE  IInv'
<1> USE CircuitAssumption
<1>1. gate' = gate /\ call' = call /\ aborts' = aborts
  BY DEF RequestForeign, CoolDown, Observe, WindowPasses, QuarantineEnds, Upstream
<1>2. up' \in BOOLEAN /\ foreign' \in 0..MaxForeign
  <2>1. foreign' \in 0..MaxForeign
    <3>1. foreign \in 0..MaxForeign
      BY DEF IInv
    <3>2. CASE RequestForeign
      BY <3>1, <3>2 DEF RequestForeign
    <3>3. CASE UNCHANGED foreign
      BY <3>1, <3>3
    <3>4. QED
      BY <3>2, <3>3 DEF CoolDown, Observe, WindowPasses, QuarantineEnds, Upstream
  <2>2. up' \in BOOLEAN
    <3>1. CASE Upstream
      BY <3>1, Zenon DEF Upstream
    <3>2. CASE UNCHANGED up
      BY <3>2 DEF IInv
    <3>3. QED
      BY <3>1, <3>2 DEF RequestForeign, CoolDown, Observe, WindowPasses, QuarantineEnds
  <2>3. QED
    BY <2>1, <2>2
<1>3. Tokened(circuit') /\ (circuit'.probing => circuit.probing)
  <2>1. CASE RequestForeign
    BY <2>1, CircuitOps DEF RequestForeign, IInv
  <2>2. CASE Observe
    BY <2>2, CircuitOps DEF Observe, IInv
  <2>3. CASE CoolDown \/ WindowPasses \/ QuarantineEnds \/ Upstream
    <3>1. circuit \in Circuits /\ Tokened(circuit)
      BY DEF IInv, Tokened
    <3>2. CASE CoolDown
      BY <3>1, <3>2 DEF CoolDown, Tokened, Circuits
    <3>3. CASE WindowPasses
      BY <3>1, <3>3 DEF WindowPasses, Tokened, Circuits
    <3>4. CASE QuarantineEnds
      <4>1. 0 \in 0..OpenThreshold
        OBVIOUS
      <4>2. [circuit EXCEPT !.quarantined = FALSE] \in Circuits
        BY <3>1 DEF Circuits
      <4>3. circuit' = [[circuit EXCEPT !.quarantined = FALSE] EXCEPT !.opens = 0]
        BY <3>4 DEF QuarantineEnds
      <4>4. QED
        BY <3>1, <4>1, <4>2, <4>3 DEF Tokened, Circuits
    <3>5. CASE Upstream
      BY <3>1, <3>5 DEF Upstream
    <3>6. QED
      BY <2>3, <3>2, <3>3, <3>4, <3>5
  <2>4. QED
    BY <2>1, <2>2, <2>3
<1>4. QED
  BY <1>1, <1>2, <1>3 DEF IInv, TriedBy

(* The invariant holds at the start.                                       *)
LEMMA IInvInit == Init => IInv
<1> SUFFICES ASSUME Init PROVE IInv
  OBVIOUS
<1> USE CircuitAssumption DEF Init
<1>1. Tokened(circuit) /\ ~ circuit.probing
  BY DEF Tokened, Circuits
<1>2. gate.queue = <<>> /\ gate.queue \in Seq(Calls) /\ Len(gate.queue) = 0
  BY EmptySeq
<1>3. call \in [Calls -> CallStates] /\ \A c \in Calls : call[c].pc = "idle"
  BY DEF Idle, CallStates
<1>4. Inside(call) = {}
  BY <1>3 DEF Inside, Holding
<1>5. Cardinality(Inside(call)) = 0
  BY <1>4, FS_EmptySet
<1>6. Lined(gate.queue, call)
  BY <1>2, <1>3 DEF Lined
<1>7. SlotsOf(gate, call)
  BY <1>2, <1>3, <1>5, <1>6 DEF SlotsOf
<1>8. QED
  BY <1>1, <1>7 DEF IInv

(* Every step keeps the invariant.                                         *)
LEMMA IInvStep == IInv /\ [Next]_vars => IInv'
<1> SUFFICES ASSUME IInv, [Next]_vars PROVE IInv'
  OBVIOUS
<1>1. ASSUME NEW c \in Calls, Request(c) \/ FetchEnds(c) \/ Map(c) \/ Subtitles(c) \/ Abort(c)
      PROVE  IInv'
  BY <1>1, RequestStep, InsideStep, AnswerStep, AbortStep DEF FetchEnds, Map, Subtitles
<1>2. CASE UNCHANGED vars
  BY <1>2 DEF vars, IInv, TriedBy
<1>3. QED
  BY <1>1, <1>2, CircuitStep DEF Next

(* The invariant holds in every reachable state.                           *)
LEMMA IInvCorrect == Spec => []IInv
BY IInvInit, IInvStep, PTL DEF Spec

(* Every variable has its type: in particular the failures and openings    *)
(* never leave their range, whatever order outcomes are recorded in.       *)
THEOREM TypeCorrect == Spec => []TypeOK
<1>1. IInv => TypeOK
  BY DEF IInv, Tokened, SlotsOf, CallStates, TypeOK
<1>2. QED
  BY <1>1, IInvCorrect, PTL

(* As many requests wait as the queue is long.                             *)
LEMMA QueueCounts ==
    ASSUME NEW q \in Seq(Calls), NEW calls \in [Calls -> CallStates], Lined(q, calls)
    PROVE  /\ Len(q) = Cardinality({c \in Calls : calls[c].pc = "queued"})
           /\ {q[i] : i \in DOMAIN q} = {c \in Calls : calls[c].pc = "queued"}
<1> DEFINE W == {c \in Calls : calls[c].pc = "queued"}
           n == Len(q)
<1>1. n \in Nat /\ q \in [1..n -> Calls] /\ DOMAIN q = 1..n
  BY LenProperties
<1>2. /\ \A i \in 1..n : q[i] \in W
      /\ \A c \in W : \E i \in 1..n : q[i] = c
  BY <1>1 DEF Lined
<1>3. q \in Bijection(1..n, W)
  <2>1. q \in [1..n -> W]
    BY <1>1, <1>2
  <2>2. q \in Injection(1..n, W)
    BY <2>1 DEF Lined, Injection, IsInjective
  <2>3. q \in Surjection(1..n, W)
    BY <1>2, <2>1 DEF Surjection
  <2>4. QED
    BY <2>2, <2>3 DEF Bijection
<1>4. IsFiniteSet(1..n) /\ Cardinality(1..n) = n
  BY <1>1, FS_Interval
<1>5. Cardinality(W) = n
  BY <1>3, <1>4, FS_Bijection DEF ExistsBijection
<1>6. {q[i] : i \in DOMAIN q} = W
  BY <1>1, <1>2
<1>7. QED
  BY <1>5, <1>6

(* The counter of the gate is the number of requests inside, the queue     *)
(* holds each waiting request once, and nobody waits while a slot is free: *)
(* for any number of requests that fail, abort, and hand their slots on    *)
(* (acquire and releaseSemaphore).                                         *)
THEOREM SlotsCorrect == Spec => []SlotsExact
<1>1. IInv => SlotsExact
  BY QueueCounts DEF IInv, SlotsOf, SlotsExact, Inside, InGate, InQueue
<1>2. QED
  BY <1>1, IInvCorrect, PTL

(* The trial token exists only while the circuit is half-open.             *)
THEOREM ProbeCorrect == Spec => []ProbeOnlyHalfOpen
<1>1. IInv => ProbeOnlyHalfOpen
  BY DEF IInv, Tokened, ProbeOnlyHalfOpen
<1>2. QED
  BY <1>1, IInvCorrect, PTL

(* Unless a caller aborted, a taken trial belongs to a request in flight   *)
(* that will record an outcome and give it back.                           *)
THEOREM TrialCorrect == Spec => []TrialHasRequest
<1>1. IInv => TrialHasRequest
  BY DEF IInv, TrialHasRequest, TriedBy, Trying, Idle
<1>2. QED
  BY <1>1, IInvCorrect, PTL
----------------------------------------------------------------------------
(* What is left of a sequence without its element at place k.              *)
LEMMA RemovedAt ==
    ASSUME NEW S, NEW q \in Seq(S), NEW k \in 1..Len(q)
    PROVE  LET r == RemoveAt(q, k)  n == Len(q) IN
           /\ n \in Nat /\ r \in Seq(S) /\ Len(r) = n - 1
           /\ \A i \in 1..(n - 1) : r[i] = IF i < k THEN q[i] ELSE q[i + 1]
<1> DEFINE r == RemoveAt(q, k)
           n == Len(q)
           before == SubSeq(q, 1, k - 1)
           after  == SubSeq(q, k + 1, n)
<1>1. n \in Nat /\ DOMAIN q = 1..n /\ \A i \in 1..n : q[i] \in S
  BY LenProperties, ElementOfSeq
<1>3. k \in 1..n /\ n \in Nat
  BY <1>1
<1>4. /\ before \in Seq(S) /\ Len(before) = k - 1
      /\ \A i \in 1..(k - 1) : before[i] = q[i]
  BY <1>1, <1>3, SubSeqProperties
<1>5. /\ after \in Seq(S) /\ Len(after) = n - k
      /\ \A i \in 1..(n - k) : after[i] = q[k + i]
  <2>1. (IF k + 1 <= n THEN n - (k + 1) + 1 ELSE 0) = n - k
    BY <1>3
  <2>2. k + 1 \in Int /\ n \in Int /\ \A i \in (k + 1)..n : q[i] \in S
    BY <1>1, <1>3
  <2>3. \A i \in 1..(n - k) : (k + 1) + i - 1 = k + i
    BY <1>3
  <2>4. /\ after \in Seq(S)
        /\ Len(after) = IF k + 1 <= n THEN n - (k + 1) + 1 ELSE 0
        /\ \A i \in 1..(n - (k + 1) + 1) : after[i] = q[(k + 1) + i - 1]
    BY <2>2, SubSeqProperties
  <2> QED
    BY <1>3, <2>1, <2>3, <2>4
<1>6. /\ r \in Seq(S) /\ Len(r) = Len(before) + Len(after)
      /\ \A i \in 1..(Len(before) + Len(after)) :
            r[i] = IF i <= Len(before) THEN before[i] ELSE after[i - Len(before)]
  BY <1>4, <1>5, ConcatProperties DEF RemoveAt
<1>7. Len(before) + Len(after) = n - 1
  <2>1. Len(before) = k - 1 /\ Len(after) = n - k
    BY <1>4, <1>5
  <2>2. (k - 1) + (n - k) = n - 1
    BY <1>3
  <2> QED
    BY <2>1, <2>2
<1>8. ASSUME NEW i \in 1..(n - 1) PROVE r[i] = IF i < k THEN q[i] ELSE q[i + 1]
  <2>1. r[i] = IF i <= k - 1 THEN before[i] ELSE after[i - (k - 1)]
    BY <1>4, <1>6, <1>7
  <2>2. CASE i < k
    <3>1. i \in 1..(k - 1) /\ i <= k - 1
      BY <1>1, <2>2
    <3> QED
      BY <1>4, <2>1, <2>2, <3>1
  <2>3. CASE i >= k
    <3>1. /\ i - (k - 1) \in 1..(n - k) /\ k + (i - (k - 1)) = i + 1
          /\ ~ (i <= k - 1) /\ ~ (i < k)
      BY <1>1, <2>3
    <3>2. after[i - (k - 1)] = q[i + 1]
      BY <1>5, <3>1
    <3> QED
      BY <2>1, <3>1, <3>2
  <2> QED
    BY <1>1, <2>2, <2>3
<1> QED
  BY <1>1, <1>6, <1>7, <1>8

----------------------------------------------------------------------------
(* The response cache.                                                     *)

(* A fetch is over or carries a key, and knows when its value was made.    *)
FlightStates ==
    [key : CacheKeys, stage : {"fetching", "writing"}, made : Int] \cup {FlightOver}
AskStates ==
    [pc : {"idle", "looked", "fresh", "stale", "waiting", "fetched", "failed"},
     key : CacheKeys \cup {NoKey}, hit : BOOLEAN, made : Int,
     flight : 1..MaxFlights \cup {NoFlight}, age : Int]

CacheShape ==
    /\ time \in Nat /\ resets \in Nat
    /\ lru \in Seq(CacheKeys) /\ stamp \in [CacheKeys -> Int]
    /\ flights \in Seq(FlightStates) /\ Len(flights) <= MaxFlights
    /\ inFlights \in [CacheKeys -> 1..MaxFlights \cup {NoFlight}]
    /\ asker \in [Askers -> AskStates]

(* A caller that looked knows its key.                                     *)
AskersKnow == \A a \in Askers : asker[a].pc = "looked" => asker[a].key \in CacheKeys

(* The keys of a memory cache: each once, in the order `o` tells.          *)
LruRanked(q, o) ==
    /\ q \in Seq(CacheKeys)
    /\ \A i, j \in 1..Len(q) : i < j => q[i] # q[j] /\ <<q[i], q[j]>> \in o

(* Without a key they are still, and do not have it.                       *)
LEMMA LruButIs ==
    ASSUME LruRanked(lru, older), NEW k \in CacheKeys
    PROVE  /\ LruRanked(LruBut(k), older) /\ Len(lru) \in Nat /\ Len(LruBut(k)) \in Nat
           /\ \A i \in 1..Len(LruBut(k)) : LruBut(k)[i] # k
           /\ Len(LruBut(k)) = IF Present(k) THEN Len(lru) - 1 ELSE Len(lru)
           /\ Present(k) => Len(lru) >= 1
<1>1. lru \in Seq(CacheKeys) /\ Len(lru) \in Nat
  BY LenProperties DEF LruRanked
<1>2. CASE ~ Present(k)
  BY <1>1, <1>2 DEF LruBut, Present
<1>3. CASE Present(k)
  <2>1. PICK p \in 1..Len(lru) : lru[p] = k /\ LruBut(k) = RemoveAt(lru, p)
    BY <1>3 DEF LruBut, Present
  <2> DEFINE r == LruBut(k)
  <2>2. /\ r \in Seq(CacheKeys) /\ Len(r) = Len(lru) - 1
        /\ \A i \in 1..(Len(lru) - 1) : r[i] = IF i < p THEN lru[i] ELSE lru[i + 1]
    BY <1>1, <2>1, RemovedAt
  <2> HIDE DEF r
  <2>3. ASSUME NEW i \in 1..Len(r) PROVE r[i] # k
    <3>1. CASE i < p
      <4>1. i \in 1..Len(lru) /\ r[i] = lru[i]
        BY <1>1, <2>2, <3>1
      <4> QED
        BY <2>1, <3>1, <4>1 DEF LruRanked
    <3>2. CASE ~ (i < p)
      <4>1. i + 1 \in 1..Len(lru) /\ p < i + 1 /\ r[i] = lru[i + 1]
        BY <1>1, <2>2, <3>2
      <4> QED
        BY <2>1, <4>1 DEF LruRanked
    <3> QED
      BY <3>1, <3>2
  <2>4. ASSUME NEW i \in 1..Len(r), NEW j \in 1..Len(r), i < j
        PROVE  r[i] # r[j] /\ <<r[i], r[j]>> \in older
    <3>1. PICK a \in 1..Len(lru) : r[i] = lru[a] /\ a = IF i < p THEN i ELSE i + 1
      BY <1>1, <2>2
    <3>2. PICK b \in 1..Len(lru) : r[j] = lru[b] /\ b = IF j < p THEN j ELSE j + 1
      BY <1>1, <2>2
    <3>3. a < b
      BY <2>2, <2>4, <3>1, <3>2
    <3> QED
      BY <3>1, <3>2, <3>3 DEF LruRanked
  <2> QED
    BY <1>1, <1>3, <2>1, <2>2, <2>3, <2>4 DEF LruRanked, r
<1> QED
  BY <1>2, <1>3

(* A key that is used comes last, in both orders.                          *)
LEMMA UsedLast ==
    ASSUME NEW q, LruRanked(q, older), NEW k \in CacheKeys, \A i \in 1..Len(q) : q[i] # k
    PROVE  LruRanked(Append(q, k), Used(k)) /\ Len(Append(q, k)) = Len(q) + 1
<1>1. /\ Append(q, k) \in Seq(CacheKeys) /\ Len(q) \in Nat
      /\ Len(Append(q, k)) = Len(q) + 1 /\ Append(q, k)[Len(q) + 1] = k
      /\ \A i \in 1..Len(q) : Append(q, k)[i] = q[i]
  BY AppendProperties, LenProperties DEF LruRanked
<1> DEFINE r == Append(q, k)
<1>2. ASSUME NEW i \in 1..Len(r), NEW j \in 1..Len(r), i < j
      PROVE  r[i] # r[j] /\ <<r[i], r[j]>> \in Used(k)
  <2>1. i \in 1..Len(q) /\ r[i] = q[i] /\ q[i] # k /\ q[i] \in CacheKeys
    BY <1>1, <1>2, ElementOfSeq DEF LruRanked
  <2>2. CASE j \in 1..Len(q)
    <3>1. q[i] # q[j] /\ <<q[i], q[j]>> \in older /\ q[j] # k /\ r[j] = q[j]
      BY <1>1, <1>2, <2>1, <2>2 DEF LruRanked
    <3> QED
      BY <2>1, <3>1 DEF Used
  <2>3. CASE j = Len(q) + 1
    <3>1. r[j] = k
      BY <1>1, <2>3
    <3> QED
      BY <2>1, <3>1 DEF Used
  <2> QED
    BY <1>1, <2>2, <2>3
<1> QED
  BY <1>1, <1>2 DEF LruRanked

(* What a fetch is for: `o` is the stage of each, `in` the key's own one.  *)
RunsIn(fs, k) == {f \in 1..Len(fs) : fs[f].stage \in {"fetching", "writing"} /\ fs[f].key = k}

Flies(fs, in, n) ==
    \A k \in CacheKeys :
        /\ in[k] # NoFlight => in[k] \in RunsIn(fs, k)
        /\ Cardinality(RunsIn(fs, k)) <= n + (IF in[k] = NoFlight THEN 0 ELSE 1)

Awaits(as, fs) ==
    \A a \in Askers : as[a].pc = "waiting" =>
        /\ as[a].flight \in 1..Len(fs)
        /\ fs[as[a].flight].stage \in {"fetching", "writing"}

CacheInv ==
    /\ CacheShape /\ AskersKnow /\ ServedInTime
    /\ Flies(flights, inFlights, resets) /\ Awaits(asker, flights)
    /\ LruRanked(lru, older) /\ Len(lru) <= MaxEntries

LEMMA RunsFinite ==
    ASSUME NEW fs \in Seq(FlightStates), NEW k
    PROVE  IsFiniteSet(RunsIn(fs, k)) /\ Cardinality(RunsIn(fs, k)) \in Nat
<1>1. IsFiniteSet(1..Len(fs)) /\ RunsIn(fs, k) \subseteq 1..Len(fs)
  BY FS_Interval, LenProperties DEF RunsIn
<1> QED
  BY <1>1, FS_Subset, FS_CardinalityType

(* A fetch starts: it is the only one its key points at.                   *)
LEMMA FlightStarts ==
    ASSUME CacheShape, Flies(flights, inFlights, resets), Awaits(asker, flights),
           NEW k \in CacheKeys, CanFly(k), Fly(k)
    PROVE  /\ flights' \in Seq(FlightStates) /\ Len(flights') <= MaxFlights
           /\ inFlights' \in [CacheKeys -> 1..MaxFlights \cup {NoFlight}]
           /\ Flies(flights', inFlights', resets) /\ Awaits(asker, flights')
           /\ FlightOf(k) \in 1..Len(flights') /\ FlightOf(k) \in 1..MaxFlights
           /\ flights'[FlightOf(k)].stage \in {"fetching", "writing"}
<1>1. flights \in Seq(FlightStates) /\ Len(flights) \in Nat /\ MaxFlights \in Nat /\ resets \in Nat
  BY CacheAssumption, LenProperties DEF CacheShape
<1>2. CASE inFlights[k] # NoFlight
  <2>1. flights' = flights /\ inFlights' = inFlights /\ FlightOf(k) = inFlights[k]
    BY <1>2 DEF Fly, FlightOf
  <2>2. inFlights[k] \in RunsIn(flights, k) /\ inFlights[k] \in 1..MaxFlights
    BY <1>2 DEF Flies, CacheShape
  <2>3. FlightOf(k) \in 1..Len(flights) /\ flights[FlightOf(k)].stage \in {"fetching", "writing"}
    BY <2>1, <2>2 DEF RunsIn
  <2> QED
    BY <2>1, <2>2, <2>3 DEF CacheShape
<1>3. CASE inFlights[k] = NoFlight
  <2> DEFINE n == Len(flights) + 1
             new == [key |-> k, stage |-> "fetching", made |-> 0]
  <2>1. /\ flights' = Append(flights, new) /\ inFlights' = [inFlights EXCEPT ![k] = n]
        /\ n \in 1..MaxFlights /\ new \in FlightStates /\ FlightOf(k) = n
    BY <1>1, <1>3 DEF Fly, CanFly, FlightOf, FlightStates, CacheShape
  <2>2. /\ flights' \in Seq(FlightStates) /\ Len(flights') = n /\ flights'[n] = new
        /\ \A f \in 1..Len(flights) : flights'[f] = flights[f]
    BY <1>1, <2>1, AppendProperties
  <2>3. /\ inFlights' \in [CacheKeys -> 1..MaxFlights \cup {NoFlight}] /\ inFlights'[k] = n
        /\ \A l \in CacheKeys : l # k => inFlights'[l] = inFlights[l]
    BY <2>1 DEF CacheShape
  <2>4. RunsIn(flights', k) = RunsIn(flights, k) \cup {n} /\ n \notin RunsIn(flights, k)
    BY <1>1, <2>2 DEF RunsIn
  <2>5. ASSUME NEW l \in CacheKeys, l # k PROVE RunsIn(flights', l) = RunsIn(flights, l)
    BY <1>1, <2>2, <2>5 DEF RunsIn
  <2>6. Cardinality(RunsIn(flights', k)) = Cardinality(RunsIn(flights, k)) + 1
    BY <1>1, <2>4, RunsFinite, FS_AddElement
  <2>7. Cardinality(RunsIn(flights, k)) \in Nat /\ Cardinality(RunsIn(flights, k)) <= resets
    BY <1>1, <1>3, RunsFinite DEF Flies
  <2>8. n # NoFlight
    BY <2>1, CacheAssumption
  <2>9. Flies(flights', inFlights', resets)
    <3>1. ASSUME NEW l \in CacheKeys
          PROVE  /\ inFlights'[l] # NoFlight => inFlights'[l] \in RunsIn(flights', l)
                 /\ Cardinality(RunsIn(flights', l)) <= resets + (IF inFlights'[l] = NoFlight THEN 0 ELSE 1)
      <4>1. CASE l = k
        <5>1. inFlights'[k] = n /\ n \in RunsIn(flights', k)
          BY <2>3, <2>4
        <5>2. Cardinality(RunsIn(flights', k)) <= resets + 1
          BY <1>1, <2>6, <2>7
        <5> QED
          BY <2>8, <4>1, <5>1, <5>2
      <4>2. CASE l # k
        BY <2>3, <2>5, <4>2 DEF Flies
      <4> QED
        BY <4>1, <4>2
    <3> QED
      BY <3>1 DEF Flies
  <2>10. Awaits(asker, flights')
    BY <1>1, <2>2 DEF Awaits
  <2> QED
    BY <1>1, <2>1, <2>2, <2>3, <2>9, <2>10
<1> QED
  BY <1>2, <1>3

(* A fetch ends, as the finally block of do() leaves it.                   *)
LEMMA FlightStops ==
    ASSUME CacheShape, Flies(flights, inFlights, resets), Awaits(asker, flights),
           NEW f \in FlightIds, Running(f), NEW pc \in {"fetched", "failed"}, FlightEnds(f, pc)
    PROVE  /\ flights' \in Seq(FlightStates) /\ Len(flights') <= MaxFlights
           /\ inFlights' \in [CacheKeys -> 1..MaxFlights \cup {NoFlight}]
           /\ asker' \in [Askers -> AskStates]
           /\ \A a \in Askers : asker'[a] = asker[a] \/ asker'[a].pc \in {"fetched", "failed"}
           /\ Flies(flights', inFlights', resets) /\ Awaits(asker', flights')
<1>1. /\ flights \in Seq(FlightStates) /\ Len(flights) \in Nat /\ MaxFlights \in Nat /\ resets \in Nat
      /\ DOMAIN flights = 1..Len(flights) /\ f \in 1..Len(flights) /\ flights[f] \in FlightStates
  BY CacheAssumption, LenProperties, ElementOfSeq DEF CacheShape, FlightIds
<1>2. PICK k \in CacheKeys : flights[f].key = k
  BY <1>1 DEF Running, FlightStates, FlightOver
<1>3. /\ flights' = [flights EXCEPT ![f] = FlightOver] /\ inFlights' = [inFlights EXCEPT ![k] = NoFlight]
      /\ asker' = [a \in Askers |->
                     IF asker[a].pc = "waiting" /\ asker[a].flight = f
                     THEN [asker[a] EXCEPT !.pc = pc, !.flight = NoFlight] ELSE asker[a]]
  BY <1>2 DEF FlightEnds
<1>4. /\ flights' \in Seq(FlightStates) /\ Len(flights') = Len(flights)
      /\ flights'[f] = FlightOver
      /\ \A g \in 1..Len(flights) : g # f => flights'[g] = flights[g]
  <2>1. FlightOver \in FlightStates
    BY DEF FlightStates
  <2>2. flights' \in Seq(FlightStates) /\ Len(flights') = Len(flights)
    <3>1. /\ [flights EXCEPT ![f] = FlightOver] \in Seq(FlightStates)
          /\ Len([flights EXCEPT ![f] = FlightOver]) = Len(flights)
      BY <1>1, <2>1, ExceptSeq
    <3> QED
      BY <1>3, <3>1
  <2> QED
    BY <1>1, <1>3, <2>2
<1>5. /\ inFlights' \in [CacheKeys -> 1..MaxFlights \cup {NoFlight}] /\ inFlights'[k] = NoFlight
      /\ \A l \in CacheKeys : l # k => inFlights'[l] = inFlights[l]
  BY <1>3 DEF CacheShape
<1>6. RunsIn(flights', k) = RunsIn(flights, k) \ {f} /\ f \in RunsIn(flights, k)
  BY <1>1, <1>2, <1>4 DEF RunsIn, Running, FlightOver
<1>7. ASSUME NEW l \in CacheKeys, l # k PROVE RunsIn(flights', l) = RunsIn(flights, l)
  BY <1>1, <1>2, <1>4, <1>7 DEF RunsIn, FlightOver
<1>8. /\ Cardinality(RunsIn(flights', k)) = Cardinality(RunsIn(flights, k)) - 1
      /\ Cardinality(RunsIn(flights, k)) \in Nat
      /\ Cardinality(RunsIn(flights, k)) <= resets + 1
  <2>1. IsFiniteSet(RunsIn(flights, k)) /\ Cardinality(RunsIn(flights, k)) \in Nat
    BY <1>1, RunsFinite
  <2>2. Cardinality(RunsIn(flights', k)) = Cardinality(RunsIn(flights, k)) - 1
    BY <1>6, <2>1, FS_RemoveElement
  <2>3. Cardinality(RunsIn(flights, k)) <= resets + (IF inFlights[k] = NoFlight THEN 0 ELSE 1)
    BY DEF Flies
  <2> QED
    BY <1>1, <2>1, <2>2, <2>3
<1>9. Flies(flights', inFlights', resets)
  <2>1. ASSUME NEW l \in CacheKeys
        PROVE  /\ inFlights'[l] # NoFlight => inFlights'[l] \in RunsIn(flights', l)
               /\ Cardinality(RunsIn(flights', l)) <= resets + (IF inFlights'[l] = NoFlight THEN 0 ELSE 1)
    <3>1. CASE l = k
      BY <1>1, <1>5, <1>8, <3>1
    <3>2. CASE l # k
      BY <1>5, <1>7, <3>2 DEF Flies
    <3> QED
      BY <3>1, <3>2
  <2> QED
    BY <2>1 DEF Flies
<1>10. ASSUME NEW a \in Askers
       PROVE  /\ asker'[a] \in AskStates
              /\ \/ asker'[a] = asker[a] /\ (asker[a].pc # "waiting" \/ asker[a].flight # f)
                 \/ asker'[a].pc \in {"fetched", "failed"}
  <2>1. asker[a] \in AskStates
    BY DEF CacheShape
  <2>2. CASE asker[a].pc = "waiting" /\ asker[a].flight = f
    <3>1. asker'[a] = [asker[a] EXCEPT !.pc = pc, !.flight = NoFlight]
      BY <1>3, <2>2
    <3> QED
      BY <2>1, <3>1 DEF AskStates
  <2>3. CASE ~ (asker[a].pc = "waiting" /\ asker[a].flight = f)
    <3>1. asker'[a] = asker[a]
      BY <1>3, <2>3
    <3> QED
      BY <2>1, <2>3, <3>1
  <2> QED
    BY <2>2, <2>3
<1>11. asker' \in [Askers -> AskStates]
  BY <1>3, <1>10
<1>12. Awaits(asker', flights')
  BY <1>4, <1>10 DEF Awaits
<1> QED
  BY <1>1, <1>4, <1>5, <1>9, <1>10, <1>11, <1>12 DEF CacheShape

LEMMA CacheStarts == CacheInit => CacheInv
<1> SUFFICES ASSUME CacheInit PROVE CacheInv
  OBVIOUS
<1>1. NoAsk \in AskStates
  BY DEF NoAsk, AskStates
<1>2. \A a \in Askers : asker[a].pc = "idle"
  BY DEF CacheInit, NoAsk
<1>3. Len(flights) = 0 /\ Len(lru) = 0 /\ MaxFlights \in Nat /\ MaxEntries \in Nat
  BY CacheAssumption DEF CacheInit
<1>4. CacheShape
  BY <1>1, <1>3 DEF CacheInit, CacheShape
<1>5. LruRanked(lru, older) /\ Len(lru) <= MaxEntries
  BY <1>3 DEF CacheInit, LruRanked
<1>6. \A k : RunsIn(flights, k) = {}
  BY <1>3 DEF RunsIn
<1>7. Flies(flights, inFlights, resets)
  <2>1. Cardinality({}) = 0 /\ resets = 0 /\ \A k \in CacheKeys : inFlights[k] = NoFlight
    BY FS_EmptySet DEF CacheInit
  <2> QED
    BY <1>6, <2>1 DEF Flies
<1> QED
  BY <1>2, <1>4, <1>5, <1>7 DEF CacheInv, AskersKnow, Awaits, ServedInTime

LEMMA CacheStands == CacheInv /\ UNCHANGED cacheFlightVars => CacheInv'
<1> SUFFICES ASSUME CacheInv, UNCHANGED cacheFlightVars PROVE CacheInv'
  OBVIOUS
<1> USE DEF CacheInv, cacheFlightVars
<1>1. CacheShape' /\ AskersKnow' /\ ServedInTime'
  BY DEF CacheShape, AskersKnow, ServedInTime
<1>2. Flies(flights', inFlights', resets') /\ Awaits(asker', flights')
  OBVIOUS
<1>3. LruRanked(lru', older') /\ Len(lru') <= MaxEntries
  OBVIOUS
<1> QED
  BY <1>1, <1>2, <1>3

LEMMA StampsFit ==
    ASSUME NEW l, NEW s \in [CacheKeys -> Int] PROVE Stamps(l, s) \in [CacheKeys -> Int]
BY DEF Stamps

LEMMA LookKeeps ==
    ASSUME CacheInv, NEW a \in Askers, NEW k \in CacheKeys, LookInto(a, k) PROVE CacheInv'
<1> USE DEF CacheInv
<1>1. PICK new \in AskStates :
          asker' = [asker EXCEPT ![a] = new] /\ new.pc = "looked" /\ new.key = k
  <2>1. PICK hit \in BOOLEAN : hit = Live(k)
    BY DEF Live, Present
  <2>2. PICK made \in Int : made = IF hit THEN stamp[k] ELSE 0
    <3>1. stamp[k] \in Int /\ 0 \in Int
      BY DEF CacheShape
    <3> QED
      BY <3>1
  <2>3. PICK new : new = [NoAsk EXCEPT !.pc = "looked", !.key = k, !.hit = hit, !.made = made]
    OBVIOUS
  <2>4. new = [pc |-> "looked", key |-> k, hit |-> hit, made |-> made, flight |-> NoFlight, age |-> 0]
    BY <2>3 DEF NoAsk
  <2>5. new \in AskStates /\ new.pc = "looked" /\ new.key = k
    BY <2>4 DEF AskStates
  <2>6. asker' = [asker EXCEPT ![a] = new]
    BY <2>1, <2>2, <2>3 DEF LookInto
  <2> QED
    BY <2>5, <2>6
<1>2. /\ asker' \in [Askers -> AskStates] /\ AskersKnow'
      /\ Awaits(asker, flights)' /\ ServedInTime'
  BY <1>1 DEF CacheShape, AskersKnow, Awaits, ServedInTime, LookInto
<1>3. LruRanked(lru, older)' /\ Len(lru') <= MaxEntries
  <2>1. /\ LruRanked(LruBut(k), older) /\ Len(lru) \in Nat /\ Len(LruBut(k)) \in Nat
        /\ \A i \in 1..Len(LruBut(k)) : LruBut(k)[i] # k
        /\ Len(LruBut(k)) = IF Present(k) THEN Len(lru) - 1 ELSE Len(lru)
        /\ MaxEntries \in Nat /\ Len(lru) <= MaxEntries
    BY LruButIs, CacheAssumption
  <2>2. CASE Live(k)
    <3>1. lru' = Append(LruBut(k), k) /\ older' = Used(k) /\ Present(k)
      BY <2>2 DEF LookInto, AfterGet, Live
    <3>2. LruRanked(Append(LruBut(k), k), Used(k)) /\ Len(Append(LruBut(k), k)) = Len(LruBut(k)) + 1
      BY <2>1, UsedLast
    <3> QED
      BY <2>1, <3>1, <3>2
  <2>3. CASE ~ Live(k)
    <3>1. lru' = LruBut(k) /\ older' = older
      BY <2>3 DEF LookInto, AfterGet
    <3> QED
      BY <2>1, <3>1
  <2> QED
    BY <2>2, <2>3
<1>4. stamp' \in [CacheKeys -> Int]
  BY StampsFit DEF LookInto, CacheShape
<1>5. CacheShape'
  BY <1>2, <1>3, <1>4 DEF CacheShape, LruRanked, LookInto
<1>6. Flies(flights, inFlights, resets)'
  BY DEF LookInto, Flies, RunsIn
<1> QED
  BY <1>2, <1>3, <1>5, <1>6

LEMMA JudgeKeeps ==
    ASSUME CacheInv, NEW a \in Askers, Judge(a) PROVE CacheInv'
<1> USE DEF CacheInv
<1>1. PICK k \in CacheKeys : k = asker[a].key
  BY DEF Judge, AskersKnow
<1>2. PICK age \in Int : age = time - asker[a].made
  BY DEF CacheShape, AskStates
<1>3. /\ time' = time /\ lru' = lru /\ stamp' = stamp /\ resets' = resets /\ older' = older
  BY DEF Judge
<1>4. LruRanked(lru, older)' /\ Len(lru') <= MaxEntries
  BY <1>3 DEF LruRanked
<1>5. ASSUME NEW pc \in {"fresh", "stale", "waiting"}, NEW f \in 1..MaxFlights \cup {NoFlight},
             NEW g \in Int, Serve(a, pc, f, g),
             pc = "fresh" => g <= Ttl, pc = "stale" => g \in (Ttl + 1)..(Ttl + Swr)
      PROVE  /\ asker' \in [Askers -> AskStates] /\ AskersKnow' /\ ServedInTime'
             /\ asker'[a].pc = pc /\ asker'[a].flight = f
             /\ \A b \in Askers : b # a => asker'[b] = asker[b]
  <2>1. PICK new : new = [NoAsk EXCEPT !.pc = pc, !.flight = f, !.age = g]
    OBVIOUS
  <2>2. new = [pc |-> pc, key |-> NoKey, hit |-> FALSE, made |-> 0, flight |-> f, age |-> g]
    BY <2>1 DEF NoAsk
  <2>3. /\ new \in AskStates /\ new.pc = pc /\ new.flight = f /\ new.age = g
    BY <2>2 DEF AskStates
  <2>4. asker' = [asker EXCEPT ![a] = new]
    BY <1>5, <2>1 DEF Serve
  <2>5. /\ asker' \in [Askers -> AskStates] /\ asker'[a] = new
        /\ \A b \in Askers : b # a => asker'[b] = asker[b]
    BY <2>3, <2>4 DEF CacheShape
  <2> QED
    BY <1>5, <2>3, <2>5 DEF AskersKnow, ServedInTime
<1>6. /\ asker' \in [Askers -> AskStates] /\ AskersKnow' /\ ServedInTime' /\ Awaits(asker', flights')
      /\ flights' \in Seq(FlightStates) /\ Len(flights') <= MaxFlights
      /\ inFlights' \in [CacheKeys -> 1..MaxFlights \cup {NoFlight}]
      /\ Flies(flights', inFlights', resets)
  <2>1. CASE /\ asker[a].hit /\ age <= Ttl
             /\ Serve(a, "fresh", NoFlight, age) /\ UNCHANGED <<flights, inFlights>>
    <3>1. /\ asker' \in [Askers -> AskStates] /\ AskersKnow' /\ ServedInTime'
          /\ asker'[a].pc = "fresh" /\ \A b \in Askers : b # a => asker'[b] = asker[b]
      BY <1>5, <2>1
    <3>2. Awaits(asker', flights')
      BY <2>1, <3>1 DEF Awaits
    <3> QED
      BY <2>1, <3>1, <3>2 DEF CacheShape
  <2>2. CASE /\ age \in (Ttl + 1)..(Ttl + Swr)
             /\ CanFly(k) /\ Fly(k) /\ Serve(a, "stale", NoFlight, age)
    <3>1. /\ asker' \in [Askers -> AskStates] /\ AskersKnow' /\ ServedInTime'
          /\ asker'[a].pc = "stale" /\ \A b \in Askers : b # a => asker'[b] = asker[b]
      BY <1>5, <2>2
    <3>2. /\ flights' \in Seq(FlightStates) /\ Len(flights') <= MaxFlights
          /\ inFlights' \in [CacheKeys -> 1..MaxFlights \cup {NoFlight}]
          /\ Flies(flights', inFlights', resets) /\ Awaits(asker, flights')
      BY <2>2, FlightStarts
    <3>3. Awaits(asker', flights')
      BY <3>1, <3>2 DEF Awaits
    <3> QED
      BY <3>1, <3>2, <3>3
  <2>3. CASE CanFly(k) /\ Fly(k) /\ Serve(a, "waiting", FlightOf(k), 0)
    <3>1. /\ flights' \in Seq(FlightStates) /\ Len(flights') <= MaxFlights
          /\ inFlights' \in [CacheKeys -> 1..MaxFlights \cup {NoFlight}]
          /\ Flies(flights', inFlights', resets) /\ Awaits(asker, flights')
          /\ FlightOf(k) \in 1..Len(flights') /\ FlightOf(k) \in 1..MaxFlights
          /\ flights'[FlightOf(k)].stage \in {"fetching", "writing"}
      BY <2>3, FlightStarts
    <3>2. /\ asker' \in [Askers -> AskStates] /\ AskersKnow' /\ ServedInTime'
          /\ asker'[a].flight = FlightOf(k) /\ \A b \in Askers : b # a => asker'[b] = asker[b]
      BY <1>5, <2>3, <3>1
    <3>3. Awaits(asker', flights')
      BY <3>1, <3>2 DEF Awaits
    <3> QED
      BY <3>1, <3>2, <3>3
  <2> QED
    BY <1>1, <1>2, <2>1, <2>2, <2>3 DEF Judge
<1>7. CacheShape'
  BY <1>3, <1>6 DEF CacheShape
<1> QED
  BY <1>3, <1>4, <1>6, <1>7

LEMMA FetchedKeeps ==
    ASSUME CacheInv, NEW f \in FlightIds, Fetched(f) PROVE CacheInv'
<1> USE DEF CacheInv
<1>1. /\ flights \in Seq(FlightStates) /\ Len(flights) \in Nat /\ f \in 1..Len(flights)
      /\ flights[f] \in FlightStates /\ time \in Nat
  BY LenProperties, ElementOfSeq DEF CacheShape, FlightIds
<1>2. PICK k \in CacheKeys : flights[f].key = k /\ flights[f].stage = "fetching"
  BY <1>1 DEF Fetched, FlightStates, FlightOver
<1>3. PICK new \in FlightStates :
          /\ flights' = [flights EXCEPT ![f] = new] /\ new.stage = "writing" /\ new.key = k
  <2> DEFINE new == [key |-> k, stage |-> "writing", made |-> time]
  <2>1. new \in FlightStates /\ new.stage = "writing" /\ new.key = k
    BY <1>1 DEF FlightStates
  <2>2. flights' = [flights EXCEPT ![f] = [[flights[f] EXCEPT !.stage = "writing"] EXCEPT !.made = time]]
    BY DEF Fetched
  <2>3. flights[f] \in [key : CacheKeys, stage : {"fetching", "writing"}, made : Int]
    BY <1>1, <1>2 DEF FlightStates, FlightOver
  <2>4. [[flights[f] EXCEPT !.stage = "writing"] EXCEPT !.made = time] = new
    <3>1. PICK r \in [key : CacheKeys, stage : {"fetching", "writing"}, made : Int] :
              r = flights[f] /\ r.key = k
      BY <1>2, <2>3
    <3>2. PICK p : p = [r EXCEPT !.stage = "writing"]
      OBVIOUS
    <3>3. p = [key |-> k, stage |-> "writing", made |-> r.made]
      BY <3>1, <3>2
    <3>4. [p EXCEPT !.made = time] = [key |-> k, stage |-> "writing", made |-> time]
      BY <3>3
    <3> QED
      BY <3>1, <3>2, <3>4
  <2> QED
    BY <2>1, <2>2, <2>4
<1>4. /\ flights' \in Seq(FlightStates) /\ Len(flights') = Len(flights) /\ flights'[f] = new
      /\ \A g \in 1..Len(flights) : g # f => flights'[g] = flights[g]
  <2>1. /\ [flights EXCEPT ![f] = new] \in Seq(FlightStates)
        /\ Len([flights EXCEPT ![f] = new]) = Len(flights)
    BY <1>1, ExceptSeq
  <2> QED
    BY <1>1, <1>3, <2>1
<1>5. \A l : RunsIn(flights', l) = RunsIn(flights, l)
  BY <1>1, <1>2, <1>3, <1>4 DEF RunsIn
<1>6. Flies(flights', inFlights', resets') /\ Awaits(asker', flights')
  BY <1>1, <1>3, <1>4, <1>5 DEF Flies, Awaits, Fetched
<1> QED
  BY <1>4, <1>6 DEF Fetched, CacheShape, AskersKnow, LruRanked, ServedInTime

LEMMA WrittenKeeps ==
    ASSUME CacheInv, NEW f \in FlightIds, Written(f) PROVE CacheInv'
<1> USE DEF CacheInv
<1>1. Running(f) /\ FlightEnds(f, "fetched")
  BY DEF Written, Running
<1>2. /\ flights' \in Seq(FlightStates) /\ Len(flights') <= MaxFlights
      /\ inFlights' \in [CacheKeys -> 1..MaxFlights \cup {NoFlight}]
      /\ asker' \in [Askers -> AskStates]
      /\ \A a \in Askers : asker'[a] = asker[a] \/ asker'[a].pc \in {"fetched", "failed"}
      /\ Flies(flights', inFlights', resets) /\ Awaits(asker', flights')
  BY <1>1, FlightStops
<1>3. PICK k \in CacheKeys : k = flights[f].key /\ flights[f].made \in Int
  <2>1. flights[f] \in FlightStates
    BY ElementOfSeq DEF CacheShape, FlightIds
  <2> QED
    BY <2>1 DEF Written, FlightStates, FlightOver
<1>4. /\ lru' = AfterSet(k) /\ older' = Used(k) /\ time' = time /\ resets' = resets
      /\ stamp' = Stamps(lru', [stamp EXCEPT ![k] = flights[f].made])
  BY <1>3 DEF Written
<1>5. stamp' \in [CacheKeys -> Int]
  <2>1. [stamp EXCEPT ![k] = flights[f].made] \in [CacheKeys -> Int]
    BY <1>3 DEF CacheShape
  <2> QED
    BY <1>4, <2>1, StampsFit
<1>6. LruRanked(lru, older)' /\ Len(lru') <= MaxEntries
  <2>1. /\ LruRanked(LruBut(k), older) /\ Len(lru) \in Nat /\ Len(LruBut(k)) \in Nat
        /\ \A i \in 1..Len(LruBut(k)) : LruBut(k)[i] # k
        /\ Len(LruBut(k)) = IF Present(k) THEN Len(lru) - 1 ELSE Len(lru)
        /\ MaxEntries \in Nat /\ MaxEntries >= 1 /\ Len(lru) <= MaxEntries
    BY LruButIs, CacheAssumption
  <2>2. CASE Present(k) \/ Len(lru) < MaxEntries
    <3>1. lru' = Append(LruBut(k), k)
      BY <1>4, <2>2 DEF AfterSet
    <3>2. LruRanked(Append(LruBut(k), k), Used(k)) /\ Len(Append(LruBut(k), k)) = Len(LruBut(k)) + 1
      BY <2>1, UsedLast
    <3> QED
      BY <1>4, <2>1, <2>2, <3>1, <3>2
  <2>3. CASE ~ (Present(k) \/ Len(lru) < MaxEntries)
    <3>1. lru' = Append(Tail(lru), k)
      BY <1>4, <2>3 DEF AfterSet
    <3>2. lru \in Seq(CacheKeys) /\ lru # <<>> /\ Len(lru) >= 1 /\ \A i \in 1..Len(lru) : lru[i] # k
      BY <2>1, <2>3 DEF Present, LruRanked
    <3>3. /\ Tail(lru) \in Seq(CacheKeys) /\ Len(Tail(lru)) = Len(lru) - 1
          /\ \A i \in 1..Len(Tail(lru)) : Tail(lru)[i] = lru[i + 1]
      BY <3>2, HeadTailProperties
    <3>4. LruRanked(Tail(lru), older) /\ \A i \in 1..Len(Tail(lru)) : Tail(lru)[i] # k
      <4>1. ASSUME NEW t, t = Tail(lru)
            PROVE  LruRanked(t, older) /\ \A i \in 1..Len(t) : t[i] # k
        <5>1. /\ t \in Seq(CacheKeys) /\ Len(t) = Len(lru) - 1 /\ Len(lru) \in Nat
              /\ \A i \in 1..Len(t) : i + 1 \in 1..Len(lru) /\ t[i] = lru[i + 1]
          <6>1. t \in Seq(CacheKeys) /\ Len(t) = Len(lru) - 1 /\ Len(lru) \in Nat
            BY <2>1, <3>3, <4>1
          <6>2. \A i \in 1..Len(t) : t[i] = lru[i + 1]
            BY <3>3, <4>1
          <6> QED
            BY <6>1, <6>2
        <5>2. LruRanked(lru, older)
          OBVIOUS
        <5>3. \A i, j \in 1..Len(t) : i < j => t[i] # t[j] /\ <<t[i], t[j]>> \in older
          <6>1. ASSUME NEW i \in 1..Len(t), NEW j \in 1..Len(t), i < j
                PROVE  t[i] # t[j] /\ <<t[i], t[j]>> \in older
            <7>1. /\ i + 1 \in 1..Len(lru) /\ j + 1 \in 1..Len(lru) /\ i + 1 < j + 1
                  /\ t[i] = lru[i + 1] /\ t[j] = lru[j + 1]
              BY <5>1, <6>1
            <7> QED
              BY <5>2, <7>1 DEF LruRanked
          <6> QED
            BY <6>1
        <5>4. \A i \in 1..Len(t) : t[i] # k
          BY <3>2, <5>1
        <5> QED
          BY <5>1, <5>3, <5>4 DEF LruRanked
      <4> QED
        BY <4>1
    <3>5. LruRanked(Append(Tail(lru), k), Used(k)) /\ Len(Append(Tail(lru), k)) = Len(Tail(lru)) + 1
      BY <3>4, UsedLast
    <3>6. Len(lru') <= MaxEntries
      <4>1. Len(lru') = Len(Tail(lru)) + 1 /\ Len(Tail(lru)) = Len(lru) - 1
        BY <3>1, <3>3, <3>5
      <4>2. Len(lru) \in Nat /\ MaxEntries \in Nat /\ Len(lru) <= MaxEntries
        BY <2>1
      <4> QED
        BY <4>1, <4>2
    <3> QED
      BY <1>4, <3>1, <3>5, <3>6
  <2> QED
    BY <2>2, <2>3
<1>7. CacheShape'
  BY <1>2, <1>4, <1>5, <1>6 DEF CacheShape, LruRanked
<1>8. AskersKnow' /\ ServedInTime'
  BY <1>2 DEF AskersKnow, ServedInTime
<1> QED
  BY <1>2, <1>4, <1>6, <1>7, <1>8

LEMMA FailsKeeps ==
    ASSUME CacheInv, NEW f \in FlightIds, FetchFails(f) PROVE CacheInv'
<1> USE DEF CacheInv
<1>1. /\ flights' \in Seq(FlightStates) /\ Len(flights') <= MaxFlights
      /\ inFlights' \in [CacheKeys -> 1..MaxFlights \cup {NoFlight}]
      /\ asker' \in [Askers -> AskStates]
      /\ \A a \in Askers : asker'[a] = asker[a] \/ asker'[a].pc \in {"fetched", "failed"}
      /\ Flies(flights', inFlights', resets) /\ Awaits(asker', flights')
  BY FlightStops DEF FetchFails
<1>2. AskersKnow' /\ ServedInTime'
  BY <1>1 DEF AskersKnow, ServedInTime
<1> QED
  BY <1>1, <1>2 DEF CacheShape, FetchFails, LruRanked

LEMMA DropKeeps ==
    ASSUME CacheInv, NEW k \in CacheKeys, Drop(k) PROVE CacheInv'
<1> USE DEF CacheInv
<1>1. /\ LruRanked(LruBut(k), older) /\ Len(lru) \in Nat
      /\ Len(LruBut(k)) = IF Present(k) THEN Len(lru) - 1 ELSE Len(lru)
      /\ MaxEntries \in Nat /\ Len(lru) <= MaxEntries
  BY LruButIs, CacheAssumption
<1>2. LruRanked(lru, older)' /\ Len(lru') <= MaxEntries
  BY <1>1 DEF Drop
<1>3. stamp' \in [CacheKeys -> Int]
  BY StampsFit DEF Drop, CacheShape
<1>4. CacheShape' /\ AskersKnow' /\ ServedInTime'
  BY <1>2, <1>3 DEF CacheShape, LruRanked, Drop, AskersKnow, ServedInTime
<1>5. Flies(flights', inFlights', resets') /\ Awaits(asker', flights')
  BY DEF Drop
<1> QED
  BY <1>2, <1>4, <1>5

LEMMA ClearKeepsCache == CacheInv /\ Clear => CacheInv'
<1> USE DEF CacheInv
<1> SUFFICES ASSUME CacheInv, Clear PROVE CacheInv'
  OBVIOUS
<1>1. stamp' \in [CacheKeys -> Int]
  BY StampsFit DEF Clear, CacheShape
<1>2. CacheShape' /\ AskersKnow' /\ ServedInTime' /\ Awaits(asker', flights')
  BY <1>1 DEF CacheShape, Clear, AskersKnow, ServedInTime
<1>3. LruRanked(lru, older)' /\ Len(lru') <= MaxEntries
  BY CacheAssumption DEF Clear, LruRanked
<1>4. Flies(flights', inFlights', resets')
  <2>1. ASSUME NEW k \in CacheKeys
        PROVE  /\ inFlights'[k] = NoFlight
               /\ Cardinality(RunsIn(flights, k)) <= resets + 1 /\ resets' = resets + 1
               /\ Cardinality(RunsIn(flights, k)) \in Nat /\ resets \in Nat
    BY RunsFinite DEF Clear, Flies, CacheShape
  <2>2. flights' = flights
    BY DEF Clear
  <2> QED
    BY <2>1, <2>2 DEF Flies
<1> QED
  BY <1>2, <1>3, <1>4

LEMMA CacheStepKeeps == CacheInv /\ [CacheNext]_cacheFlightVars => CacheInv'
<1> SUFFICES ASSUME CacheInv, [CacheNext]_cacheFlightVars PROVE CacheInv'
  OBVIOUS
<1>1. CASE TimePasses
  <2> USE <1>1 DEF TimePasses, CacheInv
  <2>1. CacheShape' /\ AskersKnow' /\ ServedInTime'
    BY DEF CacheShape, AskersKnow, ServedInTime
  <2>2. Flies(flights', inFlights', resets') /\ Awaits(asker', flights')
    OBVIOUS
  <2>3. LruRanked(lru', older') /\ Len(lru') <= MaxEntries
    OBVIOUS
  <2> QED
    BY <2>1, <2>2, <2>3
<1>2. CASE \E a \in Askers : Judge(a) \/ \E k \in CacheKeys : LookInto(a, k)
  BY <1>2, JudgeKeeps, LookKeeps
<1>3. CASE \E f \in FlightIds : Fetched(f) \/ Written(f) \/ FetchFails(f)
  BY <1>3, FetchedKeeps, WrittenKeeps, FailsKeeps
<1>4. CASE \E k \in CacheKeys : Drop(k)
  BY <1>4, DropKeeps
<1> QED
  BY <1>1, <1>2, <1>3, <1>4, ClearKeepsCache, CacheStands DEF CacheNext

(* The response cache is sound.                                            *)
THEOREM CacheIsSound == CacheSpec => []CacheSound
<1>1. CacheInv => CacheSound
  <2> SUFFICES ASSUME CacheInv PROVE CacheSound
    OBVIOUS
  <2> USE DEF CacheInv
  <2>1. \A k : RunningFor(k) = RunsIn(flights, k)
    BY DEF RunningFor, RunsIn, Running, FlightIds
  <2>2. FlightsExact
    BY <2>1 DEF FlightsExact, Flies, Awaits, Running
  <2>3. IsInjective(lru)
    <3>1. lru \in Seq(CacheKeys) /\ DOMAIN lru = 1..Len(lru) /\ Len(lru) \in Nat
      BY LenProperties DEF LruRanked
    <3>2. \A i, j \in 1..Len(lru) : i # j => i < j \/ j < i
      BY <3>1
    <3> QED
      BY <3>1, <3>2 DEF LruRanked, IsInjective
  <2> QED
    BY <2>2, <2>3 DEF CacheSound, LruExact, LruRanked
<1> QED
  BY <1>1, CacheStarts, CacheStepKeeps, PTL DEF CacheSpec
----------------------------------------------------------------------------
(* Lists, as the loop of normalizeCatalogEntries() makes them.             *)

(* A set of natural numbers that is not empty has a least element.         *)
LEMMA LeastNumber ==
    ASSUME NEW T \in SUBSET Nat, T # {}
    PROVE  \E k \in T : \A j \in T : k <= j
<1>1. PICK m : m \in T
  OBVIOUS
<1> DEFINE C == {0..k : k \in {j \in T : j <= m}}
           F == FiniteSubsetsOf(0..m)
<1>2. IsFiniteSet(0..m)
  BY <1>1, FS_Interval
<1>3. F = SUBSET (0..m)
  BY <1>2, FS_FiniteSubsetsOfFinite
<1>4. C \subseteq F /\ C # {}
  BY <1>1, <1>3
<1>5. IsWellFoundedOn(StrictSubsetOrdering(0..m), F)
  BY FS_StrictSubsetOrderingWellFounded
<1> HIDE DEF F
<1>6. \E x \in C : \A y \in C : ~ (<<y, x>> \in StrictSubsetOrdering(0..m))
  BY <1>4, <1>5, WFMin
<1>7. PICK k \in T : k <= m /\ \A j \in T : j <= m => <<0..j, 0..k>> \notin StrictSubsetOrdering(0..m)
  BY <1>6
<1>8. ASSUME NEW j \in T, j < k PROVE FALSE
  <2>0. j \in Nat /\ k \in Nat /\ m \in Nat /\ j < k /\ k <= m
    BY <1>1, <1>7, <1>8
  <2>1. 0..j \subseteq 0..k /\ 0..j # 0..k /\ 0..j \in SUBSET (0..m) /\ 0..k \in SUBSET (0..m)
    <3>1. k \in 0..k /\ k \notin 0..j
      BY <2>0
    <3> QED
      BY <2>0, <3>1
  <2>2. <<0..j, 0..k>> \in StrictSubsetOrdering(0..m)
    BY <2>1 DEF StrictSubsetOrdering
  <2> QED
    BY <2>2, <1>7, <1>8, <1>1
<1> QED
  BY <1>7, <1>8

(* Induction, over a set that stands for the property.                     *)
LEMMA CountUp ==
    ASSUME NEW T \in SUBSET Nat, 0 \in T, \A i \in T : i + 1 \in T
    PROVE  T = Nat
<1> SUFFICES ASSUME Nat \ T # {} PROVE FALSE
  OBVIOUS
<1>1. PICK k \in Nat \ T : \A j \in Nat \ T : k <= j
  BY LeastNumber
<1>2. k - 1 \in Nat /\ k - 1 \in T
  BY <1>1
<1> QED
  BY <1>1, <1>2

Listed == Metas \cup {NoId}

Builds(f, raw, n) ==
    f = [i \in 0..n |-> IF i = 0 THEN <<>> ELSE Keep(f[i - 1], raw[i])]

(* The loop of normalizeCatalogEntries() computes what it is defined by.   *)
LEMMA KeepingBuilds ==
    ASSUME NEW raw \in Seq(Listed)
    PROVE  Builds(Keeping(raw), raw, Len(raw))
<1> DEFINE T == {n \in Nat : \E f : Builds(f, raw, n)}
<1>1. 0 \in T
  <2>1. Builds([i \in 0..0 |-> <<>>], raw, 0)
    BY DEF Builds
  <2> QED
    BY <2>1
<1>2. ASSUME NEW n \in T PROVE n + 1 \in T
  <2>1. PICK f : Builds(f, raw, n)
    BY <1>2
  <2> DEFINE g == [i \in 0..(n + 1) |-> IF i <= n THEN f[i] ELSE Keep(f[n], raw[n + 1])]
  <2>2. ASSUME NEW i \in 0..(n + 1)
        PROVE  g[i] = IF i = 0 THEN <<>> ELSE Keep(g[i - 1], raw[i])
    <3>1. CASE i = 0
      <4>1. g[i] = f[0] /\ f[0] = <<>>
        BY <1>2, <2>1, <3>1 DEF Builds
      <4> QED
        BY <3>1, <4>1
    <3>2. CASE i # 0 /\ i <= n
      <4>1. g[i] = f[i] /\ g[i - 1] = f[i - 1]
        BY <1>2, <3>2
      <4>2. i \in 0..n
        BY <3>2
      <4>3. f[i] = Keep(f[i - 1], raw[i])
        BY <2>1, <3>2, <4>2 DEF Builds
      <4> QED
        BY <3>2, <4>1, <4>3
    <3>3. CASE i = n + 1
      <4>1. i # 0 /\ i - 1 = n /\ n \in 0..(n + 1) /\ ~ (i <= n) /\ n <= n
        BY <1>2, <3>3
      <4>2. g[i] = Keep(f[n], raw[n + 1]) /\ g[i - 1] = f[n]
        BY <4>1
      <4> QED
        BY <3>3, <4>1, <4>2
    <3> QED
      BY <1>2, <3>1, <3>2, <3>3
  <2>3. g = [i \in 0..(n + 1) |-> g[i]]
    OBVIOUS
  <2>4. Builds(g, raw, n + 1)
    <3> HIDE DEF g
    <3> QED
      BY <2>2, <2>3 DEF Builds
  <2> QED
    BY <1>2, <2>4
<1>3. Len(raw) \in T
  <2>1. T = Nat
    <3> HIDE DEF T
    <3>1. T \in SUBSET Nat
      BY DEF T
    <3> QED
      BY <1>1, <1>2, <3>1, CountUp
  <2> QED
    BY <2>1, LenProperties
<1>4. \E f : Builds(f, raw, Len(raw))
  BY <1>3
<1> QED
  BY <1>4 DEF Keeping, Builds

(* The distinct usable ids up to place i, and what the loop has made of    *)
(* them by then.                                                           *)
FirstsTo(raw, i) == {j \in Firsts(raw) : j <= i}

KeptWell(out, raw, i) ==
    LET n == Cardinality(FirstsTo(raw, i)) IN
    /\ out \in Seq(Listed)
    /\ Len(out) = IF n <= MaxItems THEN n ELSE MaxItems
    /\ \A j \in FirstsTo(raw, i) : Cardinality(FirstsTo(raw, j)) <= MaxItems =>
          /\ Cardinality(FirstsTo(raw, j)) <= Len(out)
          /\ out[Cardinality(FirstsTo(raw, j))] = raw[j]
    /\ \A p \in 1..Len(out) : \E j \in FirstsTo(raw, i) : out[p] = raw[j]
    /\ Len(out) < MaxItems => \A j \in 1..i : raw[j] # NoId => \E p \in 1..Len(out) : out[p] = raw[j]

LEMMA FirstsFinite ==
    ASSUME NEW raw \in Seq(Listed), NEW i \in Nat
    PROVE  /\ IsFiniteSet(FirstsTo(raw, i)) /\ Cardinality(FirstsTo(raw, i)) \in Nat
           /\ FirstsTo(raw, i) \subseteq 1..i /\ Firsts(raw) \subseteq 1..Len(raw) /\ Len(raw) \in Nat
<1>1. Len(raw) \in Nat /\ Firsts(raw) \subseteq 1..Len(raw)
  BY LenProperties DEF Firsts
<1>2. FirstsTo(raw, i) \subseteq 1..i /\ IsFiniteSet(1..i)
  BY <1>1, FS_Interval DEF FirstsTo
<1> QED
  BY <1>1, <1>2, FS_Subset, FS_CardinalityType

(* One turn of the loop.                                                   *)
LEMMA KeepKeeps ==
    ASSUME NEW raw \in Seq(Listed), NEW i \in Nat, i + 1 <= Len(raw),
           NEW out, KeptWell(out, raw, i)
    PROVE  KeptWell(Keep(out, raw[i + 1]), raw, i + 1)
<1> DEFINE m == i + 1
           x == raw[m]
           c == Cardinality(FirstsTo(raw, i))
           new == Keep(out, x)
<1> SUFFICES KeptWell(new, raw, m)
  OBVIOUS
<1>1. /\ m \in 1..Len(raw) /\ x \in Listed /\ m \in Nat /\ Len(raw) \in Nat
      /\ out \in Seq(Listed) /\ Len(out) \in Nat /\ c \in Nat /\ MaxItems \in Nat /\ MaxItems >= 1
      /\ DOMAIN out = 1..Len(out) /\ DOMAIN raw = 1..Len(raw)
  <2>1. Len(raw) \in Nat /\ DOMAIN raw = 1..Len(raw) /\ m \in Nat /\ m \in 1..Len(raw)
    BY LenProperties
  <2>2. x \in Listed
    BY <2>1, ElementOfSeq
  <2>3. out \in Seq(Listed) /\ Len(out) \in Nat /\ DOMAIN out = 1..Len(out)
    BY LenProperties DEF KeptWell
  <2> QED
    BY <2>1, <2>2, <2>3, FirstsFinite, CatalogsAssumption
<1>2. Len(out) = IF c <= MaxItems THEN c ELSE MaxItems
  BY DEF KeptWell
<1>3. ToSet(out) = {out[p] : p \in 1..Len(out)}
  BY <1>1 DEF ToSet
<1>4. CASE m \in Firsts(raw)
  <2>1. FirstsTo(raw, m) = FirstsTo(raw, i) \cup {m} /\ m \notin FirstsTo(raw, i)
    <3>1. \A j \in Firsts(raw) : j \in Nat /\ (j <= m <=> j <= i \/ j = m)
      <4>1. Firsts(raw) \subseteq 1..Len(raw)
        BY FirstsFinite
      <4> QED
        BY <1>1, <4>1
    <3> QED
      BY <1>4, <3>1 DEF FirstsTo
  <2>2. Cardinality(FirstsTo(raw, m)) = c + 1
    BY <2>1, FirstsFinite, FS_AddElement
  <2>3. x # NoId /\ \A j \in 1..i : raw[j] # x
    BY <1>1, <1>4 DEF Firsts
  <2>4. x \notin ToSet(out)
    <3>1. \A p \in 1..Len(out) : \E j \in 1..i : out[p] = raw[j]
      BY FirstsFinite DEF KeptWell
    <3> QED
      BY <1>3, <2>3, <3>1
  <2>5. CASE Len(out) >= MaxItems
    <3>1. new = out /\ c >= MaxItems /\ Len(out) = MaxItems
      BY <1>1, <1>2, <2>5 DEF Keep
    <3>2. Len(new) = IF c + 1 <= MaxItems THEN c + 1 ELSE MaxItems
      BY <1>1, <3>1
    <3>3. \A j \in FirstsTo(raw, m) : Cardinality(FirstsTo(raw, j)) <= MaxItems => j \in FirstsTo(raw, i)
      BY <1>1, <2>1, <2>2, <3>1
    <3> HIDE DEF m, c, new
    <3> QED
      BY <1>1, <2>1, <2>2, <3>1, <3>2, <3>3 DEF KeptWell
  <2>6. CASE Len(out) < MaxItems
    <3>1. new = Append(out, x) /\ c = Len(out)
      BY <1>1, <1>2, <2>3, <2>4, <2>6 DEF Keep
    <3>2. /\ new \in Seq(Listed) /\ Len(new) = Len(out) + 1 /\ new[Len(out) + 1] = x
          /\ \A p \in 1..Len(out) : new[p] = out[p]
      BY <1>1, <3>1, AppendProperties
    <3> HIDE DEF c, new
    <3>3. Len(new) = IF c + 1 <= MaxItems THEN c + 1 ELSE MaxItems
      BY <1>1, <2>6, <3>1, <3>2
    <3>4. ASSUME NEW j \in FirstsTo(raw, m), Cardinality(FirstsTo(raw, j)) <= MaxItems
          PROVE  /\ Cardinality(FirstsTo(raw, j)) <= Len(new)
                 /\ new[Cardinality(FirstsTo(raw, j))] = raw[j]
      <4>1. CASE j = m
        BY <1>1, <2>2, <3>1, <3>2, <4>1
      <4>2. CASE j \in FirstsTo(raw, i)
        <5>1. j \in Nat /\ j \in FirstsTo(raw, j)
          <6>1. j \in Firsts(raw) /\ Firsts(raw) \subseteq 1..Len(raw) /\ Len(raw) \in Nat
            BY <4>2, FirstsFinite DEF FirstsTo
          <6> QED
            BY <6>1 DEF FirstsTo
        <5>2. Cardinality(FirstsTo(raw, j)) \in Nat /\ Cardinality(FirstsTo(raw, j)) # 0
          BY <5>1, FirstsFinite, FS_EmptySet
        <5>3. Cardinality(FirstsTo(raw, j)) <= Len(out) /\ out[Cardinality(FirstsTo(raw, j))] = raw[j]
          BY <3>4, <4>2 DEF KeptWell
        <5> QED
          BY <1>1, <3>2, <5>2, <5>3
      <4> QED
        BY <2>1, <4>1, <4>2
    <3>5. ASSUME NEW p \in 1..Len(new) PROVE \E j \in FirstsTo(raw, m) : new[p] = raw[j]
      <4>1. CASE p = Len(out) + 1
        BY <2>1, <3>2, <4>1
      <4>2. CASE p \in 1..Len(out)
        BY <2>1, <3>2, <4>2 DEF KeptWell
      <4> QED
        BY <1>1, <3>2, <4>1, <4>2
    <3>6. ASSUME NEW j \in 1..m, raw[j] # NoId PROVE \E p \in 1..Len(new) : new[p] = raw[j]
      <4>1. CASE j = m
        <5>1. Len(out) + 1 \in 1..Len(new)
          BY <1>1, <3>2
        <5> QED
          BY <3>2, <4>1, <5>1
      <4>2. CASE j \in 1..i
        <5>1. PICK p \in 1..Len(out) : out[p] = raw[j]
          BY <2>6, <3>6, <4>2 DEF KeptWell
        <5>2. p \in 1..Len(new)
          BY <1>1, <3>2
        <5> QED
          BY <3>2, <5>1, <5>2
      <4> QED
        BY <4>1, <4>2
    <3> HIDE DEF m
    <3> QED
      BY <2>2, <3>2, <3>3, <3>4, <3>5, <3>6 DEF KeptWell
  <2> QED
    BY <1>1, <2>5, <2>6
<1>5. CASE m \notin Firsts(raw)
  <2>1. FirstsTo(raw, m) = FirstsTo(raw, i)
    <3>1. \A j \in Firsts(raw) : j \in Nat /\ (j <= m <=> j <= i \/ j = m)
      <4>1. Firsts(raw) \subseteq 1..Len(raw)
        BY FirstsFinite
      <4> QED
        BY <1>1, <4>1
    <3> QED
      BY <1>5, <3>1 DEF FirstsTo
  <2>2. x = NoId \/ \E j \in 1..i : raw[j] = x
    BY <1>1, <1>5 DEF Firsts
  <2>3. Len(out) >= MaxItems \/ x = NoId \/ x \in ToSet(out)
    BY <1>1, <1>3, <2>2 DEF KeptWell
  <2>4. new = out
    BY <2>3 DEF Keep
  <2>5. ASSUME Len(out) < MaxItems, NEW j \in 1..m, raw[j] # NoId
        PROVE  \E p \in 1..Len(out) : out[p] = raw[j]
    <3>1. CASE j = m
      BY <1>1, <1>3, <2>3, <2>5, <3>1
    <3>2. CASE j \in 1..i
      BY <2>5, <3>2 DEF KeptWell
    <3> QED
      BY <3>1, <3>2
  <2> HIDE DEF m, new
  <2> QED
    BY <2>1, <2>4, <2>5 DEF KeptWell
<1> QED
  BY <1>4, <1>5

(* What normalizeCatalogEntries() keeps.                                   *)
LEMMA KeptIs ==
    ASSUME NEW raw \in Seq(Listed)
    PROVE  KeptWell(Kept(raw), raw, Len(raw))
<1> DEFINE f == Keeping(raw)
           T == {i \in Nat : i <= Len(raw) => KeptWell(f[i], raw, i)}
<1>1. Builds(f, raw, Len(raw)) /\ Len(raw) \in Nat
  BY KeepingBuilds, LenProperties
<1> HIDE DEF f
<1>2. f[0] = <<>>
  BY <1>1 DEF Builds
<1>3. \A i \in 1..Len(raw) : f[i] = Keep(f[i - 1], raw[i])
  BY <1>1 DEF Builds
<1>4. 0 \in T
  <2>1. FirstsTo(raw, 0) = {}
    BY FirstsFinite
  <2>2. Cardinality({}) = 0 /\ MaxItems \in Nat /\ <<>> \in Seq(Listed) /\ Len(<<>>) = 0
    BY FS_EmptySet, CatalogsAssumption
  <2>3. KeptWell(<<>>, raw, 0)
    <3>1. PICK out : out = <<>>
      OBVIOUS
    <3>2. out \in Seq(Listed) /\ Len(out) = 0 /\ Cardinality(FirstsTo(raw, 0)) = 0
      BY <2>1, <2>2, <3>1
    <3>3. KeptWell(out, raw, 0)
      BY <2>1, <2>2, <3>2 DEF KeptWell
    <3> QED
      BY <3>1, <3>3
  <2> QED
    BY <1>2, <2>3
<1>5. ASSUME NEW i \in T PROVE i + 1 \in T
  <2>1. ASSUME i + 1 <= Len(raw) PROVE KeptWell(f[i + 1], raw, i + 1)
    <3>1. i \in Nat /\ i <= Len(raw) /\ i + 1 \in 1..Len(raw) /\ (i + 1) - 1 = i
      BY <1>1, <2>1
    <3>2. KeptWell(f[i], raw, i) /\ f[i + 1] = Keep(f[i], raw[i + 1])
      BY <1>3, <3>1
    <3> QED
      BY <2>1, <3>1, <3>2, KeepKeeps
  <2> QED
    BY <2>1
<1>6. T = Nat
  <2> HIDE DEF T
  <2>1. T \in SUBSET Nat
    BY DEF T
  <2> QED
    BY <1>4, <1>5, <2>1, CountUp
<1>7. KeptWell(f[Len(raw)], raw, Len(raw))
  <2>1. Len(raw) \in T
    BY <1>1, <1>6
  <2> QED
    BY <1>1, <2>1
<1> QED
  BY <1>7 DEF Kept, f

----------------------------------------------------------------------------
(* The pages of the catalogs.                                              *)

ShopStates == [rev : Nat, base : PageBases, offered : BOOLEAN]
PageStates == [base : PageBases, made : Nat]
EntryStates == [page : PageStates, until : Int]
BrowseStates ==
    [pc : {"idle", "looking", "fetching", "sharing", "storing", "answered"},
     host : PageReplicas \cup {NoHost}, rev : Nat, base : PageBases, live : BOOLEAN,
     page : PageStates \cup {NoPage}, since : Nat]

(* The address stood for a revision that is no older.                      *)
NoOlder(rev, base, names) == \E x \in names : x.rev >= rev /\ x.base = base

(* A replica's own idea of the addon is one that was named.                *)
ShopsFit(shops, names, n) ==
    /\ shops \in [PageReplicas -> ShopStates]
    /\ \A r \in PageReplicas : shops[r].rev <= n /\ NoOlder(shops[r].rev, shops[r].base, names)

(* An entry is of no older configuration than its revision, and expires a  *)
(* time to live after its page was made, or a tick later if that took one. *)
EntryFits(v, e, names) ==
    e = NoPage \/ /\ e \in EntryStates
                  /\ e.until <= e.page.made + PageTtl + 1
                  /\ NoOlder(v, e.page.base, names)

EntriesFit(at, names) ==
    /\ at \in [Revisions -> EntryStates \cup {NoPage}]
    /\ \A v \in Revisions : EntryFits(v, at[v], names)

(* A request takes no more than a tick; what it holds suits its revision.  *)
RequestFits(b, shops, names, now) ==
    /\ b \in BrowseStates
    /\ b.pc # "idle" =>
          /\ b.host \in PageReplicas /\ b.rev <= shops[b.host].rev
          /\ b.since <= now /\ now <= b.since + 1
          /\ NoOlder(b.rev, b.base, names)
    /\ b.pc \in {"sharing", "storing"} =>
          /\ b.page \in PageStates /\ b.since <= b.page.made
          /\ NoOlder(b.rev, b.page.base, names)
    /\ b.pc = "answered" =>
          /\ b.page \in PageStates /\ NoOlder(b.rev, b.page.base, names)
          /\ now - b.page.made <= PageTtl + 1 + (now - b.since)

CountsFit(counts) ==
    /\ counts \in [edits : Nat, asks : Nat, faults : Nat] /\ counts.edits <= MaxPageEdits

MemoriesFit(memories, names) ==
    /\ memories = [r \in PageReplicas |-> memories[r]]
    /\ \A r \in PageReplicas : EntriesFit(memories[r], names)

RequestsFit(requests, shops, names, now) ==
    /\ requests \in [Browsers -> BrowseStates]
    /\ \A b \in Browsers : RequestFits(requests[b], shops, names, now)

PagesInv ==
    /\ pageTime \in Nat /\ CountsFit(pageCounts)
    /\ named \subseteq [rev : Nat, base : PageBases]
    /\ ShopsFit(shop, named, pageCounts.edits)
    /\ pageRedis \in [up : BOOLEAN, at : [Revisions -> EntryStates \cup {NoPage}]]
    /\ EntriesFit(pageRedis.at, named) /\ MemoriesFit(pageMemory, named)
    /\ RequestsFit(browse, shop, named, pageTime)

(* What was no older stays so as more addresses are named.                 *)
LEMMA NamesGrow ==
    ASSUME NEW names, NEW more, names \subseteq more
    PROVE  /\ \A rev, base : NoOlder(rev, base, names) => NoOlder(rev, base, more)
           /\ \A at : EntriesFit(at, names) => EntriesFit(at, more)
           /\ \A m : MemoriesFit(m, names) => MemoriesFit(m, more)
<1>1. \A rev, base : NoOlder(rev, base, names) => NoOlder(rev, base, more)
  BY DEF NoOlder
<1>2. \A v, e : EntryFits(v, e, names) => EntryFits(v, e, more)
  BY <1>1 DEF EntryFits
<1>3. \A at : EntriesFit(at, names) => EntriesFit(at, more)
  BY <1>2 DEF EntriesFit
<1> QED
  BY <1>1, <1>3 DEF MemoriesFit

LEMMA PagesIdle == NoBrowse \in BrowseStates /\ NoBrowse.pc = "idle" /\ FirstBase \in PageBases
<1>1. FirstBase \in PageBases
  BY CatalogsAssumption DEF FirstBase
<1> QED
  BY <1>1 DEF NoBrowse, BrowseStates

LEMMA PagesStart == PagesInit => PagesInv
<1> SUFFICES ASSUME PagesInit PROVE PagesInv
  OBVIOUS
<1>1. /\ NoBrowse \in BrowseStates /\ NoBrowse.pc = "idle" /\ FirstBase \in PageBases
      /\ MaxPageEdits \in Nat
  BY PagesIdle, CatalogsAssumption
<1>2. pageTime \in Nat /\ CountsFit(pageCounts) /\ pageCounts.edits = 0
  BY <1>1 DEF PagesInit, CountsFit
<1>3. named \subseteq [rev : Nat, base : PageBases]
  BY <1>1 DEF PagesInit
<1>4. NoOlder(0, FirstBase, named)
  BY DEF NoOlder, PagesInit
<1>5. ShopsFit(shop, named, pageCounts.edits)
  <2>1. /\ shop \in [PageReplicas -> ShopStates]
        /\ \A r \in PageReplicas : shop[r].rev = 0 /\ shop[r].base = FirstBase
    BY <1>1 DEF PagesInit, ShopStates
  <2> QED
    BY <1>2, <1>4, <2>1 DEF ShopsFit
<1>6. \A at : at = [v \in Revisions |-> NoPage] => EntriesFit(at, named)
  BY DEF EntriesFit, EntryFits
<1>7. /\ pageRedis \in [up : BOOLEAN, at : [Revisions -> EntryStates \cup {NoPage}]]
      /\ EntriesFit(pageRedis.at, named) /\ MemoriesFit(pageMemory, named)
  BY <1>6 DEF PagesInit, MemoriesFit
<1>8. RequestsFit(browse, shop, named, pageTime)
  BY <1>1 DEF PagesInit, RequestsFit, RequestFits
<1> QED
  BY <1>2, <1>3, <1>5, <1>7, <1>8 DEF PagesInv

LEMMA PagesStand == PagesInv /\ UNCHANGED pageVars => PagesInv'
BY DEF PagesInv, pageVars

(* A request moves on; whatever else changes still fits.                   *)
LEMMA BrowseTurns ==
    ASSUME PagesInv, NEW b \in Browsers, NEW new, RequestFits(new, shop, named, pageTime),
           BrowseBecomes(b, new), UNCHANGED <<shop, named, pageTime>>
    PROVE  RequestsFit(browse', shop', named', pageTime')
<1>1. browse' = [browse EXCEPT ![b] = new] /\ browse \in [Browsers -> BrowseStates] /\ new \in BrowseStates
  BY DEF BrowseBecomes, PagesInv, RequestsFit, RequestFits
<1>2. /\ browse' \in [Browsers -> BrowseStates] /\ browse'[b] = new
      /\ \A c \in Browsers : c # b => browse'[c] = browse[c]
  BY <1>1
<1> QED
  BY <1>2 DEF PagesInv, RequestsFit

LEMMA PageCounted ==
    ASSUME CountsFit(pageCounts), NEW what \in {"asks", "faults"}, NEW most, PageCount(what, most)
    PROVE  CountsFit(pageCounts') /\ pageCounts'.edits = pageCounts.edits
<1>1. PICK c \in [edits : Nat, asks : Nat, faults : Nat] : c = pageCounts /\ c.edits <= MaxPageEdits
  BY DEF CountsFit
<1>2. pageCounts' = [c EXCEPT ![what] = c[what] + 1]
  BY <1>1 DEF PageCount
<1>3. CASE what = "asks"
  <2>1. pageCounts' = [edits |-> c.edits, asks |-> c.asks + 1, faults |-> c.faults]
    BY <1>2, <1>3
  <2> QED
    BY <1>1, <2>1 DEF CountsFit
<1>4. CASE what = "faults"
  <2>1. pageCounts' = [edits |-> c.edits, asks |-> c.asks, faults |-> c.faults + 1]
    BY <1>2, <1>4
  <2> QED
    BY <1>1, <2>1 DEF CountsFit
<1> QED
  BY <1>3, <1>4

LEMMA AskKeeps ==
    ASSUME PagesInv, NEW b \in Browsers, NEW r \in PageReplicas, AskPage(b, r) PROVE PagesInv'
<1>1. PICK s \in ShopStates : s = shop[r] /\ NoOlder(s.rev, s.base, named)
  BY DEF PagesInv, ShopsFit
<1>2. CountsFit(pageCounts') /\ pageCounts'.edits = pageCounts.edits
  BY PageCounted DEF AskPage, PagesInv
<1>3. PICK new : new = [NoBrowse EXCEPT !.pc = "looking", !.host = r, !.rev = s.rev,
                                        !.base = s.base, !.live = TRUE, !.since = pageTime]
  OBVIOUS
<1>4. new = [pc |-> "looking", host |-> r, rev |-> s.rev, base |-> s.base, live |-> TRUE,
             page |-> NoPage, since |-> pageTime]
  BY <1>3 DEF NoBrowse
<1>5. RequestFits(new, shop, named, pageTime)
  <2>1. new \in BrowseStates
    BY <1>1, <1>4 DEF BrowseStates, ShopStates, PagesInv
  <2>2. new.pc = "looking" /\ new.host = r /\ new.rev = s.rev /\ new.base = s.base /\ new.since = pageTime
    BY <1>4
  <2>3. pageTime \in Nat /\ s.rev \in Nat
    BY <1>1 DEF PagesInv, ShopStates
  <2> QED
    BY <1>1, <2>1, <2>2, <2>3 DEF RequestFits
<1>6. RequestsFit(browse', shop', named', pageTime')
  BY <1>1, <1>3, <1>5, BrowseTurns DEF AskPage
<1> QED
  BY <1>2, <1>6 DEF AskPage, PagesInv

(* The revision of a request is one there can be.                          *)
LEMMA KeyFits ==
    ASSUME PagesInv, NEW b \in Browsers, browse[b].pc # "idle"
    PROVE  /\ KeyOf(b) \in Revisions /\ browse[b] \in BrowseStates
           /\ RequestFits(browse[b], shop, named, pageTime)
           /\ browse[b].host \in PageReplicas
<1>1. browse[b] \in BrowseStates /\ RequestFits(browse[b], shop, named, pageTime)
  BY DEF PagesInv, RequestsFit
<1>2. PICK r \in PageReplicas : r = browse[b].host /\ browse[b].rev <= shop[r].rev
  BY <1>1 DEF RequestFits
<1>3. /\ shop[r].rev \in Nat /\ shop[r].rev <= pageCounts.edits
      /\ pageCounts.edits \in Nat /\ pageCounts.edits <= MaxPageEdits
  BY DEF PagesInv, ShopsFit, ShopStates, CountsFit
<1>4. browse[b].rev \in Nat /\ MaxPageEdits \in Nat
  BY <1>1, CatalogsAssumption DEF BrowseStates
<1> QED
  BY <1>1, <1>2, <1>3, <1>4 DEF KeyOf, Revisions

(* What the look-up brings is no older than an entry may be.               *)
LEMMA CachedFits ==
    ASSUME PagesInv, NEW b \in Browsers, browse[b].pc # "idle", CachedPage(b) # NoPage
    PROVE  /\ CachedPage(b) \in PageStates /\ NoOlder(browse[b].rev, CachedPage(b).base, named)
           /\ pageTime - CachedPage(b).made <= PageTtl + 1
<1>1. KeyOf(b) \in Revisions /\ browse[b].host \in PageReplicas /\ KeyOf(b) = browse[b].rev
  BY KeyFits DEF KeyOf
<1> DEFINE far == pageRedis.at[KeyOf(b)]
           near == pageMemory[browse[b].host][KeyOf(b)]
<1>2. EntryFits(KeyOf(b), far, named) /\ EntryFits(KeyOf(b), near, named)
  BY <1>1 DEF PagesInv, EntriesFit, MemoriesFit
<1>3. \/ LiveIn(far, 0) /\ CachedPage(b) = far.page
      \/ LiveIn(near, 1) /\ CachedPage(b) = near.page
  BY DEF CachedPage
<1> HIDE DEF far, near
<1>4. pageTime \in Nat /\ PageTtl \in Nat
  BY CatalogsAssumption DEF PagesInv
<1>5. ASSUME NEW e, NEW slack \in {0, 1}, EntryFits(KeyOf(b), e, named), LiveIn(e, slack)
      PROVE  /\ e.page \in PageStates /\ NoOlder(browse[b].rev, e.page.base, named)
             /\ pageTime - e.page.made <= PageTtl + 1
  <2>1. /\ e \in EntryStates /\ e.until <= e.page.made + PageTtl + 1
        /\ NoOlder(browse[b].rev, e.page.base, named) /\ pageTime < e.until + slack
    BY <1>1, <1>5 DEF EntryFits, LiveIn
  <2>2. e.page \in PageStates /\ e.until \in Int /\ e.page.made \in Nat
    BY <2>1 DEF EntryStates, PageStates
  <2> QED
    BY <1>4, <2>1, <2>2
<1> QED
  BY <1>2, <1>3, <1>5

LEMMA LookUpKeeps ==
    ASSUME PagesInv, NEW b \in Browsers, LookUpPage(b) PROVE PagesInv'
<1>1. PICK c \in BrowseStates : c = browse[b] /\ c.pc = "looking" /\ RequestFits(c, shop, named, pageTime)
  BY KeyFits DEF LookUpPage
<1>2. PICK page : page = CachedPage(b)
  OBVIOUS
<1>3. page # NoPage => /\ page \in PageStates /\ NoOlder(c.rev, page.base, named)
                       /\ pageTime - page.made <= PageTtl + 1
  BY <1>1, <1>2, CachedFits
<1>4. PICK pc \in {"fetching", "answered"} : pc = IF page = NoPage THEN "fetching" ELSE "answered"
  OBVIOUS
<1>5. PICK new : new = [c EXCEPT !.page = page, !.live = FALSE, !.pc = pc]
  OBVIOUS
<1>6. /\ new \in BrowseStates /\ new.pc = pc /\ new.host = c.host /\ new.rev = c.rev
      /\ new.base = c.base /\ new.since = c.since /\ new.page = page
  BY <1>3, <1>4, <1>5 DEF BrowseStates
<1>7. RequestFits(new, shop, named, pageTime)
  <2>1. /\ c.host \in PageReplicas /\ c.rev <= shop[c.host].rev /\ NoOlder(c.rev, c.base, named)
        /\ c.since <= pageTime /\ pageTime <= c.since + 1
    BY <1>1 DEF RequestFits
  <2>2. pc = "answered" => pageTime - page.made <= PageTtl + 1 + (pageTime - c.since)
    <3>1. pageTime \in Nat /\ c.since \in Nat /\ PageTtl \in Nat
      BY CatalogsAssumption DEF PagesInv, BrowseStates
    <3>2. page # NoPage => page.made \in Nat
      BY <1>3 DEF PageStates
    <3> QED
      BY <1>3, <1>4, <2>1, <3>1, <3>2
  <2> QED
    BY <1>3, <1>4, <1>6, <2>1, <2>2 DEF RequestFits
<1>8. BrowseBecomes(b, new)
  BY <1>1, <1>2, <1>4, <1>5 DEF LookUpPage
<1>9. RequestsFit(browse', shop', named', pageTime')
  BY <1>7, <1>8, BrowseTurns DEF LookUpPage
<1> QED
  BY <1>9 DEF LookUpPage, PagesInv

LEMMA FetchPageKeeps ==
    ASSUME PagesInv, NEW b \in Browsers, FetchPage(b) PROVE PagesInv'
<1>1. PICK c \in BrowseStates : c = browse[b] /\ c.pc = "fetching" /\ RequestFits(c, shop, named, pageTime)
  BY KeyFits DEF FetchPage
<1>2. PICK page : page = [base |-> c.base, made |-> pageTime]
  OBVIOUS
<1>3. page \in PageStates /\ page.base = c.base /\ page.made = pageTime
  BY <1>2 DEF PageStates, BrowseStates, PagesInv
<1>4. PICK pc \in {"sharing", "storing"} : pc = IF pageRedis.up THEN "sharing" ELSE "storing"
  OBVIOUS
<1>5. PICK new : new = [c EXCEPT !.pc = pc, !.page = page]
  OBVIOUS
<1>6. /\ new \in BrowseStates /\ new.pc = pc /\ new.host = c.host /\ new.rev = c.rev
      /\ new.base = c.base /\ new.since = c.since /\ new.page = page
  BY <1>3, <1>4, <1>5 DEF BrowseStates
<1>7. RequestFits(new, shop, named, pageTime)
  BY <1>1, <1>3, <1>4, <1>6 DEF RequestFits
<1>8. BrowseBecomes(b, new)
  BY <1>1, <1>2, <1>4, <1>5 DEF FetchPage
<1>9. RequestsFit(browse', shop', named', pageTime')
  BY <1>7, <1>8, BrowseTurns DEF FetchPage
<1> QED
  BY <1>9 DEF FetchPage, PagesInv

(* The entry of a page that was just fetched.                              *)
LEMMA EntryIs ==
    ASSUME PagesInv, NEW b \in Browsers, browse[b].pc \in {"sharing", "storing"}
    PROVE  PageEntry(b) \in EntryStates /\ EntryFits(KeyOf(b), PageEntry(b), named)
<1>1. PICK c \in BrowseStates : c = browse[b] /\ RequestFits(c, shop, named, pageTime)
  BY KeyFits
<1>2. /\ c.page \in PageStates /\ c.since <= c.page.made /\ NoOlder(c.rev, c.page.base, named)
      /\ pageTime <= c.since + 1
  BY <1>1 DEF RequestFits
<1>3. PICK life \in Nat : life = PageLife(c.base) /\ life <= PageTtl
  <2>1. HintOf[c.base] \in Nat /\ PageTtl \in Nat
    BY <1>1, CatalogsAssumption DEF BrowseStates
  <2> QED
    BY <2>1 DEF PageLife
<1>4. PICK e : e = [page |-> c.page, until |-> pageTime + life]
  OBVIOUS
<1>5. pageTime \in Nat /\ c.since \in Nat /\ PageTtl \in Nat /\ c.page.made \in Nat
  BY <1>1, <1>2, CatalogsAssumption DEF PagesInv, BrowseStates, PageStates
<1>6. e \in EntryStates /\ e.page = c.page /\ e.until = pageTime + life
  BY <1>2, <1>4, <1>5 DEF EntryStates
<1>7. e.until <= e.page.made + PageTtl + 1
  BY <1>2, <1>3, <1>5, <1>6
<1>8. EntryFits(c.rev, e, named)
  BY <1>2, <1>6, <1>7 DEF EntryFits
<1>9. e = PageEntry(b)
  BY <1>1, <1>3, <1>4 DEF PageEntry
<1> QED
  BY <1>1, <1>6, <1>8, <1>9 DEF KeyOf

LEMMA EntryPut ==
    ASSUME NEW at, EntriesFit(at, named), NEW v \in Revisions, NEW e \in EntryStates, EntryFits(v, e, named)
    PROVE  EntriesFit([at EXCEPT ![v] = e], named)
BY DEF EntriesFit

LEMMA ShareKeeps ==
    ASSUME PagesInv, NEW b \in Browsers, SharePage(b) PROVE PagesInv'
<1>1. PICK c \in BrowseStates : c = browse[b] /\ c.pc = "sharing" /\ RequestFits(c, shop, named, pageTime)
  BY KeyFits DEF SharePage
<1>2. PICK new : new = [c EXCEPT !.pc = "storing"]
  OBVIOUS
<1>3. /\ new \in BrowseStates /\ new.pc = "storing" /\ new.host = c.host /\ new.rev = c.rev
      /\ new.base = c.base /\ new.since = c.since /\ new.page = c.page
  BY <1>2 DEF BrowseStates
<1>4. RequestFits(new, shop, named, pageTime)
  BY <1>1, <1>3 DEF RequestFits
<1>5. RequestsFit(browse', shop', named', pageTime')
  BY <1>1, <1>2, <1>4, BrowseTurns DEF SharePage
<1>6. /\ KeyOf(b) \in Revisions /\ PageEntry(b) \in EntryStates
      /\ EntryFits(KeyOf(b), PageEntry(b), named)
  BY <1>1, KeyFits, EntryIs
<1>7. PICK at : at = [pageRedis.at EXCEPT ![KeyOf(b)] = PageEntry(b)]
  OBVIOUS
<1>8. EntriesFit(at, named)
  BY <1>6, <1>7, EntryPut DEF PagesInv
<1>9. pageRedis' = [pageRedis EXCEPT !.at = at]
  BY <1>7 DEF SharePage
<1>10. /\ pageRedis' \in [up : BOOLEAN, at : [Revisions -> EntryStates \cup {NoPage}]]
       /\ pageRedis'.at = at
  BY <1>8, <1>9 DEF PagesInv, EntriesFit
<1> QED
  BY <1>5, <1>8, <1>10 DEF SharePage, PagesInv

LEMMA StoreKeeps ==
    ASSUME PagesInv, NEW b \in Browsers, StorePage(b) PROVE PagesInv'
<1>1. PICK c \in BrowseStates : c = browse[b] /\ c.pc = "storing" /\ RequestFits(c, shop, named, pageTime)
  BY KeyFits DEF StorePage
<1>2. PICK new : new = [c EXCEPT !.pc = "answered"]
  OBVIOUS
<1>3. /\ new \in BrowseStates /\ new.pc = "answered" /\ new.host = c.host /\ new.rev = c.rev
      /\ new.base = c.base /\ new.since = c.since /\ new.page = c.page
  BY <1>2 DEF BrowseStates
<1>4. RequestFits(new, shop, named, pageTime)
  <2>1. /\ c.page \in PageStates /\ c.since <= c.page.made /\ NoOlder(c.rev, c.page.base, named)
        /\ c.since <= pageTime
    BY <1>1 DEF RequestFits
  <2>2. pageTime - c.page.made <= PageTtl + 1 + (pageTime - c.since)
    <3>1. pageTime \in Nat /\ c.since \in Nat /\ PageTtl \in Nat /\ c.page.made \in Nat
      BY <2>1, CatalogsAssumption DEF PagesInv, BrowseStates, PageStates
    <3> QED
      BY <2>1, <3>1
  <2> QED
    BY <1>1, <1>3, <2>1, <2>2 DEF RequestFits
<1>5. RequestsFit(browse', shop', named', pageTime')
  BY <1>1, <1>2, <1>4, BrowseTurns DEF StorePage
<1>6. /\ KeyOf(b) \in Revisions /\ PageEntry(b) \in EntryStates
      /\ EntryFits(KeyOf(b), PageEntry(b), named) /\ c.host \in PageReplicas
  BY <1>1, KeyFits, EntryIs
<1>7. PICK at : at = [pageMemory[c.host] EXCEPT ![KeyOf(b)] = PageEntry(b)]
  OBVIOUS
<1>8. EntriesFit(at, named)
  BY <1>6, <1>7, EntryPut DEF PagesInv, MemoriesFit
<1>9. pageMemory' = [pageMemory EXCEPT ![c.host] = at]
  BY <1>1, <1>7 DEF StorePage
<1>10. MemoriesFit(pageMemory', named)
  BY <1>6, <1>8, <1>9 DEF PagesInv, MemoriesFit
<1> QED
  BY <1>5, <1>10 DEF StorePage, PagesInv

LEMMA BrowseEnds ==
    ASSUME PagesInv, NEW b \in Browsers, AnswerPage(b) \/ PageFails(b) PROVE PagesInv'
<1>1. RequestFits(NoBrowse, shop, named, pageTime)
  BY PagesIdle DEF RequestFits
<1>2. /\ BrowseBecomes(b, NoBrowse)
      /\ UNCHANGED <<shop, pageRedis, pageMemory, named, pageTime>>
  BY DEF AnswerPage, PageFails
<1>3. RequestsFit(browse', shop', named', pageTime')
  BY <1>1, <1>2, BrowseTurns
<1>4. CountsFit(pageCounts') /\ pageCounts'.edits = pageCounts.edits
  BY PageCounted DEF AnswerPage, PageFails, PagesInv
<1> QED
  BY <1>2, <1>3, <1>4 DEF PagesInv

(* The addon changes: its record may be rewritten or let go where a        *)
(* request holds it, and no replica's revision goes back.                  *)
LEMMA ShopTurns ==
    ASSUME PagesInv, NEW r \in PageReplicas, NEW new \in ShopStates, NEW n \in Nat,
           shop' = [shop EXCEPT ![r] = new], named \subseteq named',
           named' \subseteq [rev : Nat, base : PageBases],
           shop[r].rev <= new.rev, new.rev <= n, pageCounts.edits <= n,
           NoOlder(new.rev, new.base, named'),
           browse' = Detached(r) \/ browse' = Readdressed(r, new.base), UNCHANGED pageTime
    PROVE  ShopsFit(shop', named', n) /\ RequestsFit(browse', shop', named', pageTime')
<1>1. /\ shop \in [PageReplicas -> ShopStates] /\ shop' \in [PageReplicas -> ShopStates]
      /\ shop'[r] = new /\ \A q \in PageReplicas : q # r => shop'[q] = shop[q]
  BY DEF PagesInv, ShopsFit
<1>2. ShopsFit(shop', named', n)
  <2>1. ASSUME NEW q \in PageReplicas
        PROVE  shop'[q].rev <= n /\ NoOlder(shop'[q].rev, shop'[q].base, named')
    <3>1. CASE q = r
      BY <1>1, <3>1
    <3>2. CASE q # r
      <4>1. shop[q].rev <= pageCounts.edits /\ NoOlder(shop[q].rev, shop[q].base, named)
        BY DEF PagesInv, ShopsFit
      <4>2. shop[q].rev \in Nat /\ pageCounts.edits \in Nat
        BY <1>1 DEF ShopStates, PagesInv, CountsFit
      <4>3. NoOlder(shop[q].rev, shop[q].base, named')
        BY <4>1, NamesGrow
      <4>4. shop[q].rev <= n
        BY <4>1, <4>2
      <4> QED
        BY <1>1, <3>2, <4>3, <4>4
    <3> QED
      BY <3>1, <3>2
  <2> QED
    BY <1>1, <2>1 DEF ShopsFit
<1>3. ASSUME NEW b \in Browsers
      PROVE  browse'[b] \in BrowseStates /\ RequestFits(browse'[b], shop', named', pageTime')
  <2>1. PICK c \in BrowseStates : c = browse[b] /\ RequestFits(c, shop, named, pageTime)
    BY DEF PagesInv, RequestsFit
  <2>2. RequestFits(c, shop', named', pageTime')
    <3>1. c.pc # "idle" => c.rev <= shop'[c.host].rev
      <4>1. ASSUME c.pc # "idle" PROVE c.rev <= shop'[c.host].rev
        <5>1. PICK q \in PageReplicas : q = c.host /\ c.rev <= shop[q].rev
          BY <2>1, <4>1 DEF RequestFits
        <5>2. c.rev \in Nat /\ shop[q].rev \in Nat /\ new.rev \in Nat
          BY <1>1, <2>1 DEF BrowseStates, ShopStates
        <5>3. shop[q].rev <= shop'[q].rev /\ shop'[q].rev \in Nat
          BY <1>1, <5>2
        <5> QED
          BY <5>1, <5>2, <5>3
      <4> QED
        BY <4>1
    <3>2. \A rev, base : NoOlder(rev, base, named) => NoOlder(rev, base, named')
      BY NamesGrow
    <3> QED
      BY <2>1, <3>1, <3>2 DEF RequestFits
  <2>3. CASE browse'[b] = c
    BY <2>1, <2>2, <2>3
  <2>4. CASE browse'[b] = [c EXCEPT !.live = FALSE]
    <3>1. PICK d : d = [c EXCEPT !.live = FALSE]
      OBVIOUS
    <3>2. /\ d \in BrowseStates /\ d.pc = c.pc /\ d.host = c.host /\ d.rev = c.rev
          /\ d.base = c.base /\ d.since = c.since /\ d.page = c.page
      BY <3>1 DEF BrowseStates
    <3> QED
      BY <2>2, <2>4, <3>1, <3>2 DEF RequestFits
  <2>5. CASE browse'[b] = [c EXCEPT !.base = new.base] /\ c.pc = "looking" /\ c.host = r
    <3>1. PICK d : d = [c EXCEPT !.base = new.base]
      OBVIOUS
    <3>2. /\ d \in BrowseStates /\ d.pc = c.pc /\ d.host = c.host /\ d.rev = c.rev
          /\ d.base = new.base /\ d.since = c.since /\ d.page = c.page
      BY <3>1 DEF BrowseStates, ShopStates
    <3>3. c.rev <= new.rev /\ c.rev \in Nat /\ new.rev \in Nat
      BY <1>1, <2>2, <2>5 DEF RequestFits, BrowseStates, ShopStates
    <3>4. NoOlder(c.rev, new.base, named')
      <4>1. PICK x \in named' : x.rev >= new.rev /\ x.base = new.base
        BY DEF NoOlder
      <4>2. x.rev \in Nat
        OBVIOUS
      <4>3. x.rev >= c.rev
        BY <3>3, <4>1, <4>2
      <4> QED
        BY <4>1, <4>3 DEF NoOlder
    <3> QED
      BY <2>2, <2>5, <3>1, <3>2, <3>4 DEF RequestFits
  <2> QED
    BY <2>1, <2>3, <2>4, <2>5 DEF Detached, Readdressed, Holds
<1>4. browse' \in [Browsers -> BrowseStates]
  BY <1>3 DEF Detached, Readdressed
<1> QED
  BY <1>2, <1>3, <1>4 DEF RequestsFit

LEMMA ReconfigureKeeps ==
    ASSUME PagesInv, NEW r \in PageReplicas, Reconfigure(r) PROVE PagesInv'
<1>1. PICK s \in ShopStates : s = shop[r] /\ s.rev <= pageCounts.edits
  BY DEF PagesInv, ShopsFit
<1>2. PICK u \in PageBases, on \in BOOLEAN :
          Mutated(r, u, on) /\ (browse' = Readdressed(r, u) \/ browse' = Detached(r))
  <2>1. CASE \E u \in PageBases, on \in BOOLEAN, m \in CatalogManifests :
                Mutated(r, u, on /\ Offers(m)) /\ browse' = Readdressed(r, u)
    <3>1. PICK u \in PageBases, on \in BOOLEAN, m \in CatalogManifests :
              Mutated(r, u, on /\ Offers(m)) /\ browse' = Readdressed(r, u)
      BY <2>1
    <3>2. (on /\ Offers(m)) \in BOOLEAN
      BY Zenon
    <3> QED
      BY <3>1, <3>2
  <2>2. CASE Mutated(r, shop[r].base, FALSE) /\ browse' = Detached(r)
    BY <1>1, <2>2 DEF ShopStates
  <2> QED
    BY <2>1, <2>2 DEF Reconfigure
<1>3. PICK new \in ShopStates : new = [rev |-> s.rev + 1, base |-> u, offered |-> on]
  <2>1. s.rev + 1 \in Nat
    BY <1>1 DEF ShopStates
  <2>2. [rev |-> s.rev + 1, base |-> u, offered |-> on] \in ShopStates
    BY <2>1 DEF ShopStates
  <2> QED
    BY <2>2
<1>4. shop' = [shop EXCEPT ![r] = new] /\ named' = named \cup {[rev |-> s.rev + 1, base |-> u]}
  BY <1>1, <1>2, <1>3 DEF Mutated
<1>5. /\ CountsFit(pageCounts') /\ pageCounts'.edits = pageCounts.edits + 1
      /\ pageCounts.edits \in Nat /\ s.rev \in Nat
  <2>1. PICK c \in [edits : Nat, asks : Nat, faults : Nat] : c = pageCounts
    BY DEF PagesInv, CountsFit
  <2>2. pageCounts' = [c EXCEPT !["edits"] = c["edits"] + 1] /\ c.edits < MaxPageEdits
    BY <2>1 DEF Reconfigure, PageCount
  <2>3. pageCounts' = [edits |-> c.edits + 1, asks |-> c.asks, faults |-> c.faults]
    BY <2>1, <2>2
  <2>4. MaxPageEdits \in Nat /\ c.edits \in Nat
    BY CatalogsAssumption
  <2> QED
    BY <1>1, <2>1, <2>2, <2>3, <2>4 DEF CountsFit, ShopStates
<1>6. new.rev = s.rev + 1 /\ new.base = u
  BY <1>3
<1>7. NoOlder(new.rev, new.base, named')
  <2>1. PICK x : x = [rev |-> s.rev + 1, base |-> u]
    OBVIOUS
  <2>2. x \in named' /\ x.rev = s.rev + 1 /\ x.base = u /\ x.rev >= s.rev + 1
    BY <1>4, <1>5, <2>1
  <2> QED
    BY <1>6, <2>2 DEF NoOlder
<1>9. named' \subseteq [rev : Nat, base : PageBases] /\ named \subseteq named'
  BY <1>4, <1>5 DEF PagesInv
<1>8. ShopsFit(shop', named', pageCounts'.edits) /\ RequestsFit(browse', shop', named', pageTime')
  <2>1. /\ named \subseteq named' /\ shop[r].rev <= new.rev /\ new.rev <= pageCounts'.edits
        /\ pageCounts.edits <= pageCounts'.edits /\ pageCounts'.edits \in Nat
        /\ UNCHANGED pageTime
    BY <1>1, <1>4, <1>5, <1>6 DEF Reconfigure
  <2>2. browse' = Detached(r) \/ browse' = Readdressed(r, new.base)
    BY <1>2, <1>6
  <2> QED
    BY <1>4, <1>7, <1>9, <2>1, <2>2, ShopTurns
<1>10. EntriesFit(pageRedis.at, named') /\ MemoriesFit(pageMemory, named')
  BY <1>9, NamesGrow DEF PagesInv
<1> QED
  BY <1>5, <1>8, <1>9, <1>10 DEF Reconfigure, PagesInv

LEMMA AdoptKeeps ==
    ASSUME PagesInv, NEW r \in PageReplicas, NEW q \in PageReplicas, Adopt(r, q) PROVE PagesInv'
<1>1. PICK new \in ShopStates : /\ new = shop[q] /\ new.rev <= pageCounts.edits
                                /\ NoOlder(new.rev, new.base, named)
  BY DEF PagesInv, ShopsFit
<1>2. /\ shop' = [shop EXCEPT ![r] = new] /\ named' = named /\ shop[r].rev <= new.rev
      /\ browse' = Detached(r) /\ pageTime' = pageTime /\ pageCounts' = pageCounts
      /\ pageCounts.edits \in Nat /\ pageCounts.edits <= pageCounts.edits
  <2>1. shop[r].rev \in Nat /\ new.rev \in Nat /\ pageCounts.edits \in Nat
    BY DEF PagesInv, ShopsFit, ShopStates, CountsFit
  <2> QED
    BY <1>1, <2>1 DEF Adopt
<1>3. ShopsFit(shop', named', pageCounts.edits) /\ RequestsFit(browse', shop', named', pageTime')
  BY <1>1, <1>2, ShopTurns DEF PagesInv
<1> QED
  BY <1>2, <1>3 DEF Adopt, PagesInv

LEMMA RedisKeeps == PagesInv /\ RedisTurns => PagesInv'
<1> SUFFICES ASSUME PagesInv, RedisTurns PROVE PagesInv'
  OBVIOUS
<1>1. PICK p \in [up : BOOLEAN, at : [Revisions -> EntryStates \cup {NoPage}]] : p = pageRedis
  BY DEF PagesInv
<1>2. PICK q : q = [p EXCEPT !.up = ~ p.up]
  OBVIOUS
<1>3. q \in [up : BOOLEAN, at : [Revisions -> EntryStates \cup {NoPage}]] /\ q.at = p.at
  BY <1>1, <1>2
<1>4. pageRedis' = q
  BY <1>1, <1>2 DEF RedisTurns
<1>5. CountsFit(pageCounts') /\ pageCounts'.edits = pageCounts.edits
  BY PageCounted DEF RedisTurns, PagesInv
<1> QED
  BY <1>1, <1>3, <1>4, <1>5 DEF RedisTurns, PagesInv

LEMMA UnexpiredFits ==
    ASSUME NEW at, NEW slack, EntriesFit(at, named) PROVE EntriesFit(Unexpired(at, slack), named)
BY DEF EntriesFit, EntryFits, Unexpired

LEMMA PageTimeKeeps == PagesInv /\ PageTimePasses => PagesInv'
<1> SUFFICES ASSUME PagesInv, PageTimePasses PROVE PagesInv'
  OBVIOUS
<1>1. pageTime \in Nat /\ pageTime' = pageTime + 1 /\ PageTtl \in Nat
  BY CatalogsAssumption DEF PagesInv, PageTimePasses
<1>2. PICK at : at = Unexpired(pageRedis.at, 0) /\ EntriesFit(at, named)
  BY UnexpiredFits DEF PagesInv
<1>3. /\ pageRedis' \in [up : BOOLEAN, at : [Revisions -> EntryStates \cup {NoPage}]]
      /\ pageRedis'.at = at
  BY <1>2 DEF PageTimePasses, PagesInv, EntriesFit
<1>4. MemoriesFit(pageMemory', named)
  BY UnexpiredFits DEF PageTimePasses, PagesInv, MemoriesFit
<1>5. ASSUME NEW b \in Browsers PROVE RequestFits(browse[b], shop, named, pageTime')
  <2>1. PICK c \in BrowseStates : c = browse[b] /\ RequestFits(c, shop, named, pageTime)
    BY DEF PagesInv, RequestsFit
  <2>2. c.pc # "idle" => c.since = pageTime
    BY <2>1 DEF PageTimePasses
  <2>3. c.since \in Nat
    BY <2>1 DEF BrowseStates
  <2>4. c.pc # "idle" => c.since <= pageTime' /\ pageTime' <= c.since + 1
    BY <1>1, <2>2, <2>3
  <2>5. c.pc = "answered" => pageTime' - c.page.made <= PageTtl + 1 + (pageTime' - c.since)
    <3>1. ASSUME c.pc = "answered"
          PROVE  pageTime' - c.page.made <= PageTtl + 1 + (pageTime' - c.since)
      <4>1. c.page.made \in Nat /\ pageTime - c.page.made <= PageTtl + 1 + (pageTime - c.since)
        BY <2>1, <3>1 DEF RequestFits, PageStates
      <4> QED
        BY <1>1, <2>3, <4>1
    <3> QED
      BY <3>1
  <2> QED
    BY <2>1, <2>4, <2>5 DEF RequestFits
<1> QED
  BY <1>1, <1>2, <1>3, <1>4, <1>5 DEF PageTimePasses, PagesInv, RequestsFit

LEMMA PagesStepKeeps == PagesInv /\ [PagesNext]_pageVars => PagesInv'
<1> SUFFICES ASSUME PagesInv, [PagesNext]_pageVars PROVE PagesInv'
  OBVIOUS
<1>1. CASE \E b \in Browsers :
             \/ \E r \in PageReplicas : AskPage(b, r)
             \/ LookUpPage(b) \/ FetchPage(b) \/ SharePage(b) \/ StorePage(b)
             \/ AnswerPage(b) \/ PageFails(b)
  BY <1>1, AskKeeps, LookUpKeeps, FetchPageKeeps, ShareKeeps, StoreKeeps, BrowseEnds
<1>2. CASE \E r \in PageReplicas : Reconfigure(r) \/ \E q \in PageReplicas : Adopt(r, q)
  BY <1>2, ReconfigureKeeps, AdoptKeeps
<1> QED
  BY <1>1, <1>2, RedisKeeps, PageTimeKeeps, PagesStand DEF PagesNext

(* The pages are sound.                                                    *)
THEOREM PagesAreSound == PagesSpec => []PagesSound
<1>1. PagesInv => PagesSound
  <2> SUFFICES ASSUME PagesInv, NEW b \in PagesAnswered
               PROVE  LET a == browse[b]  raw == ListOf[a.page.base]  metas == Kept(raw) IN
                      /\ \E x \in named : x.rev >= a.rev /\ x.base = a.page.base
                      /\ pageTime - a.page.made <= PageTtl + 2
                      /\ Len(metas) <= MaxItems
                      /\ \A i \in Firsts(raw) : Rank(raw, i) <= MaxItems =>
                            Rank(raw, i) <= Len(metas) /\ metas[Rank(raw, i)] = raw[i]
    BY DEF PagesSound
  <2>1. PICK c \in BrowseStates : /\ c = browse[b] /\ c.pc = "answered"
                                  /\ RequestFits(c, shop, named, pageTime)
    BY DEF PagesAnswered, PagesInv, RequestsFit
  <2>2. /\ c.page \in PageStates /\ NoOlder(c.rev, c.page.base, named)
        /\ pageTime - c.page.made <= PageTtl + 1 + (pageTime - c.since)
        /\ pageTime <= c.since + 1
    BY <2>1 DEF RequestFits
  <2>3. pageTime - c.page.made <= PageTtl + 2
    <3>1. pageTime \in Nat /\ c.since \in Nat /\ PageTtl \in Nat /\ c.page.made \in Nat
      BY <2>2, CatalogsAssumption DEF PagesInv, BrowseStates, PageStates
    <3> QED
      BY <2>2, <3>1
  <2>4. PICK raw \in Seq(Listed) : raw = ListOf[c.page.base]
    BY <2>2, CatalogsAssumption DEF PageStates, Listed
  <2>5. PICK metas : metas = Kept(raw) /\ KeptWell(metas, raw, Len(raw))
    BY KeptIs
  <2>6. Len(metas) <= MaxItems
    <3>1. Cardinality(FirstsTo(raw, Len(raw))) \in Nat /\ MaxItems \in Nat
      BY FirstsFinite, LenProperties, CatalogsAssumption
    <3> QED
      BY <2>5, <3>1 DEF KeptWell
  <2>7. ASSUME NEW i \in Firsts(raw), Rank(raw, i) <= MaxItems
        PROVE  Rank(raw, i) <= Len(metas) /\ metas[Rank(raw, i)] = raw[i]
    <3>1. i \in FirstsTo(raw, Len(raw)) /\ Rank(raw, i) = Cardinality(FirstsTo(raw, i))
      <4>1. Len(raw) \in Nat /\ DOMAIN raw = 1..Len(raw)
        BY LenProperties
      <4> QED
        BY <4>1 DEF FirstsTo, Rank, Firsts
    <3> QED
      BY <2>5, <2>7, <3>1 DEF KeptWell
  <2> QED
    BY <2>1, <2>2, <2>3, <2>4, <2>5, <2>6, <2>7 DEF NoOlder
<1> QED
  BY <1>1, PagesStart, PagesStepKeeps, PTL DEF PagesSpec
----------------------------------------------------------------------------
(* Media identities.                                                       *)

(* A value that differs from what TMDB says by now was given before the    *)
(* last change, and entries are no younger than the calls they come from.  *)
ViewStates ==
    [step : {"idle", "calling", "told"}, title : Titles \cup {AnyTitle}, since : Nat, told : Replies]

ViewSound(w) ==
    w.step # "idle" =>
        /\ w.title \in Titles
        /\ w.since <= hour /\ hour <= w.since + FetchTime
        /\ w.step = "told" => w.told = tmdb[w.title] \/ w.since <= editedAt[w.title]

MediaTimes ==
    /\ tmdb \in [Titles -> Replies] /\ editedAt \in [Titles -> Nat] /\ hour \in Nat
    /\ \A t \in Titles : editedAt[t] <= hour

PositiveSound ==
    /\ entry \in [Titles -> [value : Replies, until : Nat]]
    /\ \A t \in Titles :
          /\ entry[t].until <= hour + PosTtl
          /\ entry[t].value = tmdb[t] \/ entry[t].until <= editedAt[t] + PosTtl + FetchTime

NegativeSound ==
    /\ missing \in [Titles -> Nat]
    /\ \A t \in Titles :
          /\ missing[t] <= hour + NegTtl
          /\ tmdb[t] = Unknown \/ missing[t] <= editedAt[t] + NegTtl + FetchTime

ViewsSound ==
    /\ view \in [Viewers -> ViewStates]
    /\ \A v \in Viewers : ViewSound(view[v])

KnownSound ==
    /\ known \in Seq(Titles) /\ Len(known) <= MostTitles
    /\ \A i, j \in 1..Len(known) : known[i] = known[j] => i = j
    /\ \A i \in 1..Len(known) : entry[known[i]].value # Unknown

MediaInv == MediaTimes /\ PositiveSound /\ NegativeSound /\ ViewsSound /\ KnownSound /\ ~wrong

LEMMA NoViewIsView == NoView \in ViewStates /\ NoView.step = "idle"
BY DEF NoView, ViewStates, Replies

LEMMA MediaStarts == MediaInit => MediaInv
<1> SUFFICES ASSUME MediaInit PROVE MediaInv
  OBVIOUS
<1>1. MediaTimes /\ NegativeSound /\ ~wrong
  BY MediaAssumption DEF MediaInit, MediaTimes, NegativeSound, Replies
<1>2. PositiveSound
  BY MediaAssumption DEF MediaInit, PositiveSound, NoIdentity, Replies
<1>3. ViewsSound
  BY NoViewIsView DEF MediaInit, ViewsSound, ViewSound
<1>4. KnownSound
  BY MediaAssumption DEF MediaInit, KnownSound
<1> QED
  BY <1>1, <1>2, <1>3, <1>4 DEF MediaInv

LEMMA MediaStands == MediaInv /\ UNCHANGED mediaVars => MediaInv'
BY DEF MediaInv, mediaVars, MediaTimes, PositiveSound, NegativeSound, ViewsSound, ViewSound, KnownSound

(* The caches answer in time.                                              *)
LEMMA ResolveKeeps ==
    ASSUME MediaInv, NEW v \in Viewers, NEW t \in Titles, ResolveMedia(v, t)
    PROVE  MediaInv'
<1>1. MediaTimes' /\ PositiveSound' /\ NegativeSound' /\ KnownSound'
  BY DEF MediaInv, MediaTimes, PositiveSound, NegativeSound, KnownSound, ResolveMedia
<1>2. ~wrong'
  <2>1. CASE FreshIdentity(t)
    <3>1. PICK e \in [value : Replies, until : Nat] : e = entry[t]
      BY DEF MediaInv, PositiveSound
    <3>2. e.value = tmdb[t] \/ e.until <= editedAt[t] + PosTtl + FetchTime
      BY <3>1 DEF MediaInv, PositiveSound
    <3>3. hour < e.until /\ hour \in Nat /\ editedAt[t] \in Nat /\ e.until \in Nat
      BY <2>1, <3>1 DEF FreshIdentity, MediaInv, MediaTimes
    <3>4. Owed(t, entry[t].value, PosTtl + FetchTime)
      BY <3>1, <3>2, <3>3, MediaAssumption DEF Owed
    <3> QED
      BY <2>1, <3>4 DEF ResolveMedia, TellsInTime, MediaInv
  <2>2. CASE ~FreshIdentity(t) /\ hour < missing[t]
    <3>1. tmdb[t] = Unknown \/ missing[t] <= editedAt[t] + NegTtl + FetchTime
      BY DEF MediaInv, NegativeSound
    <3>2. hour \in Nat /\ editedAt[t] \in Nat /\ missing[t] \in Nat
      BY DEF MediaInv, MediaTimes, NegativeSound
    <3>3. Owed(t, Unknown, NegTtl + FetchTime)
      BY <2>2, <3>1, <3>2, MediaAssumption DEF Owed
    <3> QED
      BY <2>2, <3>3 DEF ResolveMedia, TellsInTime, MediaInv
  <2> QED
    BY <2>1, <2>2 DEF ResolveMedia, MediaInv
<1>3. ViewsSound'
  <2>1. CASE UNCHANGED view
    BY <2>1 DEF MediaInv, ViewsSound, ViewSound, ResolveMedia
  <2>2. CASE view' = [view EXCEPT ![v] = [NoView EXCEPT !.step = "calling", !.title = t, !.since = hour]]
    <3>1. PICK w : w = [NoView EXCEPT !.step = "calling", !.title = t, !.since = hour]
      OBVIOUS
    <3>2. w = [step |-> "calling", title |-> t, since |-> hour, told |-> Unknown]
      BY <3>1 DEF NoView
    <3>3. w \in ViewStates /\ ViewSound(w)'
      BY <3>2, MediaAssumption DEF ViewStates, ViewSound, MediaInv, MediaTimes, Replies, ResolveMedia
    <3>4. view' = [view EXCEPT ![v] = w]
      BY <2>2, <3>1
    <3> QED
      BY <3>3, <3>4 DEF MediaInv, ViewsSound, ViewSound, ResolveMedia
  <2> QED
    BY <2>1, <2>2 DEF ResolveMedia
<1> QED
  BY <1>1, <1>2, <1>3 DEF MediaInv

(* A request that is over.                                                 *)
LEMMA ViewEnds ==
    ASSUME MediaInv, NEW v \in Viewers, view' = [view EXCEPT ![v] = NoView],
           UNCHANGED <<tmdb, editedAt, hour>>
    PROVE  ViewsSound'
BY NoViewIsView DEF MediaInv, ViewsSound, ViewSound

LEMMA RepliesKeep ==
    ASSUME MediaInv, NEW v \in Viewers, TmdbReplies(v)
    PROVE  MediaInv'
<1>1. MediaTimes' /\ PositiveSound' /\ NegativeSound' /\ KnownSound' /\ ~wrong'
  BY DEF MediaInv, MediaTimes, PositiveSound, NegativeSound, KnownSound, TmdbReplies
<1>2. PICK w \in ViewStates : w = view[v]
  BY DEF MediaInv, ViewsSound
<1>3. ViewSound(w) /\ w.step = "calling"
  BY <1>2 DEF MediaInv, ViewsSound, TmdbReplies
<1>4. tmdb[w.title] \in Replies
  BY <1>3 DEF ViewSound, MediaInv, MediaTimes
<1>5. PICK x : x = [w EXCEPT !.step = "told", !.told = tmdb[w.title]]
  OBVIOUS
<1>6. x = [step |-> "told", title |-> w.title, since |-> w.since, told |-> tmdb[w.title]]
  BY <1>5 DEF ViewStates
<1>7. x \in ViewStates
  BY <1>4, <1>6 DEF ViewStates
<1>8. ViewSound(x)'
  BY <1>3, <1>6 DEF ViewSound, TmdbReplies
<1>9. view' = [view EXCEPT ![v] = x]
  BY <1>2, <1>5 DEF TmdbReplies
<1>10. ViewsSound'
  BY <1>7, <1>8, <1>9 DEF MediaInv, ViewsSound, ViewSound, TmdbReplies
<1> QED
  BY <1>1, <1>10 DEF MediaInv

(* What a call brings is not older than the call.                          *)
LEMMA ToldInTime ==
    ASSUME MediaInv, NEW v \in Viewers, view[v].step = "told"
    PROVE  /\ view[v].title \in Titles /\ view[v].told \in Replies
           /\ Owed(view[v].title, view[v].told, FetchTime)
           /\ \/ view[v].told = tmdb[view[v].title]
              \/ hour <= editedAt[view[v].title] + FetchTime
<1>1. PICK w \in ViewStates : w = view[v]
  BY DEF MediaInv, ViewsSound
<1>2. ViewSound(w) /\ w.step = "told" /\ w.since \in Nat /\ w.told \in Replies
  BY <1>1 DEF MediaInv, ViewsSound, ViewStates
<1>3. w.title \in Titles /\ editedAt[w.title] \in Nat /\ hour \in Nat
  BY <1>2 DEF ViewSound, MediaInv, MediaTimes
<1>4. w.told = tmdb[w.title] \/ hour <= editedAt[w.title] + FetchTime
  BY <1>2, <1>3, MediaAssumption DEF ViewSound
<1>5. Owed(w.title, w.told, FetchTime)
  BY <1>3, <1>4, MediaAssumption DEF Owed
<1> QED
  BY <1>1, <1>2, <1>3, <1>4, <1>5

(* Adding a key keeps the rest in order and evicts one at most.            *)
LEMMA StoredHolds ==
    ASSUME KnownSound, NEW t \in Titles
    PROVE  /\ Stored(t) \in Seq(Titles) /\ Len(Stored(t)) <= MostTitles
           /\ \A i, j \in 1..Len(Stored(t)) : Stored(t)[i] = Stored(t)[j] => i = j
           /\ \A i \in 1..Len(Stored(t)) :
                 Stored(t)[i] = t \/ \E j \in 1..Len(known) : Stored(t)[i] = known[j]
<1>1. PICK keys : keys = IF t \in ToSet(known) THEN known ELSE Append(known, t)
  OBVIOUS
<1>2. /\ keys \in Seq(Titles) /\ Len(keys) <= MostTitles + 1 /\ Len(keys) \in Nat
      /\ \A i, j \in 1..Len(keys) : keys[i] = keys[j] => i = j
      /\ \A i \in 1..Len(keys) : keys[i] = t \/ \E j \in 1..Len(known) : keys[i] = known[j]
  <2>1. CASE t \in ToSet(known)
    BY <1>1, <2>1, MediaAssumption DEF KnownSound
  <2>2. CASE t \notin ToSet(known)
    <3>1. \A i \in 1..Len(known) : known[i] # t
      BY <2>2 DEF ToSet, KnownSound
    <3>2. /\ keys \in Seq(Titles) /\ Len(keys) = Len(known) + 1 /\ keys[Len(known) + 1] = t
          /\ \A i \in 1..Len(known) : keys[i] = known[i]
      BY <1>1, <2>2 DEF KnownSound
    <3>3. Len(known) \in Nat /\ Len(known) <= MostTitles
      BY DEF KnownSound
    <3>4. \A i \in 1..Len(keys) : i = Len(keys) \/ i \in 1..Len(known)
      BY <3>2, <3>3
    <3>5. \A i, j \in 1..Len(keys) : keys[i] = keys[j] => i = j
      BY <3>1, <3>2, <3>3, <3>4 DEF KnownSound
    <3> QED
      BY <3>2, <3>3, <3>4, <3>5, MediaAssumption
  <2> QED
    BY <2>1, <2>2
<1>3. CASE Len(keys) <= MostTitles
  <2>1. Stored(t) = keys
    BY <1>1, <1>2, <1>3, MediaAssumption DEF Stored
  <2> QED
    BY <1>2, <1>3, <2>1
<1>4. CASE ~(Len(keys) <= MostTitles)
  <2>1. PICK rest : rest = Stored(t)
    OBVIOUS
  <2>2. rest = Tail(keys) /\ keys # <<>>
    BY <1>1, <1>2, <1>4, <2>1, MediaAssumption DEF Stored
  <2>3. /\ rest \in Seq(Titles) /\ Len(rest) = Len(keys) - 1
        /\ \A i \in 1..Len(rest) : rest[i] = keys[i + 1]
    BY <1>2, <2>2
  <2>4. \A i \in 1..Len(rest) : i + 1 \in 1..Len(keys)
    BY <1>2, <2>3
  <2>5. \A i, j \in 1..Len(rest) : rest[i] = rest[j] => i = j
    BY <1>2, <2>3, <2>4
  <2>6. \A i \in 1..Len(rest) : rest[i] = t \/ \E j \in 1..Len(known) : rest[i] = known[j]
    BY <1>2, <2>3, <2>4
  <2> QED
    BY <1>2, <2>1, <2>3, <2>5, <2>6, MediaAssumption
<1> QED
  BY <1>3, <1>4

LEMMA FoundKeeps ==
    ASSUME MediaInv, NEW v \in Viewers, IdentityFound(v)
    PROVE  MediaInv'
<1>1. PICK t \in Titles, told \in Replies : t = view[v].title /\ told = view[v].told
  BY ToldInTime DEF IdentityFound
<1>2. told # Unknown /\ Owed(t, told, FetchTime) /\ (told = tmdb[t] \/ hour <= editedAt[t] + FetchTime)
  BY <1>1, ToldInTime DEF IdentityFound
<1>3. /\ known' = Stored(t) /\ entry' = [entry EXCEPT ![t] = [value |-> told, until |-> hour + PosTtl]]
      /\ TellsInTime(t, told, FetchTime) /\ view' = [view EXCEPT ![v] = NoView]
      /\ UNCHANGED <<tmdb, editedAt, missing, hour>>
  BY <1>1 DEF IdentityFound
<1>4. MediaTimes' /\ NegativeSound' /\ ViewsSound' /\ ~wrong'
  BY <1>2, <1>3, ViewEnds DEF MediaInv, MediaTimes, NegativeSound, TellsInTime
<1>5. PositiveSound'
  <2>1. PICK e : e = [value |-> told, until |-> hour + PosTtl]
    OBVIOUS
  <2>2. hour \in Nat /\ editedAt[t] \in Nat
    BY DEF MediaInv, MediaTimes
  <2>3. /\ e \in [value : Replies, until : Nat] /\ e.until <= hour + PosTtl
        /\ e.value = tmdb[t] \/ e.until <= editedAt[t] + PosTtl + FetchTime
    BY <1>2, <2>1, <2>2, MediaAssumption
  <2>4. entry' = [entry EXCEPT ![t] = e]
    BY <1>3, <2>1
  <2> QED
    BY <1>3, <2>3, <2>4 DEF MediaInv, PositiveSound
<1>6. KnownSound'
  <2>1. \A i \in 1..Len(known) : entry[known[i]].value # Unknown /\ known[i] \in Titles
    BY DEF MediaInv, KnownSound
  <2>2. \A u \in Titles : entry'[u].value = IF u = t THEN told ELSE entry[u].value
    BY <1>3 DEF MediaInv, PositiveSound
  <2>3. PICK keys : keys = Stored(t)
    OBVIOUS
  <2>4. /\ keys \in Seq(Titles) /\ Len(keys) <= MostTitles
        /\ \A i, j \in 1..Len(keys) : keys[i] = keys[j] => i = j
        /\ \A i \in 1..Len(keys) : keys[i] = t \/ \E j \in 1..Len(known) : keys[i] = known[j]
    BY <2>3, StoredHolds DEF MediaInv
  <2>5. \A i \in 1..Len(keys) : entry'[keys[i]].value # Unknown
    BY <1>2, <2>1, <2>2, <2>4
  <2> QED
    BY <1>3, <2>3, <2>4, <2>5 DEF KnownSound
<1> QED
  BY <1>4, <1>5, <1>6 DEF MediaInv

LEMMA MissingKeeps ==
    ASSUME MediaInv, NEW v \in Viewers, IdentityMissing(v)
    PROVE  MediaInv'
<1>1. PICK t \in Titles : t = view[v].title
  BY ToldInTime DEF IdentityMissing
<1>2. Owed(t, Unknown, FetchTime) /\ (Unknown = tmdb[t] \/ hour <= editedAt[t] + FetchTime)
  BY <1>1, ToldInTime DEF IdentityMissing
<1>3. /\ missing' = [missing EXCEPT ![t] = hour + NegTtl]
      /\ TellsInTime(t, Unknown, FetchTime) /\ view' = [view EXCEPT ![v] = NoView]
      /\ UNCHANGED <<tmdb, editedAt, known, entry, hour>>
  BY <1>1 DEF IdentityMissing
<1>4. MediaTimes' /\ PositiveSound' /\ ViewsSound' /\ KnownSound' /\ ~wrong'
  BY <1>2, <1>3, ViewEnds DEF MediaInv, MediaTimes, PositiveSound, KnownSound, TellsInTime
<1>5. hour \in Nat /\ editedAt[t] \in Nat
  BY DEF MediaInv, MediaTimes
<1>6. NegativeSound'
  BY <1>2, <1>3, <1>5, MediaAssumption DEF MediaInv, NegativeSound
<1> QED
  BY <1>4, <1>6 DEF MediaInv

LEMMA CallFailsKeeps ==
    ASSUME MediaInv, NEW v \in Viewers, CallFails(v)
    PROVE  MediaInv'
<1>1. MediaTimes' /\ PositiveSound' /\ NegativeSound' /\ KnownSound' /\ ~wrong'
  BY DEF MediaInv, MediaTimes, PositiveSound, NegativeSound, KnownSound, CallFails
<1>2. ViewsSound'
  BY ViewEnds DEF CallFails
<1> QED
  BY <1>1, <1>2 DEF MediaInv

LEMMA ClearKeeps == MediaInv /\ ClearCache => MediaInv'
<1> SUFFICES ASSUME MediaInv, ClearCache PROVE MediaInv'
  OBVIOUS
<1>1. MediaTimes' /\ ViewsSound' /\ ~wrong'
  BY DEF MediaInv, MediaTimes, ViewsSound, ViewSound, ClearCache
<1>2. NegativeSound' /\ KnownSound'
  BY MediaAssumption DEF MediaInv, MediaTimes, NegativeSound, KnownSound, ClearCache
<1>3. PositiveSound'
  BY MediaAssumption DEF MediaInv, MediaTimes, PositiveSound, ClearCache, NoIdentity, Replies
<1> QED
  BY <1>1, <1>2, <1>3 DEF MediaInv

(* TMDB changes: what was given before is no longer true, but was given    *)
(* no later than now.                                                      *)
LEMMA EditKeeps ==
    ASSUME MediaInv, NEW t \in Titles, NEW value \in Replies, TmdbEdits(t, value)
    PROVE  MediaInv'
<1>1. MediaTimes' /\ KnownSound' /\ ~wrong'
  <2>1. /\ hour' \in Nat /\ tmdb' \in [Titles -> Replies] /\ editedAt' \in [Titles -> Nat]
        /\ \A u \in Titles : editedAt'[u] <= hour'
    BY DEF MediaInv, MediaTimes, TmdbEdits
  <2> QED
    BY <2>1 DEF MediaInv, MediaTimes, KnownSound, TmdbEdits
<1>2. \A u \in Titles :
         /\ u = t => editedAt'[u] = hour
         /\ u # t => tmdb'[u] = tmdb[u] /\ editedAt'[u] = editedAt[u]
  BY DEF MediaInv, MediaTimes, TmdbEdits
<1>3. PositiveSound'
  BY <1>2, MediaAssumption DEF MediaInv, MediaTimes, PositiveSound, TmdbEdits
<1>4. NegativeSound'
  BY <1>2, MediaAssumption DEF MediaInv, MediaTimes, NegativeSound, TmdbEdits
<1>5. ViewsSound'
  <2> SUFFICES ASSUME NEW v \in Viewers PROVE view[v] \in ViewStates /\ ViewSound(view[v])'
    BY DEF MediaInv, ViewsSound, TmdbEdits
  <2>1. view[v] \in ViewStates /\ ViewSound(view[v]) /\ UNCHANGED <<view, hour>>
    BY DEF MediaInv, ViewsSound, TmdbEdits
  <2> QED
    BY <1>2, <2>1 DEF ViewSound
<1> QED
  BY <1>1, <1>3, <1>4, <1>5 DEF MediaInv

LEMMA HourKeeps == MediaInv /\ HourPasses => MediaInv'
<1> SUFFICES ASSUME MediaInv, HourPasses PROVE MediaInv'
  OBVIOUS
<1>1. MediaTimes' /\ PositiveSound' /\ NegativeSound' /\ KnownSound' /\ ~wrong'
  <2>1. MediaTimes' /\ ~wrong'
    BY DEF MediaInv, MediaTimes, HourPasses
  <2>2. PositiveSound'
    BY MediaAssumption DEF MediaInv, MediaTimes, PositiveSound, HourPasses
  <2>3. NegativeSound'
    BY MediaAssumption DEF MediaInv, MediaTimes, NegativeSound, HourPasses
  <2>4. KnownSound'
    BY DEF MediaInv, KnownSound, HourPasses
  <2> QED
    BY <2>1, <2>2, <2>3, <2>4
<1>2. ViewsSound'
  <2> SUFFICES ASSUME NEW v \in Viewers PROVE view[v] \in ViewStates /\ ViewSound(view[v])'
    BY DEF MediaInv, ViewsSound, HourPasses
  <2>1. /\ view[v] \in ViewStates /\ ViewSound(view[v]) /\ view[v].since \in Nat
        /\ view[v].step # "idle" => hour < view[v].since + FetchTime
    BY DEF MediaInv, ViewsSound, ViewStates, HourPasses
  <2> QED
    BY <2>1, MediaAssumption DEF ViewSound, HourPasses, MediaInv, MediaTimes
<1> QED
  BY <1>1, <1>2 DEF MediaInv

LEMMA MediaStepKeeps == MediaInv /\ [MediaNext]_mediaVars => MediaInv'
BY MediaStands, ResolveKeeps, RepliesKeep, FoundKeeps, MissingKeeps, CallFailsKeeps, ClearKeeps,
   EditKeeps, HourKeeps DEF MediaNext

(* Media identities: nothing is answered that TMDB did not say within the  *)
(* life of an entry and the time of a call, "not found" within the short   *)
(* life, the cache keeps its size and holds a key once, for any numbers of *)
(* keys and concurrent requests, any lives and any changes at TMDB         *)
(* (mediaIdentity.ts).                                                     *)
THEOREM IdentitiesAreSound == MediaSpec => []IdentitySound
<1>1. MediaInv => IdentitySound
  BY DEF MediaInv, KnownSound, IdentitySound, IsInjective, ToSet
<1> QED
  BY <1>1, MediaStarts, MediaStepKeeps, PTL DEF MediaSpec
----------------------------------------------------------------------------
(* The file of a torrent that is played.                                   *)

FilesInv == files \in Seq(FileNames) /\ wish \in Wishes /\ fileIdx \in 0..1

LEMMA FilesKeep == FilesInv /\ [AddFile]_fileVars => FilesInv'
BY AppendProperties DEF FilesInv, AddFile, fileVars

(* Of the first n files one has the highest score, the earliest of them;   *)
(* one size, or 1, is the largest.                                         *)
LEMMA HighestOf ==
    ASSUME NEW n \in Nat \ {0}, NEW s, \A i \in 1..n : s[i] \in Int
    PROVE  \E i \in 1..n : \A j \in 1..n : s[i] > s[j] \/ (s[i] = s[j] /\ i <= j)
<1> DEFINE T == {k \in Nat : k \in 1..n => \E i \in 1..k : \A j \in 1..k :
                      s[i] > s[j] \/ (s[i] = s[j] /\ i <= j)}
<1>1. T \in SUBSET Nat /\ 0 \in T
  OBVIOUS
<1>2. ASSUME NEW k \in T PROVE k + 1 \in T
  <2> SUFFICES ASSUME k + 1 \in 1..n
               PROVE  \E i \in 1..(k + 1) : \A j \in 1..(k + 1) :
                          s[i] > s[j] \/ (s[i] = s[j] /\ i <= j)
    OBVIOUS
  <2>1. CASE k = 0
    BY <2>1
  <2>2. CASE k # 0
    <3>1. k \in 1..n
      BY <2>2
    <3>2. PICK i \in 1..k : \A j \in 1..k : s[i] > s[j] \/ (s[i] = s[j] /\ i <= j)
      BY <3>1
    <3>3. i \in 1..n /\ s[i] \in Int /\ s[k + 1] \in Int
      BY <3>1
    <3>4. \A j \in 1..(k + 1) : j = k + 1 \/ (j \in 1..k /\ j \in 1..n /\ s[j] \in Int)
      BY <3>1
    <3>5. CASE s[i] >= s[k + 1]
      <4>1. \A j \in 1..(k + 1) : s[i] > s[j] \/ (s[i] = s[j] /\ i <= j)
        BY <3>2, <3>3, <3>4, <3>5
      <4> QED
        BY <4>1
    <3>6. CASE ~(s[i] >= s[k + 1])
      <4>1. \A j \in 1..(k + 1) : s[k + 1] > s[j] \/ (s[k + 1] = s[j] /\ k + 1 <= j)
        BY <3>2, <3>3, <3>4, <3>6
      <4> QED
        BY <4>1
    <3> QED
      BY <3>5, <3>6
  <2> QED
    BY <2>1, <2>2
<1> HIDE DEF T
<1>3. T = Nat
  BY <1>1, <1>2, CountUp
<1> QED
  BY <1>3 DEF T

(* Half up: a share of at most the whole is at most 50.                    *)
LEMMA ShareOf ==
    ASSUME NEW s \in Nat, NEW m \in Nat \ {0}, s <= m
    PROVE  (100 * s + m) \div (2 * m) \in 0..50
<1> DEFINE q == (100 * s + m) \div (2 * m)
<1>1. /\ q \in Int
      /\ (2 * m) * q <= 100 * s + m
      /\ 100 * s + m < (2 * m) * q + 2 * m
  OBVIOUS
<1>2. q <= 50
  <2> SUFFICES ASSUME q >= 51 PROVE FALSE
    BY <1>1
  <2>1. (2 * m) * q >= (2 * m) * 51
    BY <1>1
  <2> QED
    BY <1>1, <2>1
<1>3. q >= 0
  <2> SUFFICES ASSUME q <= -1 PROVE FALSE
    BY <1>1
  <2>1. (2 * m) * q <= (2 * m) * (-1)
    BY <1>1
  <2> QED
    BY <1>1, <2>1
<1> QED
  BY <1>1, <1>2, <1>3

LEMMA FileIs ==
    ASSUME FilesInv, NEW i \in DOMAIN files
    PROVE  files[i] \in FileNames /\ files[i].size \in Nat /\ files[i].sample \in BOOLEAN
<1>1. files[i] \in FileNames
  BY ElementOfSeq, LenProperties DEF FilesInv
<1> QED
  BY <1>1, FilesAssumption DEF FileNames

LEMMA LargestIs ==
    ASSUME FilesInv
    PROVE  MaxSize \in Nat \ {0} /\ \A i \in DOMAIN files : files[i].size \in 0..MaxSize
<1> DEFINE S == {files[i].size : i \in DOMAIN files} \cup {1}
           n == Len(files)
           sz == [i \in 1..(n + 1) |-> IF i = n + 1 THEN 1 ELSE files[i].size]
<1>1. /\ n \in Nat /\ DOMAIN files = 1..n
      /\ \A i \in 1..n : files[i] \in FileNames /\ files[i].size \in Nat
  BY FileIs, LenProperties DEF FilesInv
<1>2. \A i \in 1..(n + 1) : sz[i] \in Nat /\ sz[i] \in S
  BY <1>1
<1>3. sz[n + 1] = 1 /\ \A i \in 1..n : sz[i] = files[i].size
  BY <1>1
<1> HIDE DEF sz
<1>4. PICK i \in 1..(n + 1) : \A j \in 1..(n + 1) :
          sz[i] > sz[j] \/ (sz[i] = sz[j] /\ i <= j)
  <2>1. PICK m \in Nat \ {0} : m = n + 1
    BY <1>1
  <2>2. \A i \in 1..m : sz[i] \in Int
    BY <1>2, <2>1
  <2>3. \E i \in 1..m : \A j \in 1..m : sz[i] > sz[j] \/ (sz[i] = sz[j] /\ i <= j)
    BY <2>2, HighestOf
  <2> QED
    BY <2>1, <2>3
<1>5. \A j \in 1..(n + 1) : sz[i] >= sz[j]
  BY <1>2, <1>4
<1>6. sz[i] >= 1 /\ \A j \in 1..n : sz[i] >= files[j].size
  BY <1>1, <1>3, <1>5
<1>7. sz[i] \in S /\ \A j \in DOMAIN files : sz[i] >= files[j].size /\ sz[i] >= 1
  BY <1>1, <1>2, <1>6
<1>8. MaxSize \in S /\ \A j \in DOMAIN files : MaxSize >= files[j].size /\ MaxSize >= 1
  BY <1>7 DEF MaxSize
<1>9. MaxSize \in Nat \ {0}
  <2>1. CASE n = 0
    BY <1>1, <1>8, <2>1
  <2>2. CASE n # 0
    <3>1. 1 \in DOMAIN files /\ MaxSize \in Nat
      BY <1>1, <1>8, <2>2
    <3> QED
      BY <1>8, <3>1
  <2> QED
    BY <2>1, <2>2
<1> QED
  BY <1>1, <1>8, <1>9

(* What the parts of a score add up to.                                    *)
LEMMA ScoreIs ==
    ASSUME FilesInv, NEW i \in DOMAIN files
    PROVE  LET f == files[i]
               e == EpisodeScore(f.tag, wish)
               ext == IF IsVideo(f) THEN VideoScore[f.ext]
                      ELSE IF f.ext = "unknown" THEN -500 ELSE -10000
               rest == (IF f.sample THEN -5000 ELSE 0) + (IF f.size > 0 /\ f.size < 30 THEN -300 ELSE 0)
           IN  /\ e \in {0, -100, 2000, 1800, 1500, -4000}
               /\ f.size \in Nat /\ f.sample \in BOOLEAN
               /\ IsVideo(f) => ext \in 5..50
               /\ Score(f) \in Int
               /\ ext + rest + e <= Score(f) /\ Score(f) <= ext + rest + e + 50
<1> DEFINE f == files[i]
           e == EpisodeScore(f.tag, wish)
           ext == IF IsVideo(f) THEN VideoScore[f.ext]
                  ELSE IF f.ext = "unknown" THEN -500 ELSE -10000
           smp == IF f.sample THEN -5000 ELSE 0
           tiny == IF f.size > 0 /\ f.size < 30 THEN -300 ELSE 0
<1>1. f \in FileNames /\ f.size \in Nat /\ f.sample \in BOOLEAN
  BY FileIs
<1>2. SizeScore(f) \in 0..50
  <2>1. MaxSize \in Nat \ {0} /\ f.size \in Nat /\ f.size <= MaxSize
    BY LargestIs
  <2> QED
    BY <2>1, ShareOf DEF SizeScore
<1>3. e \in {0, -100, 2000, 1800, 1500, -4000}
  BY DEF EpisodeScore
<1>4. ext \in Int /\ (IsVideo(f) => ext \in 5..50)
  BY FilesAssumption DEF IsVideo
<1>5. smp \in Int /\ tiny \in Int
  OBVIOUS
<1>6. Score(f) = ext + smp + SizeScore(f) + tiny + e
  BY DEF Score
<1> HIDE DEF ext, smp, tiny, e
<1>7. /\ Score(f) \in Int
      /\ ext + (smp + tiny) + e <= Score(f) /\ Score(f) <= ext + (smp + tiny) + e + 50
  BY <1>2, <1>3, <1>4, <1>5, <1>6
<1> QED
  BY <1>1, <1>3, <1>4, <1>7 DEF ext, smp, tiny, e

(* The wanted episode scores at least what an absolute number does, and no *)
(* other file more than none.                                              *)
LEMMA EpisodeIs ==
    ASSUME NEW f
    PROVE  /\ wish = NoWish => EpisodeScore(f.tag, wish) = 0
           /\ wish # NoWish /\ Covers(f) => EpisodeScore(f.tag, wish) \in {2000, 1800, 1500}
           /\ wish # NoWish /\ ~Covers(f) => EpisodeScore(f.tag, wish) \in {-100, -4000}
BY DEF EpisodeScore, Covers, InRange

(* A proper video outscores every known file that is none.                 *)
LEMMA ProperWins ==
    ASSUME FilesInv, NEW i \in DOMAIN files, Proper(files[i]),
           NEW j \in DOMAIN files, files[j].ext # "unknown", ~Proper(files[j])
    PROVE  Score(files[i]) > Score(files[j])
<1>1. CASE wish = NoWish
  <2>1. Score(files[i]) \in Int /\ Score(files[i]) >= -295
    BY <1>1, ScoreIs, EpisodeIs DEF Proper
  <2>2. ~IsVideo(files[j]) \/ files[j].sample
    BY <1>1, ScoreIs DEF Proper, Covers
  <2>3. Score(files[j]) \in Int /\ Score(files[j]) <= -4900
    BY <1>1, <2>2, ScoreIs, EpisodeIs
  <2> QED
    BY <2>1, <2>3
<1>2. CASE wish # NoWish
  <2>1. Score(files[i]) \in Int /\ Score(files[i]) >= 1205
    BY <1>2, ScoreIs, EpisodeIs DEF Proper
  <2>2. ~IsVideo(files[j]) \/ files[j].sample \/ ~Covers(files[j])
    BY ScoreIs DEF Proper
  <2>3. CASE ~IsVideo(files[j])
    <3>1. Score(files[j]) \in Int /\ Score(files[j]) <= 0
      BY <2>3, ScoreIs
    <3> QED
      BY <2>1, <3>1
  <2>4. CASE files[j].sample
    <3>1. Score(files[j]) \in Int /\ Score(files[j]) <= 0
      BY <2>4, ScoreIs
    <3> QED
      BY <2>1, <3>1
  <2>5. CASE ~Covers(files[j])
    <3>1. EpisodeScore(files[j].tag, wish) \in {-100, -4000}
      BY <1>2, <2>5, EpisodeIs
    <3>2. Score(files[j]) \in Int /\ Score(files[j]) <= 0
      BY <3>1, ScoreIs
    <3> QED
      BY <2>1, <3>2
  <2> QED
    BY <2>2, <2>3, <2>4, <2>5
<1> QED
  BY <1>1, <1>2

(* A video of full size outscores a tiny one that is no better match.      *)
LEMMA FullWins ==
    ASSUME FilesInv, NEW i \in DOMAIN files, Proper(files[i]), files[i].size >= 30,
           NEW j \in DOMAIN files, Proper(files[j]), files[j].size < 30, files[j].size # 0,
           EpisodeScore(files[i].tag, wish) >= EpisodeScore(files[j].tag, wish)
    PROVE  Score(files[i]) > Score(files[j])
<1>1. /\ Score(files[i]) \in Int /\ EpisodeScore(files[i].tag, wish) \in Int
      /\ Score(files[i]) >= 5 + EpisodeScore(files[i].tag, wish)
  BY ScoreIs DEF Proper
<1>2. /\ Score(files[j]) \in Int /\ EpisodeScore(files[j].tag, wish) \in Int
      /\ Score(files[j]) <= EpisodeScore(files[j].tag, wish) - 200
  BY ScoreIs DEF Proper
<1> QED
  BY <1>1, <1>2

(* The winner has the highest score.                                       *)
LEMMA WinnerIs ==
    ASSUME FilesInv, files # <<>>
    PROVE  Winner \in DOMAIN files /\ \A j \in DOMAIN files : Score(files[Winner]) >= Score(files[j])
<1> DEFINE n == Len(files)
           s == [i \in 1..n |-> Score(files[i])]
<1>1. n \in Nat \ {0} /\ DOMAIN files = 1..n
  BY EmptySeq DEF FilesInv
<1>2. \A i \in 1..n : s[i] = Score(files[i]) /\ s[i] \in Int
  BY <1>1, ScoreIs
<1> HIDE DEF s
<1>3. \E i \in 1..n : \A j \in 1..n : s[i] > s[j] \/ (s[i] = s[j] /\ i <= j)
  BY <1>1, <1>2, HighestOf
<1>4. \E i \in DOMAIN files : \A j \in DOMAIN files :
          Score(files[i]) > Score(files[j]) \/ (Score(files[i]) = Score(files[j]) /\ i <= j)
  BY <1>1, <1>2, <1>3
<1>5. /\ Winner \in DOMAIN files
      /\ \A j \in DOMAIN files : Score(files[Winner]) > Score(files[j])
                                  \/ (Score(files[Winner]) = Score(files[j]) /\ Winner <= j)
  BY <1>4 DEF Winner
<1> QED
  BY <1>1, <1>2, <1>5

(* The file that is played: no proper video of the wanted episode is       *)
(* passed over for another episode, a sample or an untagged file, nor one  *)
(* of full size for a tiny one that matches no better, for any number of   *)
(* files, names, sizes and tags and any scores of the extensions           *)
(* (fileSelection.ts).                                                     *)
THEOREM PicksAreSound == FilesSpec => []PickSound
<1>1. FilesInit => FilesInv
  BY EmptySeq DEF FilesInit, FilesInv
<1>2. FilesInv => PickSound
  <2> SUFFICES ASSUME FilesInv PROVE PickSound
    OBVIOUS
  <2> DEFINE plain == {i \in DOMAIN files : files[i].ext # "unknown"}
             properOnes == {i \in plain : Proper(files[i])}
  <2>1. Picked # 0 => IsVideo(files[Picked])
    BY DEF Picked
  <2>2. ASSUME fileIdx \notin DOMAIN files, properOnes # {}, plain = DOMAIN files
        PROVE  /\ Picked \in properOnes
               /\ \A i \in properOnes :
                     files[i].size >= 30 /\ EpisodeScore(files[i].tag, wish) >= EpisodeScore(files[Picked].tag, wish)
                        => files[Picked].size >= 30 \/ files[Picked].size = 0
    <3>1. files # <<>>
      BY <2>2
    <3>2. Winner \in DOMAIN files /\ \A j \in DOMAIN files : Score(files[Winner]) >= Score(files[j])
      BY <3>1, WinnerIs
    <3>3. PICK i \in DOMAIN files : Proper(files[i])
      BY <2>2
    <3>4. Score(files[Winner]) \in Int /\ \A j \in DOMAIN files : Score(files[j]) \in Int
      BY <3>2, ScoreIs
    <3>5. Winner \in properOnes
      BY <2>2, <3>2, <3>3, <3>4, ProperWins
    <3>6. Picked = Winner
      BY <2>2, <3>1, <3>5 DEF Picked, Proper
    <3>7. ASSUME NEW j \in properOnes, files[j].size >= 30,
                 EpisodeScore(files[j].tag, wish) >= EpisodeScore(files[Winner].tag, wish)
          PROVE  files[Winner].size >= 30 \/ files[Winner].size = 0
      <4>1. files[Winner].size \in Nat
        BY <3>2, ScoreIs
      <4>2. ~(Score(files[j]) > Score(files[Winner]))
        BY <3>2, <3>4
      <4> QED
        BY <3>2, <3>5, <3>7, <4>1, <4>2, FullWins
    <3> QED
      BY <3>5, <3>6, <3>7
  <2> QED
    BY <2>1, <2>2 DEF PickSound
<1> QED
  BY <1>1, <1>2, FilesKeep, PTL DEF FilesSpec
----------------------------------------------------------------------------
(* Concatenations and sorted lists.                                        *)

(* `f` holds the concatenations of the first 1, 2, ..., n parts.           *)
Flattens(f, parts, n) ==
    f = [i \in 1..n |-> IF i = 1 THEN parts[i] ELSE f[i - 1] \o parts[i]]

LEMMA FlattenBuilds ==
    ASSUME NEW S, NEW parts \in Seq(S), Len(parts) # 0
    PROVE  \E f : Flattens(f, parts, Len(parts)) /\ FlattenSeq(parts) = f[Len(parts)]
<1> DEFINE T == {n \in Nat : \E f : Flattens(f, parts, n)}
<1>1. 0 \in T
  <2>1. Flattens([i \in 1..0 |-> <<>>], parts, 0)
    BY DEF Flattens
  <2> QED
    BY <2>1
<1>2. ASSUME NEW n \in T PROVE n + 1 \in T
  <2>1. PICK f : Flattens(f, parts, n)
    BY <1>2
  <2> DEFINE g == [i \in 1..(n + 1) |-> IF i <= n THEN f[i]
                                        ELSE IF n = 0 THEN parts[i] ELSE f[n] \o parts[i]]
  <2>2. ASSUME NEW i \in 1..(n + 1)
        PROVE  g[i] = IF i = 1 THEN parts[i] ELSE g[i - 1] \o parts[i]
    <3>1. CASE i <= n
      <4>1. i \in 1..n
        BY <1>2, <3>1
      <4>2. g[i] = f[i] /\ (i # 1 => g[i - 1] = f[i - 1])
        BY <1>2, <3>1
      <4>3. f[i] = IF i = 1 THEN parts[i] ELSE f[i - 1] \o parts[i]
        BY <2>1, <4>1 DEF Flattens
      <4> QED
        BY <4>2, <4>3
    <3>2. CASE ~(i <= n)
      <4>1. i = n + 1 /\ (i = 1 <=> n = 0) /\ (n # 0 => i - 1 = n /\ n \in 1..(n + 1) /\ n <= n)
        BY <1>2, <3>2
      <4>2. g[i] = (IF n = 0 THEN parts[i] ELSE f[n] \o parts[i]) /\ (n # 0 => g[n] = f[n])
        BY <3>2, <4>1
      <4> QED
        BY <4>1, <4>2
    <3> QED
      BY <3>1, <3>2
  <2>3. g = [i \in 1..(n + 1) |-> g[i]]
    OBVIOUS
  <2>4. Flattens(g, parts, n + 1)
    <3> HIDE DEF g
    <3> QED
      BY <2>2, <2>3 DEF Flattens
  <2> QED
    BY <1>2, <2>4
<1>3. Len(parts) \in T
  <2>1. T = Nat
    <3> HIDE DEF T
    <3>1. T \in SUBSET Nat
      BY DEF T
    <3> QED
      BY <1>1, <1>2, <3>1, CountUp
  <2> QED
    BY <2>1, LenProperties
<1>4. \E f : Flattens(f, parts, Len(parts))
  BY <1>3
<1> QED
  BY <1>4 DEF FlattenSeq, Flattens

(* `q` is parts 1 to n after each other; o[m] tells which part element m   *)
(* is from and its place there.                                            *)
Flat(S, parts, q, n, o) ==
    /\ q \in Seq(S)
    /\ \A m \in 1..Len(q) : /\ o[m][1] \in 1..n /\ o[m][2] \in 1..Len(parts[o[m][1]])
                            /\ q[m] = parts[o[m][1]][o[m][2]]
    /\ \A l, m \in 1..Len(q) : l < m =>
          o[l][1] < o[m][1] \/ (o[l][1] = o[m][1] /\ o[l][2] < o[m][2])
    /\ \A i \in 1..n : \A k \in 1..Len(parts[i]) : \E m \in 1..Len(q) : o[m][1] = i /\ o[m][2] = k

LEMMA FlatGrows ==
    ASSUME NEW S, NEW parts \in Seq(Seq(S)), NEW n \in Nat, n + 1 <= Len(parts),
           NEW q, NEW o, Flat(S, parts, q, n, o)
    PROVE  \E o2 : Flat(S, parts, q \o parts[n + 1], n + 1, o2)
<1> DEFINE p == parts[n + 1]
           a == Len(q)
           b == Len(p)
           r == q \o p
           o2 == [m \in 1..(a + b) |-> IF m <= a THEN o[m] ELSE <<n + 1, m - a>>]
<1>1. p \in Seq(S) /\ q \in Seq(S) /\ a \in Nat /\ b \in Nat /\ Len(parts) \in Nat
  <2>1. n + 1 \in 1..Len(parts) /\ Len(parts) \in Nat
    BY LenProperties
  <2>2. p \in Seq(S)
    BY <2>1, ElementOfSeq
  <2> QED
    BY <2>1, <2>2, LenProperties DEF Flat
<1>2. /\ r \in Seq(S) /\ Len(r) = a + b
      /\ \A m \in 1..(a + b) : r[m] = IF m <= a THEN q[m] ELSE p[m - a]
  BY <1>1, ConcatProperties
<1>3. \A m \in 1..(a + b) : /\ m <= a => o2[m] = o[m] /\ m \in 1..a
                            /\ ~(m <= a) => o2[m][1] = n + 1 /\ o2[m][2] = m - a /\ m - a \in 1..b
  BY <1>1
<1> HIDE DEF o2, r
<1>4. \A m \in 1..a : o[m][1] \in 1..n /\ o[m][2] \in 1..Len(parts[o[m][1]])
                       /\ q[m] = parts[o[m][1]][o[m][2]]
  BY DEF Flat
<1>5. ASSUME NEW m \in 1..(a + b)
      PROVE  /\ o2[m][1] \in 1..(n + 1) /\ o2[m][2] \in 1..Len(parts[o2[m][1]])
             /\ r[m] = parts[o2[m][1]][o2[m][2]]
  <2>1. CASE m <= a
    <3>1. m \in 1..a /\ o2[m] = o[m] /\ r[m] = q[m]
      BY <1>2, <1>3, <2>1
    <3>2. o[m][1] \in 1..(n + 1)
      BY <1>4, <3>1
    <3> QED
      BY <1>4, <3>1, <3>2
  <2>2. CASE ~(m <= a)
    <3>1. o2[m][1] = n + 1 /\ o2[m][2] = m - a /\ m - a \in 1..b /\ r[m] = p[m - a]
      BY <1>2, <1>3, <2>2
    <3>2. n + 1 \in 1..(n + 1)
      OBVIOUS
    <3> QED
      BY <3>1, <3>2
  <2> QED
    BY <2>1, <2>2
<1>6. ASSUME NEW l \in 1..(a + b), NEW m \in 1..(a + b), l < m
      PROVE  o2[l][1] < o2[m][1] \/ (o2[l][1] = o2[m][1] /\ o2[l][2] < o2[m][2])
  <2>1. CASE m <= a
    <3>1. l \in 1..a /\ m \in 1..a /\ o2[l] = o[l] /\ o2[m] = o[m]
      BY <1>1, <1>3, <1>6, <2>1
    <3> QED
      BY <1>6, <3>1 DEF Flat
  <2>2. CASE ~(m <= a) /\ l <= a
    <3>1. o2[l][1] \in 1..n /\ o2[m][1] = n + 1
      BY <1>3, <1>4, <2>2
    <3> QED
      BY <3>1
  <2>3. CASE ~(m <= a) /\ ~(l <= a)
    <3>1. o2[l][1] = n + 1 /\ o2[l][2] = l - a /\ o2[m][1] = n + 1 /\ o2[m][2] = m - a
      BY <1>3, <2>3
    <3>2. l - a < m - a
      BY <1>1, <1>6
    <3> QED
      BY <3>1, <3>2
  <2> QED
    BY <2>1, <2>2, <2>3
<1>7. ASSUME NEW i \in 1..(n + 1), NEW k \in 1..Len(parts[i])
      PROVE  \E m \in 1..(a + b) : o2[m][1] = i /\ o2[m][2] = k
  <2>1. CASE i = n + 1
    <3>1. k + a \in 1..(a + b) /\ ~(k + a <= a) /\ (k + a) - a = k
      BY <1>1, <2>1
    <3> QED
      BY <1>3, <2>1, <3>1
  <2>2. CASE i # n + 1
    <3>1. i \in 1..n
      BY <2>2
    <3>2. PICK m \in 1..a : o[m][1] = i /\ o[m][2] = k
      BY <3>1 DEF Flat
    <3>3. m \in 1..(a + b) /\ m <= a
      BY <1>1
    <3> QED
      BY <1>3, <3>2, <3>3
  <2> QED
    BY <2>1, <2>2
<1>8. Flat(S, parts, r, n + 1, o2)
  BY <1>2, <1>5, <1>6, <1>7 DEF Flat
<1> QED
  BY <1>8 DEF r

(* A concatenation has the elements of its parts, in order.                *)
LEMMA FlattenIs ==
    ASSUME NEW S, NEW parts \in Seq(Seq(S))
    PROVE  \E o : Flat(S, parts, FlattenSeq(parts), Len(parts), o)
<1>1. CASE Len(parts) = 0
  <2>1. FlattenSeq(parts) = <<>>
    BY <1>1, EmptySeq DEF FlattenSeq
  <2>2. Flat(S, parts, <<>>, 0, <<>>)
    BY EmptySeq DEF Flat
  <2> QED
    BY <1>1, <2>1, <2>2
<1>2. CASE Len(parts) # 0
  <2>1. PICK f : Flattens(f, parts, Len(parts)) /\ FlattenSeq(parts) = f[Len(parts)]
    BY <1>2, FlattenBuilds
  <2>2. Len(parts) \in Nat
    BY LenProperties
  <2> DEFINE T == {n \in Nat : n \in 1..Len(parts) => \E o : Flat(S, parts, f[n], n, o)}
  <2>3. 0 \in T
    OBVIOUS
  <2>4. ASSUME NEW n \in T PROVE n + 1 \in T
    <3> SUFFICES ASSUME n + 1 \in 1..Len(parts) PROVE \E o : Flat(S, parts, f[n + 1], n + 1, o)
      BY <2>4
    <3>1. n \in Nat /\ n + 1 <= Len(parts)
      BY <2>2, <2>4
    <3>2. CASE n = 0
      <4>1. f[n + 1] = parts[1] /\ parts[1] \in Seq(S)
        BY <2>1, <3>1, <3>2, ElementOfSeq DEF Flattens
      <4>2. Flat(S, parts, <<>>, n, <<>>)
        BY <3>2, EmptySeq DEF Flat
      <4>3. <<>> \o parts[n + 1] = f[n + 1]
        BY <3>2, <4>1, ConcatEmptySeq
      <4>4. \E o2 : Flat(S, parts, <<>> \o parts[n + 1], n + 1, o2)
        BY <3>1, <4>2, FlatGrows
      <4> QED
        BY <4>3, <4>4
    <3>3. CASE n # 0
      <4>1. f[n + 1] = f[n] \o parts[n + 1]
        <5>1. n + 1 \in 1..Len(parts) /\ n + 1 # 1 /\ (n + 1) - 1 = n
          BY <2>2, <3>1, <3>3
        <5> QED
          BY <2>1, <5>1 DEF Flattens
      <4>2. n \in 1..Len(parts)
        BY <2>2, <3>1, <3>3
      <4>3. PICK o : Flat(S, parts, f[n], n, o)
        BY <2>4, <4>2
      <4>4. \E o2 : Flat(S, parts, f[n] \o parts[n + 1], n + 1, o2)
        BY <3>1, <4>3, FlatGrows
      <4> QED
        BY <4>1, <4>4
    <3> QED
      BY <3>2, <3>3
  <2> HIDE DEF T
  <2>5. T = Nat
    <3>1. T \in SUBSET Nat
      BY DEF T
    <3> QED
      BY <2>3, <2>4, <3>1, CountUp
  <2>6. Len(parts) \in T /\ Len(parts) \in 1..Len(parts)
    BY <1>2, <2>2, <2>5
  <2> QED
    BY <2>1, <2>6 DEF T
<1> QED
  BY <1>1, <1>2

(* `q` is the first n sources of a list, sorted; o[m] tells which of the   *)
(* list element m is.                                                      *)
Sorted(S, list, q, n, o) ==
    /\ q \in Seq(S) /\ Len(q) = n
    /\ \A m \in 1..n : o[m] \in 1..n /\ q[m] = list[o[m]]
    /\ \A l, m \in 1..n : l < m =>
          q[l].score > q[m].score \/ (q[l].score = q[m].score /\ o[l] < o[m])
    /\ \A i \in 1..n : \E m \in 1..n : o[m] = i

LEMMA PlacedIs ==
    ASSUME NEW S, \A x \in S : x.score \in Int, NEW list \in Seq(S),
           NEW n \in Nat, n + 1 <= Len(list), NEW q, NEW o, Sorted(S, list, q, n, o)
    PROVE  \E o2 : Sorted(S, list, Placed(q, list[n + 1]), n + 1, o2)
<1> DEFINE x == list[n + 1]
<1>1. /\ q \in Seq(S) /\ Len(q) = n /\ DOMAIN q = 1..n
      /\ x \in S /\ x.score \in Int /\ \A i \in 1..n : q[i] \in S /\ q[i].score \in Int
  <2>1. n + 1 \in 1..Len(list)
    BY LenProperties
  <2>2. x \in S
    BY <2>1, ElementOfSeq
  <2>3. q \in Seq(S) /\ Len(q) = n
    BY DEF Sorted
  <2> QED
    BY <2>2, <2>3, ElementOfSeq, LenProperties
<1> HIDE DEF x
<1>2. \E k \in 0..n : \A i \in 1..n : i <= k <=> q[i].score >= x.score
  <2> DEFINE T == {i \in Nat : i \in 1..n /\ q[i].score < x.score}
  <2>1. CASE T = {}
    <3>1. ASSUME NEW i \in 1..n PROVE q[i].score >= x.score
      <4>1. i \notin T
        BY <2>1
      <4> QED
        BY <1>1, <4>1
    <3>2. n \in 0..n /\ \A i \in 1..n : i <= n
      OBVIOUS
    <3> QED
      BY <3>1, <3>2
  <2>2. CASE T # {}
    <3>1. PICK k \in T : \A j \in T : k <= j
      <4>1. T \in SUBSET Nat
        OBVIOUS
      <4> HIDE DEF T
      <4> QED
        BY <2>2, <4>1, LeastNumber
    <3>2. k \in 1..n /\ q[k].score < x.score /\ k - 1 \in 0..n
      BY <3>1
    <3>3. ASSUME NEW i \in 1..n PROVE i <= k - 1 <=> q[i].score >= x.score
      <4>1. CASE i < k
        BY <1>1, <3>1, <3>2, <4>1
      <4>2. CASE i = k
        BY <1>1, <3>2, <4>2
      <4>3. CASE i > k
        <5>1. q[k].score > q[i].score \/ q[k].score = q[i].score
          BY <3>2, <4>3 DEF Sorted
        <5> QED
          BY <1>1, <3>2, <4>3, <5>1
      <4> QED
        BY <3>2, <4>1, <4>2, <4>3
    <3> QED
      BY <3>2, <3>3
  <2> QED
    BY <2>1, <2>2
<1>3. PICK k \in 0..n : /\ \A i \in 1..n : i <= k <=> q[i].score >= x.score
                        /\ Placed(q, x) = InsertAt(q, k + 1, x)
  BY <1>1, <1>2 DEF Placed
<1> DEFINE a == SubSeq(q, 1, k)
           b == SubSeq(q, k + 1, n)
           r == InsertAt(q, k + 1, x)
           o2 == [m \in 1..(n + 1) |-> IF m <= k THEN o[m] ELSE IF m = k + 1 THEN n + 1 ELSE o[m - 1]]
<1>4. r = a \o <<x>> \o b
  BY <1>1 DEF InsertAt
<1>5. /\ r \in Seq(S) /\ Len(r) = n + 1
      /\ \A m \in 1..(n + 1) : r[m] = IF m <= k THEN q[m] ELSE IF m = k + 1 THEN x ELSE q[m - 1]
  <2>1. a \in Seq(S) /\ Len(a) = k /\ \A m \in 1..k : a[m] = q[m]
    BY <1>1, SubSeqProperties
  <2>2. b \in Seq(S) /\ Len(b) = n - k /\ \A m \in 1..(n - k) : b[m] = q[k + m]
    BY <1>1, SubSeqProperties
  <2>3. <<x>> \in Seq(S) /\ Len(<<x>>) = 1 /\ <<x>>[1] = x
    BY <1>1
  <2> DEFINE c == a \o <<x>>
  <2> HIDE DEF a, b
  <2>4. c \in Seq(S) /\ Len(c) = k + 1 /\ \A m \in 1..(k + 1) : c[m] = IF m <= k THEN q[m] ELSE x
    <3>1. /\ c \in Seq(S) /\ Len(c) = k + 1
          /\ \A m \in 1..(k + 1) : c[m] = IF m <= k THEN a[m] ELSE <<x>>[m - k]
      BY <2>1, <2>3, ConcatProperties
    <3>2. \A m \in 1..(k + 1) : (m <= k /\ m \in 1..k) \/ (~(m <= k) /\ m - k = 1)
      OBVIOUS
    <3> QED
      BY <2>1, <2>3, <3>1, <3>2
  <2>5. r = c \o b
    BY <1>4
  <2> HIDE DEF c, r
  <2>6. /\ r \in Seq(S) /\ Len(r) = n + 1
        /\ \A m \in 1..(n + 1) : r[m] = IF m <= k + 1 THEN c[m] ELSE b[m - (k + 1)]
    <3>1. PICK c1, b1 : c1 = c /\ b1 = b
      OBVIOUS
    <3>2. c1 \in Seq(S) /\ b1 \in Seq(S) /\ Len(c1) = k + 1 /\ Len(b1) = n - k
      BY <2>2, <2>4, <3>1
    <3>3. /\ c1 \o b1 \in Seq(S) /\ Len(c1 \o b1) = Len(c1) + Len(b1)
          /\ \A m \in 1..(Len(c1) + Len(b1)) :
                (c1 \o b1)[m] = IF m <= Len(c1) THEN c1[m] ELSE b1[m - Len(c1)]
      BY <3>2, ConcatProperties
    <3>4. Len(c1) + Len(b1) = n + 1
      BY <3>2
    <3> QED
      BY <2>5, <3>1, <3>2, <3>3, <3>4
  <2>7. ASSUME NEW m \in 1..(n + 1)
        PROVE  r[m] = IF m <= k THEN q[m] ELSE IF m = k + 1 THEN x ELSE q[m - 1]
    <3>1. CASE m <= k + 1
      <4>1. m \in 1..(k + 1) /\ (~(m <= k) => m = k + 1)
        BY <3>1
      <4> QED
        BY <2>4, <2>6, <3>1, <4>1
    <3>2. CASE ~(m <= k + 1)
      <4>1. m - (k + 1) \in 1..(n - k) /\ k + (m - (k + 1)) = m - 1 /\ ~(m <= k) /\ m # k + 1
        BY <3>2
      <4> QED
        BY <2>2, <2>6, <3>2, <4>1
    <3> QED
      BY <3>1, <3>2
  <2> QED
    BY <2>6, <2>7
<1>6. /\ \A m \in 1..(n + 1) : /\ m <= k => o2[m] = o[m] /\ m \in 1..n
                               /\ m = k + 1 => o2[m] = n + 1
                               /\ m > k + 1 => o2[m] = o[m - 1] /\ m - 1 \in 1..n
      /\ \A m \in 1..n : o[m] \in 1..n /\ q[m] = list[o[m]]
  BY DEF Sorted
<1> HIDE DEF o2, r
<1>7. ASSUME NEW m \in 1..(n + 1) PROVE o2[m] \in 1..(n + 1) /\ r[m] = list[o2[m]]
  <2>1. CASE m <= k
    BY <1>5, <1>6, <2>1
  <2>2. CASE m = k + 1
    <3>1. o2[m] = n + 1 /\ r[m] = x /\ ~(m <= k)
      BY <1>5, <1>6, <2>2
    <3> QED
      BY <3>1 DEF x
  <2>3. CASE m > k + 1
    <3>1. o2[m] = o[m - 1] /\ m - 1 \in 1..n /\ r[m] = q[m - 1]
      BY <1>5, <1>6, <2>3
    <3>2. o[m - 1] \in 1..n /\ q[m - 1] = list[o[m - 1]]
      BY <1>6, <3>1
    <3> QED
      BY <3>1, <3>2
  <2> QED
    BY <2>1, <2>2, <2>3
<1>8. ASSUME NEW l \in 1..(n + 1), NEW m \in 1..(n + 1), l < m
      PROVE  r[l].score > r[m].score \/ (r[l].score = r[m].score /\ o2[l] < o2[m])
  <2>1. CASE l = k + 1
    <3>1. r[l] = x /\ r[m] = q[m - 1] /\ m - 1 \in 1..n /\ ~(m - 1 <= k)
      BY <1>5, <1>8, <2>1
    <3>2. ~(q[m - 1].score >= x.score)
      BY <1>3, <3>1
    <3> QED
      BY <1>1, <3>1, <3>2
  <2>2. CASE m = k + 1
    <3>1. r[m] = x /\ r[l] = q[l] /\ l \in 1..n /\ l <= k /\ o2[m] = n + 1 /\ o2[l] = o[l]
      BY <1>5, <1>6, <1>8, <2>2
    <3>2. q[l].score >= x.score /\ o[l] \in 1..n
      BY <1>3, <1>6, <3>1
    <3> QED
      BY <1>1, <3>1, <3>2
  <2>3. CASE l # k + 1 /\ m # k + 1
    <3>1. PICK l1 \in 1..n : r[l] = q[l1] /\ o2[l] = o[l1] /\ l1 = (IF l <= k THEN l ELSE l - 1)
      BY <1>5, <1>6, <2>3
    <3>2. PICK m1 \in 1..n : r[m] = q[m1] /\ o2[m] = o[m1] /\ m1 = (IF m <= k THEN m ELSE m - 1)
      BY <1>5, <1>6, <2>3
    <3>3. l1 < m1
      BY <1>8, <2>3, <3>1, <3>2
    <3>4. q[l1].score > q[m1].score \/ (q[l1].score = q[m1].score /\ o[l1] < o[m1])
      BY <3>3 DEF Sorted
    <3> QED
      BY <3>1, <3>2, <3>4
  <2> QED
    BY <2>1, <2>2, <2>3
<1>9. ASSUME NEW i \in 1..(n + 1) PROVE \E m \in 1..(n + 1) : o2[m] = i
  <2>1. CASE i = n + 1
    <3>1. k + 1 \in 1..(n + 1)
      OBVIOUS
    <3> QED
      BY <1>6, <2>1, <3>1
  <2>2. CASE i # n + 1
    <3>1. i \in 1..n
      BY <2>2
    <3>2. PICK m \in 1..n : o[m] = i
      BY <3>1 DEF Sorted
    <3>3. CASE m <= k
      <4>1. m \in 1..(n + 1)
        OBVIOUS
      <4> QED
        BY <1>6, <3>2, <3>3, <4>1
    <3>4. CASE ~(m <= k)
      <4>1. PICK m2 \in 1..(n + 1) : m2 > k + 1 /\ m2 - 1 = m
        <5>1. m + 1 \in 1..(n + 1) /\ m + 1 > k + 1 /\ (m + 1) - 1 = m
          BY <3>4
        <5> QED
          BY <5>1
      <4>2. o2[m2] = o[m]
        BY <1>6, <4>1
      <4> QED
        BY <3>2, <4>2
    <3> QED
      BY <3>3, <3>4
  <2> QED
    BY <2>1, <2>2
<1>10. Sorted(S, list, r, n + 1, o2)
  BY <1>5, <1>7, <1>8, <1>9 DEF Sorted
<1> QED
  BY <1>3, <1>10 DEF r, x

Ranks(f, list, n) ==
    f = [i \in 0..n |-> IF i = 0 THEN <<>> ELSE Placed(f[i - 1], list[i])]

LEMMA RankedBuilds ==
    ASSUME NEW S, NEW list \in Seq(S)
    PROVE  \E f : Ranks(f, list, Len(list)) /\ RankedByScore(list) = f[Len(list)]
<1> DEFINE T == {n \in Nat : \E f : Ranks(f, list, n)}
<1>1. 0 \in T
  <2>1. Ranks([i \in 0..0 |-> <<>>], list, 0)
    BY DEF Ranks
  <2> QED
    BY <2>1
<1>2. ASSUME NEW n \in T PROVE n + 1 \in T
  <2>1. PICK f : Ranks(f, list, n)
    BY <1>2
  <2> DEFINE g == [i \in 0..(n + 1) |-> IF i <= n THEN f[i] ELSE Placed(f[n], list[n + 1])]
  <2>2. ASSUME NEW i \in 0..(n + 1)
        PROVE  g[i] = IF i = 0 THEN <<>> ELSE Placed(g[i - 1], list[i])
    <3>1. CASE i = 0
      <4>1. g[i] = f[0] /\ f[0] = <<>>
        BY <1>2, <2>1, <3>1 DEF Ranks
      <4> QED
        BY <3>1, <4>1
    <3>2. CASE i # 0 /\ i <= n
      <4>1. g[i] = f[i] /\ g[i - 1] = f[i - 1]
        BY <1>2, <3>2
      <4>2. i \in 0..n
        BY <3>2
      <4>3. f[i] = Placed(f[i - 1], list[i])
        BY <2>1, <3>2, <4>2 DEF Ranks
      <4> QED
        BY <3>2, <4>1, <4>3
    <3>3. CASE i = n + 1
      <4>1. i # 0 /\ i - 1 = n /\ n \in 0..(n + 1) /\ ~ (i <= n) /\ n <= n
        BY <1>2, <3>3
      <4>2. g[i] = Placed(f[n], list[n + 1]) /\ g[i - 1] = f[n]
        BY <4>1
      <4> QED
        BY <3>3, <4>1, <4>2
    <3> QED
      BY <1>2, <3>1, <3>2, <3>3
  <2>3. g = [i \in 0..(n + 1) |-> g[i]]
    OBVIOUS
  <2>4. Ranks(g, list, n + 1)
    <3> HIDE DEF g
    <3> QED
      BY <2>2, <2>3 DEF Ranks
  <2> QED
    BY <1>2, <2>4
<1>3. Len(list) \in T
  <2>1. T = Nat
    <3> HIDE DEF T
    <3>1. T \in SUBSET Nat
      BY DEF T
    <3> QED
      BY <1>1, <1>2, <3>1, CountUp
  <2> QED
    BY <2>1, LenProperties
<1>4. \E f : Ranks(f, list, Len(list))
  BY <1>3
<1> QED
  BY <1>4 DEF RankedByScore, Ranks

(* What rankSources() returns is the list itself, sorted.                  *)
LEMMA RankedIs ==
    ASSUME NEW S, \A x \in S : x.score \in Int, NEW list \in Seq(S)
    PROVE  \E o : Sorted(S, list, RankedByScore(list), Len(list), o)
<1>1. PICK f : Ranks(f, list, Len(list)) /\ RankedByScore(list) = f[Len(list)]
  BY RankedBuilds
<1>2. Len(list) \in Nat
  BY LenProperties
<1> DEFINE T == {n \in Nat : n <= Len(list) => \E o : Sorted(S, list, f[n], n, o)}
<1>3. 0 \in T
  <2>1. f[0] = <<>>
    BY <1>1, <1>2 DEF Ranks
  <2>2. Sorted(S, list, <<>>, 0, <<>>)
    BY EmptySeq DEF Sorted
  <2> QED
    BY <2>1, <2>2
<1>4. ASSUME NEW n \in T PROVE n + 1 \in T
  <2> SUFFICES ASSUME n + 1 <= Len(list) PROVE \E o : Sorted(S, list, f[n + 1], n + 1, o)
    BY <1>4
  <2>1. n \in Nat /\ n <= Len(list) /\ n + 1 \in 0..Len(list) /\ n + 1 # 0 /\ (n + 1) - 1 = n
    BY <1>2, <1>4
  <2>2. PICK o : Sorted(S, list, f[n], n, o)
    BY <1>4, <2>1
  <2>3. f[n + 1] = Placed(f[n], list[n + 1])
    BY <1>1, <2>1 DEF Ranks
  <2>4. \E o2 : Sorted(S, list, Placed(f[n], list[n + 1]), n + 1, o2)
    BY <2>1, <2>2, PlacedIs
  <2> QED
    BY <2>3, <2>4
<1> HIDE DEF T
<1>5. T = Nat
  <2>1. T \in SUBSET Nat
    BY DEF T
  <2> QED
    BY <1>3, <1>4, <2>1, CountUp
<1>6. Len(list) \in T /\ Len(list) <= Len(list)
  BY <1>2, <1>5
<1> QED
  BY <1>1, <1>6 DEF T

(* A concatenation of parts that are empty or of one element: those, in    *)
(* order; o[m] tells which part element m is.                              *)
Chosen(S, parts, q, n, o) ==
    /\ q \in Seq(S)
    /\ \A m \in 1..Len(q) : o[m] \in 1..n /\ parts[o[m]] = <<q[m]>>
    /\ \A l, m \in 1..Len(q) : l < m => o[l] < o[m]

LEMMA ChosenIs ==
    ASSUME NEW S, NEW n \in Nat, NEW parts, parts = [i \in 1..n |-> parts[i]],
           \A i \in 1..n : parts[i] = <<>> \/ \E x \in S : parts[i] = <<x>>
    PROVE  \E o : Chosen(S, parts, FlattenSeq(parts), n, o)
<1>1. \A i \in 1..n : /\ parts[i] \in Seq(S) /\ Len(parts[i]) \in {0, 1}
                      /\ Len(parts[i]) = 1 => parts[i] = <<parts[i][1]>>
  <2> SUFFICES ASSUME NEW i \in 1..n
               PROVE  /\ parts[i] \in Seq(S) /\ Len(parts[i]) \in {0, 1}
                      /\ Len(parts[i]) = 1 => parts[i] = <<parts[i][1]>>
    OBVIOUS
  <2>1. CASE parts[i] = <<>>
    BY <2>1, EmptySeq
  <2>2. CASE \E x \in S : parts[i] = <<x>>
    <3>1. PICK x \in S : parts[i] = <<x>>
      BY <2>2
    <3>2. <<x>> \in Seq(S) /\ Len(<<x>>) = 1 /\ <<x>>[1] = x
      OBVIOUS
    <3> QED
      BY <3>1, <3>2
  <2> QED
    BY <2>1, <2>2
<1>2. parts \in [1..n -> Seq(S)]
  BY <1>1
<1>3. parts \in Seq(Seq(S)) /\ Len(parts) = n
  BY <1>2
<1> DEFINE q == FlattenSeq(parts)
<1> HIDE DEF q
<1>4. PICK o : Flat(S, parts, q, n, o)
  BY <1>3, FlattenIs DEF q
<1> DEFINE o2 == [m \in 1..Len(q) |-> o[m][1]]
<1>5. ASSUME NEW m \in 1..Len(q) PROVE o2[m] = o[m][1] /\ o[m][1] \in 1..n /\ o[m][2] = 1 /\ parts[o[m][1]] = <<q[m]>>
  <2>1. /\ o[m][1] \in 1..n /\ o[m][2] \in 1..Len(parts[o[m][1]])
        /\ q[m] = parts[o[m][1]][o[m][2]]
    BY <1>4 DEF Flat
  <2>2. PICK i \in 1..n : i = o[m][1]
    BY <2>1
  <2>3. Len(parts[i]) = 1 /\ o[m][2] = 1
    BY <1>1, <2>1, <2>2
  <2> QED
    BY <1>1, <2>1, <2>2, <2>3
<1> HIDE DEF o2
<1>6. ASSUME NEW l \in 1..Len(q), NEW m \in 1..Len(q), l < m PROVE o2[l] < o2[m]
  <2>1. o[l][1] < o[m][1] \/ (o[l][1] = o[m][1] /\ o[l][2] < o[m][2])
    BY <1>4, <1>6 DEF Flat
  <2>2. o[l][2] = 1 /\ o[m][2] = 1 /\ o2[l] = o[l][1] /\ o2[m] = o[m][1]
    BY <1>5
  <2>3. ~(1 < 1)
    OBVIOUS
  <2> QED
    BY <2>1, <2>2, <2>3
<1>7. q \in Seq(S)
  BY <1>4 DEF Flat
<1>8. Chosen(S, parts, q, n, o2)
  BY <1>5, <1>6, <1>7 DEF Chosen
<1> QED
  BY <1>8 DEF q

----------------------------------------------------------------------------
(* Look-ups.                                                               *)

SourceType == [provider : Asked, up : StreamUrls, score : Int]

(* The sources of one provider: its own, each upstream once.               *)
OwnSources(list, p) ==
    /\ list \in Seq(SourceType)
    /\ \A i \in 1..Len(list) : list[i].provider = p
    /\ \A i, j \in 1..Len(list) : i < j => list[i].up # list[j].up

LEMMA NormalizedIs ==
    ASSUME NEW p \in Asked, NEW refused
    PROVE  OwnSources(Normalized(p, refused), p)
<1> DEFINE list == StreamsOf[p]
           parts == [i \in DOMAIN list |->
                        IF i \in FirstOfEach(list) /\ list[i].up \notin refused
                        THEN <<[provider |-> p, up |-> list[i].up, score |-> list[i].score]>> ELSE <<>>]
           q == FlattenSeq(parts)
<1>1. /\ list \in Seq(Streams) /\ Len(list) \in Nat /\ DOMAIN list = 1..Len(list)
      /\ \A i \in 1..Len(list) : list[i] \in Streams
  BY LookupAssumption, LenProperties, ElementOfSeq
<1>2. \A i \in 1..Len(list) : [provider |-> p, up |-> list[i].up, score |-> list[i].score] \in SourceType
  BY <1>1 DEF SourceType, Streams
<1>3. parts = [i \in 1..Len(list) |-> parts[i]]
  BY <1>1
<1>4. \A i \in 1..Len(list) : parts[i] # <<>> =>
          /\ i \in FirstOfEach(list)
          /\ parts[i] = <<[provider |-> p, up |-> list[i].up, score |-> list[i].score]>>
  BY <1>1
<1>5. Normalized(p, refused) = q
  BY DEF Normalized
<1> HIDE DEF parts, q
<1>6. PICK o : Chosen(SourceType, parts, q, Len(list), o)
  <2>1. \A i \in 1..Len(list) : parts[i] = <<>> \/ \E x \in SourceType : parts[i] = <<x>>
    BY <1>2, <1>4
  <2> QED
    BY <1>1, <1>3, <2>1, ChosenIs DEF q
<1>7. ASSUME NEW m \in 1..Len(q)
      PROVE  /\ o[m] \in 1..Len(list) /\ o[m] \in FirstOfEach(list)
             /\ q[m].provider = p /\ q[m].up = list[o[m]].up
  <2>1. o[m] \in 1..Len(list) /\ parts[o[m]] = <<q[m]>>
    BY <1>6 DEF Chosen
  <2>2. PICK x : x = q[m]
    OBVIOUS
  <2>3. <<x>> # <<>> /\ <<x>>[1] = x
    OBVIOUS
  <2>4. /\ o[m] \in FirstOfEach(list)
        /\ <<x>> = <<[provider |-> p, up |-> list[o[m]].up, score |-> list[o[m]].score]>>
    BY <1>4, <2>1, <2>2, <2>3
  <2>5. x = [provider |-> p, up |-> list[o[m]].up, score |-> list[o[m]].score]
    BY <2>4
  <2> QED
    BY <2>1, <2>2, <2>4, <2>5
<1>8. ASSUME NEW i \in 1..Len(q), NEW j \in 1..Len(q), i < j PROVE q[i].up # q[j].up
  <2>1. o[i] < o[j]
    BY <1>6, <1>8 DEF Chosen
  <2>2. o[i] \in 1..(o[j] - 1)
    BY <1>1, <1>7, <2>1
  <2> QED
    BY <1>7, <2>2 DEF FirstOfEach
<1> QED
  BY <1>5, <1>6, <1>7, <1>8 DEF OwnSources, Chosen

(* Providers that are asked, in the order of the waterfall, each once.     *)
InWaterfall(ps) ==
    /\ ps \in Seq(Asked)
    /\ \A i, j \in 1..Len(ps) : i < j => Place(ps[i]) < Place(ps[j])

LEMMA PlaceIs ==
    /\ Len(ByPriority) \in Nat /\ DOMAIN ByPriority = 1..Len(ByPriority)
    /\ \A i \in 1..Len(ByPriority) : ByPriority[i] \in Asked /\ Place(ByPriority[i]) = i
    /\ \A p \in Asked : Place(p) \in 1..Len(ByPriority)
<1>1. Len(ByPriority) \in Nat /\ DOMAIN ByPriority = 1..Len(ByPriority)
  BY LookupAssumption, LenProperties
<1>2. \A p \in Asked : Place(p) \in DOMAIN ByPriority /\ ByPriority[Place(p)] = p
  BY DEF Asked, Place
<1>3. \A i \in DOMAIN ByPriority : ByPriority[i] \in Asked
  BY DEF Asked
<1>4. \A i \in DOMAIN ByPriority : Place(ByPriority[i]) = i
  BY <1>2, <1>3, LookupAssumption DEF IsInjective
<1> QED
  BY <1>1, <1>2, <1>3, <1>4

LEMMA SelectedIs == InWaterfall(Selected)
<1> DEFINE n == Len(ByPriority)
           parts == [i \in DOMAIN ByPriority |->
                IF standing[ByPriority[i]] = "selected" THEN <<ByPriority[i]>> ELSE <<>>]
           q == FlattenSeq(parts)
<1>1. n \in Nat /\ parts = [i \in 1..n |-> parts[i]]
  BY PlaceIs
<1>2. \A i \in 1..n : parts[i] # <<>> => parts[i] = <<ByPriority[i]>>
  BY PlaceIs
<1>3. Selected = q
  BY DEF Selected
<1> HIDE DEF parts, q
<1>4. PICK o : Chosen(Asked, parts, q, n, o)
  <2>1. \A i \in 1..n : parts[i] = <<>> \/ \E x \in Asked : parts[i] = <<x>>
    BY <1>2, PlaceIs
  <2> QED
    BY <1>1, <2>1, ChosenIs DEF q
<1>5. ASSUME NEW m \in 1..Len(q) PROVE o[m] \in 1..n /\ Place(q[m]) = o[m]
  <2>1. o[m] \in 1..n /\ parts[o[m]] = <<q[m]>>
    BY <1>4 DEF Chosen
  <2>2. PICK x : x = q[m]
    OBVIOUS
  <2>3. <<x>> # <<>> /\ <<x>>[1] = x
    OBVIOUS
  <2>4. <<x>> = <<ByPriority[o[m]]>>
    BY <1>2, <2>1, <2>2, <2>3
  <2>5. x = ByPriority[o[m]]
    BY <2>4
  <2> QED
    BY <2>1, <2>2, <2>5, PlaceIs
<1>6. ASSUME NEW i \in 1..Len(q), NEW j \in 1..Len(q), i < j PROVE Place(q[i]) < Place(q[j])
  BY <1>4, <1>5, <1>6 DEF Chosen
<1> QED
  BY <1>3, <1>4, <1>6 DEF InWaterfall, Chosen

LEMMA PickedIs == ASSUME NEW r PROVE InWaterfall(PickedFor(r))
<1>1. CASE PickedFor(r) = Selected
  BY <1>1, SelectedIs
<1>2. CASE PickedFor(r) # Selected
  <2>1. /\ PickedFor(r) = SubSeq(Selected, 1, MaxProvidersPerRequest)
        /\ MaxProvidersPerRequest \in Nat /\ Len(Selected) > MaxProvidersPerRequest
    BY <1>2, LookupAssumption DEF PickedFor
  <2>2. Selected \in Seq(Asked) /\ Len(Selected) \in Nat
    BY SelectedIs, LenProperties DEF InWaterfall
  <2>3. \A i \in 1..MaxProvidersPerRequest : i \in 1..Len(Selected) /\ Selected[i] \in Asked
    BY <2>1, <2>2, ElementOfSeq
  <2>4. PICK ps : ps = PickedFor(r)
    OBVIOUS
  <2>5. /\ ps \in Seq(Asked) /\ Len(ps) = MaxProvidersPerRequest
        /\ \A i \in 1..MaxProvidersPerRequest : ps[i] = Selected[i]
    BY <2>1, <2>3, <2>4, SubSeqProperties
  <2> QED
    BY <2>3, <2>4, <2>5, SelectedIs DEF InWaterfall
<1> QED
  BY <1>1, <1>2

LookStates == [stage : {"idle", "waiting", "running", "answered", "done"}, picked : Seq(Asked),
               next : Nat, over : BOOLEAN]
AskOutcomes == {"unasked", "asking", "ok", "failed"}

(* An answer with the sources `src` of the providers `ps`.                 *)
Exact(r, ps, src, ans) ==
    /\ ToSet(ans) = UNION {ToSet(src[p]) : p \in ToSet(ps)}
    /\ \A i, j \in DOMAIN ans : i < j =>
          InOrder(r, ans[i], ans[j]) /\ (ans[i].provider # ans[j].provider \/ ans[i].up # ans[j].up)

SourcesOf(src, ps, n) == FlattenSeq([i \in 1..n |-> src[ps[i]]])

(* The providers asked are the first of those picked.                      *)
AskedFirst(lk, oc) ==
    \A p \in Asked : oc[p] # "unasked" <=> \E i \in 1..(lk.next - 1) : p = lk.picked[i]

(* Some are left out only for want of time or because there is enough.     *)
Excused(r, lk, ans) == lk.over \/ (r \in FastLookups /\ Len(ans) >= FastTarget)

Turns(r, lk, oc, src, ans) ==
    /\ InWaterfall(lk.picked) /\ lk.next \in 1..(Len(lk.picked) + 1)
    /\ lk.stage \in {"idle", "waiting"} => lk.next = 1
    /\ AskedFirst(lk, oc)
    /\ lk.stage \in {"answered", "done"} => \A p \in Asked : oc[p] # "asking"
    /\ \A p \in Asked : OwnSources(src[p], p)
    /\ lk.stage # "answered" => ans = <<>>
    /\ lk.stage = "answered" =>
          /\ Exact(r, lk.picked, src, ans)
          /\ lk.next <= Len(lk.picked) => Excused(r, lk, ans)
    /\ r \in ProgressiveLookups /\ lk.stage # "idle" => Len(lk.picked) = 1

LookInv ==
    /\ lookup \in [Lookups -> LookStates] /\ outcome \in [Lookups -> [Asked -> AskOutcomes]]
    /\ sources \in [Lookups -> [Asked -> Seq(SourceType)]]
    /\ answer \in [Lookups -> Seq(SourceType)]
    /\ \A r \in Lookups : Turns(r, lookup[r], outcome[r], sources[r], answer[r])

(* The sources of picked providers, one provider after the other.          *)
LEMMA PartsAre ==
    ASSUME NEW ps, InWaterfall(ps), NEW src \in [Asked -> Seq(SourceType)], NEW n \in 0..Len(ps)
    PROVE  /\ [i \in 1..n |-> src[ps[i]]] \in Seq(Seq(SourceType))
           /\ Len([i \in 1..n |-> src[ps[i]]]) = n
           /\ \A i \in 1..n : [j \in 1..n |-> src[ps[j]]][i] = src[ps[i]]
<1>1. /\ Len(ps) \in Nat /\ n \in Nat
      /\ \A i \in 1..n : i \in 1..Len(ps) /\ ps[i] \in Asked /\ src[ps[i]] \in Seq(SourceType)
  <2>1. ps \in Seq(Asked) /\ Len(ps) \in Nat
    BY LenProperties DEF InWaterfall
  <2> QED
    BY <2>1, ElementOfSeq
<1>2. [i \in 1..n |-> src[ps[i]]] \in [1..n -> Seq(SourceType)]
  BY <1>1
<1> QED
  BY <1>1, <1>2

FlatWell(ps, src, flat) ==
    /\ flat \in Seq(SourceType)
    /\ ToSet(flat) = UNION {ToSet(src[p]) : p \in ToSet(ps)}
    /\ \A l, m \in 1..Len(flat) : l < m =>
          /\ Place(flat[l].provider) <= Place(flat[m].provider)
          /\ flat[l].provider # flat[m].provider \/ flat[l].up # flat[m].up

LEMMA FlatIs ==
    ASSUME NEW ps, InWaterfall(ps), NEW src \in [Asked -> Seq(SourceType)],
           \A p \in Asked : OwnSources(src[p], p)
    PROVE  FlatWell(ps, src, SourcesOf(src, ps, Len(ps)))
<1> DEFINE n == Len(ps)
           parts == [i \in 1..n |-> src[ps[i]]]
           q == FlattenSeq(parts)
<1>1. /\ ps \in Seq(Asked) /\ n \in Nat /\ DOMAIN ps = 1..n
      /\ \A i \in 1..n : ps[i] \in Asked /\ Place(ps[i]) \in Int
  <2>1. ps \in Seq(Asked) /\ n \in Nat /\ DOMAIN ps = 1..n
    BY LenProperties DEF InWaterfall
  <2> QED
    BY <2>1, ElementOfSeq, PlaceIs
<1>2. parts \in Seq(Seq(SourceType)) /\ Len(parts) = n /\ \A i \in 1..n : parts[i] = src[ps[i]]
  BY <1>1, PartsAre
<1>3. SourcesOf(src, ps, Len(ps)) = q
  BY DEF SourcesOf
<1> HIDE DEF parts, q
<1>4. PICK o : Flat(SourceType, parts, q, n, o)
  BY <1>2, FlattenIs DEF q
<1>5. q \in Seq(SourceType) /\ DOMAIN q = 1..Len(q) /\ Len(q) \in Nat
  BY <1>4, LenProperties DEF Flat
<1>6. ASSUME NEW m \in 1..Len(q)
      PROVE  \E i \in 1..n : \E k \in 1..Len(src[ps[i]]) :
                 o[m][1] = i /\ o[m][2] = k /\ q[m] = src[ps[i]][k] /\ q[m].provider = ps[i]
  <2>1. o[m][1] \in 1..n /\ o[m][2] \in 1..Len(parts[o[m][1]]) /\ q[m] = parts[o[m][1]][o[m][2]]
    BY <1>4 DEF Flat
  <2>2. PICK i \in 1..n : i = o[m][1]
    BY <2>1
  <2>3. parts[i] = src[ps[i]] /\ ps[i] \in Asked
    BY <1>1, <1>2
  <2>4. PICK k \in 1..Len(src[ps[i]]) : k = o[m][2]
    BY <2>1, <2>2, <2>3
  <2>5. src[ps[i]][k].provider = ps[i]
    BY <2>3 DEF OwnSources
  <2> QED
    BY <2>1, <2>2, <2>3, <2>4, <2>5
<1>7. ASSUME NEW l \in 1..Len(q), NEW m \in 1..Len(q), l < m
      PROVE  /\ Place(q[l].provider) <= Place(q[m].provider)
             /\ q[l].provider # q[m].provider \/ q[l].up # q[m].up
  <2>1. PICK i \in 1..n : \E k \in 1..Len(src[ps[i]]) :
            o[l][1] = i /\ o[l][2] = k /\ q[l] = src[ps[i]][k] /\ q[l].provider = ps[i]
    BY <1>6
  <2>2. PICK k \in 1..Len(src[ps[i]]) :
            o[l][1] = i /\ o[l][2] = k /\ q[l] = src[ps[i]][k] /\ q[l].provider = ps[i]
    BY <2>1
  <2>3. PICK j \in 1..n : \E h \in 1..Len(src[ps[j]]) :
            o[m][1] = j /\ o[m][2] = h /\ q[m] = src[ps[j]][h] /\ q[m].provider = ps[j]
    BY <1>6
  <2>4. PICK h \in 1..Len(src[ps[j]]) :
            o[m][1] = j /\ o[m][2] = h /\ q[m] = src[ps[j]][h] /\ q[m].provider = ps[j]
    BY <2>3
  <2>5. i < j \/ (i = j /\ k < h)
    <3>1. o[l][1] < o[m][1] \/ (o[l][1] = o[m][1] /\ o[l][2] < o[m][2])
      BY <1>4, <1>7 DEF Flat
    <3> QED
      BY <2>2, <2>4, <3>1
  <2>6. CASE i < j
    <3>1. Place(ps[i]) < Place(ps[j])
      BY <2>6 DEF InWaterfall
    <3>2. Place(ps[i]) \in Int /\ Place(ps[j]) \in Int
      BY <1>1
    <3>3. Place(ps[i]) <= Place(ps[j]) /\ Place(ps[i]) # Place(ps[j])
      BY <3>1, <3>2
    <3> QED
      BY <2>2, <2>4, <3>3
  <2>7. CASE i = j /\ k < h
    <3>1. ps[i] \in Asked /\ Place(ps[i]) <= Place(ps[i])
      BY <1>1
    <3>2. src[ps[i]][k].up # src[ps[i]][h].up
      BY <2>4, <2>7, <3>1 DEF OwnSources
    <3> QED
      BY <2>2, <2>4, <2>7, <3>1, <3>2
  <2> QED
    BY <2>5, <2>6, <2>7
<1>8. ToSet(q) = UNION {ToSet(src[p]) : p \in ToSet(ps)}
  <2>1. ASSUME NEW x \in ToSet(q) PROVE \E p \in ToSet(ps) : x \in ToSet(src[p])
    <3>1. PICK m \in 1..Len(q) : x = q[m]
      BY <1>5, <2>1 DEF ToSet
    <3>2. PICK i \in 1..n : \E k \in 1..Len(src[ps[i]]) : q[m] = src[ps[i]][k]
      BY <1>6
    <3>3. PICK k \in 1..Len(src[ps[i]]) : q[m] = src[ps[i]][k]
      BY <3>2
    <3>4. ps[i] \in ToSet(ps) /\ src[ps[i]] \in Seq(SourceType)
      BY <1>1 DEF ToSet
    <3>5. x \in ToSet(src[ps[i]])
      BY <3>1, <3>3, <3>4, LenProperties DEF ToSet
    <3> QED
      BY <3>4, <3>5
  <2>2. ASSUME NEW p \in ToSet(ps), NEW x \in ToSet(src[p]) PROVE x \in ToSet(q)
    <3>1. PICK i \in 1..n : p = ps[i]
      BY <1>1, <2>2 DEF ToSet
    <3>2. src[p] \in Seq(SourceType) /\ parts[i] = src[p]
      BY <1>1, <1>2, <3>1
    <3>3. PICK k \in 1..Len(src[p]) : x = src[p][k]
      BY <2>2, <3>2, LenProperties DEF ToSet
    <3>4. PICK m \in 1..Len(q) : o[m][1] = i /\ o[m][2] = k
      BY <1>4, <3>2 DEF Flat
    <3>5. q[m] = x
      BY <1>6, <3>1, <3>3, <3>4
    <3> QED
      BY <1>5, <3>5 DEF ToSet
  <2> QED
    BY <2>1, <2>2
<1> QED
  BY <1>3, <1>5, <1>7, <1>8 DEF FlatWell

(* An answer is all of the picked providers' sources, in order.            *)
LEMMA BuiltIs ==
    ASSUME NEW r \in Lookups, NEW ps, InWaterfall(ps), NEW src \in [Asked -> Seq(SourceType)],
           \A p \in Asked : OwnSources(src[p], p), lookup[r].picked = ps, sources[r] = src
    PROVE  BuiltFor(r) \in Seq(SourceType) /\ Exact(r, ps, src, BuiltFor(r))
<1> DEFINE flat == SourcesOf(src, ps, Len(ps))
<1>1. FlatWell(ps, src, flat)
  BY FlatIs
<1>2. FromFirst(r, Len(lookup[r].picked)) = flat
  BY DEF FromFirst, SourcesOf
<1>3. BuiltFor(r) = IF Ranking /\ r \in BulkLookups THEN RankedByScore(flat) ELSE flat
  BY <1>2 DEF BuiltFor
<1> HIDE DEF flat
<1>4. /\ flat \in Seq(SourceType) /\ Len(flat) \in Nat /\ DOMAIN flat = 1..Len(flat)
      /\ \A i \in 1..Len(flat) : flat[i] \in SourceType
  BY <1>1, LenProperties, ElementOfSeq DEF FlatWell
<1>5. CASE ~(Ranking /\ r \in BulkLookups)
  <2>1. BuiltFor(r) = flat
    BY <1>3, <1>5
  <2>2. \A i, j \in DOMAIN flat : i < j => InOrder(r, flat[i], flat[j])
    BY <1>1, <1>4, <1>5 DEF FlatWell, InOrder
  <2> QED
    BY <1>1, <1>4, <2>1, <2>2 DEF FlatWell, Exact
<1>6. CASE Ranking /\ r \in BulkLookups
  <2> DEFINE q == RankedByScore(flat)
             n == Len(flat)
  <2>1. BuiltFor(r) = q
    BY <1>3, <1>6
  <2>2. PICK o : Sorted(SourceType, flat, q, n, o)
    <3>1. \A x \in SourceType : x.score \in Int
      BY DEF SourceType
    <3> QED
      BY <1>4, <3>1, RankedIs
  <2> HIDE DEF q
  <2>3. q \in Seq(SourceType) /\ DOMAIN q = 1..n
    BY <2>2, LenProperties DEF Sorted
  <2>4. ToSet(q) = ToSet(flat)
    <3>1. \A m \in 1..n : q[m] \in ToSet(flat)
      BY <1>4, <2>2 DEF Sorted, ToSet
    <3>2. \A i \in 1..n : \E m \in 1..n : flat[i] = q[m]
      BY <2>2 DEF Sorted
    <3> QED
      BY <1>4, <2>3, <3>1, <3>2 DEF ToSet
  <2>5. ASSUME NEW i \in 1..n, NEW j \in 1..n, i < j
        PROVE  InOrder(r, q[i], q[j]) /\ (q[i].provider # q[j].provider \/ q[i].up # q[j].up)
    <3>1. PICK a \in 1..n, b \in 1..n : a = o[i] /\ b = o[j] /\ q[i] = flat[a] /\ q[j] = flat[b]
      <4>1. o[i] \in 1..n /\ q[i] = flat[o[i]]
        BY <2>2 DEF Sorted
      <4>2. o[j] \in 1..n /\ q[j] = flat[o[j]]
        BY <2>2 DEF Sorted
      <4> QED
        BY <4>1, <4>2
    <3>2. q[i].score > q[j].score \/ (q[i].score = q[j].score /\ a < b)
      BY <2>2, <2>5, <3>1 DEF Sorted
    <3>3. a < b => Place(q[i].provider) <= Place(q[j].provider)
      BY <1>1, <3>1 DEF FlatWell
    <3>4. InOrder(r, q[i], q[j])
      BY <1>6, <3>2, <3>3 DEF InOrder
    <3>5. q[i].score \in Int /\ q[j].score \in Int
      BY <1>4, <3>1 DEF SourceType
    <3>6. a # b
      BY <3>1, <3>2, <3>5
    <3>7. a < b \/ b < a
      BY <3>6
    <3>8. q[i].provider # q[j].provider \/ q[i].up # q[j].up
      BY <1>1, <3>1, <3>7 DEF FlatWell
    <3> QED
      BY <3>4, <3>8
  <2> QED
    BY <1>1, <2>1, <2>3, <2>4, <2>5 DEF FlatWell, Exact
<1> QED
  BY <1>5, <1>6

(* `batch` is the next c of the providers `ps`, the first of them at k.    *)
NextOnes(batch, c, most, ps, k) ==
    /\ batch \subseteq Asked /\ c \in 1..most /\ k + c <= Len(ps) + 1
    /\ batch = {ps[i] : i \in k..(k + c - 1)}

(* A batch is some of the providers not asked yet, at least one.           *)
LEMMA BatchIs ==
    ASSUME NEW r, NEW ps, InWaterfall(ps), NEW k \in 1..Len(ps),
           lookup[r].picked = ps, lookup[r].next = k
    PROVE  NextOnes(Batch(r), Cardinality(Batch(r)), WaveOf(r), ps, k)
<1> DEFINE last == k + WaveOf(r) - 1
           hi == IF last < Len(ps) THEN last ELSE Len(ps)
           f == [i \in k..hi |-> ps[i]]
<1>1. /\ Len(ps) \in Nat /\ \A i \in 1..Len(ps) : ps[i] \in Asked /\ Place(ps[i]) \in Int
      /\ WaveOf(r) \in Nat \ {0} /\ k \in Nat /\ k >= 1
  <2>1. ps \in Seq(Asked) /\ Len(ps) \in Nat
    BY LenProperties DEF InWaterfall
  <2>2. WaveOf(r) \in Nat \ {0}
    BY LookupAssumption DEF WaveOf
  <2> QED
    BY <2>1, <2>2, ElementOfSeq, PlaceIs
<1>2. Batch(r) = {ps[i] : i \in k..hi}
  BY DEF Batch
<1>3. hi \in Nat /\ k <= hi /\ hi <= Len(ps) /\ hi - k + 1 <= WaveOf(r)
  BY <1>1
<1> HIDE DEF hi, last
<1>4. \A i \in k..hi : i \in 1..Len(ps)
  BY <1>1, <1>3
<1>5. \A i, j \in 1..Len(ps) : ps[i] = ps[j] => i = j
  <2> SUFFICES ASSUME NEW i \in 1..Len(ps), NEW j \in 1..Len(ps), i < j PROVE ps[i] # ps[j]
    BY <1>1
  <2>1. Place(ps[i]) < Place(ps[j])
    BY DEF InWaterfall
  <2> QED
    BY <1>1, <2>1
<1>6. f \in Bijection(k..hi, Batch(r))
  BY <1>2, <1>4, <1>5 DEF Bijection, Injection, Surjection, IsInjective
<1>7. IsFiniteSet(k..hi) /\ Cardinality(k..hi) = hi - k + 1
  <2>1. k \in Int /\ hi \in Int
    BY <1>3
  <2>2. IsFiniteSet(k..hi) /\ Cardinality(k..hi) = IF k > hi THEN 0 ELSE hi - k + 1
    BY <2>1, FS_Interval, Zenon
  <2> QED
    BY <1>1, <1>3, <2>2
<1>8. Cardinality(Batch(r)) = hi - k + 1
  BY <1>6, <1>7, FS_Bijection DEF ExistsBijection
<1>9. Batch(r) \subseteq Asked
  BY <1>1, <1>2, <1>4
<1>10. PICK c : c = Cardinality(Batch(r))
  OBVIOUS
<1>11. PICK w \in Nat \ {0} : w = WaveOf(r)
  BY <1>1
<1>12. c = hi - k + 1
  BY <1>8, <1>10
<1>13. c \in 1..w /\ k + c <= Len(ps) + 1 /\ hi = k + c - 1
  <2>1. hi - k + 1 <= w
    BY <1>3, <1>11
  <2> QED
    BY <1>1, <1>3, <1>12, <2>1
<1>14. Batch(r) = {ps[i] : i \in k..(k + c - 1)}
  BY <1>2, <1>13
<1> QED
  BY <1>9, <1>10, <1>11, <1>13, <1>14 DEF NextOnes

----------------------------------------------------------------------------
(* The steps of one look-up leave the others alone.                        *)
LEMMA OneTurns ==
    ASSUME LookInv, NEW r \in Lookups, NEW lk \in LookStates, NEW oc \in [Asked -> AskOutcomes],
           NEW src \in [Asked -> Seq(SourceType)], NEW ans \in Seq(SourceType),
           lookup' = [lookup EXCEPT ![r] = lk], outcome' = [outcome EXCEPT ![r] = oc],
           sources' = [sources EXCEPT ![r] = src], answer' = [answer EXCEPT ![r] = ans],
           Turns(r, lk, oc, src, ans)
    PROVE  LookInv'
<1>1. /\ lookup' \in [Lookups -> LookStates] /\ outcome' \in [Lookups -> [Asked -> AskOutcomes]]
      /\ sources' \in [Lookups -> [Asked -> Seq(SourceType)]] /\ answer' \in [Lookups -> Seq(SourceType)]
  BY DEF LookInv
<1>2. ASSUME NEW q \in Lookups PROVE Turns(q, lookup'[q], outcome'[q], sources'[q], answer'[q])
  <2>1. CASE q = r
    BY <2>1 DEF LookInv
  <2>2. CASE q # r
    <3>1. /\ lookup'[q] = lookup[q] /\ outcome'[q] = outcome[q]
          /\ sources'[q] = sources[q] /\ answer'[q] = answer[q]
      BY <2>2 DEF LookInv
    <3> QED
      BY <3>1 DEF LookInv
  <2> QED
    BY <2>1, <2>2
<1> QED
  BY <1>1, <1>2 DEF LookInv

(* A look-up that goes on to another stage, no source being returned.      *)
LEMMA LookMoves ==
    ASSUME LookInv, NEW r \in Lookups, NEW lk \in LookStates, lookup' = [lookup EXCEPT ![r] = lk],
           Turns(r, lk, outcome[r], sources[r], answer[r]),
           UNCHANGED <<outcome, sources, answer>>
    PROVE  LookInv'
<1>1. /\ outcome[r] \in [Asked -> AskOutcomes] /\ sources[r] \in [Asked -> Seq(SourceType)]
      /\ answer[r] \in Seq(SourceType)
  BY DEF LookInv
<1>2. /\ outcome' = [outcome EXCEPT ![r] = outcome[r]]
      /\ sources' = [sources EXCEPT ![r] = sources[r]]
      /\ answer' = [answer EXCEPT ![r] = answer[r]]
  BY DEF LookInv
<1> QED
  BY <1>1, <1>2, OneTurns

LEMMA AskSourcesKeeps == ASSUME LookInv, NEW r \in Lookups, AskSources(r) PROVE LookInv'
<1> DEFINE ps == PickedFor(r)
           to == IF ps = <<>> THEN "done" ELSE "waiting"
           lk == [lookup[r] EXCEPT !.stage = to, !.picked = ps]
<1>1. InWaterfall(ps) /\ ps \in Seq(Asked) /\ Len(ps) \in Nat
  BY PickedIs, LenProperties DEF InWaterfall
<1>2. /\ lookup' = [lookup EXCEPT ![r] = lk] /\ lookup[r] \in LookStates
      /\ lookup[r].stage = "idle" /\ r \notin ProgressiveLookups
  BY DEF AskSources, LookInv
<1>3. UNCHANGED <<outcome, sources, answer>>
  BY DEF AskSources
<1>4. Turns(r, lookup[r], outcome[r], sources[r], answer[r])
  BY DEF LookInv
<1> HIDE DEF ps
<1>5. /\ lk \in LookStates /\ lk.next = lookup[r].next /\ lk.picked = ps
      /\ lk.stage \in {"done", "waiting"}
  BY <1>1, <1>2 DEF LookStates
<1> HIDE DEF lk
<1>6. Turns(r, lk, outcome[r], sources[r], answer[r])
  <2>1. lk.next = 1 /\ \A p \in Asked : outcome[r][p] = "unasked"
    BY <1>2, <1>4, <1>5 DEF Turns, AskedFirst
  <2>2. AskedFirst(lk, outcome[r])
    BY <2>1 DEF AskedFirst
  <2> QED
    BY <1>1, <1>2, <1>4, <1>5, <2>1, <2>2 DEF Turns
<1> QED
  BY <1>2, <1>3, <1>5, <1>6, LookMoves

LEMMA AskProviderKeeps ==
    ASSUME LookInv, NEW r \in Lookups, NEW p \in Asked, AskProvider(r, p) PROVE LookInv'
<1> DEFINE to == IF standing[p] = "gone" THEN "done" ELSE "waiting"
           lk == [lookup[r] EXCEPT !.stage = to, !.picked = <<p>>]
<1>1. PICK ps : ps = <<p>>
  OBVIOUS
<1>2. /\ lookup' = [lookup EXCEPT ![r] = lk] /\ lookup[r] \in LookStates
      /\ lookup[r].stage = "idle" /\ r \in ProgressiveLookups
  BY DEF AskProvider, LookInv
<1>3. UNCHANGED <<outcome, sources, answer>>
  BY DEF AskProvider
<1>4. Turns(r, lookup[r], outcome[r], sources[r], answer[r])
  BY DEF LookInv
<1>5. InWaterfall(ps) /\ ps \in Seq(Asked) /\ Len(ps) = 1
  BY <1>1 DEF InWaterfall
<1>6. /\ lk \in LookStates /\ lk.next = lookup[r].next /\ lk.picked = ps
      /\ lk.stage \in {"done", "waiting"}
  BY <1>1, <1>2, <1>5 DEF LookStates
<1> HIDE DEF lk
<1>7. Turns(r, lk, outcome[r], sources[r], answer[r])
  <2>1. lk.next = 1 /\ \A q \in Asked : outcome[r][q] = "unasked"
    BY <1>2, <1>4, <1>6 DEF Turns, AskedFirst
  <2>2. AskedFirst(lk, outcome[r])
    BY <2>1 DEF AskedFirst
  <2> QED
    BY <1>2, <1>4, <1>5, <1>6, <2>1, <2>2 DEF Turns
<1> QED
  BY <1>2, <1>3, <1>6, <1>7, LookMoves

LEMMA OverKeeps == ASSUME LookInv, NEW r \in Lookups, DeadlinePasses(r) PROVE LookInv'
<1> DEFINE lk == [lookup[r] EXCEPT !.over = TRUE]
<1>1. /\ lookup' = [lookup EXCEPT ![r] = lk] /\ lookup[r] \in LookStates
      /\ UNCHANGED <<outcome, sources, answer>>
      /\ Turns(r, lookup[r], outcome[r], sources[r], answer[r])
  BY DEF DeadlinePasses, LookInv
<1>2. /\ lk \in LookStates /\ lk.next = lookup[r].next /\ lk.picked = lookup[r].picked
      /\ lk.stage = lookup[r].stage /\ lk.over
  BY <1>1 DEF LookStates
<1> HIDE DEF lk
<1>3. Turns(r, lk, outcome[r], sources[r], answer[r])
  BY <1>1, <1>2 DEF Turns, AskedFirst, Excused
<1> QED
  BY <1>1, <1>2, <1>3, LookMoves

(* A look-up that gets its place in a pool, or none and ends.              *)
LEMMA StageKeeps ==
    ASSUME LookInv, NEW r \in Lookups, NEW to \in {"running", "done"}, lookup[r].stage # "idle",
           lookup[r].next = 1, lookup' = [lookup EXCEPT ![r].stage = to], answer[r] = <<>>,
           UNCHANGED <<outcome, sources, answer>>
    PROVE  LookInv'
<1> DEFINE lk == [lookup[r] EXCEPT !.stage = to]
<1>1. /\ lookup' = [lookup EXCEPT ![r] = lk] /\ lookup[r] \in LookStates
      /\ Turns(r, lookup[r], outcome[r], sources[r], answer[r])
  BY DEF LookInv
<1>2. /\ lk \in LookStates /\ lk.next = lookup[r].next /\ lk.picked = lookup[r].picked
      /\ lk.stage = to
  BY <1>1 DEF LookStates
<1> HIDE DEF lk
<1>3. Turns(r, lk, outcome[r], sources[r], answer[r])
  <2>1. \A p \in Asked : outcome[r][p] = "unasked"
    BY <1>1 DEF Turns, AskedFirst
  <2>2. AskedFirst(lk, outcome[r])
    BY <1>1, <1>2 DEF Turns, AskedFirst
  <2> QED
    BY <1>1, <1>2, <2>1, <2>2 DEF Turns
<1> QED
  BY <1>1, <1>2, <1>3, LookMoves

(* The next batch goes out.                                                *)
LEMMA BatchKeeps ==
    ASSUME LookInv, NEW r \in Lookups, lookup[r].stage = "running", NEW batch, AskBatch(r, batch),
           NEW c \in 1..WaveOf(r), c = Cardinality(batch), batch \subseteq Asked,
           lookup[r].next + c <= Len(lookup[r].picked) + 1,
           batch = {lookup[r].picked[i] : i \in lookup[r].next..(lookup[r].next + c - 1)}
    PROVE  LookInv'
<1> DEFINE lk == [lookup[r] EXCEPT !.next = @ + c]
           oc == [p \in Asked |-> IF p \notin batch THEN outcome[r][p]
                                  ELSE IF standing[p] = "gone" THEN "failed" ELSE "asking"]
<1>1. /\ lookup' = [lookup EXCEPT ![r] = lk] /\ outcome' = [outcome EXCEPT ![r] = oc]
      /\ UNCHANGED <<sources, answer>>
  <2>1. PICK old : old = outcome[r]
    OBVIOUS
  <2>2. outcome' = [outcome EXCEPT ![r] = oc]
    BY DEF AskBatch
  <2> QED
    BY <2>2 DEF AskBatch
<1>2. /\ lookup[r] \in LookStates /\ Turns(r, lookup[r], outcome[r], sources[r], answer[r])
      /\ outcome[r] \in [Asked -> AskOutcomes] /\ sources[r] \in [Asked -> Seq(SourceType)]
      /\ answer[r] \in Seq(SourceType)
      /\ sources' = [sources EXCEPT ![r] = sources[r]] /\ answer' = [answer EXCEPT ![r] = answer[r]]
  BY <1>1 DEF LookInv
<1>4. WaveOf(r) \in Nat
  BY LookupAssumption DEF WaveOf
<1>5. c \in Nat /\ c >= 1 /\ c <= WaveOf(r)
  BY <1>4
<1>6. /\ lookup[r].next \in Nat /\ lookup[r].next >= 1 /\ InWaterfall(lookup[r].picked)
      /\ Len(lookup[r].picked) \in Nat
  <2>1. lookup[r].picked \in Seq(Asked)
    BY <1>2 DEF LookStates
  <2> QED
    BY <1>2, <2>1, LenProperties DEF LookStates, Turns
<1>7. /\ lk \in LookStates /\ lk.next = lookup[r].next + c /\ lk.picked = lookup[r].picked
      /\ lk.stage = lookup[r].stage
  <2>1. lookup[r].next + c \in Nat
    BY <1>5, <1>6
  <2>2. PICK n \in Nat : n = lookup[r].next + c
    BY <2>1
  <2>3. lk = [lookup[r] EXCEPT !.next = n]
    BY <2>2
  <2> QED
    BY <1>2, <2>2, <2>3 DEF LookStates
<1>8. oc \in [Asked -> AskOutcomes] /\ \A p \in Asked : p \notin batch => oc[p] = outcome[r][p]
  BY <1>2 DEF AskOutcomes
<1> HIDE DEF lk, oc
<1>9. AskedFirst(lk, oc)
  <2> SUFFICES ASSUME NEW p \in Asked
               PROVE  oc[p] # "unasked" <=> \E i \in 1..(lk.next - 1) : p = lk.picked[i]
    BY DEF AskedFirst
  <2>1. outcome[r][p] # "unasked" <=> \E i \in 1..(lookup[r].next - 1) : p = lookup[r].picked[i]
    BY <1>2 DEF Turns, AskedFirst
  <2>2. p \in batch => oc[p] # "unasked"
    BY DEF oc
  <2>3. oc[p] # "unasked" <=> outcome[r][p] # "unasked" \/ p \in batch
    BY <1>8, <2>2
  <2>4. PICK k \in Nat : k = lookup[r].next /\ k >= 1
    BY <1>6
  <2>5. PICK d \in Nat : d = c
    BY <1>5
  <2>6. \A i \in Int : i \in 1..(k + d - 1) <=> i \in 1..(k - 1) \/ i \in k..(k + d - 1)
    BY <2>4
  <2>7. p \in batch <=> \E i \in k..(k + d - 1) : p = lookup[r].picked[i]
    BY <2>4, <2>5
  <2>8. lk.next - 1 = k + d - 1
    BY <1>7, <2>4, <2>5
  <2>9. (\E i \in 1..(k + d - 1) : p = lookup[r].picked[i])
           <=> \/ \E i \in 1..(k - 1) : p = lookup[r].picked[i]
               \/ \E i \in k..(k + d - 1) : p = lookup[r].picked[i]
    BY <2>6
  <2>10. oc[p] # "unasked" <=> \E i \in 1..(k + d - 1) : p = lookup[r].picked[i]
    BY <2>1, <2>3, <2>4, <2>7, <2>9
  <2> QED
    BY <1>7, <2>8, <2>10
<1>10. Turns(r, lk, oc, sources[r], answer[r])
  <2>1. lk.next \in 1..(Len(lk.picked) + 1)
    <3>1. PICK k \in Nat, d \in Nat : k = lookup[r].next /\ d = c /\ k >= 1
      BY <1>5, <1>6
    <3>2. PICK n \in Nat : n = Len(lookup[r].picked)
      BY <1>6
    <3>3. k + d <= n + 1
      BY <3>1, <3>2
    <3>4. k + d \in 1..(n + 1)
      BY <3>1, <3>3
    <3> QED
      BY <1>7, <3>1, <3>2, <3>4
  <2> QED
    BY <1>2, <1>7, <1>9, <2>1 DEF Turns
<1> QED
  BY <1>1, <1>2, <1>7, <1>8, <1>10, OneTurns

LEMMA AskNextKeeps == ASSUME LookInv, NEW r \in Lookups, AskNext(r) PROVE LookInv'
<1>1. /\ lookup[r].stage = "running" /\ Waiting(r) = {} /\ MoreToAsk(r) /\ AskBatch(r, Batch(r))
  BY DEF AskNext, HoldsSlot
<1>2. /\ InWaterfall(lookup[r].picked) /\ lookup[r].next \in 1..Len(lookup[r].picked)
  <2>1. lookup[r] \in LookStates /\ Turns(r, lookup[r], outcome[r], sources[r], answer[r])
    BY DEF LookInv
  <2>2. Len(lookup[r].picked) \in Nat
    BY <2>1, LenProperties DEF LookStates
  <2> QED
    BY <1>1, <2>1, <2>2 DEF Turns, MoreToAsk
<1>3. PICK ps : ps = lookup[r].picked
  OBVIOUS
<1>4. PICK k \in 1..Len(ps) : k = lookup[r].next
  BY <1>2, <1>3
<1>5. InWaterfall(ps)
  BY <1>2, <1>3
<1>6. NextOnes(Batch(r), Cardinality(Batch(r)), WaveOf(r), ps, k)
  <2>1. InWaterfall(ps) /\ k \in 1..Len(ps) /\ lookup[r].picked = ps /\ lookup[r].next = k
    BY <1>3, <1>4, <1>5
  <2> QED
    BY <2>1, BatchIs
<1>7. PICK b : b = Batch(r)
  OBVIOUS
<1>8. PICK c \in 1..WaveOf(r) : c = Cardinality(b)
  BY <1>6, <1>7 DEF NextOnes
<1>9. /\ AskBatch(r, b) /\ b \subseteq Asked
      /\ lookup[r].next + c <= Len(lookup[r].picked) + 1
      /\ b = {lookup[r].picked[i] : i \in lookup[r].next..(lookup[r].next + c - 1)}
  BY <1>1, <1>3, <1>4, <1>6, <1>7, <1>8 DEF NextOnes
<1> QED
  BY <1>1, <1>8, <1>9, BatchKeeps

LEMMA ScrapeKeeps == ASSUME LookInv, NEW r \in Lookups, Scrape(r) PROVE LookInv'
<1> DEFINE p == lookup[r].picked[1]
<1>1. /\ lookup[r].stage = "running" /\ r \in ProgressiveLookups /\ lookup[r].next = 1
  BY DEF Scrape, HoldsSlot
<1>2. lookup[r] \in LookStates /\ Turns(r, lookup[r], outcome[r], sources[r], answer[r])
  BY DEF LookInv
<1>3. CASE AskBatch(r, {p})
  <2>1. Len(lookup[r].picked) = 1 /\ lookup[r].picked \in Seq(Asked)
    BY <1>1, <1>2 DEF Turns, LookStates
  <2>2. {p} \subseteq Asked
    BY <2>1, ElementOfSeq
  <2>3. Cardinality({p}) = 1 /\ 1 \in 1..WaveOf(r)
    <3>1. WaveOf(r) \in Nat \ {0}
      BY LookupAssumption DEF WaveOf
    <3>2. Cardinality({p}) = 1
      BY FS_Singleton
    <3> QED
      BY <3>1, <3>2
  <2>4. lookup[r].next + 1 <= Len(lookup[r].picked) + 1
    BY <1>1, <2>1
  <2>5. {p} = {lookup[r].picked[i] : i \in 1..1}
    OBVIOUS
  <2>6. PICK b \in {{p}}, c \in 1..WaveOf(r) : b = {p} /\ c = 1 /\ c = Cardinality(b)
    BY <2>3
  <2> HIDE DEF p
  <2>7. lookup[r].next + c - 1 = 1
    BY <1>1, <2>6
  <2>8. /\ AskBatch(r, b) /\ b \subseteq Asked /\ lookup[r].next + c <= Len(lookup[r].picked) + 1
        /\ b = {lookup[r].picked[i] : i \in lookup[r].next..(lookup[r].next + c - 1)}
    BY <1>1, <1>3, <2>2, <2>4, <2>5, <2>6, <2>7
  <2> QED
    BY <1>1, <2>6, <2>8, BatchKeeps
<1>4. CASE ~AskBatch(r, {p})
  <2>1. /\ lookup' = [lookup EXCEPT ![r].stage = "done"]
        /\ UNCHANGED <<outcome, sources, answer>>
    BY <1>4 DEF Scrape
  <2>2. answer[r] = <<>>
    BY <1>1, <1>2 DEF Turns
  <2> QED
    BY <1>1, <2>1, <2>2, StageKeeps
<1> QED
  BY <1>3, <1>4

(* A provider that was asked returns.                                      *)
LEMMA ReturnKeeps ==
    ASSUME LookInv, NEW r \in Lookups, NEW p \in Waiting(r), NEW to \in {"ok", "failed"},
           NEW list, OwnSources(list, p), outcome' = [outcome EXCEPT ![r][p] = to],
           sources' = [sources EXCEPT ![r][p] = list], UNCHANGED <<lookup, answer>>
    PROVE  LookInv'
<1> DEFINE oc == [outcome[r] EXCEPT ![p] = to]
           src == [sources[r] EXCEPT ![p] = list]
<1>1. /\ lookup[r] \in LookStates /\ Turns(r, lookup[r], outcome[r], sources[r], answer[r])
      /\ outcome[r] \in [Asked -> AskOutcomes] /\ sources[r] \in [Asked -> Seq(SourceType)]
      /\ answer[r] \in Seq(SourceType)
      /\ lookup' = [lookup EXCEPT ![r] = lookup[r]] /\ answer' = [answer EXCEPT ![r] = answer[r]]
      /\ outcome' = [outcome EXCEPT ![r] = oc] /\ sources' = [sources EXCEPT ![r] = src]
  BY DEF LookInv
<1>2. p \in Asked /\ outcome[r][p] = "asking"
  BY DEF Waiting
<1>3. list \in Seq(SourceType)
  BY DEF OwnSources
<1>4. /\ oc \in [Asked -> AskOutcomes] /\ oc[p] = to
      /\ \A q \in Asked : q # p => oc[q] = outcome[r][q]
  BY <1>1, <1>2 DEF AskOutcomes
<1>5. /\ src \in [Asked -> Seq(SourceType)] /\ src[p] = list
      /\ \A q \in Asked : q # p => src[q] = sources[r][q]
  BY <1>1, <1>2, <1>3
<1> HIDE DEF oc, src
<1>6. lookup[r].stage \notin {"answered", "done"} /\ answer[r] = <<>>
  BY <1>1, <1>2 DEF Turns
<1>7. \A q \in Asked : OwnSources(src[q], q)
  BY <1>1, <1>5 DEF Turns
<1>8. AskedFirst(lookup[r], oc)
  <2>1. \A q \in Asked : oc[q] # "unasked" <=> outcome[r][q] # "unasked"
    BY <1>2, <1>4
  <2> QED
    BY <1>1, <2>1 DEF Turns, AskedFirst
<1>9. Turns(r, lookup[r], oc, src, answer[r])
  BY <1>1, <1>6, <1>7, <1>8 DEF Turns
<1>10. PICK lk \in LookStates, ans \in Seq(SourceType) : lk = lookup[r] /\ ans = answer[r]
  BY <1>1
<1>11. /\ lookup' = [lookup EXCEPT ![r] = lk] /\ answer' = [answer EXCEPT ![r] = ans]
       /\ Turns(r, lk, oc, src, ans)
  BY <1>1, <1>9, <1>10
<1> QED
  BY <1>1, <1>4, <1>5, <1>11, OneTurns

LEMMA ProviderReturnsKeeps ==
    ASSUME LookInv, NEW r \in Lookups, NEW p \in Asked, ProviderReturns(r, p) PROVE LookInv'
<1>1. p \in Waiting(r) /\ UNCHANGED <<lookup, answer>>
  BY DEF ProviderReturns
<1>2. CASE \E refused \in SUBSET Refusable :
             /\ outcome' = [outcome EXCEPT ![r][p] = "ok"]
             /\ sources' = [sources EXCEPT ![r][p] = Normalized(p, refused)]
  <2>1. PICK refused : /\ outcome' = [outcome EXCEPT ![r][p] = "ok"]
                       /\ sources' = [sources EXCEPT ![r][p] = Normalized(p, refused)]
    BY <1>2
  <2>2. OwnSources(Normalized(p, refused), p)
    BY NormalizedIs
  <2> QED
    BY <1>1, <2>1, <2>2, ReturnKeeps
<1>3. CASE outcome' = [outcome EXCEPT ![r][p] = "failed"] /\ UNCHANGED sources
  <2>1. Turns(r, lookup[r], outcome[r], sources[r], answer[r])
    BY DEF LookInv
  <2>2. OwnSources(sources[r][p], p)
    BY <2>1 DEF Turns
  <2>3. sources' = [sources EXCEPT ![r][p] = sources[r][p]]
    BY <1>3 DEF LookInv
  <2> QED
    BY <1>1, <1>3, <2>2, <2>3, ReturnKeeps
<1> QED
  BY <1>2, <1>3 DEF ProviderReturns

LEMMA AnswerKeeps == ASSUME LookInv, NEW r \in Lookups, AnswerSources(r) PROVE LookInv'
<1> DEFINE lk == [lookup[r] EXCEPT !.stage = "answered"]
           built == BuiltFor(r)
<1>1. /\ lookup[r] \in LookStates /\ Turns(r, lookup[r], outcome[r], sources[r], answer[r])
      /\ outcome[r] \in [Asked -> AskOutcomes] /\ sources[r] \in [Asked -> Seq(SourceType)]
      /\ outcome' = [outcome EXCEPT ![r] = outcome[r]]
      /\ sources' = [sources EXCEPT ![r] = sources[r]]
  BY DEF LookInv, AnswerSources
<1>2. /\ lookup[r].stage = "running" /\ Waiting(r) = {}
      /\ answer' = [answer EXCEPT ![r] = built] /\ lookup' = [lookup EXCEPT ![r] = lk]
  BY DEF AnswerSources, HoldsSlot, LookInv
<1>3. built \in Seq(SourceType) /\ Exact(r, lookup[r].picked, sources[r], built)
  <2>1. InWaterfall(lookup[r].picked) /\ \A p \in Asked : OwnSources(sources[r][p], p)
    BY <1>1 DEF Turns
  <2> QED
    BY <1>1, <2>1, BuiltIs
<1> HIDE DEF built
<1>4. /\ lk \in LookStates /\ lk.next = lookup[r].next /\ lk.picked = lookup[r].picked
      /\ lk.stage = "answered" /\ lk.over = lookup[r].over
  BY <1>1 DEF LookStates
<1> HIDE DEF lk
<1>5. Turns(r, lk, outcome[r], sources[r], built)
  <2>1. \A p \in Asked : outcome[r][p] # "asking"
    BY <1>2 DEF Waiting
  <2>2. AskedFirst(lk, outcome[r])
    BY <1>1, <1>4 DEF Turns, AskedFirst
  <2>3. r \in ProgressiveLookups => Len(lk.picked) = 1
    BY <1>1, <1>2, <1>4 DEF Turns
  <2>4. InWaterfall(lk.picked) /\ lk.next \in 1..(Len(lk.picked) + 1)
    BY <1>1, <1>4 DEF Turns
  <2>5. \A p \in Asked : OwnSources(sources[r][p], p)
    BY <1>1 DEF Turns
  <2>6. ASSUME lk.next <= Len(lk.picked) PROVE Excused(r, lk, built)
    <3>1. /\ r \notin ProgressiveLookups
          /\ lk.over \/ (r \in FastLookups /\ ~(Found(r) < FastTarget))
      <4>1. r \in ProgressiveLookups => lookup[r].next = 2
        BY DEF AnswerSources
      <4>2. r \notin ProgressiveLookups
        <5> SUFFICES ASSUME r \in ProgressiveLookups PROVE FALSE
          OBVIOUS
        <5>1. lk.next = 2
          BY <1>4, <4>1
        <5>2. Len(lk.picked) = 1
          BY <2>3
        <5> QED
          BY <2>6, <5>1, <5>2
      <4> QED
        BY <1>4, <2>6, <4>2 DEF AnswerSources, MoreToAsk
    <3>2. r \in FastLookups => built = FromFirst(r, Len(lookup[r].picked))
      BY LookupAssumption DEF built, BuiltFor
    <3>3. Len(built) \in Nat /\ FastTarget \in Nat
      BY <1>3, LenProperties, LookupAssumption
    <3>4. r \in FastLookups => Found(r) = Len(built)
      BY <3>2 DEF Found
    <3> QED
      BY <3>1, <3>3, <3>4 DEF Excused
  <2> QED
    BY <1>3, <1>4, <2>1, <2>2, <2>3, <2>4, <2>5, <2>6 DEF Turns
<1> QED
  BY <1>1, <1>2, <1>3, <1>4, <1>5, OneTurns

LEMMA LookStepKeeps == ASSUME LookInv, [LookupNext]_lookupVars PROVE LookInv'
<1>1. ASSUME NEW p, NEW to, StandingChanges(p, to) PROVE LookInv'
  <2>1. UNCHANGED <<lookup, outcome, sources, answer>>
    BY <1>1 DEF StandingChanges
  <2> QED
    BY <2>1 DEF LookInv
<1>2. CASE UNCHANGED lookupVars
  <2>1. UNCHANGED <<lookup, outcome, sources, answer>>
    BY <1>2 DEF lookupVars
  <2> QED
    BY <2>1 DEF LookInv
<1>3. ASSUME NEW r \in Lookups, GetSlot(r) \/ NoSlot(r) PROVE LookInv'
  <2>1. PICK to \in {"running", "done"} : lookup' = [lookup EXCEPT ![r].stage = to]
    BY <1>3 DEF GetSlot, NoSlot
  <2>2. /\ lookup[r].stage = "waiting" /\ UNCHANGED <<outcome, sources, answer>>
    BY <1>3 DEF GetSlot, NoSlot
  <2>3. Turns(r, lookup[r], outcome[r], sources[r], answer[r])
    BY DEF LookInv
  <2>4. lookup[r].next = 1 /\ answer[r] = <<>>
    BY <2>2, <2>3 DEF Turns
  <2> QED
    BY <2>1, <2>2, <2>4, StageKeeps
<1> QED
  BY <1>1, <1>2, <1>3, AskSourcesKeeps, AskProviderKeeps, OverKeeps, AskNextKeeps, ScrapeKeeps,
     ProviderReturnsKeeps, AnswerKeeps DEF LookupNext

LEMMA LookInitHolds == ASSUME LookupInit PROVE LookInv
<1> DEFINE lk == [stage |-> "idle", picked |-> <<>>, next |-> 1, over |-> FALSE]
           oc == [p \in Asked |-> "unasked"]
           src == [p \in Asked |-> <<>>]
<1>1. /\ lookup = [r \in Lookups |-> lk] /\ outcome = [r \in Lookups |-> oc]
      /\ sources = [r \in Lookups |-> src] /\ answer = [r \in Lookups |-> <<>>] /\ lateAsks = {}
  BY DEF LookupInit
<1>2. PICK e : e = <<>>
  OBVIOUS
<1>3. /\ e \in Seq(Asked) /\ e \in Seq(SourceType) /\ Len(e) = 0
  BY <1>2
<1>4. InWaterfall(e) /\ \A p \in Asked : OwnSources(e, p)
  BY <1>3 DEF InWaterfall, OwnSources
<1>5. lk \in LookStates /\ oc \in [Asked -> AskOutcomes] /\ src \in [Asked -> Seq(SourceType)]
  BY <1>2, <1>3 DEF LookStates, AskOutcomes
<1>6. /\ lk.stage = "idle" /\ lk.next = 1 /\ lk.picked = e
      /\ \A p \in Asked : oc[p] = "unasked" /\ src[p] = e
  BY <1>2
<1> HIDE DEF lk, oc, src
<1>7. ASSUME NEW r \in Lookups PROVE Turns(r, lk, oc, src, e)
  <2>1. AskedFirst(lk, oc)
    BY <1>6 DEF AskedFirst
  <2> QED
    BY <1>2, <1>3, <1>4, <1>6, <2>1 DEF Turns
<1> QED
  BY <1>1, <1>2, <1>3, <1>5, <1>7 DEF LookInv

LEMMA LookSound == ASSUME LookInv PROVE LookupsSound
<1>1. \A r \in Lookups : /\ Turns(r, lookup[r], outcome[r], sources[r], answer[r])
                         /\ lookup[r] \in LookStates
  BY DEF LookInv
<1>2. AnswerExact
  BY <1>1 DEF AnswerExact, Exact, Turns
<1>3. ASSUME NEW r \in Lookups, NEW i \in DOMAIN ByPriority, NEW p, p = ByPriority[i],
             lookup[r].stage = "answered", p \in ToSet(lookup[r].picked),
             outcome[r][p] = "unasked"
      PROVE  /\ Excused(r, lookup[r], answer[r])
             /\ \A j \in DOMAIN ByPriority : i < j => outcome[r][ByPriority[j]] = "unasked"
  <2> DEFINE ps == lookup[r].picked
  <2>1. /\ InWaterfall(ps) /\ AskedFirst(lookup[r], outcome[r]) /\ Len(ps) \in Nat
        /\ lookup[r].next \in 1..(Len(ps) + 1)
        /\ lookup[r].next <= Len(ps) => Excused(r, lookup[r], answer[r])
    BY <1>1, <1>3, LenProperties DEF Turns, InWaterfall
  <2>2. PICK k \in 1..Len(ps) : p = ps[k]
    BY <1>3, <2>1, LenProperties DEF ToSet, InWaterfall
  <2>3. p \in Asked /\ Place(p) = i /\ i \in Int
    BY <1>3, PlaceIs
  <2>4. lookup[r].next <= k
    <3> SUFFICES ASSUME k < lookup[r].next PROVE FALSE
      BY <2>1
    <3>1. k \in 1..(lookup[r].next - 1)
      BY <2>1
    <3> QED
      BY <1>3, <2>1, <2>2, <2>3, <3>1 DEF AskedFirst
  <2>5. ASSUME NEW j \in DOMAIN ByPriority, i < j, outcome[r][ByPriority[j]] # "unasked" PROVE FALSE
    <3>1. ByPriority[j] \in Asked /\ Place(ByPriority[j]) = j /\ j \in Int
      BY PlaceIs
    <3>2. PICK l \in 1..(lookup[r].next - 1) : ByPriority[j] = ps[l]
      BY <2>1, <2>5, <3>1 DEF AskedFirst
    <3>3. l < k /\ l \in 1..Len(ps)
      BY <2>1, <2>4
    <3>4. Place(ps[l]) < Place(ps[k])
      BY <2>1, <3>3 DEF InWaterfall
    <3> QED
      BY <2>2, <2>3, <2>5, <3>1, <3>2, <3>4
  <2> QED
    BY <2>1, <2>4, <2>5
<1>4. NoneSkipped
  BY <1>3 DEF NoneSkipped, Excused
<1> QED
  BY <1>2, <1>4 DEF LookupsSound

(* Answers are exact and skip no provider, whatever fails or is late.      *)
THEOREM LookupsAreSound == LookupSpec => []LookupsSound
<1>1. LookupInit => LookInv
  BY LookInitHolds
<1>2. LookInv /\ [LookupNext]_lookupVars => LookInv'
  BY LookStepKeeps
<1>3. LookInv => LookupsSound
  BY LookSound
<1> QED
  BY <1>1, <1>2, <1>3, PTL DEF LookupSpec
----------------------------------------------------------------------------
(* The types of what answers: the invariants above leave open how far the  *)
(* moments that are kept with a value can go.                              *)

CacheBounds ==
    /\ time <= MaxTime /\ resets <= MaxResets
    /\ \A k \in CacheKeys : stamp[k] \in 0..MaxTime
    /\ \A f \in 1..Len(flights) : flights[f].made \in 0..MaxTime
    /\ older \subseteq CacheKeys \X CacheKeys

LEMMA StampsBounded ==
    ASSUME NEW l, NEW s \in [CacheKeys -> Int], MaxTime \in Nat,
           \A k \in CacheKeys : s[k] \in 0..MaxTime
    PROVE  \A k \in CacheKeys : Stamps(l, s)[k] \in 0..MaxTime
BY DEF Stamps

LEMMA EndsBounded ==
    ASSUME CacheInv, CacheBounds, NEW f \in FlightIds, NEW pc, FlightEnds(f, pc)
    PROVE  \A i \in 1..Len(flights') : flights'[i].made \in 0..MaxTime
<1>1. PICK fs \in Seq(FlightStates) : fs = flights
  BY DEF CacheInv, CacheShape
<1>2. FlightOver \in FlightStates /\ FlightOver.made \in 0..MaxTime
  BY CacheAssumption DEF FlightStates, FlightOver
<1>3. flights' = [fs EXCEPT ![f] = FlightOver]
  BY <1>1 DEF FlightEnds
<1>4. Len(flights') = Len(fs) /\ \A i \in 1..Len(fs) : flights'[i] = IF i = f THEN FlightOver ELSE fs[i]
  BY <1>1, <1>2, <1>3, ExceptSeq, LenProperties
<1> QED
  BY <1>1, <1>2, <1>4 DEF CacheBounds

LEMMA FliesBounded ==
    ASSUME CacheInv, CacheBounds, NEW k \in CacheKeys, Fly(k)
    PROVE  \A i \in 1..Len(flights') : flights'[i].made \in 0..MaxTime
<1>1. PICK fs \in Seq(FlightStates) : fs = flights
  BY DEF CacheInv, CacheShape
<1>2. CASE UNCHANGED flights
  BY <1>2 DEF CacheBounds
<1>3. ASSUME NEW r \in FlightStates, r.made = 0, flights' = Append(fs, r)
      PROVE  \A i \in 1..Len(flights') : flights'[i].made \in 0..MaxTime
  <2>1. Len(fs) \in Nat /\ Len(flights') = Len(fs) + 1 /\ flights'[Len(fs) + 1] = r
        /\ \A i \in 1..Len(fs) : flights'[i] = fs[i]
    BY <1>3, AppendProperties, LenProperties
  <2>2. MaxTime \in Nat
    BY CacheAssumption
  <2>3. ASSUME NEW i \in 1..Len(flights') PROVE flights'[i].made \in 0..MaxTime
    <3>1. i \in 1..Len(fs) \/ i = Len(fs) + 1
      BY <2>1, <2>3
    <3> QED
      BY <1>1, <1>3, <2>1, <2>2, <3>1 DEF CacheBounds
  <2> QED
    BY <2>3
<1>4. [key |-> k, stage |-> "fetching", made |-> 0] \in FlightStates
  BY DEF FlightStates
<1>5. PICK r \in FlightStates : r = [key |-> k, stage |-> "fetching", made |-> 0]
  BY <1>4
<1>6. r.made = 0
  BY <1>5
<1> QED
  BY <1>1, <1>2, <1>3, <1>5, <1>6 DEF Fly

LEMMA CacheBoundsKept ==
    ASSUME CacheInv, CacheBounds, [CacheNext]_cacheFlightVars
    PROVE  CacheBounds'
<1>0. /\ MaxTime \in Nat /\ MaxResets \in Nat /\ time \in Nat /\ resets \in Nat
      /\ stamp \in [CacheKeys -> Int] /\ flights \in Seq(FlightStates)
  BY CacheAssumption DEF CacheInv, CacheShape
<1>1. CASE UNCHANGED cacheFlightVars
  BY <1>1 DEF cacheFlightVars, CacheBounds
<1>2. CASE TimePasses
  BY <1>0, <1>2 DEF TimePasses, CacheBounds
<1>3. \A k \in CacheKeys : Used(k) \subseteq CacheKeys \X CacheKeys
  BY DEF Used, CacheBounds
<1>4. ASSUME NEW a \in Askers, Judge(a) PROVE CacheBounds'
  <2>1. asker[a].key \in CacheKeys /\ UNCHANGED <<time, lru, stamp, resets, older>>
    BY <1>4 DEF Judge, CacheInv, AskersKnow
  <2>2. \A i \in 1..Len(flights') : flights'[i].made \in 0..MaxTime
    <3>1. UNCHANGED flights \/ Fly(asker[a].key)
      BY <1>4 DEF Judge
    <3>2. CASE UNCHANGED flights
      BY <3>2 DEF CacheBounds
    <3>3. CASE Fly(asker[a].key)
      BY <2>1, <3>3, FliesBounded
    <3> QED
      BY <3>1, <3>2, <3>3
  <2> QED
    BY <2>1, <2>2 DEF CacheBounds
<1>5. ASSUME NEW a \in Askers, NEW k \in CacheKeys, LookInto(a, k) PROVE CacheBounds'
  <2>1. \A i \in CacheKeys : stamp'[i] \in 0..MaxTime
    BY <1>0, <1>5, StampsBounded DEF LookInto, CacheBounds
  <2>2. older' \subseteq CacheKeys \X CacheKeys
    BY <1>3, <1>5 DEF LookInto, CacheBounds
  <2> QED
    BY <1>5, <2>1, <2>2 DEF LookInto, CacheBounds
<1>6. ASSUME NEW f \in FlightIds, Fetched(f) PROVE CacheBounds'
  <2>1. PICK fs \in Seq(FlightStates) : fs = flights
    BY <1>0
  <2>2. PICK r : r = [fs[f] EXCEPT !.stage = "writing", !.made = time]
    OBVIOUS
  <2>3. f \in 1..Len(fs) /\ fs[f] \in FlightStates /\ fs[f].stage = "fetching"
    BY <1>6, <2>1, ElementOfSeq DEF Fetched, FlightIds
  <2>4. r \in FlightStates /\ r.made = time
    <3> DEFINE R == [key : CacheKeys, stage : {"fetching", "writing"}, made : Int]
    <3>1. PICK g \in R : g = fs[f]
      BY <2>3 DEF FlightStates, FlightOver
    <3>2. PICK n \in Int : n = time
      BY <1>0
    <3>3. [g EXCEPT !.stage = "writing", !.made = n] \in R /\ [g EXCEPT !.stage = "writing", !.made = n].made = n
      OBVIOUS
    <3> HIDE DEF R
    <3>4. r \in R /\ r.made = time
      BY <2>2, <3>1, <3>2, <3>3
    <3> QED
      BY <3>4 DEF FlightStates, R
  <2>5. flights' = [fs EXCEPT ![f] = r]
    BY <1>6, <2>1, <2>2 DEF Fetched
  <2>6. Len(flights') = Len(fs) /\ \A i \in 1..Len(fs) : flights'[i] = IF i = f THEN r ELSE fs[i]
    BY <2>3, <2>4, <2>5, ExceptSeq, LenProperties
  <2>7. time \in 0..MaxTime
    BY <1>0 DEF CacheBounds
  <2>8. \A i \in 1..Len(flights') : flights'[i].made \in 0..MaxTime
    BY <2>1, <2>4, <2>6, <2>7 DEF CacheBounds
  <2> QED
    BY <1>6, <2>8 DEF Fetched, CacheBounds
<1>7. ASSUME NEW f \in FlightIds, Written(f) PROVE CacheBounds'
  <2>1. PICK r \in FlightStates : r = flights[f]
    BY <1>0, ElementOfSeq DEF FlightIds
  <2>2. r.key \in CacheKeys /\ r.made \in 0..MaxTime
    BY <1>7, <2>1 DEF Written, FlightStates, FlightOver, CacheBounds, FlightIds
  <2>3. PICK s \in [CacheKeys -> Int] : s = [stamp EXCEPT ![r.key] = r.made]
    <3>1. r.made \in Int
      BY <1>0, <2>2
    <3>2. [stamp EXCEPT ![r.key] = r.made] \in [CacheKeys -> Int]
      BY <1>0, <2>2, <3>1
    <3> QED
      BY <3>2
  <2>4. \A k \in CacheKeys : s[k] \in 0..MaxTime
    BY <1>0, <2>2, <2>3 DEF CacheBounds
  <2>5. stamp' = Stamps(lru', s) /\ older' = Used(r.key)
    BY <1>7, <2>1, <2>3 DEF Written
  <2>6. \A k \in CacheKeys : stamp'[k] \in 0..MaxTime
    BY <1>0, <2>4, <2>5, StampsBounded
  <2>7. FlightEnds(f, "fetched") /\ UNCHANGED <<time, resets>>
    BY <1>7 DEF Written
  <2>8. PICK pc : pc = "fetched"
    OBVIOUS
  <2>9. \A i \in 1..Len(flights') : flights'[i].made \in 0..MaxTime
    BY <2>7, <2>8, EndsBounded
  <2> QED
    BY <1>3, <2>2, <2>5, <2>6, <2>7, <2>9 DEF CacheBounds
<1>8. ASSUME NEW f \in FlightIds, FetchFails(f) PROVE CacheBounds'
  <2>1. PICK pc : pc = "failed"
    OBVIOUS
  <2>2. FlightEnds(f, pc) /\ UNCHANGED <<time, stamp, resets, older>>
    BY <1>8, <2>1 DEF FetchFails
  <2> QED
    BY <2>2, EndsBounded DEF CacheBounds
<1>9. ASSUME Clear \/ \E k \in CacheKeys : Drop(k) PROVE CacheBounds'
  <2>1. \A i \in CacheKeys : stamp'[i] \in 0..MaxTime
    BY <1>0, <1>9, StampsBounded DEF Drop, Clear, CacheBounds
  <2>2. resets' <= MaxResets
    BY <1>0, <1>9 DEF Drop, Clear, CacheBounds
  <2> QED
    BY <1>9, <2>1, <2>2 DEF Drop, Clear, CacheBounds
<1> QED
  BY <1>1, <1>2, <1>4, <1>5, <1>6, <1>7, <1>8, <1>9 DEF CacheNext

LEMMA CacheTypes == CacheSpec => []CacheTypeOK
<1>1. CacheInit => CacheBounds
  <2> SUFFICES ASSUME CacheInit PROVE CacheBounds
    OBVIOUS
  <2>1. Len(flights) = 0 /\ MaxTime \in Nat /\ MaxResets \in Nat
    BY CacheAssumption DEF CacheInit
  <2> QED
    BY <2>1 DEF CacheInit, CacheBounds
<1>2. CacheInv /\ CacheBounds /\ [CacheNext]_cacheFlightVars => CacheBounds'
  BY CacheBoundsKept
<1>3. CacheInv /\ CacheBounds => CacheTypeOK
  <2> SUFFICES ASSUME CacheInv, CacheBounds PROVE CacheTypeOK
    OBVIOUS
  <2>0. CacheShape /\ MaxTime \in Nat /\ MaxResets \in Nat
    BY CacheAssumption DEF CacheInv
  <2>1. ASSUME NEW f \in FlightIds
        PROVE  flights[f] \in [key : CacheKeys, made : 0..MaxTime, stage : {"fetching", "writing"}]
                                 \cup {FlightOver}
    <3>1. PICK r \in FlightStates : r = flights[f] /\ r.made \in 0..MaxTime
      BY <2>0, ElementOfSeq DEF CacheShape, FlightIds, CacheBounds
    <3> QED
      BY <3>1 DEF FlightStates
  <2>2. time \in 0..MaxTime /\ resets \in 0..MaxResets /\ stamp \in [CacheKeys -> 0..MaxTime]
    BY <2>0 DEF CacheShape, CacheBounds
  <2>3. \A a \in Askers :
          /\ asker[a].pc \in {"idle", "looked", "fresh", "stale", "waiting", "fetched", "failed"}
          /\ asker[a].flight \in 1..MaxFlights \cup {NoFlight}
    BY <2>0 DEF CacheShape, AskStates
  <2> QED
    BY <2>0, <2>1, <2>2, <2>3 DEF CacheTypeOK, CacheShape, CacheBounds
<1>4. CacheSpec => []CacheInv
  BY CacheStarts, CacheStepKeeps, PTL DEF CacheSpec
<1> QED
  BY <1>1, <1>2, <1>3, <1>4, PTL DEF CacheSpec

PagesBounds ==
    /\ pageTime <= MaxPageTime
    /\ \A v \in Revisions : /\ pageRedis.at[v] \in PageEntries
                            /\ \A r \in PageReplicas : pageMemory[r][v] \in PageEntries
    /\ \A b \in Browsers :
          /\ browse[b].page \in PageType \cup {NoPage}
          /\ browse[b].pc \in {"sharing", "storing"} => browse[b].page \in PageType

LEMMA BrowseBounded ==
    ASSUME PagesInv, PagesBounds, NEW b \in Browsers, NEW w,
           w.page \in PageType \cup {NoPage},
           w.pc \in {"sharing", "storing"} => w.page \in PageType,
           BrowseBecomes(b, w), pageTime' = pageTime,
           \A v \in Revisions : /\ pageRedis'.at[v] \in PageEntries
                                /\ \A r \in PageReplicas : pageMemory'[r][v] \in PageEntries
    PROVE  PagesBounds'
BY DEF PagesInv, RequestsFit, PagesBounds, BrowseBecomes

LEMMA EntryBounded ==
    ASSUME PagesInv, PagesBounds, NEW b \in Browsers, browse[b].pc \in {"sharing", "storing"}
    PROVE  PageEntry(b) \in PageEntries
<1>1. browse[b].page \in PageType /\ pageTime <= MaxPageTime
  BY DEF PagesBounds
<1>2. pageTime \in Nat /\ PageTtl \in Nat /\ MaxPageTime \in Nat
  BY CatalogsAssumption DEF PagesInv
<1>3. PageLife(browse[b].base) \in 0..PageTtl
  <2>1. browse[b].base \in PageBases
    BY DEF PagesInv, RequestsFit, BrowseStates
  <2>2. HintOf[browse[b].base] \in Nat
    BY <2>1, CatalogsAssumption
  <2> QED
    BY <1>2, <2>2 DEF PageLife
<1>4. PICK n : n = pageTime + PageLife(browse[b].base)
  OBVIOUS
<1>5. n \in 0..(MaxPageTime + PageTtl)
  BY <1>1, <1>2, <1>3, <1>4
<1>6. PageEntry(b) = [page |-> browse[b].page, until |-> n]
  BY <1>4 DEF PageEntry
<1> QED
  BY <1>1, <1>5, <1>6 DEF PageEntries

LEMMA BrowsersBounded ==
    ASSUME PagesInv, PagesBounds, NEW b \in Browsers,
           \/ \E r \in PageReplicas : AskPage(b, r)
           \/ LookUpPage(b) \/ FetchPage(b) \/ SharePage(b) \/ StorePage(b)
           \/ AnswerPage(b) \/ PageFails(b)
    PROVE  PagesBounds'
<1>0. /\ pageTime \in Nat /\ browse \in [Browsers -> BrowseStates]
      /\ \A v \in Revisions : /\ pageRedis.at[v] \in PageEntries
                              /\ \A r \in PageReplicas : pageMemory[r][v] \in PageEntries
  BY DEF PagesInv, RequestsFit, PagesBounds
<1>1. PICK c \in BrowseStates : c = browse[b]
  BY <1>0
<1>2. c.page \in PageType \cup {NoPage} /\ (c.pc \in {"sharing", "storing"} => c.page \in PageType)
  BY <1>1 DEF PagesBounds
<1>3. NoBrowse.page = NoPage /\ NoBrowse.pc = "idle" /\ NoBrowse \in BrowseStates
  BY PagesIdle DEF NoBrowse
<1>4. ASSUME NEW r \in PageReplicas, AskPage(b, r) PROVE PagesBounds'
  <2>1. PICK w : /\ w = [NoBrowse EXCEPT !.pc = "looking", !.host = r, !.rev = shop[r].rev,
                           !.base = shop[r].base, !.live = TRUE, !.since = pageTime]
                 /\ BrowseBecomes(b, w)
    BY <1>4 DEF AskPage
  <2>2. w.page = NoPage /\ w.pc = "looking"
    BY <1>3, <2>1 DEF BrowseStates
  <2> QED
    BY <1>0, <1>4, <2>1, <2>2, BrowseBounded DEF AskPage
<1>5. ASSUME LookUpPage(b) PROVE PagesBounds'
  <2>1. PICK p : p = CachedPage(b)
    OBVIOUS
  <2>2. c.pc = "looking" /\ c.host \in PageReplicas /\ KeyOf(b) \in Revisions
    BY <1>1, <1>5, KeyFits DEF LookUpPage, RequestFits
  <2>3. PICK far \in PageEntries, near \in PageEntries :
             far = pageRedis.at[KeyOf(b)] /\ near = pageMemory[c.host][KeyOf(b)]
    BY <1>0, <2>2
  <2>4. p = NoPage \/ (p = far.page /\ far # NoPage) \/ (p = near.page /\ near # NoPage)
    BY <1>1, <2>1, <2>3 DEF CachedPage, LiveIn
  <2>5. p \in PageType \cup {NoPage}
    BY <2>3, <2>4 DEF PageEntries
  <2>6. PICK w : /\ w = [c EXCEPT !.page = p, !.live = FALSE,
                                  !.pc = IF p = NoPage THEN "fetching" ELSE "answered"]
                 /\ BrowseBecomes(b, w)
    BY <1>1, <1>5, <2>1 DEF LookUpPage
  <2>7. w.page = p /\ w.pc \in {"fetching", "answered"}
    BY <2>6 DEF BrowseStates
  <2> QED
    BY <1>0, <1>5, <2>5, <2>6, <2>7, BrowseBounded DEF LookUpPage
<1>6. ASSUME FetchPage(b) PROVE PagesBounds'
  <2>1. PICK p : p = [base |-> c.base, made |-> pageTime]
    OBVIOUS
  <2>2. c.base \in PageBases /\ pageTime \in 0..MaxPageTime
    BY <1>0, CatalogsAssumption DEF BrowseStates, PagesBounds
  <2>3. p \in PageType
    BY <2>1, <2>2 DEF PageType
  <2>4. PICK w : /\ w = [c EXCEPT !.pc = IF pageRedis.up THEN "sharing" ELSE "storing", !.page = p]
                 /\ BrowseBecomes(b, w)
    BY <1>1, <1>6, <2>1 DEF FetchPage
  <2>5. w.page = p
    BY <2>4 DEF BrowseStates
  <2> QED
    BY <1>0, <1>6, <2>3, <2>4, <2>5, BrowseBounded DEF FetchPage
<1>7. ASSUME SharePage(b) PROVE PagesBounds'
  <2>1. c.pc = "sharing" /\ PageEntry(b) \in PageEntries
    BY <1>1, <1>7, EntryBounded DEF SharePage
  <2>2. PICK w : w = [c EXCEPT !.pc = "storing"] /\ BrowseBecomes(b, w)
    BY <1>1, <1>7 DEF SharePage
  <2>3. w.page = c.page /\ w.pc = "storing"
    BY <2>2 DEF BrowseStates
  <2>4. pageRedis'.at = [pageRedis.at EXCEPT ![KeyOf(b)] = PageEntry(b)]
    BY <1>7 DEF SharePage, PagesInv
  <2>5. \A v \in Revisions : pageRedis'.at[v] \in PageEntries
    BY <1>0, <2>1, <2>4 DEF PagesInv
  <2> QED
    BY <1>0, <1>2, <1>7, <2>1, <2>2, <2>3, <2>5, BrowseBounded DEF SharePage
<1>8. ASSUME StorePage(b) PROVE PagesBounds'
  <2>1. c.pc = "storing" /\ PageEntry(b) \in PageEntries
    BY <1>1, <1>8, EntryBounded DEF StorePage
  <2>2. PICK w : w = [c EXCEPT !.pc = "answered"] /\ BrowseBecomes(b, w)
    BY <1>1, <1>8 DEF StorePage
  <2>3. w.page = c.page /\ w.pc = "answered"
    BY <2>2 DEF BrowseStates
  <2>4. ASSUME NEW r \in PageReplicas, NEW v \in Revisions PROVE pageMemory'[r][v] \in PageEntries
    <3>1. pageMemory = [a \in PageReplicas |-> pageMemory[a]] /\ pageMemory[r] \in [Revisions -> EntryStates \cup {NoPage}]
      BY DEF PagesInv, MemoriesFit, EntriesFit
    <3> QED
      BY <1>0, <1>8, <2>1, <3>1 DEF StorePage
  <2> QED
    BY <1>0, <1>2, <1>8, <2>2, <2>3, <2>4, BrowseBounded DEF StorePage
<1>9. ASSUME AnswerPage(b) \/ PageFails(b) PROVE PagesBounds'
  BY <1>0, <1>3, <1>9, BrowseBounded DEF AnswerPage, PageFails
<1> QED
  BY <1>4, <1>5, <1>6, <1>7, <1>8, <1>9

LEMMA PagesBoundsKept ==
    ASSUME PagesInv, PagesBounds, [PagesNext]_pageVars
    PROVE  PagesBounds'
<1>1. CASE UNCHANGED pageVars
  BY <1>1 DEF pageVars, PagesBounds
<1>2. CASE \E b \in Browsers :
             \/ \E r \in PageReplicas : AskPage(b, r)
             \/ LookUpPage(b) \/ FetchPage(b) \/ SharePage(b) \/ StorePage(b)
             \/ AnswerPage(b) \/ PageFails(b)
  BY <1>2, BrowsersBounded
<1>3. ASSUME NEW r \in PageReplicas, Reconfigure(r) \/ \E q \in PageReplicas : Adopt(r, q)
      PROVE  PagesBounds'
  <2>1. UNCHANGED <<pageTime, pageRedis, pageMemory>>
    BY <1>3 DEF Reconfigure, Adopt
  <2>2. browse' = Detached(r) \/ \E u \in PageBases : browse' = Readdressed(r, u)
    BY <1>3 DEF Reconfigure, Adopt
  <2>3. ASSUME NEW b \in Browsers PROVE browse'[b].page = browse[b].page /\ browse'[b].pc = browse[b].pc
    <3>1. PICK c \in BrowseStates : c = browse[b]
      BY DEF PagesInv, RequestsFit
    <3>2. browse'[b] = c \/ browse'[b] = [c EXCEPT !.live = FALSE] \/ \E u \in PageBases : browse'[b] = [c EXCEPT !.base = u]
      BY <2>2, <3>1 DEF Detached, Readdressed
    <3> QED
      BY <3>1, <3>2 DEF BrowseStates
  <2> QED
    BY <2>1, <2>3 DEF PagesBounds
<1>4. CASE RedisTurns
  <2>1. pageRedis'.at = pageRedis.at /\ UNCHANGED <<pageTime, pageMemory, browse>>
    BY <1>4 DEF RedisTurns, PagesInv
  <2> QED
    BY <2>1 DEF PagesBounds
<1>5. CASE PageTimePasses
  <2>1. ASSUME NEW at, NEW slack, NEW v \in Revisions, at[v] \in PageEntries
        PROVE  Unexpired(at, slack)[v] \in PageEntries
    BY <2>1 DEF Unexpired, PageEntries
  <2>2. pageRedis'.at = Unexpired(pageRedis.at, 0) /\ UNCHANGED browse
    BY <1>5 DEF PageTimePasses, PagesInv
  <2>3. \A v \in Revisions : pageRedis'.at[v] \in PageEntries
    BY <2>1, <2>2 DEF PagesBounds
  <2>4. \A v \in Revisions, r \in PageReplicas : pageMemory'[r][v] \in PageEntries
    BY <1>5, <2>1 DEF PageTimePasses, PagesBounds
  <2>5. pageTime' <= MaxPageTime
    <3>1. pageTime \in Nat /\ MaxPageTime \in Nat
      BY CatalogsAssumption DEF PagesInv
    <3> QED
      BY <1>5, <3>1 DEF PageTimePasses
  <2> QED
    BY <2>2, <2>3, <2>4, <2>5 DEF PagesBounds
<1> QED
  BY <1>1, <1>2, <1>3, <1>4, <1>5 DEF PagesNext

LEMMA PageTypes == PagesSpec => []PagesTypeOK
<1>1. PagesInit => PagesBounds
  <2> SUFFICES ASSUME PagesInit PROVE PagesBounds
    OBVIOUS
  <2>1. \A b \in Browsers : browse[b].page = NoPage /\ browse[b].pc = "idle"
    BY DEF PagesInit, NoBrowse
  <2>2. pageTime <= MaxPageTime
    BY CatalogsAssumption DEF PagesInit
  <2>3. \A v \in Revisions : pageRedis.at[v] = NoPage /\ \A r \in PageReplicas : pageMemory[r][v] = NoPage
    BY DEF PagesInit
  <2> QED
    BY <2>1, <2>2, <2>3 DEF PagesBounds, PageEntries
<1>2. PagesInv /\ PagesBounds /\ [PagesNext]_pageVars => PagesBounds'
  BY PagesBoundsKept
<1>3. PagesInv /\ PagesBounds => PagesTypeOK
  <2> SUFFICES ASSUME PagesInv, PagesBounds PROVE PagesTypeOK
    OBVIOUS
  <2>1. ASSUME NEW r \in PageReplicas PROVE shop[r] \in [rev : Revisions, base : PageBases, offered : BOOLEAN]
    <3>1. PICK x \in ShopStates : x = shop[r] /\ x.rev <= pageCounts.edits
      BY DEF PagesInv, ShopsFit
    <3>2. x.rev \in Revisions
      BY <3>1, CatalogsAssumption DEF PagesInv, CountsFit, ShopStates, Revisions
    <3> QED
      BY <3>1, <3>2 DEF ShopStates
  <2> QED
    BY <2>1 DEF PagesInv, ShopsFit, PagesBounds, PagesTypeOK
<1>4. PagesSpec => []PagesInv
  BY PagesStart, PagesStepKeeps, PTL DEF PagesSpec
<1> QED
  BY <1>1, <1>2, <1>3, <1>4, PTL DEF PagesSpec

LEMMA FileAndMediaTypes == (FilesSpec => []FilesTypeOK) /\ (MediaSpec => []MediaTypeOK)
<1>1. FilesInit => FilesInv
  BY FilesAssumption DEF FilesInit, FilesInv
<1>2. FilesInv => FilesTypeOK
  BY ElementOfSeq DEF FilesInv, FilesTypeOK
<1>3. MediaInv => MediaTypeOK
  BY DEF MediaInv, MediaTimes, PositiveSound, ViewsSound, ViewStates, MediaTypeOK
<1> QED
  BY <1>1, <1>2, <1>3, FilesKeep, MediaStarts, MediaStepKeeps, PTL DEF FilesSpec, MediaSpec

StandingOK == standing \in [Asked -> {"selected", "filtered", "gone"}]

LEMMA LookupTypes == LookupSpec => []LookupTypeOK
<1>1. ASSUME LookInv, StandingOK PROVE LookupTypeOK
  <2>1. ASSUME NEW r \in Lookups
        PROVE  ToSet(answer[r]) \subseteq UNION {ToSet(sources[r][p]) : p \in Asked}
    <3>1. Turns(r, lookup[r], outcome[r], sources[r], answer[r])
      BY <1>1, <2>1 DEF LookInv
    <3>2. CASE answer[r] = <<>>
      BY <3>2 DEF ToSet
    <3>3. CASE answer[r] # <<>>
      <4>1. ToSet(answer[r]) = UNION {ToSet(sources[r][p]) : p \in ToSet(lookup[r].picked)}
        BY <3>1, <3>3 DEF Turns, Exact
      <4>2. ToSet(lookup[r].picked) \subseteq Asked
        BY <3>1, ElementOfSeq DEF Turns, InWaterfall, ToSet
      <4> QED
        BY <4>1, <4>2
    <3> QED
      BY <3>2, <3>3
  <2>2. ASSUME NEW r \in Lookups
        PROVE  /\ lookup[r].stage \in {"idle", "waiting", "running", "answered", "done"}
               /\ lookup[r].next \in 1..(Len(lookup[r].picked) + 1)
    BY <1>1, <2>2 DEF LookInv, LookStates, Turns
  <2>3. \A r \in Lookups : outcome[r] \in [Asked -> {"unasked", "asking", "ok", "failed"}]
    BY <1>1 DEF LookInv, AskOutcomes
  <2> QED
    BY <1>1, <2>1, <2>2, <2>3 DEF StandingOK, LookupTypeOK
<1>2. LookupInit => StandingOK
  BY DEF LookupInit, StandingOK
<1>3. StandingOK /\ [LookupNext]_lookupVars => StandingOK'
  <2> SUFFICES ASSUME StandingOK, [LookupNext]_lookupVars PROVE StandingOK'
    OBVIOUS
  <2>1. CASE \E p \in Asked, to \in {"selected", "filtered", "gone"} : StandingChanges(p, to)
    BY <2>1 DEF StandingChanges, StandingOK
  <2>2. CASE UNCHANGED lookupVars
    BY <2>2 DEF lookupVars, StandingOK
  <2>3. ASSUME NEW r \in Lookups,
               \/ AskSources(r) \/ (\E p \in Asked : AskProvider(r, p))
               \/ GetSlot(r) \/ NoSlot(r) \/ DeadlinePasses(r)
               \/ AskNext(r) \/ Scrape(r) \/ AnswerSources(r)
               \/ \E p \in Asked : ProviderReturns(r, p)
        PROVE  UNCHANGED standing
    BY <2>3 DEF AskSources, AskProvider, GetSlot, NoSlot, DeadlinePasses, AskNext, AskBatch, Scrape,
       AnswerSources, ProviderReturns
  <2> QED
    BY <2>1, <2>2, <2>3 DEF LookupNext, StandingOK
<1> QED
  BY <1>1, <1>2, <1>3, LookInitHolds, LookStepKeeps, PTL DEF LookupSpec
=============================================================================
