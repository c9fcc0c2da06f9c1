---------------------------- MODULE LimitProofs ----------------------------
(***************************************************************************)
(* Proofs about what bounds a request: the budgets of the providers, the   *)
(* rate limiter and the playback proxy with its stream caps, and about the *)
(* types of the three, for any keys, days, replicas, requests and limits.  *)
(*                                                                         *)
(* The counters of the proxy are the difficulty: a key is incremented,     *)
(* then compared, and given back one by one, in between which any other    *)
(* request may do the same.  ProxyInv says what each request holds at each *)
(* point, that no counter is above what is held (but for what was lost),   *)
(* and that, in memory, none is below it, so that a request that passes    *)
(* the comparison is one of at most as many as the cap allows.             *)
(***************************************************************************)
EXTENDS MCRequestPath, SequenceTheorems, FiniteSetTheorems, WellFoundedInduction,
        TLAPS
----------------------------------------------------------------------------
(* Grants.                                                                 *)

(* A grant that was written to Redis leaves it only when it has expired.   *)
GrantsInv ==
    /\ request = [q \in Media |-> request[q]]
    /\ tally \in [lapses : Nat, failures : Nat]
    /\ saved \subseteq shared \cup expired

LEMMA MishapCounts ==
    ASSUME tally \in [lapses : Nat, failures : Nat], NEW what \in {"lapses", "failures"},
           Mishap(what)
    PROVE  /\ tally' \in [lapses : Nat, failures : Nat]
           /\ what = "failures" => tally'.failures > tally.failures
<1>1. PICK t \in [lapses : Nat, failures : Nat] : t = tally
  OBVIOUS
<1>2. tally' = [t EXCEPT ![what] = @ + 1] /\ t[what] \in Nat
  BY <1>1 DEF Mishap
<1> QED
  BY <1>1, <1>2

(* Issuing a grant.                                                        *)
LEMMA IssueKeeps ==
    ASSUME GrantsInv, NEW n, NEW g, Issue(n, g)
    PROVE  tally' \in [lapses : Nat, failures : Nat] /\ saved' \subseteq shared' \cup expired'
<1>1. CASE Failure
  BY <1>1, MishapCounts DEF Failure, Issue, GrantsInv
<1>2. CASE UNCHANGED tally
  BY <1>2 DEF Issue, GrantsInv
<1> QED
  BY <1>1, <1>2 DEF Issue

(* What a step of one request does to the others, and to the grants.       *)
LookupKept(q) == request'[q] = request[q] \/ request[q].pc # "lookup"

LEMMA StepsKeepLookups ==
    ASSUME GrantsInv, NEW p \in Media, NEW q \in Media,
           \/ TakeSlot(p) \/ Fetch(p) \/ ReadManifest(p) \/ ReadBuffer(p) \/ RewriteSegment(p)
           \/ Rewritten(p) \/ StartStream(p) \/ Reserve(p) \/ Check(p) \/ Admit(p)
           \/ FreeSlot(p) \/ Erase(p) \/ Released(p) \/ Chunk(p) \/ Close(p)
           \/ \E n \in Nodes, route \in Routes, g \in Grants : Arrive(p, n, route, g)
    PROVE  LookupKept(q)
<1>1. request[p].pc # "lookup"
  BY DEF TakeSlot, Fetch, ReadManifest, ReadBuffer, RewriteSegment, Rewritten, StartStream, Reserve,
         Check, Admit, FreeSlot, Erase, Released, Chunk, Close, Arrive
<1>2. CASE q = p
  BY <1>1, <1>2 DEF LookupKept
<1>3. CASE q # p
  <2>1. PICK rs : rs = request /\ rs = [r \in Media |-> rs[r]]
    BY DEF GrantsInv
  <2> QED
    BY <1>3, <2>1 DEF LookupKept, TakeSlot, Fetch, ReadManifest, ReadBuffer, RewriteSegment, Rewritten,
       StartStream, Reserve, Check, Admit, FreeSlot, Erase, Released, Chunk, Close, Arrive, Over, Goes,
       Answered, NotMinted, Minted, Reject, Given, Closing
<1> QED
  BY <1>2, <1>3

(* Every step but the look-up itself, and a crash, leaves a request that   *)
(* looks up its grant alone; every step keeps what Redis holds.            *)
LEMMA OtherStepsKeep ==
    ASSUME GrantsInv, NEW p \in Media,
           \/ TakeSlot(p) \/ Fetch(p) \/ ReadManifest(p) \/ ReadBuffer(p) \/ RewriteSegment(p)
           \/ Rewritten(p) \/ StartStream(p) \/ Reserve(p) \/ Check(p) \/ Admit(p)
           \/ FreeSlot(p) \/ Erase(p) \/ Released(p) \/ Chunk(p) \/ Close(p)
           \/ \E n \in Nodes, route \in Routes, g \in Grants : Arrive(p, n, route, g)
    PROVE  GrantsInv'
<1>1. request' = [q \in Media |-> request'[q]]
  BY DEF GrantsInv, TakeSlot, Fetch, ReadManifest, ReadBuffer, RewriteSegment, Rewritten, StartStream,
     Reserve, Check, Admit, FreeSlot, Erase, Released, Chunk, Close, Arrive, Over, Goes, Answered,
     NotMinted, Minted, Reject, Given, Closing
<1>2. CASE \E g \in Grants : Issue(At(p), g)
  BY <1>1, <1>2, IssueKeeps DEF GrantsInv
<1>3. CASE UNCHANGED grantVars /\ (UNCHANGED tally \/ Failure)
  BY <1>1, <1>3, MishapCounts DEF GrantsInv, grantVars, Failure
<1>4. \/ \E g \in Grants : Issue(At(p), g)
      \/ UNCHANGED grantVars /\ (UNCHANGED tally \/ Failure)
  BY DEF TakeSlot, Fetch, ReadManifest, ReadBuffer, RewriteSegment, Rewritten, StartStream, Reserve,
     Check, Admit, FreeSlot, Erase, Released, Chunk, Close, Arrive, NotMinted, Minted
<1> QED
  BY <1>2, <1>3, <1>4

(* The look-up finds what Redis accepted, unless the command fails.        *)
LookupServes(q) ==
    /\ request[q].pc = "lookup" /\ request'[q].pc = "over"
    /\ At(q) \in online /\ request[q].grant \in saved
    => request[q].grant \in expired \/ tally'.failures > tally.failures

LEMMA LookupKeeps ==
    ASSUME GrantsInv, NEW p \in Media, Lookup(p)
    PROVE  GrantsInv' /\ \A q \in Media : LookupServes(q)
<1>1. PICK hit \in {InRedis(p), FALSE} :
        /\ IF hit = InRedis(p) THEN UNCHANGED tally ELSE Failure
        /\ Looked(p, (hit \/ InMap(p)) /\ request[p].grant \notin expired)
        /\ shared' = IF request[p].grant \in expired /\ At(p) \in online /\ (hit \/ InMap(p))
                     THEN shared \ {request[p].grant} ELSE shared
  BY DEF Lookup
<1>2. UNCHANGED <<expired, saved>> /\ request[p].pc = "lookup"
  BY DEF Lookup
<1>3. saved' \subseteq shared' \cup expired'
  BY <1>1, <1>2 DEF GrantsInv
<1>4. /\ tally' \in [lapses : Nat, failures : Nat]
      /\ hit # InRedis(p) => tally'.failures > tally.failures
  BY <1>1, MishapCounts DEF Failure, GrantsInv
<1>5. request' = [q \in Media |-> request'[q]] /\ \A q \in Media \ {p} : request'[q] = request[q]
  BY <1>1 DEF Looked, Goes, Over, GrantsInv
<1>6. ASSUME request'[p].pc = "over", At(p) \in online, request[p].grant \in saved,
             request[p].grant \notin expired
      PROVE  hit # InRedis(p)
  <2>1. InRedis(p)
    BY <1>6 DEF InRedis, GrantsInv
  <2>2. CASE hit
    <3>1. request' = [request EXCEPT ![p].pc = "slot"]
      BY <1>1, <1>6, <2>2 DEF Looked, Goes
    <3>2. request'[p] = [request[p] EXCEPT !.pc = "slot"]
      BY <3>1 DEF GrantsInv
    <3> QED
      BY <1>6, <3>2
  <2> QED
    BY <2>1, <2>2
<1> QED
  BY <1>2, <1>3, <1>4, <1>5, <1>6 DEF GrantsInv, LookupServes

LEMMA CrashKeeps ==
    ASSUME GrantsInv, NEW n \in Nodes, Crash(n)
    PROVE  GrantsInv' /\ tally'.failures > tally.failures
<1>1. tally' \in [lapses : Nat, failures : Nat] /\ tally'.failures > tally.failures
  BY MishapCounts DEF Crash, Failure, GrantsInv
<1>2. request' = [q \in Media |-> request'[q]]
  BY DEF Crash
<1> QED
  BY <1>1, <1>2 DEF Crash, GrantsInv

LEMMA ProxyStepKeeps ==
    ASSUME GrantsInv, [ProxyNext]_proxyVars
    PROVE  GrantsInv' /\ \A q \in Media : LookupServes(q)
<1>1. CASE UNCHANGED proxyVars
  BY <1>1 DEF proxyVars, grantVars, GrantsInv, LookupServes
<1>2. ASSUME NEW p \in Media,
             \/ Steps(p) \/ Chunk(p) \/ Close(p)
             \/ \E n \in Nodes, route \in Routes, g \in Grants : Arrive(p, n, route, g)
      PROVE  GrantsInv' /\ \A q \in Media : LookupServes(q)
  <2>1. CASE Lookup(p)
    BY <2>1, LookupKeeps
  <2>2. CASE ~Lookup(p)
    BY <1>2, <2>2, OtherStepsKeep, StepsKeepLookups DEF Steps, LookupKept, LookupServes
  <2> QED
    BY <2>1, <2>2
<1>3. ASSUME NEW n \in Nodes, Crash(n)
      PROVE  GrantsInv' /\ \A q \in Media : LookupServes(q)
  BY <1>3, CrashKeeps DEF LookupServes
<1>4. ASSUME NEW n \in Nodes, NEW g \in Grants, Resolve(n, g)
      PROVE  GrantsInv' /\ \A q \in Media : LookupServes(q)
  BY <1>4, IssueKeeps DEF Resolve, GrantsInv, LookupServes
<1>5. ASSUME NEW g \in Grants, Expire(g)
      PROVE  GrantsInv' /\ \A q \in Media : LookupServes(q)
  BY <1>5 DEF Expire, GrantsInv, LookupServes
<1>6. ASSUME NEW s \in Stores, NEW k \in Keys, Lapse(s, k)
      PROVE  GrantsInv' /\ \A q \in Media : LookupServes(q)
  BY <1>6, MishapCounts DEF Lapse, grantVars, GrantsInv, LookupServes
<1> QED
  BY <1>1, <1>2, <1>3, <1>4, <1>5, <1>6 DEF ProxyNext

(* The proxy: a grant that Redis accepted is found by every connected      *)
(* replica until it expires, whatever replicas crash and however requests, *)
(* rewrites and expirations interleave, unless the command fails, for any  *)
(* number of replicas and grants (playbackGrant.ts).                       *)
THEOREM GrantsAreFound == ProxySpec => LookupFinds
<1>1. ProxyInit => GrantsInv
  BY DEF ProxyInit, GrantsInv
<1>2. GrantsInv /\ [ProxyNext]_proxyVars =>
         GrantsInv' /\ \A q \in Media : LookupServes(q)
  BY ProxyStepKeeps
<1>3. (\A q \in Media : LookupServes(q)) =>
         [\A q \in Media :
            /\ request[q].pc = "lookup" /\ request'[q].pc = "over"
            /\ At(q) \in online /\ request[q].grant \in saved
            => request[q].grant \in expired \/ tally'.failures > tally.failures]_proxyVars
  BY DEF LookupServes
<1> QED
  BY <1>1, <1>2, <1>3, PTL DEF ProxySpec, LookupFinds
----------------------------------------------------------------------------
(* Sequences of keys.                                                      *)
Elems(s) == {s[i] : i \in 1..Len(s)}
OnceEach(s) == \A i, j \in 1..Len(s) : s[i] = s[j] => i = j

LEMMA Joined ==
    ASSUME NEW S, NEW a \in Seq(S), NEW b \in Seq(S)
    PROVE  /\ a \o b \in Seq(S) /\ Elems(a \o b) = Elems(a) \cup Elems(b)
           /\ OnceEach(a) /\ OnceEach(b) /\ Elems(a) \cap Elems(b) = {} => OnceEach(a \o b)
<1>1. PICK c : c = a \o b
  OBVIOUS
<1>2. /\ c \in Seq(S) /\ Len(c) = Len(a) + Len(b) /\ Len(a) \in Nat /\ Len(b) \in Nat
      /\ \A i \in 1..Len(a) : c[i] = a[i]
      /\ \A i \in 1..Len(b) : c[Len(a) + i] = b[i]
  BY <1>1
<1>3. \A i \in 1..Len(c) : i \in 1..Len(a) \/ \E j \in 1..Len(b) : i = Len(a) + j
  <2> SUFFICES ASSUME NEW i \in 1..Len(c), i \notin 1..Len(a)
               PROVE  \E j \in 1..Len(b) : i = Len(a) + j
    OBVIOUS
  <2>1. i - Len(a) \in 1..Len(b) /\ i = Len(a) + (i - Len(a))
    BY <1>2
  <2> QED
    BY <2>1
<1>4. Elems(c) \subseteq Elems(a) \cup Elems(b)
  <2> SUFFICES ASSUME NEW i \in 1..Len(c) PROVE c[i] \in Elems(a) \cup Elems(b)
    BY DEF Elems
  <2>1. CASE i \in 1..Len(a)
    BY <1>2, <2>1 DEF Elems
  <2>2. ASSUME NEW j \in 1..Len(b), i = Len(a) + j PROVE c[i] \in Elems(b)
    BY <1>2, <2>2 DEF Elems
  <2> QED
    BY <1>3, <2>1, <2>2
<1>5. Elems(a) \subseteq Elems(c)
  <2>1. \A i \in 1..Len(a) : i \in 1..Len(c)
    BY <1>2
  <2> QED
    BY <1>2, <2>1 DEF Elems
<1>6. Elems(b) \subseteq Elems(c)
  <2>1. \A i \in 1..Len(b) : Len(a) + i \in 1..Len(c)
    BY <1>2
  <2> QED
    BY <1>2, <2>1 DEF Elems
<1>7. ASSUME OnceEach(a), OnceEach(b), Elems(a) \cap Elems(b) = {}
      PROVE  OnceEach(c)
  <2>1. \A i \in 1..Len(a), j \in 1..Len(b) : a[i] # b[j]
    BY <1>7 DEF Elems
  <2> SUFFICES ASSUME NEW i \in 1..Len(c), NEW j \in 1..Len(c), c[i] = c[j] PROVE i = j
    BY DEF OnceEach
  <2>2. CASE i \in 1..Len(a) /\ j \in 1..Len(a)
    BY <1>2, <1>7, <2>2 DEF OnceEach
  <2>3. ASSUME NEW m \in 1..Len(b), i = Len(a) + m, j \in 1..Len(a) PROVE FALSE
    BY <1>2, <2>1, <2>3
  <2>4. ASSUME NEW m \in 1..Len(b), j = Len(a) + m, i \in 1..Len(a) PROVE FALSE
    BY <1>2, <2>1, <2>4
  <2>5. ASSUME NEW m \in 1..Len(b), NEW n \in 1..Len(b), i = Len(a) + m, j = Len(a) + n PROVE m = n
    BY <1>2, <1>7, <2>5 DEF OnceEach
  <2> QED
    BY <1>3, <2>2, <2>3, <2>4, <2>5
<1> QED
  BY <1>1, <1>2, <1>4, <1>5, <1>6, <1>7

LEMMA OneHolds ==
    ASSUME NEW k, NEW W \in SUBSET Keys
    PROVE  One(k, W) \in Seq(Keys) /\ Elems(One(k, W)) = W \cap {k} /\ OnceEach(One(k, W))
<1>1. CASE k \in W
  <2>1. One(k, W) = <<k>> /\ k \in Keys
    BY <1>1 DEF One
  <2>2. <<k>> \in Seq(Keys) /\ Len(<<k>>) = 1 /\ <<k>>[1] = k
    BY <2>1
  <2>3. Elems(<<k>>) = {k}
    BY <2>2 DEF Elems
  <2> QED
    BY <1>1, <2>1, <2>2, <2>3 DEF OnceEach
<1>2. CASE k \notin W
  BY <1>2 DEF One, Elems, OnceEach
<1> QED
  BY <1>1, <1>2

(* The limits are numbers.                                                 *)
LEMMA Limits ==
    /\ MaxRedirects \in Nat /\ MaxSegments \in Nat /\ MaxPerRequest \in Nat
    /\ MaxStreamBytes \in Nat /\ MaxActive \in Nat
BY ProxyAssumption

LEMMA CapIsNat == ASSUME NEW k PROVE Cap(k) \in Nat
BY ProxyAssumption DEF Cap

(* The keys of a request differ.                                           *)
LEMMA KeysDiffer ==
    ASSUME NEW q \in Media
    PROVE  /\ IpOf[q] \in Keys /\ Everyone \in Keys /\ "none" \notin Keys
           /\ IpOf[q] # Everyone /\ UserOf[q] # Everyone /\ UserOf[q] # IpOf[q]
           /\ KeysOf(q) = {IpOf[q], Everyone} \cup ({UserOf[q]} \cap Keys)
BY ProxyAssumption DEF Keys, KeysOf, Everyone

LEMMA StrictestHolds ==
    ASSUME NEW q \in Media, NEW W \in SUBSET Keys
    PROVE  /\ StrictestFirst(q, W) \in Seq(Keys) /\ OnceEach(StrictestFirst(q, W))
           /\ Elems(StrictestFirst(q, W)) = W \cap KeysOf(q)
<1>1. PICK a, b, c : a = One(Everyone, W) /\ b = One(UserOf[q], W) /\ c = One(IpOf[q], W)
  OBVIOUS
<1>2. /\ a \in Seq(Keys) /\ b \in Seq(Keys) /\ c \in Seq(Keys)
      /\ OnceEach(a) /\ OnceEach(b) /\ OnceEach(c)
      /\ Elems(a) = W \cap {Everyone} /\ Elems(b) = W \cap {UserOf[q]}
         /\ Elems(c) = W \cap {IpOf[q]}
  BY <1>1, OneHolds
<1>3. PICK d : d = a \o b
  OBVIOUS
<1>4. d \in Seq(Keys) /\ OnceEach(d) /\ Elems(d) = W \cap {Everyone, UserOf[q]}
  <2>1. Elems(a) \cap Elems(b) = {}
    BY <1>2, KeysDiffer
  <2> QED
    BY <1>2, <1>3, <2>1, Joined
<1>5. d \o c \in Seq(Keys) /\ OnceEach(d \o c)
      /\ Elems(d \o c) = W \cap {Everyone, UserOf[q], IpOf[q]}
  <2>1. Elems(d) \cap Elems(c) = {}
    BY <1>2, <1>4, KeysDiffer
  <2>2. d \o c \in Seq(Keys) /\ OnceEach(d \o c) /\ Elems(d \o c) = Elems(d) \cup Elems(c)
    BY <1>2, <1>4, <2>1, Joined
  <2> QED
    BY <1>2, <1>4, <2>2
<1>6. StrictestFirst(q, W) = d \o c
  BY <1>1, <1>3 DEF StrictestFirst
<1>7. W \cap {Everyone, UserOf[q], IpOf[q]} = W \cap KeysOf(q)
  BY KeysDiffer
<1> QED
  BY <1>5, <1>6, <1>7

LEMMA ReleaseHolds ==
    ASSUME NEW q \in Media
    PROVE  /\ KeysToRelease(q) \in Seq(Keys) /\ OnceEach(KeysToRelease(q))
           /\ Elems(KeysToRelease(q)) = KeysOf(q)
<1>1. PICK a, b : a = <<IpOf[q], Everyone>> /\ b = One(UserOf[q], Keys)
  OBVIOUS
<1>2. b \in Seq(Keys) /\ OnceEach(b) /\ Elems(b) = Keys \cap {UserOf[q]}
  BY <1>1, OneHolds
<1>3. a \in Seq(Keys) /\ Len(a) = 2 /\ a[1] = IpOf[q] /\ a[2] = Everyone
  BY <1>1, KeysDiffer
<1>4. OnceEach(a) /\ Elems(a) = {IpOf[q], Everyone}
  BY <1>3, KeysDiffer DEF OnceEach, Elems
<1>5. a \o b \in Seq(Keys) /\ Elems(a \o b) = Elems(a) \cup Elems(b) /\ OnceEach(a \o b)
  <2>1. Elems(a) \cap Elems(b) = {}
    BY <1>2, <1>4, KeysDiffer
  <2> QED
    BY <1>2, <1>3, <1>4, <2>1, Joined
<1> QED
  BY <1>1, <1>2, <1>4, <1>5, KeysDiffer DEF KeysToRelease

(* Going on to the next key.                                               *)
LEMMA NextKey ==
    ASSUME NEW s \in Seq(Keys), s # <<>>, OnceEach(s)
    PROVE  /\ Tail(s) \in Seq(Keys) /\ OnceEach(Tail(s))
           /\ Head(s) \in Elems(s) /\ Head(s) \in Keys /\ Elems(Tail(s)) = Elems(s) \ {Head(s)}
<1>1. PICK t : t = Tail(s)
  OBVIOUS
<1>2. /\ t \in Seq(Keys) /\ Len(t) = Len(s) - 1 /\ Len(s) \in Nat /\ Len(s) > 0 /\ Len(t) \in Nat
      /\ \A i \in 1..Len(t) : t[i] = s[i + 1]
      /\ Head(s) = s[1] /\ s[1] \in Keys
  BY <1>1
<1>3. \A i \in 1..Len(t) : i + 1 \in 1..Len(s)
  BY <1>2
<1>4. \A i \in 1..Len(s) : i = 1 \/ (i - 1 \in 1..Len(t) /\ t[i - 1] = s[i])
  BY <1>2
<1>5. OnceEach(t)
  BY <1>2, <1>3 DEF OnceEach
<1>6. 1 \in 1..Len(s) /\ Head(s) \in Elems(s)
  BY <1>2 DEF Elems
<1>7. Elems(t) \subseteq Elems(s) \ {Head(s)}
  <2> SUFFICES ASSUME NEW i \in 1..Len(t) PROVE t[i] \in Elems(s) /\ t[i] # s[1]
    BY <1>2 DEF Elems
  <2>1. t[i] = s[i + 1] /\ i + 1 \in 1..Len(s) /\ i + 1 # 1
    BY <1>2, <1>3
  <2> QED
    BY <1>6, <2>1 DEF OnceEach, Elems
<1>8. Elems(s) \ {Head(s)} \subseteq Elems(t)
  BY <1>2, <1>4 DEF Elems
<1> QED
  BY <1>1, <1>2, <1>5, <1>6, <1>7, <1>8
----------------------------------------------------------------------------
(* The counters.                                                           *)

CappedKeys == {k \in Keys : Capped(k)}

(* While it reserves, a request has every key with a cap or has it to do;  *)
(* while it releases, it has what it still is to give back.                *)
ReservesSound(q, r) ==
    /\ Elems(r.todo) \subseteq CappedKeys \cap KeysOf(q)
    /\ CappedKeys \cap KeysOf(q) \subseteq r.held \cup Elems(r.todo)

RequestSound(q, r) ==
    /\ r.held \subseteq CappedKeys \cap KeysOf(q) /\ OnceEach(r.todo)
    /\ r.at = "nowhere" => r.pc \in {"new", "over"}
    /\ r.pc # "open" => r.bytes = 0
    /\ r.pc = "reserve" => ReservesSound(q, r) /\ Elems(r.todo) \cap r.held = {}
    /\ r.pc = "check" =>
          ReservesSound(q, r) /\ r.todo # <<>> /\ Elems(r.todo) \cap r.held = {Head(r.todo)}
    /\ r.pc = "open" => CappedKeys \cap KeysOf(q) = r.held
    /\ r.pc = "release" => r.held = Elems(r.todo) \cap CappedKeys
    /\ r.pc = "erase" => r.todo # <<>> /\ r.held = (Elems(r.todo) \ {Head(r.todo)}) \cap CappedKeys
    /\ r.pc \notin {"reserve", "check", "open", "release", "erase"} => r.held = {}

HoldsAt(r, s, k) == k \in r.held /\ Store(r.at) = s
OpenAt(r, n) == r.at = n /\ r.pc = "open"

(* A stream that was let through under a key.                              *)
PassedAt(r, n, k) ==
    /\ HoldsAt(r, n, k) /\ r.pc \in {"reserve", "check", "open"}
    /\ r.pc = "check" => Head(r.todo) # k
Passed(n, k) == {q \in Media : PassedAt(request[q], n, k)}

(* As long as no counter has reached its TTL, a counter in memory is not   *)
(* below what is reserved, so that no more pass than the cap.              *)
MemoryExact ==
    tally.lapses = 0 =>
        \A n \in Nodes \ online, k \in Keys :
            /\ lapsed[n] = {}
            /\ Cardinality(Reserved(n, k)) <= count[n][k]
            /\ Capped(k) => Cardinality(Passed(n, k)) <= Cap(k)

CounterTypes ==
    /\ online \subseteq Nodes
    /\ count \in [Stores -> [Keys -> Int]] /\ lost \in [Stores -> [Keys -> Nat]]
    /\ lapsed \in [Nodes -> SUBSET Keys]
    /\ gauge \in [Nodes -> Nat] /\ unbilled \in [Nodes -> Int]
    /\ tally \in [lapses : Nat, failures : Nat]

RequestsSound ==
    /\ request \in [Media -> RequestType]
    /\ \A q \in Media : RequestSound(q, request[q])

CountersExact ==
    \A s \in Stores, k \in Keys : count[s][k] <= Cardinality(Reserved(s, k)) + lost[s][k]

GaugesExact ==
    \A n \in Nodes : gauge[n] = Cardinality(Open(n)) /\ unbilled[n] = Cardinality(Unbilled(n))

ProxyInv == RequestsSound /\ CounterTypes /\ MemoryExact /\ CountersExact /\ GaugesExact

(* Sets of requests change by one.                                         *)
LEMMA MediaCount ==
    ASSUME NEW S \in SUBSET Media
    PROVE  IsFiniteSet(S) /\ Cardinality(S) \in Nat
BY ProxyAssumption, FS_Subset, FS_CardinalityType

LEMMA CountTurns ==
    ASSUME NEW S \in SUBSET Media, NEW T \in SUBSET Media, NEW q \in Media,
           \A p \in Media \ {q} : p \in T <=> p \in S
    PROVE  /\ Cardinality(S) \in Nat /\ Cardinality(T) \in Nat
           /\ (q \in T <=> q \in S) => Cardinality(T) = Cardinality(S)
           /\ q \in T /\ q \notin S => Cardinality(T) = Cardinality(S) + 1
           /\ q \notin T /\ q \in S => Cardinality(T) = Cardinality(S) - 1
           /\ (q \in T => q \in S) => Cardinality(T) <= Cardinality(S)
<1>1. IsFiniteSet(S) /\ Cardinality(S) \in Nat /\ Cardinality(T) \in Nat
  BY MediaCount
<1>2. ASSUME q \in T <=> q \in S PROVE Cardinality(T) = Cardinality(S)
  <2>1. T = S
    BY <1>2
  <2> QED
    BY <2>1
<1>3. ASSUME q \in T, q \notin S PROVE Cardinality(T) = Cardinality(S) + 1
  <2>1. T = S \cup {q}
    BY <1>3
  <2> QED
    BY <1>1, <1>3, <2>1, FS_AddElement
<1>4. ASSUME q \notin T, q \in S PROVE Cardinality(T) = Cardinality(S) - 1
  <2>1. T = S \ {q}
    BY <1>4
  <2> QED
    BY <1>1, <1>4, <2>1, FS_RemoveElement
<1> QED
  BY <1>1, <1>2, <1>3, <1>4

(* A request turns from what it was into `r'.                              *)
TurnsInto(q, r) ==
    /\ request' = [request EXCEPT ![q] = r] /\ UNCHANGED online
    /\ r \in RequestType /\ RequestSound(q, r)

LEMMA RequestTurns ==
    ASSUME RequestsSound, NEW q \in Media, NEW r, TurnsInto(q, r)
    PROVE  RequestsSound' /\ request'[q] = r /\ \A p \in Media \ {q} : request'[p] = request[p]
<1>1. PICK rs \in [Media -> RequestType] : rs = request
  BY DEF RequestsSound
<1>2. request' = [rs EXCEPT ![q] = r] /\ r \in RequestType /\ RequestSound(q, r)
  BY <1>1 DEF TurnsInto
<1>3. /\ request' \in [Media -> RequestType] /\ request'[q] = r
      /\ \A p \in Media \ {q} : request'[p] = rs[p]
  BY <1>2
<1>4. \A p \in Media : RequestSound(p, request'[p])
  BY <1>1, <1>2, <1>3 DEF RequestsSound
<1>5. (\A p \in Media : RequestSound(p, request[p]))'
  BY <1>4 DEF RequestSound, ReservesSound, CappedKeys, Capped, Cap, Keys, KeysOf
<1> QED
  BY <1>1, <1>3, <1>5 DEF RequestsSound

LEMMA ReservedTurns ==
    ASSUME RequestsSound, NEW q \in Media, NEW r, TurnsInto(q, r), NEW s, NEW k
    PROVE  /\ Reserved(s, k) \in SUBSET Media /\ Reserved(s, k)' \in SUBSET Media
           /\ \A p \in Media \ {q} : p \in Reserved(s, k)' <=> p \in Reserved(s, k)
           /\ q \in Reserved(s, k)' <=> HoldsAt(r, s, k)
           /\ q \in Reserved(s, k) <=> HoldsAt(request[q], s, k)
<1>1. request'[q] = r /\ UNCHANGED online /\ \A p \in Media \ {q} : request'[p] = request[p]
  BY RequestTurns DEF TurnsInto
<1>2. \A p \in Media : /\ p \in Reserved(s, k)  <=> HoldsAt(request[p], s, k)
                       /\ p \in Reserved(s, k)' <=> HoldsAt(request'[p], s, k)
  BY <1>1 DEF Reserved, HoldsAt, At, Store
<1>3. Reserved(s, k) \in SUBSET Media /\ Reserved(s, k)' \in SUBSET Media
  BY DEF Reserved
<1> QED
  BY <1>1, <1>2, <1>3

LEMMA PassedTurns ==
    ASSUME RequestsSound, NEW q \in Media, NEW r, TurnsInto(q, r), NEW n, NEW k
    PROVE  /\ Passed(n, k) \in SUBSET Media /\ Passed(n, k)' \in SUBSET Media
           /\ \A p \in Media \ {q} : p \in Passed(n, k)' <=> p \in Passed(n, k)
           /\ q \in Passed(n, k)' <=> PassedAt(r, n, k)
           /\ q \in Passed(n, k) <=> PassedAt(request[q], n, k)
<1>1. request'[q] = r /\ UNCHANGED online /\ \A p \in Media \ {q} : request'[p] = request[p]
  BY RequestTurns DEF TurnsInto
<1>2. \A p \in Media : /\ p \in Passed(n, k)  <=> PassedAt(request[p], n, k)
                       /\ p \in Passed(n, k)' <=> PassedAt(request'[p], n, k)
  BY <1>1 DEF Passed, PassedAt, HoldsAt, Store
<1>3. Passed(n, k) \in SUBSET Media /\ Passed(n, k)' \in SUBSET Media
  BY DEF Passed
<1> QED
  BY <1>1, <1>2, <1>3

LEMMA OpenTurns ==
    ASSUME RequestsSound, NEW q \in Media, NEW r, TurnsInto(q, r), NEW n
    PROVE  /\ Open(n) \in SUBSET Media /\ Open(n)' \in SUBSET Media
           /\ \A p \in Media \ {q} : p \in Open(n)' <=> p \in Open(n)
           /\ q \in Open(n)' <=> OpenAt(r, n)
           /\ q \in Open(n) <=> OpenAt(request[q], n)
<1>1. request'[q] = r /\ \A p \in Media \ {q} : request'[p] = request[p]
  BY RequestTurns DEF TurnsInto
<1> QED
  BY <1>1 DEF Open, OpenAt, At

(* Bytes.                                                                  *)
LEMMA UnbilledCount ==
    ASSUME NEW n
    PROVE  IsFiniteSet(Unbilled(n)) /\ Cardinality(Unbilled(n)) \in Nat
<1>1. PICK P : P = Open(n) \X (1..MaxStreamBytes)
  OBVIOUS
<1>2. IsFiniteSet(Open(n)) /\ IsFiniteSet(1..MaxStreamBytes)
  <2>1. Open(n) \in SUBSET Media
    BY DEF Open
  <2>2. MaxStreamBytes \in Int /\ 1 \in Int
    BY Limits
  <2>3. IsFiniteSet(1..MaxStreamBytes)
    BY <2>2, FS_Interval
  <2> QED
    BY <2>1, <2>3, MediaCount
<1>3. IsFiniteSet(P)
  BY <1>1, <1>2, FS_Product
<1>4. Unbilled(n) \in SUBSET P
  BY <1>1 DEF Unbilled
<1> QED
  BY <1>3, <1>4, FS_Subset, FS_CardinalityType

LEMMA BytesOfOne ==
    ASSUME NEW q, NEW b \in Nat
    PROVE  LET U == {q} \X (1..b) IN IsFiniteSet(U) /\ Cardinality(U) = b
<1> DEFINE U == {q} \X (1..b)
           f == [i \in 1..b |-> <<q, i>>]
<1>1. IsFiniteSet(1..b) /\ Cardinality(1..b) = b
  <2>1. b \in Int /\ 1 \in Int
    OBVIOUS
  <2>2. IsFiniteSet(1..b) /\ Cardinality(1..b) = IF 1 > b THEN 0 ELSE b - 1 + 1
    BY <2>1, FS_Interval, Zenon
  <2> QED
    BY <2>1, <2>2
<1>2. f \in Bijection(1..b, U)
  <2>1. \A i \in 1..b : f[i] \in U
    OBVIOUS
  <2>2. \A u \in U : \E i \in 1..b : f[i] = u
    OBVIOUS
  <2>3. \A i, j \in 1..b : f[i] = f[j] => i = j
    OBVIOUS
  <2> QED
    BY <2>1, <2>2, <2>3 DEF Bijection, Injection, Surjection, IsInjective
<1>3. IsFiniteSet(U)
  BY <1>1, FS_Singleton, FS_Product
<1>4. ExistsBijection(1..b, U)
  BY <1>2 DEF ExistsBijection
<1> QED
  BY <1>1, <1>3, <1>4, FS_Bijection

(* A request that is not open before or after leaves what is counted.      *)
LEMMA OthersOpen ==
    ASSUME ProxyInv, NEW q \in Media, NEW r, TurnsInto(q, r),
           request[q].pc # "open", r.pc # "open", UNCHANGED <<gauge, unbilled>>
    PROVE  GaugesExact'
<1> SUFFICES ASSUME NEW n \in Nodes
             PROVE  gauge'[n] = Cardinality(Open(n)') /\ unbilled'[n] = Cardinality(Unbilled(n)')
  BY DEF GaugesExact
<1>1. RequestsSound
  BY DEF ProxyInv
<1>2. Open(n)' = Open(n) /\ q \notin Open(n) /\ Open(n) \in SUBSET Media
  BY <1>1, OpenTurns DEF OpenAt
<1>3. \A p \in Open(n) : request'[p] = request[p]
  BY <1>1, <1>2, RequestTurns
<1>4. Unbilled(n)' = Unbilled(n)
  BY <1>2, <1>3 DEF Unbilled
<1> QED
  BY <1>2, <1>4 DEF ProxyInv, GaugesExact

(* A step that reserves and returns nothing.                               *)
Quiet(q, r) ==
    /\ TurnsInto(q, r)
    /\ r.held = request[q].held /\ (r.held = {} \/ r.at = request[q].at)
    /\ \A n, k : PassedAt(r, n, k) => PassedAt(request[q], n, k)
    /\ UNCHANGED counterVars
    /\ tally' \in [lapses : Nat, failures : Nat] /\ tally'.lapses = tally.lapses

LEMMA QuietReserved ==
    ASSUME ProxyInv, NEW q \in Media, NEW r, Quiet(q, r), NEW s, NEW k
    PROVE  /\ Cardinality(Reserved(s, k)') = Cardinality(Reserved(s, k))
           /\ Cardinality(Passed(s, k)') <= Cardinality(Passed(s, k))
           /\ Cardinality(Passed(s, k)') \in Nat /\ Cardinality(Passed(s, k)) \in Nat
<1>1. RequestsSound /\ TurnsInto(q, r)
  BY DEF ProxyInv, Quiet
<1>2. HoldsAt(r, s, k) <=> HoldsAt(request[q], s, k)
  BY DEF HoldsAt, Quiet
<1>3. PassedAt(r, s, k) => PassedAt(request[q], s, k)
  BY DEF Quiet
<1>4. PICK R, S : R = Reserved(s, k) /\ S = Reserved(s, k)'
  OBVIOUS
<1>5. Cardinality(S) = Cardinality(R)
  <2>1. /\ R \in SUBSET Media /\ S \in SUBSET Media
        /\ \A p \in Media \ {q} : p \in S <=> p \in R
        /\ q \in S <=> q \in R
    BY <1>1, <1>2, <1>4, ReservedTurns
  <2> QED
    BY <2>1, CountTurns
<1>6. PICK P, O : P = Passed(s, k)' /\ O = Passed(s, k)
  OBVIOUS
<1>7. Cardinality(P) <= Cardinality(O) /\ Cardinality(P) \in Nat /\ Cardinality(O) \in Nat
  <2>1. /\ O \in SUBSET Media /\ P \in SUBSET Media
        /\ \A p \in Media \ {q} : p \in P <=> p \in O
        /\ q \in P => q \in O
    BY <1>1, <1>3, <1>6, PassedTurns
  <2> QED
    BY <2>1, CountTurns
<1> QED
  BY <1>4, <1>5, <1>6, <1>7

LEMMA QuietCounts ==
    ASSUME ProxyInv, NEW q \in Media, NEW r, Quiet(q, r)
    PROVE  RequestsSound' /\ MemoryExact' /\ CountersExact'
<1>1. RequestsSound'
  BY RequestTurns DEF ProxyInv, Quiet
<1>2. CountersExact'
  BY QuietReserved DEF ProxyInv, CountersExact, Quiet, counterVars
<1>3. MemoryExact'
  <2> SUFFICES ASSUME tally.lapses = 0, NEW n \in Nodes \ online, NEW k \in Keys
               PROVE  /\ lapsed'[n] = {} /\ Cardinality(Reserved(n, k)') <= count'[n][k]
                      /\ Capped(k) => Cardinality(Passed(n, k)') <= Cap(k)
    BY DEF MemoryExact, Quiet, TurnsInto, Capped, Cap
  <2>1. /\ lapsed[n] = {} /\ Cardinality(Reserved(n, k)) <= count[n][k]
        /\ Capped(k) => Cardinality(Passed(n, k)) <= Cap(k)
    BY DEF ProxyInv, MemoryExact
  <2>2. Cap(k) \in Nat
    BY CapIsNat
  <2> QED
    BY <2>1, <2>2, QuietReserved DEF Quiet, counterVars
<1> QED
  BY <1>1, <1>2, <1>3

LEMMA QuietKeeps ==
    ASSUME ProxyInv, NEW q \in Media, NEW r, Quiet(q, r),
           request[q].pc # "open", r.pc # "open", UNCHANGED <<gauge, unbilled>>
    PROVE  ProxyInv'
<1>1. GaugesExact'
  BY OthersOpen DEF Quiet
<1>2. CounterTypes'
  BY DEF ProxyInv, CounterTypes, Quiet, TurnsInto, counterVars
<1> QED
  BY <1>1, <1>2, QuietCounts DEF ProxyInv

(* The steps before a stream asks for its slots.                           *)
Outside == {"new", "lookup", "slot", "fetch", "manifest", "buffer", "rewrite", "stream", "over"}

TallyKept == tally' \in [lapses : Nat, failures : Nat] /\ tally'.lapses = tally.lapses

LEMMA FailureCounts ==
    ASSUME ProxyInv
    PROVE  (UNCHANGED tally \/ Failure) => TallyKept
<1> SUFFICES ASSUME UNCHANGED tally \/ Failure PROVE TallyKept
  OBVIOUS
<1>1. PICK t \in [lapses : Nat, failures : Nat] : t = tally
  BY DEF ProxyInv, CounterTypes
<1>2. CASE UNCHANGED tally
  BY <1>1, <1>2 DEF TallyKept
<1>3. CASE Failure
  <2>1. tally' = [t EXCEPT !["failures"] = @ + 1]
    BY <1>1, <1>3 DEF Failure, Mishap
  <2> QED
    BY <1>1, <2>1 DEF TallyKept
<1> QED
  BY <1>2, <1>3

LEMMA OutsideHolds ==
    ASSUME ProxyInv, NEW q \in Media, NEW r \in RequestType, request' = [request EXCEPT ![q] = r],
           request[q].pc \in Outside, r.held = {}, r.bytes = 0, OnceEach(r.todo),
           r.at = "nowhere" => r.pc \in {"new", "over"},
           \/ r.pc \in Outside
           \/ r.pc = "reserve" /\ Elems(r.todo) = CappedKeys \cap KeysOf(q),
           UNCHANGED <<online, counterVars, gauge, unbilled>>, TallyKept
    PROVE  ProxyInv'
<1>1. request[q].held = {} /\ request[q].pc # "open" /\ r.pc # "open"
  BY DEF ProxyInv, RequestsSound, RequestSound, Outside
<1>2. RequestSound(q, r)
  <2>1. CASE r.pc \in Outside
    BY <2>1 DEF RequestSound, Outside
  <2>2. CASE r.pc = "reserve" /\ Elems(r.todo) = CappedKeys \cap KeysOf(q)
    BY <2>2 DEF RequestSound, ReservesSound
  <2> QED
    BY <2>1, <2>2
<1>3. Quiet(q, r)
  BY <1>1, <1>2 DEF Quiet, TurnsInto, PassedAt, HoldsAt, TallyKept
<1> QED
  BY <1>1, <1>3, QuietKeeps

(* A new request, and what becomes of it.                                  *)
LEMMA NewIsRequest ==
    /\ NewRequest \in RequestType /\ NewRequest.held = {} /\ NewRequest.bytes = 0
    /\ NewRequest.todo = <<>> /\ NewRequest.pc = "new" /\ NewRequest.at = "nowhere"
<1>1. MaxRedirects \in Nat /\ MaxSegments \in Nat /\ MaxPerRequest \in Nat /\ MaxStreamBytes \in Nat
  BY ProxyAssumption
<1>2. 0 \in 0..MaxRedirects /\ 0 \in 0..MaxSegments /\ 0 \in 0..MaxPerRequest
      /\ 0 \in 0..MaxStreamBytes
  BY <1>1
<1>3. <<>> \in Seq(Keys) /\ {} \in SUBSET Keys
  OBVIOUS
<1> QED
  BY <1>2, <1>3 DEF NewRequest, RequestType, Routes

LEMMA BlankKeeps ==
    ASSUME ProxyInv, NEW q \in Media, request[q].pc \in Outside,
           NEW r \in RequestType, r.pc \in Outside, r.held = {}, r.bytes = 0, r.todo = <<>>,
           r.at = "nowhere" => r.pc = "over", request' = [request EXCEPT ![q] = r],
           UNCHANGED <<online, counterVars, gauge, unbilled>>, TallyKept
    PROVE  ProxyInv'
<1>1. OnceEach(r.todo)
  BY DEF OnceEach
<1> QED
  BY <1>1, OutsideHolds

LEMMA OverIsRequest ==
    ASSUME NEW r, r = [NewRequest EXCEPT !.pc = "over"]
    PROVE  /\ r \in RequestType /\ r.pc = "over" /\ r.held = {} /\ r.bytes = 0 /\ r.todo = <<>>
           /\ r.at = "nowhere"
<1>1. PICK o \in RequestType : o = NewRequest
  BY NewIsRequest
<1>2. r = [o EXCEPT !.pc = "over"]
  BY <1>1
<1>3. r \in RequestType /\ r.pc = "over" /\ r.held = o.held /\ r.bytes = o.bytes
      /\ r.todo = o.todo /\ r.at = o.at
  BY <1>2 DEF RequestType
<1> QED
  BY <1>1, <1>3, NewIsRequest

LEMMA IsRequest ==
    ASSUME ProxyInv, NEW q \in Media
    PROVE  /\ request[q] \in RequestType /\ RequestSound(q, request[q])
           /\ request = [p \in Media |-> request[p]]
BY DEF ProxyInv, RequestsSound

(* A request that is turned away with nothing reserved.                    *)
LEMMA OverHolds ==
    ASSUME ProxyInv, NEW q \in Media, Over(q), request[q].pc \in Outside,
           UNCHANGED <<online, counterVars, gauge, unbilled>>, TallyKept
    PROVE  ProxyInv'
<1>1. PICK r : r = [NewRequest EXCEPT !.pc = "over"]
  OBVIOUS
<1>2. request' = [request EXCEPT ![q] = r]
  BY <1>1 DEF Over
<1> QED
  BY <1>1, <1>2, OverIsRequest, BlankKeeps DEF Outside

(* A request that goes on with nothing reserved.                           *)
Waits == Outside \ {"new", "over"}

LEMMA OnwardKeeps ==
    ASSUME ProxyInv, NEW q \in Media, request[q].pc \in Waits,
           NEW r \in RequestType, r.pc \in Waits, r.at = request[q].at, r.held = request[q].held,
           r.bytes = request[q].bytes, r.todo = request[q].todo, request' = [request EXCEPT ![q] = r],
           UNCHANGED <<online, counterVars, gauge, unbilled>>, TallyKept
    PROVE  ProxyInv'
<1>1. r.held = {} /\ r.bytes = 0 /\ OnceEach(r.todo) /\ r.at # "nowhere"
  BY IsRequest DEF RequestSound, Outside, Waits
<1>2. request[q].pc \in Outside /\ r.pc \in Outside
  BY DEF Waits
<1> QED
  BY <1>1, <1>2, OutsideHolds

LEMMA GoesKeeps ==
    ASSUME ProxyInv, NEW q \in Media, NEW pc \in Waits, Goes(q, pc), request[q].pc \in Waits,
           UNCHANGED <<online, counterVars, gauge, unbilled>>, TallyKept
    PROVE  ProxyInv'
<1>1. PICK o \in RequestType : o = request[q]
  BY IsRequest
<1>2. PICK r : r = [o EXCEPT !.pc = pc]
  OBVIOUS
<1>3. r \in RequestType /\ r.pc = pc /\ r.at = o.at /\ r.held = o.held /\ r.bytes = o.bytes
      /\ r.todo = o.todo
  BY <1>2 DEF RequestType, Outside, Waits
<1>4. request' = [request EXCEPT ![q] = r]
  BY <1>1, <1>2 DEF Goes
<1> QED
  BY <1>1, <1>3, <1>4, OnwardKeeps

LEMMA ArriveKeeps ==
    ASSUME ProxyInv, NEW q \in Media, NEW n \in Nodes, NEW route \in Routes, NEW g \in Grants,
           Arrive(q, n, route, g)
    PROVE  ProxyInv'
<1>1. /\ request[q].pc = "new" /\ UNCHANGED <<online, counterVars, gauge, unbilled>> /\ TallyKept
  BY DEF Arrive, TallyKept, ProxyInv, CounterTypes
<1>2. CASE Over(q)
  BY <1>1, <1>2, OverHolds DEF Outside
<1>3. ASSUME request' = [request EXCEPT ![q] = [NewRequest EXCEPT
                            !.pc = "lookup", !.at = n, !.route = route, !.grant = g]]
      PROVE  ProxyInv'
  <2>1. PICK o \in RequestType : o = NewRequest
    BY NewIsRequest
  <2>2. PICK a : a = [o EXCEPT !.pc = "lookup"]
    OBVIOUS
  <2>3. a \in RequestType /\ a.pc = "lookup" /\ a.held = o.held /\ a.bytes = o.bytes
        /\ a.todo = o.todo
    BY <2>2 DEF RequestType
  <2>4. PICK b : b = [a EXCEPT !.at = n]
    OBVIOUS
  <2>5. b \in RequestType /\ b.pc = a.pc /\ b.held = a.held /\ b.bytes = a.bytes
        /\ b.todo = a.todo /\ b.at = n
    BY <2>3, <2>4 DEF RequestType
  <2>6. PICK c : c = [b EXCEPT !.route = route]
    OBVIOUS
  <2>7. c \in RequestType /\ c.pc = b.pc /\ c.held = b.held /\ c.bytes = b.bytes
        /\ c.todo = b.todo /\ c.at = n
    BY <2>5, <2>6 DEF RequestType
  <2>8. PICK r : r = [c EXCEPT !.grant = g]
    OBVIOUS
  <2>9. r \in RequestType /\ r.pc = c.pc /\ r.held = c.held /\ r.bytes = c.bytes
        /\ r.todo = c.todo /\ r.at = n
    BY <2>7, <2>8 DEF RequestType
  <2>10. request' = [request EXCEPT ![q] = r]
    BY <1>3, <2>1, <2>2, <2>4, <2>6, <2>8
  <2>11. n # "nowhere"
    BY ProxyAssumption
  <2>12. r.pc = "lookup" /\ r.held = {} /\ r.bytes = 0 /\ r.todo = <<>> /\ r.at # "nowhere"
    BY <2>1, <2>3, <2>5, <2>7, <2>9, <2>11, NewIsRequest
  <2> QED
    BY <1>1, <2>9, <2>10, <2>12, BlankKeeps DEF Outside
<1>4. \/ Over(q)
      \/ request' = [request EXCEPT ![q] = [NewRequest EXCEPT
                            !.pc = "lookup", !.at = n, !.route = route, !.grant = g]]
  BY DEF Arrive
<1> QED
  BY <1>2, <1>3, <1>4

LEMMA LookupCounts ==
    ASSUME ProxyInv, NEW q \in Media, Lookup(q)
    PROVE  ProxyInv'
<1>1. /\ request[q].pc = "lookup" /\ UNCHANGED <<online, counterVars, gauge, unbilled>>
      /\ UNCHANGED tally \/ Failure
      /\ Goes(q, "slot") \/ Over(q)
  BY DEF Lookup, Looked
<1> QED
  BY <1>1, FailureCounts, GoesKeeps, OverHolds DEF Outside, Waits

LEMMA TakeSlotKeeps ==
    ASSUME ProxyInv, NEW q \in Media, TakeSlot(q)
    PROVE  ProxyInv'
<1>1. /\ request[q].pc = "slot" /\ UNCHANGED <<online, counterVars, gauge, unbilled, tally>>
      /\ Goes(q, "fetch") \/ Over(q)
  BY DEF TakeSlot
<1> QED
  BY <1>1, FailureCounts, GoesKeeps, OverHolds DEF Outside, Waits

LEMMA FetchKeeps ==
    ASSUME ProxyInv, NEW q \in Media, Fetch(q)
    PROVE  ProxyInv'
<1>1. request[q].pc = "fetch" /\ UNCHANGED <<online, counterVars, gauge, unbilled, tally>>
      /\ TallyKept
  BY FailureCounts DEF Fetch
<1>2. PICK o \in RequestType : o = request[q]
  BY IsRequest
<1>3. ASSUME o.hops < MaxRedirects, request' = [request EXCEPT ![q].hops = @ + 1] PROVE ProxyInv'
  <2>1. PICK r : r = [o EXCEPT !.hops = @ + 1]
    OBVIOUS
  <2>2. o.hops + 1 \in 0..MaxRedirects
    BY <1>3, Limits DEF RequestType
  <2>3. r \in RequestType /\ r.pc = o.pc /\ r.at = o.at /\ r.held = o.held
        /\ r.bytes = o.bytes /\ r.todo = o.todo
    BY <2>1, <2>2 DEF RequestType
  <2>4. request' = [request EXCEPT ![q] = r]
    BY <1>2, <1>3, <2>1
  <2> QED
    BY <1>1, <1>2, <2>3, <2>4, OnwardKeeps DEF Outside, Waits
<1>4. ASSUME NEW pc \in {"manifest", "buffer", "stream"},
             request' = [request EXCEPT ![q] = [NewRequest EXCEPT !.pc = pc, !.at = At(q)]]
      PROVE  ProxyInv'
  <2>1. PICK n \in RequestType : n = NewRequest
    BY NewIsRequest
  <2>2. PICK a : a = [n EXCEPT !.pc = pc]
    OBVIOUS
  <2>3. a \in RequestType /\ a.pc = pc /\ a.held = n.held /\ a.bytes = n.bytes /\ a.todo = n.todo
    BY <2>2 DEF RequestType
  <2>4. PICK r : r = [a EXCEPT !.at = o.at]
    OBVIOUS
  <2>5. r \in RequestType /\ r.pc = a.pc /\ r.held = a.held /\ r.bytes = a.bytes
        /\ r.todo = a.todo /\ r.at = o.at
    BY <2>3, <2>4 DEF RequestType
  <2>6. request' = [request EXCEPT ![q] = r]
    BY <1>2, <1>4, <2>1, <2>2, <2>4 DEF At
  <2>7. o.at # "nowhere"
    BY <1>1, <1>2, IsRequest DEF RequestSound
  <2>8. r.pc = pc /\ r.held = {} /\ r.bytes = 0 /\ r.todo = <<>> /\ r.at # "nowhere"
    BY <2>1, <2>3, <2>5, <2>7, NewIsRequest
  <2> QED
    BY <1>1, <2>5, <2>6, <2>8, BlankKeeps DEF Outside
<1>5. CASE Over(q)
  BY <1>1, <1>5, OverHolds DEF Outside
<1> QED
  BY <1>2, <1>3, <1>4, <1>5 DEF Fetch, Answered

(* Bytes that are relayed and recorded at once change nothing.             *)
LEMMA BilledAtOnce ==
    ASSUME ProxyInv, NEW q \in Media, request[q].pc \in Waits, Billed(At(q), 1, 1)
    PROVE  UNCHANGED unbilled
<1>1. PICK n : n = At(q)
  OBVIOUS
<1>2. n \in Nodes
  BY <1>1, IsRequest DEF At, RequestType, RequestSound, Waits
<1>3. unbilled \in [Nodes -> Int] /\ unbilled' = [unbilled EXCEPT ![n] = @ + 1 - 1]
  BY <1>1 DEF ProxyInv, CounterTypes, Billed
<1>4. unbilled[n] + 1 - 1 = unbilled[n]
  BY <1>2, <1>3
<1> QED
  BY <1>2, <1>3, <1>4

LEMMA ReadManifestKeeps ==
    ASSUME ProxyInv, NEW q \in Media, ReadManifest(q)
    PROVE  ProxyInv'
<1>1. request[q].pc = "manifest" /\ UNCHANGED <<online, counterVars, gauge, tally>> /\ TallyKept
  BY FailureCounts DEF ReadManifest
<1>2. CASE Over(q) /\ UNCHANGED unbilled
  BY <1>1, <1>2, OverHolds DEF Outside
<1>3. ASSUME Billed(At(q), 1, 1), NEW m \in 1..MaxSegments,
             request' = [request EXCEPT ![q].pc = "rewrite", ![q].segments = m,
                                        ![q].budget = MaxPerRequest]
      PROVE  ProxyInv'
  <2>1. PICK o \in RequestType : o = request[q]
    BY IsRequest
  <2>2. PICK a : a = [o EXCEPT !.pc = "rewrite"]
    OBVIOUS
  <2>3. a \in RequestType /\ a.pc = "rewrite" /\ a.at = o.at /\ a.held = o.held
        /\ a.bytes = o.bytes /\ a.todo = o.todo
    BY <2>2 DEF RequestType
  <2>4. PICK b : b = [a EXCEPT !.segments = m]
    OBVIOUS
  <2>5. m \in 0..MaxSegments /\ MaxPerRequest \in 0..MaxPerRequest
    BY ProxyAssumption
  <2>6. b \in RequestType /\ b.pc = a.pc /\ b.at = a.at /\ b.held = a.held
        /\ b.bytes = a.bytes /\ b.todo = a.todo
    BY <2>3, <2>4, <2>5 DEF RequestType
  <2>7. PICK r : r = [b EXCEPT !.budget = MaxPerRequest]
    OBVIOUS
  <2>8. r \in RequestType /\ r.pc = b.pc /\ r.at = b.at /\ r.held = b.held
        /\ r.bytes = b.bytes /\ r.todo = b.todo
    BY <2>5, <2>6, <2>7 DEF RequestType
  <2>9. request' = [request EXCEPT ![q] = r]
    BY <1>3, <2>1, <2>2, <2>4, <2>7, IsRequest
  <2>10. UNCHANGED unbilled
    BY <1>1, <1>3, BilledAtOnce DEF Outside, Waits
  <2> QED
    BY <1>1, <2>1, <2>3, <2>6, <2>8, <2>9, <2>10, OnwardKeeps DEF Outside, Waits
<1> QED
  BY <1>2, <1>3 DEF ReadManifest

LEMMA ReadBufferKeeps ==
    ASSUME ProxyInv, NEW q \in Media, ReadBuffer(q)
    PROVE  ProxyInv'
<1>1. request[q].pc = "buffer" /\ UNCHANGED <<online, counterVars, gauge, tally>> /\ TallyKept
      /\ Over(q)
  BY FailureCounts DEF ReadBuffer
<1>2. UNCHANGED unbilled
  BY <1>1, BilledAtOnce DEF ReadBuffer, Outside, Waits
<1> QED
  BY <1>1, <1>2, OverHolds DEF Outside

LEMMA RewriteKeeps ==
    ASSUME ProxyInv, NEW q \in Media, RewriteSegment(q)
    PROVE  ProxyInv'
<1>1. PICK o \in RequestType : o = request[q]
  BY IsRequest
<1>2. /\ o.pc = "rewrite" /\ o.segments > 0 /\ UNCHANGED <<online, counterVars, gauge, unbilled>>
      /\ TallyKept
  BY <1>1, FailureCounts DEF RewriteSegment, NotMinted, Minted, Issue
<1>3. PICK a : a = [o EXCEPT !.segments = @ - 1]
  OBVIOUS
<1>4. o.segments - 1 \in 0..MaxSegments
  BY <1>2, Limits DEF RequestType
<1>5. a \in RequestType /\ a.pc = o.pc /\ a.at = o.at /\ a.held = o.held /\ a.bytes = o.bytes
      /\ a.todo = o.todo /\ a.budget = o.budget
  BY <1>3, <1>4 DEF RequestType
<1>6. CASE NotMinted(q)
  <2>1. request' = [request EXCEPT ![q] = a]
    BY <1>1, <1>3, <1>6 DEF NotMinted
  <2> QED
    BY <1>1, <1>2, <1>5, <2>1, OnwardKeeps DEF Outside, Waits
<1>7. ASSUME NEW g \in Grants, Minted(q, g) PROVE ProxyInv'
  <2>1. PICK r : r = [a EXCEPT !.budget = @ - 1]
    OBVIOUS
  <2>2. a.budget - 1 \in 0..MaxPerRequest
    <3>1. a.budget \in 0..MaxPerRequest
      BY <1>5 DEF RequestType
    <3>2. a.budget > 0
      BY <1>1, <1>5, <1>7 DEF Minted
    <3> QED
      BY <3>1, <3>2, Limits
  <2>3. r \in RequestType /\ r.pc = a.pc /\ r.at = a.at /\ r.held = a.held
        /\ r.bytes = a.bytes /\ r.todo = a.todo
    BY <1>5, <2>1, <2>2 DEF RequestType
  <2>4. request' = [request EXCEPT ![q] = r]
    BY <1>1, <1>3, <1>7, <2>1, IsRequest DEF Minted
  <2> QED
    BY <1>1, <1>2, <1>5, <2>3, <2>4, OnwardKeeps DEF Outside, Waits
<1> QED
  BY <1>6, <1>7 DEF RewriteSegment

LEMMA RewrittenKeeps ==
    ASSUME ProxyInv, NEW q \in Media, Rewritten(q)
    PROVE  ProxyInv'
BY FailureCounts, OverHolds DEF Rewritten, Outside

LEMMA StartStreamKeeps ==
    ASSUME ProxyInv, NEW q \in Media, StartStream(q)
    PROVE  ProxyInv'
<1>1. PICK o \in RequestType : o = request[q]
  BY IsRequest
<1>2. o.pc = "stream" /\ UNCHANGED <<online, counterVars, gauge, unbilled, tally>> /\ TallyKept
  BY <1>1, FailureCounts DEF StartStream
<1>3. CASE Over(q)
  BY <1>1, <1>2, <1>3, OverHolds DEF Outside
<1>4. CASE request' = [request EXCEPT ![q].pc = "reserve", ![q].todo = KeysToReserve(q)]
  <2>1. PICK keys : keys = KeysToReserve(q)
    OBVIOUS
  <2>2. keys \in Seq(Keys) /\ OnceEach(keys) /\ Elems(keys) = CappedKeys \cap KeysOf(q)
    BY <2>1, StrictestHolds DEF KeysToReserve, CappedKeys
  <2>3. PICK a : a = [o EXCEPT !.pc = "reserve"]
    OBVIOUS
  <2>4. a \in RequestType /\ a.pc = "reserve" /\ a.at = o.at /\ a.held = o.held /\ a.bytes = o.bytes
    BY <2>3 DEF RequestType
  <2>5. PICK r : r = [a EXCEPT !.todo = keys]
    OBVIOUS
  <2>6. r \in RequestType /\ r.pc = a.pc /\ r.at = a.at /\ r.held = a.held
        /\ r.bytes = a.bytes /\ r.todo = keys
    BY <2>2, <2>4, <2>5 DEF RequestType
  <2>7. request' = [request EXCEPT ![q] = r]
    BY <1>1, <1>4, <2>1, <2>3, <2>5, IsRequest
  <2>8. o.held = {} /\ o.bytes = 0 /\ o.at # "nowhere"
    BY <1>1, <1>2, IsRequest DEF RequestSound
  <2> QED
    BY <1>1, <1>2, <2>2, <2>4, <2>6, <2>7, <2>8, OutsideHolds DEF Outside
<1> QED
  BY <1>3, <1>4 DEF StartStream
----------------------------------------------------------------------------
(* Counters that a step changes under one key.                             *)

(* Where a request counts.                                                 *)
LEMMA CountsSomewhere ==
    ASSUME ProxyInv, NEW q \in Media, request[q].pc \notin {"new", "over"}
    PROVE  At(q) \in Nodes /\ Store(At(q)) \in Stores
BY IsRequest DEF At, RequestType, RequestSound, Store, Stores

(* The first key to do.                                                    *)
LEMMA FirstToDo ==
    ASSUME ProxyInv, NEW q \in Media, request[q].todo # <<>>
    PROVE  LET t == request[q].todo IN
           /\ t \in Seq(Keys) /\ Head(t) \in Keys /\ Head(t) \in Elems(t)
           /\ Tail(t) \in Seq(Keys) /\ OnceEach(Tail(t)) /\ Elems(Tail(t)) = Elems(t) \ {Head(t)}
<1>1. request[q].todo \in Seq(Keys) /\ OnceEach(request[q].todo)
  BY IsRequest DEF RequestType, RequestSound
<1> QED
  BY <1>1, NextKey

(* A step that changes what is held and counted in one place only.         *)
Share(r, s, k) == IF HoldsAt(r, s, k) THEN 1 ELSE 0

Touches(q, r, s, k) ==
    /\ \A t \in Stores, j \in Keys : j # k \/ t # s =>
           /\ HoldsAt(r, t, j) <=> HoldsAt(request[q], t, j)
           /\ count'[t][j] = count[t][j] /\ lost'[t][j] = lost[t][j]
    /\ count' \in [Stores -> [Keys -> Int]] /\ lost' \in [Stores -> [Keys -> Nat]]

(* A counter rises only with what is held or lost.                         *)
LEMMA CountsFollow ==
    ASSUME ProxyInv, NEW q \in Media, NEW r, TurnsInto(q, r), NEW s \in Stores, NEW k \in Keys,
           Touches(q, r, s, k),
           \/ count'[s][k] - lost'[s][k] - Share(r, s, k)
                  <= count[s][k] - lost[s][k] - Share(request[q], s, k)
           \/ count'[s][k] <= Share(r, s, k)
    PROVE  CountersExact'
<1> SUFFICES ASSUME NEW t \in Stores, NEW j \in Keys
             PROVE  count'[t][j] <= Cardinality(Reserved(t, j)') + lost'[t][j]
  BY DEF CountersExact, Stores, Keys
<1>1. RequestsSound
  BY DEF ProxyInv
<1>2. PICK R, S : R = Reserved(t, j) /\ S = Reserved(t, j)'
  OBVIOUS
<1>3. /\ R \in SUBSET Media /\ S \in SUBSET Media /\ \A p \in Media \ {q} : p \in S <=> p \in R
      /\ q \in S <=> HoldsAt(r, t, j)
      /\ q \in R <=> HoldsAt(request[q], t, j)
  BY <1>1, <1>2, ReservedTurns
<1>4. /\ Cardinality(R) \in Nat /\ Cardinality(S) \in Nat
      /\ (q \in S <=> q \in R) => Cardinality(S) = Cardinality(R)
      /\ q \in S /\ q \notin R => Cardinality(S) = Cardinality(R) + 1
      /\ q \notin S /\ q \in R => Cardinality(S) = Cardinality(R) - 1
  BY <1>3, CountTurns
<1>5. count[t][j] <= Cardinality(R) + lost[t][j]
  BY <1>2 DEF ProxyInv, CountersExact
<1>6. /\ count[t][j] \in Int /\ count'[t][j] \in Int /\ lost[t][j] \in Nat /\ lost'[t][j] \in Nat
  BY DEF ProxyInv, CounterTypes, Touches
<1>7. CASE j # k \/ t # s
  BY <1>2, <1>3, <1>4, <1>5, <1>6, <1>7 DEF Touches
<1>8. CASE j = k /\ t = s
  <2>1. /\ Cardinality(S) - Cardinality(R) = Share(r, s, k) - Share(request[q], s, k)
        /\ Share(r, s, k) \in {0, 1} /\ Share(request[q], s, k) \in {0, 1}
    BY <1>3, <1>4, <1>8 DEF Share
  <2>2. Share(r, s, k) <= Cardinality(S)
    <3>1. q \in S => Cardinality(S) # 0
      BY <1>3, MediaCount, FS_EmptySet
    <3> QED
      BY <1>3, <1>4, <1>8, <3>1 DEF Share
  <2>3. CASE count'[s][k] <= Share(r, s, k)
    BY <1>2, <1>4, <1>6, <1>8, <2>1, <2>2, <2>3
  <2>4. CASE count'[s][k] - lost'[s][k] - Share(r, s, k)
                 <= count[s][k] - lost[s][k] - Share(request[q], s, k)
    BY <1>2, <1>4, <1>5, <1>6, <1>8, <2>1, <2>4
  <2> QED
    BY <2>3, <2>4
<1> QED
  BY <1>7, <1>8

(* Counters in memory, while none has reached its TTL.                     *)
LEMMA MemoryFollows ==
    ASSUME ProxyInv, NEW q \in Media, NEW r, TurnsInto(q, r), NEW s \in Stores, NEW k \in Keys,
           Touches(q, r, s, k), tally'.lapses = tally.lapses,
           \A n \in Nodes : lapsed[n] = {} => lapsed'[n] = {},
           tally.lapses = 0 /\ s \in Nodes \ online =>
              \/ Share(r, s, k) - Share(request[q], s, k) <= count'[s][k] - count[s][k]
              \/ ~Capped(k) /\ 0 <= count'[s][k],
           tally.lapses = 0 =>
              \A n \in Nodes \ online, j \in Keys :
                  Capped(j) /\ PassedAt(r, n, j) =>
                      PassedAt(request[q], n, j) \/ Cardinality(Reserved(n, j)') <= Cap(j)
    PROVE  MemoryExact'
<1> SUFFICES ASSUME tally.lapses = 0, NEW n \in Nodes \ online, NEW j \in Keys
             PROVE  /\ lapsed'[n] = {} /\ Cardinality(Reserved(n, j)') <= count'[n][j]
                    /\ Capped(j) => Cardinality(Passed(n, j)') <= Cap(j)
  BY DEF MemoryExact, TurnsInto, Capped, Cap, Keys
<1>1. RequestsSound /\ n \in Stores
  BY DEF ProxyInv, Stores
<1>2. PICK R, S : R = Reserved(n, j) /\ S = Reserved(n, j)'
  OBVIOUS
<1>3. /\ R \in SUBSET Media /\ S \in SUBSET Media /\ \A p \in Media \ {q} : p \in S <=> p \in R
      /\ q \in S <=> HoldsAt(r, n, j)
      /\ q \in R <=> HoldsAt(request[q], n, j)
  BY <1>1, <1>2, ReservedTurns
<1>4. /\ Cardinality(R) \in Nat /\ Cardinality(S) \in Nat
      /\ (q \in S <=> q \in R) => Cardinality(S) = Cardinality(R)
      /\ q \in S /\ q \notin R => Cardinality(S) = Cardinality(R) + 1
      /\ q \notin S /\ q \in R => Cardinality(S) = Cardinality(R) - 1
  BY <1>3, CountTurns
<1>5. lapsed[n] = {} /\ Cardinality(R) <= count[n][j] /\ (Capped(j) => Cardinality(Passed(n, j)) <= Cap(j))
  BY <1>2 DEF ProxyInv, MemoryExact
<1>6. count[n][j] \in Int /\ count'[n][j] \in Int
  BY <1>1 DEF ProxyInv, CounterTypes, Touches
<1>7. Cardinality(S) <= count'[n][j]
  <2>1. CASE j # k \/ n # s
    BY <1>1, <1>3, <1>4, <1>5, <1>6, <2>1 DEF Touches
  <2>2. CASE j = k /\ n = s /\ Capped(k)
    BY <1>3, <1>4, <1>5, <1>6, <2>2 DEF Share
  <2>3. CASE j = k /\ n = s /\ ~Capped(k)
    <3>1. \A p \in Media : k \notin request[p].held
      BY <2>3 DEF ProxyInv, RequestsSound, RequestSound, CappedKeys
    <3>2. R = {}
      BY <1>2, <2>3, <3>1 DEF Reserved
    <3>3. k \notin r.held
      BY <2>3 DEF TurnsInto, RequestSound, CappedKeys
    <3>4. S = {}
      BY <1>3, <2>3, <3>2, <3>3 DEF HoldsAt
    <3>5. Cardinality(S) = 0
      BY <3>4, FS_EmptySet
    <3>6. Share(r, s, k) = Share(request[q], s, k)
      BY <3>1, <3>3 DEF HoldsAt, Share
    <3> QED
      BY <1>4, <1>5, <1>6, <2>3, <3>3, <3>5, <3>6 DEF HoldsAt, Share
  <2> QED
    BY <2>1, <2>2, <2>3
<1>8. ASSUME Capped(j) PROVE Cardinality(Passed(n, j)') <= Cap(j)
  <2>1. PICK P, O : P = Passed(n, j)' /\ O = Passed(n, j)
    OBVIOUS
  <2>2. /\ O \in SUBSET Media /\ P \in SUBSET Media /\ \A p \in Media \ {q} : p \in P <=> p \in O
        /\ q \in P <=> PassedAt(r, n, j)
        /\ q \in O <=> PassedAt(request[q], n, j)
    BY <1>1, <2>1, PassedTurns
  <2>3. Cap(j) \in Nat
    BY CapIsNat
  <2>4. CASE q \in P => q \in O
    <3>1. Cardinality(P) <= Cardinality(O) /\ Cardinality(P) \in Nat /\ Cardinality(O) \in Nat
      BY <2>2, <2>4, CountTurns
    <3> QED
      BY <1>5, <1>8, <2>1, <2>3, <3>1
  <2>5. CASE Cardinality(S) <= Cap(j)
    <3>1. P \subseteq S
      BY <1>2, <2>1 DEF Passed, PassedAt, HoldsAt, Reserved, At, Store
    <3>2. Cardinality(P) <= Cardinality(S) /\ Cardinality(P) \in Nat
      BY <1>3, <3>1, MediaCount, FS_Subset
    <3> QED
      BY <1>4, <2>1, <2>3, <2>5, <3>2
  <2> QED
    BY <1>2, <1>8, <2>2, <2>4, <2>5
<1> QED
  BY <1>2, <1>5, <1>7, <1>8

(* A counter of Redis says nothing of those in memory.                     *)
LEMMA RedisSpares ==
    ASSUME ProxyInv, NEW q \in Media, NEW r, TurnsInto(q, r), NEW k \in Keys,
           Touches(q, r, "redis", k), tally'.lapses = tally.lapses, lapsed' = lapsed,
           \A n, j : ~PassedAt(r, n, j)
    PROVE  MemoryExact'
<1>1. "redis" \in Stores /\ "redis" \notin Nodes
  BY ProxyAssumption DEF Stores
<1>2. \A n \in Nodes : lapsed[n] = {} => lapsed'[n] = {}
  OBVIOUS
<1>3. tally.lapses = 0 =>
         \A n \in Nodes \ online, j \in Keys :
             Capped(j) /\ PassedAt(r, n, j) =>
                 PassedAt(request[q], n, j) \/ Cardinality(Reserved(n, j)') <= Cap(j)
  OBVIOUS
<1> QED
  BY <1>1, <1>2, <1>3, MemoryFollows

(* What a step must show that changes one counter and no open stream.      *)
LEMMA CounterKeeps ==
    ASSUME ProxyInv, NEW q \in Media, NEW r, TurnsInto(q, r),
           MemoryExact', CountersExact', request[q].pc # "open", r.pc # "open", TallyKept,
           count' \in [Stores -> [Keys -> Int]], lost' \in [Stores -> [Keys -> Nat]],
           lapsed' \in [Nodes -> SUBSET Keys], UNCHANGED <<gauge, unbilled>>
    PROVE  ProxyInv'
<1>1. GaugesExact'
  BY OthersOpen
<1>2. CounterTypes'
  BY DEF ProxyInv, CounterTypes, TurnsInto, TallyKept
<1>3. RequestsSound'
  BY RequestTurns DEF ProxyInv
<1> QED
  BY <1>1, <1>2, <1>3 DEF ProxyInv

(* A stream that is turned away gives back what it holds.                  *)
LEMMA RejectTurns ==
    ASSUME ProxyInv, NEW q \in Media, Reject(q), request[q].pc \in {"reserve", "check"},
           UNCHANGED online
    PROVE  \E r : /\ TurnsInto(q, r) /\ r.pc = "release"
                  /\ r.held = request[q].held /\ r.at = request[q].at
<1>1. PICK o \in RequestType : o = request[q]
  BY IsRequest
<1>2. /\ RequestSound(q, o) /\ o.held \in SUBSET Keys /\ o.held \subseteq CappedKeys \cap KeysOf(q)
      /\ o.bytes = 0 /\ o.at # "nowhere"
  BY <1>1, IsRequest DEF RequestType, RequestSound
<1>3. PICK keys : keys = StrictestFirst(q, o.held)
  OBVIOUS
<1>4. keys \in Seq(Keys) /\ OnceEach(keys) /\ Elems(keys) = o.held
  BY <1>2, <1>3, StrictestHolds
<1>5. PICK a : a = [o EXCEPT !.pc = "release"]
  OBVIOUS
<1>6. a \in RequestType /\ a.pc = "release" /\ a.at = o.at /\ a.held = o.held /\ a.bytes = o.bytes
  BY <1>5 DEF RequestType
<1>7. PICK r : r = [a EXCEPT !.todo = keys]
  OBVIOUS
<1>8. r \in RequestType /\ r.pc = a.pc /\ r.at = a.at /\ r.held = a.held /\ r.bytes = a.bytes
      /\ r.todo = keys
  BY <1>4, <1>6, <1>7 DEF RequestType
<1>9. request' = [request EXCEPT ![q] = r]
  BY <1>1, <1>3, <1>5, <1>7, IsRequest DEF Reject
<1>10. RequestSound(q, r)
  BY <1>2, <1>4, <1>6, <1>8 DEF RequestSound
<1> QED
  BY <1>1, <1>6, <1>8, <1>9, <1>10 DEF TurnsInto

LEMMA Incremental ==
    ASSUME ProxyInv, NEW s \in Stores, NEW k \in Keys, Incremented(s, k)
    PROVE  /\ count' \in [Stores -> [Keys -> Int]] /\ lapsed' \in [Nodes -> SUBSET Keys]
           /\ \A t \in Stores, j \in Keys : j # k \/ t # s => count'[t][j] = count[t][j]
           /\ count'[s][k] = count[s][k] + 1 \/ (s \in Nodes /\ lapsed[s] # {} /\ count'[s][k] = 1)
           /\ \A n \in Nodes : lapsed[n] = {} => lapsed'[n] = {}
<1>1. PICK c \in [Stores -> [Keys -> Int]] : c = count
  BY DEF ProxyInv, CounterTypes
<1>2. PICK l \in [Nodes -> SUBSET Keys] : l = lapsed
  BY DEF ProxyInv, CounterTypes
<1>3. CASE s \in Nodes /\ k \in lapsed[s]
  <2>1. count' = [c EXCEPT ![s][k] = 1] /\ lapsed' = [l EXCEPT ![s] = @ \ {k}]
    BY <1>1, <1>2, <1>3 DEF Incremented
  <2> QED
    BY <1>1, <1>2, <1>3, <2>1
<1>4. CASE ~(s \in Nodes /\ k \in lapsed[s])
  <2>1. count' = [c EXCEPT ![s][k] = @ + 1] /\ lapsed' = l
    BY <1>1, <1>2, <1>4 DEF Incremented
  <2>2. c[s][k] + 1 \in Int
    BY <1>1
  <2> QED
    BY <1>1, <1>2, <2>1, <2>2
<1> QED
  BY <1>3, <1>4

LEMMA ReserveKeeps ==
    ASSUME ProxyInv, NEW q \in Media, Reserve(q)
    PROVE  ProxyInv'
<1>1. PICK o \in RequestType : o = request[q]
  BY IsRequest
<1>2. o.pc = "reserve" /\ o.todo # <<>> /\ UNCHANGED <<online, gauge, unbilled>>
  BY <1>1 DEF Reserve
<1>3. PICK k, s : k = Head(o.todo) /\ s = Store(o.at)
  OBVIOUS
<1>4. k \in Keys /\ k \in Elems(o.todo) /\ s \in Stores
  BY <1>1, <1>2, <1>3, FirstToDo, CountsSomewhere DEF At
<1>5. RequestSound(q, o) /\ ReservesSound(q, o) /\ Elems(o.todo) \cap o.held = {}
      /\ o.at # "nowhere"
  BY <1>1, <1>2, IsRequest DEF RequestSound
<1>6. ~HoldsAt(o, s, k) /\ k \in CappedKeys \cap KeysOf(q)
  BY <1>4, <1>5 DEF HoldsAt, ReservesSound
<1>7. ASSUME Incremented(s, k), UNCHANGED <<lost, tally>>,
             request' = [request EXCEPT ![q].pc = "check", ![q].held = @ \cup {k}]
      PROVE  ProxyInv'
  <2>1. PICK a : a = [o EXCEPT !.pc = "check"]
    OBVIOUS
  <2>2. a \in RequestType /\ a.pc = "check" /\ a.at = o.at /\ a.held = o.held
        /\ a.bytes = o.bytes /\ a.todo = o.todo
    BY <2>1 DEF RequestType
  <2>3. PICK r : r = [a EXCEPT !.held = @ \cup {k}]
    OBVIOUS
  <2>4. r \in RequestType /\ r.pc = a.pc /\ r.at = a.at /\ r.held = a.held \cup {k}
        /\ r.bytes = a.bytes /\ r.todo = a.todo
    BY <1>4, <2>2, <2>3 DEF RequestType
  <2>5. request' = [request EXCEPT ![q] = r]
    BY <1>1, <1>7, <2>1, <2>3, IsRequest
  <2>6. RequestSound(q, r)
    BY <1>2, <1>3, <1>4, <1>5, <1>6, <2>2, <2>4 DEF RequestSound, ReservesSound
  <2>7. TurnsInto(q, r)
    BY <1>2, <2>4, <2>5, <2>6 DEF TurnsInto
  <2>8. HoldsAt(r, s, k) /\ \A j \in Keys, t \in Stores : j # k \/ t # s => (HoldsAt(r, t, j) <=> HoldsAt(o, t, j))
    BY <1>3, <2>2, <2>4 DEF HoldsAt
  <2>9. \A n, j : PassedAt(r, n, j) => PassedAt(o, n, j)
    BY <1>2, <1>3, <2>2, <2>4 DEF PassedAt, HoldsAt
  <2>10. /\ count' \in [Stores -> [Keys -> Int]] /\ lapsed' \in [Nodes -> SUBSET Keys]
         /\ \A t \in Stores, j \in Keys : j # k \/ t # s => count'[t][j] = count[t][j]
         /\ count'[s][k] = count[s][k] + 1 \/ (s \in Nodes /\ lapsed[s] # {} /\ count'[s][k] = 1)
         /\ \A n \in Nodes : lapsed[n] = {} => lapsed'[n] = {}
    BY <1>4, <1>7, Incremental
  <2>11. /\ count[s][k] \in Int /\ lost[s][k] \in Nat /\ lost' = lost
         /\ lost' \in [Stores -> [Keys -> Nat]] /\ TallyKept
    BY <1>4, <1>7, FailureCounts DEF ProxyInv, CounterTypes
  <2>12. Touches(q, r, s, k) /\ Share(r, s, k) = 1 /\ Share(request[q], s, k) = 0
    BY <1>1, <1>6, <2>8, <2>10, <2>11 DEF Touches, Share
  <2>13. CountersExact'
    <3>1. \/ count'[s][k] - lost'[s][k] - 1 <= count[s][k] - lost[s][k] - 0
          \/ count'[s][k] <= 1
      BY <2>10, <2>11
    <3> QED
      BY <1>4, <2>7, <2>12, <3>1, CountsFollow
  <2>14. MemoryExact'
    <3>1. tally.lapses = 0 /\ s \in Nodes \ online => 1 - 0 <= count'[s][k] - count[s][k]
      BY <1>4, <2>10, <2>11 DEF ProxyInv, MemoryExact
    <3>2. /\ \A n, j : PassedAt(r, n, j) => PassedAt(request[q], n, j)
          /\ tally'.lapses = tally.lapses
          /\ \A n \in Nodes : lapsed[n] = {} => lapsed'[n] = {}
      BY <1>1, <1>7, <2>9, <2>10
    <3> QED
      BY <1>4, <2>7, <2>12, <3>1, <3>2, MemoryFollows
  <2> QED
    BY <1>1, <1>2, <2>2, <2>4, <2>7, <2>10, <2>11, <2>13, <2>14, CounterKeeps
<1>8. ASSUME s = "redis", Failure, Reject(q), UNCHANGED lapsed,
             \/ UNCHANGED <<count, lost>>
             \/ /\ count' = [count EXCEPT ![s][k] = @ + 1]
                /\ lost' = [lost EXCEPT ![s][k] = @ + 1]
      PROVE  ProxyInv'
  <2>1. PICK r : TurnsInto(q, r) /\ r.pc = "release" /\ r.held = o.held /\ r.at = o.at
    BY <1>1, <1>2, <1>8, RejectTurns
  <2>2. \A j, t : HoldsAt(r, t, j) <=> HoldsAt(o, t, j)
    BY <2>1 DEF HoldsAt
  <2>3. \A n, j : ~PassedAt(r, n, j)
    BY <2>1 DEF PassedAt
  <2>4. PICK c \in [Stores -> [Keys -> Int]] : c = count
    BY DEF ProxyInv, CounterTypes
  <2>5. PICK l \in [Stores -> [Keys -> Nat]] : l = lost
    BY DEF ProxyInv, CounterTypes
  <2>6. /\ count' \in [Stores -> [Keys -> Int]] /\ lost' \in [Stores -> [Keys -> Nat]]
        /\ \A t \in Stores, j \in Keys : j # k \/ t # s => count'[t][j] = c[t][j] /\ lost'[t][j] = l[t][j]
        /\ count'[s][k] - lost'[s][k] <= c[s][k] - l[s][k]
    <3>1. CASE UNCHANGED <<count, lost>>
      BY <1>4, <2>4, <2>5, <3>1
    <3>2. CASE count' = [c EXCEPT ![s][k] = @ + 1] /\ lost' = [l EXCEPT ![s][k] = @ + 1]
      <4>1. c[s][k] + 1 \in Int /\ l[s][k] + 1 \in Nat /\ c[s][k] \in Int /\ l[s][k] \in Nat
        BY <1>4
      <4> QED
        BY <1>4, <3>2, <4>1
    <3> QED
      BY <1>8, <2>4, <2>5, <3>1, <3>2
  <2>7. TallyKept
    BY <1>8, FailureCounts
  <2>8. Touches(q, r, s, k) /\ Share(r, s, k) = Share(request[q], s, k) /\ Share(r, s, k) \in Nat
    BY <1>1, <2>2, <2>4, <2>5, <2>6 DEF Touches, Share
  <2>9. CountersExact'
    <3>1. /\ count'[s][k] \in Int /\ lost'[s][k] \in Nat
          /\ count[s][k] \in Int /\ lost[s][k] \in Nat
      BY <1>4, <2>4, <2>5, <2>6
    <3>2. count'[s][k] - lost'[s][k] - Share(r, s, k)
              <= count[s][k] - lost[s][k] - Share(request[q], s, k)
      BY <2>4, <2>5, <2>6, <2>8, <3>1
    <3> QED
      BY <1>4, <2>1, <2>8, <3>2, CountsFollow
  <2>10. MemoryExact'
    BY <1>4, <1>8, <2>1, <2>3, <2>7, <2>8, RedisSpares DEF TallyKept
  <2>11. lapsed' \in [Nodes -> SUBSET Keys]
    BY <1>8 DEF ProxyInv, CounterTypes
  <2> QED
    BY <1>1, <1>2, <2>1, <2>6, <2>7, <2>9, <2>10, <2>11, CounterKeeps
<1> QED
  BY <1>1, <1>3, <1>7, <1>8 DEF Reserve, At

(* A step that changes no counter.                                         *)
LEMMA SameReserved ==
    ASSUME ProxyInv, NEW q \in Media, NEW r, TurnsInto(q, r), NEW s, NEW k,
           HoldsAt(r, s, k) <=> HoldsAt(request[q], s, k)
    PROVE  Cardinality(Reserved(s, k)') = Cardinality(Reserved(s, k))
<1>1. RequestsSound
  BY DEF ProxyInv
<1>2. PICK R, S : R = Reserved(s, k) /\ S = Reserved(s, k)'
  OBVIOUS
<1>3. /\ R \in SUBSET Media /\ S \in SUBSET Media
      /\ \A p \in Media \ {q} : p \in S <=> p \in R
      /\ q \in S <=> q \in R
  BY <1>1, <1>2, ReservedTurns
<1>4. Cardinality(S) = Cardinality(R)
  BY <1>3, CountTurns
<1> QED
  BY <1>2, <1>4

LEMMA CheckKeeps ==
    ASSUME ProxyInv, NEW q \in Media, Check(q)
    PROVE  ProxyInv'
<1>1. PICK o \in RequestType : o = request[q]
  BY IsRequest
<1>2. o.pc = "check" /\ UNCHANGED <<online, counterVars, gauge, unbilled>>
  BY <1>1 DEF Check
<1>3. PICK k, s : k = Head(o.todo) /\ s = Store(o.at)
  OBVIOUS
<1>4. RequestSound(q, o) /\ ReservesSound(q, o) /\ o.todo # <<>> /\ Elems(o.todo) \cap o.held = {k}
  BY <1>1, <1>2, <1>3, IsRequest DEF RequestSound
<1>5. /\ k \in Keys /\ Tail(o.todo) \in Seq(Keys) /\ OnceEach(Tail(o.todo))
      /\ Elems(Tail(o.todo)) = Elems(o.todo) \ {k} /\ s \in Stores
  BY <1>1, <1>2, <1>3, <1>4, FirstToDo, CountsSomewhere DEF At
<1>6. TallyKept
  BY FailureCounts DEF Check
<1>7. CASE Reject(q)
  <2>1. PICK r : TurnsInto(q, r) /\ r.pc = "release" /\ r.held = o.held /\ r.at = o.at
    BY <1>1, <1>2, <1>7, RejectTurns
  <2>2. Quiet(q, r)
    BY <1>1, <1>2, <1>6, <2>1 DEF Quiet, PassedAt, TallyKept
  <2> QED
    BY <1>1, <1>2, <2>1, <2>2, QuietKeeps
<1>8. ASSUME ~OverLimit(s, k), UNCHANGED tally,
             request' = [request EXCEPT ![q].pc = "reserve", ![q].todo = Tail(@)]
      PROVE  ProxyInv'
  <2>1. PICK a : a = [o EXCEPT !.pc = "reserve"]
    OBVIOUS
  <2>2. a \in RequestType /\ a.pc = "reserve" /\ a.at = o.at /\ a.held = o.held
        /\ a.bytes = o.bytes /\ a.todo = o.todo
    BY <2>1 DEF RequestType
  <2>3. PICK r : r = [a EXCEPT !.todo = Tail(@)]
    OBVIOUS
  <2>4. r \in RequestType /\ r.pc = a.pc /\ r.at = a.at /\ r.held = a.held
        /\ r.bytes = a.bytes /\ r.todo = Tail(o.todo)
    BY <1>5, <2>2, <2>3 DEF RequestType
  <2>5. request' = [request EXCEPT ![q] = r]
    BY <1>1, <1>8, <2>1, <2>3, IsRequest
  <2>6. ReservesSound(q, r) /\ Elems(r.todo) \cap r.held = {}
    BY <1>4, <1>5, <2>2, <2>4 DEF ReservesSound
  <2>7. RequestSound(q, r)
    BY <1>2, <1>4, <1>5, <2>2, <2>4, <2>6 DEF RequestSound
  <2>8. TurnsInto(q, r)
    BY <1>2, <2>4, <2>5, <2>7 DEF TurnsInto
  <2>9. \A t, j : HoldsAt(r, t, j) <=> HoldsAt(request[q], t, j)
    BY <1>1, <2>2, <2>4 DEF HoldsAt
  <2>10. /\ count' \in [Stores -> [Keys -> Int]] /\ lost' \in [Stores -> [Keys -> Nat]]
         /\ lapsed' \in [Nodes -> SUBSET Keys] /\ count' = count /\ lost' = lost /\ lapsed' = lapsed
    BY <1>2 DEF ProxyInv, CounterTypes, counterVars
  <2>11. Touches(q, r, s, k) /\ Share(r, s, k) = Share(request[q], s, k) /\ Share(r, s, k) \in Nat
    BY <2>9, <2>10 DEF Touches, Share
  <2>12. ASSUME tally.lapses = 0, NEW n \in Nodes \ online, NEW j \in Keys, Capped(j), PassedAt(r, n, j)
         PROVE  PassedAt(request[q], n, j) \/ Cardinality(Reserved(n, j)') <= Cap(j)
    <3>1. CASE j # k
      BY <1>1, <1>2, <1>3, <2>2, <2>4, <2>12, <3>1 DEF PassedAt, HoldsAt
    <3>2. CASE j = k
      <4>1. n = s
        BY <1>3, <2>2, <2>4, <2>12 DEF PassedAt, HoldsAt
      <4>2. lapsed[n] = {} /\ Cardinality(Reserved(n, j)) <= count[n][j]
        BY <2>12 DEF ProxyInv, MemoryExact
      <4>3. count[n][j] <= Cap(j)
        <5>1. ~(count[s][k] > Cap(k))
          BY <1>8, <4>1, <4>2 DEF OverLimit
        <5>2. count[s][k] \in Int /\ Cap(k) \in Nat
          BY <1>5, CapIsNat DEF ProxyInv, CounterTypes
        <5> QED
          BY <3>2, <4>1, <5>1, <5>2
      <4>4. Cardinality(Reserved(n, j)') = Cardinality(Reserved(n, j))
        BY <2>8, <2>9, SameReserved
      <4>5. Cardinality(Reserved(n, j)) \in Nat /\ count[n][j] \in Int /\ Cap(j) \in Nat
        <5>1. Reserved(n, j) \in SUBSET Media
          BY DEF Reserved
        <5>2. Cardinality(Reserved(n, j)) \in Nat
          BY <5>1, MediaCount
        <5>3. count[n][j] \in Int
          BY <1>5, <3>2, <4>1 DEF ProxyInv, CounterTypes
        <5> QED
          BY <5>2, <5>3, CapIsNat
      <4> QED
        BY <4>2, <4>3, <4>4, <4>5
    <3> QED
      BY <3>1, <3>2
  <2>13. count[s][k] \in Int /\ lost[s][k] \in Nat
    BY <1>5 DEF ProxyInv, CounterTypes
  <2>14. CountersExact'
    <3>1. count'[s][k] - lost'[s][k] - Share(r, s, k)
              <= count[s][k] - lost[s][k] - Share(request[q], s, k)
      BY <2>10, <2>11, <2>13
    <3> QED
      BY <1>5, <2>8, <2>11, <3>1, CountsFollow
  <2>15. MemoryExact'
    <3>1. Share(r, s, k) - Share(request[q], s, k) <= count'[s][k] - count[s][k]
      BY <2>10, <2>11, <2>13
    <3>2. tally'.lapses = tally.lapses /\ \A n \in Nodes : lapsed[n] = {} => lapsed'[n] = {}
      BY <1>8, <2>10
    <3> QED
      BY <1>5, <2>8, <2>11, <2>12, <3>1, <3>2, MemoryFollows
  <2> QED
    BY <1>1, <1>2, <1>6, <2>2, <2>4, <2>8, <2>10, <2>14, <2>15, CounterKeeps
<1> QED
  BY <1>1, <1>3, <1>7, <1>8 DEF Check, At

(* Giving back.                                                            *)
LEMMA ReleasedKeeps ==
    ASSUME ProxyInv, NEW q \in Media, Released(q)
    PROVE  ProxyInv'
<1>1. /\ request[q].pc = "release" /\ request[q].todo = <<>> /\ Over(q)
      /\ UNCHANGED <<online, counterVars, gauge, unbilled>> /\ TallyKept
  BY FailureCounts DEF Released
<1>2. request[q].held = {}
  <2>1. Elems(<<>>) = {}
    BY DEF Elems
  <2> QED
    BY <1>1, <2>1, IsRequest DEF RequestSound
<1>3. PICK r : r = [NewRequest EXCEPT !.pc = "over"]
  OBVIOUS
<1>4. r \in RequestType /\ r.pc = "over" /\ r.held = {} /\ r.bytes = 0 /\ r.todo = <<>>
  BY <1>3, OverIsRequest
<1>5. request' = [request EXCEPT ![q] = r] /\ OnceEach(r.todo)
  BY <1>1, <1>3, <1>4 DEF Over, OnceEach
<1>6. RequestSound(q, r)
  BY <1>4, <1>5 DEF RequestSound
<1>7. Quiet(q, r)
  BY <1>1, <1>2, <1>4, <1>5, <1>6 DEF Quiet, TurnsInto, PassedAt, TallyKept
<1> QED
  BY <1>1, <1>4, <1>7, QuietKeeps

(* One key less to do, with or without having to erase its counter.        *)
Erasing(q, k) == [request EXCEPT ![q].pc = "erase", ![q].held = @ \ {k}]

LEMMA GivenTurns ==
    ASSUME ProxyInv, NEW q \in Media, request[q].pc = "release", request[q].todo # <<>>,
           UNCHANGED online, NEW k, k = Head(request[q].todo),
           request' \in {Given(q, k), Erasing(q, k)}
    PROVE  \E r : /\ TurnsInto(q, r) /\ r.pc \in {"release", "erase"} /\ r.at = request[q].at
                  /\ r.held = request[q].held \ {k}
<1>1. PICK o \in RequestType : o = request[q]
  BY IsRequest
<1>2. k = Head(o.todo)
  BY <1>1
<1>3. /\ RequestSound(q, o) /\ o.held = Elems(o.todo) \cap CappedKeys /\ o.held \in SUBSET Keys
      /\ o.bytes = 0 /\ o.at # "nowhere"
  BY <1>1, IsRequest DEF RequestSound, RequestType
<1>4. /\ Tail(o.todo) \in Seq(Keys) /\ OnceEach(Tail(o.todo)) /\ OnceEach(o.todo)
      /\ Elems(Tail(o.todo)) = Elems(o.todo) \ {k}
  BY <1>1, <1>2, <1>3, FirstToDo DEF RequestSound
<1>5. CASE request' = Given(q, k)
  <2>1. PICK a : a = [o EXCEPT !.todo = Tail(@)]
    OBVIOUS
  <2>2. a \in RequestType /\ a.pc = o.pc /\ a.at = o.at /\ a.held = o.held
        /\ a.bytes = o.bytes /\ a.todo = Tail(o.todo)
    BY <1>4, <2>1 DEF RequestType
  <2>3. PICK r : r = [a EXCEPT !.held = @ \ {k}]
    OBVIOUS
  <2>4. r \in RequestType /\ r.pc = a.pc /\ r.at = a.at /\ r.held = a.held \ {k}
        /\ r.bytes = a.bytes /\ r.todo = a.todo
    BY <2>2, <2>3 DEF RequestType
  <2>5. request' = [request EXCEPT ![q] = r]
    <3>1. request' = [request EXCEPT ![q].todo = Tail(@), ![q].held = @ \ {k}]
      BY <1>5 DEF Given
    <3>2. r = [[request[q] EXCEPT !.todo = Tail(@)] EXCEPT !.held = @ \ {k}]
      BY <1>1, <2>1, <2>3
    <3>3. request = [p \in Media |-> request[p]]
      BY IsRequest
    <3>4. [request EXCEPT ![q].todo = Tail(@), ![q].held = @ \ {k}]
              = [request EXCEPT ![q] = [[request[q] EXCEPT !.todo = Tail(@)] EXCEPT !.held = @ \ {k}]]
      BY ONLY <3>3, q \in Media
    <3> QED
      BY ONLY <3>1, <3>2, <3>4
  <2>6. RequestSound(q, r)
    BY <1>1, <1>3, <1>4, <2>2, <2>4 DEF RequestSound
  <2> QED
    BY <1>1, <1>2, <2>2, <2>4, <2>5, <2>6 DEF TurnsInto
<1>6. CASE request' = Erasing(q, k)
  <2>1. PICK a : a = [o EXCEPT !.pc = "erase"]
    OBVIOUS
  <2>2. a \in RequestType /\ a.pc = "erase" /\ a.at = o.at /\ a.held = o.held
        /\ a.bytes = o.bytes /\ a.todo = o.todo
    BY <2>1 DEF RequestType
  <2>3. PICK r : r = [a EXCEPT !.held = @ \ {k}]
    OBVIOUS
  <2>4. r \in RequestType /\ r.pc = a.pc /\ r.at = a.at /\ r.held = a.held \ {k}
        /\ r.bytes = a.bytes /\ r.todo = a.todo
    BY <2>2, <2>3 DEF RequestType
  <2>5. request' = [request EXCEPT ![q] = r]
    <3>1. request' = [request EXCEPT ![q].pc = "erase", ![q].held = @ \ {k}]
      BY <1>6 DEF Erasing
    <3>2. r = [[request[q] EXCEPT !.pc = "erase"] EXCEPT !.held = @ \ {k}]
      BY <1>1, <2>1, <2>3
    <3>3. request = [p \in Media |-> request[p]]
      BY IsRequest
    <3>4. [request EXCEPT ![q].pc = "erase", ![q].held = @ \ {k}]
              = [request EXCEPT ![q] = [[request[q] EXCEPT !.pc = "erase"] EXCEPT !.held = @ \ {k}]]
      BY ONLY <3>3, q \in Media
    <3> QED
      BY ONLY <3>1, <3>2, <3>4
  <2>6. RequestSound(q, r)
    BY <1>1, <1>2, <1>3, <1>4, <2>2, <2>4 DEF RequestSound
  <2> QED
    BY <1>1, <1>2, <2>2, <2>4, <2>5, <2>6 DEF TurnsInto
<1> QED
  BY <1>1, <1>2, <1>5, <1>6

LEMMA FreeSlotKeeps ==
    ASSUME ProxyInv, NEW q \in Media, FreeSlot(q)
    PROVE  ProxyInv'
<1>1. PICK o \in RequestType : o = request[q]
  BY IsRequest
<1>2. o.pc = "release" /\ o.todo # <<>> /\ UNCHANGED <<online, gauge, unbilled>>
  BY <1>1 DEF FreeSlot
<1>3. PICK k, s : k = Head(o.todo) /\ s = Store(o.at)
  OBVIOUS
<1>4. k \in Keys /\ k \in Elems(o.todo) /\ s \in Stores
  BY <1>1, <1>2, <1>3, FirstToDo, CountsSomewhere DEF At
<1>5. PICK r : /\ TurnsInto(q, r) /\ r.pc \in {"release", "erase"} /\ r.at = o.at
               /\ r.held = o.held \ {k}
  <2>1. request' \in {Given(q, k), Erasing(q, k)}
    BY <1>1, <1>3 DEF FreeSlot, Erasing
  <2> QED
    BY <1>1, <1>2, <1>3, <2>1, GivenTurns
<1>6. /\ \A t \in Stores, j \in Keys : j # k \/ t # s => (HoldsAt(r, t, j) <=> HoldsAt(request[q], t, j))
      /\ \A n, j : ~PassedAt(r, n, j)
      /\ Share(r, s, k) = 0 /\ Share(request[q], s, k) = IF k \in o.held THEN 1 ELSE 0
  BY <1>1, <1>3, <1>5 DEF HoldsAt, PassedAt, Share
<1>7. PICK c \in [Stores -> [Keys -> Int]] : c = count
  BY DEF ProxyInv, CounterTypes
<1>8. PICK l \in [Stores -> [Keys -> Nat]] : l = lost
  BY DEF ProxyInv, CounterTypes
<1>9. c[s][k] \in Int /\ l[s][k] \in Nat
  BY <1>4
<1>10. TallyKept
  BY FailureCounts DEF FreeSlot
<1>11. CASE s = "redis" /\ count' = [c EXCEPT ![s][k] = @ - 1] /\ UNCHANGED <<lapsed, lost>>
  <2>1. Touches(q, r, s, k) /\ lost' \in [Stores -> [Keys -> Nat]]
        /\ count' \in [Stores -> [Keys -> Int]]
    BY <1>4, <1>6, <1>7, <1>8, <1>9, <1>11 DEF Touches
  <2>2. count'[s][k] = c[s][k] - 1 /\ lost'[s][k] = l[s][k]
    BY <1>4, <1>7, <1>8, <1>11
  <2>3. CountersExact'
    <3>1. count'[s][k] - lost'[s][k] - Share(r, s, k)
              <= count[s][k] - lost[s][k] - Share(request[q], s, k)
      BY <1>6, <1>7, <1>8, <1>9, <2>2
    <3> QED
      BY <1>4, <1>5, <2>1, <3>1, CountsFollow
  <2>4. MemoryExact'
    BY <1>4, <1>5, <1>6, <1>10, <1>11, <2>1, RedisSpares DEF TallyKept
  <2>5. lapsed' \in [Nodes -> SUBSET Keys]
    BY <1>11 DEF ProxyInv, CounterTypes
  <2> QED
    BY <1>1, <1>2, <1>5, <1>10, <2>1, <2>3, <2>4, <2>5, CounterKeeps
<1>12. CASE s # "redis" /\ count' = [c EXCEPT ![s][k] = InMemory(s, k)] /\ UNCHANGED <<lost, tally>>
            /\ lapsed' = IF count'[s][k] = 0 THEN [lapsed EXCEPT ![s] = @ \ {k}] ELSE lapsed
  <2>1. InMemory(s, k) = IF c[s][k] = 0 THEN 0 ELSE c[s][k] - 1
    BY <1>7 DEF InMemory
  <2>2. InMemory(s, k) \in Int
    BY <1>9, <2>1
  <2>3. /\ count' \in [Stores -> [Keys -> Int]] /\ lost' \in [Stores -> [Keys -> Nat]]
        /\ count'[s][k] = InMemory(s, k) /\ lost' = l
    BY <1>4, <1>7, <1>8, <1>12, <2>2
  <2>4. Touches(q, r, s, k)
    BY <1>4, <1>6, <1>7, <1>8, <1>12, <2>2, <2>3 DEF Touches
  <2>5. CountersExact'
    <3>1. \/ count'[s][k] - lost'[s][k] - Share(r, s, k)
                 <= count[s][k] - lost[s][k] - Share(request[q], s, k)
          \/ count'[s][k] <= Share(r, s, k)
      BY <1>6, <1>7, <1>8, <1>9, <2>1, <2>3
    <3> QED
      BY <1>4, <1>5, <2>4, <3>1, CountsFollow
  <2>6. lapsed' \in [Nodes -> SUBSET Keys] /\ \A n \in Nodes : lapsed[n] = {} => lapsed'[n] = {}
    <3>1. PICK p \in [Nodes -> SUBSET Keys] : p = lapsed
      BY DEF ProxyInv, CounterTypes
    <3> QED
      BY <1>12, <3>1
  <2>7. tally.lapses = 0 /\ s \in Nodes \ online =>
           \/ Share(r, s, k) - Share(request[q], s, k) <= count'[s][k] - count[s][k]
           \/ ~Capped(k) /\ 0 <= count'[s][k]
    <3> SUFFICES ASSUME tally.lapses = 0, s \in Nodes \ online
                 PROVE  \/ k \in o.held /\ 0 - 1 <= count'[s][k] - c[s][k]
                        \/ ~Capped(k) /\ 0 <= count'[s][k]
      BY <1>6, <1>7
    <3>1. Cardinality(Reserved(s, k)) <= c[s][k] /\ Cardinality(Reserved(s, k)) \in Nat
      <4>1. Reserved(s, k) \in SUBSET Media
        BY DEF Reserved
      <4>2. Cardinality(Reserved(s, k)) <= count[s][k]
        BY <1>4 DEF ProxyInv, MemoryExact
      <4> QED
        BY <1>7, <4>1, <4>2, MediaCount
    <3>2. k \in o.held <=> Capped(k)
      BY <1>1, <1>2, <1>4, IsRequest DEF RequestSound, CappedKeys
    <3>3. 0 <= c[s][k]
      BY <1>9, <3>1
    <3>4. count'[s][k] = IF c[s][k] = 0 THEN 0 ELSE c[s][k] - 1
      BY <2>1, <2>3
    <3>5. 0 - 1 <= count'[s][k] - c[s][k] /\ 0 <= count'[s][k]
      BY <1>9, <3>3, <3>4
    <3> QED
      BY <3>2, <3>5
  <2>8. MemoryExact'
    <3>1. tally'.lapses = tally.lapses
      BY <1>12
    <3> QED
      BY <1>4, <1>5, <1>6, <2>4, <2>6, <2>7, <3>1, MemoryFollows
  <2> QED
    BY <1>1, <1>2, <1>5, <1>10, <2>3, <2>5, <2>6, <2>8, CounterKeeps
<1>13. CASE s = "redis" /\ lost' = (IF k \in o.held THEN [l EXCEPT ![s][k] = @ + 1] ELSE l)
            /\ UNCHANGED <<count, lapsed>>
  <2>1. l[s][k] + 1 \in Nat
    BY <1>9
  <2>2. /\ count' \in [Stores -> [Keys -> Int]] /\ lost' \in [Stores -> [Keys -> Nat]]
        /\ lost'[s][k] = (IF k \in o.held THEN l[s][k] + 1 ELSE l[s][k]) /\ count' = c
    BY <1>4, <1>7, <1>8, <1>13, <2>1
  <2>3. Touches(q, r, s, k)
    BY <1>4, <1>6, <1>7, <1>8, <1>13, <2>2 DEF Touches
  <2>4. CountersExact'
    <3>1. count'[s][k] - lost'[s][k] - Share(r, s, k)
              <= count[s][k] - lost[s][k] - Share(request[q], s, k)
      BY <1>6, <1>7, <1>8, <1>9, <2>2
    <3> QED
      BY <1>4, <1>5, <2>3, <3>1, CountsFollow
  <2>5. MemoryExact'
    BY <1>4, <1>5, <1>6, <1>10, <1>13, <2>3, RedisSpares DEF TallyKept
  <2>6. lapsed' \in [Nodes -> SUBSET Keys]
    BY <1>13 DEF ProxyInv, CounterTypes
  <2> QED
    BY <1>1, <1>2, <1>5, <1>10, <2>2, <2>4, <2>5, <2>6, CounterKeeps
<1> QED
  BY <1>1, <1>3, <1>7, <1>8, <1>11, <1>12, <1>13 DEF FreeSlot, At

LEMMA EraseKeeps ==
    ASSUME ProxyInv, NEW q \in Media, Erase(q)
    PROVE  ProxyInv'
<1>1. PICK o \in RequestType : o = request[q]
  BY IsRequest
<1>2. o.pc = "erase" /\ o.todo # <<>> /\ UNCHANGED <<online, lapsed, lost, gauge, unbilled>>
  BY <1>1, IsRequest DEF Erase, RequestSound
<1>3. PICK k : k = Head(o.todo)
  OBVIOUS
<1>4. /\ k \in Keys /\ Tail(o.todo) \in Seq(Keys) /\ OnceEach(Tail(o.todo))
      /\ Elems(Tail(o.todo)) = Elems(o.todo) \ {k}
  BY <1>1, <1>2, <1>3, FirstToDo
<1>5. /\ RequestSound(q, o) /\ o.held = (Elems(o.todo) \ {k}) \cap CappedKeys
      /\ o.bytes = 0 /\ o.at # "nowhere"
  BY <1>1, <1>2, <1>3, IsRequest DEF RequestSound
<1>6. PICK a : a = [o EXCEPT !.pc = "release"]
  OBVIOUS
<1>7. a \in RequestType /\ a.pc = "release" /\ a.at = o.at /\ a.held = o.held
      /\ a.bytes = o.bytes /\ a.todo = o.todo
  BY <1>6 DEF RequestType
<1>8. PICK r : r = [a EXCEPT !.todo = Tail(@)]
  OBVIOUS
<1>9. r \in RequestType /\ r.pc = a.pc /\ r.at = a.at /\ r.held = a.held /\ r.bytes = a.bytes
      /\ r.todo = Tail(o.todo)
  BY <1>4, <1>7, <1>8 DEF RequestType
<1>10. request' = [request EXCEPT ![q] = r]
  BY <1>1, <1>6, <1>8, IsRequest DEF Erase
<1>11. RequestSound(q, r)
  BY <1>4, <1>5, <1>7, <1>9 DEF RequestSound
<1>12. TurnsInto(q, r) /\ \A t, j : (HoldsAt(r, t, j) <=> HoldsAt(request[q], t, j)) /\ ~PassedAt(r, t, j)
  BY <1>1, <1>2, <1>7, <1>9, <1>10, <1>11 DEF TurnsInto, HoldsAt, PassedAt
<1>13. TallyKept
  BY FailureCounts DEF Erase
<1>14. PICK c \in [Stores -> [Keys -> Int]] : c = count
  BY DEF ProxyInv, CounterTypes
<1>15. /\ lost' \in [Stores -> [Keys -> Nat]] /\ lost' = lost
       /\ lapsed' \in [Nodes -> SUBSET Keys] /\ lapsed' = lapsed
  BY <1>2 DEF ProxyInv, CounterTypes
<1>16. "redis" \in Stores
  BY DEF Stores
<1>17. /\ count' \in [Stores -> [Keys -> Int]]
       /\ \A t \in Stores, j \in Keys : j # k \/ t # "redis" => count'[t][j] = count[t][j]
       /\ count'["redis"][k] <= 0 \/ count'["redis"][k] = count["redis"][k]
  <2>1. CASE count' = [c EXCEPT !["redis"][k] = 0]
    BY <1>4, <1>14, <1>16, <2>1
  <2>2. CASE count' = c
    BY <1>14, <2>2
  <2> QED
    BY <1>1, <1>3, <1>14, <2>1, <2>2 DEF Erase
<1>18. /\ Touches(q, r, "redis", k) /\ Share(r, "redis", k) = Share(request[q], "redis", k)
       /\ Share(r, "redis", k) \in Nat
  BY <1>12, <1>15, <1>17 DEF Touches, Share
<1>19. CountersExact'
  <2>1. count["redis"][k] \in Int /\ lost["redis"][k] \in Nat
    BY <1>4, <1>14, <1>15, <1>16
  <2>2. \/ count'["redis"][k] - lost'["redis"][k] - Share(r, "redis", k)
               <= count["redis"][k] - lost["redis"][k] - Share(request[q], "redis", k)
        \/ count'["redis"][k] <= Share(r, "redis", k)
    <3>1. CASE count'["redis"][k] <= 0
      <4>1. count'["redis"][k] \in Int
        BY <1>4, <1>16, <1>17
      <4> QED
        BY <1>18, <3>1, <4>1
    <3>2. CASE count'["redis"][k] = count["redis"][k]
      BY <1>15, <1>18, <2>1, <3>2
    <3> QED
      BY <1>17, <3>1, <3>2
  <2> QED
    BY <1>4, <1>12, <1>16, <1>18, <2>2, CountsFollow
<1>20. MemoryExact'
  BY <1>4, <1>12, <1>13, <1>15, <1>18, RedisSpares DEF TallyKept
<1> QED
  BY <1>1, <1>2, <1>7, <1>9, <1>12, <1>13, <1>15, <1>17, <1>19, <1>20, CounterKeeps

(* Streams that open, flow and close.                                      *)
Opens(r, n) == IF OpenAt(r, n) THEN 1 ELSE 0
BytesIn(r, n) == IF OpenAt(r, n) THEN r.bytes ELSE 0

LEMMA OpenCount ==
    ASSUME RequestsSound, NEW q \in Media, NEW r, TurnsInto(q, r), NEW n
    PROVE  /\ Cardinality(Open(n)) \in Nat /\ Cardinality(Open(n)') \in Nat
           /\ Cardinality(Open(n)') = Cardinality(Open(n)) + Opens(r, n) - Opens(request[q], n)
<1>1. PICK R, S : R = Open(n) /\ S = Open(n)'
  OBVIOUS
<1>2. /\ R \in SUBSET Media /\ S \in SUBSET Media /\ \A p \in Media \ {q} : p \in S <=> p \in R
      /\ q \in S <=> OpenAt(r, n)
      /\ q \in R <=> OpenAt(request[q], n)
  BY <1>1, OpenTurns
<1>3. /\ Cardinality(R) \in Nat /\ Cardinality(S) \in Nat
      /\ (q \in S <=> q \in R) => Cardinality(S) = Cardinality(R)
      /\ q \in S /\ q \notin R => Cardinality(S) = Cardinality(R) + 1
      /\ q \notin S /\ q \in R => Cardinality(S) = Cardinality(R) - 1
  BY <1>2, CountTurns
<1>4. Cardinality(S) = Cardinality(R) + Opens(r, n) - Opens(request[q], n)
  BY <1>2, <1>3 DEF Opens
<1> QED
  BY <1>1, <1>3, <1>4

(* The bytes of one request, and those of the others.                      *)
Chunks(q, b) == {q} \X (1..b)

LEMMA BytesApart ==
    ASSUME NEW U, IsFiniteSet(U), NEW V, NEW q, NEW b \in Nat,
           U = V \cup Chunks(q, b), \A u \in V : u[1] # q
    PROVE  IsFiniteSet(V) /\ Cardinality(V) \in Nat /\ Cardinality(U) = Cardinality(V) + b
<1>1. PICK W : W = {q} \X (1..b)
  OBVIOUS
<1>2. U = V \cup W
  BY <1>1 DEF Chunks
<1>3. IsFiniteSet(W) /\ Cardinality(W) = b
  BY <1>1, BytesOfOne
<1>4. IsFiniteSet(V) /\ Cardinality(V) \in Nat
  <2>1. V \in SUBSET U
    OBVIOUS
  <2> QED
    BY <2>1, FS_Subset, FS_CardinalityType
<1>5. V \cap W = {}
  BY <1>1
<1>6. Cardinality(V \cap W) = 0
  BY <1>5, FS_EmptySet
<1>7. Cardinality(V \cup W) = Cardinality(V) + Cardinality(W) - Cardinality(V \cap W)
  BY <1>3, <1>4, FS_Union
<1>8. Cardinality(U) = Cardinality(V \cup W)
  BY <1>2
<1>9. Cardinality(U) = Cardinality(V) + b
  BY <1>3, <1>4, <1>6, <1>7, <1>8
<1> QED
  BY <1>4, <1>9

LEMMA BytesCount ==
    ASSUME RequestsSound, NEW q \in Media, NEW r, TurnsInto(q, r), NEW n
    PROVE  /\ Cardinality(Unbilled(n)) \in Nat /\ Cardinality(Unbilled(n)') \in Nat
           /\ Cardinality(Unbilled(n)') = Cardinality(Unbilled(n)) + BytesIn(r, n) - BytesIn(request[q], n)
<1>1. PICK U, T : U = Unbilled(n) /\ T = Unbilled(n)'
  OBVIOUS
<1>2. PICK O, P : O = Open(n) /\ P = Open(n)'
  OBVIOUS
<1>3. PICK V : V = {u \in U : u[1] # q}
  OBVIOUS
<1>4. /\ O \in SUBSET Media /\ P \in SUBSET Media /\ \A p \in Media \ {q} : p \in P <=> p \in O
      /\ q \in P <=> OpenAt(r, n)
      /\ q \in O <=> OpenAt(request[q], n)
  BY <1>2, OpenTurns
<1>5. request'[q] = r /\ \A p \in Media \ {q} : request'[p] = request[p]
  BY RequestTurns
<1>6. U = {u \in O \X (1..MaxStreamBytes) : u[2] <= request[u[1]].bytes}
  BY <1>1, <1>2 DEF Unbilled
<1>7. T = {u \in P \X (1..MaxStreamBytes) : u[2] <= request'[u[1]].bytes}
  BY <1>1, <1>2 DEF Unbilled
<1>8. request[q].bytes \in 0..MaxStreamBytes /\ r.bytes \in 0..MaxStreamBytes
  BY DEF RequestsSound, RequestType, TurnsInto
<1>9. V = {u \in T : u[1] # q}
  <2>1. \A u : u \in U /\ u[1] # q => u \in T
    BY <1>4, <1>5, <1>6, <1>7
  <2>2. \A u : u \in T /\ u[1] # q => u \in U
    BY <1>4, <1>5, <1>6, <1>7
  <2> QED
    BY <1>3, <2>1, <2>2
<1>10. U = V \cup ({q} \X (1..BytesIn(request[q], n)))
  <2>1. ASSUME NEW u \in U, u[1] = q PROVE u \in {q} \X (1..BytesIn(request[q], n))
    BY <1>4, <1>6, <1>8, <2>1 DEF BytesIn
  <2>2. ASSUME NEW u \in {q} \X (1..BytesIn(request[q], n)) PROVE u \in U
    BY <1>4, <1>6, <1>8, <2>2, Limits DEF BytesIn
  <2> QED
    BY <1>3, <2>1, <2>2
<1>11. T = V \cup ({q} \X (1..BytesIn(r, n)))
  <2>1. ASSUME NEW u \in T, u[1] = q PROVE u \in {q} \X (1..BytesIn(r, n))
    BY <1>4, <1>5, <1>7, <1>8, <2>1 DEF BytesIn
  <2>2. ASSUME NEW u \in {q} \X (1..BytesIn(r, n)) PROVE u \in T
    BY <1>4, <1>5, <1>7, <1>8, <2>2, Limits DEF BytesIn
  <2> QED
    BY <1>9, <2>1, <2>2
<1>12. BytesIn(request[q], n) \in Nat /\ BytesIn(r, n) \in Nat
  BY <1>8, Limits DEF BytesIn
<1>13. IsFiniteSet(U) /\ \A u \in V : u[1] # q
  BY <1>1, <1>3, UnbilledCount
<1>14. /\ IsFiniteSet(V) /\ Cardinality(V) \in Nat
       /\ Cardinality(U) = Cardinality(V) + BytesIn(request[q], n)
  <2>1. PICK b : b = BytesIn(request[q], n)
    OBVIOUS
  <2>2. b \in Nat /\ U = V \cup Chunks(q, b)
    BY <1>10, <1>12, <2>1 DEF Chunks
  <2>3. IsFiniteSet(V) /\ Cardinality(V) \in Nat /\ Cardinality(U) = Cardinality(V) + b
    BY <1>13, <2>2, BytesApart
  <2> QED
    BY <2>1, <2>3
<1>15. IsFiniteSet(T)
  <2>1. IsFiniteSet({q} \X (1..BytesIn(r, n)))
    BY <1>12, BytesOfOne
  <2> QED
    BY <1>11, <1>14, <2>1, FS_Union
<1>16. Cardinality(T) = Cardinality(V) + BytesIn(r, n)
  <2>1. PICK b : b = BytesIn(r, n)
    OBVIOUS
  <2>2. b \in Nat /\ T = V \cup Chunks(q, b)
    BY <1>11, <1>12, <2>1 DEF Chunks
  <2>3. Cardinality(T) = Cardinality(V) + b
    <3>1. \A u \in V : u[1] # q
      BY <1>13
    <3> QED
      BY <1>15, <2>2, <3>1, BytesApart
  <2> QED
    BY <2>1, <2>3
<1>17. Cardinality(T) = Cardinality(U) + BytesIn(r, n) - BytesIn(request[q], n)
  BY <1>12, <1>14, <1>16
<1>18. Cardinality(U) \in Nat /\ Cardinality(T) \in Nat
  BY <1>12, <1>14, <1>16
<1> QED
  BY <1>1, <1>17, <1>18

(* The gauge of streams and the bytes follow one request.                  *)
LEMMA GaugesFollow ==
    ASSUME ProxyInv, NEW q \in Media, NEW r, TurnsInto(q, r),
           \A n \in Nodes :
               /\ gauge'[n] = gauge[n] + Opens(r, n) - Opens(request[q], n)
               /\ unbilled'[n] = unbilled[n] + BytesIn(r, n) - BytesIn(request[q], n)
    PROVE  GaugesExact'
<1>1. RequestsSound
  BY DEF ProxyInv
<1> SUFFICES ASSUME NEW n \in Nodes
             PROVE  gauge'[n] = Cardinality(Open(n)') /\ unbilled'[n] = Cardinality(Unbilled(n)')
  BY DEF GaugesExact
<1>2. gauge[n] = Cardinality(Open(n)) /\ unbilled[n] = Cardinality(Unbilled(n))
  BY DEF ProxyInv, GaugesExact
<1>3. gauge'[n] = Cardinality(Open(n)')
  BY <1>1, <1>2, OpenCount
<1>4. unbilled'[n] = Cardinality(Unbilled(n)')
  BY <1>1, <1>2, BytesCount
<1> QED
  BY <1>3, <1>4

(* The replica of an open stream.                                          *)
LEMMA OpenSomewhere ==
    ASSUME ProxyInv, NEW q \in Media, request[q].pc = "open"
    PROVE  /\ At(q) \in Nodes /\ gauge[At(q)] \in Nat /\ gauge[At(q)] > 0
<1>1. At(q) \in Nodes
  BY CountsSomewhere
<1>2. q \in Open(At(q)) /\ Open(At(q)) \in SUBSET Media
  BY DEF Open
<1>3. Cardinality(Open(At(q))) \in Nat /\ Cardinality(Open(At(q))) # 0
  BY <1>2, MediaCount, FS_EmptySet
<1> QED
  BY <1>1, <1>3 DEF ProxyInv, GaugesExact

LEMMA AdmitKeeps ==
    ASSUME ProxyInv, NEW q \in Media, Admit(q)
    PROVE  ProxyInv'
<1>1. PICK o \in RequestType : o = request[q]
  BY IsRequest
<1>2. o.pc = "reserve" /\ o.todo = <<>> /\ UNCHANGED <<online, counterVars, unbilled, tally>>
  BY <1>1 DEF Admit
<1>3. /\ RequestSound(q, o) /\ CappedKeys \cap KeysOf(q) = o.held /\ o.bytes = 0 /\ o.at # "nowhere"
  <2>1. Elems(<<>>) = {}
    BY DEF Elems
  <2>2. RequestSound(q, o)
    BY <1>1, IsRequest
  <2> QED
    BY <1>2, <2>1, <2>2 DEF RequestSound, ReservesSound
<1>4. PICK r : r = [o EXCEPT !.pc = "open"]
  OBVIOUS
<1>5. r \in RequestType /\ r.pc = "open" /\ r.at = o.at /\ r.held = o.held
      /\ r.bytes = o.bytes /\ r.todo = o.todo
  BY <1>4 DEF RequestType
<1>6. request' = [request EXCEPT ![q] = r]
  BY <1>1, <1>4 DEF Admit, Goes
<1>7. TurnsInto(q, r)
  BY <1>2, <1>3, <1>5, <1>6 DEF TurnsInto, RequestSound
<1>8. Quiet(q, r) /\ TallyKept
  <2>1. TallyKept
    BY <1>2, FailureCounts
  <2> QED
    BY <1>1, <1>2, <1>5, <1>7, <2>1 DEF Quiet, PassedAt, HoldsAt, TallyKept
<1>9. o.at \in Nodes
  BY <1>1, <1>2, CountsSomewhere DEF At
<1>10. PICK g \in [Nodes -> Nat] : g = gauge
  BY DEF ProxyInv, CounterTypes
<1>11. g[o.at] + 1 \in Nat /\ gauge' = [g EXCEPT ![o.at] = @ + 1]
  BY <1>1, <1>9, <1>10 DEF Admit, At
<1>12. gauge' \in [Nodes -> Nat] /\ \A n \in Nodes : gauge'[n] = IF n = o.at THEN g[n] + 1 ELSE g[n]
  BY <1>9, <1>11
<1>13. CounterTypes'
  BY <1>2, <1>8, <1>12 DEF ProxyInv, CounterTypes, TallyKept, counterVars
<1>14. GaugesExact'
  <2> SUFFICES ASSUME NEW n \in Nodes
               PROVE  /\ gauge'[n] = gauge[n] + Opens(r, n) - Opens(request[q], n)
                      /\ unbilled'[n] = unbilled[n] + BytesIn(r, n) - BytesIn(request[q], n)
    BY <1>7, GaugesFollow
  <2>1. /\ Opens(request[q], n) = 0 /\ BytesIn(request[q], n) = 0 /\ BytesIn(r, n) = 0
        /\ Opens(r, n) = IF n = o.at THEN 1 ELSE 0
    BY <1>1, <1>2, <1>3, <1>5 DEF Opens, BytesIn, OpenAt
  <2>2. g[n] \in Nat /\ unbilled[n] \in Int /\ unbilled' = unbilled
    BY <1>2 DEF ProxyInv, CounterTypes
  <2> QED
    BY <1>10, <1>12, <2>1, <2>2
<1> QED
  BY <1>8, <1>13, <1>14, QuietCounts DEF ProxyInv

(* What a step must show that concerns an open stream.                     *)
LEMMA StreamKeeps ==
    ASSUME ProxyInv, NEW q \in Media, NEW r, TurnsInto(q, r), request[q].pc = "open",
           r.at = request[q].at, r.held = request[q].held, r.pc \in {"open", "release"},
           UNCHANGED <<online, counterVars, tally>>,
           NEW d \in {0, 1}, NEW b \in Int, d = Opens(request[q], At(q)) - Opens(r, At(q)),
           b = r.bytes - request[q].bytes, r.pc = "release" => r.bytes = 0,
           gauge' = [gauge EXCEPT ![At(q)] = @ - d],
           unbilled' = [unbilled EXCEPT ![At(q)] = @ + b]
    PROVE  ProxyInv'
<1>1. PICK m \in Nodes : m = At(q)
  BY OpenSomewhere
<1>2. PICK g \in [Nodes -> Nat] : g = gauge
  BY DEF ProxyInv, CounterTypes
<1>3. PICK u \in [Nodes -> Int] : u = unbilled
  BY DEF ProxyInv, CounterTypes
<1>4. g[m] - d \in Nat /\ u[m] + b \in Int
  BY <1>1, <1>2, OpenSomewhere
<1>5. gauge' = [g EXCEPT ![m] = @ - d] /\ unbilled' = [u EXCEPT ![m] = @ + b]
  BY <1>1, <1>2, <1>3
<1>6. /\ gauge' \in [Nodes -> Nat] /\ unbilled' \in [Nodes -> Int]
      /\ \A n \in Nodes : /\ gauge'[n] = IF n = m THEN g[n] - d ELSE g[n]
                          /\ unbilled'[n] = IF n = m THEN u[n] + b ELSE u[n]
  <2>1. PICK v \in Nat : v = g[m] - d
    BY <1>4
  <2>2. PICK w \in Int : w = u[m] + b
    BY <1>4
  <2>3. gauge' = [g EXCEPT ![m] = v]
    BY <1>5, <2>1
  <2>4. unbilled' = [u EXCEPT ![m] = w]
    BY <1>5, <2>2
  <2>5. gauge' \in [Nodes -> Nat] /\ \A n \in Nodes : gauge'[n] = IF n = m THEN v ELSE g[n]
    BY <2>3
  <2>6. unbilled' \in [Nodes -> Int] /\ \A n \in Nodes : unbilled'[n] = IF n = m THEN w ELSE u[n]
    BY <2>4
  <2> QED
    BY <2>1, <2>2, <2>5, <2>6
<1>7. TallyKept
  BY FailureCounts
<1>8. CounterTypes'
  BY <1>6, <1>7 DEF ProxyInv, CounterTypes, TallyKept, counterVars
<1>9. Quiet(q, r)
  BY <1>7 DEF Quiet, PassedAt, HoldsAt, TallyKept
<1>10. GaugesExact'
  <2> SUFFICES ASSUME NEW n \in Nodes
               PROVE  /\ gauge'[n] = gauge[n] + Opens(r, n) - Opens(request[q], n)
                      /\ unbilled'[n] = unbilled[n] + BytesIn(r, n) - BytesIn(request[q], n)
    BY GaugesFollow
  <2>1. request[q].bytes \in Nat /\ r.bytes \in Nat
    BY IsRequest, Limits DEF TurnsInto, RequestType
  <2>2. r.at = m /\ request[q].at = m
    BY <1>1 DEF At
  <2>3. CASE n = m
    <3>1. /\ BytesIn(r, n) = r.bytes /\ BytesIn(request[q], n) = request[q].bytes
          /\ d = Opens(request[q], n) - Opens(r, n)
          /\ Opens(request[q], n) \in {0, 1} /\ Opens(r, n) \in {0, 1}
      BY <1>1, <2>2, <2>3 DEF BytesIn, Opens, OpenAt
    <3>2. gauge'[n] = g[n] - d /\ unbilled'[n] = u[n] + b /\ g[n] \in Nat /\ u[n] \in Int
      BY <1>6, <2>3
    <3> QED
      BY <1>2, <1>3, <2>1, <3>1, <3>2
  <2>4. CASE n # m
    <3>1. /\ BytesIn(r, n) = 0 /\ BytesIn(request[q], n) = 0
          /\ Opens(request[q], n) = 0 /\ Opens(r, n) = 0
      BY <2>2, <2>4 DEF BytesIn, Opens, OpenAt
    <3>2. gauge'[n] = g[n] /\ unbilled'[n] = u[n] /\ g[n] \in Nat /\ u[n] \in Int
      BY <1>6, <2>4
    <3> QED
      BY <1>2, <1>3, <3>1, <3>2
  <2> QED
    BY <2>3, <2>4
<1> QED
  BY <1>8, <1>9, <1>10, QuietCounts DEF ProxyInv

LEMMA ClosingKeeps ==
    ASSUME ProxyInv, NEW q \in Media, request[q].pc = "open",
           NEW relayed \in Nat, NEW recorded \in Nat, recorded = request[q].bytes + relayed,
           Closing(q, relayed, recorded), UNCHANGED <<online, counterVars, tally>>
    PROVE  ProxyInv'
<1>1. PICK o \in RequestType : o = request[q]
  BY IsRequest
<1>2. PICK keys : keys = KeysToRelease(q)
  OBVIOUS
<1>3. keys \in Seq(Keys) /\ OnceEach(keys) /\ Elems(keys) = KeysOf(q)
  BY <1>2, ReleaseHolds
<1>4. RequestSound(q, o) /\ o.held = CappedKeys \cap KeysOf(q) /\ o.at # "nowhere"
  BY <1>1, IsRequest DEF RequestSound
<1>5. PICK a : a = [o EXCEPT !.pc = "release"]
  OBVIOUS
<1>6. a \in RequestType /\ a.pc = "release" /\ a.at = o.at /\ a.held = o.held
  BY <1>5 DEF RequestType
<1>7. PICK c : c = [a EXCEPT !.bytes = 0]
  OBVIOUS
<1>8. 0 \in 0..MaxStreamBytes
  BY ProxyAssumption
<1>9. c \in RequestType /\ c.pc = a.pc /\ c.at = a.at /\ c.held = a.held /\ c.bytes = 0
  BY <1>6, <1>7, <1>8 DEF RequestType
<1>10. PICK r : r = [c EXCEPT !.todo = keys]
  OBVIOUS
<1>11. r \in RequestType /\ r.pc = c.pc /\ r.at = c.at /\ r.held = c.held /\ r.bytes = c.bytes
       /\ r.todo = keys
  BY <1>3, <1>9, <1>10 DEF RequestType
<1>12. request' = [request EXCEPT ![q] = r]
  <2>1. request = [p \in Media |-> request[p]]
    BY IsRequest
  <2>2. request' = [request EXCEPT ![q].pc = "release", ![q].bytes = 0, ![q].todo = keys]
    BY <1>2 DEF Closing
  <2>3. r = [[[request[q] EXCEPT !.pc = "release"] EXCEPT !.bytes = 0] EXCEPT !.todo = keys]
    BY <1>1, <1>5, <1>7, <1>10
  <2> QED
    BY <2>1, <2>2, <2>3
<1>13. RequestSound(q, r)
  BY <1>3, <1>4, <1>6, <1>9, <1>11 DEF RequestSound
<1>14. TurnsInto(q, r) /\ r.pc = "release" /\ r.at = request[q].at /\ r.held = request[q].held
       /\ r.bytes = 0
  BY <1>1, <1>6, <1>9, <1>11, <1>12, <1>13 DEF TurnsInto
<1>15. At(q) \in Nodes /\ gauge[At(q)] \in Nat /\ gauge[At(q)] > 0
  BY OpenSomewhere
<1>16. gauge' = [gauge EXCEPT ![At(q)] = @ - 1]
  BY <1>15 DEF Closing
<1>17. request[q].bytes \in Nat /\ r.bytes - request[q].bytes \in Int
  <2>1. request[q].bytes \in 0..MaxStreamBytes
    BY <1>1 DEF RequestType
  <2> QED
    BY <1>14, <2>1, Limits
<1>18. PICK b \in Int : b = r.bytes - request[q].bytes
  BY <1>17
<1>19. unbilled' = [unbilled EXCEPT ![At(q)] = @ + b]
  <2>1. unbilled' = [unbilled EXCEPT ![At(q)] = @ + relayed - recorded]
    BY DEF Closing, Billed
  <2>2. unbilled[At(q)] \in Int
    BY <1>15 DEF ProxyInv, CounterTypes
  <2>3. unbilled[At(q)] + relayed - recorded = unbilled[At(q)] + b
    BY <1>14, <1>17, <1>18, <2>2
  <2> QED
    BY <2>1, <2>3
<1>20. 1 \in {0, 1} /\ 1 = Opens(request[q], At(q)) - Opens(r, At(q))
  BY <1>14 DEF Opens, OpenAt, At
<1> QED
  BY <1>14, <1>16, <1>18, <1>19, <1>20, StreamKeeps

LEMMA CloseKeeps ==
    ASSUME ProxyInv, NEW q \in Media, Close(q)
    PROVE  ProxyInv'
<1>1. request[q].bytes \in Nat
  BY IsRequest, Limits DEF RequestType
<1>2. request[q].pc = "open" /\ Closing(q, 0, request[q].bytes)
      /\ UNCHANGED <<online, counterVars, tally>>
  BY DEF Close
<1>3. request[q].bytes = request[q].bytes + 0
  BY <1>1
<1> QED
  BY <1>1, <1>2, <1>3, ClosingKeeps

LEMMA ChunkKeeps ==
    ASSUME ProxyInv, NEW q \in Media, Chunk(q)
    PROVE  ProxyInv'
<1>1. PICK o \in RequestType : o = request[q]
  BY IsRequest
<1>2. o.pc = "open" /\ o.bytes \in 0..MaxStreamBytes /\ UNCHANGED <<online, counterVars, tally>>
  BY <1>1 DEF Chunk, RequestType
<1>3. CASE o.bytes < MaxStreamBytes
  <2>1. PICK r : r = [o EXCEPT !.bytes = @ + 1]
    OBVIOUS
  <2>2. o.bytes + 1 \in 0..MaxStreamBytes
    BY <1>2, <1>3, Limits
  <2>3. r \in RequestType /\ r.pc = o.pc /\ r.at = o.at /\ r.held = o.held
        /\ r.bytes = o.bytes + 1 /\ r.todo = o.todo
    BY <2>1, <2>2 DEF RequestType
  <2>4. request' = [request EXCEPT ![q] = r]
    BY <1>1, <1>3, <2>1 DEF Chunk
  <2>5. RequestSound(q, o)
    BY <1>1, IsRequest
  <2>6. TurnsInto(q, r)
    BY <1>2, <2>3, <2>4, <2>5 DEF TurnsInto, RequestSound
  <2>7. At(q) \in Nodes /\ gauge[At(q)] \in Nat /\ unbilled[At(q)] \in Int
    BY <1>1, <1>2, OpenSomewhere DEF ProxyInv, CounterTypes
  <2>8. gauge' = [gauge EXCEPT ![At(q)] = @ - 0]
    <3>1. gauge' = gauge /\ gauge = [n \in Nodes |-> gauge[n]]
      BY <1>1, <1>3 DEF Chunk, ProxyInv, CounterTypes
    <3> QED
      BY <2>7, <3>1
  <2>9. unbilled' = [unbilled EXCEPT ![At(q)] = @ + 1]
    <3>1. unbilled' = [unbilled EXCEPT ![At(q)] = @ + 1 - 0]
      BY <1>1, <1>3 DEF Chunk, Billed
    <3>2. unbilled[At(q)] + 1 - 0 = unbilled[At(q)] + 1
      BY <2>7
    <3> QED
      BY <3>1, <3>2
  <2>10. 0 = Opens(request[q], At(q)) - Opens(r, At(q)) /\ 1 = r.bytes - request[q].bytes
    BY <1>1, <1>2, <2>3, Limits DEF Opens, OpenAt, At
  <2>11. 0 \in {0, 1} /\ 1 \in Int /\ request[q].pc = "open" /\ r.at = request[q].at
         /\ r.held = request[q].held /\ r.pc \in {"open", "release"} /\ (r.pc = "release" => r.bytes = 0)
    BY <1>1, <1>2, <2>3
  <2> QED
    BY <1>2, <2>6, <2>8, <2>9, <2>10, <2>11, StreamKeeps
<1>4. CASE ~(o.bytes < MaxStreamBytes)
  <2>1. Closing(q, 1, request[q].bytes + 1) /\ request[q].bytes + 1 \in Nat
    BY <1>1, <1>2, <1>4 DEF Chunk
  <2> QED
    BY <1>1, <1>2, <2>1, ClosingKeeps
<1> QED
  BY <1>3, <1>4

----------------------------------------------------------------------------
(* What is not a step of one request.                                      *)
LEMMA RequestsStay ==
    ASSUME ProxyInv, UNCHANGED request
    PROVE  RequestsSound'
<1>1. \A q \in Media : RequestSound(q, request[q])
  BY DEF ProxyInv, RequestsSound
<1>2. \A q \in Media : RequestSound(q, request'[q])
  BY <1>1
<1>3. (\A q \in Media : RequestSound(q, request[q]))'
  BY <1>2 DEF RequestSound, ReservesSound, CappedKeys, Capped, Cap, Keys, KeysOf
<1>4. request' \in [Media -> RequestType]
  BY DEF ProxyInv, RequestsSound
<1> QED
  BY <1>3, <1>4 DEF RequestsSound

LEMMA StillKeeps ==
    ASSUME ProxyInv, TallyKept, UNCHANGED <<online, counterVars, gauge, unbilled, request>>
    PROVE  ProxyInv'
<1>1. RequestsSound'
  BY RequestsStay
<1>2. CounterTypes'
  BY DEF ProxyInv, CounterTypes, counterVars, TallyKept
<1>3. \A s, k : Reserved(s, k)' = Reserved(s, k) /\ Passed(s, k)' = Passed(s, k)
  BY DEF Reserved, Passed, PassedAt, HoldsAt, At, Store
<1>4. \A n : Open(n)' = Open(n) /\ Unbilled(n)' = Unbilled(n)
  BY DEF Open, Unbilled, At
<1>5. MemoryExact'
  BY <1>3 DEF ProxyInv, MemoryExact, counterVars, TallyKept, Capped, Cap, Keys
<1>6. CountersExact'
  BY <1>3 DEF ProxyInv, CountersExact, counterVars, Stores, Keys
<1>7. GaugesExact'
  BY <1>4 DEF ProxyInv, GaugesExact
<1> QED
  BY <1>1, <1>2, <1>5, <1>6, <1>7 DEF ProxyInv

LEMMA LapseKeeps ==
    ASSUME ProxyInv, NEW s \in Stores, NEW k \in Keys, Lapse(s, k)
    PROVE  ProxyInv'
<1>1. UNCHANGED <<online, lost, gauge, unbilled, request>>
  BY DEF Lapse
<1>2. PICK c \in [Stores -> [Keys -> Int]] : c = count
  BY DEF ProxyInv, CounterTypes
<1>3. PICK l \in [Nodes -> SUBSET Keys] : l = lapsed
  BY DEF ProxyInv, CounterTypes
<1>4. PICK t \in [lapses : Nat, failures : Nat] : t = tally
  BY DEF ProxyInv, CounterTypes
<1>5. tally' \in [lapses : Nat, failures : Nat] /\ tally'.lapses # 0
  <2>1. tally' = [t EXCEPT !["lapses"] = @ + 1]
    BY <1>4 DEF Lapse, Mishap
  <2> QED
    BY <1>4, <2>1
<1>6. /\ count' \in [Stores -> [Keys -> Int]] /\ lapsed' \in [Nodes -> SUBSET Keys]
      /\ \A m \in Stores, j \in Keys : count'[m][j] <= 0 \/ count'[m][j] = c[m][j]
  <2>1. CASE s = "redis" /\ count' = [c EXCEPT ![s][k] = 0] /\ UNCHANGED lapsed
    <3>1. count' \in [Stores -> [Keys -> Int]]
      BY <1>2, <2>1
    <3>2. \A m \in Stores, j \in Keys : count'[m][j] <= 0 \/ count'[m][j] = c[m][j]
      BY <1>2, <2>1
    <3> QED
      BY <1>3, <2>1, <3>1, <3>2
  <2>2. CASE s \in Nodes /\ lapsed' = [l EXCEPT ![s] = @ \cup {k}] /\ UNCHANGED count
    BY <1>2, <1>3, <2>2
  <2> QED
    BY <1>2, <1>3, <2>1, <2>2 DEF Lapse
<1>7. RequestsSound'
  BY <1>1, RequestsStay
<1>8. CounterTypes'
  BY <1>1, <1>5, <1>6 DEF ProxyInv, CounterTypes
<1>9. MemoryExact'
  BY <1>5 DEF MemoryExact
<1>10. CountersExact'
  <2> SUFFICES ASSUME NEW m \in Stores, NEW j \in Keys
               PROVE  count'[m][j] <= Cardinality(Reserved(m, j)') + lost'[m][j]
    BY DEF CountersExact, Stores, Keys
  <2>1. PICK R : R = Reserved(m, j)
    OBVIOUS
  <2>2. R = Reserved(m, j)' /\ R \in SUBSET Media
    BY <1>1, <2>1 DEF Reserved, At, Store
  <2>3. Cardinality(R) \in Nat /\ lost[m][j] \in Nat /\ c[m][j] \in Int /\ count'[m][j] \in Int
    BY <1>2, <1>6, <2>2, MediaCount DEF ProxyInv, CounterTypes
  <2>4. c[m][j] <= Cardinality(R) + lost[m][j]
    BY <1>2, <2>1 DEF ProxyInv, CountersExact
  <2>5. count'[m][j] <= Cardinality(R) + lost[m][j]
    <3>1. CASE count'[m][j] <= 0
      BY <2>3, <3>1
    <3>2. CASE count'[m][j] = c[m][j]
      BY <2>4, <3>2
    <3> QED
      BY <1>6, <3>1, <3>2
  <2> QED
    BY <1>1, <2>2, <2>5
<1>11. GaugesExact'
  <2>1. \A n : Open(n)' = Open(n)
    BY <1>1 DEF Open, At
  <2>2. \A n : Unbilled(n)' = Unbilled(n)
    BY <1>1, <2>1 DEF Unbilled
  <2> QED
    BY <1>1, <2>1, <2>2 DEF ProxyInv, GaugesExact
<1> QED
  BY <1>7, <1>8, <1>9, <1>10, <1>11 DEF ProxyInv

(* A crash takes the requests of one replica and its counters with them.   *)
LEMMA CrashTakes ==
    ASSUME ProxyInv, NEW n \in Nodes, Crash(n)
    PROVE  /\ RequestsSound' /\ CounterTypes' /\ GaugesExact'
           /\ \A q \in Media : /\ q \in Mine(n) => request'[q].held = {} /\ request'[q].pc = "over"
                                                   /\ request'[q].at = "nowhere"
                               /\ q \notin Mine(n) => request'[q] = request[q]
                               /\ At(q) = n /\ (request[q].held # {} \/ request[q].pc = "open") => q \in Mine(n)
<1>1. PICK r : r = [NewRequest EXCEPT !.pc = "over"]
  OBVIOUS
<1>2. r \in RequestType /\ r.pc = "over" /\ r.held = {} /\ r.bytes = 0 /\ r.todo = <<>>
      /\ r.at = "nowhere"
  BY <1>1, OverIsRequest
<1>3. \A q \in Media : RequestSound(q, r)
  <2>1. OnceEach(<<>>)
    BY DEF OnceEach
  <2> QED
    BY <1>2, <2>1 DEF RequestSound
<1>4. PICK M : M = Mine(n)
  OBVIOUS
<1>5. request' = [q \in Media |-> IF q \in M THEN r ELSE request[q]]
  BY <1>1, <1>4 DEF Crash
<1>6. \A q \in Media : request'[q] = IF q \in M THEN r ELSE request[q]
  BY <1>5
<1>7. request' \in [Media -> RequestType] /\ \A q \in Media : RequestSound(q, request'[q])
  BY <1>2, <1>3, <1>5, <1>6 DEF ProxyInv, RequestsSound
<1>8. RequestsSound'
  <2>1. \A q \in Media : RequestSound(q, request[q])'
    BY <1>7 DEF RequestSound, ReservesSound, CappedKeys, Capped, Cap, KeysOf, Keys
  <2> QED
    BY <1>7, <2>1 DEF RequestsSound
<1>9. \A q \in Media : At(q) = n /\ (request[q].held # {} \/ request[q].pc = "open") => q \in M
  BY <1>4, IsRequest DEF Mine, RequestSound
<1>10. UNCHANGED online /\ TallyKept
  BY FailureCounts DEF Crash
<1>11. lost' \in [Stores -> [Keys -> Nat]]
  <2>1. PICK l \in [Stores -> [Keys -> Nat]] : l = lost
    BY DEF ProxyInv, CounterTypes
  <2>2. PICK v : v = [k \in Keys |-> l["redis"][k] + Cardinality({q \in M : k \in request[q].held})]
    OBVIOUS
  <2>3. v \in [Keys -> Nat]
    <3> SUFFICES ASSUME NEW k \in Keys
                 PROVE  l["redis"][k] + Cardinality({q \in M : k \in request[q].held}) \in Nat
      BY <2>2
    <3>1. PICK T : T = {q \in M : k \in request[q].held}
      OBVIOUS
    <3>2. T \in SUBSET Media
      BY <1>4, <3>1 DEF Mine
    <3>3. Cardinality(T) \in Nat /\ l["redis"][k] \in Nat
      BY <3>2, MediaCount DEF Stores
    <3> QED
      BY <3>1, <3>3
  <2>4. lost' = IF n \notin online THEN l ELSE [l EXCEPT !["redis"] = v]
    BY <1>4, <2>1, <2>2 DEF Crash, Stores
  <2> QED
    BY <2>3, <2>4
<1>12. count' \in [Stores -> [Keys -> Int]] /\ lapsed' \in [Nodes -> SUBSET Keys]
  <2>1. PICK z : z = [k \in Keys |-> 0]
    OBVIOUS
  <2>2. z \in [Keys -> Int]
    BY <2>1
  <2>3. count' = [count EXCEPT ![n] = z] /\ lapsed' = [lapsed EXCEPT ![n] = {}]
    BY <2>1 DEF Crash
  <2> QED
    BY <2>2, <2>3 DEF ProxyInv, CounterTypes
<1>13. /\ gauge' \in [Nodes -> Nat] /\ unbilled' \in [Nodes -> Int]
       /\ \A m \in Nodes : /\ gauge'[m] = IF m = n THEN 0 ELSE gauge[m]
                           /\ unbilled'[m] = IF m = n THEN 0 ELSE unbilled[m]
  <2>1. gauge \in [Nodes -> Nat] /\ unbilled \in [Nodes -> Int]
    BY DEF ProxyInv, CounterTypes
  <2>2. gauge' = [gauge EXCEPT ![n] = 0] /\ unbilled' = [unbilled EXCEPT ![n] = 0]
    BY DEF Crash
  <2> QED
    BY <2>1, <2>2
<1>14. CounterTypes'
  BY <1>10, <1>11, <1>12, <1>13 DEF ProxyInv, CounterTypes, TallyKept
<1>15. GaugesExact'
  <2> SUFFICES ASSUME NEW m \in Nodes
               PROVE  gauge'[m] = Cardinality(Open(m)') /\ unbilled'[m] = Cardinality(Unbilled(m)')
    BY DEF GaugesExact
  <2>1. PICK O : O = Open(m)'
    OBVIOUS
  <2>2. PICK U : U = Unbilled(m)'
    OBVIOUS
  <2>3. O = {q \in Media : request'[q].at = m /\ request'[q].pc = "open"}
    BY <2>1 DEF Open, At
  <2>4. U = {u \in O \X (1..MaxStreamBytes) : u[2] <= request'[u[1]].bytes}
    BY <2>1, <2>2 DEF Unbilled
  <2>5. CASE m = n
    <3>1. O = {}
      BY <1>2, <1>6, <1>9, <2>3, <2>5 DEF At
    <3>2. U = {}
      BY <2>4, <3>1
    <3> QED
      BY <1>13, <2>1, <2>2, <2>5, <3>1, <3>2, FS_EmptySet
  <2>6. CASE m # n
    <3>1. \A q \in Media : request[q].at = m /\ request[q].pc = "open" => q \notin M
      BY <1>4, <2>6 DEF Mine, At
    <3>2. O = Open(m)
      BY <1>2, <1>6, <2>3, <3>1 DEF Open, At
    <3>3. \A q \in O : request'[q] = request[q]
      BY <1>6, <2>3, <3>1, <3>2 DEF Open, At
    <3>4. U = Unbilled(m)
      BY <2>4, <3>2, <3>3 DEF Unbilled
    <3> QED
      BY <1>13, <2>1, <2>2, <2>6, <3>2, <3>4 DEF ProxyInv, GaugesExact
  <2> QED
    BY <2>5, <2>6
<1> QED
  BY <1>2, <1>4, <1>6, <1>8, <1>9, <1>14, <1>15

LEMMA CrashCounts ==
    ASSUME ProxyInv, NEW n \in Nodes, Crash(n)
    PROVE  ProxyInv'
<1>1. PICK M : M = Mine(n) /\ M \in SUBSET Media
  BY DEF Mine
<1>2. \A q \in Media : /\ q \in M => request'[q].held = {} /\ request[q].at = n
                       /\ q \notin M => request'[q] = request[q]
                       /\ request[q].at = n /\ request[q].held # {} => q \in M
  BY <1>1, CrashTakes DEF Mine, At
<1>3. UNCHANGED online /\ tally'.lapses = tally.lapses
  BY FailureCounts DEF Crash, TallyKept
<1>4. \A m \in Stores : count'[m] = IF m = n THEN [k \in Keys |-> 0] ELSE count[m]
  BY DEF Crash, ProxyInv, CounterTypes
<1>5. \A m \in Nodes : lapsed'[m] = IF m = n THEN {} ELSE lapsed[m]
  BY DEF Crash, ProxyInv, CounterTypes
<1>6. n \in Stores /\ n # "redis" /\ "redis" \notin Nodes
  BY ProxyAssumption DEF Stores
<1>7. ASSUME NEW s \in Stores, NEW k \in Keys PROVE Reserved(s, k)' = Reserved(s, k) \ M
  <2>1. Reserved(s, k)' = {q \in Media : k \in request'[q].held /\ Store(request'[q].at) = s}
    BY <1>3 DEF Reserved, At, Store
  <2>2. Reserved(s, k) = {q \in Media : k \in request[q].held /\ Store(request[q].at) = s}
    BY DEF Reserved, At
  <2> QED
    BY <1>2, <2>1, <2>2
<1>8. ASSUME NEW s \in Stores, NEW k \in Keys, s # Store(n) PROVE Reserved(s, k)' = Reserved(s, k)
  <2>1. Reserved(s, k) \cap M = {}
    BY <1>2, <1>8 DEF Reserved, At
  <2> QED
    BY <1>7, <2>1
<1>9. MemoryExact'
  <2> SUFFICES ASSUME tally.lapses = 0, NEW m \in Nodes \ online, NEW k \in Keys
               PROVE  /\ lapsed'[m] = {} /\ Cardinality(Reserved(m, k)') <= count'[m][k]
                      /\ Capped(k) => Cardinality(Passed(m, k)') <= Cap(k)
    BY <1>3 DEF MemoryExact, Capped, Cap, Keys
  <2>1. /\ lapsed[m] = {} /\ Cardinality(Reserved(m, k)) <= count[m][k]
        /\ Capped(k) => Cardinality(Passed(m, k)) <= Cap(k)
    BY DEF ProxyInv, MemoryExact
  <2>2. m \in Stores /\ Cap(k) \in Nat
    BY ProxyAssumption DEF Stores, Cap
  <2>3. PICK P : P = Passed(m, k)'
    OBVIOUS
  <2>4. P \subseteq Reserved(m, k)'
    BY <1>3, <2>3 DEF Passed, PassedAt, HoldsAt, Reserved, At, Store
  <2>5. CASE m = n
    <3>1. Store(n) = n
      BY <2>5 DEF Store
    <3>2. Reserved(m, k) \subseteq M
      BY <1>2, <1>6, <2>5 DEF Reserved, At, Store
    <3>3. Reserved(m, k)' = {}
      BY <1>7, <2>2, <3>2
    <3>4. P = {}
      BY <2>4, <3>3
    <3>5. count'[m][k] = 0
      BY <1>4, <1>6, <2>5
    <3> QED
      BY <1>5, <2>2, <2>3, <2>5, <3>3, <3>4, <3>5, FS_EmptySet
  <2>6. CASE m # n
    <3>1. m # Store(n)
      BY <1>6, <2>6 DEF Store
    <3>2. Reserved(m, k)' = Reserved(m, k)
      BY <1>8, <2>2, <3>1
    <3>3. P \subseteq Passed(m, k)
      <4>1. \A q \in P : q \in Media \ M
        BY <1>2, <1>7, <2>2, <2>4 DEF Reserved
      <4> QED
        BY <1>2, <1>3, <2>3, <4>1 DEF Passed, PassedAt, HoldsAt, Store
    <3>4. Cardinality(P) <= Cardinality(Passed(m, k)) /\ Cardinality(P) \in Nat
          /\ Cardinality(Passed(m, k)) \in Nat
      <4>1. Passed(m, k) \in SUBSET Media /\ P \in SUBSET Media
        BY <3>3 DEF Passed
      <4> QED
        BY <3>3, <4>1, MediaCount, FS_Subset
    <3>5. count'[m][k] = count[m][k] /\ lapsed'[m] = lapsed[m]
      BY <1>4, <1>5, <2>2, <2>6
    <3> QED
      BY <2>1, <2>2, <2>3, <3>2, <3>4, <3>5
  <2> QED
    BY <2>5, <2>6
<1>10. CountersExact'
  <2> SUFFICES ASSUME NEW s \in Stores, NEW k \in Keys
               PROVE  count'[s][k] <= Cardinality(Reserved(s, k)') + lost'[s][k]
    BY DEF CountersExact, Stores, Keys
  <2>1. PICK R, S : R = Reserved(s, k) /\ S = Reserved(s, k)'
    OBVIOUS
  <2>2. R \in SUBSET Media /\ S = R \ M
    BY <1>7, <2>1 DEF Reserved
  <2>3. IsFiniteSet(R) /\ Cardinality(R) \in Nat /\ IsFiniteSet(S) /\ Cardinality(S) \in Nat
    BY <2>2, MediaCount
  <2>4. count[s][k] <= Cardinality(R) + lost[s][k]
    BY <2>1 DEF ProxyInv, CountersExact
  <2>5. /\ lost[s][k] \in Nat /\ lost'[s][k] \in Nat /\ count[s][k] \in Int
    BY CrashTakes DEF ProxyInv, CounterTypes
  <2>6. CASE s = n
    <3>1. count'[s][k] = 0
      BY <1>4, <1>6, <2>6
    <3> QED
      BY <2>1, <2>3, <2>5, <3>1
  <2>7. CASE s # n /\ s # Store(n)
    <3>1. S = R /\ count'[s][k] = count[s][k]
      BY <1>4, <1>8, <2>1, <2>7
    <3>2. lost'[s][k] = lost[s][k]
      <4>1. CASE n \notin online
        BY <4>1 DEF Crash
      <4>2. CASE n \in online
        <5>1. s # "redis"
          BY <2>7, <4>2 DEF Store
        <5> QED
          BY <4>2, <5>1 DEF Crash, ProxyInv, CounterTypes
      <4> QED
        BY <4>1, <4>2
    <3> QED
      BY <2>1, <2>4, <3>1, <3>2
  <2>8. CASE s # n /\ s = Store(n)
    <3>1. n \in online /\ s = "redis"
      BY <2>8 DEF Store
    <3>2. PICK T : T = {q \in M : k \in request[q].held}
      OBVIOUS
    <3>3. T = R \cap M
      BY <1>1, <1>2, <2>1, <2>8, <3>2 DEF Reserved, At
    <3>4. Cardinality(S) = Cardinality(R) - Cardinality(T) /\ Cardinality(T) \in Nat
      <4>1. IsFiniteSet(M)
        BY <1>1, MediaCount
      <4>2. Cardinality(R \ M) = Cardinality(R) - Cardinality(R \cap M)
        BY <2>3, <4>1, FS_Difference
      <4>3. T \in SUBSET Media
        BY <1>1, <3>2
      <4> QED
        BY <2>2, <3>3, <4>2, <4>3, MediaCount
    <3>5. lost'[s][k] = lost[s][k] + Cardinality(T)
      <4>1. PICK v : v = [j \in Keys |-> lost["redis"][j] + Cardinality({q \in M : j \in request[q].held})]
        OBVIOUS
      <4>2. lost' = [lost EXCEPT !["redis"] = v]
        BY <1>1, <3>1, <4>1 DEF Crash
      <4>3. lost'["redis"] = v
        BY <4>2, <3>1 DEF ProxyInv, CounterTypes
      <4>4. v[k] = lost["redis"][k] + Cardinality(T)
        BY <3>2, <4>1
      <4> QED
        BY <3>1, <4>3, <4>4
    <3>6. count'[s][k] = count[s][k]
      BY <1>4, <2>8
    <3> QED
      BY <2>1, <2>3, <2>4, <2>5, <3>4, <3>5, <3>6
  <2> QED
    BY <2>6, <2>7, <2>8
<1> QED
  BY <1>9, <1>10, CrashTakes DEF ProxyInv

LEMMA ProxyBegins == ProxyInit => ProxyInv
<1> SUFFICES ASSUME ProxyInit PROVE ProxyInv
  OBVIOUS
<1>1. \A q \in Media : request[q] = NewRequest
  BY DEF ProxyInit
<1>2. RequestsSound
  <2>1. OnceEach(<<>>)
    BY DEF OnceEach
  <2>2. \A q \in Media : RequestSound(q, NewRequest)
    BY <2>1, NewIsRequest DEF RequestSound
  <2> QED
    BY <1>1, <2>2, NewIsRequest DEF RequestsSound, ProxyInit
<1>3. CounterTypes
  BY DEF CounterTypes, ProxyInit
<1>4. \A s, k : Reserved(s, k) = {} /\ Passed(s, k) = {}
  BY <1>1, NewIsRequest DEF Reserved, Passed, PassedAt, HoldsAt
<1>5. \A n : Open(n) = {} /\ Unbilled(n) = {}
  <2>1. \A n : Open(n) = {}
    BY <1>1, NewIsRequest DEF Open
  <2> QED
    BY <2>1 DEF Unbilled
<1>6. Cardinality({}) = 0
  BY FS_EmptySet
<1>7. MemoryExact
  <2> SUFFICES ASSUME NEW n \in Nodes \ online, NEW k \in Keys
               PROVE  /\ lapsed[n] = {} /\ Cardinality(Reserved(n, k)) <= count[n][k]
                      /\ Capped(k) => Cardinality(Passed(n, k)) <= Cap(k)
    BY DEF MemoryExact
  <2>1. lapsed[n] = {} /\ count[n][k] = 0
    BY DEF ProxyInit, Stores
  <2>2. Reserved(n, k) = {} /\ Passed(n, k) = {} /\ Cap(k) \in Nat
    BY <1>4, CapIsNat
  <2> QED
    BY <1>6, <2>1, <2>2
<1>8. CountersExact
  <2> SUFFICES ASSUME NEW s \in Stores, NEW k \in Keys
               PROVE  count[s][k] <= Cardinality(Reserved(s, k)) + lost[s][k]
    BY DEF CountersExact
  <2>1. count[s][k] = 0 /\ lost[s][k] = 0
    BY DEF ProxyInit
  <2> QED
    BY <1>4, <1>6, <2>1
<1>9. GaugesExact
  BY <1>5, <1>6 DEF GaugesExact, ProxyInit
<1> QED
  BY <1>2, <1>3, <1>7, <1>8, <1>9 DEF ProxyInv

LEMMA AccountsKept ==
    ASSUME ProxyInv, [ProxyNext]_proxyVars
    PROVE  ProxyInv'
<1>1. CASE UNCHANGED proxyVars
  <2>1. TallyKept
    BY <1>1, FailureCounts DEF proxyVars
  <2> QED
    BY <1>1, <2>1, StillKeeps DEF proxyVars
<1>2. ASSUME NEW q \in Media, Steps(q) PROVE ProxyInv'
  BY <1>2, LookupCounts, TakeSlotKeeps, FetchKeeps, ReadManifestKeeps, ReadBufferKeeps, RewriteKeeps,
     RewrittenKeeps, StartStreamKeeps, ReserveKeeps, CheckKeeps, AdmitKeeps, FreeSlotKeeps,
     EraseKeeps, ReleasedKeeps DEF Steps
<1>3. ASSUME NEW q \in Media, Chunk(q) \/ Close(q) PROVE ProxyInv'
  BY <1>3, ChunkKeeps, CloseKeeps
<1>4. ASSUME NEW q \in Media, NEW n \in Nodes, NEW route \in Routes, NEW g \in Grants,
             Arrive(q, n, route, g)
      PROVE  ProxyInv'
  BY <1>4, ArriveKeeps
<1>5. ASSUME NEW n \in Nodes, Crash(n) PROVE ProxyInv'
  BY <1>5, CrashCounts
<1>6. ASSUME NEW n \in Nodes, NEW g \in Grants, Resolve(n, g) PROVE ProxyInv'
  <2>1. TallyKept
    BY <1>6, FailureCounts DEF Resolve, Issue
  <2> QED
    BY <1>6, <2>1, StillKeeps DEF Resolve
<1>7. ASSUME NEW g \in Grants, Expire(g) PROVE ProxyInv'
  <2>1. TallyKept
    BY <1>7, FailureCounts DEF Expire
  <2> QED
    BY <1>7, <2>1, StillKeeps DEF Expire
<1>8. ASSUME NEW s \in Stores, NEW k \in Keys, Lapse(s, k) PROVE ProxyInv'
  BY <1>8, LapseKeeps
<1> QED
  BY <1>1, <1>2, <1>3, <1>4, <1>5, <1>6, <1>7, <1>8 DEF ProxyNext

(* An open stream holds every key with a cap, so it has passed under each. *)
LEMMA CapsFollow == ProxyInv => MemoryCapHolds
<1> SUFFICES ASSUME ProxyInv, tally.lapses = 0, NEW n \in Nodes \ online, NEW k \in Keys, Capped(k)
             PROVE  Cardinality(OpenIn(n, k)) <= Cap(k)
  BY DEF MemoryCapHolds
<1>1. PICK P, O : P = Passed(n, k) /\ O = OpenIn(n, k)
  OBVIOUS
<1>2. Cardinality(P) <= Cap(k)
  BY <1>1 DEF ProxyInv, MemoryExact
<1>3. O \subseteq P
  <2> SUFFICES ASSUME NEW q \in Media, request[q].pc = "open", k \in KeysOf(q), Store(At(q)) = n
               PROVE  PassedAt(request[q], n, k)
    BY <1>1 DEF OpenIn, Passed
  <2>1. k \in request[q].held
    BY IsRequest DEF RequestSound, CappedKeys
  <2> QED
    BY <2>1 DEF PassedAt, HoldsAt, At
<1>4. P \in SUBSET Media
  BY <1>1 DEF Passed
<1>5. Cardinality(O) <= Cardinality(P) /\ Cardinality(O) \in Nat /\ Cardinality(P) \in Nat
  BY <1>3, <1>4, MediaCount, FS_Subset
<1>6. Cap(k) \in Nat
  BY CapIsNat
<1> QED
  BY <1>1, <1>2, <1>5, <1>6

(* Grants in the memory of a replica.                                      *)
MemoryInv == memory \in [Nodes -> SUBSET Grants] /\ GrantsBounded

LEMMA GrantsCount ==
    ASSUME NEW S \in SUBSET Grants
    PROVE  IsFiniteSet(S) /\ Cardinality(S) \in Nat
BY ProxyAssumption, FS_Subset, FS_CardinalityType

LEMMA IssueBounds ==
    ASSUME MemoryInv, NEW n, NEW g \in Grants, Issue(n, g)
    PROVE  MemoryInv'
<1>1. PICK m \in [Nodes -> SUBSET Grants] : m = memory
  BY DEF MemoryInv
<1>2. PICK e : e = expired
  OBVIOUS
<1>3. memory' = [m EXCEPT ![n] = (@ \ e) \cup {g}]
  BY <1>1, <1>2 DEF Issue
<1>4. memory' \in [Nodes -> SUBSET Grants]
  BY <1>3
<1>5. ASSUME NEW a \in Nodes PROVE Cardinality(memory'[a]) <= MaxActive
  <2>1. CASE a # n
    BY <1>1, <1>3, <1>5, <2>1 DEF MemoryInv, GrantsBounded
  <2>2. CASE a = n
    <3>1. PICK S \in SUBSET Grants : S = m[a] \ e
      OBVIOUS
    <3>2. IsFiniteSet(S) /\ Cardinality(S) \in Nat
      BY GrantsCount
    <3>3. Cardinality(S) < MaxActive
      BY <1>1, <1>2, <2>2, <3>1 DEF Issue, HasRoom
    <3>4. Cardinality(S \cup {g}) <= Cardinality(S) + 1 /\ Cardinality(S \cup {g}) \in Nat
      <4>1. CASE g \in S
        <5>1. S \cup {g} = S
          BY <4>1
        <5> QED
          BY <3>2, <5>1
      <4>2. CASE g \notin S
        BY <3>2, <4>2, FS_AddElement
      <4> QED
        BY <4>1, <4>2
    <3>5. memory'[a] = S \cup {g}
      BY <1>3, <2>2, <3>1
    <3>6. MaxActive \in Nat
      BY ProxyAssumption
    <3> QED
      BY <3>2, <3>3, <3>4, <3>5, <3>6
  <2> QED
    BY <2>1, <2>2
<1> QED
  BY <1>4, <1>5 DEF MemoryInv, GrantsBounded

(* Fewer grants are no more than the limit either.                         *)
LEMMA FewerGrants ==
    ASSUME MemoryInv, memory' \in [Nodes -> SUBSET Grants],
           \A n \in Nodes : memory'[n] \subseteq memory[n]
    PROVE  MemoryInv'
<1> SUFFICES ASSUME NEW n \in Nodes PROVE Cardinality(memory'[n]) <= MaxActive
  BY DEF MemoryInv, GrantsBounded
<1>1. PICK S \in SUBSET Grants : S = memory[n]
  BY DEF MemoryInv
<1>2. PICK T \in SUBSET Grants : T = memory'[n]
  OBVIOUS
<1>3. T \subseteq S
  BY <1>1, <1>2
<1>4. Cardinality(T) <= Cardinality(S) /\ Cardinality(T) \in Nat /\ Cardinality(S) \in Nat
  BY <1>3, GrantsCount, FS_Subset
<1>5. Cardinality(S) <= MaxActive /\ MaxActive \in Nat
  BY <1>1, Limits DEF MemoryInv, GrantsBounded
<1> QED
  BY <1>2, <1>4, <1>5

LEMMA GrantsBoundKept ==
    ASSUME MemoryInv, [ProxyNext]_proxyVars
    PROVE  MemoryInv'
<1>1. PICK m \in [Nodes -> SUBSET Grants] : m = memory
  BY DEF MemoryInv
<1>2. CASE UNCHANGED memory
  BY <1>2 DEF MemoryInv, GrantsBounded
<1>3. ASSUME NEW q \in Media, Lookup(q) PROVE MemoryInv'
  <2>1. memory' = m \/ memory' = [m EXCEPT ![At(q)] = @ \ {request[q].grant}]
    BY <1>1, <1>3 DEF Lookup
  <2>2. memory' \in [Nodes -> SUBSET Grants] /\ \A n \in Nodes : memory'[n] \subseteq m[n]
    BY <2>1
  <2> QED
    BY <1>1, <2>2, FewerGrants
<1>4. ASSUME NEW q \in Media, RewriteSegment(q) PROVE MemoryInv'
  BY <1>2, <1>4, IssueBounds DEF RewriteSegment, NotMinted, Minted, grantVars
<1>5. ASSUME NEW n \in Nodes, NEW g \in Grants, Resolve(n, g) PROVE MemoryInv'
  BY <1>5, IssueBounds DEF Resolve
<1>6. ASSUME NEW n \in Nodes, Crash(n) PROVE MemoryInv'
  <2>1. memory' = [m EXCEPT ![n] = {}]
    BY <1>1, <1>6 DEF Crash
  <2>2. memory' \in [Nodes -> SUBSET Grants] /\ \A a \in Nodes : memory'[a] \subseteq m[a]
    BY <2>1
  <2> QED
    BY <1>1, <2>2, FewerGrants
<1>7. ASSUME NEW q \in Media, Steps(q), ~Lookup(q), ~RewriteSegment(q) PROVE UNCHANGED memory
  BY <1>7 DEF Steps, TakeSlot, Fetch, ReadManifest, ReadBuffer, Rewritten, StartStream, Reserve,
     Check, Admit, FreeSlot, Erase, Released, grantVars
<1>8. ASSUME NEW q \in Media,
             \/ Chunk(q) \/ Close(q)
             \/ \E n \in Nodes, route \in Routes, g \in Grants : Arrive(q, n, route, g)
      PROVE  UNCHANGED memory
  BY <1>8 DEF Chunk, Close, Arrive, grantVars
<1>9. ASSUME \/ UNCHANGED proxyVars \/ \E g \in Grants : Expire(g)
             \/ \E s \in Stores, k \in Keys : Lapse(s, k)
      PROVE  UNCHANGED memory
  BY <1>9 DEF proxyVars, Expire, Lapse, grantVars
<1> QED
  BY <1>2, <1>3, <1>4, <1>5, <1>6, <1>7, <1>8, <1>9 DEF ProxyNext

(* The proxy: no more streams are open under a key than its cap on a       *)
(* replica that counts in its own memory, no counter stays above what is   *)
(* reserved but for what was lost, gauges and bytes are exact, and no      *)
(* replica holds more grants than its limit, for any replicas, requests,   *)
(* addresses, users and caps (playbackProxy.ts, capacity/streams.ts).      *)
THEOREM AccountsAreKept == ProxySpec => [](MemoryCapHolds /\ AccountsExact /\ GrantsBounded)
<1>1. ProxyInit => ProxyInv /\ MemoryInv
  <2>1. ASSUME ProxyInit PROVE MemoryInv
    <3>1. memory = [n \in Nodes |-> {}]
      BY <2>1 DEF ProxyInit
    <3>2. Cardinality({}) = 0 /\ MaxActive \in Nat
      BY FS_EmptySet, ProxyAssumption
    <3> QED
      BY <3>1, <3>2 DEF MemoryInv, GrantsBounded
  <2> QED
    BY <2>1, ProxyBegins
<1>2. ProxyInv /\ MemoryInv /\ [ProxyNext]_proxyVars => (ProxyInv /\ MemoryInv)'
  BY AccountsKept, GrantsBoundKept
<1>3. ProxyInv /\ MemoryInv => MemoryCapHolds /\ AccountsExact /\ GrantsBounded
  BY CapsFollow DEF ProxyInv, MemoryInv, CountersExact, GaugesExact, AccountsExact
<1> QED
  BY <1>1, <1>2, <1>3, PTL DEF ProxySpec
----------------------------------------------------------------------------
(* The daily budgets.                                                      *)

Counters == [day : Int, count : Nat]
Monitors == [day : Int, bytes : Nat, proxy : Nat, level : Levels, proxyLevel : Levels]

BudgetShape ==
    /\ today \in Nat
    /\ counters \in [BudgetProviders -> Counters]
    /\ exhausted \subseteq BudgetProviders
    /\ granted \in [BudgetProviders -> Nat] /\ reports \in [BudgetProviders -> Nat]
    /\ egress \in Monitors /\ sent \in [all : Nat, proxied : Nat]

(* A record of today counts what was granted today, one of an earlier day  *)
(* stands for nothing, and a report is remembered with it.                 *)
CountsGranted ==
    \A p \in BudgetProviders : LimitFor[p] > 0 =>
        /\ counters[p].day <= today
        /\ granted[p] = IF counters[p].day = today THEN counters[p].count ELSE 0
        /\ granted[p] <= LimitFor[p]
        /\ reports[p] <= 1
        /\ reports[p] = 1 => p \in exhausted /\ counters[p].day = today

BudgetInv == BudgetShape /\ CountsGranted /\ egress.day <= today /\ EgressLevelTrue

(* A budget of none has no level but the first; one of some needs no last. *)
LEMMA LevelsAre ==
    ASSUME NEW bytes \in Nat, NEW budget \in Nat, NEW last \in Levels
    PROVE  /\ Level(bytes, budget, last) \in Levels
           /\ budget = 0 => Level(bytes, budget, last) = last
           /\ budget # 0 => Level(bytes, budget, last) = Level(bytes, budget, "ok")
           /\ Level(0, budget, "ok") = "ok"
<1>1. CASE budget = 0
  BY <1>1 DEF Level, Levels
<1>2. CASE budget > 0 /\ bytes >= budget
  BY <1>2 DEF Level, Levels
<1>3. CASE budget > 0 /\ bytes < budget /\ 4 * bytes >= 3 * budget
  BY <1>3 DEF Level, Levels
<1>4. CASE budget > 0 /\ bytes < budget /\ 4 * bytes < 3 * budget
  BY <1>4 DEF Level, Levels
<1> QED
  BY <1>1, <1>2, <1>3, <1>4

(* A call that is granted or refused keeps the counts.                     *)
LEMMA ConsumeKeeps ==
    ASSUME BudgetInv, NEW p \in BudgetProviders, Consume(p)
    PROVE  BudgetInv'
<1>1. PICK c \in Counters : c = counters[p]
  BY DEF BudgetInv, BudgetShape
<1>2. PICK rec \in Counters : /\ rec = Current(p) /\ rec.day = today
                              /\ rec.count = IF c.day = today THEN c.count ELSE 0
  <2>1. [day |-> today, count |-> 0] \in Counters
    BY DEF Counters, BudgetInv, BudgetShape
  <2>2. c.day = today => Current(p) = c
    BY <1>1 DEF Current
  <2>3. c.day # today => Current(p) = [day |-> today, count |-> 0]
    BY <1>1 DEF Current
  <2> QED
    BY <2>1, <2>2, <2>3
<1>3. PICK heard \in SUBSET BudgetProviders :
          heard = IF c.day = today THEN exhausted ELSE exhausted \ {p}
  BY DEF BudgetInv, BudgetShape
<1>4. LimitFor[p] \in Nat /\ LimitFor[p] > 0 /\ UNCHANGED <<today, egress, sent>>
  BY BudgetAssumption DEF Consume, monitorVars
<1>5. /\ c.day <= today /\ granted[p] = IF c.day = today THEN c.count ELSE 0
      /\ granted[p] <= LimitFor[p] /\ reports[p] <= 1
      /\ reports[p] = 1 => p \in exhausted /\ c.day = today
      /\ granted[p] \in Nat /\ reports[p] \in Nat /\ today \in Nat
  BY <1>1, <1>4 DEF BudgetInv, CountsGranted, BudgetShape
<1>6. (egress.day <= today /\ EgressLevelTrue)'
  BY <1>4 DEF BudgetInv, EgressLevelTrue, Rolled
<1>7. \A q \in BudgetProviders : q # p => (q \in heard <=> q \in exhausted)
  BY <1>3
<1>8. CASE rec.count >= LimitFor[p]
  <2>1. /\ counters' = [counters EXCEPT ![p] = rec] /\ exhausted' = heard \cup {p}
        /\ reports' = IF p \in heard THEN reports ELSE [reports EXCEPT ![p] = @ + 1]
        /\ granted' = granted
    BY <1>1, <1>2, <1>3, <1>8 DEF Consume
  <2>2. BudgetShape'
    BY <1>4, <2>1 DEF BudgetInv, BudgetShape
  <2>3. c.day = today
    BY <1>2, <1>4, <1>8
  <2>4. ASSUME NEW q \in BudgetProviders, LimitFor[q] > 0
        PROVE  /\ counters'[q].day <= today'
               /\ granted'[q] = IF counters'[q].day = today' THEN counters'[q].count ELSE 0
               /\ granted'[q] <= LimitFor[q] /\ reports'[q] <= 1
               /\ reports'[q] = 1 => q \in exhausted' /\ counters'[q].day = today'
    <3>1. CASE q = p
      <4>1. counters'[q] = rec /\ q \in exhausted'
        BY <2>1, <3>1 DEF BudgetInv, BudgetShape
      <4>2. p \notin heard => reports[p] = 0
        BY <1>3, <1>5, <2>3
      <4>3. reports'[q] <= 1
        BY <1>5, <2>1, <3>1, <4>2 DEF BudgetInv, BudgetShape
      <4> QED
        BY <1>2, <1>4, <1>5, <2>1, <2>3, <3>1, <4>1, <4>3
    <3>2. CASE q # p
      BY <1>4, <1>7, <2>1, <2>4, <3>2 DEF BudgetInv, BudgetShape, CountsGranted
    <3> QED
      BY <3>1, <3>2
  <2> QED
    BY <1>6, <2>2, <2>4 DEF BudgetInv, CountsGranted
<1>9. CASE ~(rec.count >= LimitFor[p])
  <2> DEFINE more == [rec EXCEPT !.count = rec.count + 1]
  <2>1. more \in Counters /\ more.day = today /\ more.count = rec.count + 1
    BY <1>2 DEF Counters
  <2>2. /\ counters' = [counters EXCEPT ![p] = more] /\ exhausted' = heard
        /\ granted' = [granted EXCEPT ![p] = @ + 1] /\ reports' = reports
    BY <1>1, <1>2, <1>3, <1>9 DEF Consume
  <2> HIDE DEF more
  <2>3. BudgetShape'
    BY <1>4, <2>1, <2>2 DEF BudgetInv, BudgetShape
  <2>4. ASSUME NEW q \in BudgetProviders, LimitFor[q] > 0
        PROVE  /\ counters'[q].day <= today'
               /\ granted'[q] = IF counters'[q].day = today' THEN counters'[q].count ELSE 0
               /\ granted'[q] <= LimitFor[q] /\ reports'[q] <= 1
               /\ reports'[q] = 1 => q \in exhausted' /\ counters'[q].day = today'
    <3>1. CASE q = p
      <4>1. counters'[q] = more /\ granted'[q] = granted[p] + 1 /\ reports'[q] = reports[p]
        BY <2>2, <3>1 DEF BudgetInv, BudgetShape
      <4>2. rec.count \in Nat /\ rec.count = granted[p] /\ rec.count < LimitFor[p]
        BY <1>2, <1>4, <1>5, <1>9 DEF Counters
      <4>3. reports[p] = 1 => p \in heard
        BY <1>3, <1>5
      <4> QED
        BY <1>4, <1>5, <2>1, <2>2, <3>1, <4>1, <4>2, <4>3
    <3>2. CASE q # p
      BY <1>4, <1>7, <2>2, <2>4, <3>2 DEF BudgetInv, BudgetShape, CountsGranted
    <3> QED
      BY <3>1, <3>2
  <2> QED
    BY <1>6, <2>3, <2>4 DEF BudgetInv, CountsGranted
<1> QED
  BY <1>8, <1>9

(* What the monitor works on.                                              *)
LEMMA RolledIs ==
    ASSUME BudgetInv
    PROVE  /\ Rolled \in Monitors /\ Rolled.day = today
           /\ Rolled.bytes = sent.all /\ Rolled.proxy = sent.proxied
           /\ Rolled.level = Level(sent.all, DailyBudget, "ok")
           /\ Rolled.proxyLevel = Level(sent.proxied, ProxyBudget, "ok")
<1>1. [day |-> today, bytes |-> 0, proxy |-> 0, level |-> "ok", proxyLevel |-> "ok"] \in Monitors
  BY DEF Monitors, Levels, BudgetInv, BudgetShape
<1> QED
  BY <1>1 DEF BudgetInv, BudgetShape, EgressLevelTrue, Rolled

(* A response that is recorded keeps the levels those of the bytes.        *)
LEMMA RecordKeeps ==
    ASSUME BudgetInv, NEW n \in ChunkSizes, NEW proxied \in BOOLEAN, Record(n, proxied)
    PROVE  BudgetInv'
<1>1. PICK r \in Monitors : /\ r = Rolled /\ r.bytes = sent.all /\ r.proxy = sent.proxied
                            /\ r.level = Level(sent.all, DailyBudget, "ok")
                            /\ r.proxyLevel = Level(sent.proxied, ProxyBudget, "ok")
  BY RolledIs
<1>2. PICK m \in Nat : m = IF proxied THEN n ELSE 0
  BY BudgetAssumption
<1>3. n \in Nat /\ sent.all \in Nat /\ sent.proxied \in Nat
      /\ sent' = [all |-> sent.all + n, proxied |-> sent.proxied + m]
      /\ UNCHANGED <<today, counters, exhausted, granted, reports>>
  BY <1>2, BudgetAssumption DEF Record, registryVars, BudgetInv, BudgetShape
<1>4. CountsGranted'
  BY <1>3 DEF BudgetInv, CountsGranted
<1>5. CASE n = 0
  <2>1. egress' = egress /\ m = 0
    BY <1>2, <1>5 DEF Record
  <2>2. sent' = sent
    BY <1>3, <1>5, <2>1 DEF BudgetInv, BudgetShape
  <2> QED
    BY <1>3, <1>4, <2>1, <2>2 DEF BudgetInv, BudgetShape, EgressLevelTrue, Rolled
<1>6. CASE n # 0
  <2>1. PICK l \in Levels, pl \in Levels :
            /\ l = Level(sent.all + n, DailyBudget, "ok")
            /\ pl = Level(sent.proxied + m, ProxyBudget, "ok")
            /\ l = Level(sent.all + n, DailyBudget, r.level)
            /\ pl = Level(sent.proxied + m, ProxyBudget, r.proxyLevel)
    <3>1. "ok" \in Levels /\ r.level \in Levels /\ r.proxyLevel \in Levels
      BY DEF Levels, Monitors
    <3>2. sent.all + n \in Nat /\ sent.proxied + m \in Nat
      BY <1>2, <1>3
    <3>3. DailyBudget = 0 => r.level = "ok"
      BY <1>1, <1>3, <3>1, LevelsAre, BudgetAssumption
    <3>4. ProxyBudget = 0 => r.proxyLevel = "ok"
      BY <1>1, <1>3, <3>1, LevelsAre, BudgetAssumption
    <3>5. Level(sent.all + n, DailyBudget, r.level) = Level(sent.all + n, DailyBudget, "ok")
      BY <3>1, <3>2, <3>3, LevelsAre, BudgetAssumption
    <3>6. Level(sent.proxied + m, ProxyBudget, r.proxyLevel)
          = Level(sent.proxied + m, ProxyBudget, "ok")
      BY <3>1, <3>2, <3>4, LevelsAre, BudgetAssumption
    <3> QED
      BY <3>1, <3>2, <3>5, <3>6, LevelsAre, BudgetAssumption
  <2>2. egress' = [day |-> today, bytes |-> sent.all + n, proxy |-> sent.proxied + m,
                   level |-> l, proxyLevel |-> pl]
    BY <1>1, <1>2, <1>3, <1>6, <2>1 DEF Record
  <2>3. egress' \in Monitors /\ egress'.day = today
    BY <1>2, <1>3, <2>2 DEF Monitors, BudgetInv, BudgetShape
  <2>4. BudgetShape'
    BY <1>2, <1>3, <2>3 DEF BudgetInv, BudgetShape
  <2>5. EgressLevelTrue'
    BY <1>3, <2>1, <2>2 DEF EgressLevelTrue, Rolled
  <2>6. egress'.day <= today'
    BY <1>3, <2>3 DEF BudgetInv, BudgetShape
  <2> QED
    BY <1>4, <2>4, <2>5, <2>6 DEF BudgetInv
<1> QED
  BY <1>5, <1>6

(* Every step of the budgets keeps the invariant.                          *)
LEMMA BudgetStepKeeps ==
    ASSUME BudgetInv, [BudgetNext]_budgetVars
    PROVE  BudgetInv'
<1>1. CASE UNCHANGED budgetVars
  BY <1>1 DEF budgetVars, BudgetInv, BudgetShape, CountsGranted, EgressLevelTrue, Rolled
<1>2. CASE Midnight
  <2>1. /\ today' = today + 1 /\ granted' = [p \in BudgetProviders |-> 0]
        /\ reports' = [p \in BudgetProviders |-> 0] /\ sent' = [all |-> 0, proxied |-> 0]
        /\ UNCHANGED <<counters, exhausted, egress>> /\ today \in Nat
    BY <1>2 DEF Midnight, BudgetInv, BudgetShape
  <2>2. BudgetShape'
    BY <2>1 DEF BudgetInv, BudgetShape
  <2>3. ASSUME NEW p \in BudgetProviders, LimitFor[p] > 0
        PROVE  counters[p].day <= today' /\ counters[p].day # today' /\ LimitFor[p] \in Nat
    BY <2>1, <2>3, BudgetAssumption DEF BudgetInv, BudgetShape, CountsGranted, Counters
  <2>4. CountsGranted'
    BY <2>1, <2>3 DEF CountsGranted
  <2>5. egress.day <= today' /\ egress.day # today'
    BY <2>1 DEF BudgetInv, BudgetShape, Monitors
  <2>6. EgressLevelTrue'
    <3>1. Level(0, DailyBudget, "ok") = "ok" /\ Level(0, ProxyBudget, "ok") = "ok"
      <4>1. "ok" \in Levels /\ 0 \in Nat
        BY DEF Levels
      <4> QED
        BY <4>1, LevelsAre, BudgetAssumption
    <3> QED
      BY <2>1, <2>5, <3>1 DEF EgressLevelTrue, Rolled
  <2> QED
    BY <2>1, <2>2, <2>4, <2>5, <2>6 DEF BudgetInv
<1>3. ASSUME NEW p \in BudgetProviders, Consume(p) PROVE BudgetInv'
  BY <1>3, ConsumeKeeps
<1>4. ASSUME NEW n \in ChunkSizes, NEW proxied \in BOOLEAN, Record(n, proxied) PROVE BudgetInv'
  BY <1>4, RecordKeeps
<1>5. CASE ReadState
  <2>1. PICK r \in Monitors : /\ r = Rolled /\ r.day = today /\ r.bytes = sent.all
                              /\ r.proxy = sent.proxied
                              /\ r.level = Level(sent.all, DailyBudget, "ok")
                              /\ r.proxyLevel = Level(sent.proxied, ProxyBudget, "ok")
    BY RolledIs
  <2>2. egress' = r /\ UNCHANGED <<today, counters, exhausted, granted, reports, sent>>
    BY <1>5, <2>1 DEF ReadState, registryVars
  <2>3. EgressLevelTrue'
    BY <2>1, <2>2 DEF EgressLevelTrue, Rolled
  <2>4. egress'.day <= today'
    BY <2>1, <2>2 DEF BudgetInv, BudgetShape
  <2> QED
    BY <2>2, <2>3, <2>4 DEF BudgetInv, BudgetShape, CountsGranted
<1> QED
  BY <1>1, <1>2, <1>3, <1>4, <1>5 DEF BudgetNext

(* The invariant of the budgets holds.                                     *)
LEMMA BudgetsAreSound == BudgetSpec => []BudgetInv
<1>1. BudgetInit => BudgetInv
  <2> SUFFICES ASSUME BudgetInit PROVE BudgetInv
    OBVIOUS
  <2>1. Level(0, DailyBudget, "ok") = "ok" /\ Level(0, ProxyBudget, "ok") = "ok" /\ "ok" \in Levels
    <3>1. "ok" \in Levels /\ 0 \in Nat
      BY DEF Levels
    <3> QED
      BY <3>1, LevelsAre, BudgetAssumption
  <2>2. NoCounter \in Counters /\ NoCounter.day = -1
    BY DEF NoCounter, Counters
  <2>3. BudgetShape
    BY <2>1, <2>2 DEF BudgetInit, BudgetShape, Monitors
  <2>4. CountsGranted
    BY <2>2, BudgetAssumption DEF BudgetInit, CountsGranted
  <2>5. EgressLevelTrue /\ egress.day <= today
    BY <2>1 DEF BudgetInit, EgressLevelTrue, Rolled
  <2> QED
    BY <2>3, <2>4, <2>5 DEF BudgetInv
<1> QED
  BY <1>1, BudgetStepKeeps, PTL DEF BudgetSpec

(* Budgets: no provider is granted more calls a day than its limit nor     *)
(* skipped before, and the level reported is that of the day's bytes.      *)
THEOREM BudgetsAreKept == BudgetSpec => []BudgetsHold
<1>1. BudgetInv => BudgetsHold
  <2> SUFFICES ASSUME BudgetInv, NEW p \in BudgetProviders, LimitFor[p] > 0
               PROVE  /\ granted[p] <= LimitFor[p] /\ reports[p] <= 1
                      /\ IsExhausted(p) <=> granted[p] = LimitFor[p]
    BY DEF BudgetsHold, CallsWithinBudget, BudgetInv
  <2>1. LimitFor[p] \in Nat /\ counters[p].count \in Nat
    BY BudgetAssumption DEF BudgetInv, BudgetShape, Counters
  <2> QED
    BY <2>1 DEF BudgetInv, CountsGranted, IsExhausted
<1> QED
  BY <1>1, BudgetsAreSound, PTL
----------------------------------------------------------------------------
(* The rate limiter.                                                       *)

Buckets == [count : Nat, resetAt : Nat]

(* The calls admitted so far explained by the windows that began at the    *)
(* calls of starts: the running one is the bucket's, all others are over.  *)
Explains(starts, calls, b, now) ==
    /\ \A i, j \in starts : i < j => calls[j] - calls[i] >= Window
    /\ \A i \in 1..Len(calls) : \E j \in starts :
          j <= i /\ i < j + Quota /\ calls[i] - calls[j] < Window
    /\ b.resetAt > now =>
          \E m \in starts : /\ \A j \in starts : j <= m
                            /\ calls[m] + Window = b.resetAt
                            /\ Len(calls) = m + b.count - 1
    /\ b.resetAt <= now => \A j \in starts : calls[j] + Window <= now

(* A call is not before the one before it.                                 *)
CallsInOrder(calls, now) ==
    /\ \A i \in 1..Len(calls) : calls[i] <= now
    /\ \A i, j \in 1..Len(calls) : i <= j => calls[i] <= calls[j]

Accounted(calls, b, now) ==
    /\ CallsInOrder(calls, now)
    /\ \E starts \in SUBSET (1..Len(calls)) : Explains(starts, calls, b, now)

RateInv ==
    /\ tick \in Nat /\ buckets \in [LimitKeys -> Buckets] /\ admitted \in [LimitKeys -> Seq(Nat)]
    /\ \A k \in LimitKeys : Accounted(admitted[k], buckets[k], tick)

(* A tick may end the running window, which is then over like the others.  *)
LEMMA WindowsRunOut ==
    ASSUME NEW calls \in Seq(Nat), NEW b \in Buckets, NEW now \in Nat,
           NEW starts \in SUBSET (1..Len(calls)), Explains(starts, calls, b, now)
    PROVE  Explains(starts, calls, b, now + 1)
<1>1. \A j \in starts : j \in Nat /\ calls[j] \in Nat
  OBVIOUS
<1>2. Window \in Nat /\ Window > 0 /\ b.resetAt \in Nat
  BY RateAssumption DEF Buckets
<1>3. ASSUME b.resetAt <= now + 1, NEW j \in starts PROVE calls[j] + Window <= now + 1
  <2>1. CASE b.resetAt <= now
    <3>1. calls[j] + Window <= now
      BY <1>3, <2>1 DEF Explains
    <3> QED
      BY <1>1, <1>2, <1>3, <3>1
  <2>2. CASE b.resetAt > now
    <3>1. PICK m \in starts : (\A i \in starts : i <= m) /\ calls[m] + Window = b.resetAt
      BY <2>2 DEF Explains
    <3>2. calls[j] <= calls[m]
      <4>1. j = m \/ j < m
        BY <1>1, <3>1
      <4>2. j < m => calls[m] - calls[j] >= Window
        BY DEF Explains
      <4> QED
        BY <1>1, <1>2, <4>1, <4>2
    <3> QED
      BY <1>1, <1>2, <1>3, <3>1, <3>2
  <2> QED
    BY <1>2, <2>1, <2>2
<1>4. b.resetAt > now + 1 => b.resetAt > now
  BY <1>2
<1>5. b.resetAt <= now + 1 => \A j \in starts : calls[j] + Window <= now + 1
  BY <1>3
<1>6. b.resetAt > now + 1 => \E m \in starts : /\ \A j \in starts : j <= m
                                              /\ calls[m] + Window = b.resetAt
                                              /\ Len(calls) = m + b.count - 1
  BY <1>4 DEF Explains
<1>7. /\ \A i, j \in starts : i < j => calls[j] - calls[i] >= Window
      /\ \A i \in 1..Len(calls) : \E j \in starts :
            j <= i /\ i < j + Quota /\ calls[i] - calls[j] < Window
  BY DEF Explains
<1> QED
  BY <1>5, <1>6, <1>7, Zenon DEF Explains

(* A call within the running window has room in it.                        *)
LEMMA AdmittedInWindow ==
    ASSUME NEW calls \in Seq(Nat), NEW b \in Buckets, NEW now \in Nat, NEW more \in Buckets,
           NEW starts \in SUBSET (1..Len(calls)), Explains(starts, calls, b, now),
           b.resetAt > now, b.count < Quota, more.count = b.count + 1, more.resetAt = b.resetAt
    PROVE  Explains(starts, Append(calls, now), more, now)
<1> DEFINE longer == Append(calls, now)
<1>1. /\ Len(longer) = Len(calls) + 1 /\ longer[Len(calls) + 1] = now /\ Len(calls) \in Nat
      /\ \A i \in 1..Len(calls) : longer[i] = calls[i] /\ calls[i] \in Nat
  OBVIOUS
<1> HIDE DEF longer
<1>2. PICK m \in starts : /\ \A j \in starts : j <= m
                          /\ calls[m] + Window = b.resetAt
                          /\ Len(calls) = m + b.count - 1
  BY DEF Explains
<1>3. /\ m \in Nat /\ m <= Len(calls) /\ calls[m] \in Nat /\ longer[m] = calls[m]
      /\ Quota \in Nat /\ Window \in Nat /\ b.count \in Nat /\ b.resetAt \in Nat
  BY <1>1, RateAssumption DEF Buckets
<1>4. m <= Len(calls) + 1 /\ Len(calls) + 1 < m + Quota /\ now - longer[m] < Window
  <2>1. Len(calls) + 1 = m + b.count
    <3>1. Len(calls) = m + b.count - 1
      BY <1>2
    <3>2. \A l, i, c \in Nat : l = i + c - 1 => l + 1 = i + c
      OBVIOUS
    <3>3. Len(calls) \in Nat /\ m \in Nat /\ b.count \in Nat
      BY <1>1, <1>3
    <3> QED
      BY <3>1, <3>2, <3>3
  <2>2. Len(calls) + 1 < m + Quota
    BY <1>3, <2>1
  <2>3. now - longer[m] < Window
    BY <1>2, <1>3
  <2> QED
    BY <1>1, <1>3, <2>2, <2>3
<1>5. \A i \in 1..Len(longer) : \E j \in starts :
          j <= i /\ i < j + Quota /\ longer[i] - longer[j] < Window
  <2>1. SUFFICES ASSUME NEW i \in 1..Len(longer)
                 PROVE  \E j \in starts : j <= i /\ i < j + Quota /\ longer[i] - longer[j] < Window
    OBVIOUS
  <2>2. CASE i = Len(calls) + 1
    BY <1>1, <1>4, <2>2
  <2>3. CASE i # Len(calls) + 1
    <3>1. i \in 1..Len(calls)
      <4>1. i \in 1..(Len(calls) + 1) /\ Len(calls) \in Nat
        BY <1>1, <2>1
      <4> QED
        BY <2>3, <4>1
    <3>2. PICK j \in starts : j <= i /\ i < j + Quota /\ calls[i] - calls[j] < Window
      BY <3>1 DEF Explains
    <3> QED
      BY <1>1, <3>1, <3>2
  <2> QED
    BY <2>2, <2>3
<1>6. \A i, j \in starts : i < j => longer[j] - longer[i] >= Window
  BY <1>1 DEF Explains
<1>7. Len(longer) = m + more.count - 1 /\ longer[m] + Window = more.resetAt
  <2>1. Len(calls) = m + b.count - 1 /\ Len(longer) = Len(calls) + 1
    BY <1>1, <1>2
  <2>2. \A l, i, c \in Nat : l = i + c - 1 => l + 1 = i + (c + 1) - 1
    OBVIOUS
  <2>3. Len(calls) \in Nat /\ m \in Nat /\ b.count \in Nat
    BY <1>1, <1>3
  <2>4. Len(longer) = m + more.count - 1
    BY <2>1, <2>2, <2>3
  <2> QED
    BY <1>2, <1>3, <2>4
<1>8. more.resetAt > now
  OBVIOUS
<1>9. ~(more.resetAt <= now)
  BY <1>3
<1> QED
  BY <1>2, <1>5, <1>6, <1>7, <1>8, <1>9 DEF Explains, longer

(* A call when no window runs begins one.                                  *)
LEMMA AdmittedFresh ==
    ASSUME NEW calls \in Seq(Nat), NEW b \in Buckets, NEW now \in Nat, NEW more \in Buckets,
           NEW starts \in SUBSET (1..Len(calls)), Explains(starts, calls, b, now),
           b.resetAt <= now, more.count = 1, more.resetAt = now + Window
    PROVE  \E next \in SUBSET (1..Len(Append(calls, now))) :
              Explains(next, Append(calls, now), more, now)
<1> DEFINE longer == Append(calls, now)
           n == Len(calls) + 1
           next == starts \cup {n}
<1>1. /\ Len(longer) = n /\ longer[n] = now /\ Len(calls) \in Nat /\ n \in Nat
      /\ \A i \in 1..Len(calls) : longer[i] = calls[i] /\ calls[i] \in Nat /\ i \in Nat /\ i < n
  OBVIOUS
<1> HIDE DEF longer
<1>2. /\ \A j \in starts : calls[j] + Window <= now
      /\ \A j \in starts : j \in 1..Len(calls)
      /\ Quota \in Nat /\ Quota > 0 /\ Window \in Nat /\ Window > 0
  BY RateAssumption DEF Explains
<1>3. \A i, j \in next : i < j => longer[j] - longer[i] >= Window
  <2>1. SUFFICES ASSUME NEW i \in next, NEW j \in next, i < j
                 PROVE  longer[j] - longer[i] >= Window
    OBVIOUS
  <2>2. CASE j = n
    <3>1. i \in starts
      BY <1>1, <2>1, <2>2
    <3> QED
      BY <1>1, <1>2, <2>2, <3>1
  <2>3. CASE j # n
    <3>1. i \in starts /\ j \in starts
      BY <1>1, <1>2, <2>1, <2>3
    <3> QED
      BY <1>1, <1>2, <2>1, <3>1 DEF Explains
  <2> QED
    BY <2>2, <2>3
<1>4. \A i \in 1..Len(longer) : \E j \in next :
          j <= i /\ i < j + Quota /\ longer[i] - longer[j] < Window
  <2>1. SUFFICES ASSUME NEW i \in 1..Len(longer)
                 PROVE  \E j \in next : j <= i /\ i < j + Quota /\ longer[i] - longer[j] < Window
    OBVIOUS
  <2>2. CASE i = n
    BY <1>1, <1>2, <2>2
  <2>3. CASE i # n
    <3>1. i \in 1..Len(calls)
      <4>1. i \in 1..(Len(calls) + 1) /\ Len(calls) \in Nat
        BY <1>1, <2>1
      <4> QED
        BY <2>3, <4>1
    <3>2. PICK j \in starts : j <= i /\ i < j + Quota /\ calls[i] - calls[j] < Window
      BY <3>1 DEF Explains
    <3> QED
      BY <1>1, <1>2, <3>1, <3>2
  <2> QED
    BY <2>2, <2>3
<1>5. /\ \A j \in next : j <= n
      /\ longer[n] + Window = more.resetAt /\ Len(longer) = n + more.count - 1
      /\ n \in next /\ more.resetAt > now /\ ~(more.resetAt <= now)
  BY <1>1, <1>2
<1>6. next \in SUBSET (1..Len(longer))
  <2>1. \A j \in next : j \in 1..n
    BY <1>1, <1>2
  <2> QED
    BY <1>1, <2>1
<1> HIDE DEF next, n
<1>7. Explains(next, longer, more, now)
  BY <1>3, <1>4, <1>5 DEF Explains
<1> QED
  BY <1>6, <1>7 DEF longer

(* A call that is admitted is the latest.                                  *)
LEMMA AdmittedInOrder ==
    ASSUME NEW calls \in Seq(Nat), NEW now \in Nat, CallsInOrder(calls, now)
    PROVE  CallsInOrder(Append(calls, now), now)
<1> DEFINE longer == Append(calls, now)
<1>1. /\ Len(longer) = Len(calls) + 1 /\ longer[Len(calls) + 1] = now /\ Len(calls) \in Nat
      /\ \A i \in 1..Len(calls) : longer[i] = calls[i] /\ calls[i] \in Nat
  OBVIOUS
<1> HIDE DEF longer
<1>2. \A i \in 1..Len(longer) : i \in 1..Len(calls) \/ i = Len(calls) + 1
  BY <1>1
<1>3. \A i \in 1..Len(longer) : longer[i] <= now
  BY <1>1, <1>2 DEF CallsInOrder
<1>4. ASSUME NEW i \in 1..Len(longer), NEW j \in 1..Len(longer), i <= j
      PROVE  longer[i] <= longer[j]
  <2>1. CASE j = Len(calls) + 1
    BY <1>1, <1>3, <2>1
  <2>2. CASE j # Len(calls) + 1
    <3>1. i \in 1..Len(calls) /\ j \in 1..Len(calls)
      BY <1>1, <1>4, <2>2
    <3> QED
      BY <1>1, <1>4, <3>1 DEF CallsInOrder
  <2> QED
    BY <2>1, <2>2
<1> QED
  BY <1>3, <1>4 DEF CallsInOrder, longer

(* A call that is let through is accounted for, in its window or as the    *)
(* first of the next one.                                                  *)
LEMMA CallAdmitted ==
    ASSUME NEW calls \in Seq(Nat), NEW c \in Buckets, NEW now \in Nat, NEW b \in Buckets,
           NEW more \in Buckets, Accounted(calls, c, now),
           b = IF c.resetAt <= now THEN [count |-> 0, resetAt |-> now + Window] ELSE c,
           b.count < Quota, more = [b EXCEPT !.count = b.count + 1]
    PROVE  Accounted(Append(calls, now), more, now)
<1>1. PICK starts \in SUBSET (1..Len(calls)) : Explains(starts, calls, c, now)
  BY DEF Accounted
<1>2. CallsInOrder(Append(calls, now), now)
  BY AdmittedInOrder DEF Accounted
<1>3. more.count = b.count + 1 /\ more.resetAt = b.resetAt /\ c.resetAt \in Nat
  BY DEF Buckets
<1>4. CASE c.resetAt <= now
  <2>1. b.count = 0 /\ b.resetAt = now + Window
    BY <1>4
  <2>2. more.count = 1 /\ more.resetAt = now + Window
    BY <1>3, <2>1
  <2> QED
    BY <1>1, <1>2, <1>4, <2>2, AdmittedFresh DEF Accounted
<1>5. CASE c.resetAt > now
  <2>1. b = c
    BY <1>3, <1>5
  <2>2. Explains(starts, Append(calls, now), more, now)
    BY <1>1, <1>3, <1>5, <2>1, AdmittedInWindow
  <2>3. starts \in SUBSET (1..Len(Append(calls, now)))
    <3>1. Len(Append(calls, now)) = Len(calls) + 1 /\ Len(calls) \in Nat
      OBVIOUS
    <3> QED
      BY <3>1
  <2> QED
    BY <1>2, <2>2, <2>3 DEF Accounted
<1> QED
  BY <1>3, <1>4, <1>5

(* Every step of the limiter keeps its calls accounted for.                *)
LEMMA RateStepKeeps ==
    ASSUME RateInv, [RateNext]_rateVars
    PROVE  RateInv'
<1>1. CASE UNCHANGED rateVars
  BY <1>1 DEF rateVars, RateInv
<1>2. CASE Elapse
  <2>1. tick' = tick + 1 /\ buckets' = buckets /\ admitted' = admitted /\ tick \in Nat
    BY <1>2 DEF Elapse, RateInv
  <2>2. ASSUME NEW k \in LimitKeys PROVE Accounted(admitted[k], buckets[k], tick + 1)
    <3>1. PICK calls \in Seq(Nat), c \in Buckets : calls = admitted[k] /\ c = buckets[k]
      BY DEF RateInv
    <3>2. PICK starts \in SUBSET (1..Len(calls)) : Explains(starts, calls, c, tick)
      BY <3>1 DEF RateInv, Accounted
    <3>3. Explains(starts, calls, c, tick + 1)
      BY <2>1, <3>2, WindowsRunOut
    <3>4. CallsInOrder(calls, tick)
      BY <3>1 DEF RateInv, Accounted
    <3>5. \A i \in 1..Len(calls) : calls[i] \in Nat
      OBVIOUS
    <3>6. CallsInOrder(calls, tick + 1)
      BY <2>1, <3>4, <3>5 DEF CallsInOrder
    <3> QED
      BY <3>1, <3>3, <3>6 DEF Accounted
  <2> QED
    BY <2>1, <2>2 DEF RateInv
<1>3. ASSUME NEW k \in LimitKeys, NEW swept \in BOOLEAN, Take(k, swept) PROVE RateInv'
  <2>1. PICK calls \in Seq(Nat), c \in Buckets, w \in [LimitKeys -> Buckets] :
            /\ calls = admitted[k] /\ c = buckets[k] /\ w = Swept(swept)
    <3>1. NoBucket \in Buckets
      BY DEF NoBucket, Buckets
    <3>2. Swept(swept) \in [LimitKeys -> Buckets]
      BY <3>1 DEF Swept, RateInv
    <3> QED
      BY <3>2 DEF RateInv
  <2>2. PICK b \in Buckets : b = IF c.resetAt <= tick THEN Fresh ELSE c
    <3>1. Fresh \in Buckets
      BY RateAssumption DEF Fresh, Buckets, RateInv
    <3> QED
      BY <3>1
  <2>3. tick \in Nat /\ tick' = tick /\ Quota \in Nat /\ Quota > 0 /\ b.count \in Nat
    BY <1>3, RateAssumption DEF Take, RateInv, Buckets
  <2>4. ASSUME NEW q \in LimitKeys PROVE Accounted(admitted[q], w[q], tick)
    <3>1. Accounted(admitted[q], buckets[q], tick)
      BY DEF RateInv
    <3>2. w[q] = buckets[q] \/ (buckets[q].resetAt <= tick /\ w[q] = NoBucket)
      BY <2>1 DEF Swept
    <3>3. CASE buckets[q].resetAt <= tick /\ w[q] = NoBucket
      <4>1. PICK starts \in SUBSET (1..Len(admitted[q])) :
                Explains(starts, admitted[q], buckets[q], tick)
        BY <3>1 DEF Accounted
      <4>2. w[q].resetAt = 0 /\ w[q].resetAt <= tick /\ ~(w[q].resetAt > tick)
        BY <2>3, <3>3 DEF NoBucket
      <4>3. Explains(starts, admitted[q], w[q], tick)
        BY <3>3, <4>1, <4>2 DEF Explains
      <4> QED
        BY <3>1, <4>3 DEF Accounted
    <3> QED
      BY <3>1, <3>2, <3>3
  <2>5. CASE b.count >= Quota
    <3>1. buckets' = [w EXCEPT ![k] = b] /\ admitted' = admitted
      BY <1>3, <2>1, <2>2, <2>5 DEF Take
    <3>2. b = c
      <4>1. Fresh.count = 0
        BY DEF Fresh
      <4>2. b # Fresh
        BY <2>3, <2>5, <4>1
      <4> QED
        BY <2>2, <4>2
    <3>3. ASSUME NEW q \in LimitKeys PROVE Accounted(admitted'[q], buckets'[q], tick')
      <4>1. CASE q = k
        <5>1. buckets'[q] = buckets[q] /\ admitted'[q] = admitted[q]
          BY <2>1, <3>1, <3>2, <4>1
        <5> QED
          BY <2>3, <5>1 DEF RateInv
      <4>2. CASE q # k
        BY <2>3, <2>4, <3>1, <4>2
      <4> QED
        BY <4>1, <4>2
    <3> QED
      BY <2>3, <3>1, <3>3 DEF RateInv
  <2>6. CASE b.count < Quota
    <3> DEFINE more == [b EXCEPT !.count = b.count + 1]
    <3>1. more \in Buckets
      BY DEF Buckets
    <3>2. buckets' = [w EXCEPT ![k] = more] /\ admitted' = [admitted EXCEPT ![k] = Append(calls, tick)]
      <4>1. ~(b.count >= Quota)
        BY <2>3, <2>6
      <4> QED
        BY <1>3, <2>1, <2>2, <4>1 DEF Take
    <3>3. Accounted(Append(calls, tick), more, tick)
      <4>1. Accounted(calls, c, tick)
        BY <2>1 DEF RateInv
      <4>2. b = IF c.resetAt <= tick THEN [count |-> 0, resetAt |-> tick + Window] ELSE c
        BY <2>2 DEF Fresh
      <4> QED
        BY <2>3, <2>6, <3>1, <4>1, <4>2, CallAdmitted
    <3> HIDE DEF more
    <3>4. ASSUME NEW q \in LimitKeys PROVE Accounted(admitted'[q], buckets'[q], tick')
      <4>1. CASE q = k
        <5>1. buckets'[q] = more /\ admitted'[q] = Append(calls, tick)
          BY <3>2, <4>1 DEF RateInv
        <5> QED
          BY <2>3, <3>3, <5>1
      <4>2. CASE q # k
        <5>1. buckets'[q] = w[q] /\ admitted'[q] = admitted[q]
          BY <3>2, <4>2 DEF RateInv
        <5> QED
          BY <2>3, <2>4, <5>1
      <4> QED
        BY <4>1, <4>2
    <3>5. Append(calls, tick) \in Seq(Nat)
      BY <2>3
    <3> QED
      BY <2>3, <3>1, <3>2, <3>4, <3>5 DEF RateInv
  <2> QED
    BY <2>3, <2>5, <2>6
<1> QED
  BY <1>1, <1>2, <1>3 DEF RateNext

(* Calls that are accounted for come at most two quotas in one window's    *)
(* length: three that are a quota apart lie in three windows, and the      *)
(* third of those begins a window's length or more after the second.       *)
LEMMA TwoQuotasAtMost ==
    ASSUME NEW calls \in Seq(Nat), NEW b \in Buckets, NEW now \in Nat, Accounted(calls, b, now),
           NEW i \in 1..Len(calls), i + 2 * Quota <= Len(calls)
    PROVE  calls[i + 2 * Quota] - calls[i] >= Window
<1> DEFINE i2 == i + Quota
           i3 == i + 2 * Quota
<1>1. PICK starts \in SUBSET (1..Len(calls)) : Explains(starts, calls, b, now)
  BY DEF Accounted
<1>2. Quota \in Nat /\ Quota > 0 /\ Window \in Nat /\ Len(calls) \in Nat
  BY RateAssumption
<1>3. i2 \in 1..Len(calls) /\ i3 \in 1..Len(calls) /\ i3 = i2 + Quota /\ i2 = i + Quota
  BY <1>2
<1> HIDE DEF i2, i3
<1>4. \A x \in 1..Len(calls) : \E j \in starts : j <= x /\ x < j + Quota
  BY <1>1 DEF Explains
<1>5. PICK j1 \in starts : j1 <= i /\ i < j1 + Quota
  BY <1>4
<1>6. PICK j2 \in starts : j2 <= i2 /\ i2 < j2 + Quota
  BY <1>3, <1>4
<1>7. PICK j3 \in starts : j3 <= i3 /\ i3 < j3 + Quota
  BY <1>3, <1>4
<1>8. /\ j2 \in 1..Len(calls) /\ j3 \in 1..Len(calls) /\ i < j2 /\ j2 < j3
      /\ i <= j2 /\ j3 <= i3
  BY <1>2, <1>3, <1>6, <1>7
<1>9. calls[j3] - calls[j2] >= Window
  BY <1>1, <1>8 DEF Explains
<1>10. calls[i] <= calls[j2] /\ calls[j3] <= calls[i3]
  BY <1>3, <1>8 DEF Accounted, CallsInOrder
<1>11. calls[i] \in Nat /\ calls[j2] \in Nat /\ calls[j3] \in Nat /\ calls[i3] \in Nat
  <2>1. \A x \in 1..Len(calls) : calls[x] \in Nat
    OBVIOUS
  <2> QED
    BY <1>3, <1>8, <2>1
<1>12. calls[i3] - calls[i] >= Window
  <2>1. \A a, e, f, g, l \in Nat : f - e >= l /\ a <= e /\ f <= g => g - a >= l
    OBVIOUS
  <2> QED
    BY <1>2, <1>9, <1>10, <1>11, <2>1
<1> QED
  BY <1>12 DEF i3

(* The invariant of the rate limiter holds.                                *)
LEMMA RatesAreSound == RateSpec => []RateInv
<1>1. RateInit => RateInv
  <2> SUFFICES ASSUME RateInit PROVE RateInv
    OBVIOUS
  <2>1. NoBucket \in Buckets /\ NoBucket.resetAt = 0
    BY DEF NoBucket, Buckets
  <2>2. tick = 0 /\ buckets \in [LimitKeys -> Buckets] /\ admitted \in [LimitKeys -> Seq(Nat)]
    BY <2>1 DEF RateInit
  <2>3. ASSUME NEW k \in LimitKeys PROVE Accounted(admitted[k], buckets[k], tick)
    <3>1. admitted[k] = << >> /\ Len(admitted[k]) = 0 /\ 1..Len(admitted[k]) = {}
          /\ buckets[k].resetAt = 0
      BY <2>1 DEF RateInit
    <3>2. Explains({}, admitted[k], buckets[k], tick)
      BY <2>2, <3>1 DEF Explains
    <3> QED
      BY <3>1, <3>2 DEF Accounted, CallsInOrder
  <2> QED
    BY <2>2, <2>3 DEF RateInv
<1> QED
  BY <1>1, RateStepKeeps, PTL DEF RateSpec

(* RateLimiter: windows begin a window's length or more apart and no more  *)
(* than a quota is let through in each, so that no stretch of that length  *)
(* admits more than two quotas of a key.                                   *)
THEOREM RatesAreBounded == RateSpec => []RateBounded
<1>1. RateInv => RateBounded
  <2> SUFFICES ASSUME RateInv, NEW k \in LimitKeys
               PROVE  LET calls == admitted[k] IN
                      /\ \A i \in 1..Len(calls) :
                            i + 2 * Quota <= Len(calls) => calls[i + 2 * Quota] - calls[i] >= Window
                      /\ \E starts \in SUBSET (1..Len(calls)) :
                            /\ \A i, j \in starts : i < j => calls[j] - calls[i] >= Window
                            /\ \A i \in 1..Len(calls) : \E j \in starts :
                                  j <= i /\ i < j + Quota /\ calls[i] - calls[j] < Window
    BY DEF RateBounded
  <2>1. PICK calls \in Seq(Nat), b \in Buckets :
            calls = admitted[k] /\ Accounted(calls, b, tick)
    BY DEF RateInv
  <2>2. PICK starts \in SUBSET (1..Len(calls)) : Explains(starts, calls, b, tick)
    BY <2>1 DEF Accounted
  <2>3. /\ \A i, j \in starts : i < j => calls[j] - calls[i] >= Window
        /\ \A i \in 1..Len(calls) : \E j \in starts :
              j <= i /\ i < j + Quota /\ calls[i] - calls[j] < Window
    BY <2>2 DEF Explains
  <2>4. \A i \in 1..Len(calls) :
            i + 2 * Quota <= Len(calls) => calls[i + 2 * Quota] - calls[i] >= Window
    BY <2>1, TwoQuotasAtMost DEF RateInv
  <2> QED
    BY <2>1, <2>3, <2>4
<1> QED
  BY <1>1, RatesAreSound, PTL
----------------------------------------------------------------------------
(* The types of the limits and of the proxy: the invariants above leave    *)
(* open how far days and ticks can go, and which grants were issued.       *)

BudgetBounds ==
    /\ today <= MaxDay /\ sent.all <= MaxUnits /\ sent.proxied <= sent.all
    /\ \A p \in BudgetProviders : counters[p].day \in -1..MaxDay
    /\ egress.day >= 0 /\ egress.bytes <= MaxUnits /\ egress.proxy <= MaxUnits

LEMMA BudgetBoundsKept ==
    ASSUME BudgetInv, BudgetInv', BudgetBounds, [BudgetNext]_budgetVars
    PROVE  BudgetBounds'
<1>0. MaxDay \in Nat /\ MaxUnits \in Nat /\ ChunkSizes \subseteq Nat
  BY BudgetAssumption
<1>1. /\ today \in Nat /\ sent \in [all : Nat, proxied : Nat] /\ egress \in Monitors
      /\ counters \in [BudgetProviders -> Counters]
  BY DEF BudgetInv, BudgetShape
<1>2. CASE UNCHANGED budgetVars
  BY <1>2 DEF budgetVars, BudgetBounds
<1>3. CASE Midnight
  <2>1. today' \in Nat /\ today' <= MaxDay
    BY <1>0, <1>1, <1>3 DEF Midnight
  <2> QED
    BY <1>0, <1>3, <2>1 DEF Midnight, BudgetBounds
<1>4. ASSUME NEW p \in BudgetProviders, Consume(p) PROVE BudgetBounds'
  <2>1. UNCHANGED <<today, egress, sent>>
    BY <1>4 DEF Consume, monitorVars
  <2>2. PICK s \in Counters : s.day = today /\ counters' = [counters EXCEPT ![p] = s]
    <3>1. Current(p) \in Counters /\ Current(p).day = today
      BY <1>1 DEF Current, Counters
    <3>2. PICK c \in Counters : c = Current(p)
      BY <3>1
    <3>3. PICK s \in Counters : s = [c EXCEPT !.count = @ + 1]
      <4>1. [c EXCEPT !.count = @ + 1] \in Counters
        BY DEF Counters
      <4> QED
        BY <4>1
    <3>4. s.day = today
      BY <3>1, <3>2, <3>3 DEF Counters
    <3> QED
      BY <1>4, <3>1, <3>2, <3>3, <3>4 DEF Consume
  <2>3. today \in -1..MaxDay
    BY <1>0, <1>1 DEF BudgetBounds
  <2>4. ASSUME NEW a \in BudgetProviders PROVE counters'[a].day \in -1..MaxDay
    BY <1>1, <2>2, <2>3 DEF BudgetBounds
  <2> QED
    BY <2>1, <2>4 DEF BudgetBounds
<1>5. ASSUME NEW n \in ChunkSizes, NEW proxied \in BOOLEAN, Record(n, proxied)
      PROVE  BudgetBounds'
  <2>1. n \in Nat /\ UNCHANGED <<today, counters>> /\ sent.all + n <= MaxUnits
    BY <1>0, <1>5 DEF Record, registryVars
  <2>2. /\ sent'.all = sent.all + n
        /\ sent'.proxied = sent.proxied + (IF proxied THEN n ELSE 0)
    BY <1>5 DEF Record
  <2>3. sent'.all <= MaxUnits /\ sent'.proxied <= sent'.all
    BY <1>0, <1>1, <2>1, <2>2 DEF BudgetBounds
  <2>4. sent'.all \in Nat /\ sent'.proxied \in Nat
    BY <1>1, <2>1, <2>2
  <2>5. egress'.day >= 0 /\ egress'.bytes <= MaxUnits /\ egress'.proxy <= MaxUnits
    <3>1. CASE egress' = egress
      BY <3>1 DEF BudgetBounds
    <3>2. CASE egress'.day = today
      <4>1. egress'.bytes = sent'.all /\ egress'.proxy = sent'.proxied
        BY <2>1, <3>2 DEF BudgetInv, EgressLevelTrue, Rolled
      <4> QED
        BY <1>0, <1>1, <2>3, <2>4, <3>2, <4>1
    <3> QED
      BY <1>5, <3>1, <3>2 DEF Record
  <2> QED
    BY <2>1, <2>3, <2>5 DEF BudgetBounds
<1>6. CASE ReadState
  <2>1. UNCHANGED <<today, counters, sent>>
    BY <1>6 DEF ReadState, registryVars
  <2>2. egress'.day >= 0 /\ egress'.bytes <= MaxUnits /\ egress'.proxy <= MaxUnits
    BY <1>0, <1>1, <1>6 DEF ReadState, Rolled, BudgetBounds
  <2> QED
    BY <2>1, <2>2 DEF BudgetBounds
<1> QED
  BY <1>2, <1>3, <1>4, <1>5, <1>6 DEF BudgetNext

LEMMA BudgetTypes == BudgetSpec => []BudgetTypeOK
<1>1. BudgetInit => BudgetBounds
  BY BudgetAssumption DEF BudgetInit, BudgetBounds, NoCounter
<1>2. BudgetInv /\ BudgetInv' /\ BudgetBounds /\ [BudgetNext]_budgetVars => BudgetBounds'
  BY BudgetBoundsKept
<1>3. BudgetInv /\ BudgetBounds => BudgetTypeOK
  <2> SUFFICES ASSUME BudgetInv, BudgetBounds PROVE BudgetTypeOK
    OBVIOUS
  <2>1. MaxDay \in Nat /\ MaxUnits \in Nat /\ today \in Nat /\ egress \in Monitors
    BY BudgetAssumption DEF BudgetInv, BudgetShape
  <2>2. counters \in [BudgetProviders -> [day : -1..MaxDay, count : Nat]]
    BY DEF BudgetInv, BudgetShape, BudgetBounds, Counters
  <2>3. egress.day \in 0..MaxDay /\ egress.bytes \in 0..MaxUnits /\ egress.proxy \in 0..MaxUnits
    BY <2>1 DEF BudgetInv, BudgetBounds, Monitors
  <2>4. egress \in [day : 0..MaxDay, bytes : 0..MaxUnits, proxy : 0..MaxUnits,
                    level : Levels, proxyLevel : Levels]
    BY <2>1, <2>3 DEF Monitors
  <2>5. today \in 0..MaxDay
    BY <2>1 DEF BudgetBounds
  <2> QED
    BY <2>2, <2>4, <2>5 DEF BudgetTypeOK, BudgetInv, BudgetShape
<1> QED
  BY <1>1, <1>2, <1>3, BudgetsAreSound, PTL DEF BudgetSpec

RateBounds ==
    /\ tick <= MaxTick
    /\ \A k \in LimitKeys : buckets[k].count <= Quota /\ buckets[k].resetAt <= MaxTick + Window

LEMMA RateBoundsKept ==
    ASSUME RateInv, RateBounds, [RateNext]_rateVars
    PROVE  RateBounds'
<1>0. Quota \in Nat \ {0} /\ Window \in Nat \ {0} /\ MaxTick \in Nat /\ tick \in Nat
      /\ buckets \in [LimitKeys -> Buckets]
  BY RateAssumption DEF RateInv
<1>1. CASE UNCHANGED rateVars
  BY <1>1 DEF rateVars, RateBounds
<1>2. CASE Elapse
  BY <1>0, <1>2 DEF Elapse, RateBounds
<1>3. ASSUME NEW k \in LimitKeys, NEW swept \in BOOLEAN, Take(k, swept) PROVE RateBounds'
  <2>1. NoBucket \in Buckets /\ NoBucket.count = 0 /\ NoBucket.resetAt = 0
    BY DEF NoBucket, Buckets
  <2>2. Swept(swept) \in [LimitKeys -> Buckets]
    BY <1>0, <2>1 DEF Swept
  <2>3. ASSUME NEW a \in LimitKeys
        PROVE  Swept(swept)[a].count <= Quota /\ Swept(swept)[a].resetAt <= MaxTick + Window
    BY <1>0, <2>1, <2>3 DEF Swept, RateBounds
  <2>4. PICK b \in Buckets : /\ b = IF buckets[k].resetAt <= tick THEN Fresh ELSE buckets[k]
                             /\ b.count <= Quota /\ b.resetAt <= MaxTick + Window
    <3>1. Fresh \in Buckets /\ Fresh.count = 0 /\ Fresh.resetAt = tick + Window
      BY <1>0 DEF Fresh, Buckets
    <3> QED
      BY <1>0, <3>1 DEF RateBounds
  <2>5. PICK c \in Buckets : c = [b EXCEPT !.count = @ + 1]
    <3>1. [b EXCEPT !.count = @ + 1] \in Buckets
      BY DEF Buckets
    <3> QED
      BY <3>1
  <2>6. c.count = b.count + 1 /\ c.resetAt = b.resetAt
    BY <2>5 DEF Buckets
  <2>7. PICK d \in Buckets : /\ buckets' = [Swept(swept) EXCEPT ![k] = d]
                             /\ d = b \/ (d = c /\ b.count < Quota)
    BY <1>0, <1>3, <2>4, <2>5 DEF Take, Buckets
  <2>8. d.count <= Quota /\ d.resetAt <= MaxTick + Window
    BY <1>0, <2>4, <2>6, <2>7 DEF Buckets
  <2>9. ASSUME NEW a \in LimitKeys
        PROVE  buckets'[a].count <= Quota /\ buckets'[a].resetAt <= MaxTick + Window
    BY <2>2, <2>3, <2>7, <2>8
  <2>10. tick' <= MaxTick
    BY <1>3 DEF Take, RateBounds
  <2> QED
    BY <2>9, <2>10 DEF RateBounds
<1> QED
  BY <1>1, <1>2, <1>3 DEF RateNext

LEMMA RateTypes == RateSpec => []RateTypeOK
<1>1. RateInit => RateBounds
  BY RateAssumption DEF RateInit, RateBounds, NoBucket
<1>2. RateInv /\ RateBounds /\ [RateNext]_rateVars => RateBounds'
  BY RateBoundsKept
<1>3. RateInv /\ RateBounds => RateTypeOK
  <2> SUFFICES ASSUME RateInv, RateBounds PROVE RateTypeOK
    OBVIOUS
  <2>1. Quota \in Nat /\ Window \in Nat /\ MaxTick \in Nat /\ tick \in Nat
        /\ buckets \in [LimitKeys -> Buckets]
    BY RateAssumption DEF RateInv
  <2>2. ASSUME NEW k \in LimitKeys
        PROVE  buckets[k] \in [count : 0..Quota, resetAt : 0..(MaxTick + Window)]
    <3>1. buckets[k].count \in 0..Quota /\ buckets[k].resetAt \in 0..(MaxTick + Window)
      BY <2>1, <2>2 DEF RateBounds, Buckets
    <3> QED
      BY <2>1, <3>1 DEF Buckets
  <2>3. ASSUME NEW k \in LimitKeys, NEW i \in 1..Len(admitted[k])
        PROVE  admitted[k][i] \in 0..MaxTick
    <3>1. PICK calls \in Seq(Nat) : calls = admitted[k]
      BY DEF RateInv
    <3>2. calls[i] \in Nat /\ calls[i] <= tick
      BY <2>3, <3>1, ElementOfSeq DEF RateInv, Accounted, CallsInOrder
    <3> QED
      BY <2>1, <3>1, <3>2 DEF RateBounds
  <2>4. tick \in 0..MaxTick
    BY <2>1 DEF RateBounds
  <2> QED
    BY <2>1, <2>2, <2>3, <2>4 DEF RateTypeOK
<1> QED
  BY <1>1, <1>2, <1>3, RatesAreSound, PTL DEF RateSpec

IssuedSound ==
    /\ issued \subseteq Grants /\ shared \subseteq issued
    /\ expired \subseteq issued /\ saved \subseteq issued
    /\ memory \in [Nodes -> SUBSET issued]

LEMMA IssuedKept ==
    ASSUME IssuedSound, [ProxyNext]_proxyVars
    PROVE  IssuedSound'
<1>0. PICK I \in SUBSET Grants : I = issued
  BY DEF IssuedSound
<1>1. PICK m \in [Nodes -> SUBSET I] : I = issued /\ m = memory
  BY <1>0 DEF IssuedSound
<1>2. CASE UNCHANGED grantVars
  BY <1>2 DEF grantVars, IssuedSound
<1>3. ASSUME NEW n, NEW g \in Grants, Issue(n, g) PROVE IssuedSound'
  <2>1. PICK e : e = expired
    OBVIOUS
  <2>2. issued' = I \cup {g} /\ memory' = [m EXCEPT ![n] = (@ \ e) \cup {g}] /\ UNCHANGED expired
    BY <1>1, <1>3, <2>1 DEF Issue
  <2>3. memory' \in [Nodes -> SUBSET (I \cup {g})]
    BY <2>2
  <2> QED
    BY <1>1, <1>3, <2>2, <2>3 DEF Issue, IssuedSound
<1>4. ASSUME NEW q \in Media, Lookup(q) PROVE IssuedSound'
  <2>1. memory' = m \/ memory' = [m EXCEPT ![At(q)] = @ \ {request[q].grant}]
    BY <1>1, <1>4 DEF Lookup
  <2>2. memory' \in [Nodes -> SUBSET I]
    BY <2>1
  <2> QED
    BY <1>1, <1>4, <2>2 DEF Lookup, IssuedSound
<1>5. ASSUME NEW n \in Nodes, Crash(n) PROVE IssuedSound'
  <2>1. memory' \in [Nodes -> SUBSET I]
    BY <1>1, <1>5 DEF Crash
  <2> QED
    BY <1>1, <1>5, <2>1 DEF Crash, IssuedSound
<1>6. ASSUME NEW q \in Media, RewriteSegment(q) PROVE IssuedSound'
  BY <1>2, <1>3, <1>6 DEF RewriteSegment, NotMinted, Minted
<1>7. ASSUME NEW g \in Grants, Expire(g) PROVE IssuedSound'
  BY <1>7 DEF Expire, IssuedSound
<1>8. ASSUME NEW n \in Nodes, NEW g \in Grants, Resolve(n, g) PROVE IssuedSound'
  BY <1>3, <1>8 DEF Resolve
<1>9. ASSUME NEW q \in Media, Steps(q), ~Lookup(q), ~RewriteSegment(q) PROVE UNCHANGED grantVars
  BY <1>9 DEF Steps, TakeSlot, Fetch, ReadManifest, ReadBuffer, Rewritten, StartStream, Reserve,
     Check, Admit, FreeSlot, Erase, Released
<1>10. ASSUME NEW q \in Media,
              \/ Chunk(q) \/ Close(q)
              \/ \E n \in Nodes, route \in Routes, g \in Grants : Arrive(q, n, route, g)
       PROVE  UNCHANGED grantVars
  BY <1>10 DEF Chunk, Close, Arrive
<1>11. ASSUME \/ UNCHANGED proxyVars \/ \E s \in Stores, k \in Keys : Lapse(s, k)
       PROVE  UNCHANGED grantVars
  BY <1>11 DEF proxyVars, Lapse
<1> QED
  BY <1>2, <1>4, <1>5, <1>6, <1>7, <1>8, <1>9, <1>10, <1>11 DEF ProxyNext

LEMMA ProxyTypes == ProxySpec => []ProxyTypeOK
<1>1. ProxyInit => IssuedSound
  BY DEF ProxyInit, IssuedSound
<1>2. IssuedSound /\ [ProxyNext]_proxyVars => IssuedSound'
  BY IssuedKept
<1>3. ProxyInv /\ IssuedSound => ProxyTypeOK
  <2> SUFFICES ASSUME ProxyInv, IssuedSound PROVE ProxyTypeOK
    OBVIOUS
  <2>1. \A q \in Media : request[q].held # {} =>
            request[q].pc \in {"reserve", "check", "open", "release", "erase"}
    BY DEF ProxyInv, RequestsSound, RequestSound
  <2> QED
    BY <2>1 DEF ProxyInv, RequestsSound, CounterTypes, IssuedSound, ProxyTypeOK
<1> QED
  BY <1>1, <1>2, <1>3, ProxyBegins, AccountsKept, PTL DEF ProxySpec
----------------------------------------------------------------------------
(* The composition.                                                        *)

(* The budgets take no other steps within the composition.                 *)
LEMMA BudgetsWithin == PathSpec => BudgetSpec
<1>1. PathInit => BudgetInit
  BY DEF PathInit
<1>2. [PathNext]_partVars => [BudgetNext]_budgetVars
  BY DEF PathNext, partVars, BudgetStep, RateStep, CacheStep, MediaStep, EgressStep, LookupStep,
         FileStep, FedStep, SubStep, PageStep, ProxyStep, Only
<1> QED
  BY <1>1, <1>2, PTL DEF PathSpec, BudgetSpec

(* Nor does the limiter.                                                   *)
LEMMA RatesWithin == PathSpec => RateSpec
<1>1. PathInit => RateInit
  BY DEF PathInit
<1>2. [PathNext]_partVars => [RateNext]_rateVars
  BY DEF PathNext, partVars, BudgetStep, RateStep, CacheStep, MediaStep, EgressStep, LookupStep,
         FileStep, FedStep, SubStep, PageStep, ProxyStep, Only
<1> QED
  BY <1>1, <1>2, PTL DEF PathSpec, RateSpec

(* Composition: budgets and rate limits hold in it.                        *)
THEOREM LimitsAreHeld == PathSpec => []LimitsHold
<1>1. BudgetsHold /\ RateBounded => LimitsHold
  BY DEF LimitsHold
<1> QED
  BY <1>1, BudgetsWithin, RatesWithin, BudgetsAreKept, RatesAreBounded, PTL

(* Nor does the proxy.                                                     *)
LEMMA ProxyWithin == PathSpec => ProxySpec
<1>1. PathInit => ProxyInit
  BY DEF PathInit
<1>2. [PathNext]_partVars => [ProxyNext]_proxyVars
  BY DEF PathNext, partVars, BudgetStep, RateStep, CacheStep, MediaStep, EgressStep, LookupStep,
         FileStep, FedStep, SubStep, PageStep, ProxyStep, Only
<1> QED
  BY <1>1, <1>2, PTL DEF PathSpec, ProxySpec

(* Composition: the grants are found in it.                                *)
THEOREM GrantsStayFound == PathSpec => LookupFinds
<1> QED
  BY ProxyWithin, GrantsAreFound, PTL

(* Composition: the accounts are kept in it.                               *)
THEOREM AccountsStayKept == PathSpec => []ProxyAccounts
<1>1. MemoryCapHolds /\ AccountsExact /\ GrantsBounded => ProxyAccounts
  BY DEF ProxyAccounts
<1> QED
  BY <1>1, ProxyWithin, AccountsAreKept, PTL
=============================================================================
