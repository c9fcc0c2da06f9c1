---------------------------- MODULE RateLimiter ----------------------------
(***************************************************************************)
(* The fixed-window limiter of src/security/rateLimit.ts.  A bucket counts *)
(* from its first request for one window; every 64th call also deletes the *)
(* buckets that have run out, which 64 is abstracted to "any call may".    *)
(***************************************************************************)
EXTENDS Integers, Sequences

CONSTANTS
    LimitKeys,   \* rateLimitKey(bucket, actor, ip)
    Quota,       \* calls a window allows
    Window,      \* its length in ticks
    MaxTick      \* bound: ticks

ASSUME RateAssumption ==
    Quota \in Nat \ {0} /\ Window \in Nat \ {0} /\ MaxTick \in Nat

VARIABLES
    tick,        \* Date.now()
    buckets,     \* the map; NoBucket where there is no entry
    admitted     \* history: the ticks at which a key's calls were allowed

rateVars == <<tick, buckets, admitted>>

NoBucket == [count |-> 0, resetAt |-> 0]

RateInit ==
    /\ tick = 0
    /\ buckets = [k \in LimitKeys |-> NoBucket]
    /\ admitted = [k \in LimitKeys |-> << >>]

Elapse ==
    /\ tick < MaxTick
    /\ tick' = tick + 1
    /\ UNCHANGED <<buckets, admitted>>

Swept(swept) ==
    [k \in LimitKeys |-> IF swept /\ buckets[k].resetAt <= tick THEN NoBucket
                         ELSE buckets[k]]

Fresh == [count |-> 0, resetAt |-> tick + Window]

(* BUG: the quota is checked with > .                                      *)
TakeOneMore(k, swept) ==
    LET b == IF buckets[k].resetAt <= tick THEN Fresh ELSE buckets[k] IN
    /\ buckets' = [Swept(swept) EXCEPT ![k] =
                       IF b.count > Quota THEN b ELSE [b EXCEPT !.count = @ + 1]]
    /\ admitted' = IF b.count > Quota THEN admitted
                   ELSE [admitted EXCEPT ![k] = Append(@, tick)]
    /\ tick' = tick

(* take(): check and consume one unit.                                     *)
Take(k, swept) ==
    LET b == IF buckets[k].resetAt <= tick THEN Fresh ELSE buckets[k] IN
    /\ IF b.count >= Quota
       THEN /\ buckets' = [Swept(swept) EXCEPT ![k] = b]
            /\ admitted' = admitted
       ELSE /\ buckets' = [Swept(swept) EXCEPT ![k] = [b EXCEPT !.count = @ + 1]]
            /\ admitted' = [admitted EXCEPT ![k] = Append(@, tick)]
    /\ tick' = tick

RateNext == Elapse \/ \E k \in LimitKeys, swept \in BOOLEAN : Take(k, swept)

RateSpec == RateInit /\ [][RateNext]_rateVars
----------------------------------------------------------------------------
RateTypeOK ==
    /\ tick \in 0..MaxTick
    /\ buckets \in [LimitKeys -> [count : 0..Quota, resetAt : 0..(MaxTick + Window)]]
    /\ \A k \in LimitKeys : \A i \in 1..Len(admitted[k]) : admitted[k][i] \in 0..MaxTick

(* However the calls fall on the windows, a stretch of time as long as one *)
(* admits at most two quotas of a key: windows start a window apart or     *)
(* more, each at a call of its own, and every admitted call lies in one,   *)
(* also when the buckets are swept between.                                *)
RateBounded ==
    \A k \in LimitKeys :
        LET calls == admitted[k] IN
        /\ \A i \in 1..Len(calls) :
              i + 2 * Quota <= Len(calls) => calls[i + 2 * Quota] - calls[i] >= Window
        /\ \E starts \in SUBSET (1..Len(calls)) :
              /\ \A i, j \in starts : i < j => calls[j] - calls[i] >= Window
              /\ \A i \in 1..Len(calls) : \E j \in starts :
                    j <= i /\ i < j + Quota /\ calls[i] - calls[j] < Window
=============================================================================
