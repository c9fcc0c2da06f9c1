------------------------------ MODULE Budgets ------------------------------
(***************************************************************************)
(* The daily budgets of src/capacity/budgets.ts, counted by each process   *)
(* for itself: calls per provider (ProviderBudgetRegistry) and bytes sent  *)
(* (EgressBudgetMonitor).  Both keep the day of their last write and roll  *)
(* over lazily, at the next call, so a read may find yesterday's numbers.  *)
(***************************************************************************)
EXTENDS Integers

CONSTANTS
    BudgetProviders,
    LimitFor,        \* daily calls of each provider, 0 for no limit
    DailyBudget,     \* units of bytes a day, 0 for no budget
    ProxyBudget,     \* of those, through the residential proxy
    ChunkSizes,      \* units one response sends
    MaxDay,          \* bound: days
    MaxUnits         \* bound: units sent in a day

ASSUME BudgetAssumption ==
    /\ LimitFor \in [BudgetProviders -> Nat]
    /\ DailyBudget \in Nat /\ ProxyBudget \in Nat
    /\ ChunkSizes \subseteq Nat /\ MaxDay \in Nat /\ MaxUnits \in Nat

VARIABLES
    today,       \* utcDayKey()
    counters,    \* the registry's records
    exhausted,   \* providers whose exhaustion was reported
    egress,      \* the monitor: day, bytes and levels
    granted,     \* history: calls allowed today
    reports,     \* history: exhaustions reported today
    sent         \* history: units sent today, all and proxied

budgetVars == <<today, counters, exhausted, egress, granted, reports, sent>>
registryVars == <<counters, exhausted, granted, reports>>
monitorVars  == <<egress, sent>>

NoCounter == [day |-> -1, count |-> 0]

BudgetInit ==
    /\ today = 0
    /\ counters = [p \in BudgetProviders |-> NoCounter]
    /\ exhausted = {}
    /\ egress = [day |-> 0, bytes |-> 0, proxy |-> 0, level |-> "ok", proxyLevel |-> "ok"]
    /\ granted = [p \in BudgetProviders |-> 0]
    /\ reports = [p \in BudgetProviders |-> 0]
    /\ sent = [all |-> 0, proxied |-> 0]

Midnight ==
    /\ today < MaxDay
    /\ today' = today + 1
    /\ granted' = [p \in BudgetProviders |-> 0]
    /\ reports' = [p \in BudgetProviders |-> 0]
    /\ sent' = [all |-> 0, proxied |-> 0]
    /\ UNCHANGED <<counters, exhausted, egress>>
----------------------------------------------------------------------------
(* The record consume() works on: a new one on a new day.                  *)
Current(p) ==
    IF counters[p].day = today THEN counters[p] ELSE [day |-> today, count |-> 0]

IsExhausted(p) ==
    LimitFor[p] > 0 /\ counters[p].day = today /\ counters[p].count >= LimitFor[p]

(* BUG: the record of another day is kept.                                 *)
ConsumeNoRoll(p) ==
    /\ LimitFor[p] > 0
    /\ IF counters[p].count < LimitFor[p]
       THEN /\ counters' = [counters EXCEPT ![p] = [day |-> today, count |-> @.count + 1]]
            /\ granted' = [granted EXCEPT ![p] = @ + 1]
            /\ UNCHANGED <<exhausted, reports>>
       ELSE /\ exhausted' = exhausted \cup {p}
            /\ reports' = IF p \in exhausted THEN reports ELSE [reports EXCEPT ![p] = @ + 1]
            /\ UNCHANGED <<counters, granted>>
    /\ UNCHANGED <<today, monitorVars>>

(* consume(): before each upstream call of a provider with a limit.        *)
Consume(p) ==
    LET rec   == Current(p)
        known == IF counters[p].day = today THEN exhausted ELSE exhausted \ {p}
    IN
    /\ LimitFor[p] > 0
    /\ IF rec.count >= LimitFor[p]
       THEN /\ counters' = [counters EXCEPT ![p] = rec]
            /\ exhausted' = known \cup {p}
            /\ reports' = IF p \in known THEN reports ELSE [reports EXCEPT ![p] = @ + 1]
            /\ granted' = granted
       ELSE /\ counters' = [counters EXCEPT ![p] = [rec EXCEPT !.count = @ + 1]]
            /\ exhausted' = known
            /\ granted' = [granted EXCEPT ![p] = @ + 1]
            /\ reports' = reports
    /\ UNCHANGED <<today, monitorVars>>
----------------------------------------------------------------------------
Rolled ==
    IF egress.day = today THEN egress
    ELSE [day |-> today, bytes |-> 0, proxy |-> 0, level |-> "ok", proxyLevel |-> "ok"]

(* The default warnAt is three quarters of the budget.                     *)
Level(bytes, budget, last) ==
    CASE budget = 0              -> last
      [] budget > 0 /\ bytes >= budget -> "exceeded"
      [] budget > 0 /\ bytes < budget /\ 4 * bytes >= 3 * budget -> "warning"
      [] OTHER                   -> "ok"

(* record(): a response of `n` units, through the proxy or not.            *)
Record(n, proxied) ==
    LET bytes == Rolled.bytes + n
        proxy == Rolled.proxy + (IF proxied THEN n ELSE 0)
    IN
    /\ sent.all + n <= MaxUnits
    /\ sent' = [all |-> sent.all + n,
                proxied |-> sent.proxied + (IF proxied THEN n ELSE 0)]
    /\ egress' = IF n <= 0 THEN egress
                 ELSE [day |-> today, bytes |-> bytes, proxy |-> proxy,
                       level |-> Level(bytes, DailyBudget, Rolled.level),
                       proxyLevel |-> Level(proxy, ProxyBudget, Rolled.proxyLevel)]
    /\ UNCHANGED <<today, registryVars>>

(* state(): what /health/status and the metrics read.                      *)
ReadState ==
    /\ egress' = Rolled
    /\ UNCHANGED <<today, registryVars, sent>>
----------------------------------------------------------------------------
BudgetNext ==
    \/ Midnight
    \/ \E p \in BudgetProviders : Consume(p)
    \/ \E n \in ChunkSizes, proxied \in BOOLEAN : Record(n, proxied)
    \/ ReadState

BudgetSpec == BudgetInit /\ [][BudgetNext]_budgetVars
----------------------------------------------------------------------------
Levels == {"ok", "warning", "exceeded"}

BudgetTypeOK ==
    /\ today \in 0..MaxDay
    /\ counters \in [BudgetProviders -> [day : -1..MaxDay, count : Nat]]
    /\ exhausted \subseteq BudgetProviders
    /\ egress \in [day : 0..MaxDay, bytes : 0..MaxUnits, proxy : 0..MaxUnits,
                   level : Levels, proxyLevel : Levels]
    /\ granted \in [BudgetProviders -> Nat] /\ reports \in [BudgetProviders -> Nat]

(* A provider is called at most its limit on a day and, as the selection   *)
(* skips it by isExhausted, is not skipped before; the exhaustion is       *)
(* reported once a day, across midnights in any order with the calls.      *)
CallsWithinBudget ==
    \A p \in BudgetProviders : LimitFor[p] > 0 =>
        /\ granted[p] <= LimitFor[p]
        /\ IsExhausted(p) <=> granted[p] = LimitFor[p]
        /\ reports[p] <= 1

(* The level state() reports is that of the bytes sent since midnight,     *)
(* whether or not anything was recorded since: the lazy roll-over neither  *)
(* keeps yesterday's alarm nor forgets a byte of today.                    *)
EgressLevelTrue ==
    /\ Rolled.bytes = sent.all /\ Rolled.proxy = sent.proxied
    /\ Rolled.level = Level(sent.all, DailyBudget, "ok")
    /\ Rolled.proxyLevel = Level(sent.proxied, ProxyBudget, "ok")

BudgetsHold == CallsWithinBudget /\ EgressLevelTrue
=============================================================================
