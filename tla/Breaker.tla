------------------------------- MODULE Breaker -------------------------------
(***************************************************************************)
(* The circuit breaker of one provider as a value: the part of             *)
(* ReliabilityRegistry (src/reliability/circuit.ts) that the federation    *)
(* and the subtitle aggregation use.  `cooled`: the time an open circuit   *)
(* stays open is over; `trial`: the half-open trial is taken.  The number  *)
(* of successes that close a circuit is its default, 1.  ProviderCircuit   *)
(* has the quarantine and the gate besides.                                *)
(***************************************************************************)
EXTENDS Integers

CONSTANT FaultLimit   \* failureThreshold

ASSUME BreakerAssumption == FaultLimit \in Nat \ {0}

Breakers == [state : {"closed", "open", "half-open"}, cooled : BOOLEAN,
             failures : 0..FaultLimit, trial : BOOLEAN]

NewBreaker == [state |-> "closed", cooled |-> FALSE, failures |-> 0, trial |-> FALSE]

(* getState(): an open circuit whose time is over is half-open.            *)
CircuitNow(c) == IF c.state = "open" /\ c.cooled
                 THEN [c EXCEPT !.state = "half-open", !.cooled = FALSE] ELSE c

(* isProbeAllowed(), and the circuit it leaves behind.                     *)
TrialAllowed(c) == CircuitNow(c).state = "closed"
                   \/ (CircuitNow(c).state = "half-open" /\ ~c.trial)
TrialTaken(c) == IF CircuitNow(c).state = "half-open"
                 THEN [CircuitNow(c) EXCEPT !.trial = TRUE] ELSE CircuitNow(c)

Reopened(c) == [c EXCEPT !.state = "open", !.cooled = FALSE]

(* recordFailure() of a kind that counts, with `failures` counted up to    *)
(* the limit.                                                              *)
AfterFailure(c) ==
    LET n == IF c.failures < FaultLimit THEN c.failures + 1 ELSE FaultLimit
        d == [c EXCEPT !.failures = n]
    IN  IF c.state = "half-open" THEN [Reopened(d) EXCEPT !.trial = FALSE]
        ELSE IF c.state = "closed" /\ n >= FaultLimit THEN Reopened(d) ELSE d

(* BUG: the trial is not given back.                                       *)
AfterSuccessKeepsTrial(c) ==
    IF c.state = "half-open" THEN [c EXCEPT !.state = "closed", !.failures = 0]
    ELSE IF c.state = "closed" /\ c.failures > 0 THEN [c EXCEPT !.failures = @ - 1] ELSE c

(* recordSuccess().                                                        *)
AfterSuccess(c) ==
    IF c.state = "half-open" THEN [c EXCEPT !.state = "closed", !.failures = 0, !.trial = FALSE]
    ELSE IF c.state = "closed" /\ c.failures > 0 THEN [c EXCEPT !.failures = @ - 1] ELSE c
=============================================================================
