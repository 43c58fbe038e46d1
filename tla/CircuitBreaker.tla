--------------------------- MODULE CircuitBreaker ---------------------------
(***************************************************************************)
(* reliability/circuit_breaker.py: one breaker per downstream dependency,  *)
(* shared by every caller in the process.  Time appears only as Cooldown:  *)
(* reset_after_seconds have passed since the breaker last opened.          *)
(***************************************************************************)
EXTENDS Naturals

CONSTANTS
    Deps,           \* the dependencies that have a breaker
    Threshold       \* failure_threshold

ASSUME BreakerAssumption == Threshold \in Nat \ {0}

VARIABLES
    failures,       \* _failures
    state,          \* what _opened_at and the clock make of it
    cooldowns       \* history: cooldowns since the last success

breaker_vars == <<failures, state, cooldowns>>

BreakerStates == {"closed", "open", "half_open"}

BreakerTypeOK ==
    /\ failures \in [Deps -> Nat]
    /\ state \in [Deps -> BreakerStates]
    /\ cooldowns \in [Deps -> Nat]

BreakerInit ==
    /\ failures = [d \in Deps |-> 0]
    /\ state = [d \in Deps |-> "closed"]
    /\ cooldowns = [d \in Deps |-> 0]

\* A half-open breaker lets every call through, not one.
before_call(d) == state[d] # "open"

on_success(d) ==
    /\ failures' = [failures EXCEPT ![d] = 0]
    /\ state' = [state EXCEPT ![d] = "closed"]
    /\ cooldowns' = [cooldowns EXCEPT ![d] = 0]

\* Mutant: one failure too many before the breaker opens.
on_failure_Late(d) ==
    /\ failures' = [failures EXCEPT ![d] = @ + 1]
    /\ state' = [state EXCEPT ![d] = IF failures'[d] > Threshold THEN "open" ELSE @]
    /\ UNCHANGED cooldowns

\* A failure at or past the threshold opens the breaker, or opens it anew.
on_failure(d) ==
    /\ failures' = [failures EXCEPT ![d] = @ + 1]
    /\ state' = [state EXCEPT ![d] = IF failures'[d] >= Threshold THEN "open" ELSE @]
    /\ UNCHANGED cooldowns

Cooldown(d) ==
    /\ state[d] = "open"
    /\ state' = [state EXCEPT ![d] = "half_open"]
    /\ cooldowns' = [cooldowns EXCEPT ![d] = @ + 1]
    /\ UNCHANGED failures

-----------------------------------------------------------------------------
\* The budget of an outage in breaker state s, after f failures and k cooldowns,
\* while `calls` of n callers are calling.  An open breaker has room for what
\* is under way only; a cooldown makes room for one more call of each caller.
OutageBound(s, f, k, calls, n) ==
    /\ s = "closed" <=> f < Threshold
    /\ s = "open" => f + calls <= Threshold - 1 + n * (k + 1)
    /\ s = "half_open" => f <= Threshold - 1 + n * k
=============================================================================
