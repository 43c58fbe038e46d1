--------------------------- MODULE SpecialistRuns ---------------------------
(***************************************************************************)
(* agents/base_agent.py SpecialistAgent.review with what it calls: the     *)
(* budget check, the retrieval of context and the model call, each behind  *)
(* a reliability Guard (breaker, retry, timeout), and the event rows.      *)
(* Callers are the review() coroutines a process runs at a time: four per  *)
(* review, several reviews.  They interleave at every await and share the  *)
(* breakers and the ledger.                                                *)
(***************************************************************************)
EXTENDS CircuitBreaker, FiniteSets

CONSTANTS
    Callers,        \* the review() calls under way at a time
    Budgeted,       \* whether the agents were built with a BudgetGuard
    Cap,            \* daily_cap_usd, in units of cost
    Costs,          \* what one model call may cost; 0 when usage is missing
    MaxCost,        \* the most one call costs
    Attempts,       \* a Guard's attempts, by dependency
    Rounds,         \* bound: reviews one caller takes part in
    MaxFaults,      \* bound: failures and cancellations
    Faults          \* "error", "lost_reply" and "cancel" may happen

Dependencies == {"tiger-cost", "openai-embeddings", "tiger-retrieval", "openai-chat"}

ASSUME RunsAssumption ==
    /\ Deps = Dependencies
    /\ IsFiniteSet(Callers)
    /\ Budgeted \in BOOLEAN
    /\ Cap \in Nat
    /\ MaxCost \in Nat
    /\ Costs \subseteq 0..MaxCost
    /\ Attempts \in [Deps -> Nat \ {0}]
    /\ Rounds \in Nat
    /\ MaxFaults \in Nat
    /\ Faults \subseteq {"error", "lost_reply", "cancel"}

VARIABLES
    pc,             \* the await a caller is at
    tries,          \* attempts of the guarded call it made, 0: not let in yet
    outcome,        \* outcome of the span
    rows,           \* the run's agent_events rows, by event type
    spent,          \* SUM(cost_usd) of today's rows
    rounds, faults

vars == <<breaker_vars, pc, tries, outcome, rows, spent, rounds, faults>>

EventTypes == {"span.start", "tool.call", "llm.call", "span.end"}
Settled == {"idle", "returned", "raised"}
Labels == Settled \cup {"check", "start", "embed", "fetch", "tool", "parse", "book", "end"}

\* The dependency a guarded await calls.
Guarded == [check |-> "tiger-cost", embed |-> "openai-embeddings",
            fetch |-> "tiger-retrieval", parse |-> "openai-chat"]

\* The event type an emitting await writes, and where the run goes next.
Emitting == [start |-> "span.start", tool |-> "tool.call",
             book |-> "llm.call", end |-> "span.end"]

TypeOK ==
    /\ BreakerTypeOK
    /\ pc \in [Callers -> Labels]
    /\ tries \in [Callers -> Nat]
    /\ outcome \in [Callers -> {"ok", "empty", "error"}]
    /\ rows \in [Callers -> [EventTypes -> {"no", "written", "unanswered"}]]
    /\ spent \in Nat
    /\ rounds \in [Callers -> 0..Rounds]
    /\ faults \in 0..MaxFaults

Init ==
    /\ BreakerInit
    /\ pc = [c \in Callers |-> "idle"]
    /\ tries = [c \in Callers |-> 0]
    /\ outcome = [c \in Callers |-> "ok"]
    /\ rows = [c \in Callers |-> [e \in EventTypes |-> "no"]]
    /\ spent = 0
    /\ rounds = [c \in Callers |-> 0]
    /\ faults = 0

Goto(c, label) == pc' = [pc EXCEPT ![c] = label]

Fault(kind) ==
    /\ kind \in Faults
    /\ faults < MaxFaults
    /\ faults' = faults + 1

\* An exception leaves review(): through the finally clause once the span has
\* started, at once before that and from the finally clause itself.
Raise(c) ==
    IF pc[c] \in {"check", "start", "end"}
    THEN Goto(c, "raised") /\ UNCHANGED outcome
    ELSE Goto(c, "end") /\ outcome' = [outcome EXCEPT ![c] = "error"]

-----------------------------------------------------------------------------
\* The aggregator's graph calls review() with a review_id.
Review(c) ==
    /\ pc[c] \in Settled
    /\ rounds[c] < Rounds
    /\ rounds' = [rounds EXCEPT ![c] = @ + 1]
    /\ outcome' = [outcome EXCEPT ![c] = "ok"]
    /\ rows' = [rows EXCEPT ![c] = [e \in EventTypes |-> "no"]]
    /\ Goto(c, IF Budgeted THEN "check" ELSE "start")
    /\ UNCHANGED <<breaker_vars, tries, spent, faults>>

-----------------------------------------------------------------------------
(* Guard.__call__ *)

At(c, label) == pc[c] = label
Calling(c, d) == pc[c] \in DOMAIN Guarded /\ Guarded[pc[c]] = d /\ tries[c] > 0

\* Mutant: the breaker is not asked.
CallBegins_Unasked(c) ==
    /\ pc[c] \in DOMAIN Guarded /\ tries[c] = 0
    /\ tries' = [tries EXCEPT ![c] = 1]
    /\ UNCHANGED <<breaker_vars, pc, outcome, rows, spent, rounds, faults>>

CallBegins(c) ==
    /\ pc[c] \in DOMAIN Guarded /\ tries[c] = 0
    /\ before_call(Guarded[pc[c]])
    /\ tries' = [tries EXCEPT ![c] = 1]
    /\ UNCHANGED <<breaker_vars, pc, outcome, rows, spent, rounds, faults>>

\* CircuitOpenError.
CallRejected(c) ==
    /\ pc[c] \in DOMAIN Guarded /\ tries[c] = 0
    /\ ~before_call(Guarded[pc[c]])
    /\ Raise(c)
    /\ UNCHANGED <<breaker_vars, tries, rows, spent, rounds, faults>>

\* An attempt fails or runs into its timeout: retry_async tries again, without
\* asking the breaker, while it has attempts left and the exception is one to
\* retry on; the last failure counts for the breaker.
AttemptFails(c) ==
    /\ pc[c] \in DOMAIN Guarded /\ tries[c] > 0
    /\ Fault("error")
    /\ LET d == Guarded[pc[c]] IN
       \/ /\ tries[c] < Attempts[d]
          /\ tries' = [tries EXCEPT ![c] = @ + 1]
          /\ UNCHANGED <<breaker_vars, pc, outcome>>
       \/ /\ on_failure(d)
          /\ tries' = [tries EXCEPT ![c] = 0]
          /\ Raise(c)
    /\ UNCHANGED <<rows, spent, rounds>>

\* The dependency answers: what the await that follows the guard goes on to.
Answered(c) ==
    /\ pc[c] \in DOMAIN Guarded /\ tries[c] > 0
    /\ on_success(Guarded[pc[c]])
    /\ tries' = [tries EXCEPT ![c] = 0]

-----------------------------------------------------------------------------
(* review *)

\* Mutant: the cap itself may still be spent.
CapReached_AtCap == spent > Cap

CapReached == spent >= Cap

\* BudgetGuard.check with the day's sum from the ledger: BudgetExceeded before
\* any span when the cap is reached.
CheckBudget(c) ==
    /\ At(c, "check") /\ Answered(c)
    /\ Goto(c, IF CapReached THEN "raised" ELSE "start")
    /\ UNCHANGED <<outcome, rows, spent, rounds, faults>>

\* ContextRetriever.retrieve: embed the query, then the hybrid search.
Retrieve(c) ==
    /\ \/ At(c, "embed") /\ Goto(c, "fetch")
       \/ At(c, "fetch") /\ Goto(c, "tool")
    /\ Answered(c)
    /\ UNCHANGED <<outcome, rows, spent, rounds, faults>>

\* The completion arrives; a refusal parses to None and reports nothing.
Parse(c) ==
    /\ At(c, "parse") /\ Answered(c)
    /\ Goto(c, "book")
    /\ \E result \in {"ok", "empty"} : outcome' = [outcome EXCEPT ![c] = result]
    /\ UNCHANGED <<rows, spent, rounds, faults>>

\* AgentEventSink.emit inserts a row; the one of llm.call carries its cost.
Inserted(c) ==
    IF pc[c] = "book"
    THEN \E cost \in Costs : spent' = spent + cost
    ELSE UNCHANGED spent

Row(c, written) == rows' = [rows EXCEPT ![c][Emitting[pc[c]]] = written]

\* Mutant: a failed write of the cost is swallowed.
EmitFails_Swallowed(c) ==
    /\ pc[c] \in DOMAIN Emitting
    /\ Fault("error")
    /\ Row(c, "unanswered")
    /\ IF At(c, "book") THEN Goto(c, "end") /\ UNCHANGED outcome ELSE Raise(c)
    /\ UNCHANGED <<breaker_vars, tries, spent, rounds>>

Emit(c) ==
    /\ pc[c] \in DOMAIN Emitting
    /\ Inserted(c) /\ Row(c, "written")
    /\ Goto(c, CASE pc[c] = "start" -> "embed"
                 [] pc[c] = "tool" -> "parse"
                 [] pc[c] = "book" -> "end"
                 [] pc[c] = "end" -> IF outcome[c] = "error" THEN "raised" ELSE "returned")
    /\ UNCHANGED <<breaker_vars, tries, outcome, rounds, faults>>

\* The insert fails or is cancelled, or takes effect and is not answered.
EmitFails(c) ==
    /\ pc[c] \in DOMAIN Emitting
    /\ \/ (Fault("error") \/ Fault("cancel")) /\ UNCHANGED spent
       \/ Fault("lost_reply") /\ Inserted(c)
    /\ Row(c, "unanswered")
    /\ Raise(c)
    /\ UNCHANGED <<breaker_vars, tries, rounds>>

\* Mutant: only Exception is an error, and CancelledError is not one.
Cancel_NotAnError(c) ==
    /\ pc[c] \in DOMAIN Guarded /\ tries[c] > 0
    /\ Fault("cancel")
    /\ tries' = [tries EXCEPT ![c] = 0]
    /\ Goto(c, IF pc[c] = "check" THEN "raised" ELSE "end")
    /\ UNCHANGED <<breaker_vars, outcome, rows, spent, rounds>>

\* A sibling failed, or job_timeout or a shutdown cancels the job: a guarded
\* await raises CancelledError, which is not retried and no breaker counts.
Cancel(c) ==
    /\ pc[c] \in DOMAIN Guarded /\ tries[c] > 0
    /\ Fault("cancel")
    /\ tries' = [tries EXCEPT ![c] = 0]
    /\ Raise(c)
    /\ UNCHANGED <<breaker_vars, rows, spent, rounds>>

BreakerCools(d) ==
    /\ Cooldown(d)
    /\ UNCHANGED <<pc, tries, outcome, rows, spent, rounds, faults>>

-----------------------------------------------------------------------------
Step(c) ==
    \/ CallBegins(c) \/ CallRejected(c)
    \/ CheckBudget(c) \/ Retrieve(c) \/ Parse(c) \/ Emit(c)

Next ==
    \/ \E c \in Callers : Review(c) \/ Step(c) \/ AttemptFails(c) \/ EmitFails(c) \/ Cancel(c)
    \/ \E d \in Deps : BreakerCools(d)

Spec == Init /\ [][Next]_vars

-----------------------------------------------------------------------------
\* Past the budget check with the cost of its call not in the ledger yet.
Unbooked == {c \in Callers : pc[c] \in {"start", "embed", "fetch", "tool", "parse", "book"}}

\* The cap may be overshot by one call in flight per caller, and by no more
\* (economics/budget.py:9-11), although every caller reads the ledger before
\* its call and writes to it afterwards.
OvershootBounded ==
    Budgeted => spent = 0 \/ spent < Cap + MaxCost * Cardinality(Callers)

\* In one outage a dependency is called at most Threshold - 1 times and then
\* once per caller and cooldown, calls still under way included: the breaker
\* is shared, so callers do not find the outage each for themselves
\* (agents/llm_client.py:18-21).
OutageCostsFewCalls ==
    \A d \in Deps :
        failures[d] + Cardinality({c \in Callers : Calling(c, d)})
            <= Threshold - 1 + Cardinality(Callers) * (cooldowns[d] + 1)

\* A review() that returns has all its rows, the cost among them; one that
\* raises after its span started has at least tried to end it, as an error.
SpansTellTheOutcome ==
    \A c \in Callers :
        /\ pc[c] = "returned" =>
              /\ outcome[c] # "error"
              /\ \A e \in EventTypes : rows[c][e] = "written"
        /\ pc[c] = "raised" /\ rows[c]["span.start"] = "written" =>
              /\ rows[c]["span.end"] # "no"
              /\ rows[c]["span.end"] = "written" => outcome[c] = "error"

-----------------------------------------------------------------------------
(* The inductive invariant *)

CallingOf(d) == {c \in Callers : Calling(c, d)}

OutageInv(d) == OutageBound(state[d], failures[d], cooldowns[d],
                            Cardinality(CallingOf(d)), Cardinality(Callers))

AwaitInv(c) == tries[c] > 0 => pc[c] \in DOMAIN Guarded

\* The calls whose cost is still to come are paid for below the cap.
LedgerInv ==
    Budgeted =>
        \/ spent = 0 /\ Unbooked = {}
        \/ spent + MaxCost * Cardinality(Unbooked) < Cap + MaxCost * Cardinality(Callers)

Written(c, e) == rows[c][e] = "written"

\* What each await of review() may rely on.
SpanInv(c) ==
    /\ pc[c] \in {"check", "start"} =>
          outcome[c] = "ok" /\ \A e \in EventTypes : rows[c][e] = "no"
    /\ pc[c] \in {"embed", "fetch", "tool", "parse", "book", "end"} =>
          Written(c, "span.start") /\ rows[c]["span.end"] = "no"
    /\ pc[c] \in {"embed", "fetch", "tool", "parse", "book"} => outcome[c] # "error"
    /\ pc[c] \in {"parse", "book"} => Written(c, "tool.call")
    /\ pc[c] = "end" /\ outcome[c] # "error" => Written(c, "tool.call") /\ Written(c, "llm.call")

IInv ==
    /\ TypeOK
    /\ \A d \in Deps : OutageInv(d)
    /\ \A c \in Callers : AwaitInv(c) /\ SpanInv(c)
    /\ LedgerInv
    /\ SpansTellTheOutcome
=============================================================================
