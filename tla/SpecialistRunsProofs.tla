------------------------ MODULE SpecialistRunsProofs ------------------------
(***************************************************************************)
(* Proofs about SpecialistRuns for any number of concurrent review() calls,*)
(* any cap, costs, thresholds, attempts and faults.                        *)
(***************************************************************************)
EXTENDS SpecialistRuns, CircuitBreakerProofs

LEMMA RunsInit == Init => IInv
<1> SUFFICES ASSUME Init PROVE IInv
  OBVIOUS
<1>1. TypeOK
  BY RunsAssumption DEF Init, TypeOK, BreakerInit, BreakerTypeOK, BreakerStates, Labels, Settled
<1>2. ASSUME NEW d \in Deps PROVE OutageInv(d)
  BY BreakerAssumption DEF Init, BreakerInit, OutageInv, OutageBound
<1>3. \A c \in Callers : AwaitInv(c) /\ SpanInv(c)
  BY DEF Init, AwaitInv, SpanInv
<1>4. LedgerInv
  BY DEF Init, LedgerInv, Unbooked
<1>5. SpansTellTheOutcome
  BY DEF Init, SpansTellTheOutcome
<1> QED BY <1>1, <1>2, <1>3, <1>4, <1>5 DEF IInv

-----------------------------------------------------------------------------
(* The breakers *)

OthersStay(c) == \A b \in Callers \ {c} : pc'[b] = pc[b] /\ tries'[b] = tries[b]

\* A step of one caller moves no other one in or out of a call.
LEMMA CallingChange ==
    ASSUME TypeOK, NEW c \in Callers, OthersStay(c), NEW d \in Deps
    PROVE  /\ CallingOf(d) \in SUBSET Callers /\ CallingOf(d)' \in SUBSET Callers
           /\ CallingOf(d)' \ {c} = CallingOf(d) \ {c}
           /\ tries'[c] = 0 => c \notin CallingOf(d)'
  BY DEF CallingOf, Calling, OthersStay

\* A step that asks no breaker: the caller is past its call, or still at it, or
\* was let in.
LEMMA OutageQuiet ==
    ASSUME IInv, NEW c \in Callers, OthersStay(c), UNCHANGED breaker_vars,
           \/ tries'[c] = 0
           \/ /\ pc'[c] = pc[c] /\ pc[c] \in DOMAIN Guarded
              /\ tries[c] > 0 \/ before_call(Guarded[pc[c]]),
           NEW d \in Deps
    PROVE  OutageInv(d)'
<1> DEFINE now == Cardinality(CallingOf(d))
           later == Cardinality(CallingOf(d)')
           n == Cardinality(Callers)
<1>1. /\ state[d] \in BreakerStates /\ failures[d] \in Nat /\ cooldowns[d] \in Nat
      /\ OutageBound(state[d], failures[d], cooldowns[d], now, n)
  BY DEF IInv, TypeOK, BreakerTypeOK, OutageInv
<1>2. n \in Nat /\ now \in 0..n /\ later \in 0..n
  BY CallingChange, CountOne, RunsAssumption DEF IInv
<1>3. later <= now \/ state[d] # "open"
  <2>1. CASE c \in CallingOf(d) \/ c \notin CallingOf(d)'
    BY <2>1, CallingChange, CountOne, RunsAssumption DEF IInv
  <2>2. CASE c \notin CallingOf(d) /\ c \in CallingOf(d)'
    BY <2>2, CallingChange DEF IInv, CallingOf, Calling, before_call
  <2> QED BY <2>1, <2>2
<1>4. OutageBound(state[d], failures[d], cooldowns[d], later, n)
  BY <1>1, <1>2, <1>3, CallsChange
<1> QED BY <1>4 DEF OutageInv, breaker_vars

\* A guarded call ends, and its breaker hears of it.
LEMMA OutageEnds ==
    ASSUME IInv, NEW c \in Callers, OthersStay(c), tries[c] > 0, tries'[c] = 0,
           on_success(Guarded[pc[c]]) \/ on_failure(Guarded[pc[c]]),
           pc[c] \in DOMAIN Guarded,
           NEW d \in Deps
    PROVE  OutageInv(d)' /\ BreakerTypeOK'
<1> DEFINE e == Guarded[pc[c]]
           now == Cardinality(CallingOf(d))
           later == Cardinality(CallingOf(d)')
           n == Cardinality(Callers)
<1>1. /\ TypeOK /\ BreakerTypeOK /\ e \in Deps
      /\ state[d] \in BreakerStates /\ failures[d] \in Nat /\ cooldowns[d] \in Nat
      /\ OutageBound(state[d], failures[d], cooldowns[d], now, n)
  BY RunsAssumption DEF IInv, TypeOK, BreakerTypeOK, OutageInv, Guarded, Dependencies
<1>2. n \in Nat /\ now \in 0..n /\ later \in 0..n /\ later <= now
  BY CallingChange, CountOne, RunsAssumption DEF IInv
<1>3. d = e => later + 1 <= now
  <2>1. d = e => c \in CallingOf(d) /\ c \notin CallingOf(d)'
    BY <1>1, CallingChange DEF CallingOf, Calling
  <2> QED BY <1>1, <2>1, CallingChange, CountOne, RunsAssumption
<1>4. CASE d # e
  <2>1. state'[d] = state[d] /\ failures'[d] = failures[d] /\ cooldowns'[d] = cooldowns[d]
    BY <1>1, <1>4, OthersUnchanged
  <2>2. OutageBound(state[d], failures[d], cooldowns[d], later, n)
    BY <1>1, <1>2, CallsChange
  <2> QED BY <1>1, <2>1, <2>2, BreakerTyped DEF OutageInv
<1>5. CASE d = e
  <2>1. OutageBound(state'[d], failures'[d], cooldowns'[d], later, n)
    BY <1>1, <1>2, <1>3, <1>5, SuccessResets, FailureCounts
  <2> QED BY <1>1, <2>1, BreakerTyped DEF OutageInv
<1> QED BY <1>4, <1>5

LEMMA OutageCools ==
    ASSUME IInv, NEW e \in Deps, BreakerCools(e), NEW d \in Deps
    PROVE  OutageInv(d)' /\ BreakerTypeOK'
<1> DEFINE now == Cardinality(CallingOf(d))
           n == Cardinality(Callers)
<1>1. /\ TypeOK /\ BreakerTypeOK /\ Cooldown(e)
      /\ OutageBound(state[d], failures[d], cooldowns[d], now, n)
  BY DEF IInv, TypeOK, OutageInv, BreakerCools
<1>2. n \in Nat /\ now \in 0..n
  BY FS_Subset, FS_CardinalityType, RunsAssumption DEF CallingOf
<1>3. Cardinality(CallingOf(d)') = now
  BY DEF CallingOf, Calling, BreakerCools
<1>4. OutageBound(state'[d], failures'[d], cooldowns'[d], now, n)
  BY <1>1, <1>2, CooldownMakesRoom, OthersUnchanged
<1> QED BY <1>1, <1>3, <1>4, BreakerTyped DEF OutageInv

-----------------------------------------------------------------------------
(* The ledger *)

Between == {"start", "embed", "fetch", "tool", "parse", "book"}

LEMMA UnbookedChange ==
    ASSUME TypeOK, NEW c \in Callers, OthersStay(c)
    PROVE  /\ Unbooked \in SUBSET Callers /\ Unbooked' \in SUBSET Callers
           /\ Unbooked' \ {c} = Unbooked \ {c}
           /\ c \in Unbooked <=> pc[c] \in Between
           /\ c \in Unbooked' <=> pc'[c] \in Between
  BY DEF Unbooked, Between, OthersStay

\* Nobody enters the span here, and the ledger grows by the call of one who leaves.
LEMMA LedgerKept ==
    ASSUME IInv, NEW c \in Callers, OthersStay(c),
           \/ spent' = spent /\ (pc[c] \in Between \/ pc'[c] \notin Between)
           \/ /\ pc[c] \in Between /\ pc'[c] \notin Between
              /\ \E cost \in Costs : spent' = spent + cost
    PROVE  LedgerInv'
<1> SUFFICES ASSUME Budgeted
             PROVE  \/ spent' = 0 /\ Unbooked' = {}
                    \/ spent' + MaxCost * Cardinality(Unbooked')
                         < Cap + MaxCost * Cardinality(Callers)
  BY DEF LedgerInv
<1> DEFINE now == Cardinality(Unbooked)
           later == Cardinality(Unbooked')
<1>1. TypeOK /\ LedgerInv /\ spent \in Nat /\ MaxCost \in Nat
  BY RunsAssumption DEF IInv, TypeOK
<1>2. now \in Nat /\ later \in Nat /\ later <= now
  <2>1. now \in 0..Cardinality(Callers) /\ later \in 0..Cardinality(Callers)
    BY <1>1, UnbookedChange, CountOne, RunsAssumption
  <2>2. c \in Unbooked \/ c \notin Unbooked'
    BY <1>1, UnbookedChange
  <2>3. later <= now
    BY <1>1, <2>2, UnbookedChange, CountOne, RunsAssumption
  <2>4. Cardinality(Callers) \in Nat
    BY FS_CardinalityType, RunsAssumption
  <2> QED BY <2>1, <2>3, <2>4
<1>3. CASE spent = 0 /\ Unbooked = {}
  <2>1. pc[c] \notin Between /\ spent' = spent /\ pc'[c] \notin Between
    BY <1>1, <1>3, UnbookedChange
  <2>2. Unbooked' = {}
    BY <1>1, <1>3, <2>1, UnbookedChange
  <2> QED BY <1>3, <2>1, <2>2
<1>4. CASE spent + MaxCost * now < Cap + MaxCost * Cardinality(Callers)
  <2>1. MaxCost * later <= MaxCost * now /\ MaxCost * later \in Nat /\ MaxCost * now \in Nat
    BY <1>1, <1>2
  <2>2. MaxCost * Cardinality(Callers) \in Nat /\ Cap \in Nat
    BY RunsAssumption, FS_CardinalityType
  <2>3. CASE spent' = spent
    BY <1>1, <1>4, <2>1, <2>2, <2>3
  <2>4. CASE /\ pc[c] \in Between /\ pc'[c] \notin Between
             /\ \E cost \in Costs : spent' = spent + cost
    <3>1. PICK cost \in 0..MaxCost : spent' = spent + cost
      BY <2>4, RunsAssumption
    <3>2. later + 1 = now
      BY <1>1, <2>4, UnbookedChange, CountOne, RunsAssumption
    <3>3. MaxCost * now = MaxCost * later + MaxCost
      BY <1>1, <1>2, <3>2
    <3> HIDE DEF now, later
    <3>4. spent' + MaxCost * later < Cap + MaxCost * Cardinality(Callers)
      BY <1>1, <1>4, <2>1, <2>2, <3>1, <3>3
    <3> QED BY <3>4 DEF later
  <2> QED BY <2>3, <2>4
<1> QED BY <1>1, <1>3, <1>4 DEF LedgerInv

\* Whoever passes the check finds the ledger below the cap.
LEMMA LedgerChecked ==
    ASSUME IInv, NEW c \in Callers, spent' = spent, ~CapReached
    PROVE  LedgerInv'
<1>1. spent \in Nat /\ Cap \in Nat /\ spent < Cap /\ MaxCost \in Nat
  BY RunsAssumption DEF IInv, TypeOK, CapReached
<1>2. /\ Cardinality(Unbooked') \in Nat /\ Cardinality(Callers) \in Nat
      /\ Cardinality(Unbooked') <= Cardinality(Callers)
  <2>1. Unbooked' \in SUBSET Callers
    BY DEF Unbooked
  <2> QED BY <2>1, FS_Subset, FS_CardinalityType, RunsAssumption
<1>3. MaxCost * Cardinality(Unbooked') <= MaxCost * Cardinality(Callers)
  BY <1>1, <1>2
<1>4. MaxCost * Cardinality(Unbooked') \in Nat /\ MaxCost * Cardinality(Callers) \in Nat
  BY <1>1, <1>2
<1>5. spent' + MaxCost * Cardinality(Unbooked') < Cap + MaxCost * Cardinality(Callers)
  BY <1>1, <1>3, <1>4
<1> QED BY <1>5 DEF LedgerInv

-----------------------------------------------------------------------------
(* The steps *)

\* SpansTellTheOutcome, for one caller.
Told(c) ==
    /\ pc[c] = "returned" =>
          /\ outcome[c] # "error"
          /\ \A e \in EventTypes : rows[c][e] = "written"
    /\ pc[c] = "raised" /\ rows[c]["span.start"] = "written" =>
          /\ rows[c]["span.end"] # "no"
          /\ rows[c]["span.end"] = "written" => outcome[c] = "error"

RunTypeOK ==
    /\ pc \in [Callers -> Labels]
    /\ tries \in [Callers -> Nat]
    /\ outcome \in [Callers -> {"ok", "empty", "error"}]
    /\ rows \in [Callers -> [EventTypes -> {"no", "written", "unanswered"}]]

RunStays(b) ==
    pc'[b] = pc[b] /\ tries'[b] = tries[b] /\ outcome'[b] = outcome[b] /\ rows'[b] = rows[b]

LEMMA OneMoves ==
    ASSUME IInv, NEW c \in Callers, RunTypeOK', \A b \in Callers \ {c} : RunStays(b),
           AwaitInv(c)', SpanInv(c)', Told(c)',
           BreakerTypeOK', \A d \in Deps : OutageInv(d)', LedgerInv',
           spent' \in Nat, rounds' \in [Callers -> 0..Rounds], faults' \in 0..MaxFaults
    PROVE  IInv'
<1>1. TypeOK'
  BY DEF TypeOK, RunTypeOK
<1>2. ASSUME NEW b \in Callers PROVE (AwaitInv(b) /\ SpanInv(b) /\ Told(b))'
  <2>1. CASE b = c
    BY <2>1
  <2>2. CASE b # c
    <3>1. RunStays(b) /\ AwaitInv(b) /\ SpanInv(b) /\ Told(b)
      BY <2>2 DEF IInv, SpansTellTheOutcome, Told
    <3> QED BY <3>1 DEF RunStays, AwaitInv, SpanInv, Told, Written
  <2> QED BY <2>1, <2>2
<1>3. SpansTellTheOutcome'
  BY <1>2 DEF SpansTellTheOutcome, Told
<1> QED BY <1>1, <1>2, <1>3 DEF IInv

LEMMA ReviewStep ==
    ASSUME IInv, NEW c \in Callers, Review(c)
    PROVE  IInv'
<1>1. TypeOK /\ tries[c] = 0
  BY DEF IInv, Review, AwaitInv, TypeOK, Settled, Guarded
<1>2. RunTypeOK' /\ (\A b \in Callers \ {c} : RunStays(b)) /\ OthersStay(c)
  BY <1>1 DEF TypeOK, Review, Goto, RunTypeOK, RunStays, OthersStay, Labels
<1>3. AwaitInv(c)' /\ SpanInv(c)' /\ Told(c)'
  BY <1>1 DEF TypeOK, Review, Goto, AwaitInv, SpanInv, Told
<1>4. \A d \in Deps : OutageInv(d)'
  BY <1>1, <1>2, OutageQuiet DEF Review
<1>5. LedgerInv'
  <2>1. CASE Budgeted
    <3>1. pc'[c] \notin Between /\ spent' = spent
      BY <1>1, <2>1 DEF Review, Goto, TypeOK, Between
    <3> QED BY <1>2, <3>1, LedgerKept
  <2>2. CASE ~Budgeted
    BY <2>2 DEF LedgerInv
  <2> QED BY <2>1, <2>2
<1>6. /\ BreakerTypeOK' /\ spent' \in Nat /\ faults' \in 0..MaxFaults
      /\ rounds' \in [Callers -> 0..Rounds]
  BY <1>1, RunsAssumption DEF TypeOK, Review, BreakerTypeOK, breaker_vars
<1> QED BY <1>2, <1>3, <1>4, <1>5, <1>6, OneMoves

LEMMA CallBeginsStep ==
    ASSUME IInv, NEW c \in Callers, CallBegins(c)
    PROVE  IInv'
<1>1. TypeOK /\ SpanInv(c) /\ Told(c)
  BY DEF IInv, SpansTellTheOutcome, Told
<1>2. RunTypeOK' /\ (\A b \in Callers \ {c} : RunStays(b)) /\ OthersStay(c)
  BY <1>1 DEF TypeOK, CallBegins, RunTypeOK, RunStays, OthersStay
<1>3. AwaitInv(c)' /\ SpanInv(c)' /\ Told(c)'
  BY <1>1 DEF CallBegins, AwaitInv, SpanInv, Told, Written
<1>4. \A d \in Deps : OutageInv(d)'
  BY <1>2, OutageQuiet DEF CallBegins
<1>5. LedgerInv'
  BY DEF IInv, LedgerInv, Unbooked, CallBegins
<1>6. /\ BreakerTypeOK' /\ spent' \in Nat /\ faults' \in 0..MaxFaults
      /\ rounds' \in [Callers -> 0..Rounds]
  BY <1>1 DEF TypeOK, CallBegins, BreakerTypeOK, breaker_vars
<1> QED BY <1>2, <1>3, <1>4, <1>5, <1>6, OneMoves

\* An exception out of a guarded call.
LEMMA GuardedRaises ==
    ASSUME IInv, NEW c \in Callers, pc[c] \in DOMAIN Guarded, Raise(c), UNCHANGED rows,
           tries' = [tries EXCEPT ![c] = 0]
    PROVE  /\ RunTypeOK' /\ (\A b \in Callers \ {c} : RunStays(b)) /\ OthersStay(c)
           /\ AwaitInv(c)' /\ SpanInv(c)' /\ Told(c)'
           /\ tries'[c] = 0 /\ pc'[c] \notin Between
<1>1. /\ TypeOK /\ SpanInv(c) /\ pc[c] \in {"check", "embed", "fetch", "parse"}
      /\ "raised" \in Labels /\ "end" \in Labels
  BY DEF IInv, Guarded, Labels, Settled
<1>2. RunTypeOK' /\ (\A b \in Callers \ {c} : RunStays(b)) /\ OthersStay(c)
  BY <1>1 DEF TypeOK, Raise, Goto, RunTypeOK, RunStays, OthersStay
<1>3. CASE pc[c] = "check"
  <2>1. pc'[c] = "raised" /\ tries'[c] = 0 /\ rows'[c] = rows[c]
    BY <1>1, <1>3 DEF TypeOK, Raise, Goto
  <2>2. rows[c]["span.start"] = "no"
    BY <1>1, <1>3 DEF SpanInv, EventTypes
  <2> QED BY <1>2, <2>1, <2>2 DEF AwaitInv, SpanInv, Told, Between
<1>4. CASE pc[c] # "check"
  <2>1. pc'[c] = "end" /\ outcome'[c] = "error" /\ tries'[c] = 0 /\ rows'[c] = rows[c]
    BY <1>1, <1>4 DEF TypeOK, Raise, Goto
  <2>2. rows[c]["span.start"] = "written" /\ rows[c]["span.end"] = "no"
    BY <1>1, <1>4 DEF SpanInv, Written
  <2> QED BY <1>2, <2>1, <2>2 DEF AwaitInv, SpanInv, Told, Between, Written
<1> QED BY <1>3, <1>4

LEMMA FaultTyped ==
    ASSUME TypeOK, NEW kind, Fault(kind)
    PROVE  faults' \in 0..MaxFaults
  BY RunsAssumption DEF TypeOK, Fault

LEMMA CallRejectedStep ==
    ASSUME IInv, NEW c \in Callers, CallRejected(c)
    PROVE  IInv'
<1>1. /\ TypeOK /\ pc[c] \in DOMAIN Guarded /\ Raise(c) /\ tries[c] = 0
      /\ UNCHANGED <<breaker_vars, tries, rows, spent, rounds, faults>>
  BY DEF IInv, CallRejected
<1>2. tries' = [tries EXCEPT ![c] = 0]
  BY <1>1 DEF TypeOK
<1>3. /\ RunTypeOK' /\ (\A b \in Callers \ {c} : RunStays(b)) /\ OthersStay(c)
      /\ AwaitInv(c)' /\ SpanInv(c)' /\ Told(c)'
      /\ tries'[c] = 0 /\ pc'[c] \notin Between
  BY <1>1, <1>2, GuardedRaises
<1>4. (\A d \in Deps : OutageInv(d)') /\ LedgerInv'
  BY <1>1, <1>3, OutageQuiet, LedgerKept
<1>5. /\ BreakerTypeOK' /\ spent' \in Nat /\ faults' \in 0..MaxFaults
      /\ rounds' \in [Callers -> 0..Rounds]
  BY <1>1 DEF TypeOK, BreakerTypeOK, breaker_vars
<1> QED BY <1>3, <1>4, <1>5, OneMoves

LEMMA CancelStep ==
    ASSUME IInv, NEW c \in Callers, Cancel(c)
    PROVE  IInv'
<1>1. /\ TypeOK /\ pc[c] \in DOMAIN Guarded /\ Raise(c) /\ Fault("cancel")
      /\ tries' = [tries EXCEPT ![c] = 0]
      /\ UNCHANGED <<breaker_vars, rows, spent, rounds>>
  BY DEF IInv, Cancel
<1>2. /\ RunTypeOK' /\ (\A b \in Callers \ {c} : RunStays(b)) /\ OthersStay(c)
      /\ AwaitInv(c)' /\ SpanInv(c)' /\ Told(c)'
      /\ tries'[c] = 0 /\ pc'[c] \notin Between
  BY <1>1, GuardedRaises
<1>3. (\A d \in Deps : OutageInv(d)') /\ LedgerInv'
  BY <1>1, <1>2, OutageQuiet, LedgerKept
<1>4. /\ BreakerTypeOK' /\ spent' \in Nat /\ faults' \in 0..MaxFaults
      /\ rounds' \in [Callers -> 0..Rounds]
  BY <1>1, FaultTyped DEF TypeOK, BreakerTypeOK, breaker_vars
<1> QED BY <1>2, <1>3, <1>4, OneMoves

LEMMA AttemptFailsStep ==
    ASSUME IInv, NEW c \in Callers, AttemptFails(c)
    PROVE  IInv'
<1> DEFINE d == Guarded[pc[c]]
<1>1. /\ TypeOK /\ pc[c] \in DOMAIN Guarded /\ tries[c] > 0 /\ Fault("error")
      /\ UNCHANGED <<rows, spent, rounds>>
      /\ AwaitInv(c) /\ SpanInv(c) /\ Told(c)
  BY DEF IInv, AttemptFails, SpansTellTheOutcome, Told
<1>2. spent' \in Nat /\ faults' \in 0..MaxFaults /\ rounds' \in [Callers -> 0..Rounds]
  BY <1>1, FaultTyped DEF TypeOK
<1>3. CASE tries' = [tries EXCEPT ![c] = @ + 1] /\ UNCHANGED <<breaker_vars, pc, outcome>>
  <2>1. RunTypeOK' /\ (\A b \in Callers \ {c} : RunStays(b)) /\ OthersStay(c)
    BY <1>1, <1>3 DEF TypeOK, RunTypeOK, RunStays, OthersStay
  <2>2. AwaitInv(c)' /\ SpanInv(c)' /\ Told(c)'
    BY <1>1, <1>3 DEF AwaitInv, SpanInv, Told, Written
  <2>3. (\A e \in Deps : OutageInv(e)') /\ BreakerTypeOK'
    BY <1>1, <1>3, <2>1, OutageQuiet DEF TypeOK, BreakerTypeOK, breaker_vars
  <2>4. LedgerInv'
    BY <1>1, <1>3 DEF IInv, LedgerInv, Unbooked
  <2> QED BY <1>2, <2>1, <2>2, <2>3, <2>4, OneMoves
<1>4. CASE on_failure(d) /\ tries' = [tries EXCEPT ![c] = 0] /\ Raise(c)
  <2>1. /\ RunTypeOK' /\ (\A b \in Callers \ {c} : RunStays(b)) /\ OthersStay(c)
        /\ AwaitInv(c)' /\ SpanInv(c)' /\ Told(c)'
        /\ tries'[c] = 0 /\ pc'[c] \notin Between
    BY <1>1, <1>4, GuardedRaises
  <2>2. \A e \in Deps : OutageInv(e)' /\ BreakerTypeOK'
    BY <1>1, <1>4, <2>1, OutageEnds
  <2>3. LedgerInv'
    BY <1>1, <2>1, LedgerKept
  <2>4. d \in Deps
    BY <1>1, RunsAssumption DEF Guarded, Dependencies
  <2> QED BY <1>2, <2>1, <2>2, <2>3, <2>4, OneMoves
<1> QED BY <1>3, <1>4 DEF AttemptFails

\* A guarded call that is answered leads to an await that is no guarded one, or
\* to the next guarded one.
LEMMA AnsweredKeeps ==
    ASSUME IInv, NEW c \in Callers, Answered(c), NEW label \in Labels, Goto(c, label),
           RunTypeOK', UNCHANGED <<rows, spent, rounds, faults>>,
           \A b \in Callers \ {c} : outcome'[b] = outcome[b],
           SpanInv(c)', Told(c)',
           LedgerInv' \/ pc[c] \in Between \/ label \notin Between
    PROVE  IInv'
<1>1. /\ TypeOK /\ pc[c] \in DOMAIN Guarded /\ tries[c] > 0
      /\ on_success(Guarded[pc[c]]) /\ tries' = [tries EXCEPT ![c] = 0]
  BY DEF IInv, Answered
<1>2. /\ (\A b \in Callers \ {c} : RunStays(b)) /\ OthersStay(c)
      /\ pc'[c] = label /\ tries'[c] = 0
  BY <1>1 DEF TypeOK, Goto, RunStays, OthersStay
<1>3. AwaitInv(c)'
  BY <1>2 DEF AwaitInv
<1>4. \A d \in Deps : OutageInv(d)' /\ BreakerTypeOK'
  BY <1>1, <1>2, OutageEnds
<1>5. Guarded[pc[c]] \in Deps
  BY <1>1, RunsAssumption DEF Guarded, Dependencies
<1>6. LedgerInv'
  BY <1>2, LedgerKept
<1>7. /\ spent' \in Nat /\ faults' \in 0..MaxFaults
      /\ rounds' \in [Callers -> 0..Rounds]
  BY <1>1 DEF TypeOK
<1> QED BY <1>2, <1>3, <1>4, <1>5, <1>6, <1>7, OneMoves

LEMMA CheckBudgetStep ==
    ASSUME IInv, NEW c \in Callers, CheckBudget(c)
    PROVE  IInv'
<1>1. /\ TypeOK /\ SpanInv(c) /\ pc[c] = "check" /\ Answered(c)
      /\ Goto(c, IF CapReached THEN "raised" ELSE "start")
      /\ UNCHANGED <<outcome, rows, spent, rounds, faults>>
  BY DEF IInv, CheckBudget, At
<1>2. CASE CapReached
  <2>1. Goto(c, "raised") /\ "raised" \in Labels /\ pc'[c] = "raised" /\ "raised" \notin Between
    BY <1>1, <1>2 DEF Goto, TypeOK, Labels, Settled, Between
  <2>2. RunTypeOK'
    BY <1>1, <2>1 DEF TypeOK, RunTypeOK, Goto, Answered
  <2>3. rows'[c]["span.start"] = "no"
    BY <1>1 DEF SpanInv, EventTypes
  <2>4. SpanInv(c)' /\ Told(c)'
    BY <2>1, <2>3 DEF SpanInv, Told
  <2> QED BY <1>1, <2>1, <2>2, <2>4, AnsweredKeeps
<1>3. CASE ~CapReached
  <2>1. Goto(c, "start") /\ "start" \in Labels /\ pc'[c] = "start"
    BY <1>1, <1>3 DEF Goto, TypeOK, Labels
  <2>2. RunTypeOK'
    BY <1>1, <2>1 DEF TypeOK, RunTypeOK, Goto, Answered
  <2>3. SpanInv(c)' /\ Told(c)'
    BY <1>1, <2>1 DEF SpanInv, Told
  <2>4. LedgerInv'
    BY <1>1, <1>3, LedgerChecked
  <2> QED BY <1>1, <2>1, <2>2, <2>3, <2>4, AnsweredKeeps
<1> QED BY <1>2, <1>3

LEMMA RetrieveStep ==
    ASSUME IInv, NEW c \in Callers, Retrieve(c)
    PROVE  IInv'
<1>1. /\ TypeOK /\ SpanInv(c) /\ Answered(c)
      /\ UNCHANGED <<outcome, rows, spent, rounds, faults>>
  BY DEF IInv, Retrieve
<1>2. PICK label \in {"fetch", "tool"} : Goto(c, label) /\ pc[c] \in {"embed", "fetch"}
  BY DEF Retrieve, At
<1>3. label \in Labels /\ pc'[c] = label /\ pc[c] \in Between
  BY <1>1, <1>2 DEF Goto, TypeOK, Labels, Between
<1>4. RunTypeOK'
  BY <1>1, <1>2, <1>3 DEF TypeOK, RunTypeOK, Goto, Answered
<1>5. SpanInv(c)' /\ Told(c)'
  BY <1>1, <1>2, <1>3 DEF SpanInv, Told, Written
<1> QED BY <1>1, <1>2, <1>3, <1>4, <1>5, AnsweredKeeps

LEMMA ParseStep ==
    ASSUME IInv, NEW c \in Callers, Parse(c)
    PROVE  IInv'
<1>1. /\ TypeOK /\ SpanInv(c) /\ pc[c] = "parse" /\ Answered(c) /\ Goto(c, "book")
      /\ UNCHANGED <<rows, spent, rounds, faults>>
  BY DEF IInv, Parse, At
<1>2. PICK result \in {"ok", "empty"} : outcome' = [outcome EXCEPT ![c] = result]
  BY DEF Parse
<1>3. /\ "book" \in Labels /\ pc'[c] = "book" /\ pc[c] \in Between
      /\ outcome'[c] = result /\ \A b \in Callers \ {c} : outcome'[b] = outcome[b]
  BY <1>1, <1>2 DEF Goto, TypeOK, Labels, Between
<1>4. RunTypeOK'
  BY <1>1, <1>2, <1>3 DEF TypeOK, RunTypeOK, Goto, Answered
<1>5. SpanInv(c)' /\ Told(c)'
  BY <1>1, <1>3 DEF SpanInv, Told, Written
<1> QED BY <1>1, <1>3, <1>4, <1>5, AnsweredKeeps

\* Where an emitting await leads to.
LEMMA EmitMoves ==
    ASSUME IInv, NEW c \in Callers, pc[c] \in DOMAIN Emitting,
           NEW w \in {"written", "unanswered"}, Row(c, w), NEW label \in Labels, Goto(c, label),
           NEW result \in {"ok", "empty", "error"}, outcome' = [outcome EXCEPT ![c] = result],
           UNCHANGED <<breaker_vars, tries>>
    PROVE  /\ RunTypeOK' /\ (\A b \in Callers \ {c} : RunStays(b)) /\ OthersStay(c)
           /\ pc'[c] = label /\ outcome'[c] = result
           /\ rows'[c] = [rows[c] EXCEPT ![Emitting[pc[c]]] = w]
           /\ AwaitInv(c)' /\ BreakerTypeOK' /\ \A d \in Deps : OutageInv(d)'
<1>1. /\ TypeOK /\ tries[c] = 0
  BY DEF IInv, AwaitInv, TypeOK, Emitting, Guarded
<1>2. Emitting[pc[c]] \in EventTypes
  BY DEF Emitting, EventTypes
<1>3. RunTypeOK' /\ (\A b \in Callers \ {c} : RunStays(b)) /\ OthersStay(c)
  BY <1>1, <1>2 DEF TypeOK, RunTypeOK, RunStays, OthersStay, Row, Goto
<1>4. /\ pc'[c] = label /\ outcome'[c] = result /\ tries'[c] = 0
      /\ rows'[c] = [rows[c] EXCEPT ![Emitting[pc[c]]] = w]
  BY <1>1 DEF TypeOK, Row, Goto
<1>5. AwaitInv(c)' /\ BreakerTypeOK'
  BY <1>1, <1>4 DEF AwaitInv, TypeOK, BreakerTypeOK, breaker_vars
<1> QED BY <1>3, <1>4, <1>5, OutageQuiet

LEMMA EmitStep ==
    ASSUME IInv, NEW c \in Callers, Emit(c)
    PROVE  IInv'
<1> DEFINE label == CASE pc[c] = "start" -> "embed"
                      [] pc[c] = "tool" -> "parse"
                      [] pc[c] = "book" -> "end"
                      [] pc[c] = "end" -> IF outcome[c] = "error" THEN "raised" ELSE "returned"
<1>1. /\ TypeOK /\ SpanInv(c) /\ pc[c] \in {"start", "tool", "book", "end"}
      /\ pc[c] \in DOMAIN Emitting /\ Row(c, "written") /\ Inserted(c) /\ Goto(c, label)
      /\ UNCHANGED <<breaker_vars, tries, outcome, rounds, faults>>
  BY DEF IInv, Emit, Emitting
<1>2. label \in Labels /\ outcome' = [outcome EXCEPT ![c] = outcome[c]] /\ outcome[c] \in {"ok", "empty", "error"}
  BY <1>1 DEF Labels, Settled, TypeOK
<1>3. /\ RunTypeOK' /\ (\A b \in Callers \ {c} : RunStays(b)) /\ OthersStay(c)
      /\ pc'[c] = label /\ outcome'[c] = outcome[c]
      /\ rows'[c] = [rows[c] EXCEPT ![Emitting[pc[c]]] = "written"]
      /\ AwaitInv(c)' /\ BreakerTypeOK' /\ \A d \in Deps : OutageInv(d)'
  BY <1>1, <1>2, EmitMoves
<1>4. rows[c] \in [EventTypes -> {"no", "written", "unanswered"}]
  BY <1>1 DEF TypeOK
<1>5. (SpanInv(c) /\ Told(c))'
  <2>1. CASE pc[c] = "start"
    BY <1>1, <1>3, <1>4, <2>1 DEF SpanInv, Told, Written, Emitting, EventTypes
  <2>2. CASE pc[c] = "tool"
    BY <1>1, <1>3, <1>4, <2>2 DEF SpanInv, Told, Written, Emitting, EventTypes
  <2>3. CASE pc[c] = "book"
    BY <1>1, <1>3, <1>4, <2>3 DEF SpanInv, Told, Written, Emitting, EventTypes
  <2>4. CASE pc[c] = "end"
    BY <1>1, <1>3, <1>4, <2>4 DEF SpanInv, Told, Written, Emitting, EventTypes
  <2> QED BY <1>1, <2>1, <2>2, <2>3, <2>4
<1>6. spent' \in Nat /\ faults' \in 0..MaxFaults /\ rounds' \in [Callers -> 0..Rounds]
  BY <1>1, RunsAssumption DEF TypeOK, Inserted
<1>7. LedgerInv'
  <2>1. CASE pc[c] = "book"
    BY <1>1, <1>3, <2>1, LedgerKept DEF Inserted, Between
  <2>2. CASE pc[c] # "book"
    <3>1. spent' = spent /\ (pc[c] \in Between \/ pc'[c] \notin Between)
      BY <1>1, <1>3, <2>2 DEF Inserted, Between
    <3> QED BY <1>3, <3>1, LedgerKept
  <2> QED BY <2>1, <2>2
<1> QED BY <1>3, <1>5, <1>6, <1>7, OneMoves

LEMMA EmitFailsStep ==
    ASSUME IInv, NEW c \in Callers, EmitFails(c)
    PROVE  IInv'
<1>1. /\ TypeOK /\ SpanInv(c) /\ pc[c] \in {"start", "tool", "book", "end"}
      /\ pc[c] \in DOMAIN Emitting /\ Row(c, "unanswered") /\ Raise(c)
      /\ UNCHANGED spent \/ Inserted(c)
      /\ UNCHANGED <<breaker_vars, tries, rounds>>
      /\ faults' \in 0..MaxFaults
  BY FaultTyped DEF IInv, EmitFails, Emitting
<1>2. PICK label \in {"raised", "end"}, result \in {"ok", "empty", "error"} :
        /\ Goto(c, label) /\ outcome' = [outcome EXCEPT ![c] = result]
        /\ label = "raised" <=> pc[c] \in {"start", "end"}
        /\ result = IF label = "end" THEN "error" ELSE outcome[c]
  <2>1. outcome[c] \in {"ok", "empty", "error"} /\ outcome = [outcome EXCEPT ![c] = outcome[c]]
    BY <1>1 DEF TypeOK
  <2> QED BY <1>1, <2>1 DEF Raise
<1>3. /\ RunTypeOK' /\ (\A b \in Callers \ {c} : RunStays(b)) /\ OthersStay(c)
      /\ pc'[c] = label /\ outcome'[c] = result
      /\ rows'[c] = [rows[c] EXCEPT ![Emitting[pc[c]]] = "unanswered"]
      /\ AwaitInv(c)' /\ BreakerTypeOK' /\ \A d \in Deps : OutageInv(d)'
  <2>1. label \in Labels
    BY DEF Labels, Settled
  <2> QED BY <1>1, <1>2, <2>1, EmitMoves
<1>4. rows[c] \in [EventTypes -> {"no", "written", "unanswered"}]
  BY <1>1 DEF TypeOK
<1>5. (SpanInv(c) /\ Told(c))'
  <2>1. CASE pc[c] \in {"start", "end"}
    BY <1>1, <1>2, <1>3, <1>4, <2>1 DEF SpanInv, Told, Written, Emitting, EventTypes
  <2>2. CASE pc[c] \in {"tool", "book"}
    BY <1>1, <1>2, <1>3, <1>4, <2>2 DEF SpanInv, Told, Written, Emitting, EventTypes
  <2> QED BY <1>1, <2>1, <2>2
<1>6. spent' \in Nat /\ rounds' \in [Callers -> 0..Rounds]
  BY <1>1, RunsAssumption DEF TypeOK, Inserted
<1>7. LedgerInv'
  <2>1. pc'[c] \notin Between
    BY <1>3 DEF Between
  <2>2. CASE spent' = spent
    BY <1>3, <2>1, <2>2, LedgerKept
  <2>3. CASE pc[c] = "book" /\ Inserted(c)
    BY <1>3, <2>1, <2>3, LedgerKept DEF Inserted, Between
  <2> QED BY <1>1, <2>2, <2>3 DEF Inserted
<1> QED BY <1>1, <1>3, <1>5, <1>6, <1>7, OneMoves

LEMMA CoolsStep ==
    ASSUME IInv, NEW e \in Deps, BreakerCools(e)
    PROVE  IInv'
<1>1. UNCHANGED <<pc, tries, outcome, rows, spent, rounds, faults>>
  BY DEF BreakerCools
<1>2. (\A d \in Deps : OutageInv(d)') /\ BreakerTypeOK'
  BY OutageCools
<1>3. TypeOK'
  BY <1>1, <1>2 DEF IInv, TypeOK
<1>4. \A c \in Callers : (AwaitInv(c) /\ SpanInv(c))'
  BY <1>1 DEF IInv, AwaitInv, SpanInv, Written
<1>5. LedgerInv' /\ SpansTellTheOutcome'
  BY <1>1 DEF IInv, LedgerInv, Unbooked, SpansTellTheOutcome
<1> QED BY <1>2, <1>3, <1>4, <1>5 DEF IInv

LEMMA RunsStutter ==
    ASSUME IInv, UNCHANGED vars
    PROVE  IInv'
<1>1. TypeOK'
  BY DEF vars, breaker_vars, IInv, TypeOK, BreakerTypeOK
<1>2. \A d \in Deps : OutageInv(d)'
  BY DEF vars, breaker_vars, IInv, OutageInv, CallingOf, Calling
<1>3. \A c \in Callers : (AwaitInv(c) /\ SpanInv(c))'
  BY DEF vars, IInv, AwaitInv, SpanInv, Written
<1>4. LedgerInv' /\ SpansTellTheOutcome'
  BY DEF vars, IInv, LedgerInv, Unbooked, SpansTellTheOutcome
<1> QED BY <1>1, <1>2, <1>3, <1>4 DEF IInv

-----------------------------------------------------------------------------
(* The theorems *)

\* The breakers, the ledger and the rows together, step by step of review().
THEOREM RunsInvariant == Spec => []IInv
<1>1. IInv /\ [Next]_vars => IInv'
  <2> SUFFICES ASSUME IInv, [Next]_vars PROVE IInv'
    OBVIOUS
  <2>1. ASSUME NEW c \in Callers,
               Review(c) \/ Step(c) \/ AttemptFails(c) \/ EmitFails(c) \/ Cancel(c)
        PROVE  IInv'
    BY <2>1, ReviewStep, CallBeginsStep, CallRejectedStep, CheckBudgetStep, RetrieveStep,
       ParseStep, EmitStep, AttemptFailsStep, EmitFailsStep, CancelStep DEF Step
  <2>2. ASSUME NEW d \in Deps, BreakerCools(d) PROVE IInv'
    BY <2>2, CoolsStep
  <2> QED BY <2>1, <2>2, RunsStutter DEF Next
<1> QED BY <1>1, RunsInit, PTL DEF Spec

\* Whatever the breakers, attempts and costs, every variable keeps its type.
THEOREM RunsTypeCorrect == Spec => []TypeOK
<1>1. IInv => TypeOK
  BY DEF IInv
<1> QED BY <1>1, RunsInvariant, PTL

\* BudgetGuard.check reads the ledger before a call and the sink writes to it
\* after the call; however many review() calls interleave in between, the day's
\* spend stays below the cap plus one call of each.
THEOREM OvershootBoundedAlways == Spec => []OvershootBounded
<1>1. IInv => OvershootBounded
  <2> SUFFICES ASSUME IInv, Budgeted, spent # 0
               PROVE  spent < Cap + MaxCost * Cardinality(Callers)
    BY DEF OvershootBounded
  <2>1. /\ spent \in Nat /\ MaxCost \in Nat /\ Cap \in Nat
        /\ spent + MaxCost * Cardinality(Unbooked) < Cap + MaxCost * Cardinality(Callers)
    BY RunsAssumption DEF IInv, TypeOK, LedgerInv
  <2>2. Unbooked \in SUBSET Callers
    BY DEF Unbooked
  <2>3. Cardinality(Unbooked) \in Nat /\ Cardinality(Callers) \in Nat
    BY <2>2, FS_Subset, FS_CardinalityType, RunsAssumption
  <2>4. MaxCost * Cardinality(Unbooked) \in Nat /\ MaxCost * Cardinality(Callers) \in Nat
    BY <2>1, <2>3
  <2> QED BY <2>1, <2>4
<1> QED BY <1>1, RunsInvariant, PTL

\* The Guard asks one shared breaker per dependency: an outage costs that many
\* calls, for any number of callers, attempts and cooldowns.
THEOREM OutageCostsFewCallsAlways == Spec => []OutageCostsFewCalls
<1>1. IInv => OutageCostsFewCalls
  <2> SUFFICES ASSUME IInv, NEW d \in Deps
               PROVE  failures[d] + Cardinality(CallingOf(d))
                        <= Threshold - 1 + Cardinality(Callers) * (cooldowns[d] + 1)
    BY DEF OutageCostsFewCalls, CallingOf
  <2>1. CallingOf(d) \in SUBSET Callers
    BY DEF CallingOf
  <2>2. Cardinality(Callers) \in Nat /\ Cardinality(CallingOf(d)) \in 0..Cardinality(Callers)
    BY <2>1, FS_Subset, FS_CardinalityType, RunsAssumption
  <2> QED BY <2>2, BoundHolds DEF IInv, TypeOK, BreakerTypeOK, OutageInv
<1> QED BY <1>1, RunsInvariant, PTL

\* The finally clause of review() ends every span it started, and the rows of a
\* run that returned are complete.
THEOREM SpansTellTheOutcomeAlways == Spec => []SpansTellTheOutcome
<1>1. IInv => SpansTellTheOutcome
  BY DEF IInv
<1> QED BY <1>1, RunsInvariant, PTL
=============================================================================
