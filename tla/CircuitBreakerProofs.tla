------------------------ MODULE CircuitBreakerProofs ------------------------
(***************************************************************************)
(* What one outage costs a dependency behind a CircuitBreaker: the lemmas  *)
(* that the proofs about SpecialistRuns and GitHubClient have in common.   *)
(***************************************************************************)
EXTENDS CircuitBreaker, FiniteSetTheorems, TLAPS

LEMMA BoundHolds ==
    ASSUME NEW s \in BreakerStates, NEW f \in Nat, NEW k \in Nat,
           NEW n \in Nat, NEW calls \in 0..n, OutageBound(s, f, k, calls, n)
    PROVE  f + calls <= Threshold - 1 + n * (k + 1)
<1>1. n * (k + 1) = n * k + n /\ n * k \in Nat
  OBVIOUS
<1>2. CASE s = "open"
  BY <1>2 DEF OutageBound
<1>3. CASE s # "open"
  BY <1>1, <1>3, BreakerAssumption DEF OutageBound, BreakerStates
<1> QED BY <1>2, <1>3

LEMMA BreakerTyped ==
    ASSUME BreakerTypeOK, NEW d \in Deps, on_success(d) \/ on_failure(d) \/ Cooldown(d)
    PROVE  BreakerTypeOK'
  BY DEF BreakerTypeOK, BreakerStates, on_success, on_failure, Cooldown

\* A call that begins was let in, and one that is over takes no more room.
LEMMA CallsChange ==
    ASSUME NEW s \in BreakerStates, NEW f \in Nat, NEW k \in Nat, NEW n \in Nat,
           NEW calls \in 0..n, OutageBound(s, f, k, calls, n),
           NEW later \in 0..n, later <= calls \/ s # "open"
    PROVE  OutageBound(s, f, k, later, n)
  BY BreakerAssumption DEF OutageBound, BreakerStates

\* The callers find the breaker closed and its count at zero.
LEMMA SuccessResets ==
    ASSUME BreakerTypeOK, NEW d \in Deps, on_success(d), NEW later, NEW n
    PROVE  OutageBound(state'[d], failures'[d], cooldowns'[d], later, n)
  BY BreakerAssumption DEF BreakerTypeOK, on_success, OutageBound

\* The call that failed is not under way any more.
LEMMA FailureCounts ==
    ASSUME BreakerTypeOK, NEW d \in Deps, on_failure(d), NEW n \in Nat,
           NEW calls \in 0..n, NEW later \in 0..n, later + 1 <= calls,
           OutageBound(state[d], failures[d], cooldowns[d], calls, n)
    PROVE  OutageBound(state'[d], failures'[d], cooldowns'[d], later, n)
<1> DEFINE f == failures[d]
           k == cooldowns[d]
<1>1. /\ f \in Nat /\ k \in Nat /\ state[d] \in BreakerStates
      /\ failures'[d] = f + 1 /\ cooldowns'[d] = k
      /\ state'[d] = IF f + 1 >= Threshold THEN "open" ELSE state[d]
  BY DEF BreakerTypeOK, on_failure
<1>2. f + calls <= Threshold - 1 + n * (k + 1)
  BY <1>1, BoundHolds
<1>3. n * (k + 1) \in Nat
  BY <1>1
<1> HIDE DEF f, k
<1>4. CASE f + 1 >= Threshold
  BY <1>1, <1>2, <1>3, <1>4, BreakerAssumption DEF OutageBound
<1>5. CASE ~(f + 1 >= Threshold)
  <2>1. state[d] = "closed"
    BY <1>1, <1>5, BreakerAssumption DEF OutageBound, f
  <2> QED BY <1>1, <1>5, <2>1, BreakerAssumption DEF OutageBound
<1> QED BY <1>4, <1>5

LEMMA CooldownMakesRoom ==
    ASSUME BreakerTypeOK, NEW d \in Deps, Cooldown(d), NEW n \in Nat, NEW calls \in 0..n,
           OutageBound(state[d], failures[d], cooldowns[d], calls, n)
    PROVE  OutageBound(state'[d], failures'[d], cooldowns'[d], calls, n)
  BY BreakerAssumption DEF BreakerTypeOK, Cooldown, OutageBound

\* A breaker that is left alone.
LEMMA OthersUnchanged ==
    ASSUME BreakerTypeOK, NEW d \in Deps, on_success(d) \/ on_failure(d) \/ Cooldown(d),
           NEW e \in Deps \ {d}
    PROVE  state'[e] = state[e] /\ failures'[e] = failures[e] /\ cooldowns'[e] = cooldowns[e]
  BY DEF BreakerTypeOK, on_success, on_failure, Cooldown

-----------------------------------------------------------------------------
\* The callers of a finite set that satisfy a condition, one of them changing.
LEMMA CountOne ==
    ASSUME NEW S, IsFiniteSet(S), NEW A \in SUBSET S, NEW B \in SUBSET S, NEW c \in S,
           B \ {c} = A \ {c}
    PROVE  /\ Cardinality(A) \in 0..Cardinality(S) /\ Cardinality(B) \in 0..Cardinality(S)
           /\ Cardinality(S) \in Nat
           /\ c \in A => Cardinality(B) <= Cardinality(A)
           /\ c \in A /\ c \notin B => Cardinality(B) + 1 = Cardinality(A)
           /\ c \notin B => Cardinality(B) <= Cardinality(A)
<1>1. /\ IsFiniteSet(A) /\ IsFiniteSet(B)
      /\ Cardinality(A) <= Cardinality(S) /\ Cardinality(B) <= Cardinality(S)
  BY FS_Subset
<1>2. Cardinality(A) \in Nat /\ Cardinality(B) \in Nat /\ Cardinality(S) \in Nat
  BY <1>1, FS_CardinalityType
<1>3. /\ Cardinality(A \ {c}) = IF c \in A THEN Cardinality(A) - 1 ELSE Cardinality(A)
      /\ Cardinality(B \ {c}) = IF c \in B THEN Cardinality(B) - 1 ELSE Cardinality(B)
  BY <1>1, FS_RemoveElement
<1> QED BY <1>1, <1>2, <1>3
=============================================================================
