-------------------------- MODULE GitHubClientProofs --------------------------
(***************************************************************************)
(* Proofs about GitHubClient for any number of callers and repositories,   *)
(* and any lifetimes and margins that satisfy ClientAssumption: the refresh*)
(* margin of a token is to be twice what one _send may take, the margin of *)
(* a JWT once.                                                             *)
(***************************************************************************)
EXTENDS GitHubClient, CircuitBreakerProofs

\* The part of the invariant that is about credentials, and the part that is
\* about the breaker, are inductive each on its own.
CredentialInv ==
    /\ TypeOK
    /\ CacheInv
    /\ \A c \in Callers : CallerInv(c)

LEMMA InitCredentials == Init => CredentialInv
<1> SUFFICES ASSUME Init PROVE CredentialInv
  OBVIOUS
<1>1. TypeOK
  BY ClientAssumption DEF Init, TypeOK, BreakerInit, BreakerTypeOK, BreakerStates
<1>2. CacheInv /\ \A c \in Callers : CallerInv(c)
  BY ClientAssumption DEF Init, CacheInv, CallerInv
<1> QED BY <1>1, <1>2 DEF CredentialInv

\* The credential _app_jwt returns outlives a _send that starts with it.
LEMMA JwtOutlives ==
    ASSUME TypeOK
    PROVE  app_jwt \in Nat /\ clock + SendTime < app_jwt
  BY ClientAssumption DEF TypeOK, app_jwt, JwtFresh

\* So does a token from the cache.
LEMMA TokenOutlives ==
    ASSUME TypeOK, CacheInv, TokenFresh
    PROVE  token.github \in Nat /\ clock + SendTime < token.github
  BY ClientAssumption DEF TypeOK, CacheInv, TokenFresh

\* What is left of the types when a request starts or is over.
CallerTypeOK ==
    /\ pc \in [Callers -> {"idle"} \cup Requests]
    /\ tries \in [Callers -> Nat]
    /\ auth \in [Callers -> Nat]
    /\ since \in [Callers -> Nat]
    /\ issued \in [Callers -> Nat]

LEMMA RequestStarts ==
    ASSUME CredentialInv, NEW c \in Callers, NEW request \in Requests, NEW expires \in Nat,
           clock + SendTime < expires, Request(c, request, expires), UNCHANGED clock
    PROVE  CallerTypeOK' /\ \A b \in Callers : CallerInv(b)'
<1>1. CallerTypeOK'
  BY DEF CredentialInv, TypeOK, Request, CallerTypeOK
<1>2. CallerInv(c)'
  BY ClientAssumption DEF CredentialInv, TypeOK, Request, CallerInv
<1>3. ASSUME NEW b \in Callers \ {c} PROVE CallerInv(b)'
  BY <1>3 DEF CredentialInv, TypeOK, Request, CallerInv
<1> QED BY <1>1, <1>2, <1>3

LEMMA RequestEnds ==
    ASSUME CredentialInv, NEW c \in Callers, Return(c), UNCHANGED clock
    PROVE  CallerTypeOK' /\ \A b \in Callers : CallerInv(b)'
<1>1. CallerTypeOK'
  BY DEF CredentialInv, TypeOK, Return, CallerTypeOK
<1>2. ASSUME NEW b \in Callers PROVE CallerInv(b)'
  BY DEF CredentialInv, TypeOK, Return, CallerInv
<1> QED BY <1>1, <1>2

\* _installation_token: whichever credential it comes to, and the jwt cache.
LEMMA UseTokenStarts ==
    ASSUME CredentialInv, NEW c \in Callers, UseToken(c), UNCHANGED clock
    PROVE  CallerTypeOK' /\ jwt' \in Nat /\ \A b \in Callers : CallerInv(b)'
<1>1. CASE TokenFresh
  <2>1. Request(c, "operation", token.github) /\ jwt' = jwt
    BY <1>1 DEF UseToken
  <2> QED BY <1>1, <2>1, TokenOutlives, RequestStarts DEF Requests, CredentialInv, TypeOK
<1>2. CASE ~TokenFresh
  <2>1. Request(c, "access_tokens", app_jwt) /\ jwt' = app_jwt
    BY <1>2 DEF UseToken, RequestAsApp
  <2> QED BY <2>1, JwtOutlives, RequestStarts DEF Requests, CredentialInv
<1> QED BY <1>1, <1>2

LEMMA CallStep ==
    ASSUME CredentialInv, NEW c \in Callers, Call(c) \/ CallRejected(c)
    PROVE  CredentialInv'
<1>1. TypeOK /\ CacheInv /\ UNCHANGED <<breaker_vars, clock, ids, token, faults>>
  BY DEF CredentialInv, Call, CallRejected
<1>2. CacheInv'
  BY <1>1 DEF CacheInv
<1>3. CASE Call(c)
  <2>1. CASE RepoOf[c] \in ids
    <3>1. CallerTypeOK' /\ jwt' \in Nat /\ \A b \in Callers : CallerInv(b)'
      BY <1>1, <1>3, <2>1, UseTokenStarts DEF Call
    <3> QED BY <1>1, <1>2, <3>1 DEF CredentialInv, TypeOK, CallerTypeOK, BreakerTypeOK, breaker_vars
  <2>2. CASE RepoOf[c] \notin ids
    <3>1. Request(c, "installation", app_jwt) /\ jwt' = app_jwt
      BY <1>3, <2>2 DEF Call, RequestAsApp
    <3>2. CallerTypeOK' /\ jwt' \in Nat /\ \A b \in Callers : CallerInv(b)'
      BY <1>1, <3>1, JwtOutlives, RequestStarts DEF Requests
    <3> QED BY <1>1, <1>2, <3>2 DEF CredentialInv, TypeOK, CallerTypeOK, BreakerTypeOK, breaker_vars
  <2> QED BY <2>1, <2>2
<1>4. CASE CallRejected(c)
  <2>1. jwt' \in Nat /\ UNCHANGED <<pc, tries, auth, since, issued>>
    BY <1>1, <1>4, JwtOutlives DEF CallRejected, TypeOK
  <2>2. TypeOK'
    BY <1>1, <2>1 DEF TypeOK, BreakerTypeOK, breaker_vars
  <2>3. \A b \in Callers : CallerInv(b)'
    BY <1>1, <2>1 DEF CredentialInv, CallerInv
  <2> QED BY <1>2, <2>2, <2>3 DEF CredentialInv
<1> QED BY <1>3, <1>4

LEMMA IssueTokenStep ==
    ASSUME CredentialInv, NEW c \in Callers, IssueToken(c)
    PROVE  CredentialInv'
<1>1. /\ issued' = [issued EXCEPT ![c] = clock + TokenTTL]
      /\ UNCHANGED <<breaker_vars, clock, caches, pc, tries, auth, since, faults>>
  BY DEF IssueToken
<1>2. TypeOK'
  BY <1>1, ClientAssumption DEF CredentialInv, TypeOK, BreakerTypeOK, breaker_vars, caches
<1>3. CacheInv'
  BY <1>1 DEF CredentialInv, CacheInv, caches
<1>4. ASSUME NEW b \in Callers PROVE CallerInv(b)'
  BY <1>1, ClientAssumption DEF CredentialInv, TypeOK, CallerInv
<1> QED BY <1>2, <1>3, <1>4 DEF CredentialInv

LEMMA AnsweredStep ==
    ASSUME CredentialInv, NEW c \in Callers, Answered(c)
    PROVE  CredentialInv'
<1>1. /\ TypeOK /\ CacheInv /\ CallerInv(c) /\ on_success("github")
      /\ UNCHANGED <<clock, faults>>
  BY DEF CredentialInv, Answered
<1>2. BreakerTypeOK'
  BY <1>1, ClientAssumption, BreakerTyped DEF TypeOK
<1>3. CASE /\ UseToken(c) /\ ids' = ids \cup {RepoOf[c]} /\ UNCHANGED token
  <2>1. CallerTypeOK' /\ jwt' \in Nat /\ \A b \in Callers : CallerInv(b)'
    BY <1>1, <1>3, UseTokenStarts
  <2>2. TypeOK'
    BY <1>1, <1>2, <1>3, <2>1, ClientAssumption DEF TypeOK, CallerTypeOK
  <2> QED BY <1>1, <1>3, <2>1, <2>2 DEF CredentialInv, CacheInv
<1>4. CASE /\ pc[c] = "access_tokens" /\ issued[c] # 0
           /\ token' = [client |-> clock + TokenTTL, github |-> issued[c]]
           /\ Request(c, "operation", issued[c])
           /\ UNCHANGED <<jwt, ids>>
  <2>1. /\ clock \in Nat /\ issued[c] \in Nat /\ since[c] \in Nat
        /\ clock <= since[c] + SendTime /\ since[c] + TokenTTL <= issued[c]
    BY <1>1, <1>4 DEF TypeOK, CallerInv
  <2>2. clock + SendTime < issued[c] /\ clock + TokenTTL <= issued[c] + SendTime
    BY <2>1, ClientAssumption
  <2>3. CallerTypeOK' /\ \A b \in Callers : CallerInv(b)'
    BY <1>1, <1>4, <2>1, <2>2, RequestStarts DEF Requests
  <2>4. token' \in [client : Nat, github : Nat] /\ CacheInv'
    BY <1>4, <2>1, <2>2, ClientAssumption DEF CacheInv
  <2> QED BY <1>1, <1>2, <1>4, <2>3, <2>4 DEF CredentialInv, TypeOK, CallerTypeOK
<1>5. CASE Return(c) /\ UNCHANGED caches
  <2>1. CallerTypeOK' /\ \A b \in Callers : CallerInv(b)'
    BY <1>1, <1>5, RequestEnds
  <2> QED BY <1>1, <1>2, <1>5, <2>1 DEF CredentialInv, TypeOK, CallerTypeOK, CacheInv, caches
<1> QED BY <1>3, <1>4, <1>5 DEF Answered

LEMMA AttemptStep ==
    ASSUME CredentialInv, NEW c \in Callers, Refused(c) \/ AttemptFails(c)
    PROVE  CredentialInv'
<1>1. /\ TypeOK /\ faults' = faults + 1 /\ UNCHANGED <<clock, caches>>
      /\ Return(c) \/ Retry(c)
      /\ UNCHANGED breaker_vars \/ on_success("github") \/ on_failure("github")
  BY DEF CredentialInv, Refused, AttemptFails, Fault, GiveUp
<1>2. BreakerTypeOK'
  BY <1>1, ClientAssumption, BreakerTyped DEF TypeOK, BreakerTypeOK, breaker_vars
<1>3. CallerTypeOK' /\ \A b \in Callers : CallerInv(b)'
  <2>1. CASE Return(c)
    BY <1>1, <2>1, RequestEnds
  <2>2. CASE Retry(c)
    BY <1>1, <2>2, ClientAssumption DEF CredentialInv, Retry, TypeOK, CallerTypeOK, CallerInv
  <2> QED BY <1>1, <2>1, <2>2
<1>4. CacheInv'
  BY <1>1 DEF CredentialInv, CacheInv, caches
<1> QED BY <1>1, <1>2, <1>3, <1>4 DEF CredentialInv, TypeOK, CallerTypeOK, caches

\* Time passes only while every _send has some left.
LEMMA TickStep ==
    ASSUME CredentialInv, Tick
    PROVE  CredentialInv'
<1>1. TypeOK'
  BY DEF CredentialInv, TypeOK, Tick, BreakerTypeOK, breaker_vars, caches
<1>2. CacheInv'
  BY DEF CredentialInv, CacheInv, Tick, caches
<1>3. ASSUME NEW c \in Callers PROVE CallerInv(c)'
  BY ClientAssumption DEF CredentialInv, TypeOK, Tick, CallerInv
<1> QED BY <1>1, <1>2, <1>3 DEF CredentialInv

LEMMA CoolsStep ==
    ASSUME CredentialInv, BreakerCools
    PROVE  CredentialInv'
<1>1. Cooldown("github") /\ UNCHANGED <<clock, caches, pc, tries, auth, since, issued, faults>>
  BY DEF BreakerCools
<1>2. BreakerTypeOK'
  BY <1>1, ClientAssumption, BreakerTyped DEF CredentialInv, TypeOK
<1> QED BY <1>1, <1>2 DEF CredentialInv, TypeOK, CacheInv, CallerInv, caches

-----------------------------------------------------------------------------
(* The breaker *)

Senders == {c \in Callers : Sending(c)}

\* A request starts when the breaker lets it in, or goes on, or is over.
LEMMA OutageQuiet ==
    ASSUME TypeOK, OutageInv, NEW c \in Callers, UNCHANGED breaker_vars,
           \A b \in Callers \ {c} : pc'[b] = pc[b],
           pc[c] # "idle" \/ pc'[c] = "idle" \/ before_call("github")
    PROVE  OutageInv'
<1> DEFINE now == Cardinality(Senders)
           later == Cardinality(Senders')
           n == Cardinality(Callers)
<1>1. /\ "github" \in Deps /\ state["github"] \in BreakerStates
      /\ failures["github"] \in Nat /\ cooldowns["github"] \in Nat
      /\ OutageBound(state["github"], failures["github"], cooldowns["github"], now, n)
  BY ClientAssumption DEF TypeOK, BreakerTypeOK, OutageInv, Senders
<1>2. /\ Senders \in SUBSET Callers /\ Senders' \in SUBSET Callers
      /\ Senders' \ {c} = Senders \ {c}
      /\ c \in Senders \/ c \notin Senders' \/ state["github"] # "open"
  BY DEF Senders, Sending, before_call
<1>3. n \in Nat /\ now \in 0..n /\ later \in 0..n
  BY <1>2, CountOne, ClientAssumption
<1>4. later <= now \/ state["github"] # "open"
  BY <1>2, CountOne, ClientAssumption
<1>5. OutageBound(state["github"], failures["github"], cooldowns["github"], later, n)
  BY <1>1, <1>3, <1>4, CallsChange
<1> QED BY <1>5 DEF OutageInv, breaker_vars, Senders

LEMMA OutageSuccess ==
    ASSUME TypeOK, on_success("github")
    PROVE  OutageInv'
  BY ClientAssumption, SuccessResets DEF TypeOK, OutageInv

LEMMA OutageFailure ==
    ASSUME TypeOK, OutageInv, NEW c \in Callers, Sending(c), Return(c), on_failure("github")
    PROVE  OutageInv'
<1> DEFINE now == Cardinality(Senders)
           later == Cardinality(Senders')
           n == Cardinality(Callers)
<1>1. /\ "github" \in Deps /\ BreakerTypeOK
      /\ OutageBound(state["github"], failures["github"], cooldowns["github"], now, n)
  BY ClientAssumption DEF TypeOK, OutageInv, Senders
<1>2. /\ Senders \in SUBSET Callers /\ Senders' \in SUBSET Callers
      /\ Senders' \ {c} = Senders \ {c} /\ c \in Senders /\ c \notin Senders'
  BY DEF Senders, Sending, Return, TypeOK
<1>3. n \in Nat /\ now \in 0..n /\ later \in 0..n /\ later + 1 <= now
  BY <1>2, CountOne, ClientAssumption
<1>4. OutageBound(state'["github"], failures'["github"], cooldowns'["github"], later, n)
  BY <1>1, <1>3, FailureCounts
<1> QED BY <1>4 DEF OutageInv, Senders

LEMMA OutageCools ==
    ASSUME TypeOK, OutageInv, BreakerCools
    PROVE  OutageInv'
<1> DEFINE now == Cardinality(Senders)
           n == Cardinality(Callers)
<1>1. /\ "github" \in Deps /\ BreakerTypeOK /\ Cooldown("github") /\ Senders' = Senders
      /\ OutageBound(state["github"], failures["github"], cooldowns["github"], now, n)
  BY ClientAssumption DEF TypeOK, OutageInv, Senders, Sending, BreakerCools
<1>2. n \in Nat /\ now \in 0..n
  BY FS_Subset, FS_CardinalityType, ClientAssumption DEF Senders
<1>3. OutageBound(state'["github"], failures'["github"], cooldowns'["github"], now, n)
  BY <1>1, <1>2, CooldownMakesRoom
<1> QED BY <1>1, <1>3 DEF OutageInv, Senders

LEMMA OutageNext == TypeOK /\ OutageInv /\ [Next]_vars => OutageInv'
<1> SUFFICES ASSUME TypeOK, OutageInv, [Next]_vars PROVE OutageInv'
  OBVIOUS
<1>1. ASSUME NEW c \in Callers, Call(c) PROVE OutageInv'
  <2>1. before_call("github") /\ UNCHANGED breaker_vars /\ \A b \in Callers \ {c} : pc'[b] = pc[b]
    BY <1>1 DEF Call, UseToken, RequestAsApp, Request, TypeOK
  <2> QED BY <2>1, OutageQuiet
<1>2. ASSUME NEW c \in Callers, Answered(c) \/ Refused(c) PROVE OutageInv'
  BY <1>2, OutageSuccess DEF Answered, Refused
<1>3. ASSUME NEW c \in Callers, AttemptFails(c) PROVE OutageInv'
  <2>1. CASE Retry(c) /\ UNCHANGED breaker_vars
    BY <2>1 DEF Retry, OutageInv, Sending, breaker_vars
  <2>2. CASE GiveUp(c) /\ on_failure("github")
    BY <1>3, <2>2, OutageFailure DEF AttemptFails, GiveUp
  <2> QED BY <1>3, <2>1, <2>2 DEF AttemptFails
<1>4. ASSUME UNCHANGED <<breaker_vars, pc>> PROVE OutageInv'
  BY <1>4 DEF OutageInv, Sending, breaker_vars
<1>5. ASSUME NEW c \in Callers, CallRejected(c) \/ IssueToken(c) PROVE OutageInv'
  BY <1>4, <1>5 DEF CallRejected, IssueToken
<1>6. CASE Tick \/ UNCHANGED vars
  BY <1>4, <1>6 DEF Tick, vars
<1> QED BY <1>1, <1>2, <1>3, <1>5, <1>6, OutageCools DEF Next

-----------------------------------------------------------------------------
(* The theorems *)

\* The credentials and the caches over the clock, and the breaker beside them.
THEOREM ClientInvariant == Spec => []IInv
<1>1. Init => CredentialInv /\ OutageInv
  <2>1. Init => OutageInv
    BY BreakerAssumption, ClientAssumption DEF Init, BreakerInit, OutageInv, OutageBound
  <2> QED BY <2>1, InitCredentials
<1>2. CredentialInv /\ [Next]_vars => CredentialInv'
  <2> SUFFICES ASSUME CredentialInv, [Next]_vars PROVE CredentialInv'
    OBVIOUS
  <2>1. ASSUME NEW c \in Callers,
               \/ Call(c) \/ CallRejected(c) \/ IssueToken(c) \/ Answered(c)
               \/ Refused(c) \/ AttemptFails(c)
        PROVE  CredentialInv'
    BY <2>1, CallStep, IssueTokenStep, AnsweredStep, AttemptStep
  <2>2. CASE UNCHANGED vars
    BY <2>2 DEF vars, CredentialInv, TypeOK, BreakerTypeOK, breaker_vars, caches, CacheInv, CallerInv
  <2> QED BY <2>1, <2>2, TickStep, CoolsStep DEF Next
<1>3. CredentialInv /\ OutageInv /\ [Next]_vars => OutageInv'
  BY OutageNext DEF CredentialInv
<1>4. CredentialInv /\ OutageInv => IInv
  BY DEF CredentialInv, IInv
<1> QED BY <1>1, <1>2, <1>3, <1>4, PTL DEF Spec

\* Whatever the lifetimes, a request carries a credential that GitHub still
\* accepts, on its first attempt and on its last, alone or beside any number of
\* callers that refresh the shared caches (github_client.py:108-163, 235-272).
THEOREM CredentialsAreValidAlways == Spec => []CredentialsAreValid
<1>1. IInv => CredentialsAreValid
  <2> SUFFICES ASSUME IInv, NEW c \in Callers, pc[c] # "idle" PROVE clock < auth[c]
    BY DEF CredentialsAreValid
  <2> QED BY ClientAssumption DEF IInv, TypeOK, CallerInv
<1> QED BY <1>1, ClientInvariant, PTL

\* One breaker for all of _send, asked before the first attempt and told of the
\* last one only: what an outage costs GitHub, for any number of callers.
THEOREM OutageCostsFewCallsAlways == Spec => []OutageCostsFewCalls
<1>1. IInv => OutageCostsFewCalls
  <2> SUFFICES ASSUME IInv
               PROVE  failures["github"] + Cardinality(Senders)
                        <= Threshold - 1 + Cardinality(Callers) * (cooldowns["github"] + 1)
    BY DEF OutageCostsFewCalls, Senders
  <2>1. Senders \in SUBSET Callers
    BY DEF Senders
  <2>2. Cardinality(Callers) \in Nat /\ Cardinality(Senders) \in 0..Cardinality(Callers)
    BY <2>1, FS_Subset, FS_CardinalityType, ClientAssumption
  <2>3. /\ "github" \in Deps /\ TypeOK
        /\ OutageBound(state["github"], failures["github"], cooldowns["github"],
                       Cardinality(Senders), Cardinality(Callers))
    BY ClientAssumption DEF IInv, OutageInv, Senders
  <2> QED BY <2>2, <2>3, BoundHolds DEF TypeOK, BreakerTypeOK
<1> QED BY <1>1, ClientInvariant, PTL
=============================================================================
