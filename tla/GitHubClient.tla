---------------------------- MODULE GitHubClient ----------------------------
(***************************************************************************)
(* integrations/github_client.py GitHubAppClient: the JWT, installation id *)
(* and token caches that every operation of a process shares, and _send    *)
(* with its breaker and its retries.  An operation, whichever it is, is    *)
(* _installation_token and one _send; get_repo_head_sha of HEAD is two.    *)
(*                                                                         *)
(* GitHub is outside the repository: a token lives TokenTTL from when      *)
(* GitHub issued it, and the client counts from when the answer arrived.   *)
(***************************************************************************)
EXTENDS CircuitBreaker, FiniteSets

CONSTANTS
    Callers,        \* operations under way at a time
    Repos, RepoOf,  \* the repository of each caller; one installation
    JwtTTL, JwtMargin,      \* _JWT_TTL_SECONDS, and the 30 of _app_jwt
    TokenTTL, TokenMargin,  \* an hour, and the refresh margin
    SendTime,       \* how long after its first attempt was made the last one of
                    \* a _send still reaches GitHub
    RetryAttempts,  \* _RETRY_ATTEMPTS
    MaxTime,        \* bound: how long the clock runs
    MaxFaults       \* bound: requests that go wrong

ASSUME ClientAssumption ==
    /\ Deps = {"github"}
    /\ IsFiniteSet(Callers)
    /\ RepoOf \in [Callers -> Repos]
    /\ {JwtTTL, JwtMargin, TokenTTL, TokenMargin, SendTime, MaxTime, MaxFaults} \subseteq Nat
    /\ RetryAttempts \in Nat \ {0}
    /\ SendTime <= JwtMargin /\ JwtMargin < JwtTTL
    /\ 2 * SendTime <= TokenMargin /\ TokenMargin < TokenTTL

VARIABLES
    clock,
    jwt,            \* _jwt: when it expires, 0 before there is one
    ids,            \* _installation_ids: the repositories it knows
    token,          \* _installation_tokens: when it expires, for the client and
                    \* for GitHub
    pc,             \* the request each caller is at
    tries,          \* attempts of its _send
    auth,           \* when the credential in the request's headers expires
    since,          \* when the headers were made
    issued,         \* when the token expires that GitHub issued for the request
    faults

caches == <<jwt, ids, token>>
vars == <<breaker_vars, clock, caches, pc, tries, auth, since, issued, faults>>

Requests == {"installation", "access_tokens", "operation"}

TypeOK ==
    /\ BreakerTypeOK
    /\ clock \in Nat
    /\ jwt \in Nat
    /\ ids \subseteq Repos
    /\ token \in [client : Nat, github : Nat]
    /\ pc \in [Callers -> {"idle"} \cup Requests]
    /\ tries \in [Callers -> Nat]
    /\ auth \in [Callers -> Nat]
    /\ since \in [Callers -> Nat]
    /\ issued \in [Callers -> Nat]
    /\ faults \in Nat

Init ==
    /\ BreakerInit
    /\ clock = 0
    /\ jwt = 0 /\ ids = {} /\ token = [client |-> 0, github |-> 0]
    /\ pc = [c \in Callers |-> "idle"]
    /\ tries = [c \in Callers |-> 0]
    /\ auth = [c \in Callers |-> 0]
    /\ since = [c \in Callers |-> 0]
    /\ issued = [c \in Callers |-> 0]
    /\ faults = 0

-----------------------------------------------------------------------------
(* auth *)

\* Mutant: a JWT is used until it expires.
JwtFresh_NoMargin == jwt > clock

JwtFresh == jwt > clock + JwtMargin

\* When the JWT expires that _app_jwt returns: the cached one, or a new one.
app_jwt == IF JwtFresh THEN jwt ELSE clock + JwtTTL

\* Mutant: a token is used until the client takes it for expired.
TokenFresh_NoMargin == token.client > clock

TokenFresh == token.client > clock + TokenMargin

\* Enter _send with headers that are not made again for a retry.
Request(c, request, expires) ==
    /\ pc' = [pc EXCEPT ![c] = request]
    /\ tries' = [tries EXCEPT ![c] = 1]
    /\ auth' = [auth EXCEPT ![c] = expires]
    /\ since' = [since EXCEPT ![c] = clock]
    /\ issued' = [issued EXCEPT ![c] = 0]

RequestAsApp(c, request) == jwt' = app_jwt /\ Request(c, request, app_jwt)

\* _installation_token with the installation id at hand: the cached token, or a
\* request for one.  Concurrent callers may ask for several.
UseToken(c) ==
    IF TokenFresh
    THEN Request(c, "operation", token.github) /\ UNCHANGED jwt
    ELSE RequestAsApp(c, "access_tokens")

\* An operation begins: _installation_id from the cache or from GitHub.
Call(c) ==
    /\ pc[c] = "idle"
    /\ before_call("github")
    /\ IF RepoOf[c] \in ids THEN UseToken(c) ELSE RequestAsApp(c, "installation")
    /\ UNCHANGED <<breaker_vars, clock, ids, token, faults>>

\* CircuitOpenError, after _app_jwt when the request is one of the app.
CallRejected(c) ==
    /\ pc[c] = "idle"
    /\ ~before_call("github")
    /\ jwt' = IF RepoOf[c] \in ids /\ TokenFresh THEN jwt ELSE app_jwt
    /\ UNCHANGED <<breaker_vars, clock, ids, token, pc, tries, auth, since, issued, faults>>

-----------------------------------------------------------------------------
(* _send *)

Sending(c) == pc[c] # "idle"

Return(c) ==
    /\ pc' = [pc EXCEPT ![c] = "idle"]
    /\ tries' = [tries EXCEPT ![c] = 0]
    /\ auth' = [auth EXCEPT ![c] = 0]
    /\ since' = [since EXCEPT ![c] = 0]
    /\ issued' = [issued EXCEPT ![c] = 0]

\* GitHub acts on a request for a token before its answer arrives.
IssueToken(c) ==
    /\ pc[c] = "access_tokens" /\ issued[c] = 0
    /\ issued' = [issued EXCEPT ![c] = clock + TokenTTL]
    /\ UNCHANGED <<breaker_vars, clock, caches, pc, tries, auth, since, faults>>

\* The answer arrives: the client keeps what it learned and goes on to the next
\* request of the operation, which a breaker that just closed lets through.
Answered(c) ==
    /\ on_success("github")
    /\ \/ /\ pc[c] = "installation"
          /\ ids' = ids \cup {RepoOf[c]}
          /\ UseToken(c)
          /\ UNCHANGED token
       \/ /\ pc[c] = "access_tokens" /\ issued[c] # 0
          /\ token' = [client |-> clock + TokenTTL, github |-> issued[c]]
          /\ Request(c, "operation", issued[c])
          /\ UNCHANGED <<jwt, ids>>
       \/ /\ pc[c] = "operation"
          /\ Return(c)
          /\ UNCHANGED caches
    /\ UNCHANGED <<clock, faults>>

Fault == faults < MaxFaults /\ faults' = faults + 1

\* A 4xx is an answer: the operation raises and the breaker counts a success.
Refused(c) ==
    /\ Sending(c)
    /\ Fault
    /\ on_success("github")
    /\ Return(c)
    /\ UNCHANGED <<clock, caches>>

\* Try again, with the same headers and without asking the breaker.
Retry(c) ==
    /\ tries[c] < RetryAttempts
    /\ tries' = [tries EXCEPT ![c] = @ + 1]
    /\ issued' = [issued EXCEPT ![c] = 0]
    /\ UNCHANGED <<pc, auth, since>>

GiveUp(c) == tries[c] = RetryAttempts /\ Return(c)

\* Mutant: every failed attempt counts for the breaker, the retried ones too.
AttemptFails_CountsAll(c) ==
    /\ Sending(c)
    /\ Fault
    /\ on_failure("github")
    /\ Retry(c) \/ GiveUp(c)
    /\ UNCHANGED <<clock, caches>>

\* No answer, 429 or 5xx; only the last attempt's counts as a failure.
AttemptFails(c) ==
    /\ Sending(c)
    /\ Fault
    /\ \/ Retry(c) /\ UNCHANGED breaker_vars
       \/ GiveUp(c) /\ on_failure("github")
    /\ UNCHANGED <<clock, caches>>

-----------------------------------------------------------------------------
\* The timeouts let no _send take longer than SendTime.
Tick ==
    /\ clock < MaxTime
    /\ \A c \in Callers : pc[c] # "idle" => clock < since[c] + SendTime
    /\ clock' = clock + 1
    /\ UNCHANGED <<breaker_vars, caches, pc, tries, auth, since, issued, faults>>

BreakerCools ==
    /\ Cooldown("github")
    /\ UNCHANGED <<clock, caches, pc, tries, auth, since, issued, faults>>

Next ==
    \/ \E c \in Callers : \/ Call(c) \/ CallRejected(c) \/ IssueToken(c) \/ Answered(c)
                          \/ Refused(c) \/ AttemptFails(c)
    \/ Tick \/ BreakerCools

Spec == Init /\ [][Next]_vars

-----------------------------------------------------------------------------
\* No request reaches GitHub with a credential that has expired there: not a
\* retry made with the headers of its first attempt, not a token that another
\* caller put in the cache long after GitHub issued it.
CredentialsAreValid == \A c \in Callers : pc[c] # "idle" => clock < auth[c]

\* One outage costs at most Threshold - 1 failed requests and then one per
\* caller and cooldown, the requests under way included: a request counts once,
\* however often it is retried (github_client.py:248-272).
OutageCostsFewCalls ==
    failures["github"] + Cardinality({c \in Callers : Sending(c)})
        <= Threshold - 1 + Cardinality(Callers) * (cooldowns["github"] + 1)

-----------------------------------------------------------------------------
(* The inductive invariant *)

\* Headers outlive the _send they were made for.
CallerInv(c) ==
    pc[c] # "idle" =>
        /\ since[c] <= clock /\ clock <= since[c] + SendTime
        /\ since[c] + SendTime < auth[c]
        /\ issued[c] # 0 => since[c] + TokenTTL <= issued[c]

\* The client takes a token for younger than GitHub does, but not by more than
\* an answer takes.
CacheInv == token.client <= token.github + SendTime

OutageInv == OutageBound(state["github"], failures["github"], cooldowns["github"],
                         Cardinality({c \in Callers : Sending(c)}), Cardinality(Callers))

IInv ==
    /\ TypeOK
    /\ CacheInv
    /\ \A c \in Callers : CallerInv(c)
    /\ OutageInv
=============================================================================
