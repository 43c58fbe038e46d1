------------------------------ MODULE JobQueue ------------------------------
(***************************************************************************)
(* job_queue/queue.py: the dedup keys and arq jobs in Redis, and the       *)
(* circuit breaker every command of the webhook receiver goes through.     *)
(*                                                                         *)
(* Redis is outside the repository: SET NX, DEL and arq's enqueue are      *)
(* atomic.  enqueue_job is called without a job id, so each command that   *)
(* reaches Redis is a job of its own.  The key's value is always "1"; the  *)
(* model keeps the request that set it.                                    *)
(***************************************************************************)
EXTENDS Naturals, Sequences

CONSTANTS
    Requests,           \* POSTs to /webhook
    Deliveries,         \* X-GitHub-Delivery ids
    Work,               \* the enqueue operations a delivery asks for, by kind
    None,
    FailureThreshold    \* _FAILURE_THRESHOLD

ASSUME QueueAssumption ==
    /\ Work \in [Deliveries -> Seq({"review", "ingest"})]
    /\ None \notin Requests
    /\ FailureThreshold \in Nat \ {0}

VARIABLES
    claimed,    \* webhook:delivery:<id>
    jobs,       \* how many arq jobs each operation of a delivery has put
    breaker,    \* closed, open, or half_open once the cooldown has passed
    failures    \* consecutive failures; at FailureThreshold and above all alike

redis_vars == <<claimed, jobs>>
breaker_vars == <<breaker, failures>>

JobQueueTypeOK ==
    /\ claimed \in [Deliveries -> Requests \cup {None}]
    /\ DOMAIN jobs = Deliveries
    /\ \A d \in Deliveries : jobs[d] \in [DOMAIN Work[d] -> Nat]
    /\ breaker \in {"closed", "open", "half_open"}
    /\ failures \in 0..FailureThreshold

JobQueueInit ==
    /\ claimed = [d \in Deliveries |-> None]
    /\ jobs = [d \in Deliveries |-> [i \in DOMAIN Work[d] |-> 0]]
    /\ breaker = "closed"
    /\ failures = 0

-----------------------------------------------------------------------------
\* mark_seen: SET NX EX.
SetNX(d, r) ==
    /\ claimed' = [claimed EXCEPT ![d] = IF @ = None THEN r ELSE @]
    /\ UNCHANGED jobs

\* unclaim: DEL, whoever set the key.
Delete(d) == claimed' = [claimed EXCEPT ![d] = None] /\ UNCHANGED jobs

\* enqueue_review, enqueue_index_repo, enqueue_reindex_repo.
EnqueueJob(d, i) == jobs' = [jobs EXCEPT ![d][i] = @ + 1] /\ UNCHANGED claimed

\* The key lives DELIVERY_DEDUP_TTL_SECONDS.
Expire(d) == claimed[d] # None /\ Delete(d)

-----------------------------------------------------------------------------
before_call_admits == breaker # "open"

on_success == breaker' = "closed" /\ failures' = 0

on_failure ==
    /\ failures' = IF failures < FailureThreshold THEN failures + 1 ELSE failures
    /\ breaker' = IF failures' = FailureThreshold THEN "open" ELSE breaker

\* reset_after_seconds have passed since the breaker opened.
Cooldown == breaker = "open" /\ breaker' = "half_open" /\ UNCHANGED failures
=============================================================================
