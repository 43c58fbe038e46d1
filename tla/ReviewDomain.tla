---------------------------- MODULE ReviewDomain ----------------------------
(***************************************************************************)
(* The names the parts of the review system share.                         *)
(***************************************************************************)
EXTENDS Naturals

CONSTANTS
    Deliveries,     \* GitHub webhook delivery ids; each names one review
    Jobs,           \* run_review jobs of the arq queue
    DeliveryOf,     \* the delivery each job carries: [Jobs -> Deliveries]
    Calls,          \* approve and reject requests on the dashboard API
    ReviewOf,       \* the review each request names: [Calls -> Deliveries]
    None,           \* Python's None and SQL's NULL
    Faults          \* the faults the environment injects

ASSUME DomainAssumption ==
    /\ DeliveryOf \in [Jobs -> Deliveries]
    /\ ReviewOf \in [Calls -> Deliveries]
    /\ Jobs \cap Calls = {}
    /\ None \notin Jobs \cup Calls
    /\ None \notin Nat

\* crash       a worker process dies, or is shut down, in the middle of a job
\* error       a call fails, or the job runs into job_timeout
\* lost_reply  GitHub acts on a request and the answer never arrives
\* redis_loss  Redis restarts without its data
\* overlap     a delivery is enqueued again while an earlier job still runs
FaultKinds == {"crash", "error", "lost_reply", "redis_loss", "overlap"}

ASSUME FaultAssumption == Faults \subseteq FaultKinds
=============================================================================
