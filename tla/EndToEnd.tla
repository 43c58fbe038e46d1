------------------------------ MODULE EndToEnd ------------------------------
(***************************************************************************)
(* From the POST to the decision: the webhook receiver of WebhookIngress   *)
(* put in front of ReviewWorker.  The command that puts a review job into  *)
(* Redis is one step of both, and the Redis that forgets its queue forgets *)
(* the dedup keys with it.  The dashboard API is left out: no request of   *)
(* it makes a decided review undecided (ReviewSystem!DecidedStaysDecided). *)
(***************************************************************************)
EXTENDS ReviewWorker

CONSTANTS
    Requests,           \* POSTs to /webhook
    Carries,            \* the delivery of each: a pull_request event
    RedisAttempts,      \* _RETRY_ATTEMPTS of job_queue/queue.py
    FailureThreshold,   \* _FAILURE_THRESHOLD of job_queue/queue.py
    IngressFaults,      \* what goes wrong around the receiver
    Expiring            \* the deliveries whose dedup key may expire

ASSUME ReceiverAssumption ==
    /\ Carries \in [Requests -> Deliveries]
    /\ None \notin Requests
    /\ RedisAttempts \in Nat \ {0}
    /\ FailureThreshold \in Nat \ {0}
    /\ IngressFaults \subseteq {"error", "lost_reply", "crash"}
    /\ Expiring \subseteq Deliveries

VARIABLES
    claimed, jobs, breaker, failures,           \* of JobQueue
    req, op, admitted, command_attempt, marked, \* of WebhookIngress
    job_of      \* the job each request put into the queue

ReviewWork == [d \in Deliveries |-> <<"review">>]

Ingress == INSTANCE WebhookIngress WITH
    Work <- ReviewWork,
    Authentic <- Requests,
    RetryAttempts <- RedisAttempts,
    Faults <- IngressFaults,
    attempt <- command_attempt

worker_vars == <<queue_vars, run_vars, store_vars>>
ingress_vars == <<claimed, jobs, breaker, failures, req, op, admitted, command_attempt, marked>>
vars == <<worker_vars, ingress_vars, job_of>>

Init ==
    /\ TruthStoreInit /\ HitlQueueInit /\ GitHubInit /\ CheckpointInit /\ WorkerInit
    /\ Ingress!Init
    /\ job_of = [r \in Requests |-> None]

\* arq makes a new job of every enqueue_job, whatever it carries.
JobArrives(r) ==
    \E j \in Jobs :
        /\ DeliveryOf[j] = Carries[r]
        /\ EnqueueReview(j)
        /\ job_of' = [job_of EXCEPT ![r] = j]

RequestMoves(r) ==
    /\ Ingress!Receive(r) \/ Ingress!RequestStep(r)
    /\ IF jobs' = jobs THEN UNCHANGED <<worker_vars, job_of>> ELSE JobArrives(r)

\* Bound: a job is over before the key of its delivery is, which lives longer
\* than max_tries runs of job_timeout seconds; only a Redis that lost the key
\* lets a second job run beside the first.
KeyExpires(d) ==
    /\ \A j \in Jobs : DeliveryOf[j] = d => job_state[j] = "idle" \/ Settled(j)
    /\ Ingress!ClaimExpires(d)

ReceiverMoves ==
    /\ \/ \E d \in Deliveries : KeyExpires(d)
       \/ Ingress!CooldownPasses
       \/ Ingress!ReceiverDies
    /\ UNCHANGED <<worker_vars, job_of>>

\* Redis comes back empty; the receiver and the workers live on.
RedisComesBackEmpty ==
    /\ RedisRestart
    /\ claimed' = [d \in Deliveries |-> None]
    /\ UNCHANGED <<jobs, breaker, failures, req, op, admitted, command_attempt, marked, job_of>>

WorkerMoves ==
    /\ \E j \in Jobs : WorkerStep(j) \/ BackgroundSave(j) \/ WorkerDies(j) \/ JobFails(j)
    /\ UNCHANGED <<ingress_vars, job_of>>

Next ==
    \/ \E r \in Requests : RequestMoves(r)
    \/ ReceiverMoves
    \/ RedisComesBackEmpty
    \/ WorkerMoves

\* The step of a process that goes on with what it has taken on: the server with
\* a request, a worker with a job.
ProcessMoves ==
    \/ \E r \in Requests : Ingress!RequestStep(r) /\ RequestMoves(r)
    \/ (\E j \in Jobs : WorkerStep(j)) /\ UNCHANGED <<ingress_vars, job_of>>

\* The processes do not all stand still; which of them moves is not fair, nor is
\* posting, dying, raising, forgetting or a background save.
Spec == Init /\ [][Next]_vars /\ WF_vars(ProcessMoves)

-----------------------------------------------------------------------------
\* The reviews as ReviewSystem knows them, with nobody at the dashboard.
NoCalls == [c \in Calls |-> "idle"]
NoBodies == [c \in Calls |-> {}]
NoAttempts == [c \in Calls |-> 0]
NoIds == [c \in Calls |-> None]

Reviews == INSTANCE ReviewSystem WITH
    call <- NoCalls, call_body <- NoBodies,
    call_attempt <- NoAttempts, call_posted_id <- NoIds

-----------------------------------------------------------------------------
IsDecided(d) == status[d] \notin {"absent", "pending"}

Gone(r) == job_of[r] # None /\ job_state[job_of[r]] \in {"failed", "lost"}

Active(j) == job_state[j] \in {"queued", "running", "detached"}

\* While Redis keeps the dedup keys, a delivery has one job under way at most,
\* however often it is posted, refused, rolled back, dropped and posted again:
\* nothing else keeps the runs of run_review from overlapping.
JobsFollowEachOther ==
    restarts = 0 =>
        \A j, k \in Jobs :
            DeliveryOf[j] = DeliveryOf[k] /\ Active(j) /\ Active(k) => j = k

\* Behind each accepted POST is a job of its own, for the delivery it carried,
\* and that job does not end well without a decision.
EachAcceptedHasItsJob ==
    \A r \in Requests :
        req[r] = "accepted" =>
            /\ job_of[r] \in Jobs /\ DeliveryOf[job_of[r]] = Carries[r]
            /\ \/ Active(job_of[r]) \/ IsDecided(Carries[r])
               \/ job_state[job_of[r]] \in {"failed", "lost"}
            /\ \A q \in Requests \ {r} : job_of[q] # job_of[r]

\* One pull request event, one effect: while Redis keeps its data and no run is
\* cut off with another to follow, all POSTs of a delivery together end in one review on GitHub or in one
\* row of the human queue.
OneEffect ==
    restarts = 0 =>
        \A d \in Deliveries :
            Reviews!Uninterrupted(d) => Len(github[d]) + Len(hitl_reviews[d]) <= 1

\* What a 200 promises: an accepted POST that its review will be decided, a
\* duplicate one that another POST of the delivery was.  The exceptions are the
\* job that raised or that Redis lost with its data, and the failure another POST
\* was told of.
Kept(r) ==
    /\ req[r] = "accepted" => IsDecided(Carries[r]) \/ Gone(r)
    /\ req[r] = "duplicate" =>
          \/ IsDecided(Carries[r])
          \/ \E q \in Requests \ {r} :
               /\ Carries[q] = Carries[r]
               /\ Gone(q) \/ req[q] \in {"unavailable", "rollback_failed", "dropped"}

\* Through failed commands, dead workers, resumed and repeated jobs, every
\* promise is kept.  An answer is final and so is a decision: "again and again"
\* says that it is kept in the end.
PromisesAreKept == []<>(\A r \in Requests : Kept(r))

-----------------------------------------------------------------------------
(* The inductive invariant of the seam *)

SeamTypeOK ==
    /\ DOMAIN claimed = Deliveries
    /\ jobs \in [Deliveries -> [{1} -> Nat]]
    /\ DOMAIN req = Requests
    /\ job_of \in [Requests -> Jobs \cup {None}]

\* A job under way keeps its key, and nobody else works on its delivery.
KeptApart(j) ==
    LET d == DeliveryOf[j] IN
    Active(j) =>
        /\ claimed[d] # None
        /\ \A r \in Requests : Carries[r] = d => req[r] \notin Ingress!InHand
        /\ \A k \in Jobs : DeliveryOf[k] = d /\ Active(k) => k = j

\* The job of a request was started by it, and by no other.
HandedOver(r) ==
    /\ req[r] = "accepted" => job_of[r] # None
    /\ job_of[r] # None =>
         /\ job_of[r] \in Jobs /\ DeliveryOf[job_of[r]] = Carries[r]
         /\ job_state[job_of[r]] # "idle"
         /\ \A q \in Requests \ {r} : job_of[q] # job_of[r]

SeamInv ==
    /\ SeamTypeOK
    /\ \A r \in Requests : HandedOver(r)
    /\ restarts = 0 => Ingress!IInv /\ \A j \in Jobs : KeptApart(j)
=============================================================================
