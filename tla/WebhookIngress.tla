--------------------------- MODULE WebhookIngress ---------------------------
(***************************************************************************)
(* webhook_receiver/app.py receive_webhook over the JobQueue: concurrent   *)
(* POSTs to /webhook in one receiver process, an awaited call at a time.   *)
(*                                                                         *)
(* What GitHub sends is Work[d]: empty when the event asks for nothing,    *)
(* one review, or one indexing operation per repository.  A request that   *)
(* carries no valid signature is not in Authentic.                         *)
(***************************************************************************)
EXTENDS JobQueue, FiniteSets

CONSTANTS
    Carries,        \* the delivery of each request
    Authentic,      \* the requests whose signature verifies
    RetryAttempts,  \* _RETRY_ATTEMPTS
    Faults,         \* what goes wrong around the receiver
    Expiring        \* the deliveries GitHub redelivers after their dedup key
                    \* has expired

\* error       a Redis command or an insert fails without having been run
\* lost_reply  a Redis command is run and its answer is lost
\* crash       the receiver process dies
FaultKinds == {"error", "lost_reply", "crash"}

ASSUME IngressAssumption ==
    /\ Carries \in [Requests -> Deliveries]
    /\ Authentic \subseteq Requests
    /\ RetryAttempts \in Nat \ {0}
    /\ Faults \subseteq FaultKinds
    /\ Expiring \subseteq Deliveries

VARIABLES
    req,        \* the await or the answer of each request
    op,         \* the enqueue operation the request is at
    admitted,   \* past before_call, inside _with_retry
    attempt,    \* attempts of the current command that have failed
    marked      \* the indexing operations repo_index_state was set pending for

request_vars == <<req, op, admitted, attempt>>
vars == <<redis_vars, breaker_vars, request_vars, marked>>

Commands == {"mark_seen", "enqueue", "unclaim"}
InHand == {"mark_pending", "enqueue", "unclaim"}    \* is_new was True
Answers == {"accepted", "duplicate", "ignored", "refused",
            "unavailable", "rollback_failed", "dropped"}

TypeOK ==
    /\ JobQueueTypeOK
    /\ req \in [Requests -> {"idle"} \cup Commands \cup InHand \cup Answers]
    /\ op \in [Requests -> Nat]
    /\ \A r \in Requests : req[r] \in InHand => op[r] \in DOMAIN Work[Carries[r]]
    /\ admitted \in [Requests -> BOOLEAN]
    /\ attempt \in [Requests -> 0..RetryAttempts - 1]
    /\ marked \in [Deliveries -> SUBSET Nat]

Init ==
    /\ JobQueueInit
    /\ req = [r \in Requests |-> "idle"]
    /\ op = [r \in Requests |-> 1]
    /\ admitted = [r \in Requests |-> FALSE]
    /\ attempt = [r \in Requests |-> 0]
    /\ marked = [d \in Deliveries |-> {}]

Becomes(r, state) == req' = [req EXCEPT ![r] = state]

\* Mutant: the repository is not marked.
StartOf_Unmarked(d, i) == "enqueue"

\* Where an operation of a delivery starts: an indexing one marks the
\* repository pending first.
StartOf(d, i) == IF Work[d][i] = "ingest" THEN "mark_pending" ELSE "enqueue"

-----------------------------------------------------------------------------
\* Everything before the dedup claim: no await, nothing written.
Receive(r) ==
    /\ req[r] = "idle"
    /\ Becomes(r, CASE r \notin Authentic -> "refused"
                    [] r \in Authentic /\ Work[Carries[r]] = <<>> -> "ignored"
                    [] OTHER -> "mark_seen")
    /\ UNCHANGED <<redis_vars, breaker_vars, op, admitted, attempt, marked>>

\* Mutant: every failure is rolled back, the claim that was never made too.
Raises_AlwaysRollsBack(r) ==
    Becomes(r, IF req[r] = "unclaim" THEN "rollback_failed" ELSE "unclaim")

\* Mutant: no failure is rolled back.
Raises_NoRollback(r) == Becomes(r, "unavailable")

\* The except clauses: a failed claim is a 503, a failed operation is rolled
\* back first, a failed rollback is logged.
Raises(r) ==
    Becomes(r, CASE req[r] = "mark_seen" -> "unavailable"
                 [] req[r] = "unclaim" -> "rollback_failed"
                 [] OTHER -> "unclaim")

\* before_call of _guarded.
BeforeCall(r) ==
    /\ req[r] \in Commands /\ ~admitted[r]
    /\ IF before_call_admits
       THEN admitted' = [admitted EXCEPT ![r] = TRUE] /\ UNCHANGED req
       ELSE Raises(r) /\ UNCHANGED admitted
    /\ UNCHANGED <<redis_vars, breaker_vars, op, attempt, marked>>

\* What the request's command does in Redis.
Command(r) ==
    LET d == Carries[r] IN
    CASE req[r] = "mark_seen" -> SetNX(d, r)
      [] req[r] = "enqueue" -> EnqueueJob(d, op[r])
      [] req[r] = "unclaim" -> Delete(d)

\* Mutant: the first operation of a delivery is taken for all of it.
Proceeds_FirstOnly(r) ==
    LET d == Carries[r] IN
    \/ /\ req[r] = "mark_seen"
       /\ Becomes(r, IF claimed[d] = None THEN StartOf(d, 1) ELSE "duplicate")
       /\ op' = [op EXCEPT ![r] = 1]
    \/ /\ req[r] = "enqueue"
       /\ Becomes(r, "accepted")
       /\ UNCHANGED op
    \/ /\ req[r] = "unclaim"
       /\ Becomes(r, "unavailable")
       /\ UNCHANGED op

\* Mutant: the key is given back in a finally clause, after a success too.
Proceeds_UnclaimsFinally(r) ==
    LET d == Carries[r] IN
    \/ /\ req[r] = "mark_seen"
       /\ Becomes(r, IF claimed[d] = None THEN StartOf(d, 1) ELSE "duplicate")
       /\ op' = [op EXCEPT ![r] = 1]
    \/ /\ req[r] = "enqueue"
       /\ op[r] < Len(Work[d])
       /\ Becomes(r, StartOf(d, op[r] + 1))
       /\ op' = [op EXCEPT ![r] = @ + 1]
    \/ /\ req[r] = "enqueue"
       /\ op[r] = Len(Work[d])
       /\ Becomes(r, "unclaim")
       /\ UNCHANGED op
    \/ /\ req[r] = "unclaim"
       /\ Becomes(r, "accepted")
       /\ UNCHANGED op

\* receive_webhook goes on with the answer: is_new is whether the key was free.
Proceeds(r) ==
    LET d == Carries[r] IN
    \/ /\ req[r] = "mark_seen"
       /\ Becomes(r, IF claimed[d] = None THEN StartOf(d, 1) ELSE "duplicate")
       /\ op' = [op EXCEPT ![r] = 1]
    \/ /\ req[r] = "enqueue"
       /\ op[r] < Len(Work[d])
       /\ Becomes(r, StartOf(d, op[r] + 1))
       /\ op' = [op EXCEPT ![r] = @ + 1]
    \/ /\ req[r] = "enqueue"
       /\ op[r] = Len(Work[d])
       /\ Becomes(r, "accepted")
       /\ UNCHANGED op
    \/ /\ req[r] = "unclaim"
       /\ Becomes(r, "unavailable")
       /\ UNCHANGED op

\* The command is run and answered.
Answered(r) ==
    /\ req[r] \in Commands /\ admitted[r]
    /\ Command(r)
    /\ Proceeds(r)
    /\ on_success
    /\ admitted' = [admitted EXCEPT ![r] = FALSE]
    /\ attempt' = [attempt EXCEPT ![r] = 0]
    /\ UNCHANGED marked

\* Mutant: the attempts start over instead of running out.
GivesUp_Never(r) ==
    /\ attempt' = [attempt EXCEPT ![r] = (@ + 1) % RetryAttempts]
    /\ UNCHANGED <<breaker_vars, req, op, admitted>>

\* _with_retry tries again; after the last attempt the breaker counts a failure
\* and the exception is raised.
GivesUp(r) ==
    IF attempt[r] + 1 < RetryAttempts
    THEN /\ attempt' = [attempt EXCEPT ![r] = @ + 1]
         /\ UNCHANGED <<breaker_vars, req, op, admitted>>
    ELSE /\ attempt' = [attempt EXCEPT ![r] = 0]
         /\ admitted' = [admitted EXCEPT ![r] = FALSE]
         /\ on_failure
         /\ Raises(r)
         /\ UNCHANGED op

\* The command times out or its connection breaks, before or after it was run.
Unanswered(r) ==
    /\ req[r] \in Commands /\ admitted[r]
    /\ \/ "error" \in Faults /\ UNCHANGED redis_vars
       \/ "lost_reply" \in Faults /\ Command(r)
    /\ GivesUp(r)
    /\ UNCHANGED marked

\* RepoStatusStore.mark_pending: an upsert, neither retried nor guarded.
MarkPending(r) ==
    /\ req[r] = "mark_pending"
    /\ marked' = [marked EXCEPT ![Carries[r]] = @ \cup {op[r]}]
    /\ Becomes(r, "enqueue")
    /\ UNCHANGED <<redis_vars, breaker_vars, op, admitted, attempt>>

MarkPendingFails(r) ==
    /\ "error" \in Faults
    /\ req[r] = "mark_pending"
    /\ Raises(r)
    /\ UNCHANGED <<redis_vars, breaker_vars, op, admitted, attempt, marked>>

-----------------------------------------------------------------------------
\* The key outlives every request of its delivery by hours.
ClaimExpires(d) ==
    /\ d \in Expiring
    /\ \A r \in Requests : Carries[r] = d => req[r] \in {"idle"} \cup Answers
    /\ Expire(d)
    /\ UNCHANGED <<breaker_vars, request_vars, marked>>

CooldownPasses ==
    /\ Cooldown
    /\ UNCHANGED <<redis_vars, request_vars, marked>>

\* Every request under way is dropped; the breaker starts anew.
ReceiverDies ==
    /\ "crash" \in Faults
    /\ req' = [r \in Requests |-> IF req[r] \in Commands \cup InHand
                                  THEN "dropped" ELSE req[r]]
    /\ admitted' = [r \in Requests |-> FALSE]
    /\ attempt' = [r \in Requests |-> 0]
    /\ on_success
    /\ UNCHANGED <<redis_vars, op, marked>>

RequestStep(r) ==
    BeforeCall(r) \/ Answered(r) \/ Unanswered(r) \/ MarkPending(r) \/ MarkPendingFails(r)

Next ==
    \/ \E r \in Requests : Receive(r) \/ RequestStep(r)
    \/ \E d \in Deliveries : ClaimExpires(d)
    \/ CooldownPasses
    \/ ReceiverDies

Spec == Init /\ [][Next]_vars

\* The server goes on with the requests it accepted.
FairSpec == Spec /\ \A r \in Requests : WF_vars(RequestStep(r))

-----------------------------------------------------------------------------
Enqueued(d) == \A i \in DOMAIN Work[d] : jobs[d][i] > 0

\* A 200 "accepted" is only sent when every operation of the delivery is in
\* the queue: no failure, retry or rollback of any of them ends in a 200.
AcceptedIsEnqueued == \A r \in Requests : req[r] = "accepted" => Enqueued(Carries[r])

\* An indexing job is in the queue only after its repository shows as pending,
\* so that the worker's "done" is never overwritten by its own "pending".
MarkedBeforeQueued ==
    \A d \in Deliveries : \A i \in DOMAIN Work[d] :
        Work[d][i] = "ingest" /\ jobs[d][i] > 0 => i \in marked[d]

\* Unless the answer to a Redis command is lost, at most one request of a
\* delivery is past the dedup check, whatever is rolled back and redelivered.
OneInHand ==
    \A r, q \in Requests :
        r # q /\ Carries[r] = Carries[q] => ~(req[r] \in InHand /\ req[q] \in InHand)

\* A delivery with one operation whose key outlives its redeliveries is queued
\* once, however often it is posted, refused, dropped and posted again.
QueuedOnce ==
    \A d \in Deliveries \ Expiring : Len(Work[d]) = 1 => jobs[d][1] <= 1

\* A key that keeps redeliveries out stands for work that is queued or under
\* way; the exceptions are the rollback that failed and was logged, and the
\* receiver that died in between.
ClaimMeansHandled ==
    \A d \in Deliveries :
        claimed[d] # None =>
            \/ Enqueued(d)
            \/ req[claimed[d]] \in InHand \cup {"rollback_failed", "dropped"}

\* Every request is answered, even when Redis answers nothing: again and again
\* none is under way.
RequestsAreAnswered == []<>(\A r \in Requests : req[r] \in {"idle"} \cup Answers)

-----------------------------------------------------------------------------
(* What the documents claim and the code does not keep *)

\* webhook_receiver/app.py: any Redis failure results in a 503, never a silent
\* 200: a delivery whose requests were all answered with a 200 is in the queue.
NeverSilent ==
    \A d \in Deliveries :
        LET posts == {r \in Requests : Carries[r] = d /\ req[r] # "idle"} IN
        posts # {} /\ (\A r \in posts : req[r] \in {"accepted", "duplicate"})
            => Enqueued(d)

-----------------------------------------------------------------------------
(* The inductive invariant *)

\* A request that claims has something to do, has queued what it is past, and
\* has marked what it is about to queue.
HandInv(r) ==
    LET d == Carries[r] IN
    /\ req[r] = "mark_seen" => Work[d] # <<>>
    /\ req[r] \in {"mark_pending", "enqueue"}
         => \A i \in DOMAIN Work[d] : i < op[r] => jobs[d][i] > 0
    /\ req[r] = "enqueue" /\ Work[d][op[r]] = "ingest" => op[r] \in marked[d]

\* Whoever works on a delivery holds its key.
KeyInv == \A r \in Requests : req[r] \in InHand => claimed[Carries[r]] = r

\* What is queued is kept from being queued again by the key.
OnceInv ==
    \A d \in Deliveries \ Expiring :
        Len(Work[d]) = 1 /\ jobs[d][1] # 0 =>
            /\ jobs[d][1] = 1
            /\ claimed[d] # None
            /\ \A r \in Requests : Carries[r] = d => req[r] \notin InHand

IInv ==
    /\ TypeOK
    /\ \A r \in Requests : HandInv(r)
    /\ AcceptedIsEnqueued
    /\ MarkedBeforeQueued
    /\ "lost_reply" \notin Faults => KeyInv
    /\ "lost_reply" \notin Faults => OnceInv
=============================================================================
