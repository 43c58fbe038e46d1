------------------------ MODULE WebhookIngressProofs ------------------------
(***************************************************************************)
(* Proofs about WebhookIngress for any number of requests, deliveries and  *)
(* operations, and any bound on attempts and failures.                     *)
(***************************************************************************)
EXTENDS WebhookIngress, TLAPS

\* What an awaited Redis command may do, answered or not.
Redis(r) == (req[r] \in Commands /\ admitted[r] /\ Command(r)) \/ UNCHANGED redis_vars

LEMMA RedisTyped ==
    ASSUME TypeOK, NEW r \in Requests, Redis(r)
    PROVE  /\ claimed' \in [Deliveries -> Requests \cup {None}]
           /\ DOMAIN jobs' = Deliveries
           /\ \A d \in Deliveries : /\ jobs'[d] \in [DOMAIN Work[d] -> Nat]
                                    /\ \A i \in DOMAIN Work[d] : jobs'[d][i] >= jobs[d][i]
<1> USE IngressAssumption DEF TypeOK, JobQueueTypeOK
<1>1. CASE UNCHANGED redis_vars
  BY <1>1 DEF redis_vars
<1>2. CASE req[r] = "mark_seen" /\ SetNX(Carries[r], r)
  BY <1>2 DEF SetNX
<1>3. CASE req[r] = "enqueue" /\ EnqueueJob(Carries[r], op[r])
  <2>1. op[r] \in DOMAIN Work[Carries[r]]
    BY <1>3 DEF InHand
  <2> QED BY <1>3, <2>1 DEF EnqueueJob
<1>4. CASE req[r] = "unclaim" /\ Delete(Carries[r])
  BY <1>4 DEF Delete
<1> QED BY <1>1, <1>2, <1>3, <1>4 DEF Redis, Commands, Command

LEMMA FailureTyped ==
    ASSUME JobQueueTypeOK, on_failure
    PROVE  breaker' \in {"closed", "open", "half_open"} /\ failures' \in 0..FailureThreshold
  BY QueueAssumption DEF JobQueueTypeOK, on_failure

\* The state an exception leads to; only an operation leads to its rollback.
LEMMA RaisesTyped ==
    ASSUME TypeOK, NEW r \in Requests, Raises(r), req[r] \in Commands \cup InHand
    PROVE  /\ req' \in [Requests -> {"idle"} \cup Commands \cup InHand \cup Answers]
           /\ req'[r] \in {"unavailable", "rollback_failed", "unclaim"}
           /\ req'[r] = "unclaim" => req[r] \in InHand
           /\ \A q \in Requests \ {r} : req'[q] = req[q]
  BY DEF TypeOK, Raises, Becomes, Commands, InHand, Answers

LEMMA ProceedsTyped ==
    ASSUME TypeOK, NEW r \in Requests, Proceeds(r)
    PROVE  /\ req' \in [Requests -> {"idle"} \cup Commands \cup InHand \cup Answers]
           /\ op' \in [Requests -> Nat]
           /\ \A q \in Requests \ {r} : req'[q] = req[q] /\ op'[q] = op[q]
<1>1. \A d, i : StartOf(d, i) \in InHand
  BY DEF StartOf, InHand
<1>2. PICK state \in InHand \cup Answers : Becomes(r, state)
  BY <1>1 DEF Proceeds, Answers
<1>3. UNCHANGED op \/ op' = [op EXCEPT ![r] = 1] \/ op' = [op EXCEPT ![r] = @ + 1]
  BY DEF Proceeds
<1>4. op' \in [Requests -> Nat] /\ \A q \in Requests \ {r} : op'[q] = op[q]
  BY <1>3 DEF TypeOK
<1> QED BY <1>2, <1>4 DEF TypeOK, Becomes

LEMMA IngressInit == Init => IInv
<1> SUFFICES ASSUME Init PROVE IInv
  OBVIOUS
<1> USE DEF Init, JobQueueInit
<1>1. JobQueueTypeOK
  BY QueueAssumption DEF JobQueueTypeOK
<1>2. TypeOK
  BY <1>1, IngressAssumption DEF TypeOK, InHand
<1>3. \A r \in Requests : HandInv(r)
  BY DEF HandInv
<1>4. AcceptedIsEnqueued /\ KeyInv
  BY DEF AcceptedIsEnqueued, KeyInv, InHand
<1>5. MarkedBeforeQueued
  BY DEF MarkedBeforeQueued
<1>6. OnceInv
  BY QueueAssumption DEF OnceInv
<1> QED BY <1>2, <1>3, <1>4, <1>5, <1>6 DEF IInv

-----------------------------------------------------------------------------
(* Steps that put nothing in the queue *)

\* The request stays where it is, or leaves without having done more.
Backs(r) ==
    /\ op'[r] = op[r]
    /\ \/ req'[r] = req[r]
       \/ /\ req'[r] \notin {"mark_pending", "enqueue", "accepted"}
          /\ req'[r] \in InHand => req[r] \in InHand
          /\ req'[r] = "mark_seen" => Work[Carries[r]] # <<>>

\* Nothing is taken out of the queue, and no mark is removed.
Grow ==
    \A d \in Deliveries :
        /\ \A i \in DOMAIN Work[d] : jobs[d][i] > 0 => jobs'[d][i] > 0
        /\ marked[d] \subseteq marked'[d]

LEMMA HandUndisturbed ==
    ASSUME IInv, Grow, NEW r \in Requests, Backs(r)
    PROVE  HandInv(r)' /\ (req'[r] = "accepted" => Enqueued(Carries[r])')
<1>1. Carries[r] \in Deliveries /\ HandInv(r)
  BY IngressAssumption DEF IInv
<1>2. req[r] = "accepted" => Enqueued(Carries[r])
  BY DEF IInv, AcceptedIsEnqueued
<1> QED BY <1>1, <1>2 DEF Grow, Backs, HandInv, Enqueued

LEMMA QuietKeeps ==
    ASSUME IInv, TypeOK', UNCHANGED <<redis_vars, marked>>, \A r \in Requests : Backs(r)
    PROVE  IInv'
<1> USE DEF redis_vars
<1>1. Grow
  BY DEF Grow
<1>2. (\A r \in Requests : HandInv(r))' /\ AcceptedIsEnqueued'
  BY <1>1, HandUndisturbed DEF AcceptedIsEnqueued
<1>3. MarkedBeforeQueued'
  BY DEF IInv, MarkedBeforeQueued
<1>4. KeyInv => KeyInv'
  BY DEF KeyInv, Backs, InHand
<1>5. OnceInv => OnceInv'
  BY DEF OnceInv, Backs, InHand
<1> QED BY <1>2, <1>3, <1>4, <1>5 DEF IInv

LEMMA RaisesBacks ==
    ASSUME TypeOK, NEW r \in Requests, Raises(r), req[r] \in Commands \cup InHand, UNCHANGED op
    PROVE  \A q \in Requests : Backs(q)
  BY RaisesTyped DEF Backs, InHand, TypeOK

LEMMA ReceiveStep ==
    ASSUME IInv, NEW r \in Requests, Receive(r)
    PROVE  IInv'
<1>1. /\ UNCHANGED <<redis_vars, breaker_vars, op, admitted, attempt, marked>>
      /\ req[r] = "idle"
  BY DEF Receive
<1>2. PICK state \in {"refused", "ignored", "mark_seen"} :
         Becomes(r, state) /\ (state = "mark_seen" => Work[Carries[r]] # <<>>)
  BY DEF Receive
<1>3. TypeOK /\ \A q \in Requests : Backs(q)
  BY <1>1, <1>2 DEF IInv, TypeOK, Becomes, Backs, InHand
<1>4. TypeOK'
  BY <1>1, <1>2, <1>3
  DEF TypeOK, JobQueueTypeOK, Becomes, Commands, InHand, Answers, redis_vars, breaker_vars
<1> QED BY <1>1, <1>3, <1>4, QuietKeeps

LEMMA BeforeCallStep ==
    ASSUME IInv, NEW r \in Requests, BeforeCall(r)
    PROVE  IInv'
<1>1. /\ UNCHANGED <<redis_vars, breaker_vars, op, attempt, marked>>
      /\ req[r] \in Commands /\ TypeOK
  BY DEF BeforeCall, IInv
<1>2. CASE Raises(r) /\ UNCHANGED admitted
  <2>1. TypeOK'
    BY <1>1, <1>2, RaisesTyped
    DEF TypeOK, JobQueueTypeOK, InHand, redis_vars, breaker_vars
  <2> QED BY <1>1, <1>2, <2>1, RaisesBacks, QuietKeeps
<1>3. CASE admitted' = [admitted EXCEPT ![r] = TRUE] /\ UNCHANGED req
  <2>1. TypeOK' /\ \A q \in Requests : Backs(q)
    BY <1>1, <1>3 DEF TypeOK, JobQueueTypeOK, Backs, redis_vars, breaker_vars
  <2> QED BY <1>1, <2>1, QuietKeeps
<1> QED BY <1>2, <1>3 DEF BeforeCall

LEMMA MarkPendingFailsStep ==
    ASSUME IInv, NEW r \in Requests, MarkPendingFails(r)
    PROVE  IInv'
<1>1. /\ UNCHANGED <<redis_vars, breaker_vars, op, admitted, attempt, marked>>
      /\ Raises(r) /\ req[r] \in InHand /\ TypeOK
  BY DEF MarkPendingFails, IInv, InHand
<1>2. TypeOK'
  BY <1>1, RaisesTyped DEF TypeOK, JobQueueTypeOK, InHand, redis_vars, breaker_vars
<1> QED BY <1>1, <1>2, RaisesBacks, QuietKeeps

LEMMA CooldownStep ==
    ASSUME IInv, CooldownPasses
    PROVE  IInv'
<1> USE DEF CooldownPasses, Cooldown
<1>1. TypeOK' /\ \A q \in Requests : Backs(q)
  BY DEF IInv, TypeOK, JobQueueTypeOK, Backs, redis_vars, request_vars
<1> QED BY <1>1, QuietKeeps

LEMMA ReceiverDiesStep ==
    ASSUME IInv, ReceiverDies
    PROVE  IInv'
<1> USE DEF ReceiverDies
<1>1. \A q \in Requests : Backs(q)
  BY DEF Backs, InHand
<1>2. JobQueueTypeOK'
  BY QueueAssumption DEF IInv, TypeOK, JobQueueTypeOK, on_success, redis_vars
<1>3. req' \in [Requests -> {"idle"} \cup Commands \cup InHand \cup Answers]
  BY DEF IInv, TypeOK, Answers
<1>4. \A r \in Requests : req'[r] \notin InHand
  BY DEF InHand
<1>5. TypeOK'
  BY <1>2, <1>3, <1>4, IngressAssumption DEF IInv, TypeOK
<1> QED BY <1>1, <1>5, QuietKeeps

LEMMA IngressStutter ==
    ASSUME IInv, UNCHANGED vars
    PROVE  IInv'
<1> USE DEF vars, request_vars
<1>1. TypeOK' /\ \A q \in Requests : Backs(q)
  BY DEF IInv, TypeOK, JobQueueTypeOK, Backs, redis_vars, breaker_vars
<1> QED BY <1>1, QuietKeeps

LEMMA MarkPendingStep ==
    ASSUME IInv, NEW r \in Requests, MarkPending(r)
    PROVE  IInv'
<1> USE DEF MarkPending
<1>1. TypeOK /\ Carries[r] \in Deliveries /\ HandInv(r)
  BY IngressAssumption DEF IInv
<1>2. TypeOK'
  BY <1>1 DEF TypeOK, JobQueueTypeOK, Becomes, Commands, InHand, redis_vars, breaker_vars
<1>3. Grow
  BY <1>1 DEF Grow, TypeOK, redis_vars
<1>4. req'[r] = "enqueue" /\ op'[r] = op[r] /\ op[r] \in marked'[Carries[r]]
  BY <1>1 DEF Becomes, TypeOK
<1>5. \A q \in Requests \ {r} : Backs(q)
  BY <1>1 DEF Becomes, Backs, TypeOK
<1>6. HandInv(r)'
  BY <1>1, <1>4 DEF HandInv, redis_vars
<1>7. (\A q \in Requests : HandInv(q))' /\ AcceptedIsEnqueued'
  BY <1>3, <1>4, <1>5, <1>6, HandUndisturbed DEF AcceptedIsEnqueued
<1>8. MarkedBeforeQueued'
  BY <1>3 DEF IInv, MarkedBeforeQueued, Grow, redis_vars
<1>9. /\ req[r] \in InHand /\ claimed' = claimed /\ jobs' = jobs
      /\ \A q \in Requests : req'[q] \in InHand => req[q] \in InHand
  BY <1>4, <1>5 DEF InHand, Backs, redis_vars
<1>10. (KeyInv => KeyInv') /\ (OnceInv => OnceInv')
  BY <1>9 DEF KeyInv, OnceInv
<1> QED BY <1>2, <1>7, <1>8, <1>10 DEF IInv

LEMMA ClaimExpiresStep ==
    ASSUME IInv, NEW d \in Deliveries, ClaimExpires(d)
    PROVE  IInv'
<1> USE DEF ClaimExpires, Expire, Delete
<1>1. TypeOK'
  BY DEF IInv, TypeOK, JobQueueTypeOK, redis_vars, breaker_vars, request_vars
<1>2. Grow /\ \A q \in Requests : Backs(q)
  BY DEF Grow, Backs, request_vars
<1>3. (\A r \in Requests : HandInv(r))' /\ AcceptedIsEnqueued'
  BY <1>2, HandUndisturbed DEF AcceptedIsEnqueued
<1>4. MarkedBeforeQueued'
  BY DEF IInv, MarkedBeforeQueued
<1>5. \A r \in Requests : Carries[r] = d => req[r] \notin InHand
  BY DEF InHand, Answers
<1>6. KeyInv => KeyInv'
  BY <1>5 DEF KeyInv, IInv, TypeOK, JobQueueTypeOK, request_vars
<1>7. OnceInv => OnceInv'
  BY DEF OnceInv, IInv, TypeOK, JobQueueTypeOK, request_vars
<1> QED BY <1>1, <1>3, <1>4, <1>6, <1>7 DEF IInv

-----------------------------------------------------------------------------
(* Redis commands *)

\* A command that reaches Redis takes nothing out of the queue, and queues only
\* what is marked.
LEMMA CommandKeeps ==
    ASSUME IInv, NEW r \in Requests, Redis(r), UNCHANGED marked
    PROVE  Grow /\ MarkedBeforeQueued'
<1>1. TypeOK /\ Carries[r] \in Deliveries /\ HandInv(r) /\ MarkedBeforeQueued
  BY IngressAssumption DEF IInv
<1>2. CASE UNCHANGED jobs
  BY <1>1, <1>2 DEF Grow, MarkedBeforeQueued
<1>3. CASE req[r] = "enqueue" /\ EnqueueJob(Carries[r], op[r])
  <2> DEFINE d == Carries[r]
  <2>1. /\ \A e \in Deliveries \ {d} : jobs'[e] = jobs[e]
        /\ \A i \in DOMAIN Work[d] : jobs'[d][i] > 0 => jobs[d][i] > 0 \/ i = op[r]
    BY <1>1, <1>3 DEF EnqueueJob, TypeOK, JobQueueTypeOK, InHand
  <2>2. MarkedBeforeQueued'
    BY <1>1, <1>3, <2>1 DEF MarkedBeforeQueued, HandInv
  <2>3. Grow
    BY <1>1, RedisTyped DEF Grow, TypeOK, JobQueueTypeOK
  <2> QED BY <2>2, <2>3
<1> QED BY <1>2, <1>3 DEF Redis, Command, Commands, SetNX, Delete, redis_vars

LEMMA UnansweredStep ==
    ASSUME IInv, NEW r \in Requests, Unanswered(r)
    PROVE  IInv'
<1>1. /\ req[r] \in Commands /\ admitted[r] /\ GivesUp(r) /\ UNCHANGED marked /\ TypeOK
      /\ Redis(r) /\ ("lost_reply" \in Faults \/ UNCHANGED redis_vars)
  BY DEF Unanswered, Redis, IInv
<1>2. /\ Grow /\ MarkedBeforeQueued'
      /\ claimed' \in [Deliveries -> Requests \cup {None}]
      /\ DOMAIN jobs' = Deliveries
      /\ \A d \in Deliveries : jobs'[d] \in [DOMAIN Work[d] -> Nat]
  BY <1>1, CommandKeeps, RedisTyped
<1>3. TypeOK' /\ \A q \in Requests : Backs(q)
  <2>1. CASE /\ attempt[r] + 1 < RetryAttempts
             /\ attempt' = [attempt EXCEPT ![r] = @ + 1]
             /\ UNCHANGED <<breaker_vars, req, op, admitted>>
    BY <1>1, <1>2, <2>1, IngressAssumption
    DEF TypeOK, JobQueueTypeOK, Backs, breaker_vars
  <2>2. CASE /\ attempt' = [attempt EXCEPT ![r] = 0]
             /\ admitted' = [admitted EXCEPT ![r] = FALSE]
             /\ on_failure /\ Raises(r) /\ UNCHANGED op
    <3>1. JobQueueTypeOK'
      BY <1>1, <1>2, <2>2, FailureTyped DEF TypeOK, JobQueueTypeOK
    <3>2. /\ req' \in [Requests -> {"idle"} \cup Commands \cup InHand \cup Answers]
          /\ \A q \in Requests : req'[q] \in InHand => req[q] \in InHand
      BY <1>1, <2>2, RaisesTyped DEF InHand
    <3>3. attempt' \in [Requests -> 0..RetryAttempts - 1]
      BY <1>1, <2>2, IngressAssumption DEF TypeOK
    <3>4. TypeOK'
      BY <1>1, <2>2, <3>1, <3>2, <3>3 DEF TypeOK
    <3> QED BY <1>1, <2>2, <3>4, RaisesBacks
  <2> QED BY <1>1, <2>1, <2>2 DEF GivesUp
<1>4. (\A q \in Requests : HandInv(q))' /\ AcceptedIsEnqueued'
  BY <1>2, <1>3, HandUndisturbed DEF AcceptedIsEnqueued
<1>5. CASE "lost_reply" \in Faults
  BY <1>2, <1>3, <1>4, <1>5 DEF IInv
<1>6. CASE UNCHANGED redis_vars
  BY <1>1, <1>3, <1>6, QuietKeeps
<1> QED BY <1>1, <1>5, <1>6

\* The first operation of a delivery has nothing before it; the next one has
\* the ones that were queued.
LEMMA AnsweredHand ==
    ASSUME IInv, NEW r \in Requests, Answered(r)
    PROVE  /\ Grow /\ MarkedBeforeQueued'
           /\ HandInv(r)' /\ (req'[r] = "accepted" => Enqueued(Carries[r])')
           /\ req'[r] \in InHand => op'[r] \in DOMAIN Work[Carries[r]]
<1> DEFINE d == Carries[r]
<1>1. /\ TypeOK /\ d \in Deliveries /\ HandInv(r) /\ Redis(r) /\ UNCHANGED marked
      /\ req[r] \in Commands /\ Command(r) /\ Proceeds(r)
  BY IngressAssumption DEF IInv, Answered, Redis
<1>2. Grow /\ MarkedBeforeQueued'
  BY <1>1, CommandKeeps
<1>3. \A i : /\ StartOf(d, i) \in {"mark_pending", "enqueue"}
             /\ StartOf(d, i) = "enqueue" => Work[d][i] # "ingest"
  BY DEF StartOf
<1>4. Work[d] \in Seq({"review", "ingest"})
  BY <1>1, QueueAssumption
<1>5. CASE req[r] = "mark_seen" /\ Becomes(r, "duplicate")
  BY <1>1, <1>2, <1>5 DEF Becomes, TypeOK, HandInv, InHand
<1>6. CASE /\ req[r] = "mark_seen" /\ Becomes(r, StartOf(d, 1))
           /\ op' = [op EXCEPT ![r] = 1]
  <2>1. req'[r] = StartOf(d, 1) /\ op'[r] = 1
    BY <1>1, <1>6 DEF Becomes, TypeOK
  <2>2. 1 \in DOMAIN Work[d]
    BY <1>1, <1>4, <1>6 DEF HandInv
  <2> QED BY <1>2, <1>3, <1>4, <2>1, <2>2 DEF HandInv
<1>7. CASE req[r] = "enqueue"
  <2>1. /\ op[r] \in DOMAIN Work[d] /\ EnqueueJob(d, op[r])
    BY <1>1, <1>7 DEF TypeOK, InHand, Command
  <2>2. jobs'[d][op[r]] > 0
    BY <1>1, <2>1 DEF EnqueueJob, TypeOK, JobQueueTypeOK
  <2>3. \A i \in DOMAIN Work[d] : i <= op[r] => jobs'[d][i] > 0
    BY <1>1, <1>2, <1>4, <1>7, <2>1, <2>2 DEF HandInv, Grow
  <2>4. CASE /\ op[r] < Len(Work[d]) /\ Becomes(r, StartOf(d, op[r] + 1))
             /\ op' = [op EXCEPT ![r] = @ + 1]
    <3>1. req'[r] = StartOf(d, op[r] + 1) /\ op'[r] = op[r] + 1
      BY <1>1, <2>4 DEF Becomes, TypeOK
    <3>2. op[r] + 1 \in DOMAIN Work[d]
      BY <1>4, <2>1, <2>4
    <3>3. \A i \in DOMAIN Work[d] : i < op[r] + 1 => jobs'[d][i] > 0
      BY <1>4, <2>1, <2>3
    <3> QED BY <1>2, <1>3, <3>1, <3>2, <3>3 DEF HandInv
  <2>5. CASE op[r] = Len(Work[d]) /\ Becomes(r, "accepted") /\ UNCHANGED op
    <3>1. req'[r] = "accepted"
      BY <1>1, <2>5 DEF Becomes, TypeOK
    <3>2. Enqueued(d)'
      BY <1>4, <2>3, <2>5 DEF Enqueued
    <3> QED BY <1>2, <3>1, <3>2 DEF HandInv, InHand
  <2> QED BY <1>1, <1>7, <2>4, <2>5 DEF Proceeds
<1>8. CASE req[r] = "unclaim" /\ Becomes(r, "unavailable")
  BY <1>1, <1>2, <1>8 DEF Becomes, TypeOK, HandInv, InHand
<1> QED BY <1>1, <1>2, <1>5, <1>6, <1>7, <1>8 DEF Proceeds

LEMMA AnsweredTyped ==
    ASSUME IInv, NEW r \in Requests, Answered(r)
    PROVE  TypeOK'
<1>1. /\ TypeOK /\ Redis(r) /\ Proceeds(r) /\ on_success /\ UNCHANGED marked
      /\ admitted' = [admitted EXCEPT ![r] = FALSE] /\ attempt' = [attempt EXCEPT ![r] = 0]
  BY DEF Answered, Redis, IInv
<1>2. JobQueueTypeOK'
  BY <1>1, RedisTyped, QueueAssumption DEF on_success, JobQueueTypeOK
<1>3. /\ req' \in [Requests -> {"idle"} \cup Commands \cup InHand \cup Answers]
      /\ op' \in [Requests -> Nat]
      /\ \A q \in Requests \ {r} : req'[q] = req[q] /\ op'[q] = op[q]
  BY <1>1, ProceedsTyped
<1>4. \A q \in Requests : req'[q] \in InHand => op'[q] \in DOMAIN Work[Carries[q]]
  BY <1>1, <1>3, AnsweredHand DEF TypeOK
<1>5. attempt' \in [Requests -> 0..RetryAttempts - 1] /\ admitted' \in [Requests -> BOOLEAN]
  BY <1>1, IngressAssumption DEF TypeOK
<1> QED BY <1>1, <1>2, <1>3, <1>4, <1>5 DEF TypeOK

\* The key goes to the request that finds it free, and back only from the one
\* that holds it.
LEMMA AnsweredKey ==
    ASSUME IInv, NEW r \in Requests, Answered(r), KeyInv
    PROVE  KeyInv'
<1> DEFINE d == Carries[r]
<1>1. /\ TypeOK /\ d \in Deliveries /\ r # None
      /\ req[r] \in Commands /\ Command(r) /\ Proceeds(r)
  BY IngressAssumption, QueueAssumption DEF IInv, Answered
<1>2. \A q \in Requests \ {r} : req'[q] = req[q]
  BY <1>1, ProceedsTyped
<1>3. CASE req[r] = "mark_seen"
  <2>1. claimed' = [claimed EXCEPT ![d] = IF @ = None THEN r ELSE @]
    BY <1>1, <1>3 DEF Command, SetNX
  <2>2. req'[r] \in InHand => claimed[d] = None
    BY <1>1, <1>3 DEF Proceeds, Becomes, TypeOK, InHand
  <2>3. \A q \in Requests : req[q] \in InHand => q # None
    BY QueueAssumption
  <2> QED BY <1>1, <1>2, <2>1, <2>2, <2>3 DEF KeyInv, TypeOK, JobQueueTypeOK
<1>4. CASE req[r] = "enqueue"
  <2>1. claimed' = claimed
    BY <1>1, <1>4 DEF Command, EnqueueJob
  <2> QED BY <1>2, <1>4, <2>1 DEF KeyInv, InHand
<1>5. CASE req[r] = "unclaim"
  <2>1. claimed' = [claimed EXCEPT ![d] = None]
    BY <1>1, <1>5 DEF Command, Delete
  <2>2. req'[r] = "unavailable" /\ claimed[d] = r
    BY <1>1, <1>5 DEF Proceeds, Becomes, TypeOK, KeyInv, InHand
  <2> QED BY <1>1, <1>2, <2>1, <2>2 DEF KeyInv, TypeOK, JobQueueTypeOK, InHand
<1> QED BY <1>1, <1>3, <1>4, <1>5 DEF Commands

LEMMA AnsweredOnce ==
    ASSUME IInv, NEW r \in Requests, Answered(r), KeyInv, OnceInv
    PROVE  OnceInv'
<1> DEFINE d == Carries[r]
<1>1. /\ TypeOK /\ d \in Deliveries /\ r # None
      /\ req[r] \in Commands /\ Command(r) /\ Proceeds(r)
  BY IngressAssumption, QueueAssumption DEF IInv, Answered
<1>2. \A q \in Requests \ {r} : req'[q] = req[q]
  BY <1>1, ProceedsTyped
<1>3. CASE req[r] = "mark_seen"
  <2>1. /\ claimed' = [claimed EXCEPT ![d] = IF @ = None THEN r ELSE @] /\ jobs' = jobs
    BY <1>1, <1>3 DEF Command, SetNX
  <2>2. req'[r] \in InHand => claimed[d] = None
    BY <1>1, <1>3 DEF Proceeds, Becomes, TypeOK, InHand
  <2> QED BY <1>1, <1>2, <2>1, <2>2 DEF OnceInv, TypeOK, JobQueueTypeOK
<1>4. CASE req[r] = "enqueue"
  <2>1. claimed' = claimed /\ jobs' = [jobs EXCEPT ![d][op[r]] = @ + 1]
    BY <1>1, <1>4 DEF Command, EnqueueJob
  <2>2. claimed[d] = r /\ \A q \in Requests \ {r} : Carries[q] = d => req[q] \notin InHand
    BY <1>4 DEF KeyInv, InHand
  <2>3. ASSUME NEW e \in Deliveries \ Expiring, Len(Work[e]) = 1, jobs'[e][1] # 0
        PROVE  /\ jobs'[e][1] = 1 /\ claimed'[e] # None
               /\ \A q \in Requests : Carries[q] = e => req'[q] \notin InHand
    <3>1. CASE e # d
      <4>1. jobs'[e] = jobs[e]
        BY <1>1, <2>1, <3>1 DEF TypeOK, JobQueueTypeOK
      <4> QED BY <1>2, <2>1, <2>3, <3>1, <4>1 DEF OnceInv
    <3>2. CASE e = d
      <4>1. Work[d] \in Seq({"review", "ingest"}) /\ op[r] \in DOMAIN Work[d]
        BY <1>1, <1>4, QueueAssumption DEF TypeOK, InHand
      <4>2. op[r] = 1
        BY <2>3, <3>2, <4>1
      <4>3. jobs[d][1] = 0
        BY <1>1, <1>4, <2>3, <3>2 DEF OnceInv, InHand
      <4>4. jobs'[d][1] = 1
        BY <1>1, <2>1, <4>1, <4>2, <4>3 DEF TypeOK, JobQueueTypeOK
      <4>5. req'[r] = "accepted"
        <5>1. Len(Work[d]) = 1
          BY <2>3, <3>2
        <5>2. ~(op[r] < Len(Work[d]))
          BY <4>2, <5>1
        <5>3. Becomes(r, "accepted")
          BY <1>1, <1>4, <5>2 DEF Proceeds
        <5> QED BY <1>1, <5>3 DEF Becomes, TypeOK
      <4>6. \A q \in Requests : Carries[q] = d => req'[q] \notin InHand
        BY <1>2, <2>2, <4>5 DEF InHand
      <4> QED BY <1>1, <2>1, <2>2, <3>2, <4>4, <4>6
    <3> QED BY <3>1, <3>2
  <2> QED BY <2>3 DEF OnceInv
<1>5. CASE req[r] = "unclaim"
  <2>1. claimed' = [claimed EXCEPT ![d] = None] /\ jobs' = jobs
    BY <1>1, <1>5 DEF Command, Delete
  <2>2. req'[r] = "unavailable" /\ req[r] \in InHand
    BY <1>1, <1>5 DEF Proceeds, Becomes, TypeOK, InHand
  <2> QED BY <1>1, <1>2, <2>1, <2>2 DEF OnceInv, TypeOK, JobQueueTypeOK, InHand
<1> QED BY <1>1, <1>3, <1>4, <1>5 DEF Commands

LEMMA AnsweredStep ==
    ASSUME IInv, NEW r \in Requests, Answered(r)
    PROVE  IInv'
<1>1. /\ Grow /\ MarkedBeforeQueued'
      /\ HandInv(r)' /\ (req'[r] = "accepted" => Enqueued(Carries[r])')
  BY AnsweredHand
<1>2. \A q \in Requests \ {r} : Backs(q)
  BY ProceedsTyped DEF Backs, Answered, IInv
<1>3. (\A q \in Requests : HandInv(q))' /\ AcceptedIsEnqueued'
  BY <1>1, <1>2, HandUndisturbed DEF AcceptedIsEnqueued
<1>4. "lost_reply" \notin Faults => KeyInv'
  BY AnsweredKey DEF IInv
<1>5. "lost_reply" \notin Faults => OnceInv'
  BY AnsweredOnce DEF IInv
<1> QED BY <1>1, <1>3, <1>4, <1>5, AnsweredTyped DEF IInv

-----------------------------------------------------------------------------
(* The theorems *)

LEMMA IngressNext == IInv /\ [Next]_vars => IInv'
<1> SUFFICES ASSUME IInv, [Next]_vars PROVE IInv'
  OBVIOUS
<1>1. ASSUME NEW r \in Requests, Receive(r) \/ RequestStep(r) PROVE IInv'
  BY <1>1, ReceiveStep, BeforeCallStep, AnsweredStep, UnansweredStep, MarkPendingStep,
     MarkPendingFailsStep DEF RequestStep
<1>2. ASSUME NEW d \in Deliveries, ClaimExpires(d) PROVE IInv'
  BY <1>2, ClaimExpiresStep
<1> QED BY <1>1, <1>2, CooldownStep, ReceiverDiesStep, IngressStutter DEF Next

\* receive_webhook, mark_seen, unclaim and the breaker together: what a request
\* has done is in Redis, and whoever works on a delivery holds its key.
THEOREM IngressInvariant == Spec => []IInv
<1> QED BY IngressInit, IngressNext, PTL DEF Spec

\* Every key, job count, breaker field and request variable stays of its type.
THEOREM IngressTypeCorrect == Spec => []TypeOK
<1>1. IInv => TypeOK
  BY DEF IInv
<1> QED BY <1>1, IngressInvariant, PTL

\* The handler answers 200 "accepted" only after the last enqueue of the
\* delivery has returned, and nothing is ever taken back, whatever is lost,
\* retried, rolled back or dropped.
THEOREM AcceptedIsEnqueuedAlways == Spec => []AcceptedIsEnqueued
<1>1. IInv => AcceptedIsEnqueued
  BY DEF IInv
<1> QED BY <1>1, IngressInvariant, PTL

\* mark_pending comes before the enqueue of every indexing operation.
THEOREM MarkedBeforeQueuedAlways == Spec => []MarkedBeforeQueued
<1>1. IInv => MarkedBeforeQueued
  BY DEF IInv
<1> QED BY <1>1, IngressInvariant, PTL

\* SET NX lets one request of a delivery through at a time, through rollbacks,
\* redeliveries, expiries and deaths of the receiver, as long as no answer of
\* Redis is lost.
THEOREM OneInHandAlways == "lost_reply" \notin Faults => (Spec => []OneInHand)
<1> SUFFICES ASSUME "lost_reply" \notin Faults PROVE Spec => []OneInHand
  OBVIOUS
<1>1. IInv => OneInHand
  BY DEF IInv, KeyInv, OneInHand
<1> QED BY <1>1, IngressInvariant, PTL

\* A pull request delivery becomes one run_review job, as long as no answer of
\* Redis is lost and the key outlives GitHub's redeliveries.
THEOREM QueuedOnceAlways == "lost_reply" \notin Faults => (Spec => []QueuedOnce)
<1> SUFFICES ASSUME "lost_reply" \notin Faults PROVE Spec => []QueuedOnce
  OBVIOUS
<1>1. IInv => QueuedOnce
  <2> SUFFICES ASSUME IInv, NEW d \in Deliveries \ Expiring, Len(Work[d]) = 1 PROVE jobs[d][1] <= 1
    BY DEF QueuedOnce
  <2>1. OnceInv
    BY DEF IInv
  <2> QED BY <2>1 DEF OnceInv
<1> QED BY <1>1, IngressInvariant, PTL

-----------------------------------------------------------------------------
(* What a claimed key stands for *)

Held == InHand \cup {"rollback_failed", "dropped"}

\* The key of a delivery is set by a request of that delivery.
OwnerInv == \A d \in Deliveries : claimed[d] # None => Carries[claimed[d]] = d

HandledInv == OwnerInv /\ ClaimMeansHandled

\* Whoever has the key in hand keeps it in hand, or gives up where it is logged.
LEMMA HandledQuiet ==
    ASSUME TypeOK, HandledInv, UNCHANGED redis_vars,
           \A r \in Requests : req[r] \in Held => req'[r] \in Held
    PROVE  HandledInv'
<1> USE DEF redis_vars
<1>1. OwnerInv'
  BY DEF HandledInv, OwnerInv
<1>2. ClaimMeansHandled'
  BY DEF HandledInv, ClaimMeansHandled, Enqueued, Held, TypeOK, JobQueueTypeOK
<1> QED BY <1>1, <1>2 DEF HandledInv

LEMMA RaisesHeld ==
    ASSUME TypeOK, NEW r \in Requests, Raises(r)
    PROVE  \A q \in Requests : req[q] \in Held => req'[q] \in Held
  BY DEF TypeOK, Raises, Becomes, InHand, Held

LEMMA HandledAnswered ==
    ASSUME IInv, "lost_reply" \notin Faults, HandledInv, NEW r \in Requests, Answered(r)
    PROVE  HandledInv'
<1> DEFINE d == Carries[r]
<1>1. /\ TypeOK /\ d \in Deliveries /\ r # None /\ OwnerInv /\ ClaimMeansHandled /\ KeyInv
      /\ req[r] \in Commands /\ Command(r) /\ Proceeds(r)
  BY IngressAssumption, QueueAssumption DEF IInv, Answered, HandledInv
<1>2. \A q \in Requests \ {r} : req'[q] = req[q]
  BY <1>1, ProceedsTyped
<1>3. /\ \A e \in Deliveries : Enqueued(e) => Enqueued(e)'
      /\ req'[r] = "accepted" => Enqueued(d)'
  BY AnsweredHand DEF Grow, Enqueued
<1>4. SUFFICES ASSUME NEW e \in Deliveries, claimed'[e] # None
               PROVE  /\ Carries[claimed'[e]] = e
                      /\ Enqueued(e)' \/ req'[claimed'[e]] \in Held
  BY DEF HandledInv, OwnerInv, ClaimMeansHandled, Held
<1>5. claimed[e] # None =>
        /\ claimed[e] \in Requests /\ Carries[claimed[e]] = e
        /\ Enqueued(e) \/ req[claimed[e]] \in Held
  BY <1>1 DEF OwnerInv, ClaimMeansHandled, Held, TypeOK, JobQueueTypeOK
<1>6. CASE req[r] = "mark_seen"
  <2>1. claimed' = [claimed EXCEPT ![d] = IF @ = None THEN r ELSE @]
    BY <1>1, <1>6 DEF Command, SetNX
  <2>2. req[r] \notin Held
    BY <1>6 DEF InHand, Held
  <2>3. CASE claimed[e] # None
    <3>1. claimed'[e] = claimed[e]
      BY <1>1, <2>1, <2>3 DEF TypeOK, JobQueueTypeOK
    <3> QED BY <1>2, <1>3, <1>5, <2>2, <2>3, <3>1
  <2>4. CASE claimed[e] = None
    <3>1. e = d /\ claimed'[e] = r
      BY <1>1, <1>4, <2>1, <2>4 DEF TypeOK, JobQueueTypeOK
    <3>2. req'[r] = StartOf(d, 1)
      BY <1>1, <1>6, <2>4, <3>1 DEF Proceeds, Becomes, TypeOK
    <3>3. req'[r] \in Held
      BY <3>2 DEF StartOf, Held, InHand
    <3> QED BY <3>1, <3>3
  <2> QED BY <2>3, <2>4
<1>7. CASE req[r] = "enqueue"
  <2>1. claimed' = claimed
    BY <1>1, <1>7 DEF Command, EnqueueJob
  <2>2. req'[r] \in Held \/ Enqueued(d)'
    <3>1. CASE op[r] < Len(Work[d]) /\ Becomes(r, StartOf(d, op[r] + 1))
      BY <1>1, <3>1 DEF Becomes, TypeOK, StartOf, Held, InHand
    <3>2. CASE Becomes(r, "accepted")
      BY <1>1, <1>3, <3>2 DEF Becomes, TypeOK
    <3> QED BY <1>1, <1>7, <3>1, <3>2 DEF Proceeds
  <2> QED BY <1>2, <1>3, <1>4, <1>5, <2>1, <2>2
<1>8. CASE req[r] = "unclaim"
  <2>1. claimed' = [claimed EXCEPT ![d] = None]
    BY <1>1, <1>8 DEF Command, Delete
  <2>2. e # d /\ claimed'[e] = claimed[e]
    BY <1>1, <1>4, <2>1 DEF TypeOK, JobQueueTypeOK
  <2>3. claimed[e] # r
    BY <1>4, <1>5, <2>2
  <2> QED BY <1>2, <1>3, <1>4, <1>5, <2>2, <2>3
<1> QED BY <1>1, <1>6, <1>7, <1>8 DEF Commands

LEMMA HandledNext ==
    ASSUME IInv, "lost_reply" \notin Faults, HandledInv, [Next]_vars
    PROVE  HandledInv'
<1>1. TypeOK
  BY DEF IInv
<1>2. ASSUME NEW r \in Requests, Receive(r) PROVE HandledInv'
  <2>1. \A q \in Requests : req[q] \in Held => req'[q] \in Held
    BY <1>1, <1>2 DEF Receive, Becomes, TypeOK, Held, InHand
  <2> QED BY <1>1, <1>2, <2>1, HandledQuiet DEF Receive
<1>3. ASSUME NEW r \in Requests, BeforeCall(r) PROVE HandledInv'
  <2>1. Raises(r) \/ UNCHANGED req
    BY <1>3 DEF BeforeCall
  <2> QED BY <1>1, <1>3, <2>1, RaisesHeld, HandledQuiet DEF BeforeCall
<1>4. ASSUME NEW r \in Requests, Unanswered(r) PROVE HandledInv'
  <2>1. UNCHANGED redis_vars /\ (Raises(r) \/ UNCHANGED req)
    BY <1>4 DEF Unanswered, GivesUp
  <2> QED BY <1>1, <2>1, RaisesHeld, HandledQuiet
<1>5. ASSUME NEW r \in Requests, MarkPending(r) PROVE HandledInv'
  <2>1. \A q \in Requests : req[q] \in Held => req'[q] \in Held
    BY <1>1, <1>5 DEF MarkPending, Becomes, TypeOK, Held, InHand
  <2> QED BY <1>1, <1>5, <2>1, HandledQuiet DEF MarkPending
<1>6. ASSUME NEW r \in Requests, MarkPendingFails(r) PROVE HandledInv'
  BY <1>1, <1>6, RaisesHeld, HandledQuiet DEF MarkPendingFails
<1>7. ASSUME NEW d \in Deliveries, ClaimExpires(d) PROVE HandledInv'
  <2>1. claimed' = [claimed EXCEPT ![d] = None] /\ UNCHANGED <<jobs, req>>
    BY <1>7 DEF ClaimExpires, Expire, Delete, request_vars
  <2>2. \A e \in Deliveries : claimed'[e] # None => claimed'[e] = claimed[e]
    BY <1>1, <2>1 DEF TypeOK, JobQueueTypeOK
  <2>3. OwnerInv'
    BY <2>2 DEF HandledInv, OwnerInv
  <2>4. ClaimMeansHandled'
    BY <2>1, <2>2 DEF HandledInv, ClaimMeansHandled, Enqueued
  <2> QED BY <2>3, <2>4 DEF HandledInv
<1>8. CASE CooldownPasses
  BY <1>1, <1>8, HandledQuiet DEF CooldownPasses, request_vars
<1>9. CASE ReceiverDies
  <2>1. \A q \in Requests : req[q] \in Held => req'[q] \in Held
    BY <1>9 DEF ReceiverDies, Held
  <2> QED BY <1>1, <1>9, <2>1, HandledQuiet DEF ReceiverDies
<1>10. CASE UNCHANGED vars
  BY <1>1, <1>10, HandledQuiet DEF vars, request_vars
<1> QED BY <1>2, <1>3, <1>4, <1>5, <1>6, <1>7, <1>8, <1>9, <1>10, HandledAnswered
        DEF Next, RequestStep

\* The key keeps redeliveries of a delivery out only while somebody works on it
\* or once it is queued, but for the two cases app.py logs or cannot see: unless
\* an answer of Redis is lost, _rollback_claim undoes every other claim.
THEOREM ClaimMeansHandledAlways == "lost_reply" \notin Faults => (Spec => []ClaimMeansHandled)
<1> SUFFICES ASSUME "lost_reply" \notin Faults PROVE Spec => []ClaimMeansHandled
  OBVIOUS
<1>1. Init => HandledInv
  BY DEF Init, JobQueueInit, HandledInv, OwnerInv, ClaimMeansHandled
<1>2. IInv /\ HandledInv /\ [Next]_vars => HandledInv'
  BY HandledNext
<1>3. HandledInv => ClaimMeansHandled
  BY DEF HandledInv
<1> QED BY <1>1, <1>2, <1>3, IngressInvariant, PTL DEF Spec
=============================================================================
