--------------------------- MODULE EndToEndProofs ---------------------------
(***************************************************************************)
(* Proofs about EndToEnd, for any number of POSTs, deliveries and jobs.    *)
(*                                                                         *)
(* What is proved of the receiver and of the worker is not proved again:   *)
(* Runs and Post are the proofs of ReviewSystem and of WebhookIngress with *)
(* EndToEnd's variables.  Each step of EndToEnd is a step of both, so both *)
(* invariants hold here, the receiver's as long as Redis keeps the dedup   *)
(* keys.  What is new is the seam: whose job a 200 stands for, and that no *)
(* job of a delivery arrives before the one before it is over.  That is    *)
(* what ReviewSystem has to assume for its reviews to be unique.           *)
(***************************************************************************)
EXTENDS EndToEnd, TLAPS

-----------------------------------------------------------------------------
(* Each step of EndToEnd is one of ReviewSystem.  First that the operators   *)
(* of the instance are EndToEnd's own.                                       *)

Runs == INSTANCE ReviewSystemProofs WITH
    call <- NoCalls, call_body <- NoBodies,
    call_attempt <- NoAttempts, call_posted_id <- NoIds

\* The deduplicated review.
LEMMA SameReview ==
    ASSUME NEW r PROVE Runs!Deduped(r) = Deduped(r)
  BY Zenon DEF Runs!Deduped, Deduped, Runs!dedup_findings, dedup_findings, Runs!merged,
     merged, Runs!findings_by_agent, findings_by_agent, Runs!Places, Places, Runs!Survivor,
     Survivor, Runs!Winner, Winner, Runs!Group, Group, Runs!Spot, Spot, Runs!Before, Before

\* What insert_findings stores.
LEMMA SameRows ==
    ASSUME NEW rows, NEW deduped
    PROVE  Runs!InsertRows(rows, deduped) = InsertRows(rows, deduped)
  BY Zenon DEF Runs!InsertRows, InsertRows, Runs!RowKeys, RowKeys, Runs!RowKey, RowKey

\* The gate's decision.
LEMMA SameDecision ==
    ASSUME NEW deduped PROVE Runs!decide(deduped) = decide(deduped)
<1>1. Runs!Cardinality(deduped) = Cardinality(deduped)
  BY Zenon DEF Runs!Cardinality, Cardinality
<1>2. Runs!MapThenSumSet(LAMBDA s : s.finding.confidence, deduped)
        = MapThenSumSet(LAMBDA s : s.finding.confidence, deduped)
  BY Zenon DEF Runs!MapThenSumSet, MapThenSumSet, Runs!MapThenFoldSet, MapThenFoldSet
<1>3. Runs!BelowThreshold(deduped) <=> BelowThreshold(deduped)
  BY Zenon, <1>1, <1>2 DEF Runs!BelowThreshold, BelowThreshold
<1>4. Runs!HasCritical(deduped) <=> HasCritical(deduped)
  BY Zenon DEF Runs!HasCritical, HasCritical
<1> QED BY <1>3, <1>4 DEF Runs!decide, decide

\* What arq and its Redis do with a job.
LEMMA SameQueue ==
    ASSUME NEW j
    PROVE  /\ StartJob(j) => Runs!StartJob(j)
           /\ GiveUp(j) => Runs!GiveUp(j)
           /\ EnqueueReview(j) => Runs!EnqueueReview(j)
           /\ WorkerDies(j) => Runs!WorkerDies(j)
           /\ JobFails(j) => Runs!JobFails(j)
           /\ RedisRestart => Runs!RedisRestart
<1> USE DEF Runs!run_vars, run_vars, Runs!store_vars, store_vars, Runs!truth_vars,
       truth_vars, Runs!checkpoint_vars, checkpoint_vars, Runs!Goto, Goto, Runs!Leave,
       Leave, Runs!Running, Running, Runs!Settled, Settled, Runs!NoWrites, NoWrites,
       Runs!Specialists, Specialists, Runs!EmptySlot, EmptySlot
<1>1. StartJob(j) => Runs!StartJob(j)
  BY Zenon DEF StartJob, Runs!StartJob
<1>2. GiveUp(j) => Runs!GiveUp(j)
  BY Zenon DEF GiveUp, Runs!GiveUp
<1>3. EnqueueReview(j) => Runs!EnqueueReview(j)
  BY Zenon DEF EnqueueReview, Runs!EnqueueReview
<1>4. WorkerDies(j) => Runs!WorkerDies(j)
  BY Zenon DEF WorkerDies, Runs!WorkerDies
<1>6. JobFails(j) => Runs!JobFails(j)
  BY Zenon DEF JobFails, Runs!JobFails, AfterException, Runs!AfterException
<1>5. RedisRestart => Runs!RedisRestart
  BY Zenon DEF RedisRestart, Runs!RedisRestart, Runs!ForgetCheckpoints, ForgetCheckpoints
<1> QED BY <1>1, <1>2, <1>3, <1>4, <1>5, <1>6

\* run_review, the engine, the specialists and the saves.
LEMMA SameRun ==
    ASSUME NEW j
    PROVE  /\ UpsertReview(j) => Runs!UpsertReview(j)
           /\ EngineRun(j) => Runs!EngineRun(j)
           /\ \A a : Specialist(j, a) => Runs!Specialist(j, a)
           /\ SaveStart(j) => Runs!SaveStart(j)
           /\ SaveJoin(j) => Runs!SaveJoin(j)
           /\ \A a : SaveWrites(j, a) => Runs!SaveWrites(j, a)
           /\ Finish(j) => Runs!Finish(j)
<1> USE DEF Runs!queue_vars, queue_vars, Runs!run_vars, run_vars, Runs!store_vars,
       store_vars, Runs!truth_vars, truth_vars, Runs!checkpoint_vars, checkpoint_vars,
       Runs!Goto, Goto, Runs!Leave, Leave, Runs!Running, Running, Runs!At, At,
       Runs!NoWrites, NoWrites, Runs!Specialists, Specialists, Runs!aput, aput,
       Runs!HasCheckpoint, HasCheckpoint, Runs!aget_tuple, aget_tuple, Runs!GraphEnded,
       GraphEnded, Runs!Joined, Joined
<1>1. UpsertReview(j) => Runs!UpsertReview(j)
  BY Zenon DEF UpsertReview, Runs!UpsertReview, upsert_review, Runs!upsert_review,
     AlreadyDecided, Runs!AlreadyDecided
<1>2. EngineRun(j) => Runs!EngineRun(j)
  BY Zenon DEF EngineRun, Runs!EngineRun
<1>3. \A a : Specialist(j, a) => Runs!Specialist(j, a)
  BY Zenon DEF Specialist, Runs!Specialist
<1>4. SaveStart(j) => Runs!SaveStart(j)
  BY Zenon DEF SaveStart, Runs!SaveStart
<1>5. SaveJoin(j) => Runs!SaveJoin(j)
  BY Zenon DEF SaveJoin, Runs!SaveJoin
<1>6. \A a : SaveWrites(j, a) => Runs!SaveWrites(j, a)
  BY Zenon DEF SaveWrites, Runs!SaveWrites, aput_writes, Runs!aput_writes
<1>7. Finish(j) => Runs!Finish(j)
  BY Zenon DEF Finish, Runs!Finish
<1> QED BY <1>1, <1>2, <1>3, <1>4, <1>5, <1>6, <1>7

\* aggregate.
LEMMA SameAggregate ==
    ASSUME NEW j
    PROVE  /\ AggUpsert(j) => Runs!AggUpsert(j)
           /\ AggInsert(j) => Runs!AggInsert(j)
           /\ AggEmit(j) => Runs!AggEmit(j)
           /\ AggPost(j) => Runs!AggPost(j)
           /\ AggPostUnanswered(j) => Runs!AggPostUnanswered(j)
           /\ AggMark(j) => Runs!AggMark(j)
           /\ AggEnqueue(j) => Runs!AggEnqueue(j)
           /\ AggStatus(j) => Runs!AggStatus(j)
<1> USE DEF Runs!queue_vars, queue_vars, Runs!run_vars, run_vars, Runs!store_vars,
       store_vars, Runs!truth_vars, truth_vars, Runs!checkpoint_vars, checkpoint_vars,
       Runs!Goto, Goto, Runs!Leave, Leave, Runs!Running, Running, Runs!At, At,
       Runs!NoWrites, NoWrites, Runs!Specialists, Specialists, Runs!Joined, Joined
<1>0. Runs!Review(j) = Review(j) /\ Runs!decide(Review(j)) = decide(Review(j))
  BY SameReview, SameDecision DEF Runs!Review, Review
<1>1. AggUpsert(j) => Runs!AggUpsert(j)
  BY Zenon DEF AggUpsert, Runs!AggUpsert, upsert_review, Runs!upsert_review, AlreadyDecided,
     Runs!AlreadyDecided
<1>2. AggInsert(j) => Runs!AggInsert(j)
  <2>1. Runs!InsertRows(finding_records[DeliveryOf[j]], Review(j))
          = InsertRows(finding_records[DeliveryOf[j]], Review(j))
    BY SameRows
  <2> QED BY Zenon, <1>0, <2>1 DEF AggInsert, Runs!AggInsert, insert_findings,
         Runs!insert_findings
<1>3. AggEmit(j) => Runs!AggEmit(j)
  BY Zenon, <1>0 DEF AggEmit, Runs!AggEmit, emit_decision, Runs!emit_decision,
     AfterDecision, Runs!AfterDecision
<1>4. AggPost(j) => Runs!AggPost(j)
  BY Zenon, <1>0 DEF AggPost, Runs!AggPost, AcceptReview, Runs!AcceptReview, NewReviewId,
     Runs!NewReviewId
<1>5. AggPostUnanswered(j) => Runs!AggPostUnanswered(j)
  BY Zenon, <1>0 DEF AggPostUnanswered, Runs!AggPostUnanswered, PostUnanswered,
     Runs!PostUnanswered, AcceptReview, Runs!AcceptReview
<1>6. AggMark(j) => Runs!AggMark(j)
  BY Zenon DEF AggMark, Runs!AggMark, mark_posted, Runs!mark_posted, AfterMark,
     Runs!AfterMark
<1>7. AggEnqueue(j) => Runs!AggEnqueue(j)
  BY Zenon DEF AggEnqueue, Runs!AggEnqueue, enqueue, Runs!enqueue
<1>8. AggStatus(j) => Runs!AggStatus(j)
  BY Zenon, <1>0 DEF AggStatus, Runs!AggStatus, set_status, Runs!set_status
<1> QED BY <1>1, <1>2, <1>3, <1>4, <1>5, <1>6, <1>7, <1>8

LEMMA WorkerMaps ==
    ASSUME NEW j \in Jobs,
           \/ EnqueueReview(j) \/ WorkerStep(j) \/ BackgroundSave(j)
           \/ WorkerDies(j) \/ JobFails(j)
    PROVE  Runs!WorkerNext
<1>1. WorkerStep(j) => Runs!WorkerStep(j)
  <2>1. (\E a \in Specialists : Specialist(j, a))
          => \E a \in Runs!Specialists : Runs!Specialist(j, a)
    BY SameRun DEF Runs!Specialists, Specialists
  <2> QED BY <2>1, SameQueue, SameRun, SameAggregate DEF WorkerStep, Runs!WorkerStep
<1>2. BackgroundSave(j) => Runs!BackgroundSave(j)
  <2>1. (\E a \in Specialists : SaveWrites(j, a))
          => \E a \in Runs!Specialists : Runs!SaveWrites(j, a)
    BY SameRun DEF Runs!Specialists, Specialists
  <2> QED BY <2>1, SameRun DEF BackgroundSave, Runs!BackgroundSave
<1> QED BY <1>1, <1>2, SameQueue DEF Runs!WorkerNext

\* A step of the receiver is a step of the reviews when it puts a job into the
\* queue, and none otherwise.
LEMMA NextMaps ==
    ASSUME [Next]_vars
    PROVE  [Runs!Next]_(Runs!vars)
<1>1. UNCHANGED Runs!call_vars
  BY DEF Runs!call_vars, NoCalls, NoBodies, NoAttempts, NoIds
<1>2. ASSUME UNCHANGED worker_vars PROVE UNCHANGED Runs!vars
  BY <1>1, <1>2 DEF worker_vars, queue_vars, run_vars, store_vars, truth_vars,
     checkpoint_vars, Runs!vars, Runs!queue_vars, Runs!run_vars, Runs!store_vars,
     Runs!truth_vars, Runs!checkpoint_vars
<1>3. ASSUME NEW r \in Requests, RequestMoves(r) PROVE [Runs!Next]_(Runs!vars)
  BY <1>1, <1>2, <1>3, WorkerMaps DEF RequestMoves, JobArrives, Runs!Next
<1>4. CASE ReceiverMoves
  BY <1>2, <1>4 DEF ReceiverMoves
<1>5. CASE RedisComesBackEmpty
  BY <1>1, <1>5, SameQueue DEF RedisComesBackEmpty, Runs!Next, Runs!WorkerNext
<1>6. CASE WorkerMoves
  BY <1>1, <1>6, WorkerMaps DEF WorkerMoves, Runs!Next
<1>7. CASE UNCHANGED vars
  BY <1>2, <1>7 DEF vars
<1> QED BY <1>3, <1>4, <1>5, <1>6, <1>7 DEF Next

LEMMA InitMaps == Init => Runs!Init
  BY Zenon DEF Init, Runs!Init, TruthStoreInit, HitlQueueInit, GitHubInit, CheckpointInit,
     WorkerInit, Runs!TruthStoreInit, Runs!HitlQueueInit, Runs!GitHubInit,
     Runs!CheckpointInit, Runs!WorkerInit, Runs!HitlApiInit, NoCalls, NoBodies, NoAttempts,
     NoIds, Runs!NoWrites, NoWrites, Runs!Specialists, Specialists, Runs!EmptySlot,
     EmptySlot

\* The receiver, the queue and the worker together behave, for the stores, as
\* ReviewSystem says, with receive_webhook in place of the environment that makes
\* deliveries come: what is proved of ReviewSystem holds of them.
THEOREM RefinesReviewSystem == Spec => Runs!Spec
<1>1. Init => Runs!Init
  BY InitMaps
<1>2. [Next]_vars => [Runs!Next]_(Runs!vars)
  BY NextMaps
<1> QED BY <1>1, <1>2, PTL DEF Spec, Runs!Spec

\* What ReviewSystem assumes of its constants, in the words of the instance.
LEMMA SameAssumptions ==
    /\ Faults \subseteq Runs!FaultKinds
    /\ DOMAIN SpecialistNames \subseteq Nat /\ Runs!IsFiniteSet(DOMAIN SpecialistNames)
    /\ \A a \in Runs!Specialists :
         /\ Missing \notin Outcomes[a]
         /\ \A report \in Outcomes[a] :
              /\ DOMAIN report \subseteq Nat /\ Runs!IsFiniteSet(DOMAIN report)
              /\ \A k \in DOMAIN report :
                   report[k].confidence \in 0..100 /\ report[k].line # -1
<1>1. ASSUME NEW S PROVE Runs!IsFiniteSet(S) <=> IsFiniteSet(S)
  BY Zenon DEF Runs!IsFiniteSet, IsFiniteSet
<1>2. Runs!Specialists = Specialists /\ Runs!FaultKinds = FaultKinds
  BY Zenon DEF Runs!Specialists, Specialists, Runs!FaultKinds, FaultKinds
<1> QED BY <1>1, <1>2, NamesAssumption, OutcomesAssumption, FaultAssumption

LEMMA RunsInvariant == Spec => []Runs!IInv
<1>1. Runs!Spec => []Runs!IInv
  BY ONLY Zenon, Runs!Invariant, SameAssumptions, ThresholdAssumption, DomainAssumption,
     RetryAssumption, WorkerAssumption
<1> QED BY <1>1, RefinesReviewSystem, PTL

-----------------------------------------------------------------------------
(* Each step of EndToEnd is one of WebhookIngress, unless Redis comes back    *)
(* empty.                                                                     *)

Post == INSTANCE WebhookIngressProofs WITH
    Work <- ReviewWork,
    Authentic <- Requests,
    RetryAttempts <- RedisAttempts,
    Faults <- IngressFaults,
    attempt <- command_attempt

LEMMA SameRequest ==
    ASSUME NEW r
    PROVE  /\ Ingress!Receive(r) => Post!Receive(r)
           /\ Ingress!RequestStep(r) => Post!RequestStep(r)
           /\ \A d : Ingress!ClaimExpires(d) => Post!ClaimExpires(d)
           /\ Ingress!CooldownPasses => Post!CooldownPasses
           /\ Ingress!ReceiverDies => Post!ReceiverDies
<1> USE DEF Ingress!redis_vars, Post!redis_vars, Ingress!breaker_vars, Post!breaker_vars,
       Ingress!request_vars, Post!request_vars, Ingress!Becomes, Post!Becomes,
       Ingress!Commands, Post!Commands, Ingress!InHand, Post!InHand, Ingress!Answers,
       Post!Answers, Ingress!Raises, Post!Raises, Ingress!Command, Post!Command,
       Ingress!SetNX, Post!SetNX, Ingress!Delete, Post!Delete, Ingress!EnqueueJob,
       Post!EnqueueJob, Ingress!StartOf, Post!StartOf, Ingress!Proceeds, Post!Proceeds,
       Ingress!on_success, Post!on_success, Ingress!on_failure, Post!on_failure,
       Ingress!GivesUp, Post!GivesUp
<1>1. Ingress!Receive(r) => Post!Receive(r)
  BY Zenon DEF Ingress!Receive, Post!Receive
<1>2. Ingress!BeforeCall(r) => Post!BeforeCall(r)
  BY Zenon DEF Ingress!BeforeCall, Post!BeforeCall, Ingress!before_call_admits,
     Post!before_call_admits
<1>3. Ingress!Answered(r) => Post!Answered(r)
  BY Zenon DEF Ingress!Answered, Post!Answered
<1>4. Ingress!Unanswered(r) => Post!Unanswered(r)
  BY Zenon DEF Ingress!Unanswered, Post!Unanswered
<1>5. Ingress!MarkPending(r) => Post!MarkPending(r)
  BY Zenon DEF Ingress!MarkPending, Post!MarkPending
<1>6. Ingress!MarkPendingFails(r) => Post!MarkPendingFails(r)
  BY Zenon DEF Ingress!MarkPendingFails, Post!MarkPendingFails
<1>7. \A d : Ingress!ClaimExpires(d) => Post!ClaimExpires(d)
  BY Zenon DEF Ingress!ClaimExpires, Post!ClaimExpires, Ingress!Expire, Post!Expire
<1>8. Ingress!CooldownPasses => Post!CooldownPasses
  BY Zenon DEF Ingress!CooldownPasses, Post!CooldownPasses, Ingress!Cooldown, Post!Cooldown
<1>9. Ingress!ReceiverDies => Post!ReceiverDies
  BY Zenon DEF Ingress!ReceiverDies, Post!ReceiverDies
<1> QED BY <1>1, <1>2, <1>3, <1>4, <1>5, <1>6, <1>7, <1>8, <1>9 DEF Ingress!RequestStep,
       Post!RequestStep

LEMMA RequestInit == Init => Post!Init
  BY Zenon DEF Init, Ingress!Init, Post!Init, Ingress!JobQueueInit, Post!JobQueueInit,
     ReviewWork

\* What WebhookIngress assumes of its constants, in the words of the instance.
LEMMA PostAssumptions ==
    /\ ReviewWork \in [Deliveries -> Seq({"review", "ingest"})]
    /\ None \notin Requests
    /\ FailureThreshold \in Nat \ {0}
    /\ Carries \in [Requests -> Deliveries]
    /\ Requests \subseteq Requests
    /\ RedisAttempts \in Nat \ {0}
    /\ IngressFaults \subseteq Post!FaultKinds
    /\ Expiring \subseteq Deliveries
  BY ReceiverAssumption DEF ReviewWork, Post!FaultKinds

\* While Redis keeps its data, the receiver's own invariant holds.
LEMMA RequestsKeep ==
    ASSUME Post!IInv, [Next]_vars, restarts = 0, restarts' = 0
    PROVE  Post!IInv'
<1>1. [Post!Next]_(Post!vars)
  <2>1. ASSUME UNCHANGED ingress_vars PROVE UNCHANGED Post!vars
    BY <2>1 DEF ingress_vars, Post!vars, Post!redis_vars, Post!breaker_vars,
       Post!request_vars
  <2>2. CASE \E r \in Requests : RequestMoves(r)
    BY <2>2, SameRequest DEF RequestMoves, Post!Next
  <2>3. CASE ReceiverMoves
    BY <2>3, SameRequest DEF ReceiverMoves, KeyExpires, Post!Next
  <2>4. ~RedisComesBackEmpty
    BY DEF RedisComesBackEmpty, RedisRestart
  <2>5. CASE WorkerMoves
    BY <2>1, <2>5 DEF WorkerMoves
  <2>6. CASE UNCHANGED vars
    BY <2>1, <2>6 DEF vars
  <2> QED BY <2>2, <2>3, <2>4, <2>5, <2>6 DEF Next
<1> QED BY <1>1, Post!IngressNext, PostAssumptions

-----------------------------------------------------------------------------
(* What one step does to the seam *)

\* A step of a job starts no other, and ends none as if it had never begun.
LEMMA NoneStarts ==
    ASSUME Runs!IInv, NEW j \in Jobs,
           WorkerStep(j) \/ BackgroundSave(j) \/ WorkerDies(j) \/ JobFails(j)
    PROVE  \A k \in Jobs : /\ Active(k)' => Active(k)
                           /\ job_state[k] # "idle" => job_state'[k] # "idle"
<1> USE DEF Active
<1>1. job_state \in [Jobs -> Runs!JobStates]
  BY DEF Runs!IInv, Runs!TypeOK, Runs!WorkerTypeOK
<1>2. CASE UNCHANGED job_state
  BY <1>2
<1>3. ASSUME job_state[j] \in {"queued", "running", "detached"},
             NEW state \in Runs!JobStates \ {"idle"}, job_state' = [job_state EXCEPT ![j] = state]
      PROVE  \A k \in Jobs : /\ Active(k)' => Active(k)
                             /\ job_state[k] # "idle" => job_state'[k] # "idle"
  BY <1>1, <1>3
<1>4. CASE StartJob(j) \/ GiveUp(j)
  BY <1>3, <1>4 DEF StartJob, GiveUp, Runs!JobStates
<1>5. CASE \/ UpsertReview(j) \/ EngineRun(j) \/ AggPostUnanswered(j) \/ Finish(j)
           \/ WorkerDies(j) \/ JobFails(j)
  BY <1>2, <1>3, <1>5 DEF UpsertReview, EngineRun, AggPostUnanswered, Finish, WorkerDies,
     JobFails, AfterException, At, Running, Leave, Runs!JobStates
<1>6. CASE \/ \E a \in Specialists : Specialist(j, a)
           \/ AggUpsert(j) \/ AggInsert(j) \/ AggEmit(j) \/ AggPost(j)
           \/ AggMark(j) \/ AggEnqueue(j) \/ AggStatus(j) \/ BackgroundSave(j)
  BY <1>2, <1>6 DEF Specialist, AggUpsert, AggInsert, AggEmit, AggPost, AggMark, AggEnqueue,
                    AggStatus, BackgroundSave, SaveStart, SaveJoin, SaveWrites, queue_vars
<1> QED BY <1>4, <1>5, <1>6 DEF WorkerStep

\* A request acts on its own delivery alone.
LEMMA RequestFrame ==
    ASSUME DOMAIN req = Requests, DOMAIN claimed = Deliveries, NEW r \in Requests,
           Ingress!Receive(r) \/ Ingress!RequestStep(r)
    PROVE  /\ \A q \in Requests \ {r} : req'[q] = req[q]
           /\ \A d \in Deliveries \ {Carries[r]} : claimed'[d] = claimed[d]
<1>1. (\E state : Ingress!Becomes(r, state)) => \A q \in Requests \ {r} : req'[q] = req[q]
  BY DEF Ingress!Becomes
<1>2. Ingress!Raises(r) \/ Ingress!Proceeds(r) \/ UNCHANGED req
        => \A q \in Requests \ {r} : req'[q] = req[q]
  BY <1>1 DEF Ingress!Raises, Ingress!Proceeds
<1>3. (req[r] \in Ingress!Commands /\ Ingress!Command(r)) \/ UNCHANGED claimed
        => \A d \in Deliveries \ {Carries[r]} : claimed'[d] = claimed[d]
  BY DEF Ingress!Commands, Ingress!Command, Ingress!SetNX, Ingress!EnqueueJob,
     Ingress!Delete
<1>4. CASE Ingress!Receive(r) \/ Ingress!BeforeCall(r)
  BY <1>1, <1>2, <1>3, <1>4 DEF Ingress!Receive, Ingress!BeforeCall, Ingress!redis_vars
<1>5. CASE Ingress!Answered(r) \/ Ingress!Unanswered(r)
  BY <1>2, <1>3, <1>5 DEF Ingress!Answered, Ingress!Unanswered, Ingress!GivesUp,
     Ingress!redis_vars
<1>6. CASE Ingress!MarkPending(r) \/ Ingress!MarkPendingFails(r)
  BY <1>1, <1>2, <1>3, <1>6 DEF Ingress!MarkPending, Ingress!MarkPendingFails,
     Ingress!redis_vars
<1> QED BY <1>4, <1>5, <1>6 DEF Ingress!RequestStep

\* A request that finds the key set leaves it alone.
LEMMA KeyRespected ==
    ASSUME Post!TypeOK, "lost_reply" \notin IngressFaults, NEW r \in Requests,
           Ingress!Receive(r) \/ Ingress!RequestStep(r),
           req[r] \notin Ingress!InHand, claimed[Carries[r]] # None
    PROVE  req'[r] \notin Ingress!InHand /\ UNCHANGED <<claimed, jobs>>
<1> USE DEF Post!TypeOK, Post!JobQueueTypeOK, Ingress!InHand
<1>0. \A state : Ingress!Becomes(r, state) => req'[r] = state
  BY DEF Ingress!Becomes
<1>1. CASE Ingress!Receive(r)
  BY <1>0, <1>1 DEF Ingress!Receive, Ingress!redis_vars
<1>2. CASE Ingress!RequestStep(r) /\ ~(Ingress!MarkPending(r) \/ Ingress!MarkPendingFails(r))
  <2>1. req[r] = "mark_seen"
    BY <1>2 DEF Ingress!RequestStep, Ingress!BeforeCall, Ingress!Answered,
       Ingress!Unanswered, Ingress!Commands
  <2>2. Ingress!Raises(r) => req'[r] = "unavailable"
    BY <1>0, <2>1 DEF Ingress!Raises
  <2>3. CASE Ingress!BeforeCall(r)
    BY <2>1, <2>2, <2>3 DEF Ingress!BeforeCall, Ingress!redis_vars
  <2>4. CASE Ingress!Answered(r)
    <3>1. req'[r] = "duplicate"
      BY <1>0, <2>1, <2>4 DEF Ingress!Answered, Ingress!Proceeds
    <3>2. UNCHANGED <<claimed, jobs>>
      BY <2>1, <2>4, ReceiverAssumption DEF Ingress!Answered, Ingress!Command, Ingress!SetNX
    <3> QED BY <3>1, <3>2
  <2>5. CASE Ingress!Unanswered(r)
    BY <2>1, <2>2, <2>5 DEF Ingress!Unanswered, Ingress!GivesUp, Ingress!redis_vars
  <2> QED BY <1>2, <2>3, <2>4, <2>5 DEF Ingress!RequestStep
<1>3. ~(Ingress!MarkPending(r) \/ Ingress!MarkPendingFails(r))
  BY DEF Ingress!MarkPending, Ingress!MarkPendingFails
<1> QED BY <1>1, <1>2, <1>3

\* The command that enqueues the review is the last of its request.
LEMMA EnqueueIsLast ==
    ASSUME Post!TypeOK, NEW r \in Requests,
           Ingress!Receive(r) \/ Ingress!RequestStep(r), jobs' # jobs
    PROVE  /\ req[r] = "enqueue" /\ UNCHANGED claimed
           /\ "lost_reply" \notin IngressFaults => req'[r] = "accepted"
<1> USE DEF Post!TypeOK, Post!JobQueueTypeOK
<1>1. (Ingress!Answered(r) \/ Ingress!Unanswered(r)) /\ Ingress!Command(r)
  BY DEF Ingress!Receive, Ingress!RequestStep, Ingress!BeforeCall, Ingress!Answered,
     Ingress!Unanswered, Ingress!MarkPending, Ingress!MarkPendingFails, Ingress!redis_vars
<1>2. req[r] \in Ingress!Commands
  BY <1>1 DEF Ingress!Answered, Ingress!Unanswered
<1>3. req[r] = "enqueue" /\ UNCHANGED claimed
  BY <1>1, <1>2 DEF Ingress!Commands, Ingress!Command, Ingress!SetNX, Ingress!Delete,
     Ingress!EnqueueJob
<1>4. ASSUME "lost_reply" \notin IngressFaults PROVE req'[r] = "accepted"
  <2>1. Ingress!Answered(r)
    BY <1>1, <1>4 DEF Ingress!Unanswered, Ingress!redis_vars
  <2>2. op[r] \in DOMAIN ReviewWork[Carries[r]] /\ Carries[r] \in Deliveries
    BY <1>3, ReceiverAssumption DEF Post!InHand
  <2>3. op[r] = 1 /\ Len(ReviewWork[Carries[r]]) = 1
    BY <2>2 DEF ReviewWork
  <2> QED BY <1>3, <2>1, <2>3 DEF Ingress!Answered, Ingress!Proceeds, Ingress!Becomes
<1> QED BY <1>3, <1>4

\* The two instances of WebhookIngress share its invariant.
LEMMA SameIngressInv ==
    /\ Ingress!IInv <=> Post!IInv
    /\ Ingress!IInv' <=> Post!IInv'
<1> USE DEF Ingress!IInv, Post!IInv, Ingress!TypeOK, Post!TypeOK, Ingress!JobQueueTypeOK,
       Post!JobQueueTypeOK, Ingress!HandInv, Post!HandInv, Ingress!AcceptedIsEnqueued,
       Post!AcceptedIsEnqueued, Ingress!Enqueued, Post!Enqueued, Ingress!MarkedBeforeQueued,
       Post!MarkedBeforeQueued, Ingress!KeyInv, Post!KeyInv, Ingress!OnceInv, Post!OnceInv,
       Ingress!InHand, Post!InHand, Ingress!Commands, Post!Commands, Ingress!Answers,
       Post!Answers
<1>1. Ingress!IInv <=> Post!IInv
  BY Zenon
<1>2. Ingress!IInv' <=> Post!IInv'
  BY Zenon
<1> QED BY <1>1, <1>2

\* Who works on a delivery holds its key.
LEMMA InHandHolds ==
    ASSUME Post!IInv, "lost_reply" \notin IngressFaults, NEW r \in Requests, req[r] \in Ingress!InHand
    PROVE  claimed[Carries[r]] = r /\ r # None
  BY ReceiverAssumption DEF Post!IInv, Post!KeyInv, Ingress!InHand, Post!InHand

\* The delivery of the job that a request puts into the queue was nobody else's.
LEMMA ArrivalApart ==
    ASSUME Runs!IInv, Post!IInv, "lost_reply" \notin IngressFaults, \A k \in Jobs : KeptApart(k),
           NEW r \in Requests, Ingress!Receive(r) \/ Ingress!RequestStep(r), jobs' # jobs,
           JobArrives(r)
    PROVE  \A k \in Jobs : KeptApart(k)'
<1> DEFINE d == Carries[r]
<1>1. Post!TypeOK /\ d \in Deliveries /\ job_state \in [Jobs -> Runs!JobStates]
  BY ReceiverAssumption DEF Post!IInv, Runs!IInv, Runs!TypeOK, Runs!WorkerTypeOK
<1>2. req[r] = "enqueue" /\ UNCHANGED claimed /\ req'[r] = "accepted"
  BY <1>1, EnqueueIsLast
<1>3. claimed[d] = r /\ claimed[d] # None
  BY <1>2, InHandHolds DEF Ingress!InHand
<1>4. \A q \in Requests \ {r} : req'[q] = req[q]
  BY <1>1, RequestFrame DEF Post!TypeOK, Post!JobQueueTypeOK
<1>5. \A q \in Requests : Carries[q] = d => req'[q] \notin Ingress!InHand
  <2>1. ASSUME NEW q \in Requests \ {r}, Carries[q] = d PROVE req[q] \notin Ingress!InHand
    BY <1>3, <2>1, InHandHolds
  <2> QED BY <1>2, <1>4, <2>1 DEF Ingress!InHand
<1>6. PICK j \in Jobs : DeliveryOf[j] = d /\ job_state' = [job_state EXCEPT ![j] = "queued"]
  BY DEF JobArrives, EnqueueReview
<1>7. \A k \in Jobs : DeliveryOf[k] = d => ~Active(k)
  BY <1>2 DEF KeptApart, Ingress!InHand
<1>8. \A k \in Jobs \ {j} : Active(k)' <=> Active(k)
  BY <1>1, <1>6 DEF Active
<1>9. KeptApart(j)'
  BY <1>2, <1>3, <1>5, <1>6, <1>7, <1>8 DEF KeptApart
<1>10. ASSUME NEW k \in Jobs \ {j} PROVE KeptApart(k)'
  <2> SUFFICES ASSUME Active(k)' PROVE KeptApart(k)'
    BY DEF KeptApart
  <2>1. Active(k) /\ KeptApart(k) /\ DeliveryOf[k] # d
    BY <1>7, <1>8
  <2>2. \A q \in Requests : Carries[q] = DeliveryOf[k] => req'[q] \notin Ingress!InHand
    BY <1>4, <2>1 DEF KeptApart
  <2> QED BY <1>2, <1>6, <1>8, <2>1, <2>2 DEF KeptApart
<1> QED BY <1>9, <1>10

\* A step that starts no job, frees no key of one and hands nothing over to the
\* delivery of one keeps them apart.
LEMMA StayApart ==
    ASSUME \A k \in Jobs : KeptApart(k), \A k \in Jobs : Active(k)' => Active(k),
           \A k \in Jobs : Active(k) =>
              /\ claimed'[DeliveryOf[k]] = claimed[DeliveryOf[k]]
              /\ \A r \in Requests : Carries[r] = DeliveryOf[k] /\ req[r] \notin Ingress!InHand
                                      => req'[r] \notin Ingress!InHand
    PROVE  \A k \in Jobs : KeptApart(k)'
  BY DEF KeptApart

\* The dedup key keeps the jobs of a delivery apart: a request that finds it set
\* enqueues nothing and gives nothing back, and the key goes when no job needs it.
LEMMA ApartStep ==
    ASSUME Runs!IInv, Post!IInv, "lost_reply" \notin IngressFaults, \A k \in Jobs : KeptApart(k),
           [Next]_vars, restarts = 0, restarts' = 0
    PROVE  \A k \in Jobs : KeptApart(k)'
<1>1. /\ Post!TypeOK /\ DOMAIN req = Requests /\ DOMAIN claimed = Deliveries
      /\ DeliveryOf \in [Jobs -> Deliveries] /\ Carries \in [Requests -> Deliveries]
  BY DomainAssumption, ReceiverAssumption DEF Post!IInv, Post!TypeOK, Post!JobQueueTypeOK
<1>2. ASSUME NEW r \in Requests, RequestMoves(r) PROVE \A k \in Jobs : KeptApart(k)'
  <2>1. CASE jobs' # jobs
    BY <1>2, <2>1, ArrivalApart DEF RequestMoves
  <2>2. CASE jobs' = jobs
    <3>1. UNCHANGED job_state
      BY <1>2, <2>2 DEF RequestMoves, worker_vars, queue_vars
    <3>2. ASSUME NEW k \in Jobs, Active(k)
          PROVE  /\ claimed'[DeliveryOf[k]] = claimed[DeliveryOf[k]]
                 /\ \A q \in Requests : Carries[q] = DeliveryOf[k] /\ req[q] \notin Ingress!InHand
                                         => req'[q] \notin Ingress!InHand
      <4>1. CASE Carries[r] = DeliveryOf[k]
        <5>1. req[r] \notin Ingress!InHand /\ claimed[Carries[r]] # None
          BY <3>2, <4>1 DEF KeptApart
        <5>2. req'[r] \notin Ingress!InHand /\ UNCHANGED claimed
          BY <1>1, <1>2, <5>1, KeyRespected DEF RequestMoves
        <5> QED BY <1>1, <1>2, <5>2, RequestFrame DEF RequestMoves
      <4>2. CASE Carries[r] # DeliveryOf[k]
        BY <1>1, <1>2, <4>2, RequestFrame DEF RequestMoves
      <4> QED BY <4>1, <4>2
    <3> QED BY <3>1, <3>2, StayApart DEF Active
  <2> QED BY <2>1, <2>2
<1>3. CASE ReceiverMoves
  <2>1. UNCHANGED job_state
    BY <1>3 DEF ReceiverMoves, worker_vars, queue_vars
  <2>2. CASE \E d \in Deliveries : KeyExpires(d)
    BY <1>1, <2>1, <2>2, StayApart DEF KeyExpires, Ingress!ClaimExpires, Ingress!Expire,
       Ingress!Delete, Ingress!request_vars, Settled, Active, Post!TypeOK,
       Post!JobQueueTypeOK
  <2>3. CASE Ingress!CooldownPasses
    BY <2>1, <2>3, StayApart DEF Ingress!CooldownPasses, Ingress!redis_vars,
       Ingress!request_vars, Active
  <2>4. CASE Ingress!ReceiverDies
    BY <2>1, <2>4, StayApart DEF Ingress!ReceiverDies, Ingress!redis_vars, Ingress!InHand,
       Active
  <2> QED BY <1>3, <2>2, <2>3, <2>4 DEF ReceiverMoves
<1>4. ~RedisComesBackEmpty
  BY DEF RedisComesBackEmpty, RedisRestart
<1>5. CASE WorkerMoves
  BY <1>5, NoneStarts, StayApart DEF WorkerMoves, ingress_vars
<1>6. CASE UNCHANGED vars
  BY <1>6, StayApart DEF vars, worker_vars, queue_vars, ingress_vars, Active
<1> QED BY <1>2, <1>3, <1>4, <1>5, <1>6 DEF Next

\* A request is accepted in the step that puts its job into the queue.
LEMMA AcceptedOnArrival ==
    ASSUME SeamTypeOK, NEW r \in Requests, Ingress!Receive(r) \/ Ingress!RequestStep(r),
           req'[r] = "accepted", req[r] # "accepted"
    PROVE  jobs' # jobs
<1>1. \A state : Ingress!Becomes(r, state) => req'[r] = state
  BY DEF SeamTypeOK, Ingress!Becomes
<1>2. ~Ingress!Raises(r) /\ req' # req
  BY <1>1 DEF Ingress!Raises
<1>3. Ingress!Answered(r)
  BY <1>1, <1>2 DEF Ingress!Receive, Ingress!RequestStep, Ingress!BeforeCall,
     Ingress!Unanswered, Ingress!GivesUp, Ingress!MarkPending, Ingress!MarkPendingFails
<1>4. Carries[r] \in Deliveries /\ Len(ReviewWork[Carries[r]]) = 1
  BY ReceiverAssumption DEF ReviewWork
<1>5. req[r] = "enqueue" /\ op[r] = 1
  BY <1>1, <1>3, <1>4 DEF Ingress!Answered, Ingress!Proceeds, Ingress!StartOf
<1>6. Ingress!EnqueueJob(Carries[r], 1)
  BY <1>3, <1>5 DEF Ingress!Answered, Ingress!Command
<1> QED BY <1>4, <1>6 DEF SeamTypeOK, Ingress!EnqueueJob

\* The tables keep their keys, whatever Redis forgets.
LEMMA SeamTyped ==
    ASSUME SeamTypeOK, [Next]_vars
    PROVE  SeamTypeOK'
<1> USE DEF SeamTypeOK
<1>1. ASSUME NEW r \in Requests, RequestMoves(r) PROVE SeamTypeOK'
  <2>1. DOMAIN req' = Requests
    BY <1>1 DEF RequestMoves, Ingress!Receive, Ingress!RequestStep, Ingress!BeforeCall,
       Ingress!Answered, Ingress!Unanswered, Ingress!GivesUp, Ingress!MarkPending,
       Ingress!MarkPendingFails, Ingress!Raises, Ingress!Proceeds, Ingress!Becomes
  <2>2. (req[r] \in Ingress!Commands /\ Ingress!Command(r)) \/ UNCHANGED Ingress!redis_vars
    BY <1>1 DEF RequestMoves, Ingress!Receive, Ingress!RequestStep, Ingress!BeforeCall,
       Ingress!Answered, Ingress!Unanswered, Ingress!MarkPending, Ingress!MarkPendingFails
  <2>3. DOMAIN claimed' = Deliveries /\ jobs' \in [Deliveries -> [{1} -> Nat]]
    <3>1. CASE \/ UNCHANGED Ingress!redis_vars
               \/ Ingress!SetNX(Carries[r], r) \/ Ingress!Delete(Carries[r])
      BY <3>1 DEF Ingress!redis_vars, Ingress!SetNX, Ingress!Delete
    <3>2. CASE Ingress!EnqueueJob(Carries[r], op[r])
      <4> DEFINE more == [jobs[Carries[r]] EXCEPT ![op[r]] = @ + 1]
      <4>1. Carries[r] \in Deliveries /\ jobs[Carries[r]] \in [{1} -> Nat]
        BY ReceiverAssumption
      <4>2. DOMAIN more = {1} /\ more[1] \in Nat /\ more = [i \in {1} |-> more[i]]
        BY <4>1
      <4>3. more \in [{1} -> Nat]
        BY <4>2
      <4>4. jobs' = [jobs EXCEPT ![Carries[r]] = more]
        BY <3>2 DEF Ingress!EnqueueJob
      <4> HIDE DEF more
      <4>5. jobs' \in [Deliveries -> [{1} -> Nat]]
        BY <4>3, <4>4
      <4> QED BY <3>2, <4>5 DEF Ingress!EnqueueJob
    <3> QED BY <2>2, <3>1, <3>2 DEF Ingress!Commands, Ingress!Command
  <2>4. job_of' \in [Requests -> Jobs \cup {None}]
    BY <1>1 DEF RequestMoves, JobArrives
  <2> QED BY <2>1, <2>3, <2>4
<1>2. CASE ReceiverMoves
  BY <1>2 DEF ReceiverMoves, KeyExpires, Ingress!ClaimExpires, Ingress!Expire,
     Ingress!Delete, Ingress!CooldownPasses, Ingress!ReceiverDies, Ingress!redis_vars,
     Ingress!request_vars
<1>3. CASE RedisComesBackEmpty
  BY <1>3 DEF RedisComesBackEmpty
<1>4. CASE WorkerMoves \/ UNCHANGED vars
  BY <1>4 DEF WorkerMoves, ingress_vars, vars
<1> QED BY <1>1, <1>2, <1>3, <1>4 DEF Next

\* A step that accepts no request, hands no job over and makes none idle.
LEMMA StayHandedOver ==
    ASSUME SeamTypeOK, \A r \in Requests : HandedOver(r), UNCHANGED job_of,
           \A r \in Requests : req'[r] = "accepted" => req[r] = "accepted",
           \A j \in Jobs : job_state[j] # "idle" => job_state'[j] # "idle"
    PROVE  \A r \in Requests : HandedOver(r)'
  BY DEF HandedOver, SeamTypeOK

\* arq makes a new job of every enqueue_job, and nothing else gives a job to a
\* request.
LEMMA HandedOverStep ==
    ASSUME Runs!IInv, SeamTypeOK, \A r \in Requests : HandedOver(r), [Next]_vars
    PROVE  \A r \in Requests : HandedOver(r)'
<1>1. ASSUME NEW r \in Requests, RequestMoves(r) PROVE \A q \in Requests : HandedOver(q)'
  <2>1. \A q \in Requests \ {r} : req'[q] = req[q]
    BY <1>1, RequestFrame DEF RequestMoves, SeamTypeOK
  <2>2. CASE jobs' = jobs
    <3>1. req'[r] = "accepted" => req[r] = "accepted"
      BY <1>1, <2>2, AcceptedOnArrival DEF RequestMoves
    <3> QED BY <1>1, <2>1, <2>2, <3>1, StayHandedOver DEF RequestMoves, worker_vars,
           queue_vars
  <2>3. CASE jobs' # jobs
    <3>1. PICK j \in Jobs : /\ DeliveryOf[j] = Carries[r] /\ job_state[j] = "idle"
                            /\ job_state' = [job_state EXCEPT ![j] = "queued"]
                            /\ job_of' = [job_of EXCEPT ![r] = j]
      BY <1>1, <2>3 DEF RequestMoves, JobArrives, EnqueueReview
    <3>2. job_state \in [Jobs -> Runs!JobStates] /\ j # None
      BY DomainAssumption DEF Runs!IInv, Runs!TypeOK, Runs!WorkerTypeOK
    <3>3. \A q \in Requests : job_of[q] # j
      BY <3>1, <3>2 DEF HandedOver
    <3>4. HandedOver(r)'
      BY <3>1, <3>2, <3>3 DEF HandedOver, SeamTypeOK
    <3>5. ASSUME NEW q \in Requests \ {r} PROVE HandedOver(q)'
      BY <2>1, <3>1, <3>2, <3>3 DEF HandedOver, SeamTypeOK
    <3> QED BY <3>4, <3>5
  <2> QED BY <2>2, <2>3
<1>2. CASE ReceiverMoves
  BY <1>2, StayHandedOver DEF ReceiverMoves, worker_vars, queue_vars, KeyExpires,
     Ingress!ClaimExpires, Ingress!CooldownPasses, Ingress!ReceiverDies,
     Ingress!request_vars
<1>3. CASE RedisComesBackEmpty
  BY <1>3, StayHandedOver DEF RedisComesBackEmpty, RedisRestart
<1>4. CASE WorkerMoves
  BY <1>4, NoneStarts, StayHandedOver DEF WorkerMoves, ingress_vars
<1>5. CASE UNCHANGED vars
  BY <1>5, StayHandedOver DEF vars, worker_vars, queue_vars, ingress_vars
<1> QED BY <1>1, <1>2, <1>3, <1>4, <1>5 DEF Next

\* Redis that kept its data up to now had kept it before.
LEMMA NoRestartBefore ==
    ASSUME Runs!IInv, [Next]_vars, restarts' = 0
    PROVE  restarts = 0
<1>1. restarts \in Nat
  BY WorkerAssumption DEF Runs!IInv, Runs!TypeOK, Runs!WorkerTypeOK
<1>2. \A j \in Jobs :
        EnqueueReview(j) \/ WorkerStep(j) \/ BackgroundSave(j) \/ WorkerDies(j) \/ JobFails(j)
          => UNCHANGED restarts
  BY DEF EnqueueReview, WorkerStep, StartJob, GiveUp, UpsertReview, EngineRun, Specialist,
     AggUpsert, AggInsert, AggEmit, AggPost, AggPostUnanswered, AggMark, AggEnqueue,
     AggStatus, Finish, BackgroundSave, SaveStart, SaveJoin, SaveWrites, WorkerDies, JobFails,
     queue_vars
<1>3. ~RedisComesBackEmpty
  BY <1>1 DEF RedisComesBackEmpty, RedisRestart
<1>4. UNCHANGED restarts
  BY <1>2, <1>3 DEF Next, RequestMoves, JobArrives, ReceiverMoves, WorkerMoves, worker_vars,
                    queue_vars, vars
<1> QED BY <1>4

-----------------------------------------------------------------------------
(* The invariants of the seam, and what follows *)

HandInv == SeamTypeOK /\ \A r \in Requests : HandedOver(r)

LEMMA HandInvariant == Spec => []HandInv
<1>1. Init => HandInv
  BY DEF Init, Ingress!Init, Ingress!JobQueueInit, ReviewWork, HandInv, SeamTypeOK,
     HandedOver
<1>2. Runs!IInv /\ HandInv /\ [Next]_vars => HandInv'
  BY SeamTyped, HandedOverStep DEF HandInv
<1> QED BY <1>1, <1>2, RunsInvariant, PTL DEF Spec

\* Behind every 200 is a job of its own, and run_review does not return before the
\* review is decided: what was accepted is at work, decided, given up or lost.
THEOREM EachAcceptedHasItsJobAlways == Spec => []EachAcceptedHasItsJob
<1>1. Runs!IInv /\ HandInv => EachAcceptedHasItsJob
  <2> SUFFICES ASSUME Runs!IInv, HandInv, NEW r \in Requests, req[r] = "accepted"
               PROVE  /\ job_of[r] \in Jobs /\ DeliveryOf[job_of[r]] = Carries[r]
                      /\ \/ Active(job_of[r]) \/ IsDecided(Carries[r])
                         \/ job_state[job_of[r]] \in {"failed", "lost"}
                      /\ \A q \in Requests \ {r} : job_of[q] # job_of[r]
    BY DEF EachAcceptedHasItsJob
  <2>1. /\ job_of[r] \in Jobs /\ DeliveryOf[job_of[r]] = Carries[r]
        /\ job_state[job_of[r]] # "idle"
        /\ \A q \in Requests \ {r} : job_of[q] # job_of[r]
    BY DEF HandInv, HandedOver
  <2>2. job_state[job_of[r]] \in {"queued", "running", "detached", "done", "failed", "lost"}
    BY <2>1 DEF Runs!IInv, Runs!TypeOK, Runs!WorkerTypeOK, Runs!JobStates
  <2>3. job_state[job_of[r]] = "done" => IsDecided(Carries[r])
    BY <2>1 DEF Runs!IInv, Runs!RunInv, Runs!Decided, IsDecided
  <2> QED BY <2>1, <2>2, <2>3 DEF Active
<1> QED BY <1>1, RunsInvariant, HandInvariant, PTL

\* The half of SeamInv that needs the dedup keys.
ApartInv == restarts = 0 => Ingress!IInv /\ \A j \in Jobs : KeptApart(j)

LEMMA ApartInvariant == ASSUME "lost_reply" \notin IngressFaults PROVE Spec => []ApartInv
<1>1. Init => ApartInv
  <2>1. Init => Ingress!IInv
    BY RequestInit, Post!IngressInit, PostAssumptions, SameIngressInv
  <2>2. Init => \A j \in Jobs : KeptApart(j)
    BY DEF Init, WorkerInit, KeptApart, Active
  <2> QED BY <2>1, <2>2 DEF ApartInv
<1>2. Runs!IInv /\ ApartInv /\ [Next]_vars => ApartInv'
  BY NoRestartBefore, RequestsKeep, ApartStep, SameIngressInv DEF ApartInv
<1> QED BY <1>1, <1>2, RunsInvariant, PTL DEF Spec

\* The invariant between the receiver and the worker: key, request and job of a
\* delivery belong together.
THEOREM SeamInvariant == ASSUME "lost_reply" \notin IngressFaults PROVE Spec => []SeamInv
<1>1. HandInv /\ ApartInv => SeamInv
  BY DEF HandInv, ApartInv, SeamInv
<1> QED BY <1>1, HandInvariant, ApartInvariant, PTL

\* mark_seen and unclaim are all that keeps two run_review jobs of a delivery from
\* running at once; where no answer of Redis is lost and Redis keeps its data, they
\* are enough.
THEOREM JobsFollowEachOtherAlways ==
    ASSUME "lost_reply" \notin IngressFaults PROVE Spec => []JobsFollowEachOther
<1>1. ApartInv => JobsFollowEachOther
  BY DEF ApartInv, KeptApart, JobsFollowEachOther
<1> QED BY <1>1, ApartInvariant, PTL

-----------------------------------------------------------------------------
(* What ReviewSystem proves of runs that follow each other, of the runs the    *)
(* receiver lets through.                                                      *)

TurnInv == restarts = 0 => Runs!TurnInv

LEMMA TurnStep ==
    ASSUME "lost_reply" \notin Faults, MaxTries > 1, Runs!IInv, TurnInv, [Next]_vars, ApartInv'
    PROVE  TurnInv'
<1> SUFFICES ASSUME restarts' = 0 PROVE Runs!TurnInv'
  BY DEF TurnInv
<1>1. Runs!TurnInv
  BY NoRestartBefore DEF TurnInv
<1>2. \A d \in Deliveries : Runs!Solo(d)'
  BY DEF ApartInv, KeptApart, Active, Runs!Solo, Runs!JobsOf, Runs!Active
<1>3. Runs!RepliesArrive
  BY DEF Runs!RepliesArrive
<1> QED BY <1>1, <1>2, <1>3, NextMaps, Runs!NextTurn, SameAssumptions, ThresholdAssumption,
           DomainAssumption, RetryAssumption, WorkerAssumption

\* RunsInTurn is the receiver's doing: the invariant of runs in turn holds even
\* where enqueue_review itself would let a job overtake another.
THEOREM TurnInvariant ==
    ASSUME "lost_reply" \notin Faults \cup IngressFaults, MaxTries > 1 PROVE Spec => []TurnInv
<1>1. Init => TurnInv
  BY InitMaps, Runs!InitTurn, SameAssumptions, ThresholdAssumption, DomainAssumption,
     RetryAssumption, WorkerAssumption DEF TurnInv
<1>2. Runs!IInv /\ TurnInv /\ [Next]_vars /\ ApartInv' => TurnInv'
  BY TurnStep
<1>3. Spec => []ApartInv
  BY ApartInvariant
<1> QED BY <1>1, <1>2, <1>3, RunsInvariant, PTL DEF Spec

\* However often GitHub posts an event, and whatever the receiver refuses, rolls
\* back or drops, aggregate posts one review for it or queues one row.
THEOREM OneEffectAlways ==
    ASSUME "lost_reply" \notin Faults \cup IngressFaults, MaxTries > 1
    PROVE  Spec => []OneEffect
<1>1. Runs!IInv /\ TurnInv => OneEffect
  <2> SUFFICES ASSUME Runs!IInv, Runs!TurnInv, NEW d \in Deliveries, Reviews!Uninterrupted(d)
               PROVE  Len(github[d]) + Len(hitl_reviews[d]) <= 1
    BY DEF OneEffect, TurnInv
  <2>1. Runs!Uninterrupted(d)
    BY Zenon DEF Reviews!Uninterrupted, Runs!Uninterrupted, Reviews!JobsOf, Runs!JobsOf,
       Reviews!Died, Runs!Died, Reviews!Started, Runs!Started
  <2>2. Runs!Course(d) /\ \A c \in Calls : ReviewOf[c] = d => Runs!PostAnswered(c)
    BY <2>1 DEF Runs!TurnInv, Runs!Turn
  <2>3. github[d] \in Seq(Runs!PostedReview) /\ hitl_reviews[d] \in Seq(Runs!HitlRow)
    BY DEF Runs!IInv, Runs!TypeOK, Runs!GitHubTypeOK, Runs!HitlQueueTypeOK
  <2>4. CASE hitl_reviews[d] = <<>>
    BY <2>2, <2>3, <2>4 DEF Runs!Course
  <2>5. CASE hitl_reviews[d] # <<>>
    <3>1. \A i \in DOMAIN github[d] : github[d][i].by \in Calls /\ ReviewOf[github[d][i].by] = d
      BY <2>2, <2>5 DEF Runs!Course, Runs!IInv, Runs!HumanPostWasClaimed
    <3>2. \A c \in Calls : ReviewOf[c] = d => ~\E i \in DOMAIN github[d] : github[d][i].by = c
      BY <2>2 DEF Runs!PostAnswered, NoCalls
    <3>3. DOMAIN github[d] = {}
      BY <3>1, <3>2
    <3>4. Len(github[d]) = 0
      <4> DEFINE n == Len(github[d])
      <4>1. n \in Nat /\ DOMAIN github[d] = 1..n
        BY <2>3
      <4>2. 1..n = {}
        BY <3>3, <4>1
      <4> HIDE DEF n
      <4>3. n = 0
        BY <4>1, <4>2
      <4> QED BY <4>3 DEF n
    <3>5. Len(hitl_reviews[d]) = 1
      BY <2>2, <2>5 DEF Runs!Course
    <3> QED BY <3>4, <3>5
  <2> QED BY <2>4, <2>5
<1>2. Spec => []TurnInv
  BY TurnInvariant
<1> QED BY <1>1, <1>2, RunsInvariant, PTL
=============================================================================
