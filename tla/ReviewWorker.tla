---------------------------- MODULE ReviewWorker ----------------------------
(***************************************************************************)
(* job_queue/arq_worker.py run_review, orchestrator/langgraph_engine.py,   *)
(* the review graph of orchestrator/graph.py and the aggregate step of     *)
(* orchestrator/nodes.py: what one arq job does for one delivery, one      *)
(* awaited call at a time.  Jobs interleave at every await.                *)
(*                                                                         *)
(* arq and LangGraph are libraries; what the model assumes of them:        *)
(*  - a job that raises, or that job_timeout cancels, has failed for good; *)
(*    one whose worker dies is run again from the start, max_tries times;  *)
(*  - checkpoints and task writes are saved in the background, so a run    *)
(*    may be ahead of what a later run will find of it.                    *)
(***************************************************************************)
EXTENDS TruthStore, HitlQueue, GitHubReviews, CheckpointStore

CONSTANTS
    MaxTries,       \* WorkerSettings.max_tries
    MaxCrashes,     \* bound: a job's worker dies at most this often
    MaxRestarts     \* bound: Redis restarts at most this often

ASSUME WorkerAssumption ==
    /\ MaxTries \in Nat \ {0}
    /\ MaxCrashes \in Nat
    /\ MaxRestarts \in Nat

VARIABLES
    job_state,      \* arq's view of the job
    job_try,        \* arq's job_try: how often the job was started
    restarts,       \* how often Redis restarted
    pc,             \* the await the job is at, "idle" when it does not run
    results,        \* specialist_results in the run's memory
    thread,         \* the slot whose checkpoint the run's tasks belong to
    saved,          \* the last stage of this run that reached Redis
    attempt,        \* requests of the current post_review that went unanswered
    posted_id       \* github_review_id in memory, between post and mark

queue_vars == <<job_state, job_try, restarts>>
run_vars == <<pc, results, thread, saved, attempt, posted_id>>
store_vars == <<truth_vars, hitl_reviews, github, checkpoint_vars>>

\* detached: running, but the Redis that held the job has restarted.
JobStates == {"idle", "queued", "running", "detached", "done", "failed", "lost"}

Labels == {"idle", "upsert", "engine", "fan_out", "agg_insert", "agg_emit",
           "agg_post", "agg_mark", "agg_enqueue", "agg_status", "finish"}

WorkerTypeOK ==
    /\ job_state \in [Jobs -> JobStates]
    /\ job_try \in [Jobs -> 0..MaxTries]
    /\ restarts \in 0..MaxRestarts
    /\ pc \in [Jobs -> Labels]
    /\ results \in [Jobs -> Reports]
    /\ thread \in [Jobs -> Jobs \cup {None}]
    /\ saved \in [Jobs -> Stages]
    /\ attempt \in [Jobs -> 0..RetryAttempts - 1]
    /\ posted_id \in [Jobs -> Nat \cup {None}]

WorkerInit ==
    /\ job_state = [j \in Jobs |-> "idle"]
    /\ job_try = [j \in Jobs |-> 0]
    /\ restarts = 0
    /\ pc = [j \in Jobs |-> "idle"]
    /\ results = [j \in Jobs |-> NoWrites]
    /\ thread = [j \in Jobs |-> None]
    /\ saved = [j \in Jobs |-> "none"]
    /\ attempt = [j \in Jobs |-> 0]
    /\ posted_id = [j \in Jobs |-> None]

Running(j) == job_state[j] \in {"running", "detached"}
Settled(j) == job_state[j] \in {"done", "failed", "lost"}
Joined(j) == \A a \in Specialists : results[j][a] # Missing

Review(j) == Deduped(results[j])

At(j, label) == Running(j) /\ pc[j] = label
Goto(j, label) == pc' = [pc EXCEPT ![j] = label]

\* The job leaves the worker; nothing of the run stays in memory.
Leave(j, state) ==
    /\ job_state' = [job_state EXCEPT ![j] = state]
    /\ Goto(j, "idle")
    /\ results' = [results EXCEPT ![j] = NoWrites]
    /\ thread' = [thread EXCEPT ![j] = None]
    /\ saved' = [saved EXCEPT ![j] = "none"]
    /\ attempt' = [attempt EXCEPT ![j] = 0]
    /\ posted_id' = [posted_id EXCEPT ![j] = None]

-----------------------------------------------------------------------------
(* arq *)

\* receive_webhook enqueues a job for a delivery.  A delivery comes again when
\* GitHub redelivers it after the dedup claim is gone; "overlap" lets it come
\* while an earlier job for it is still under way.
EnqueueReview(j) ==
    /\ job_state[j] = "idle"
    /\ \/ "overlap" \in Faults
       \/ \A k \in Jobs : DeliveryOf[k] = DeliveryOf[j] =>
                            job_state[k] = "idle" \/ Settled(k)
    /\ job_state' = [job_state EXCEPT ![j] = "queued"]
    /\ UNCHANGED <<job_try, restarts, run_vars, store_vars>>

StartJob(j) ==
    /\ job_state[j] = "queued"
    /\ job_try[j] < MaxTries
    /\ job_try' = [job_try EXCEPT ![j] = @ + 1]
    /\ job_state' = [job_state EXCEPT ![j] = "running"]
    /\ Goto(j, "upsert")
    /\ UNCHANGED <<restarts, results, thread, saved, attempt, posted_id, store_vars>>

\* job_try > max_tries: arq gives the job up without running it.
GiveUp(j) ==
    /\ job_state[j] = "queued"
    /\ job_try[j] = MaxTries
    /\ job_state' = [job_state EXCEPT ![j] = "failed"]
    /\ UNCHANGED <<job_try, restarts, run_vars, store_vars>>

\* The worker dies or is shut down: the job is still queued in Redis, unless
\* Redis forgot it.
WorkerDies(j) ==
    /\ "crash" \in Faults
    /\ Running(j)
    /\ job_try[j] <= MaxCrashes
    /\ Leave(j, IF job_state[j] = "running" THEN "queued" ELSE "lost")
    /\ UNCHANGED <<job_try, restarts, store_vars>>

AfterException == "failed"

\* Any awaited call raises, or job_timeout cancels the job.  A call that took
\* effect before its answer was lost is this step after the call's own.
JobFails(j) ==
    /\ "error" \in Faults
    /\ Running(j)
    /\ Leave(j, AfterException)
    /\ UNCHANGED <<job_try, restarts, store_vars>>

\* Redis comes back empty: queue, job data and checkpoints.
RedisRestart ==
    /\ "redis_loss" \in Faults
    /\ restarts < MaxRestarts
    /\ restarts' = restarts + 1
    /\ job_state' = [j \in Jobs |-> CASE job_state[j] = "queued" -> "lost"
                                      [] job_state[j] = "running" -> "detached"
                                      [] OTHER -> job_state[j]]
    /\ ForgetCheckpoints
    /\ thread' = [j \in Jobs |-> IF saved[j] = "none" THEN thread[j] ELSE None]
    /\ UNCHANGED <<job_try, pc, results, saved, attempt, posted_id,
                   truth_vars, hitl_reviews, github>>

-----------------------------------------------------------------------------
(* run_review *)

\* Mutants: a row that is already there counts as reviewed; a posted review is
\* reviewed again; one that waits for a human is.
AlreadyDecided_AnyRow(d) == status[d] # "absent"
AlreadyDecided_NotPosted(d) == status'[d] \notin {"pending", "posted"}
AlreadyDecided_OnlyPosted(d) == status'[d] = "posted"

\* What upsert_review returned: the prior status of the row, if it had one.
AlreadyDecided(d) == status'[d] # "pending"

\* A review the gate has decided is not reviewed again.
UpsertReview(j) ==
    /\ At(j, "upsert")
    /\ upsert_review(DeliveryOf[j])
    /\ IF AlreadyDecided(DeliveryOf[j])
       THEN Leave(j, "done")
       ELSE Goto(j, "engine")
            /\ UNCHANGED <<job_state, results, thread, saved, attempt, posted_id>>
    /\ UNCHANGED <<job_try, restarts, hitl_reviews, github, checkpoint_vars>>

\* Mutant: a thread with a checkpoint is taken for a finished one.
GraphEnded_Any(d) == HasCheckpoint(d)

GraphEnded(d) == HasCheckpoint(d) /\ aget_tuple(d).stage = "finished"

\* The diff has been fetched; LangGraphEngine.run starts the graph when the
\* thread has no checkpoint and resumes it from the last one otherwise.
EngineRun(j) ==
    /\ At(j, "engine")
    /\ LET d == DeliveryOf[j] IN
       \/ /\ ~HasCheckpoint(d)
          /\ thread' = [thread EXCEPT ![j] = j]
          /\ Goto(j, "fan_out")
          /\ UNCHANGED <<job_state, results, saved, attempt, posted_id>>
       \/ /\ HasCheckpoint(d) /\ ~GraphEnded(d)
          /\ thread' = [thread EXCEPT ![j] = latest[d]]
          /\ saved' = [saved EXCEPT ![j] = aget_tuple(d).stage]
          /\ results' = [results EXCEPT ![j] = aget_tuple(d).writes]
          /\ Goto(j, "fan_out")
          /\ UNCHANGED <<job_state, attempt, posted_id>>
       \/ GraphEnded(d) /\ Leave(j, "done")
    /\ UNCHANGED <<job_try, restarts, store_vars>>

-----------------------------------------------------------------------------
(* The graph and its background saves *)

\* A specialist not yet answered for reports, in any order with the others.
Specialist(j, a) ==
    /\ At(j, "fan_out")
    /\ results[j][a] = Missing
    /\ \E reported \in Outcomes[a] : results' = [results EXCEPT ![j][a] = reported]
    /\ UNCHANGED <<queue_vars, pc, thread, saved, attempt, posted_id, store_vars>>

\* The checkpoint a fresh run starts from.
SaveStart(j) ==
    /\ Running(j)
    /\ thread[j] = j /\ saved[j] = "none"
    /\ aput(DeliveryOf[j], j, "fan_out", NoWrites)
    /\ saved' = [saved EXCEPT ![j] = "fan_out"]
    /\ UNCHANGED <<queue_vars, pc, results, thread, attempt, posted_id,
                   truth_vars, hitl_reviews, github>>

\* A write filed under a checkpoint the thread has left behind is never read.
SaveWrites(j, a) ==
    /\ Running(j)
    /\ saved[j] = "fan_out" /\ thread[j] # None
    /\ slot[thread[j]].stage = "fan_out"
    /\ results[j][a] \notin {Missing, slot[thread[j]].writes[a]}
    /\ aput_writes(thread[j], a, results[j][a])
    /\ UNCHANGED <<queue_vars, run_vars, truth_vars, hitl_reviews, github>>

\* The checkpoint after the join, with the specialists' results in its state.
SaveJoin(j) ==
    /\ Running(j)
    /\ saved[j] = "fan_out" /\ Joined(j)
    /\ aput(DeliveryOf[j], j, "joined", results[j])
    /\ saved' = [saved EXCEPT ![j] = "joined"]
    /\ UNCHANGED <<queue_vars, pc, results, thread, attempt, posted_id,
                   truth_vars, hitl_reviews, github>>

-----------------------------------------------------------------------------
(* aggregate *)

\* The status is read once, here; what follows does not look again.
AggUpsert(j) ==
    /\ At(j, "fan_out") /\ Joined(j)
    /\ upsert_review(DeliveryOf[j])
    /\ Goto(j, IF AlreadyDecided(DeliveryOf[j]) THEN "finish" ELSE "agg_insert")
    /\ UNCHANGED <<queue_vars, results, thread, saved, attempt, posted_id,
                   hitl_reviews, github, checkpoint_vars>>

AggInsert(j) ==
    /\ At(j, "agg_insert")
    /\ insert_findings(DeliveryOf[j], Review(j))
    /\ Goto(j, "agg_emit")
    /\ UNCHANGED <<queue_vars, results, thread, saved, attempt, posted_id,
                   hitl_reviews, github, checkpoint_vars>>

\* Mutants: the status is set before the row is queued; a decision recorded by
\* an earlier run stands; the mark comes before the post.
AfterDecision_StatusFirst(j) ==
    IF decide(Review(j)) = "auto_post" THEN "agg_post" ELSE "agg_status"
AfterDecision_Keeps(j) ==
    IF "auto_post" \in decision_events'[DeliveryOf[j]] THEN "agg_post" ELSE "agg_enqueue"
AfterDecision_MarkFirst(j) ==
    IF decide(Review(j)) = "auto_post" THEN "agg_mark" ELSE "agg_enqueue"

AfterDecision(j) ==
    IF decide(Review(j)) = "auto_post" THEN "agg_post" ELSE "agg_enqueue"

AggEmit(j) ==
    /\ At(j, "agg_emit")
    /\ emit_decision(DeliveryOf[j], decide(Review(j)))
    /\ Goto(j, AfterDecision(j))
    /\ UNCHANGED <<queue_vars, results, thread, saved, attempt, posted_id,
                   hitl_reviews, github, checkpoint_vars>>

AggPost(j) ==
    /\ At(j, "agg_post")
    /\ AcceptReview(DeliveryOf[j], j, Review(j))
    /\ posted_id' = [posted_id EXCEPT ![j] = NewReviewId(DeliveryOf[j])]
    /\ Goto(j, "agg_mark")
    /\ UNCHANGED <<queue_vars, results, thread, saved, attempt,
                   truth_vars, hitl_reviews, checkpoint_vars>>

\* One request went unanswered: try again, or fail the job after the last.
AggPostUnanswered(j) ==
    /\ At(j, "agg_post")
    /\ PostUnanswered(DeliveryOf[j], j, Review(j))
    /\ IF attempt[j] + 1 < RetryAttempts
       THEN /\ attempt' = [attempt EXCEPT ![j] = @ + 1]
            /\ UNCHANGED <<job_state, pc, results, thread, saved, posted_id>>
       ELSE Leave(j, "failed")
    /\ UNCHANGED <<job_try, restarts, truth_vars, hitl_reviews, checkpoint_vars>>

\* Mutant: no return at the end of the auto-post branch.
AfterMark_Falls == "agg_enqueue"

AfterMark == "finish"

AggMark(j) ==
    /\ At(j, "agg_mark")
    /\ mark_posted(DeliveryOf[j], posted_id[j])
    /\ Goto(j, AfterMark)
    /\ UNCHANGED <<queue_vars, results, thread, saved, attempt, posted_id,
                   hitl_reviews, github, checkpoint_vars>>

AggEnqueue(j) ==
    /\ At(j, "agg_enqueue")
    /\ enqueue(DeliveryOf[j])
    /\ Goto(j, "agg_status")
    /\ UNCHANGED <<queue_vars, results, thread, saved, attempt, posted_id,
                   truth_vars, github, checkpoint_vars>>

AggStatus(j) ==
    /\ At(j, "agg_status")
    /\ set_status(DeliveryOf[j], IF decide(Review(j)) = "escalated"
                                 THEN "escalated" ELSE "needs_human")
    /\ Goto(j, "finish")
    /\ UNCHANGED <<queue_vars, results, thread, saved, attempt, posted_id,
                   hitl_reviews, github, checkpoint_vars>>

\* ainvoke returns once everything it still had to save is saved.
Finish(j) ==
    /\ At(j, "finish")
    /\ aput(DeliveryOf[j], j, "finished", results[j])
    /\ Leave(j, "done")
    /\ UNCHANGED <<job_try, restarts, truth_vars, hitl_reviews, github>>

-----------------------------------------------------------------------------
\* What a live worker does with a job when nothing goes wrong.
WorkerStep(j) ==
    \/ StartJob(j) \/ GiveUp(j) \/ UpsertReview(j) \/ EngineRun(j)
    \/ \E a \in Specialists : Specialist(j, a)
    \/ AggUpsert(j) \/ AggInsert(j) \/ AggEmit(j)
    \/ AggPost(j) \/ AggPostUnanswered(j) \/ AggMark(j)
    \/ AggEnqueue(j) \/ AggStatus(j) \/ Finish(j)

BackgroundSave(j) ==
    SaveStart(j) \/ SaveJoin(j) \/ \E a \in Specialists : SaveWrites(j, a)

WorkerNext ==
    \/ \E j \in Jobs : \/ EnqueueReview(j) \/ WorkerStep(j) \/ BackgroundSave(j)
                       \/ WorkerDies(j) \/ JobFails(j)
    \/ RedisRestart
=============================================================================
