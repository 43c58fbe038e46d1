---------------------------- MODULE ReviewSystem ----------------------------
(***************************************************************************)
(* The worker and the dashboard API over the stores they share: every run  *)
(* of every delivery, and every approve and reject, interleaved.           *)
(***************************************************************************)
EXTENDS ReviewWorker, HitlApi

vars == <<queue_vars, run_vars, store_vars, call_vars>>

Init ==
    /\ TruthStoreInit
    /\ HitlQueueInit
    /\ GitHubInit
    /\ CheckpointInit
    /\ WorkerInit
    /\ HitlApiInit

Next ==
    \/ WorkerNext /\ UNCHANGED call_vars
    \/ HitlApiNext /\ UNCHANGED <<queue_vars, run_vars, checkpoint_vars>>

Spec == Init /\ [][Next]_vars

\* A server finishes the requests it accepted.  Clicking and failing are not
\* fair, and what a worker does is left to EndToEnd.
FairSpec ==
    Spec /\ \A c \in Calls :
                WF_vars(CallStep(c) /\ UNCHANGED <<queue_vars, run_vars, checkpoint_vars>>)

-----------------------------------------------------------------------------
TypeOK ==
    /\ TruthStoreTypeOK
    /\ HitlQueueTypeOK
    /\ GitHubTypeOK
    /\ CheckpointTypeOK
    /\ WorkerTypeOK
    /\ HitlApiTypeOK

-----------------------------------------------------------------------------
(* Safety, whatever fails and whatever runs twice *)

\* A review recorded as posted names a review GitHub really has: the row is
\* written after the answer to the POST, with the id of that answer.
PostedHasReceipt ==
    \A d \in Deliveries :
        status[d] = "posted" => github_review_id[d] \in DOMAIN github[d]

\* A review recorded as waiting for a human is in the queue a human reads: the
\* row is inserted before the status that stops any later run.
WaitingHasRow ==
    \A d \in Deliveries :
        status[d] \in {"needs_human", "escalated"} => hitl_reviews[d] # <<>>

\* A request posts only what it claimed: whoever posted on behalf of a human
\* has a row it resolved itself, so a request that got a 409, and a request
\* that dismissed the review, never reach GitHub.
HumanPostWasClaimed ==
    \A d \in Deliveries : \A i \in DOMAIN github[d] :
        LET c == github[d][i].by IN
        c \in Calls => ReviewOf[c] = d /\ Claimed(d, "resolved", c)

\* Nothing is done without a trace: each automatic post, and each row in the
\* human queue, follows a recorded decision of that kind.
EffectsAreAudited ==
    \A d \in Deliveries :
        /\ (\E i \in DOMAIN github[d] : github[d][i].by \in Jobs)
             => "auto_post" \in decision_events[d]
        /\ hitl_reviews[d] # <<>>
             => decision_events[d] \cap {"queued", "escalated"} # {}

\* Every finding of every posted review has its row in the store, under the
\* unique index, even when earlier runs reported something else.
PostedFindingsAreStored ==
    \A d \in Deliveries : \A i \in DOMAIN github[d] :
        RowKeys(github[d][i].body) \subseteq RowKeys(finding_records[d])

\* Nothing CRITICAL and nothing below the threshold leaves without a human:
\* not after a resume, a rerun with other findings, or a lost checkpoint.
AutoPostPassedTheGate ==
    \A d \in Deliveries : \A i \in DOMAIN github[d] :
        github[d][i].by \in Jobs => decide(github[d][i].body) = "auto_post"

\* A job that reports success has settled its review; the graph cannot end
\* with the review still pending.
DoneMeansDecided ==
    \A j \in Jobs : job_state[j] = "done" => status[DeliveryOf[j]] # "pending"

\* A decided review never becomes pending again, and a GitHub review id once
\* recorded is never dropped.
DecidedStaysDecided ==
    [][\A d \in Deliveries :
        /\ status[d] \notin {"absent", "pending"}
             => status'[d] \notin {"absent", "pending"}
        /\ github_review_id[d] # None => github_review_id'[d] # None]_vars

-----------------------------------------------------------------------------
(* The abstract specification and how the stores show it *)

AutoPosts(deduped) == decide(deduped) = "auto_post"

Phase(d) == IF status[d] \in {"needs_human", "escalated"} THEN "waiting" ELSE status[d]

Lifecycle == INSTANCE ReviewLifecycle WITH
    Workers <- Jobs,
    People <- Calls,
    NoReceipt <- None,
    Bodies <- SUBSET Rows,
    KeysOf <- RowKeys,
    Passes <- AutoPosts,
    phase <- [d \in Deliveries |-> Phase(d)],
    receipt <- github_review_id,
    stored <- [d \in Deliveries |-> RowKeys(finding_records[d])],
    recorded <- decision_events,
    queued <- [d \in Deliveries |-> hitl_reviews[d] # <<>>],
    claims <- [d \in Deliveries |-> {c \in Calls : Claimed(d, "resolved", c)}],
    published <- github

\* Every step of a worker or of the dashboard API, and every fault, is a step
\* of the lifecycle or none: each effect has its warrant and follows the record
\* that justifies it, one store at a time (nodes.py:174-225, api/hitl.py:95-119).
ImplementsLifecycle == Lifecycle!Spec

-----------------------------------------------------------------------------
(* The inductive invariant: what a process at each await may rely on *)

Decided(d) == status[d] \notin {"absent", "pending"}

\* A job finds what it has done so far in the stores, whoever ran in between.
RunInv(j) ==
    LET d == DeliveryOf[j] IN
    /\ pc[j] # "idle" <=> Running(j)
    /\ pc[j] \notin {"idle", "upsert"} => status[d] # "absent"
    /\ job_state[j] = "done" \/ pc[j] = "finish" => Decided(d)
    /\ pc[j] \in {"agg_emit", "agg_post", "agg_mark"}
         => RowKeys(Review(j)) \subseteq RowKeys(finding_records[d])
    /\ pc[j] \in {"agg_post", "agg_mark"}
         => decide(Review(j)) = "auto_post" /\ "auto_post" \in decision_events[d]
    /\ pc[j] \in {"agg_enqueue", "agg_status"}
         => decision_events[d] \cap {"queued", "escalated"} # {}
    /\ pc[j] = "agg_mark" => posted_id[j] \in DOMAIN github[d]
    /\ pc[j] = "agg_status" => hitl_reviews[d] # <<>>

\* A thread's last checkpoint is one of its own, and a finished one belongs to
\* a decided review.
SlotInv ==
    /\ \A d \in Deliveries : latest[d] # None => DeliveryOf[latest[d]] = d
    /\ \A w \in Jobs : slot[w].stage = "finished" => Decided(DeliveryOf[w])

\* A request past its claim still has the row, the findings and the review.
CallInv(c) ==
    LET d == ReviewOf[c] IN
    /\ call[c] \in {"read", "post", "mark", "approved"} => Claimed(d, "resolved", c)
    /\ call[c] \in {"post", "mark"}
         => RowKeys(call_body[c]) \subseteq RowKeys(finding_records[d])
    /\ call[c] = "mark" => call_posted_id[c] \in DOMAIN github[d]

IInv ==
    /\ TypeOK
    /\ \A j \in Jobs : RunInv(j)
    /\ SlotInv
    /\ \A c \in Calls : CallInv(c)
    /\ PostedHasReceipt
    /\ WaitingHasRow
    /\ HumanPostWasClaimed
    /\ EffectsAreAudited
    /\ PostedFindingsAreStored
    /\ AutoPostPassedTheGate

-----------------------------------------------------------------------------
(* Safety of runs that follow each other *)

JobsOf(d) == {j \in Jobs : DeliveryOf[j] = d}
Started(j) == job_try[j] > 0

\* Its worker died under it: arq ran it again, or has it to run again, or Redis
\* had forgotten it by then.
Died(j) == job_try[j] > 1 \/ (Started(j) /\ job_state[j] \in {"queued", "lost"})

\* A job that raises is not run again, nor is one that Redis forgot: a worker that
\* dies is the only way to a second run.
OnlyCrashesRepeat == "crash" \notin Faults => \A j \in Jobs : ~Died(j)

\* No worker died under a job of the delivery, and one job did all the work or
\* each that worked for it came to its end: a job that died or failed may leave
\* an effect whose record the next run misses.
Uninterrupted(d) ==
    /\ \A j \in JobsOf(d) : ~Died(j)
    /\ \A j, k \in JobsOf(d) :
         Started(j) /\ Started(k) /\ job_state[j] = "failed" => k = j

\* What the gate holds back: the deduplicated findings of all specialists of
\* one run, with a CRITICAL among them or too little confidence.
Withheld(body) ==
    /\ decide(body) # "auto_post"
    /\ \E r \in Reports : (\A a \in Specialists : r[a] # Missing) /\ body = Deduped(r)

\* One review of a delivery on GitHub, however often it is delivered.
AtMostOneReview ==
    \A d \in Deliveries : Uninterrupted(d) => Len(github[d]) <= 1

\* One row in the human queue per review.
AtMostOneHitlRow ==
    \A d \in Deliveries : Uninterrupted(d) => Len(hitl_reviews[d]) <= 1

\* A review goes one way: it is posted by the gate or waits for a human.
OneWayThroughTheGate ==
    \A d \in Deliveries :
        /\ Uninterrupted(d)
        /\ \E i \in DOMAIN github[d] : github[d][i].by \in Jobs
        => hitl_reviews[d] = <<>>

\* What a human approves is the review the gate withheld: the findings read
\* back are the deduplicated findings of all specialists of one run, not a
\* part of them and not a mixture of several runs.
ApprovedIsTheReview ==
    \A c \in Calls :
        Uninterrupted(ReviewOf[c]) /\ call[c] \in {"post", "mark", "approved"}
            => Withheld(call_body[c])

\* An approval leaves its mark: the review names the GitHub review the request
\* created, even when a worker that was still between the queue row and the
\* status overwrote "posted" afterwards.
ApprovalIsOnRecord ==
    \A c \in Calls :
        LET d == ReviewOf[c] IN
        Uninterrupted(d) /\ call[c] = "approved" =>
            /\ github_review_id[d] \in DOMAIN github[d]
            /\ github[d][github_review_id[d]].by = c

-----------------------------------------------------------------------------
(* The inductive invariant of runs that follow each other *)

Active(j) == job_state[j] \in {"queued", "running", "detached"}

Solo(d) == \A j, k \in JobsOf(d) : Active(j) /\ Active(k) => j = k

\* A request's own review is on GitHub only once its post was answered.
PostAnswered(c) ==
    LET d == ReviewOf[c] IN
    /\ (\E i \in DOMAIN github[d] : github[d][i].by = c)
         => call[c] \in {"mark", "approved", "failed"}
    /\ call[c] = "mark" => github[d][call_posted_id[c]].by = c

\* Auto-posted at most once and never queued, or queued once, after which only
\* a human posts what the gate withheld.
Course(d) ==
    /\ Len(github[d]) <= 1
    /\ \/ hitl_reviews[d] = <<>>
       \/ /\ Len(hitl_reviews[d]) = 1
          /\ \A i \in DOMAIN github[d] : github[d][i].by \in Calls
          /\ Withheld(finding_records[d])

NothingOut(d) == github[d] = <<>> /\ hitl_reviews[d] = <<>>

\* With nobody at work and nothing failed, either all is done or nothing is.
Rest(d) ==
    (\A j \in JobsOf(d) : pc[j] \in {"idle", "upsert"} /\ ~(Started(j) /\ job_state[j] = "failed"))
        => Decided(d) \/ (NothingOut(d) /\ finding_records[d] = {})

\* How far the job at work has come, and what it has stored by then.
JobTurn(j) ==
    LET d == DeliveryOf[j] IN
    /\ pc[j] \in {"engine", "fan_out", "agg_insert"}
         => NothingOut(d) /\ finding_records[d] = {}
    /\ pc[j] = "agg_insert" => Joined(j)
    /\ pc[j] \in {"agg_emit", "agg_post", "agg_mark", "agg_enqueue"}
         => Joined(j) /\ finding_records[d] = Review(j)
    /\ pc[j] \in {"agg_emit", "agg_post", "agg_enqueue"} => NothingOut(d)
    /\ pc[j] = "agg_mark" => hitl_reviews[d] = <<>>
    /\ pc[j] = "agg_enqueue" => decide(Review(j)) # "auto_post"

CallTurn(c) ==
    LET d == ReviewOf[c] IN
    /\ call[c] \in {"post", "mark", "approved"} => Withheld(call_body[c])
    /\ call[c] = "approved" =>
         /\ github_review_id[d] \in DOMAIN github[d]
         /\ github[d][github_review_id[d]].by = c

Turn(d) ==
    /\ Solo(d)
    /\ \A c \in Calls : ReviewOf[c] = d => PostAnswered(c)
    /\ Uninterrupted(d) =>
         /\ Course(d)
         /\ Rest(d)
         /\ \A j \in JobsOf(d) : JobTurn(j)
         /\ \A c \in Calls : ReviewOf[c] = d => CallTurn(c)

\* Where no reply is lost.  With one try a job that was given up could not be told
\* from one that raised.
RepliesArrive == "lost_reply" \notin Faults /\ MaxTries > 1

\* And where no job overtakes another.
RunsInTurn == RepliesArrive /\ "overlap" \notin Faults

TurnInv ==
    /\ \A j \in Jobs : Running(j) => Started(j)
    /\ \A d \in Deliveries : Turn(d)

-----------------------------------------------------------------------------
(* What the documents claim and the code does not keep *)

\* README.md: approve posts the exact review that would have auto-posted.
ApprovedIsPosted ==
    \A c \in Calls :
        Claimed(ReviewOf[c], "resolved", c) /\ call[c] \notin {"read", "post"}
            => \E i \in DOMAIN github[ReviewOf[c]] : github[ReviewOf[c]][i].by = c

-----------------------------------------------------------------------------
(* Liveness *)

\* A request that claimed a row is answered, although every post goes unanswered.
ClaimsAreAnswered ==
    \A c \in Calls : call[c] = "read" ~> call[c] \in {"approved", "failed"}
=============================================================================
