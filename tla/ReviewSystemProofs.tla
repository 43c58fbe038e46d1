------------------------- MODULE ReviewSystemProofs -------------------------
(***************************************************************************)
(* Proofs about ReviewSystem for any number of deliveries, jobs, requests, *)
(* specialists and reports, and any bound on tries, crashes and retries.   *)
(*                                                                         *)
(* The statements on the stores come first: each keeps the tables typed    *)
(* and takes nothing back that a process may rely on (StoresGrow).  From   *)
(* that, a step of one process leaves what the invariant says of the       *)
(* others alone, and each action is left with its own process to check.    *)
(*                                                                         *)
(* Then what follows: the invariants, the refinement of ReviewLifecycle,   *)
(* and the invariant of runs that follow each other.                       *)
(***************************************************************************)
EXTENDS ReviewSystem, SequenceTheorems, TLAPS

\* What is proved of the gate's operators holds of the same operators here.
Gate == INSTANCE ReviewGateProofs WITH results <- NoWrites, verdict <- "none"

\* insert_findings keeps the whole of a review when the table has none yet.
LEMMA FirstRowsAreTheReview ==
    ASSUME NEW r \in Reports
    PROVE  InsertRows({}, Deduped(r)) = Deduped(r)
<1>1. Gate!Reports = Reports
  BY Zenon DEF Gate!Reports, Reports, Gate!AnyReport, AnyReport, Gate!AnyOutcome, AnyOutcome,
               Gate!Specialists, Specialists
<1>2. Gate!InsertRows({}, Gate!Deduped(r)) = Gate!Deduped(r)
  <2>1. ASSUME NEW S PROVE Gate!IsFiniteSet(S) <=> IsFiniteSet(S)
    BY Zenon DEF Gate!IsFiniteSet, IsFiniteSet
  <2>2. Gate!Specialists = Specialists
    BY Zenon DEF Gate!Specialists, Specialists
  <2> QED BY <1>1, <2>1, <2>2, Gate!RowsKeepTheReview,
             ThresholdAssumption, NamesAssumption, OutcomesAssumption
<1>3. Gate!Deduped(r) = Deduped(r)
  BY Zenon DEF Gate!Deduped, Deduped, Gate!dedup_findings, dedup_findings, Gate!merged, merged,
     Gate!findings_by_agent, findings_by_agent, Gate!Places, Places, Gate!Survivor, Survivor,
     Gate!Winner, Winner, Gate!Group, Group, Gate!Spot, Spot, Gate!Before, Before
<1>4. Gate!InsertRows({}, Deduped(r)) = InsertRows({}, Deduped(r))
  BY Zenon DEF Gate!InsertRows, InsertRows, Gate!RowKeys, RowKeys, Gate!RowKey, RowKey
<1> QED BY <1>2, <1>3, <1>4

\* insert_findings only ever stores findings it was given.
LEMMA InsertRowsBounded ==
    ASSUME NEW rows, NEW deduped
    PROVE  InsertRows(rows, deduped) \subseteq rows \cup deduped
<1> DEFINE fresh == {s \in deduped : RowKey(s) \notin RowKeys(rows)}
<1>1. \A key \in RowKeys(fresh) :
        (CHOOSE s \in fresh : RowKey(s) = key) \in fresh
  BY DEF RowKeys
<1>2. InsertRows(rows, deduped) =
        rows \cup {CHOOSE s \in fresh : RowKey(s) = key : key \in RowKeys(fresh)}
  BY DEF InsertRows
<1>3. fresh \subseteq deduped
  OBVIOUS
<1> HIDE DEF fresh
<1> QED BY <1>1, <1>2, <1>3

\* What it was given is there afterwards, under its key, and so is what was
\* there before.
LEMMA InsertRowsKeeps ==
    ASSUME NEW rows, NEW deduped
    PROVE  /\ RowKeys(rows) \subseteq RowKeys(InsertRows(rows, deduped))
           /\ RowKeys(deduped) \subseteq RowKeys(InsertRows(rows, deduped))
<1> DEFINE fresh == {s \in deduped : RowKey(s) \notin RowKeys(rows)}
           picked == {CHOOSE s \in fresh : RowKey(s) = key : key \in RowKeys(fresh)}
<1>1. InsertRows(rows, deduped) = rows \cup picked
  BY DEF InsertRows
<1>2. \A key \in RowKeys(fresh) : RowKey(CHOOSE s \in fresh : RowKey(s) = key) = key
  BY DEF RowKeys
<1>3. RowKeys(fresh) \subseteq RowKeys(picked)
  <2> SUFFICES ASSUME NEW key \in RowKeys(fresh) PROVE key \in RowKeys(picked)
    OBVIOUS
  <2>1. (CHOOSE s \in fresh : RowKey(s) = key) \in picked
    OBVIOUS
  <2> HIDE DEF picked, fresh
  <2> QED BY <1>2, <2>1 DEF RowKeys
<1>4. RowKeys(deduped) \subseteq RowKeys(rows) \cup RowKeys(fresh)
  BY DEF RowKeys
<1> HIDE DEF picked, fresh
<1> QED BY <1>1, <1>3, <1>4 DEF RowKeys

LEMMA NoWritesTyped == NoWrites \in Reports
<1>1. Missing \in AnyReport
  BY DEF AnyReport
<1>2. NoWrites \in [Specialists -> AnyReport]
  BY <1>1 DEF NoWrites
<1> QED BY <1>2 DEF Reports, NoWrites

\* A specialist's report keeps the results typed.
LEMMA ReportTyped ==
    ASSUME NEW r \in Reports, NEW a \in Specialists,
           NEW v \in Outcomes[a] \cup {Missing}
    PROVE  [r EXCEPT ![a] = v] \in Reports
<1>1. v \in AnyReport
  <2>1. CASE v = Missing
    BY <2>1 DEF AnyReport
  <2>2. CASE v \in Outcomes[a]
    <3>1. v \in AnyOutcome
      BY <2>2, Zenon DEF AnyOutcome
    <3> QED BY <3>1 DEF AnyReport
  <2> QED BY <2>1, <2>2
<1>2. r \in [Specialists -> AnyReport] /\ \A b \in Specialists : r[b] \in Outcomes[b] \cup {Missing}
  BY DEF Reports
<1>3. [r EXCEPT ![a] = v] \in [Specialists -> AnyReport]
  BY <1>1, <1>2
<1>4. \A b \in Specialists : [r EXCEPT ![a] = v][b] \in Outcomes[b] \cup {Missing}
  BY <1>2
<1> QED BY <1>3, <1>4 DEF Reports

LEMMA DedupedTyped == ASSUME NEW r \in Reports PROVE Deduped(r) \subseteq Rows
  BY DEF Rows

LEMMA DecideTyped == ASSUME NEW r PROVE decide(r) \in Decisions
  BY DEF decide, Decisions

-----------------------------------------------------------------------------
(* What one statement does to the stores *)

StoresTypeOK == TruthStoreTypeOK /\ HitlQueueTypeOK /\ GitHubTypeOK

\* No step takes away what a process may have relied on.
StoresGrow ==
    \A d \in Deliveries :
        /\ RowKeys(finding_records[d]) \subseteq RowKeys(finding_records'[d])
        /\ decision_events[d] \subseteq decision_events'[d]
        /\ DOMAIN github[d] \subseteq DOMAIN github'[d]
        /\ \A i \in DOMAIN github[d] : github'[d][i] = github[d][i]
        /\ hitl_reviews[d] # <<>> => hitl_reviews'[d] # <<>>
        /\ \A outcome \in {"resolved", "dismissed"}, c \in Calls :
             Claimed(d, outcome, c) => Claimed(d, outcome, c)'
        /\ status[d] # "absent" => status'[d] # "absent"
        /\ Decided(d) => Decided(d)'
        /\ github_review_id[d] # None => github_review_id'[d] # None

LEMMA UpsertStep ==
    ASSUME StoresTypeOK, NEW d \in Deliveries, upsert_review(d),
           UNCHANGED <<hitl_reviews, github>>
    PROVE  StoresTypeOK' /\ StoresGrow
<1> USE DEF StoresTypeOK, upsert_review
<1>1. TruthStoreTypeOK'
  BY DEF TruthStoreTypeOK, Statuses
<1>2. HitlQueueTypeOK' /\ GitHubTypeOK'
  BY DEF HitlQueueTypeOK, GitHubTypeOK
<1>3. StoresGrow
  BY DEF StoresGrow, Claimed, Decided, TruthStoreTypeOK
<1> QED BY <1>1, <1>2, <1>3

LEMMA InsertStep ==
    ASSUME StoresTypeOK, NEW d \in Deliveries, NEW deduped \in SUBSET Rows,
           insert_findings(d, deduped), UNCHANGED <<hitl_reviews, github>>
    PROVE  /\ StoresTypeOK' /\ StoresGrow
           /\ RowKeys(deduped) \subseteq RowKeys(finding_records'[d])
<1> USE DEF StoresTypeOK, insert_findings
<1>1. finding_records[d] \subseteq Rows
  BY DEF TruthStoreTypeOK
<1>2. finding_records'[d] = InsertRows(finding_records[d], deduped)
  BY DEF TruthStoreTypeOK
<1>3. finding_records'[d] \subseteq Rows
  BY <1>1, <1>2, InsertRowsBounded
<1>4. TruthStoreTypeOK'
  BY <1>2, <1>3 DEF TruthStoreTypeOK
<1>5. HitlQueueTypeOK' /\ GitHubTypeOK'
  BY DEF HitlQueueTypeOK, GitHubTypeOK
<1>6. /\ RowKeys(finding_records[d]) \subseteq RowKeys(finding_records'[d])
      /\ RowKeys(deduped) \subseteq RowKeys(finding_records'[d])
  BY <1>2, InsertRowsKeeps
<1>7. \A e \in Deliveries : RowKeys(finding_records[e]) \subseteq RowKeys(finding_records'[e])
  BY <1>6 DEF TruthStoreTypeOK
<1>8. StoresGrow
  BY <1>7 DEF StoresGrow, Claimed, Decided
<1> QED BY <1>4, <1>5, <1>6, <1>8

LEMMA MarkStep ==
    ASSUME StoresTypeOK, NEW d \in Deliveries, NEW id \in Nat,
           mark_posted(d, id), UNCHANGED <<hitl_reviews, github>>
    PROVE  StoresTypeOK' /\ StoresGrow
<1> USE DEF StoresTypeOK, mark_posted
<1>1. TruthStoreTypeOK'
  BY DEF TruthStoreTypeOK, Statuses
<1>2. HitlQueueTypeOK' /\ GitHubTypeOK'
  BY DEF HitlQueueTypeOK, GitHubTypeOK
<1>3. StoresGrow
  BY DomainAssumption DEF StoresGrow, Claimed, Decided, TruthStoreTypeOK
<1> QED BY <1>1, <1>2, <1>3

LEMMA SetStatusStep ==
    ASSUME StoresTypeOK, NEW d \in Deliveries, NEW new \in {"needs_human", "escalated"},
           set_status(d, new), UNCHANGED <<hitl_reviews, github>>
    PROVE  StoresTypeOK' /\ StoresGrow
<1> USE DEF StoresTypeOK, set_status
<1>1. TruthStoreTypeOK'
  BY DEF TruthStoreTypeOK, Statuses
<1>2. HitlQueueTypeOK' /\ GitHubTypeOK'
  BY DEF HitlQueueTypeOK, GitHubTypeOK
<1>3. StoresGrow
  BY DEF StoresGrow, Claimed, Decided, TruthStoreTypeOK
<1> QED BY <1>1, <1>2, <1>3

LEMMA EmitStep ==
    ASSUME StoresTypeOK, NEW d \in Deliveries, NEW outcome \in Decisions,
           emit_decision(d, outcome), UNCHANGED <<hitl_reviews, github>>
    PROVE  StoresTypeOK' /\ StoresGrow
<1> USE DEF StoresTypeOK, emit_decision
<1>1. TruthStoreTypeOK'
  BY DEF TruthStoreTypeOK
<1>2. HitlQueueTypeOK' /\ GitHubTypeOK'
  BY DEF HitlQueueTypeOK, GitHubTypeOK
<1>3. StoresGrow
  BY DEF StoresGrow, Claimed, Decided, TruthStoreTypeOK
<1> QED BY <1>1, <1>2, <1>3

LEMMA EnqueueStep ==
    ASSUME StoresTypeOK, NEW d \in Deliveries, enqueue(d),
           UNCHANGED <<truth_vars, github>>
    PROVE  StoresTypeOK' /\ StoresGrow /\ hitl_reviews'[d] # <<>>
<1> USE DEF StoresTypeOK, enqueue, truth_vars
<1>1. TruthStoreTypeOK' /\ GitHubTypeOK'
  BY DEF TruthStoreTypeOK, GitHubTypeOK
<1> DEFINE row == [status |-> "pending", by |-> None]
<1>2. /\ hitl_reviews[d] \in Seq(HitlRow) /\ row \in HitlRow
      /\ hitl_reviews'[d] = Append(hitl_reviews[d], row)
      /\ \A e \in Deliveries \ {d} : hitl_reviews'[e] = hitl_reviews[e]
  BY DEF HitlQueueTypeOK, HitlRow, RowStatuses
<1> HIDE DEF row
<1>3. hitl_reviews'[d] \in Seq(HitlRow) /\ hitl_reviews'[d] # <<>>
  BY <1>2
<1>4. HitlQueueTypeOK'
  BY <1>3 DEF HitlQueueTypeOK
<1>5. \A i \in DOMAIN hitl_reviews[d] :
         i \in DOMAIN hitl_reviews'[d] /\ hitl_reviews'[d][i] = hitl_reviews[d][i]
  BY <1>2
<1>6. \A e \in Deliveries : \A o, b : Claimed(e, o, b) => Claimed(e, o, b)'
  BY <1>2, <1>5 DEF Claimed
<1>7. StoresGrow
  BY <1>2, <1>3, <1>6 DEF StoresGrow, Decided
<1> QED BY <1>1, <1>3, <1>4, <1>7

LEMMA ResolveStep ==
    ASSUME StoresTypeOK, NEW d \in Deliveries, NEW outcome \in {"resolved", "dismissed"},
           NEW c \in Calls, resolve(d, outcome, c), UNCHANGED <<truth_vars, github>>
    PROVE  /\ StoresTypeOK' /\ StoresGrow
           /\ HasPending(d) => Claimed(d, outcome, c)'
<1> USE DEF StoresTypeOK, truth_vars
<1>1. TruthStoreTypeOK' /\ GitHubTypeOK'
  BY DEF TruthStoreTypeOK, GitHubTypeOK
<1> DEFINE old == hitl_reviews[d]
           row == [status |-> outcome, by |-> c]
           new == [i \in DOMAIN old |-> IF old[i].status = "pending" THEN row ELSE old[i]]
<1>2. /\ old \in Seq(HitlRow) /\ row \in HitlRow
      /\ hitl_reviews'[d] = new
      /\ \A e \in Deliveries \ {d} : hitl_reviews'[e] = hitl_reviews[e]
      /\ DOMAIN hitl_reviews' = Deliveries
  BY DEF HitlQueueTypeOK, HitlRow, RowStatuses, resolve
<1>3. new \in Seq(HitlRow) /\ DOMAIN new = DOMAIN old
  <2>1. DOMAIN old = 1..Len(old) /\ Len(old) \in Nat /\ \A i \in DOMAIN old : old[i] \in HitlRow
    BY <1>2
  <2>2. new \in [1..Len(old) -> HitlRow]
    BY <1>2, <2>1
  <2> QED BY <2>1, <2>2, SeqDef
<1>4. HitlQueueTypeOK'
  <2> HIDE DEF new
  <2>1. hitl_reviews' = [hitl_reviews EXCEPT ![d] = new]
    BY DEF resolve, new
  <2> QED BY <1>3, <2>1 DEF HitlQueueTypeOK
<1>5. \A e \in Deliveries : \A o \in {"resolved", "dismissed"}, b \in Calls :
         Claimed(e, o, b) => Claimed(e, o, b)'
  <2> SUFFICES ASSUME NEW e \in Deliveries, NEW o \in {"resolved", "dismissed"},
                      NEW b \in Calls, Claimed(e, o, b)
               PROVE  Claimed(e, o, b)'
    OBVIOUS
  <2>1. CASE e # d
    BY <2>1, <1>2 DEF Claimed
  <2>2. CASE e = d
    BY <2>2, <1>2, <1>3 DEF Claimed
  <2> QED BY <2>1, <2>2
<1>6. hitl_reviews[d] # <<>> => hitl_reviews'[d] # <<>>
  BY <1>2, <1>3
<1>7. StoresGrow
  BY <1>2, <1>5, <1>6 DEF StoresGrow, Decided
<1>8. HasPending(d) => Claimed(d, outcome, c)'
  BY <1>2, <1>3 DEF HasPending, IsPending, Claimed
<1> QED BY <1>1, <1>4, <1>7, <1>8
\* The review GitHub accepted is the newest, and the only new one.
LEMMA AcceptStep ==
    ASSUME StoresTypeOK, NEW d \in Deliveries, NEW author \in Jobs \cup Calls,
           NEW body \in SUBSET Rows, AcceptReview(d, author, body),
           UNCHANGED <<truth_vars, hitl_reviews>>
    PROVE  /\ StoresTypeOK' /\ StoresGrow
           /\ NewReviewId(d) \in Nat /\ NewReviewId(d) \in DOMAIN github'[d]
           /\ \A e \in Deliveries : \A i \in DOMAIN github'[e] :
                 \/ i \in DOMAIN github[e]
                 \/ e = d /\ github'[e][i] = [by |-> author, body |-> body]
<1> USE DEF StoresTypeOK, truth_vars
<1>1. TruthStoreTypeOK' /\ HitlQueueTypeOK'
  BY DEF TruthStoreTypeOK, HitlQueueTypeOK
<1> DEFINE entry == [by |-> author, body |-> body]
<1>2. /\ github[d] \in Seq(PostedReview) /\ entry \in PostedReview
      /\ github'[d] = Append(github[d], entry)
      /\ \A e \in Deliveries \ {d} : github'[e] = github[e]
  BY DEF GitHubTypeOK, PostedReview, AcceptReview
<1>3. github' = [github EXCEPT ![d] = Append(github[d], entry)]
  BY DEF AcceptReview
<1> HIDE DEF entry
<1>4. github'[d] \in Seq(PostedReview)
  BY <1>2
<1>5. GitHubTypeOK'
  BY <1>2, <1>3, <1>4 DEF GitHubTypeOK
<1>6. /\ DOMAIN github[d] \subseteq DOMAIN github'[d]
      /\ \A i \in DOMAIN github[d] : github'[d][i] = github[d][i]
  BY <1>2
<1>7. StoresGrow
  BY <1>2, <1>6 DEF StoresGrow, Claimed, Decided
<1>8. NewReviewId(d) \in Nat /\ NewReviewId(d) \in DOMAIN github'[d]
  BY <1>2 DEF NewReviewId
<1>9. \A i \in DOMAIN github'[d] : i \in DOMAIN github[d] \/ github'[d][i] = entry
  BY <1>2
<1> QED BY <1>1, <1>2, <1>5, <1>7, <1>8, <1>9 DEF entry

LEMMA NoStoreStep ==
    ASSUME StoresTypeOK, UNCHANGED <<truth_vars, hitl_reviews, github>>
    PROVE  StoresTypeOK' /\ StoresGrow
  BY DEF StoresTypeOK, TruthStoreTypeOK, HitlQueueTypeOK, GitHubTypeOK, truth_vars,
         StoresGrow, Claimed, Decided

\* A request without an answer leaves GitHub as it was or with one more review.
LEMMA UnansweredStep ==
    ASSUME StoresTypeOK, NEW d \in Deliveries, NEW author \in Jobs \cup Calls,
           NEW body \in SUBSET Rows, PostUnanswered(d, author, body),
           UNCHANGED <<truth_vars, hitl_reviews>>
    PROVE  /\ StoresTypeOK' /\ StoresGrow
           /\ \A e \in Deliveries : \A i \in DOMAIN github'[e] :
                 \/ i \in DOMAIN github[e]
                 \/ e = d /\ github'[e][i] = [by |-> author, body |-> body]
<1>1. CASE UNCHANGED github
  BY <1>1, NoStoreStep
<1>2. CASE AcceptReview(d, author, body)
  BY <1>2, AcceptStep
<1> QED BY <1>1, <1>2 DEF PostUnanswered

-----------------------------------------------------------------------------
(* Type correctness *)

LEMMA LeaveTyped ==
    ASSUME WorkerTypeOK, NEW j \in Jobs, NEW state \in JobStates, Leave(j, state),
           UNCHANGED <<job_try, restarts>>
    PROVE  WorkerTypeOK'
  BY NoWritesTyped, RetryAssumption
  DEF WorkerTypeOK, Leave, Goto, Labels, Stages

LEMMA AputTyped ==
    ASSUME CheckpointTypeOK, NEW j \in Jobs, NEW stage \in Stages, NEW w \in Reports,
           aput(DeliveryOf[j], j, stage, w)
    PROVE  CheckpointTypeOK'
  BY DomainAssumption DEF CheckpointTypeOK, aput

\* The steps of a job between two awaits that only move on.
LEMMA GotoTyped ==
    ASSUME WorkerTypeOK, NEW j \in Jobs, NEW label \in Labels, Goto(j, label),
           UNCHANGED <<queue_vars, results, thread, saved, attempt, posted_id>>
    PROVE  WorkerTypeOK'
  BY DEF WorkerTypeOK, Goto, queue_vars

-----------------------------------------------------------------------------
(* What one statement keeps of the safety invariants on the stores *)

StoreInv ==
    /\ PostedHasReceipt
    /\ WaitingHasRow
    /\ HumanPostWasClaimed
    /\ EffectsAreAudited
    /\ PostedFindingsAreStored
    /\ AutoPostPassedTheGate

LEMMA NoStoreKeeps ==
    ASSUME StoreInv, UNCHANGED <<truth_vars, hitl_reviews, github>>
    PROVE  StoreInv'
  BY DEF StoreInv, truth_vars, PostedHasReceipt, WaitingHasRow, HumanPostWasClaimed,
         EffectsAreAudited, PostedFindingsAreStored, AutoPostPassedTheGate, Claimed

\* A statement on the review row alone.
LEMMA SamePosts ==
    ASSUME StoreInv, UNCHANGED <<hitl_reviews, github, finding_records, decision_events>>
    PROVE  /\ HumanPostWasClaimed' /\ EffectsAreAudited'
           /\ PostedFindingsAreStored' /\ AutoPostPassedTheGate'
<1>1. HumanPostWasClaimed'
  BY DEF StoreInv, HumanPostWasClaimed, Claimed
<1>2. EffectsAreAudited'
  BY DEF StoreInv, EffectsAreAudited
<1>3. PostedFindingsAreStored'
  BY DEF StoreInv, PostedFindingsAreStored
<1>4. AutoPostPassedTheGate'
  BY DEF StoreInv, AutoPostPassedTheGate
<1> QED BY <1>1, <1>2, <1>3, <1>4

LEMMA UpsertKeeps ==
    ASSUME StoresTypeOK, StoreInv, NEW d \in Deliveries, upsert_review(d),
           UNCHANGED <<hitl_reviews, github>>
    PROVE  StoreInv' /\ status'[d] # "absent" /\ (status'[d] # "pending" => Decided(d)')
<1>1. /\ status'[d] # "absent"
      /\ \A e \in Deliveries :
            status'[e] \in {"posted", "needs_human", "escalated"} => status'[e] = status[e]
  BY DEF StoresTypeOK, TruthStoreTypeOK, upsert_review
<1>2. PostedHasReceipt' /\ WaitingHasRow'
  BY <1>1 DEF StoreInv, PostedHasReceipt, WaitingHasRow, upsert_review
<1>3. HumanPostWasClaimed' /\ EffectsAreAudited' /\ PostedFindingsAreStored' /\ AutoPostPassedTheGate'
  BY SamePosts DEF upsert_review
<1> QED BY <1>1, <1>2, <1>3 DEF StoreInv, Decided

LEMMA InsertKeeps ==
    ASSUME StoresTypeOK, StoreInv, StoresGrow, NEW d \in Deliveries, NEW deduped,
           insert_findings(d, deduped), UNCHANGED <<hitl_reviews, github>>
    PROVE  StoreInv'
<1>1. PostedFindingsAreStored'
  BY DEF StoreInv, StoresGrow, PostedFindingsAreStored, StoresTypeOK, GitHubTypeOK
<1>2. /\ PostedHasReceipt' /\ WaitingHasRow' /\ HumanPostWasClaimed'
      /\ EffectsAreAudited' /\ AutoPostPassedTheGate'
  BY DEF StoreInv, insert_findings, PostedHasReceipt, WaitingHasRow, HumanPostWasClaimed,
         EffectsAreAudited, AutoPostPassedTheGate, Claimed
<1> QED BY <1>1, <1>2 DEF StoreInv

LEMMA EmitKeeps ==
    ASSUME StoresTypeOK, StoreInv, NEW d \in Deliveries, NEW outcome,
           emit_decision(d, outcome), UNCHANGED <<hitl_reviews, github>>
    PROVE  StoreInv' /\ outcome \in decision_events'[d]
<1>1. /\ outcome \in decision_events'[d]
      /\ \A e \in Deliveries : decision_events[e] \subseteq decision_events'[e]
  BY DEF StoresTypeOK, TruthStoreTypeOK, emit_decision
<1>2. EffectsAreAudited'
  BY <1>1 DEF StoreInv, EffectsAreAudited
<1>3. /\ PostedHasReceipt' /\ WaitingHasRow' /\ HumanPostWasClaimed'
      /\ PostedFindingsAreStored' /\ AutoPostPassedTheGate'
  BY DEF StoreInv, emit_decision, PostedHasReceipt, WaitingHasRow, HumanPostWasClaimed,
         PostedFindingsAreStored, AutoPostPassedTheGate, Claimed
<1> QED BY <1>1, <1>2, <1>3 DEF StoreInv

\* Marking needs the review to be there.
LEMMA MarkKeeps ==
    ASSUME StoresTypeOK, StoreInv, NEW d \in Deliveries, NEW id \in DOMAIN github[d],
           mark_posted(d, id), UNCHANGED <<hitl_reviews, github>>
    PROVE  StoreInv' /\ Decided(d)'
<1>1. /\ status'[d] = "posted" /\ github_review_id'[d] = id
      /\ \A e \in Deliveries \ {d} :
            status'[e] = status[e] /\ github_review_id'[e] = github_review_id[e]
  BY DEF StoresTypeOK, TruthStoreTypeOK, mark_posted
<1>2. PostedHasReceipt' /\ WaitingHasRow'
  BY <1>1 DEF StoreInv, PostedHasReceipt, WaitingHasRow
<1>3. HumanPostWasClaimed' /\ EffectsAreAudited' /\ PostedFindingsAreStored' /\ AutoPostPassedTheGate'
  BY SamePosts DEF mark_posted
<1> QED BY <1>1, <1>2, <1>3 DEF StoreInv, Decided

\* Setting a waiting status needs the row to be there.
LEMMA SetStatusKeeps ==
    ASSUME StoresTypeOK, StoreInv, NEW d \in Deliveries, hitl_reviews[d] # <<>>,
           NEW new \in {"needs_human", "escalated"}, set_status(d, new),
           UNCHANGED <<hitl_reviews, github>>
    PROVE  StoreInv' /\ Decided(d)'
<1>1. /\ status'[d] = new
      /\ \A e \in Deliveries \ {d} : status'[e] = status[e]
  BY DEF StoresTypeOK, TruthStoreTypeOK, set_status
<1>2. PostedHasReceipt' /\ WaitingHasRow'
  BY <1>1 DEF StoreInv, PostedHasReceipt, WaitingHasRow, set_status
<1>3. HumanPostWasClaimed' /\ EffectsAreAudited' /\ PostedFindingsAreStored' /\ AutoPostPassedTheGate'
  BY SamePosts DEF set_status
<1> QED BY <1>1, <1>2, <1>3 DEF StoreInv, Decided

\* Queueing needs the decision to be recorded.
LEMMA EnqueueKeeps ==
    ASSUME StoresTypeOK, StoreInv, StoresGrow, NEW d \in Deliveries,
           decision_events[d] \cap {"queued", "escalated"} # {},
           enqueue(d), UNCHANGED <<truth_vars, github>>
    PROVE  StoreInv'
<1> USE DEF truth_vars
<1>1. \A e \in Deliveries \ {d} : hitl_reviews'[e] = hitl_reviews[e]
  BY DEF StoresTypeOK, HitlQueueTypeOK, enqueue
<1>2. WaitingHasRow' /\ HumanPostWasClaimed'
  BY DEF StoreInv, StoresGrow, WaitingHasRow, HumanPostWasClaimed
<1>3. EffectsAreAudited'
  BY <1>1 DEF StoreInv, EffectsAreAudited
<1>4. PostedHasReceipt' /\ PostedFindingsAreStored' /\ AutoPostPassedTheGate'
  BY DEF StoreInv, PostedHasReceipt, PostedFindingsAreStored, AutoPostPassedTheGate
<1> QED BY <1>2, <1>3, <1>4 DEF StoreInv

LEMMA ResolveKeeps ==
    ASSUME StoresTypeOK, StoreInv, StoresGrow, NEW d \in Deliveries, NEW outcome, NEW c,
           resolve(d, outcome, c), UNCHANGED <<truth_vars, github>>
    PROVE  StoreInv'
<1> USE DEF truth_vars
<1>1. \A e \in Deliveries : hitl_reviews[e] = <<>> => hitl_reviews'[e] = <<>>
  <2> SUFFICES ASSUME NEW e \in Deliveries, hitl_reviews[e] = <<>>
               PROVE  hitl_reviews'[e] = <<>>
    OBVIOUS
  <2>1. CASE e # d
    BY <2>1 DEF StoresTypeOK, HitlQueueTypeOK, resolve
  <2>2. CASE e = d
    <3>1. hitl_reviews'[e] = [i \in {} |-> hitl_reviews'[e][i]]
      BY <2>2 DEF StoresTypeOK, HitlQueueTypeOK, resolve
    <3> QED BY <3>1
  <2> QED BY <2>1, <2>2
<1>2. WaitingHasRow' /\ HumanPostWasClaimed'
  BY DEF StoreInv, StoresGrow, WaitingHasRow, HumanPostWasClaimed
<1>3. EffectsAreAudited'
  BY <1>1 DEF StoreInv, EffectsAreAudited
<1>4. PostedHasReceipt' /\ PostedFindingsAreStored' /\ AutoPostPassedTheGate'
  BY DEF StoreInv, PostedHasReceipt, PostedFindingsAreStored, AutoPostPassedTheGate
<1> QED BY <1>2, <1>3, <1>4 DEF StoreInv

\* A review may be added by a job whose gate said so, or by a request with a
\* claim, and only with findings that are stored.
MayPost(d, author, body) ==
    /\ RowKeys(body) \subseteq RowKeys(finding_records[d])
    /\ author \in Jobs => decide(body) = "auto_post" /\ "auto_post" \in decision_events[d]
    /\ author \in Calls => ReviewOf[author] = d /\ Claimed(d, "resolved", author)

LEMMA PostKeeps ==
    ASSUME StoreInv, StoresGrow, NEW d \in Deliveries, NEW author \in Jobs \cup Calls,
           NEW body, MayPost(d, author, body), UNCHANGED <<truth_vars, hitl_reviews>>,
           \A e \in Deliveries : \A i \in DOMAIN github'[e] :
                 \/ i \in DOMAIN github[e]
                 \/ e = d /\ github'[e][i] = [by |-> author, body |-> body]
    PROVE  StoreInv'
<1> USE DEF truth_vars
<1> DEFINE entry == [by |-> author, body |-> body]
<1>0. entry.by = author /\ entry.body = body
  OBVIOUS
<1>1. \A e \in Deliveries : \A i \in DOMAIN github'[e] :
         \/ i \in DOMAIN github[e] /\ github'[e][i] = github[e][i]
         \/ e = d /\ github'[e][i] = entry
  BY DEF StoresGrow
<1> HIDE DEF entry
<1>2. PostedHasReceipt' /\ WaitingHasRow'
  BY DEF StoreInv, StoresGrow, PostedHasReceipt, WaitingHasRow
<1>3. HumanPostWasClaimed'
  BY <1>0, <1>1 DEF StoreInv, HumanPostWasClaimed, MayPost, Claimed
<1>4. EffectsAreAudited'
  BY <1>0, <1>1 DEF StoreInv, EffectsAreAudited, MayPost
<1>5. PostedFindingsAreStored'
  BY <1>0, <1>1 DEF StoreInv, PostedFindingsAreStored, MayPost
<1>6. AutoPostPassedTheGate'
  BY <1>0, <1>1 DEF StoreInv, AutoPostPassedTheGate, MayPost
<1> QED BY <1>2, <1>3, <1>4, <1>5, <1>6 DEF StoreInv


-----------------------------------------------------------------------------
(* The processes a step leaves alone *)

\* A step that is not job k's: what the invariant says of k is untouched.
SameRun(k) ==
    /\ job_state'[k] = job_state[k] /\ pc'[k] = pc[k]
    /\ results'[k] = results[k] /\ posted_id'[k] = posted_id[k]

LEMMA RunUndisturbed ==
    ASSUME StoresGrow, NEW k \in Jobs, RunInv(k), SameRun(k)
    PROVE  RunInv(k)'
<1> DEFINE d == DeliveryOf[k]
<1>1. d \in Deliveries
  BY DomainAssumption
<1>2. Running(k)' = Running(k) /\ Review(k)' = Review(k)
  BY DEF Running, Review, SameRun
<1>3. /\ RowKeys(finding_records[d]) \subseteq RowKeys(finding_records'[d])
      /\ decision_events[d] \subseteq decision_events'[d]
      /\ DOMAIN github[d] \subseteq DOMAIN github'[d]
      /\ hitl_reviews[d] # <<>> => hitl_reviews'[d] # <<>>
      /\ status[d] # "absent" => status'[d] # "absent"
      /\ Decided(d) => Decided(d)'
  BY <1>1 DEF StoresGrow
<1> QED BY <1>2, <1>3 DEF RunInv, SameRun

\* A run past its upsert has a row, and keeps it.
LEMMA RowStays ==
    ASSUME StoresGrow, NEW j \in Jobs, RunInv(j), pc[j] \notin {"idle", "upsert"}
    PROVE  status'[DeliveryOf[j]] # "absent"
  BY DomainAssumption DEF StoresGrow, RunInv

LEMMA CallUndisturbed ==
    ASSUME StoresGrow, NEW c \in Calls, CallInv(c), call'[c] = call[c],
           call_body'[c] = call_body[c], call_posted_id'[c] = call_posted_id[c]
    PROVE  CallInv(c)'
<1> DEFINE d == ReviewOf[c]
<1>1. d \in Deliveries
  BY DomainAssumption
<1>2. /\ RowKeys(finding_records[d]) \subseteq RowKeys(finding_records'[d])
      /\ DOMAIN github[d] \subseteq DOMAIN github'[d]
      /\ Claimed(d, "resolved", c) => Claimed(d, "resolved", c)'
  BY <1>1 DEF StoresGrow
<1> QED BY <1>2 DEF CallInv

LEMMA SlotUndisturbed ==
    ASSUME StoresGrow, SlotInv, UNCHANGED checkpoint_vars
    PROVE  SlotInv'
<1>1. \A w \in Jobs : Decided(DeliveryOf[w]) => Decided(DeliveryOf[w])'
  BY DomainAssumption DEF StoresGrow
<1> QED BY <1>1 DEF SlotInv, checkpoint_vars

\* A new checkpoint belongs to its thread, and a finished one is of a decided
\* review.
LEMMA AputKeeps ==
    ASSUME StoresGrow, SlotInv, CheckpointTypeOK, NEW j \in Jobs, NEW stage, NEW w,
           aput(DeliveryOf[j], j, stage, w),
           stage = "finished" => Decided(DeliveryOf[j])'
    PROVE  SlotInv'
<1>1. \A v \in Jobs : Decided(DeliveryOf[v]) => Decided(DeliveryOf[v])'
  BY DomainAssumption DEF StoresGrow
<1> QED BY <1>1, DomainAssumption DEF SlotInv, aput, CheckpointTypeOK

\* A job that leaves has nothing left to rely on, unless it reports success.
LEMMA LeaveKeeps ==
    ASSUME WorkerTypeOK, NEW j \in Jobs, NEW state \in JobStates \ {"running", "detached"},
           Leave(j, state), state = "done" => Decided(DeliveryOf[j])'
    PROVE  RunInv(j)' /\ \A k \in Jobs \ {j} : SameRun(k)
  BY DEF Leave, Goto, RunInv, Running, SameRun, WorkerTypeOK

\* A job step that keeps its own part of the invariant keeps all of it.
LEMMA JobFrame ==
    ASSUME IInv, NEW j \in Jobs, StoresTypeOK', CheckpointTypeOK', WorkerTypeOK',
           StoresGrow, StoreInv', RunInv(j)', SlotInv',
           \A k \in Jobs \ {j} : SameRun(k), UNCHANGED call_vars
    PROVE  IInv'
<1>1. TypeOK'
  BY DEF IInv, TypeOK, StoresTypeOK, HitlApiTypeOK, call_vars
<1>2. ASSUME NEW k \in Jobs PROVE RunInv(k)'
  BY RunUndisturbed DEF IInv
<1>3. ASSUME NEW c \in Calls PROVE CallInv(c)'
  BY CallUndisturbed DEF IInv, call_vars
<1> QED BY <1>1, <1>2, <1>3 DEF IInv, StoreInv

\* The same for the steps of a job on its way, which only move it on.
LEMMA GotoFrame ==
    ASSUME IInv, NEW j \in Jobs, NEW label \in Labels, Goto(j, label),
           UNCHANGED <<queue_vars, results, thread, saved, attempt, posted_id>>,
           StoresTypeOK', StoresGrow, StoreInv', RunInv(j)',
           UNCHANGED <<checkpoint_vars, call_vars>>
    PROVE  IInv'
<1>1. WorkerTypeOK' /\ \A k \in Jobs \ {j} : SameRun(k)
  BY GotoTyped DEF IInv, TypeOK, WorkerTypeOK, Goto, SameRun, queue_vars
<1>2. CheckpointTypeOK' /\ SlotInv'
  BY SlotUndisturbed DEF IInv, TypeOK, CheckpointTypeOK, checkpoint_vars
<1> QED BY <1>1, <1>2, JobFrame

-----------------------------------------------------------------------------
(* The steps of a job *)

LEMMA UpsertReviewStep ==
    ASSUME IInv, NEW j \in Jobs, UpsertReview(j), UNCHANGED call_vars
    PROVE  IInv' /\ StoresGrow
<1> DEFINE d == DeliveryOf[j]
<1>0. d \in Deliveries /\ StoresTypeOK /\ StoreInv /\ WorkerTypeOK
  BY DomainAssumption DEF IInv, TypeOK, StoresTypeOK, StoreInv
<1>1. upsert_review(d) /\ UNCHANGED <<job_try, restarts, hitl_reviews, github, checkpoint_vars>>
  BY DEF UpsertReview
<1>2. StoresTypeOK' /\ StoresGrow
  BY <1>0, <1>1, UpsertStep
<1>3. StoreInv' /\ (status'[d] # "pending" => Decided(d)')
  BY <1>0, <1>1, UpsertKeeps
<1>4. CheckpointTypeOK' /\ SlotInv'
  BY <1>1, <1>2, SlotUndisturbed DEF IInv, TypeOK, CheckpointTypeOK, checkpoint_vars
<1>5. CASE status'[d] # "pending"
  <2>1. Leave(j, "done")
    BY <1>5 DEF UpsertReview, AlreadyDecided
  <2>2. WorkerTypeOK'
    BY <1>0, <1>1, <2>1, LeaveTyped DEF JobStates
  <2>3. RunInv(j)' /\ \A k \in Jobs \ {j} : SameRun(k)
    BY <1>0, <1>3, <1>5, <2>1, LeaveKeeps DEF JobStates
  <2> QED BY <1>2, <1>3, <1>4, <2>2, <2>3, JobFrame
<1>6. CASE status'[d] = "pending"
  <2>1. /\ Goto(j, "engine")
        /\ UNCHANGED <<queue_vars, results, thread, saved, attempt, posted_id>>
    BY <1>1, <1>6 DEF UpsertReview, AlreadyDecided, queue_vars
  <2>2. RunInv(j)'
    BY <1>0, <1>3, <1>6, <2>1 DEF UpsertReview, At, IInv, RunInv, Running, Goto, WorkerTypeOK, queue_vars
  <2>3. "engine" \in Labels
    BY DEF Labels
  <2> QED BY <1>1, <1>2, <1>3, <2>1, <2>2, <2>3, GotoFrame
<1> QED BY <1>2, <1>5, <1>6


\* A step that touches no table and posts nothing.
LEMMA QuietStep ==
    ASSUME IInv, UNCHANGED <<truth_vars, hitl_reviews, github>>
    PROVE  StoresTypeOK' /\ StoresGrow /\ StoreInv'
  BY NoStoreStep, NoStoreKeeps DEF IInv, TypeOK, StoresTypeOK, StoreInv

\* The arq steps that only change the job's place in the queue.
LEMMA QueueStep ==
    ASSUME IInv, NEW j \in Jobs, EnqueueReview(j) \/ StartJob(j) \/ GiveUp(j),
           UNCHANGED call_vars
    PROVE  IInv' /\ StoresGrow
<1>1. UNCHANGED store_vars
  BY DEF EnqueueReview, StartJob, GiveUp
<1>2. StoresTypeOK' /\ StoresGrow /\ StoreInv'
  BY <1>1, QuietStep DEF store_vars
<1>3. CheckpointTypeOK' /\ SlotInv'
  BY <1>1, <1>2, SlotUndisturbed
  DEF store_vars, IInv, TypeOK, CheckpointTypeOK, checkpoint_vars
<1>4. WorkerTypeOK /\ RunInv(j)
  BY DEF IInv, TypeOK
<1>5. WorkerTypeOK' /\ RunInv(j)' /\ \A k \in Jobs \ {j} : SameRun(k)
  <2>1. CASE EnqueueReview(j)
    BY <1>4, <2>1 DEF EnqueueReview, WorkerTypeOK, JobStates, SameRun, RunInv, Running, run_vars
  <2>2. CASE StartJob(j)
    BY <1>4, <2>2, WorkerAssumption
    DEF StartJob, Goto, WorkerTypeOK, JobStates, Labels, SameRun, RunInv, Running
  <2>3. CASE GiveUp(j)
    BY <1>4, <2>3 DEF GiveUp, WorkerTypeOK, JobStates, SameRun, RunInv, Running, run_vars
  <2> QED BY <2>1, <2>2, <2>3
<1> QED BY <1>2, <1>3, <1>5, JobFrame

LEMMA StopStep ==
    ASSUME IInv, NEW j \in Jobs, WorkerDies(j) \/ JobFails(j), UNCHANGED call_vars
    PROVE  IInv' /\ StoresGrow
<1>1. UNCHANGED <<job_try, restarts, store_vars>>
  BY DEF WorkerDies, JobFails
<1>2. StoresTypeOK' /\ StoresGrow /\ StoreInv'
  BY <1>1, QuietStep DEF store_vars
<1>3. CheckpointTypeOK' /\ SlotInv'
  BY <1>1, <1>2, SlotUndisturbed
  DEF store_vars, IInv, TypeOK, CheckpointTypeOK, checkpoint_vars
<1>4. PICK state \in {"queued", "lost", "failed"} : Leave(j, state)
  BY DEF WorkerDies, JobFails, AfterException
<1>5. WorkerTypeOK' /\ RunInv(j)' /\ \A k \in Jobs \ {j} : SameRun(k)
  BY <1>1, <1>4, LeaveTyped, LeaveKeeps DEF IInv, TypeOK, JobStates
<1> QED BY <1>2, <1>3, <1>5, JobFrame

LEMMA RedisRestartStep ==
    ASSUME IInv, RedisRestart, UNCHANGED call_vars
    PROVE  IInv' /\ StoresGrow
<1> USE DEF RedisRestart
<1>1. StoresTypeOK' /\ StoresGrow /\ StoreInv'
  BY QuietStep
<1>2. WorkerTypeOK /\ CheckpointTypeOK /\ (\A j \in Jobs : RunInv(j)) /\ \A c \in Calls : CallInv(c)
  BY DEF IInv, TypeOK
<1>3. CheckpointTypeOK' /\ SlotInv'
  BY NoWritesTyped DEF CheckpointTypeOK, SlotInv, ForgetCheckpoints, EmptySlot, Stages
<1>4. WorkerTypeOK'
  BY <1>2, WorkerAssumption DEF WorkerTypeOK, JobStates
<1>5. \A j \in Jobs : /\ Running(j)' <=> Running(j)
                      /\ job_state'[j] = "done" <=> job_state[j] = "done"
  BY <1>2 DEF WorkerTypeOK, Running
<1>6. ASSUME NEW j \in Jobs PROVE RunInv(j)'
  BY <1>1, <1>2, <1>5, DomainAssumption DEF RunInv, StoresGrow, Review, truth_vars
<1>7. \A c \in Calls : CallInv(c)'
  BY <1>1, <1>2, CallUndisturbed DEF call_vars
<1>8. HitlApiTypeOK'
  BY DEF IInv, TypeOK, HitlApiTypeOK, call_vars
<1> QED BY <1>1, <1>3, <1>4, <1>6, <1>7, <1>8 DEF IInv, TypeOK, StoresTypeOK, StoreInv

LEMMA EngineRunStep ==
    ASSUME IInv, NEW j \in Jobs, EngineRun(j), UNCHANGED call_vars
    PROVE  IInv' /\ StoresGrow
<1> DEFINE last == latest[DeliveryOf[j]]
<1>1. UNCHANGED <<job_try, restarts, store_vars>>
  BY DEF EngineRun
<1>2. StoresTypeOK' /\ StoresGrow /\ StoreInv'
  BY <1>1, QuietStep DEF store_vars
<1>3. CheckpointTypeOK' /\ SlotInv'
  BY <1>1, <1>2, SlotUndisturbed
  DEF store_vars, IInv, TypeOK, CheckpointTypeOK, checkpoint_vars
<1>4. WorkerTypeOK /\ CheckpointTypeOK /\ SlotInv /\ RunInv(j) /\ DeliveryOf[j] \in Deliveries
  BY DomainAssumption DEF IInv, TypeOK
<1>5. last # None => last \in Jobs /\ slot[last].stage \in Stages /\ slot[last].writes \in Reports
  BY <1>4 DEF CheckpointTypeOK
<1>6. CASE Leave(j, "done") /\ last # None /\ slot[last].stage = "finished"
  <2>1. Decided(DeliveryOf[j])
    BY <1>4, <1>5, <1>6 DEF SlotInv
  <2>2. Decided(DeliveryOf[j])'
    BY <1>2, <1>4, <2>1 DEF StoresGrow
  <2>3. WorkerTypeOK' /\ RunInv(j)' /\ \A k \in Jobs \ {j} : SameRun(k)
    BY <1>1, <1>4, <1>6, <2>2, LeaveTyped, LeaveKeeps DEF JobStates
  <2> QED BY <1>2, <1>3, <2>3, JobFrame
<1>7. CASE /\ Goto(j, "fan_out") /\ At(j, "engine")
           /\ thread' = [thread EXCEPT ![j] = j]
           /\ UNCHANGED <<job_state, results, saved, attempt, posted_id>>
  <2>1. WorkerTypeOK' /\ RunInv(j)' /\ \A k \in Jobs \ {j} : SameRun(k)
    BY <1>1, <1>2, <1>4, <1>7, RowStays
    DEF WorkerTypeOK, RunInv, Running, SameRun, Goto, At, Labels
  <2> QED BY <1>2, <1>3, <2>1, JobFrame
<1>8. CASE /\ Goto(j, "fan_out") /\ At(j, "engine") /\ last # None
           /\ thread' = [thread EXCEPT ![j] = last]
           /\ saved' = [saved EXCEPT ![j] = slot[last].stage]
           /\ results' = [results EXCEPT ![j] = slot[last].writes]
           /\ UNCHANGED <<job_state, attempt, posted_id>>
  <2> HIDE DEF last
  <2>1. WorkerTypeOK' /\ RunInv(j)' /\ \A k \in Jobs \ {j} : SameRun(k)
    BY <1>1, <1>2, <1>4, <1>5, <1>8, RowStays
    DEF WorkerTypeOK, RunInv, Running, SameRun, Goto, At, Labels
  <2> QED BY <1>2, <1>3, <2>1, JobFrame
<1> QED BY <1>2, <1>6, <1>7, <1>8 DEF EngineRun, HasCheckpoint, GraphEnded, aget_tuple

LEMMA SpecialistStep ==
    ASSUME IInv, NEW j \in Jobs, NEW a \in Specialists, Specialist(j, a), UNCHANGED call_vars
    PROVE  IInv' /\ StoresGrow
<1>1. UNCHANGED <<queue_vars, pc, thread, saved, attempt, posted_id, store_vars>>
  BY DEF Specialist
<1>2. StoresTypeOK' /\ StoresGrow /\ StoreInv'
  BY <1>1, QuietStep DEF store_vars
<1>3. CheckpointTypeOK' /\ SlotInv'
  BY <1>1, <1>2, SlotUndisturbed
  DEF store_vars, IInv, TypeOK, CheckpointTypeOK, checkpoint_vars
<1>4. WorkerTypeOK /\ RunInv(j) /\ At(j, "fan_out")
  BY DEF IInv, TypeOK, Specialist
<1>5. PICK v \in Outcomes[a] : results' = [results EXCEPT ![j][a] = v]
  BY DEF Specialist
<1>6. /\ results' = [results EXCEPT ![j] = [results[j] EXCEPT ![a] = v]]
      /\ [results[j] EXCEPT ![a] = v] \in Reports
  BY <1>4, <1>5, ReportTyped DEF WorkerTypeOK
<1>7. WorkerTypeOK'
  BY <1>1, <1>4, <1>6 DEF WorkerTypeOK, queue_vars
<1>8. \A k \in Jobs \ {j} : SameRun(k)
  BY <1>1, <1>4, <1>6 DEF WorkerTypeOK, SameRun, queue_vars
<1>9. RunInv(j)'
  BY <1>1, <1>2, <1>4, RowStays DEF RunInv, Running, At, queue_vars
<1> QED BY <1>2, <1>3, <1>7, <1>8, <1>9, JobFrame

\* A background save changes the run's bookkeeping and the checkpoints only.
LEMMA SaveStep ==
    ASSUME IInv, NEW j \in Jobs, BackgroundSave(j), UNCHANGED call_vars
    PROVE  IInv' /\ StoresGrow
<1>1. UNCHANGED <<queue_vars, pc, results, thread, attempt, posted_id,
                  truth_vars, hitl_reviews, github>>
  BY DEF BackgroundSave, SaveStart, SaveJoin, SaveWrites, run_vars
<1>2. StoresTypeOK' /\ StoresGrow /\ StoreInv'
  BY <1>1, QuietStep
<1>3. WorkerTypeOK /\ CheckpointTypeOK /\ SlotInv /\ RunInv(j)
  BY DEF IInv, TypeOK
<1>4. \A k \in Jobs : SameRun(k)
  BY <1>1 DEF SameRun, queue_vars
<1>5. RunInv(j)'
  BY <1>2, <1>3, <1>4, RunUndisturbed
<1>6. WorkerTypeOK' /\ CheckpointTypeOK' /\ SlotInv'
  <2>1. CASE SaveStart(j)
    <3>1. aput(DeliveryOf[j], j, "fan_out", NoWrites) /\ saved' = [saved EXCEPT ![j] = "fan_out"]
      BY <2>1 DEF SaveStart
    <3>2. CheckpointTypeOK'
      BY <1>3, <3>1, NoWritesTyped, AputTyped DEF Stages
    <3>3. SlotInv'
      BY <1>2, <1>3, <3>1, AputKeeps
    <3>4. WorkerTypeOK'
      BY <1>1, <1>3, <3>1 DEF WorkerTypeOK, Stages, queue_vars
    <3> QED BY <3>2, <3>3, <3>4
  <2>2. CASE SaveJoin(j)
    <3>1. /\ aput(DeliveryOf[j], j, "joined", results[j])
          /\ saved' = [saved EXCEPT ![j] = "joined"]
      BY <2>2 DEF SaveJoin
    <3>2. CheckpointTypeOK'
      <4>1. results[j] \in Reports /\ "joined" \in Stages
        BY <1>3 DEF WorkerTypeOK, Stages
      <4> QED BY <1>3, <3>1, <4>1, AputTyped
    <3>3. SlotInv'
      BY <1>2, <1>3, <3>1, AputKeeps
    <3>4. WorkerTypeOK'
      BY <1>1, <1>3, <3>1 DEF WorkerTypeOK, Stages, queue_vars
    <3> QED BY <3>2, <3>3, <3>4
  <2>3. ASSUME NEW a \in Specialists, SaveWrites(j, a)
        PROVE  WorkerTypeOK' /\ CheckpointTypeOK' /\ SlotInv'
    <3> DEFINE t == thread[j]
    <3>1. t \in Jobs /\ UNCHANGED <<queue_vars, run_vars>>
      BY <1>3, <2>3 DEF SaveWrites, WorkerTypeOK
    <3>2. /\ results[j] \in Reports /\ results[j][a] \in Outcomes[a] \cup {Missing}
          /\ slot[t] \in [stage : Stages, writes : Reports]
          /\ slot[t].writes[a] \in Outcomes[a] \cup {Missing}
      BY <1>3, <3>1 DEF WorkerTypeOK, CheckpointTypeOK, Reports
    <3>3. PICK v \in Outcomes[a] \cup {Missing} :
             slot' = [slot EXCEPT ![t].writes[a] = v] /\ UNCHANGED latest
      BY <2>3, <3>2 DEF SaveWrites, aput_writes
    <3> DEFINE new == [slot[t].writes EXCEPT ![a] = v]
    <3>4. slot' = [slot EXCEPT ![t] = [slot[t] EXCEPT !.writes = new]]
      BY <1>3, <3>1, <3>2, <3>3 DEF CheckpointTypeOK
    <3>5. new \in Reports
      BY <3>2, <3>3, ReportTyped
    <3> HIDE DEF new, t
    <3>6. CheckpointTypeOK' /\ \A w \in Jobs : slot'[w].stage = slot[w].stage
      BY <1>3, <3>1, <3>2, <3>3, <3>4, <3>5 DEF CheckpointTypeOK
    <3>7. \A w \in Jobs : Decided(DeliveryOf[w]) => Decided(DeliveryOf[w])'
      BY <1>2, DomainAssumption DEF StoresGrow
    <3>8. SlotInv'
      BY <1>3, <3>3, <3>6, <3>7 DEF SlotInv
    <3>9. WorkerTypeOK'
      BY <1>3, <3>1 DEF WorkerTypeOK, queue_vars, run_vars
    <3> QED BY <3>6, <3>8, <3>9
  <2> QED BY <2>1, <2>2, <2>3 DEF BackgroundSave
<1> QED BY <1>2, <1>4, <1>5, <1>6, JobFrame


\* What every step of a job may take from the invariant.
LEMMA JobFacts ==
    ASSUME IInv, NEW j \in Jobs
    PROVE  /\ StoresTypeOK /\ StoreInv /\ WorkerTypeOK /\ CheckpointTypeOK
           /\ SlotInv /\ RunInv(j) /\ DeliveryOf[j] \in Deliveries
           /\ results[j] \in Reports /\ Review(j) \in SUBSET Rows
           /\ decide(Review(j)) \in Decisions
<1>1. /\ StoresTypeOK /\ StoreInv /\ WorkerTypeOK /\ CheckpointTypeOK
      /\ SlotInv /\ RunInv(j) /\ DeliveryOf[j] \in Deliveries
  BY DomainAssumption DEF IInv, TypeOK, StoresTypeOK, StoreInv
<1>2. results[j] \in Reports
  BY <1>1 DEF WorkerTypeOK
<1>3. Review(j) \in SUBSET Rows
  BY <1>2, DedupedTyped DEF Review
<1>4. decide(Review(j)) \in Decisions
  BY DecideTyped
<1> QED BY <1>1, <1>2, <1>3, <1>4

LEMMA AggUpsertStep ==
    ASSUME IInv, NEW j \in Jobs, AggUpsert(j), UNCHANGED call_vars
    PROVE  IInv' /\ StoresGrow
<1> DEFINE d == DeliveryOf[j]
           label == IF status'[d] # "pending" THEN "finish" ELSE "agg_insert"
<1>1. /\ upsert_review(d) /\ Goto(j, label) /\ At(j, "fan_out")
      /\ UNCHANGED <<queue_vars, results, thread, saved, attempt, posted_id,
                     hitl_reviews, github, checkpoint_vars>>
  BY DEF AggUpsert, AlreadyDecided
<1>2. StoresTypeOK' /\ StoresGrow
  BY <1>1, JobFacts, UpsertStep
<1>3. StoreInv' /\ status'[d] # "absent" /\ (status'[d] # "pending" => Decided(d)')
  BY <1>1, JobFacts, UpsertKeeps
<1>4. RunInv(j)'
  BY <1>1, <1>3, JobFacts DEF At, RunInv, Running, Goto, WorkerTypeOK, queue_vars
<1>5. label \in Labels
  BY DEF Labels
<1> HIDE DEF label
<1> QED BY <1>1, <1>2, <1>3, <1>4, <1>5, GotoFrame

LEMMA AggInsertStep ==
    ASSUME IInv, NEW j \in Jobs, AggInsert(j), UNCHANGED call_vars
    PROVE  IInv' /\ StoresGrow
<1> DEFINE d == DeliveryOf[j]
<1>1. /\ insert_findings(d, Review(j)) /\ Goto(j, "agg_emit") /\ At(j, "agg_insert")
      /\ UNCHANGED <<queue_vars, results, thread, saved, attempt, posted_id,
                     hitl_reviews, github, checkpoint_vars>>
  BY DEF AggInsert
<1>2. /\ StoresTypeOK' /\ StoresGrow
      /\ RowKeys(Review(j)) \subseteq RowKeys(finding_records'[d])
  BY <1>1, JobFacts, InsertStep
<1>3. StoreInv'
  BY <1>1, <1>2, JobFacts, InsertKeeps
<1>4. RunInv(j)'
  <2>1. Review(j)' = Review(j)
    BY <1>1 DEF Review
  <2> QED BY <1>1, <1>2, <2>1, JobFacts, RowStays
          DEF At, RunInv, Running, Goto, WorkerTypeOK, queue_vars
<1>5. "agg_emit" \in Labels
  BY DEF Labels
<1> QED BY <1>1, <1>2, <1>3, <1>4, <1>5, GotoFrame

LEMMA AggEmitStep ==
    ASSUME IInv, NEW j \in Jobs, AggEmit(j), UNCHANGED call_vars
    PROVE  IInv' /\ StoresGrow
<1> DEFINE d == DeliveryOf[j]
           outcome == decide(Review(j))
           label == IF outcome = "auto_post" THEN "agg_post" ELSE "agg_enqueue"
<1>1. /\ emit_decision(d, outcome) /\ Goto(j, label) /\ At(j, "agg_emit")
      /\ UNCHANGED <<queue_vars, results, thread, saved, attempt, posted_id,
                     hitl_reviews, github, checkpoint_vars>>
  BY DEF AggEmit, AfterDecision
<1>2. StoresTypeOK' /\ StoresGrow
  BY <1>1, JobFacts, EmitStep
<1>3. StoreInv' /\ outcome \in decision_events'[d]
  BY <1>1, JobFacts, EmitKeeps
<1>4. RunInv(j)'
  <2>1. Review(j)' = Review(j) /\ finding_records' = finding_records
    BY <1>1 DEF Review, emit_decision
  <2>2. RowKeys(Review(j)) \subseteq RowKeys(finding_records[d])
    BY <1>1, JobFacts DEF At, RunInv
  <2>3. outcome = "auto_post" \/ outcome \in {"queued", "escalated"}
    BY JobFacts DEF Decisions
  <2>4. decide(Review(j)') = outcome
    BY <2>1
  <2> HIDE DEF outcome
  <2> QED BY <1>1, <1>3, <2>1, <2>2, <2>3, <2>4, <1>2, JobFacts, RowStays
          DEF At, RunInv, Running, Goto, WorkerTypeOK, queue_vars
<1>5. label \in Labels
  BY DEF Labels
<1> HIDE DEF label
<1> QED BY <1>1, <1>2, <1>3, <1>4, <1>5, GotoFrame


LEMMA AggPostStep ==
    ASSUME IInv, NEW j \in Jobs, AggPost(j), UNCHANGED call_vars
    PROVE  IInv' /\ StoresGrow
<1> DEFINE d == DeliveryOf[j]
<1>1. /\ AcceptReview(d, j, Review(j)) /\ Goto(j, "agg_mark") /\ At(j, "agg_post")
      /\ posted_id' = [posted_id EXCEPT ![j] = NewReviewId(d)]
      /\ UNCHANGED <<queue_vars, results, thread, saved, attempt,
                     truth_vars, hitl_reviews, checkpoint_vars>>
  BY DEF AggPost
<1>2. /\ StoresTypeOK' /\ StoresGrow
      /\ NewReviewId(d) \in Nat /\ NewReviewId(d) \in DOMAIN github'[d]
      /\ \A e \in Deliveries : \A i \in DOMAIN github'[e] :
            \/ i \in DOMAIN github[e]
            \/ e = d /\ github'[e][i] = [by |-> j, body |-> Review(j)]
  BY <1>1, JobFacts, AcceptStep
<1>3. /\ RowKeys(Review(j)) \subseteq RowKeys(finding_records[d])
      /\ decide(Review(j)) = "auto_post" /\ "auto_post" \in decision_events[d]
  BY <1>1, JobFacts DEF At, RunInv
<1>4. MayPost(d, j, Review(j))
  BY <1>3, DomainAssumption DEF MayPost
<1>5. StoreInv'
  BY <1>1, <1>2, <1>4, JobFacts, PostKeeps
<1>6. Review(j)' = Review(j) /\ decide(Review(j)') = decide(Review(j))
  BY <1>1 DEF Review
<1>7. RunInv(j)'
  BY <1>1, <1>2, <1>3, <1>6, JobFacts
  DEF At, RunInv, Running, Goto, WorkerTypeOK, queue_vars, truth_vars
<1>8. WorkerTypeOK'
  BY <1>1, <1>2, JobFacts DEF WorkerTypeOK, Goto, Labels, queue_vars
<1>9. \A k \in Jobs \ {j} : SameRun(k)
  BY <1>1, JobFacts DEF WorkerTypeOK, Goto, SameRun, queue_vars
<1>10. CheckpointTypeOK' /\ SlotInv'
  BY <1>1, <1>2, JobFacts, SlotUndisturbed DEF CheckpointTypeOK, checkpoint_vars
<1> QED BY <1>2, <1>5, <1>7, <1>8, <1>9, <1>10, JobFrame

LEMMA AggPostUnansweredStep ==
    ASSUME IInv, NEW j \in Jobs, AggPostUnanswered(j), UNCHANGED call_vars
    PROVE  IInv' /\ StoresGrow
<1> DEFINE d == DeliveryOf[j]
<1>1. /\ PostUnanswered(d, j, Review(j)) /\ At(j, "agg_post")
      /\ UNCHANGED <<job_try, restarts, truth_vars, hitl_reviews, checkpoint_vars>>
  BY DEF AggPostUnanswered
<1>2. /\ StoresTypeOK' /\ StoresGrow
      /\ \A e \in Deliveries : \A i \in DOMAIN github'[e] :
            \/ i \in DOMAIN github[e]
            \/ e = d /\ github'[e][i] = [by |-> j, body |-> Review(j)]
  BY <1>1, JobFacts, UnansweredStep
<1>3. MayPost(d, j, Review(j))
  BY <1>1, JobFacts, DomainAssumption DEF At, RunInv, MayPost
<1>4. StoreInv'
  BY <1>1, <1>2, <1>3, JobFacts, PostKeeps
<1>5. CheckpointTypeOK' /\ SlotInv'
  BY <1>1, <1>2, JobFacts, SlotUndisturbed DEF CheckpointTypeOK, checkpoint_vars
<1>6. CASE Leave(j, "failed")
  <2>1. WorkerTypeOK' /\ RunInv(j)' /\ \A k \in Jobs \ {j} : SameRun(k)
    BY <1>1, <1>6, JobFacts, LeaveTyped, LeaveKeeps DEF JobStates
  <2> QED BY <1>2, <1>4, <1>5, <2>1, JobFrame
<1>7. CASE /\ attempt[j] + 1 < RetryAttempts
           /\ attempt' = [attempt EXCEPT ![j] = @ + 1]
           /\ UNCHANGED <<job_state, pc, results, thread, saved, posted_id>>
  <2>1. WorkerTypeOK'
    BY <1>1, <1>7, JobFacts, RetryAssumption DEF WorkerTypeOK
  <2>2. \A k \in Jobs : SameRun(k)
    BY <1>7 DEF SameRun
  <2>3. RunInv(j)'
    BY <1>2, <2>2, JobFacts, RunUndisturbed
  <2> QED BY <1>2, <1>4, <1>5, <2>1, <2>2, <2>3, JobFrame
<1> QED BY <1>2, <1>6, <1>7 DEF AggPostUnanswered

LEMMA AggMarkStep ==
    ASSUME IInv, NEW j \in Jobs, AggMark(j), UNCHANGED call_vars
    PROVE  IInv' /\ StoresGrow
<1> DEFINE d == DeliveryOf[j]
<1>1. /\ mark_posted(d, posted_id[j]) /\ Goto(j, "finish") /\ At(j, "agg_mark")
      /\ UNCHANGED <<queue_vars, results, thread, saved, attempt, posted_id,
                     hitl_reviews, github, checkpoint_vars>>
  BY DEF AggMark, AfterMark
<1>2. posted_id[j] \in DOMAIN github[d] /\ posted_id[j] \in Nat
  <2>1. posted_id[j] \in DOMAIN github[d]
    BY <1>1, JobFacts DEF At, RunInv
  <2>2. github[d] \in Seq(PostedReview)
    BY JobFacts DEF StoresTypeOK, GitHubTypeOK
  <2> QED BY <2>1, <2>2
<1>3. StoresTypeOK' /\ StoresGrow
  BY <1>1, <1>2, JobFacts, MarkStep
<1>4. StoreInv' /\ Decided(d)'
  BY <1>1, <1>2, JobFacts, MarkKeeps
<1>5. RunInv(j)'
  BY <1>1, <1>3, <1>4, JobFacts, RowStays DEF At, RunInv, Running, Goto, WorkerTypeOK, queue_vars
<1>6. "finish" \in Labels
  BY DEF Labels
<1> QED BY <1>1, <1>3, <1>4, <1>5, <1>6, GotoFrame

LEMMA AggEnqueueStep ==
    ASSUME IInv, NEW j \in Jobs, AggEnqueue(j), UNCHANGED call_vars
    PROVE  IInv' /\ StoresGrow
<1> DEFINE d == DeliveryOf[j]
<1>1. /\ enqueue(d) /\ Goto(j, "agg_status") /\ At(j, "agg_enqueue")
      /\ UNCHANGED <<queue_vars, results, thread, saved, attempt, posted_id,
                     truth_vars, github, checkpoint_vars>>
  BY DEF AggEnqueue
<1>2. StoresTypeOK' /\ StoresGrow /\ hitl_reviews'[d] # <<>>
  BY <1>1, JobFacts, EnqueueStep
<1>3. decision_events[d] \cap {"queued", "escalated"} # {}
  BY <1>1, JobFacts DEF At, RunInv
<1>4. StoreInv'
  BY <1>1, <1>2, <1>3, JobFacts, EnqueueKeeps
<1>5. RunInv(j)'
  BY <1>1, <1>2, <1>3, JobFacts
  DEF At, RunInv, Running, Goto, WorkerTypeOK, queue_vars, truth_vars
<1>6. "agg_status" \in Labels
  BY DEF Labels
<1> QED BY <1>1, <1>2, <1>4, <1>5, <1>6, GotoFrame

LEMMA AggStatusStep ==
    ASSUME IInv, NEW j \in Jobs, AggStatus(j), UNCHANGED call_vars
    PROVE  IInv' /\ StoresGrow
<1> DEFINE d == DeliveryOf[j]
           new == IF decide(Review(j)) = "escalated" THEN "escalated" ELSE "needs_human"
<1>1. /\ set_status(d, new) /\ Goto(j, "finish") /\ At(j, "agg_status")
      /\ UNCHANGED <<queue_vars, results, thread, saved, attempt, posted_id,
                     hitl_reviews, github, checkpoint_vars>>
  BY DEF AggStatus
<1>2. new \in {"needs_human", "escalated"} /\ hitl_reviews[d] # <<>>
  BY <1>1, JobFacts DEF At, RunInv
<1> HIDE DEF new
<1>3. StoresTypeOK' /\ StoresGrow
  BY <1>1, <1>2, JobFacts, SetStatusStep
<1>4. StoreInv' /\ Decided(d)'
  BY <1>1, <1>2, JobFacts, SetStatusKeeps
<1>5. RunInv(j)'
  BY <1>1, <1>3, <1>4, JobFacts, RowStays DEF At, RunInv, Running, Goto, WorkerTypeOK, queue_vars
<1>6. "finish" \in Labels
  BY DEF Labels
<1> QED BY <1>1, <1>3, <1>4, <1>5, <1>6, GotoFrame

LEMMA FinishStep ==
    ASSUME IInv, NEW j \in Jobs, Finish(j), UNCHANGED call_vars
    PROVE  IInv' /\ StoresGrow
<1> DEFINE d == DeliveryOf[j]
<1>1. /\ aput(d, j, "finished", results[j]) /\ Leave(j, "done") /\ At(j, "finish")
      /\ UNCHANGED <<job_try, restarts, truth_vars, hitl_reviews, github>>
  BY DEF Finish
<1>2. StoresTypeOK' /\ StoresGrow /\ StoreInv'
  BY <1>1, QuietStep
<1>3. Decided(d)'
  <2>1. Decided(d)
    BY <1>1, JobFacts DEF At, RunInv
  <2> QED BY <1>2, <2>1, JobFacts DEF StoresGrow
<1>4. WorkerTypeOK' /\ RunInv(j)' /\ \A k \in Jobs \ {j} : SameRun(k)
  BY <1>1, <1>3, JobFacts, LeaveTyped, LeaveKeeps DEF JobStates
<1>5. CheckpointTypeOK'
  BY <1>1, JobFacts, AputTyped DEF Stages
<1>6. SlotInv'
  BY <1>1, <1>2, <1>3, JobFacts, AputKeeps
<1> QED BY <1>2, <1>4, <1>5, <1>6, JobFrame

-----------------------------------------------------------------------------
(* The steps of a request *)

\* A request that keeps its own part of the invariant keeps all of it.
LEMMA CallFrame ==
    ASSUME IInv, NEW c \in Calls, StoresTypeOK', HitlApiTypeOK', StoresGrow, StoreInv',
           CallInv(c)',
           \A b \in Calls \ {c} : /\ call'[b] = call[b] /\ call_body'[b] = call_body[b]
                                  /\ call_posted_id'[b] = call_posted_id[b],
           UNCHANGED <<queue_vars, run_vars, checkpoint_vars>>
    PROVE  IInv'
<1>1. TypeOK'
  BY DEF IInv, TypeOK, StoresTypeOK, WorkerTypeOK, CheckpointTypeOK,
         queue_vars, run_vars, checkpoint_vars
<1>2. ASSUME NEW k \in Jobs PROVE RunInv(k)'
  <2>1. SameRun(k)
    BY DEF SameRun, queue_vars, run_vars
  <2> QED BY <2>1, RunUndisturbed DEF IInv
<1>3. ASSUME NEW b \in Calls PROVE CallInv(b)'
  BY CallUndisturbed DEF IInv
<1>4. SlotInv'
  BY SlotUndisturbed DEF IInv
<1> QED BY <1>1, <1>2, <1>3, <1>4 DEF IInv, StoreInv

\* What every step of a request may take from the invariant.
LEMMA CallFacts ==
    ASSUME IInv, NEW c \in Calls
    PROVE  /\ StoresTypeOK /\ StoreInv /\ HitlApiTypeOK /\ CallInv(c)
           /\ ReviewOf[c] \in Deliveries /\ call_body[c] \in SUBSET Rows
<1>1. StoresTypeOK /\ StoreInv /\ HitlApiTypeOK /\ CallInv(c) /\ ReviewOf[c] \in Deliveries
  BY DomainAssumption DEF IInv, TypeOK, StoresTypeOK, StoreInv
<1> QED BY <1>1 DEF HitlApiTypeOK

LEMMA ClaimStep ==
    ASSUME IInv, NEW c \in Calls, Approve(c) \/ Reject(c),
           UNCHANGED <<queue_vars, run_vars, checkpoint_vars>>
    PROVE  IInv' /\ StoresGrow
<1> DEFINE d == ReviewOf[c]
<1>1. PICK outcome \in {"resolved", "dismissed"}, next \in {"read", "rejected"} :
         Claim(c, outcome, next) /\ (next = "read" => outcome = "resolved")
  BY DEF Approve, Reject
<1>2. /\ resolve(d, outcome, c)
      /\ Becomes(c, IF HasPending(d) THEN next ELSE "conflict")
      /\ UNCHANGED <<call_body, call_attempt, call_posted_id, truth_vars, github>>
  BY <1>1 DEF Claim
<1>3. StoresTypeOK' /\ StoresGrow /\ (HasPending(d) => Claimed(d, outcome, c)')
  BY <1>2, CallFacts, ResolveStep
<1>4. StoreInv'
  BY <1>2, <1>3, CallFacts, ResolveKeeps
<1>5. HitlApiTypeOK'
  BY <1>2, CallFacts DEF HitlApiTypeOK, Becomes, CallStates
<1>6. CallInv(c)'
  BY <1>1, <1>2, <1>3, CallFacts DEF CallInv, HitlApiTypeOK, Becomes
<1>7. \A b \in Calls \ {c} : call'[b] = call[b]
  BY <1>2, CallFacts DEF HitlApiTypeOK, Becomes
<1> QED BY <1>2, <1>3, <1>4, <1>5, <1>6, <1>7, CallFrame

\* A step of a request that touches no table and posts nothing.
LEMMA ReadReviewStep ==
    ASSUME IInv, NEW c \in Calls, ReadReview(c),
           UNCHANGED <<queue_vars, run_vars, checkpoint_vars>>
    PROVE  IInv' /\ StoresGrow
<1> DEFINE d == ReviewOf[c]
<1>1. /\ call[c] = "read" /\ Becomes(c, "post")
      /\ call_body' = [call_body EXCEPT ![c] = finding_records[d]]
      /\ UNCHANGED <<call_attempt, call_posted_id, truth_vars, hitl_reviews, github>>
  BY DEF ReadReview
<1>2. StoresTypeOK' /\ StoresGrow /\ StoreInv'
  BY <1>1, QuietStep
<1>3. finding_records[d] \in SUBSET Rows
  BY CallFacts DEF StoresTypeOK, TruthStoreTypeOK
<1>4. HitlApiTypeOK'
  BY <1>1, <1>3, CallFacts DEF HitlApiTypeOK, Becomes, CallStates
<1>5. CallInv(c)'
  <2>1. Claimed(d, "resolved", c)
    BY <1>1, CallFacts DEF CallInv
  <2>2. Claimed(d, "resolved", c)'
    BY <1>2, <2>1, CallFacts DEF StoresGrow
  <2>3. call'[c] = "post" /\ call_body'[c] = finding_records'[d]
    BY <1>1, CallFacts DEF HitlApiTypeOK, Becomes, truth_vars
  <2> QED BY <2>2, <2>3 DEF CallInv
<1>6. \A b \in Calls \ {c} : call'[b] = call[b] /\ call_body'[b] = call_body[b]
  BY <1>1, CallFacts DEF HitlApiTypeOK, Becomes
<1> QED BY <1>1, <1>2, <1>4, <1>5, <1>6, CallFrame

LEMMA ApprovePostStep ==
    ASSUME IInv, NEW c \in Calls, ApprovePost(c),
           UNCHANGED <<queue_vars, run_vars, checkpoint_vars>>
    PROVE  IInv' /\ StoresGrow
<1> DEFINE d == ReviewOf[c]
<1>1. /\ call[c] = "post" /\ AcceptReview(d, c, call_body[c]) /\ Becomes(c, "mark")
      /\ call_posted_id' = [call_posted_id EXCEPT ![c] = NewReviewId(d)]
      /\ UNCHANGED <<call_body, call_attempt, truth_vars, hitl_reviews>>
  BY DEF ApprovePost
<1>2. /\ StoresTypeOK' /\ StoresGrow
      /\ NewReviewId(d) \in Nat /\ NewReviewId(d) \in DOMAIN github'[d]
      /\ \A e \in Deliveries : \A i \in DOMAIN github'[e] :
            \/ i \in DOMAIN github[e]
            \/ e = d /\ github'[e][i] = [by |-> c, body |-> call_body[c]]
  BY <1>1, CallFacts, AcceptStep
<1>3. Claimed(d, "resolved", c) /\ RowKeys(call_body[c]) \subseteq RowKeys(finding_records[d])
  BY <1>1, CallFacts DEF CallInv
<1>4. MayPost(d, c, call_body[c])
  BY <1>3, DomainAssumption DEF MayPost
<1>5. StoreInv'
  BY <1>1, <1>2, <1>4, CallFacts, PostKeeps
<1>6. HitlApiTypeOK'
  BY <1>1, <1>2, CallFacts DEF HitlApiTypeOK, Becomes, CallStates
<1>7. CallInv(c)'
  <2>1. Claimed(d, "resolved", c)'
    BY <1>2, <1>3, CallFacts DEF StoresGrow
  <2>2. call'[c] = "mark" /\ call_posted_id'[c] = NewReviewId(d)
    BY <1>1, CallFacts DEF HitlApiTypeOK, Becomes
  <2> QED BY <1>1, <1>2, <1>3, <2>1, <2>2 DEF CallInv, truth_vars
<1>8. \A b \in Calls \ {c} : call'[b] = call[b] /\ call_posted_id'[b] = call_posted_id[b]
  BY <1>1, CallFacts DEF HitlApiTypeOK, Becomes
<1> QED BY <1>1, <1>2, <1>5, <1>6, <1>7, <1>8, CallFrame

LEMMA ApprovePostUnansweredStep ==
    ASSUME IInv, NEW c \in Calls, ApprovePostUnanswered(c),
           UNCHANGED <<queue_vars, run_vars, checkpoint_vars>>
    PROVE  IInv' /\ StoresGrow
<1> DEFINE d == ReviewOf[c]
<1>1. /\ call[c] = "post" /\ PostUnanswered(d, c, call_body[c])
      /\ UNCHANGED <<call_body, call_posted_id, truth_vars, hitl_reviews>>
      /\ \/ /\ call_attempt[c] + 1 < RetryAttempts
            /\ call_attempt' = [call_attempt EXCEPT ![c] = @ + 1] /\ UNCHANGED call
         \/ Becomes(c, "failed") /\ UNCHANGED call_attempt
  BY DEF ApprovePostUnanswered
<1>2. /\ StoresTypeOK' /\ StoresGrow
      /\ \A e \in Deliveries : \A i \in DOMAIN github'[e] :
            \/ i \in DOMAIN github[e]
            \/ e = d /\ github'[e][i] = [by |-> c, body |-> call_body[c]]
  BY <1>1, CallFacts, UnansweredStep
<1>3. MayPost(d, c, call_body[c])
  BY <1>1, CallFacts, DomainAssumption DEF CallInv, MayPost
<1>4. StoreInv'
  BY <1>1, <1>2, <1>3, CallFacts, PostKeeps
<1>5. HitlApiTypeOK'
  BY <1>1, CallFacts, RetryAssumption DEF HitlApiTypeOK, Becomes, CallStates
<1>6. /\ call'[c] = call[c] \/ call'[c] = "failed"
      /\ \A b \in Calls \ {c} : call'[b] = call[b]
  BY <1>1, CallFacts DEF HitlApiTypeOK, Becomes
<1>7. CallInv(c)'
  <2>1. CASE call'[c] = "failed"
    BY <2>1 DEF CallInv
  <2>2. CASE call'[c] = call[c]
    BY <1>1, <1>2, <2>2, CallFacts, CallUndisturbed
  <2> QED BY <1>6, <2>1, <2>2
<1> QED BY <1>1, <1>2, <1>4, <1>5, <1>6, <1>7, CallFrame

LEMMA ApproveMarkStep ==
    ASSUME IInv, NEW c \in Calls, ApproveMark(c),
           UNCHANGED <<queue_vars, run_vars, checkpoint_vars>>
    PROVE  IInv' /\ StoresGrow
<1> DEFINE d == ReviewOf[c]
<1>1. /\ call[c] = "mark" /\ mark_posted(d, call_posted_id[c]) /\ Becomes(c, "approved")
      /\ UNCHANGED <<call_body, call_attempt, call_posted_id, hitl_reviews, github>>
  BY DEF ApproveMark
<1>2. call_posted_id[c] \in DOMAIN github[d] /\ call_posted_id[c] \in Nat
  <2>1. call_posted_id[c] \in DOMAIN github[d]
    BY <1>1, CallFacts DEF CallInv
  <2>2. github[d] \in Seq(PostedReview)
    BY CallFacts DEF StoresTypeOK, GitHubTypeOK
  <2> QED BY <2>1, <2>2
<1>3. StoresTypeOK' /\ StoresGrow
  BY <1>1, <1>2, CallFacts, MarkStep
<1>4. StoreInv'
  BY <1>1, <1>2, CallFacts, MarkKeeps
<1>5. HitlApiTypeOK'
  BY <1>1, CallFacts DEF HitlApiTypeOK, Becomes, CallStates
<1>6. call'[c] = "approved" /\ \A b \in Calls \ {c} : call'[b] = call[b]
  BY <1>1, CallFacts DEF HitlApiTypeOK, Becomes
<1>7. CallInv(c)'
  <2>1. Claimed(d, "resolved", c)
    BY <1>1, CallFacts DEF CallInv
  <2>2. Claimed(d, "resolved", c)'
    BY <1>3, <2>1, CallFacts DEF StoresGrow
  <2> QED BY <1>6, <2>2 DEF CallInv
<1> QED BY <1>1, <1>3, <1>4, <1>5, <1>6, <1>7, CallFrame

LEMMA CallFailsStep ==
    ASSUME IInv, NEW c \in Calls, CallFails(c),
           UNCHANGED <<queue_vars, run_vars, checkpoint_vars>>
    PROVE  IInv' /\ StoresGrow
<1>1. /\ Becomes(c, "failed")
      /\ UNCHANGED <<call_body, call_attempt, call_posted_id, truth_vars, hitl_reviews, github>>
  BY DEF CallFails
<1>2. StoresTypeOK' /\ StoresGrow /\ StoreInv'
  BY <1>1, QuietStep
<1>3. HitlApiTypeOK'
  BY <1>1, CallFacts DEF HitlApiTypeOK, Becomes, CallStates
<1>4. call'[c] = "failed" /\ \A b \in Calls \ {c} : call'[b] = call[b]
  BY <1>1, CallFacts DEF HitlApiTypeOK, Becomes
<1>5. CallInv(c)'
  BY <1>4 DEF CallInv
<1> QED BY <1>1, <1>2, <1>3, <1>4, <1>5, CallFrame


-----------------------------------------------------------------------------
(* The theorems *)

\* Before any delivery everything is empty, and of its type.
LEMMA InitTypeOK == Init => TypeOK
<1> SUFFICES ASSUME Init PROVE TypeOK
  OBVIOUS
<1> USE DEF Init
<1>1. TruthStoreTypeOK
  BY DEF TruthStoreInit, TruthStoreTypeOK, Statuses
<1>2. HitlQueueTypeOK
  BY DEF HitlQueueInit, HitlQueueTypeOK, HitlRow
<1>3. GitHubTypeOK
  BY DEF GitHubInit, GitHubTypeOK
<1>4. CheckpointTypeOK
  BY NoWritesTyped DEF CheckpointInit, CheckpointTypeOK, EmptySlot, Stages
<1>5. WorkerTypeOK
  BY NoWritesTyped, WorkerAssumption, RetryAssumption
  DEF WorkerInit, WorkerTypeOK, JobStates, Labels, Stages
<1>6. HitlApiTypeOK
  BY RetryAssumption DEF HitlApiInit, HitlApiTypeOK, CallStates
<1> QED BY <1>1, <1>2, <1>3, <1>4, <1>5, <1>6 DEF TypeOK

LEMMA InitIInv == Init => IInv
<1> SUFFICES ASSUME Init PROVE IInv
  OBVIOUS
<1>1. TypeOK
  BY InitTypeOK
<1> USE DEF Init, TruthStoreInit, HitlQueueInit, GitHubInit, CheckpointInit,
            WorkerInit, HitlApiInit
<1>2. \A j \in Jobs : RunInv(j)
  BY DEF RunInv, Running
<1>3. SlotInv
  BY DEF SlotInv, EmptySlot
<1>4. \A c \in Calls : CallInv(c)
  BY DEF CallInv
<1>5. PostedHasReceipt /\ WaitingHasRow
  BY DEF PostedHasReceipt, WaitingHasRow
<1>6. /\ HumanPostWasClaimed /\ EffectsAreAudited
      /\ PostedFindingsAreStored /\ AutoPostPassedTheGate
  BY DEF HumanPostWasClaimed, EffectsAreAudited, PostedFindingsAreStored,
         AutoPostPassedTheGate
<1> QED BY <1>1, <1>2, <1>3, <1>4, <1>5, <1>6 DEF IInv

\* Nothing happens: the stores are as grown as they were.
LEMMA StutterStep ==
    ASSUME IInv, UNCHANGED vars
    PROVE  IInv' /\ StoresGrow
<1> USE DEF vars, store_vars, truth_vars
<1>1. StoresTypeOK' /\ StoresGrow /\ StoreInv'
  BY QuietStep
<1>2. TypeOK'
  BY <1>1 DEF IInv, TypeOK, StoresTypeOK, WorkerTypeOK, CheckpointTypeOK, HitlApiTypeOK,
              queue_vars, run_vars, checkpoint_vars, call_vars
<1>3. ASSUME NEW j \in Jobs PROVE RunInv(j)'
  BY <1>1, RunUndisturbed DEF IInv, SameRun, queue_vars, run_vars
<1>4. ASSUME NEW c \in Calls PROVE CallInv(c)'
  BY <1>1, CallUndisturbed DEF IInv, call_vars
<1>5. SlotInv'
  BY <1>1, SlotUndisturbed DEF IInv, checkpoint_vars
<1> QED BY <1>1, <1>2, <1>3, <1>4, <1>5 DEF IInv, StoreInv

\* Every action keeps the invariant, and no action takes anything back.
LEMMA NextStep ==
    ASSUME IInv, [Next]_vars
    PROVE  IInv' /\ StoresGrow
<1>1. ASSUME NEW j \in Jobs, WorkerStep(j), UNCHANGED call_vars
      PROVE  IInv' /\ StoresGrow
  <2>1. CASE StartJob(j) \/ GiveUp(j)
    BY <1>1, <2>1, QueueStep
  <2>2. CASE UpsertReview(j)
    BY <1>1, <2>2, UpsertReviewStep
  <2>3. CASE EngineRun(j)
    BY <1>1, <2>3, EngineRunStep
  <2>4. CASE \E a \in Specialists : Specialist(j, a)
    BY <1>1, <2>4, SpecialistStep
  <2>5. CASE AggUpsert(j)
    BY <1>1, <2>5, AggUpsertStep
  <2>6. CASE AggInsert(j)
    BY <1>1, <2>6, AggInsertStep
  <2>7. CASE AggEmit(j)
    BY <1>1, <2>7, AggEmitStep
  <2>8. CASE AggPost(j)
    BY <1>1, <2>8, AggPostStep
  <2>9. CASE AggPostUnanswered(j)
    BY <1>1, <2>9, AggPostUnansweredStep
  <2>10. CASE AggMark(j)
    BY <1>1, <2>10, AggMarkStep
  <2>11. CASE AggEnqueue(j)
    BY <1>1, <2>11, AggEnqueueStep
  <2>12. CASE AggStatus(j)
    BY <1>1, <2>12, AggStatusStep
  <2>13. CASE Finish(j)
    BY <1>1, <2>13, FinishStep
  <2> QED BY <1>1, <2>1, <2>2, <2>3, <2>4, <2>5, <2>6, <2>7, <2>8, <2>9, <2>10,
             <2>11, <2>12, <2>13 DEF WorkerStep
<1>2. ASSUME NEW j \in Jobs, UNCHANGED call_vars,
             EnqueueReview(j) \/ BackgroundSave(j) \/ WorkerDies(j) \/ JobFails(j)
      PROVE  IInv' /\ StoresGrow
  BY <1>2, QueueStep, SaveStep, StopStep
<1>3. ASSUME NEW c \in Calls, UNCHANGED <<queue_vars, run_vars, checkpoint_vars>>,
             Approve(c) \/ Reject(c) \/ CallStep(c) \/ CallFails(c)
      PROVE  IInv' /\ StoresGrow
  BY <1>3, ClaimStep, ReadReviewStep, ApprovePostStep, ApprovePostUnansweredStep,
     ApproveMarkStep, CallFailsStep DEF CallStep
<1>4. CASE WorkerNext /\ UNCHANGED call_vars
  BY <1>1, <1>2, <1>4, RedisRestartStep DEF WorkerNext
<1>5. CASE HitlApiNext /\ UNCHANGED <<queue_vars, run_vars, checkpoint_vars>>
  BY <1>3, <1>5 DEF HitlApiNext
<1>6. CASE UNCHANGED vars
  BY <1>6, StutterStep
<1> QED BY <1>4, <1>5, <1>6 DEF Next

\* The invariant: at every await of run_review, aggregate and approve, what the
\* process has done so far is still in the stores, whoever ran in between.
THEOREM Invariant == Spec => []IInv
<1>1. Init => IInv
  BY InitIInv
<1>2. IInv /\ [Next]_vars => IInv'
  BY NextStep
<1> QED BY <1>1, <1>2, PTL DEF Spec

\* Every table, checkpoint and coroutine variable stays of its type.
THEOREM TypeCorrect == Spec => []TypeOK
<1>1. IInv => TypeOK
  BY DEF IInv
<1> QED BY <1>1, Invariant, PTL

\* mark_posted only ever records an id that GitHub answered with: the row of a
\* posted review names a review that exists, for any number of jobs, requests,
\* retries, crashes and lost replies.
THEOREM PostedHasReceiptAlways == Spec => []PostedHasReceipt
<1>1. IInv => PostedHasReceipt
  BY DEF IInv
<1> QED BY <1>1, Invariant, PTL

\* aggregate inserts the hitl_reviews row before the status that makes later
\* runs stop, so no review is recorded as waiting with nobody waiting for it.
THEOREM WaitingHasRowAlways == Spec => []WaitingHasRow
<1>1. IInv => WaitingHasRow
  BY DEF IInv
<1> QED BY <1>1, Invariant, PTL

\* The UPDATE ... WHERE status = 'pending' of resolve decides who may post:
\* every review posted by an approve request belongs to a claim of its own.
THEOREM HumanPostWasClaimedAlways == Spec => []HumanPostWasClaimed
<1>1. IInv => HumanPostWasClaimed
  BY DEF IInv
<1> QED BY <1>1, Invariant, PTL

\* aggregate emits the DECISION event before it acts on the decision.
THEOREM EffectsAreAuditedAlways == Spec => []EffectsAreAudited
<1>1. IInv => EffectsAreAudited
  BY DEF IInv
<1> QED BY <1>1, Invariant, PTL

\* insert_findings runs before post_review, and its rows are never deleted.
THEOREM PostedFindingsAreStoredAlways == Spec => []PostedFindingsAreStored
<1>1. IInv => PostedFindingsAreStored
  BY DEF IInv
<1> QED BY <1>1, Invariant, PTL

\* The confidence gate of decide holds for everything a worker posts, through
\* resumes, reruns and lost checkpoints.
THEOREM AutoPostPassedTheGateAlways == Spec => []AutoPostPassedTheGate
<1>1. IInv => AutoPostPassedTheGate
  BY DEF IInv
<1> QED BY <1>1, Invariant, PTL

\* run_review returns only when upsert_review found the review decided, when
\* the graph ran to its end, or when a finished thread was resumed: in each
\* case the review is decided.
THEOREM DoneMeansDecidedAlways == Spec => []DoneMeansDecided
<1>1. IInv => DoneMeansDecided
  BY DEF IInv, RunInv, Decided, DoneMeansDecided
<1> QED BY <1>1, Invariant, PTL

\* No statement on pr_review_records puts a decided review back to pending or
\* clears its github_review_id.
THEOREM DecidedStaysDecidedAlways == Spec => DecidedStaysDecided
<1>1. IInv /\ [Next]_vars =>
        [\A d \in Deliveries :
            /\ status[d] \notin {"absent", "pending"}
                 => status'[d] \notin {"absent", "pending"}
            /\ github_review_id[d] # None => github_review_id'[d] # None]_vars
  BY NextStep DEF StoresGrow, Decided
<1> QED BY <1>1, Invariant, PTL DEF Spec, DecidedStaysDecided

\* No step of a worker, of the dashboard API or of arq and no fault takes a row,
\* an event, a claim, a decision, a review id or a posted review away: the
\* statements only insert, and update rows that are still pending.
THEOREM NothingIsTakenBack == Spec => [][StoresGrow]_vars
<1>1. IInv /\ [Next]_vars => [StoresGrow]_vars
  BY NextStep
<1> QED BY <1>1, Invariant, PTL DEF Spec

\* Where no worker dies, a job that is not under way was not started or is over.
OnceTried(j) ==
    /\ job_state[j] \in {"idle", "queued", "lost"} => job_try[j] = 0
    /\ job_try[j] <= 1

LEMMA OnceTriedStep ==
    ASSUME IInv, [Next]_vars, "crash" \notin Faults, NEW j \in Jobs, OnceTried(j)
    PROVE  OnceTried(j)'
<1> USE DEF OnceTried
<1>0. /\ job_state \in [Jobs -> JobStates]
      /\ job_try \in [Jobs -> 0..MaxTries]
      /\ pc[j] # "idle" => Running(j)
  BY DEF IInv, TypeOK, WorkerTypeOK, RunInv
<1>1. CASE UNCHANGED <<job_state, job_try>>
  BY <1>1
<1>2. CASE RedisRestart
  BY <1>0, <1>2 DEF RedisRestart
<1>3. ASSUME NEW k \in Jobs, StartJob(k) \/ GiveUp(k) \/ EnqueueReview(k)
      PROVE  OnceTried(j)'
  BY <1>0, <1>3 DEF StartJob, GiveUp, EnqueueReview
<1>4. ASSUME NEW k \in Jobs, Running(k), UNCHANGED job_try,
             \/ UNCHANGED job_state
             \/ \E state \in {"done", "failed"} : job_state' = [job_state EXCEPT ![k] = state]
      PROVE  OnceTried(j)'
  BY <1>0, <1>4 DEF Running
<1>5. ASSUME NEW k \in Jobs, \/ JobFails(k) \/ UpsertReview(k) \/ EngineRun(k)
                              \/ AggPostUnanswered(k) \/ Finish(k)
      PROVE  OnceTried(j)'
  BY <1>4, <1>5 DEF JobFails, AfterException, UpsertReview, EngineRun, AggPostUnanswered,
                    Finish, At, Leave
<1>6. ASSUME NEW k \in Jobs,
             \/ \E a \in Specialists : Specialist(k, a)
             \/ AggUpsert(k) \/ AggInsert(k) \/ AggEmit(k) \/ AggPost(k)
             \/ AggMark(k) \/ AggEnqueue(k) \/ AggStatus(k) \/ BackgroundSave(k)
      PROVE  OnceTried(j)'
  BY <1>1, <1>6 DEF Specialist, AggUpsert, AggInsert, AggEmit, AggPost, AggMark, AggEnqueue,
                    AggStatus, BackgroundSave, SaveStart, SaveJoin, SaveWrites, queue_vars
<1>7. CASE WorkerNext
  <2> HIDE DEF OnceTried
  <2>1. ASSUME NEW k \in Jobs, WorkerStep(k) PROVE OnceTried(j)'
    BY <2>1, <1>3, <1>5, <1>6 DEF WorkerStep
  <2>2. ASSUME NEW k \in Jobs, EnqueueReview(k) \/ BackgroundSave(k) \/ JobFails(k)
        PROVE  OnceTried(j)'
    BY <2>2, <1>3, <1>5, <1>6
  <2>3. \A k \in Jobs : ~WorkerDies(k)
    BY DEF WorkerDies
  <2> QED BY <1>2, <1>7, <2>1, <2>2, <2>3 DEF WorkerNext
<1> QED BY <1>1, <1>7 DEF Next, vars, queue_vars

\* A job that raised or was cancelled, at whatever await, is never started again,
\* nor is one whose queue a Redis restart took: arq marks it failed.
THEOREM OnlyCrashesRepeatAlways == Spec => []OnlyCrashesRepeat
<1> DEFINE Once == "crash" \notin Faults => \A j \in Jobs : OnceTried(j)
<1>1. Init => Once
  BY DEF Init, WorkerInit, OnceTried
<1>2. IInv /\ Once /\ [Next]_vars => Once'
  BY OnceTriedStep
<1>3. IInv /\ Once => OnlyCrashesRepeat
  BY DEF OnceTried, OnlyCrashesRepeat, Died, Started, IInv, TypeOK, WorkerTypeOK
<1> QED BY <1>1, <1>2, <1>3, Invariant, PTL DEF Spec

-----------------------------------------------------------------------------
(* The refinement: the stores implement ReviewLifecycle.  First what each    *)
(* statement does to the mapped state, under the precondition its caller     *)
(* owes to the invariant; then each action, whose place in the code gives    *)
(* that precondition.                                                        *)

LifecycleStep == [Lifecycle!Next]_(Lifecycle!vars)

LEMMA QuietMaps ==
    ASSUME UNCHANGED <<truth_vars, hitl_reviews, github>>
    PROVE  LifecycleStep
  BY DEF LifecycleStep, Lifecycle!vars, truth_vars, Phase, Claimed

LEMMA UpsertMaps ==
    ASSUME StoresTypeOK, NEW d \in Deliveries, upsert_review(d),
           UNCHANGED <<hitl_reviews, github>>
    PROVE  LifecycleStep
<1>1. CASE status[d] = "absent"
  <2>1. Lifecycle!Open(d)
    BY <1>1 DEF StoresTypeOK, TruthStoreTypeOK, upsert_review, Lifecycle!Open, Phase, Claimed
  <2> QED BY <2>1 DEF LifecycleStep, Lifecycle!Next
<1>2. CASE status[d] # "absent"
  <2>1. UNCHANGED <<truth_vars, hitl_reviews, github>>
    BY <1>2 DEF StoresTypeOK, TruthStoreTypeOK, upsert_review, truth_vars
  <2> QED BY <2>1, QuietMaps
<1> QED BY <1>1, <1>2

LEMMA InsertMaps ==
    ASSUME StoresTypeOK, NEW d \in Deliveries, NEW deduped, status[d] # "absent",
           insert_findings(d, deduped), UNCHANGED <<hitl_reviews, github>>
    PROVE  LifecycleStep
<1> DEFINE stored == [e \in Deliveries |-> RowKeys(finding_records[e])]
<1>1. RowKeys(finding_records[d]) \subseteq RowKeys(finding_records'[d])
  BY InsertRowsKeeps DEF StoresTypeOK, TruthStoreTypeOK, insert_findings
<1>2. \A e \in Deliveries \ {d} : finding_records'[e] = finding_records[e]
  BY DEF StoresTypeOK, TruthStoreTypeOK, insert_findings
<1>3. stored[d] \subseteq stored'[d] /\ stored' = [stored EXCEPT ![d] = stored'[d]]
  BY <1>1, <1>2
<1>4. Lifecycle!Store(d)
  BY <1>3 DEF insert_findings, Lifecycle!Store, Phase, Claimed
<1> QED BY <1>4 DEF LifecycleStep, Lifecycle!Next

LEMMA EmitMaps ==
    ASSUME StoresTypeOK, NEW d \in Deliveries, NEW outcome \in Decisions, status[d] # "absent",
           emit_decision(d, outcome), UNCHANGED <<hitl_reviews, github>>
    PROVE  LifecycleStep
<1>1. Lifecycle!Record(d, outcome)
  BY DEF emit_decision, Lifecycle!Record, Phase, Claimed
<1> QED BY <1>1 DEF LifecycleStep, Lifecycle!Next

LEMMA MarkMaps ==
    ASSUME StoresTypeOK, NEW d \in Deliveries, NEW id \in DOMAIN github[d],
           mark_posted(d, id), UNCHANGED <<hitl_reviews, github>>
    PROVE  LifecycleStep
<1>1. Lifecycle!Conclude(d, id)
  BY DEF StoresTypeOK, TruthStoreTypeOK, mark_posted, Lifecycle!Conclude, Phase, Claimed
<1> QED BY <1>1 DEF LifecycleStep, Lifecycle!Next

LEMMA SetStatusMaps ==
    ASSUME StoresTypeOK, NEW d \in Deliveries, NEW new \in {"needs_human", "escalated"},
           hitl_reviews[d] # <<>>, set_status(d, new), UNCHANGED <<hitl_reviews, github>>
    PROVE  LifecycleStep
<1>1. Lifecycle!HandOver(d)
  BY DEF StoresTypeOK, TruthStoreTypeOK, set_status, Lifecycle!HandOver, Phase, Claimed
<1> QED BY <1>1 DEF LifecycleStep, Lifecycle!Next

LEMMA EnqueueMaps ==
    ASSUME StoresTypeOK, NEW d \in Deliveries,
           decision_events[d] \cap {"queued", "escalated"} # {},
           enqueue(d), UNCHANGED <<truth_vars, github>>
    PROVE  LifecycleStep
<1> DEFINE row == [status |-> "pending", by |-> None]
           claims == [e \in Deliveries |-> {c \in Calls : Claimed(e, "resolved", c)}]
           queued == [e \in Deliveries |-> hitl_reviews[e] # <<>>]
<1>1. /\ hitl_reviews[d] \in Seq(HitlRow) /\ row \in HitlRow
      /\ hitl_reviews'[d] = Append(hitl_reviews[d], row)
      /\ \A e \in Deliveries \ {d} : hitl_reviews'[e] = hitl_reviews[e]
  BY DEF StoresTypeOK, HitlQueueTypeOK, HitlRow, RowStatuses, enqueue
<1>2. \A e \in Deliveries, c \in Calls : Claimed(e, "resolved", c)' <=> Claimed(e, "resolved", c)
  <2> HIDE DEF row
  <2>1. /\ \A i \in DOMAIN hitl_reviews[d] :
               i \in DOMAIN hitl_reviews'[d] /\ hitl_reviews'[d][i] = hitl_reviews[d][i]
        /\ \A i \in DOMAIN hitl_reviews'[d] :
               i \in DOMAIN hitl_reviews[d] \/ hitl_reviews'[d][i] = row
    BY <1>1
  <2>2. \A c : row # [status |-> "resolved", by |-> c]
    BY DEF row
  <2> QED BY <1>1, <2>1, <2>2 DEF Claimed
<1>3. claims' = claims
  BY <1>2
<1>4. queued' = [queued EXCEPT ![d] = TRUE]
  <2>1. hitl_reviews'[d] # <<>>
    BY EnqueueStep
  <2> QED BY <1>1, <2>1
<1>5. Lifecycle!Enqueue(d)
  BY <1>3, <1>4 DEF Lifecycle!Enqueue, truth_vars, Phase
<1> QED BY <1>5 DEF LifecycleStep, Lifecycle!Next

\* A dismissal, or a claim that found nothing, changes no claim; an approval
\* that found a pending row claims it for its caller.
LEMMA ResolveMaps ==
    ASSUME StoresTypeOK, NEW d \in Deliveries, NEW outcome \in {"resolved", "dismissed"},
           NEW c \in Calls, resolve(d, outcome, c), UNCHANGED <<truth_vars, github>>
    PROVE  LifecycleStep
<1> DEFINE claims == [e \in Deliveries |-> {b \in Calls : Claimed(e, "resolved", b)}]
           queued == [e \in Deliveries |-> hitl_reviews[e] # <<>>]
           old == hitl_reviews[d]
           mine == {i \in DOMAIN old : old[i].status = "pending"}
<1>1. /\ old \in Seq(HitlRow)
      /\ DOMAIN hitl_reviews'[d] = DOMAIN old
      /\ \A i \in DOMAIN old :
            hitl_reviews'[d][i] = IF i \in mine THEN [status |-> outcome, by |-> c] ELSE old[i]
      /\ \A e \in Deliveries \ {d} : hitl_reviews'[e] = hitl_reviews[e]
  BY DEF StoresTypeOK, HitlQueueTypeOK, resolve
<1>2. queued' = queued
  <2>1. hitl_reviews[d] # <<>> <=> hitl_reviews'[d] # <<>>
    <3>1. HitlQueueTypeOK'
      BY ResolveStep DEF StoresTypeOK
    <3>2. hitl_reviews'[d] \in Seq(HitlRow)
      BY <3>1 DEF HitlQueueTypeOK
    <3> QED BY <1>1, <3>2
  <2> QED BY <1>1, <2>1
<1>3. \A e \in Deliveries, b \in Calls :
         Claimed(e, "resolved", b)' <=>
            \/ Claimed(e, "resolved", b)
            \/ e = d /\ b = c /\ outcome = "resolved" /\ mine # {}
  <2> SUFFICES ASSUME NEW e \in Deliveries, NEW b \in Calls
               PROVE  Claimed(e, "resolved", b)' <=>
                        \/ Claimed(e, "resolved", b)
                        \/ e = d /\ b = c /\ outcome = "resolved" /\ mine # {}
    OBVIOUS
  <2>1. CASE e # d
    BY <2>1, <1>1 DEF Claimed
  <2>2. CASE e = d
    <3>1. \A i \in DOMAIN old : i \in mine => old[i] # [status |-> "resolved", by |-> b]
      OBVIOUS
    <3>2. [status |-> outcome, by |-> c] = [status |-> "resolved", by |-> b]
            <=> outcome = "resolved" /\ b = c
      OBVIOUS
    <3> QED BY <2>2, <3>1, <3>2, <1>1 DEF Claimed
  <2> QED BY <2>1, <2>2
<1>4. CASE outcome = "resolved" /\ mine # {}
  <2>1. claims' = [claims EXCEPT ![d] = @ \cup {c}]
    BY <1>3, <1>4
  <2>2. queued[d]
    <3>1. old # <<>>
      BY <1>4
    <3> QED BY <3>1
  <2>3. Lifecycle!Claim(d, c)
    BY <1>2, <2>1, <2>2 DEF Lifecycle!Claim, truth_vars, Phase
  <2> QED BY <2>3 DEF LifecycleStep, Lifecycle!Next
<1>5. CASE ~(outcome = "resolved" /\ mine # {})
  <2>1. claims' = claims
    BY <1>3, <1>5
  <2> QED BY <1>2, <2>1 DEF LifecycleStep, Lifecycle!vars, truth_vars, Phase
<1> QED BY <1>4, <1>5

\* A review GitHub accepted was owed to the gate or to a claim.
LEMMA PostMaps ==
    ASSUME StoresTypeOK, NEW d \in Deliveries, NEW author \in Jobs \cup Calls,
           NEW body \in SUBSET Rows, MayPost(d, author, body),
           AcceptReview(d, author, body), UNCHANGED <<truth_vars, hitl_reviews>>
    PROVE  LifecycleStep
<1>1. Lifecycle!Warranted(d, author, body)
  BY DEF MayPost, Lifecycle!Warranted, AutoPosts
<1>2. Lifecycle!Publish(d, author, body)
  BY <1>1 DEF MayPost, AcceptReview, Lifecycle!Publish, truth_vars, Phase, Claimed
<1> QED BY <1>2 DEF LifecycleStep, Lifecycle!Next

LEMMA UnansweredMaps ==
    ASSUME StoresTypeOK, NEW d \in Deliveries, NEW author \in Jobs \cup Calls,
           NEW body \in SUBSET Rows, MayPost(d, author, body),
           PostUnanswered(d, author, body), UNCHANGED <<truth_vars, hitl_reviews>>
    PROVE  LifecycleStep
  BY PostMaps, QuietMaps DEF PostUnanswered

-----------------------------------------------------------------------------
(* The actions *)

\* The writes of aggregate: the invariant of the run gives each its warrant.
LEMMA JobWriteMaps ==
    ASSUME IInv, NEW j \in Jobs,
           \/ UpsertReview(j) \/ AggUpsert(j) \/ AggInsert(j) \/ AggEmit(j)
           \/ AggMark(j) \/ AggEnqueue(j) \/ AggStatus(j)
    PROVE  LifecycleStep
<1> DEFINE d == DeliveryOf[j]
<1>0. StoresTypeOK /\ RunInv(j) /\ d \in Deliveries /\ decide(Review(j)) \in Decisions
  BY JobFacts
<1>1. CASE UpsertReview(j) \/ AggUpsert(j)
  BY <1>0, <1>1, UpsertMaps DEF UpsertReview, AggUpsert
<1>2. CASE AggInsert(j)
  <2>1. insert_findings(d, Review(j)) /\ UNCHANGED <<hitl_reviews, github>>
    BY <1>2 DEF AggInsert
  <2>2. status[d] # "absent"
    BY <1>0, <1>2 DEF AggInsert, At, RunInv
  <2> QED BY <1>0, <2>1, <2>2, InsertMaps
<1>3. CASE AggEmit(j)
  <2>1. emit_decision(d, decide(Review(j))) /\ UNCHANGED <<hitl_reviews, github>>
    BY <1>3 DEF AggEmit
  <2>2. status[d] # "absent"
    BY <1>0, <1>3 DEF AggEmit, At, RunInv
  <2> QED BY <1>0, <2>1, <2>2, EmitMaps
<1>4. CASE AggMark(j)
  <2>1. mark_posted(d, posted_id[j]) /\ UNCHANGED <<hitl_reviews, github>>
    BY <1>4 DEF AggMark
  <2>2. posted_id[j] \in DOMAIN github[d]
    BY <1>0, <1>4 DEF AggMark, At, RunInv
  <2> QED BY <1>0, <2>1, <2>2, MarkMaps
<1>5. CASE AggEnqueue(j)
  <2>1. enqueue(d) /\ UNCHANGED <<truth_vars, github>>
    BY <1>5 DEF AggEnqueue
  <2>2. decision_events[d] \cap {"queued", "escalated"} # {}
    BY <1>0, <1>5 DEF AggEnqueue, At, RunInv
  <2> QED BY <1>0, <2>1, <2>2, EnqueueMaps
<1>6. CASE AggStatus(j)
  <2>1. PICK new \in {"needs_human", "escalated"} : set_status(d, new)
    BY <1>6 DEF AggStatus
  <2>2. hitl_reviews[d] # <<>> /\ UNCHANGED <<hitl_reviews, github>>
    BY <1>0, <1>6 DEF AggStatus, At, RunInv
  <2> QED BY <1>0, <2>1, <2>2, SetStatusMaps
<1> QED BY <1>1, <1>2, <1>3, <1>4, <1>5, <1>6

LEMMA JobPostMaps ==
    ASSUME IInv, NEW j \in Jobs, AggPost(j) \/ AggPostUnanswered(j)
    PROVE  LifecycleStep
<1> DEFINE d == DeliveryOf[j]
<1>0. StoresTypeOK /\ RunInv(j) /\ d \in Deliveries /\ Review(j) \in SUBSET Rows
  BY JobFacts
<1>1. MayPost(d, j, Review(j))
  BY <1>0, DomainAssumption DEF AggPost, AggPostUnanswered, At, RunInv, MayPost
<1>2. CASE AggPost(j)
  BY <1>0, <1>1, <1>2, PostMaps DEF AggPost
<1>3. CASE AggPostUnanswered(j)
  BY <1>0, <1>1, <1>3, UnansweredMaps DEF AggPostUnanswered
<1> QED BY <1>2, <1>3

LEMMA CallMaps ==
    ASSUME IInv, NEW c \in Calls, Approve(c) \/ Reject(c) \/ CallStep(c) \/ CallFails(c)
    PROVE  LifecycleStep
<1> DEFINE d == ReviewOf[c]
<1>0. StoresTypeOK /\ CallInv(c) /\ d \in Deliveries /\ call_body[c] \in SUBSET Rows
  BY CallFacts
<1>1. CASE Approve(c) \/ Reject(c)
  <2>1. PICK outcome \in {"resolved", "dismissed"} : resolve(d, outcome, c)
    BY <1>1 DEF Approve, Reject, Claim
  <2>2. UNCHANGED <<truth_vars, github>>
    BY <1>1 DEF Approve, Reject, Claim
  <2> QED BY <1>0, <2>1, <2>2, ResolveMaps
<1>2. CASE ReadReview(c) \/ CallFails(c)
  BY <1>2, QuietMaps DEF ReadReview, CallFails
<1>3. CASE ApprovePost(c) \/ ApprovePostUnanswered(c)
  <2>1. MayPost(d, c, call_body[c])
    BY <1>0, <1>3, DomainAssumption
    DEF ApprovePost, ApprovePostUnanswered, CallInv, MayPost
  <2>2. CASE ApprovePost(c)
    BY <1>0, <2>1, <2>2, PostMaps DEF ApprovePost
  <2>3. CASE ApprovePostUnanswered(c)
    BY <1>0, <2>1, <2>3, UnansweredMaps DEF ApprovePostUnanswered
  <2> QED BY <1>3, <2>2, <2>3
<1>4. CASE ApproveMark(c)
  <2>1. mark_posted(d, call_posted_id[c]) /\ UNCHANGED <<hitl_reviews, github>>
    BY <1>4 DEF ApproveMark
  <2>2. call_posted_id[c] \in DOMAIN github[d]
    BY <1>0, <1>4 DEF ApproveMark, CallInv
  <2> QED BY <1>0, <2>1, <2>2, MarkMaps
<1> QED BY <1>1, <1>2, <1>3, <1>4 DEF CallStep

\* What arq, the engine, the saver and the faults do stays below the abstraction.
LEMMA QuietActions ==
    ASSUME NEW j \in Jobs,
           \/ EnqueueReview(j) \/ StartJob(j) \/ GiveUp(j) \/ EngineRun(j) \/ Finish(j)
           \/ (\E a \in Specialists : Specialist(j, a)) \/ BackgroundSave(j)
           \/ WorkerDies(j) \/ JobFails(j) \/ RedisRestart
    PROVE  UNCHANGED <<truth_vars, hitl_reviews, github>>
<1>1. CASE EnqueueReview(j) \/ StartJob(j) \/ GiveUp(j) \/ EngineRun(j) \/ Finish(j)
  BY <1>1 DEF EnqueueReview, StartJob, GiveUp, EngineRun, Finish, store_vars
<1>2. CASE (\E a \in Specialists : Specialist(j, a)) \/ BackgroundSave(j)
  BY <1>2 DEF Specialist, BackgroundSave, SaveStart, SaveJoin, SaveWrites, store_vars
<1>3. CASE WorkerDies(j) \/ JobFails(j) \/ RedisRestart
  BY <1>3 DEF WorkerDies, JobFails, RedisRestart, store_vars
<1> QED BY <1>1, <1>2, <1>3

LEMMA NextMaps ==
    ASSUME IInv, [Next]_vars
    PROVE  LifecycleStep
<1>1. ASSUME NEW j \in Jobs, WorkerStep(j) PROVE LifecycleStep
  BY <1>1, JobWriteMaps, JobPostMaps, QuietActions, QuietMaps DEF WorkerStep
<1>2. ASSUME NEW j \in Jobs,
             EnqueueReview(j) \/ BackgroundSave(j) \/ WorkerDies(j) \/ JobFails(j)
      PROVE  LifecycleStep
  BY <1>2, QuietActions, QuietMaps
<1>3. CASE RedisRestart
  BY <1>3, QuietMaps DEF RedisRestart
<1>4. CASE UNCHANGED vars
  BY <1>4, QuietMaps DEF vars, store_vars
<1> QED BY <1>1, <1>2, <1>3, <1>4, CallMaps DEF Next, WorkerNext, HitlApiNext

\* Whatever is cut off, repeated or interleaved, a delivery's review lives the
\* abstract life: effects follow their records, posts have a warrant, findings
\* and claims are never taken back.
THEOREM ImplementsLifecycleAlways == Spec => ImplementsLifecycle
<1>1. Init => Lifecycle!Init
  <2> SUFFICES ASSUME Init PROVE Lifecycle!Init
    OBVIOUS
  <2>1. \A d \in Deliveries :
          /\ Phase(d) = "absent" /\ RowKeys(finding_records[d]) = {}
          /\ hitl_reviews[d] = <<>>
          /\ {c \in Calls : Claimed(d, "resolved", c)} = {}
    BY DEF Init, TruthStoreInit, HitlQueueInit, Phase, RowKeys, Claimed
  <2> QED BY <2>1 DEF Init, TruthStoreInit, GitHubInit, Lifecycle!Init
<1>2. IInv /\ [Next]_vars => [Lifecycle!Next]_(Lifecycle!vars)
  BY NextMaps DEF LifecycleStep
<1> QED BY <1>1, <1>2, Invariant, PTL DEF Spec, ImplementsLifecycle, Lifecycle!Spec

-----------------------------------------------------------------------------
(* Runs that follow each other: what a step leaves alone *)

SameEffects(d) ==
    /\ github'[d] = github[d] /\ hitl_reviews'[d] = hitl_reviews[d]
    /\ finding_records'[d] = finding_records[d] /\ github_review_id'[d] = github_review_id[d]

SameJob(j) ==
    /\ job_state'[j] = job_state[j] /\ job_try'[j] = job_try[j]
    /\ pc'[j] = pc[j] /\ results'[j] = results[j]

SameCall(c) ==
    /\ call'[c] = call[c] /\ call_body'[c] = call_body[c]
    /\ call_posted_id'[c] = call_posted_id[c]

\* A delivery once interrupted stays so.
LEMMA WasUninterrupted ==
    ASSUME NEW d,
           \A j \in JobsOf(d) : /\ job_try[j] > 0 => job_try'[j] > 0
                                /\ job_state[j] = "failed" => job_state'[j] = "failed"
                                /\ Died(j) => Died(j)',
           Uninterrupted(d)'
    PROVE  Uninterrupted(d)
  BY DEF Uninterrupted, JobsOf, Started

LEMMA SoloStays ==
    ASSUME NEW d, Solo(d), \A j \in JobsOf(d) : Active(j)' => Active(j)
    PROVE  Solo(d)'
  BY DEF Solo, JobsOf

LEMMA JobTurnStays ==
    ASSUME NEW j, JobTurn(j), SameEffects(DeliveryOf[j]),
           pc'[j] = pc[j], results'[j] = results[j]
    PROVE  JobTurn(j)'
  BY DEF JobTurn, SameEffects, NothingOut, Joined, Review

LEMMA CourseStays ==
    ASSUME NEW d, Course(d), SameEffects(d)
    PROVE  Course(d)'
  BY DEF Course, SameEffects

LEMMA CallStays ==
    ASSUME NEW c, SameEffects(ReviewOf[c]), SameCall(c)
    PROVE  /\ PostAnswered(c) => PostAnswered(c)'
           /\ CallTurn(c) => CallTurn(c)'
  BY DEF PostAnswered, CallTurn, SameEffects, SameCall

LEMMA RestStays ==
    ASSUME NEW d, Rest(d), SameEffects(d), Decided(d) => Decided(d)',
           \A j \in JobsOf(d) :
              /\ pc'[j] \in {"idle", "upsert"} => pc[j] \in {"idle", "upsert"}
              /\ Started(j) /\ job_state[j] = "failed"
                   => Started(j)' /\ job_state'[j] = "failed"
    PROVE  Rest(d)'
  BY DEF Rest, SameEffects, NothingOut, JobsOf

\* A delivery that a step does not touch.
LEMMA OtherTurn ==
    ASSUME NEW d \in Deliveries, Turn(d), SameEffects(d), Decided(d) => Decided(d)',
           \A j \in JobsOf(d) : SameJob(j),
           \A c \in Calls : ReviewOf[c] = d => SameCall(c)
    PROVE  Turn(d)'
<1>1. Solo(d)'
  BY SoloStays DEF Turn, Active, SameJob
<1>2. \A c \in Calls : ReviewOf[c] = d => PostAnswered(c)'
  BY CallStays DEF Turn
<1>3. ASSUME Uninterrupted(d)'
      PROVE  /\ Course(d)' /\ Rest(d)' /\ (\A j \in JobsOf(d) : JobTurn(j))'
             /\ \A c \in Calls : ReviewOf[c] = d => CallTurn(c)'
  <2>1. Uninterrupted(d)
    BY <1>3, WasUninterrupted DEF SameJob, Started, Died
  <2>2. /\ Course(d) /\ Rest(d) /\ (\A j \in JobsOf(d) : JobTurn(j))
        /\ \A c \in Calls : ReviewOf[c] = d => CallTurn(c)
    BY <2>1 DEF Turn
  <2>3. Course(d)'
    BY <2>2, CourseStays
  <2>4. Rest(d)'
    BY <2>2, RestStays DEF SameJob, Started
  <2>5. ASSUME NEW j \in JobsOf(d) PROVE JobTurn(j)'
    BY <2>2, JobTurnStays DEF JobsOf, SameJob
  <2>6. \A c \in Calls : ReviewOf[c] = d => CallTurn(c)'
    BY <2>2, CallStays
  <2> QED BY <2>3, <2>4, <2>5, <2>6 DEF JobsOf
<1> QED BY <1>1, <1>2, <1>3 DEF Turn

-----------------------------------------------------------------------------
(* A step of one job, or of one request *)

TurnFacts(d) ==
    /\ Course(d) /\ Rest(d)
    /\ \A j \in JobsOf(d) : JobTurn(j)
    /\ \A c \in Calls : ReviewOf[c] = d => CallTurn(c)

\* The other jobs of a delivery rest while one is at work.
LEMMA OthersRest ==
    ASSUME IInv, TurnInv, NEW j \in Jobs, Running(j),
           NEW k \in JobsOf(DeliveryOf[j]), k # j
    PROVE  ~Running(k) /\ pc[k] = "idle"
<1>1. Solo(DeliveryOf[j]) /\ k \in Jobs /\ RunInv(k)
  BY DomainAssumption DEF TurnInv, Turn, IInv, JobsOf
<1> QED BY <1>1 DEF Solo, Active, Running, JobsOf, RunInv

\* A step of a job that changes no effect.
LEMMA QuietMove ==
    ASSUME TurnInv, StoresGrow, NEW j \in Jobs, NEW d \in Deliveries, DeliveryOf[j] = d,
           \A e \in Deliveries : SameEffects(e), UNCHANGED call_vars,
           \A k \in Jobs \ {j} : SameJob(k),
           Solo(d)', Running(j)' => Started(j)', Started(j) => Started(j)',
           job_state[j] = "failed" => job_state'[j] = "failed", Died(j) => Died(j)',
           Uninterrupted(d) /\ Uninterrupted(d)' /\ TurnFacts(d)
              => JobTurn(j)' /\ Rest(d)'
    PROVE  TurnInv'
<1>0. j \in JobsOf(d)
  BY DEF JobsOf
<1>1. \A c \in Calls : SameCall(c)
  BY DEF SameCall, call_vars
<1>2. ASSUME NEW e \in Deliveries \ {d} PROVE Turn(e)'
  <2>1. \A k \in JobsOf(e) : SameJob(k)
    BY DEF JobsOf
  <2> QED BY <1>1, <2>1, OtherTurn DEF TurnInv, StoresGrow
<1>3. Turn(d)'
  <2>1. \A c \in Calls : ReviewOf[c] = d => PostAnswered(c)'
    BY <1>0, <1>1, CallStays DEF TurnInv, Turn
  <2>2. ASSUME Uninterrupted(d)'
        PROVE  /\ Course(d)' /\ Rest(d)' /\ (\A k \in JobsOf(d) : JobTurn(k))'
               /\ \A c \in Calls : ReviewOf[c] = d => CallTurn(c)'
    <3>1. \A k \in JobsOf(d) : /\ job_try[k] > 0 => job_try'[k] > 0
                               /\ job_state[k] = "failed" => job_state'[k] = "failed"
                               /\ Died(k) => Died(k)'
      BY DEF SameJob, Started, Died, JobsOf
    <3>2. Uninterrupted(d)
      BY <2>2, <3>1, WasUninterrupted
    <3>3. TurnFacts(d)
      BY <1>0, <3>2 DEF TurnInv, Turn, TurnFacts
    <3>4. JobTurn(j)' /\ Rest(d)'
      BY <2>2, <3>2, <3>3
    <3>5. Course(d)' /\ \A c \in Calls : ReviewOf[c] = d => CallTurn(c)'
      BY <1>0, <1>1, <3>3, CourseStays, CallStays DEF TurnFacts
    <3>6. ASSUME NEW k \in JobsOf(d), k # j PROVE JobTurn(k)'
      BY <1>0, <3>3, <3>6, JobTurnStays DEF TurnFacts, JobsOf, SameJob
    <3> QED BY <3>4, <3>5, <3>6 DEF JobsOf
  <2> QED BY <2>1, <2>2 DEF Turn
<1>4. (\A k \in Jobs : Running(k) => Started(k))'
  BY DEF TurnInv, SameJob, Running, Started
<1> QED BY <1>2, <1>3, <1>4 DEF TurnInv

\* A job at work stays the only one, and its delivery as interrupted as it was.
LEMMA WorkMove ==
    ASSUME IInv, TurnInv, StoresGrow, NEW j \in Jobs, NEW d \in Deliveries, DeliveryOf[j] = d,
           Running(j),
           \A e \in Deliveries \ {d} : SameEffects(e),
           UNCHANGED <<job_state, job_try, results, call_vars>>,
           \A k \in Jobs \ {j} : pc'[k] = pc[k],
           pc'[j] \notin {"idle", "upsert"},
           \A c \in Calls : ReviewOf[c] = d => PostAnswered(c)',
           Uninterrupted(d) /\ TurnFacts(d)
              => /\ Course(d)' /\ JobTurn(j)'
                 /\ \A c \in Calls : ReviewOf[c] = d => CallTurn(c)'
    PROVE  TurnInv'
<1>0. j \in JobsOf(d)
  BY DEF JobsOf
<1>1. \A c \in Calls : SameCall(c)
  BY DEF SameCall, call_vars
<1>2. ASSUME NEW e \in Deliveries \ {d} PROVE Turn(e)'
  <2>1. \A k \in JobsOf(e) : SameJob(k)
    BY DEF JobsOf, SameJob
  <2> QED BY <1>1, <2>1, OtherTurn DEF TurnInv, StoresGrow
<1>3. Turn(d)'
  <2>1. Solo(d)'
    BY <1>0, SoloStays DEF TurnInv, Turn, Active
  <2>2. ASSUME Uninterrupted(d)'
        PROVE  /\ Course(d)' /\ Rest(d)' /\ (\A k \in JobsOf(d) : JobTurn(k))'
               /\ \A c \in Calls : ReviewOf[c] = d => CallTurn(c)'
    <3>1. Uninterrupted(d)
      BY <2>2, WasUninterrupted DEF Started, Died
    <3>2. TurnFacts(d)
      BY <1>0, <3>1 DEF TurnInv, Turn, TurnFacts
    <3>3. Rest(d)'
      BY <1>0 DEF Rest, JobsOf
    <3>4. ASSUME NEW k \in JobsOf(d), k # j PROVE JobTurn(k)'
      <4>1. pc'[k] = "idle"
        BY <3>4, OthersRest DEF JobsOf
      <4> QED BY <4>1 DEF JobTurn
    <3> QED BY <3>1, <3>2, <3>3, <3>4 DEF JobsOf
  <2> QED BY <2>1, <2>2 DEF Turn
<1>4. (\A k \in Jobs : Running(k) => Started(k))'
  BY DEF TurnInv, Running, Started
<1> QED BY <1>2, <1>3, <1>4 DEF TurnInv

\* A step of a request moves no job.
LEMMA CallMove ==
    ASSUME TurnInv, StoresGrow, NEW c \in Calls, NEW d \in Deliveries, ReviewOf[c] = d,
           \A e \in Deliveries \ {d} : SameEffects(e),
           UNCHANGED <<job_state, job_try, results, pc>>,
           \A b \in Calls \ {c} : SameCall(b),
           \A b \in Calls : ReviewOf[b] = d => PostAnswered(b)',
           Uninterrupted(d) /\ TurnFacts(d) => TurnFacts(d)'
    PROVE  TurnInv'
<1>1. \A j \in Jobs : SameJob(j)
  BY DEF SameJob
<1>2. ASSUME NEW e \in Deliveries \ {d} PROVE Turn(e)'
  <2>1. \A k \in JobsOf(e) : SameJob(k)
    BY <1>1 DEF JobsOf
  <2>2. \A b \in Calls : ReviewOf[b] = e => SameCall(b)
    OBVIOUS
  <2> QED BY <2>1, <2>2, OtherTurn DEF TurnInv, StoresGrow
<1>3. Turn(d)'
  <2>1. Solo(d)'
    BY SoloStays DEF TurnInv, Turn, Active
  <2>2. ASSUME Uninterrupted(d)' PROVE TurnFacts(d)'
    <3>1. Uninterrupted(d)
      BY <2>2, WasUninterrupted DEF Started, Died
    <3>2. TurnFacts(d)
      BY <3>1 DEF TurnInv, Turn, TurnFacts
    <3> QED BY <3>1, <3>2
  <2> QED BY <2>1, <2>2 DEF Turn, TurnFacts
<1>4. (\A k \in Jobs : Running(k) => Started(k))'
  BY DEF TurnInv, Running, Started
<1> QED BY <1>2, <1>3, <1>4 DEF TurnInv

-----------------------------------------------------------------------------
(* The steps of a job *)

LEMMA Effectless ==
    ASSUME UNCHANGED <<github, hitl_reviews, finding_records, github_review_id>>
    PROVE  \A e \in Deliveries : SameEffects(e)
  BY DEF SameEffects

LEMMA QueueTurn ==
    ASSUME RepliesArrive, IInv, TurnInv, StoresGrow, NEW j \in Jobs,
           EnqueueReview(j) \/ StartJob(j) \/ GiveUp(j), UNCHANGED call_vars,
           "overlap" \notin Faults \/ \A e \in Deliveries : Solo(e)'
    PROVE  TurnInv'
<1>0. PICK d \in Deliveries : DeliveryOf[j] = d
  BY DomainAssumption
<1>1. WorkerTypeOK /\ RunInv(j) /\ Turn(d) /\ (\A e \in Deliveries : SameEffects(e))
  BY Effectless DEF IInv, TypeOK, TurnInv, EnqueueReview, StartJob, GiveUp, store_vars, truth_vars
<1>2. CASE EnqueueReview(j)
  <2>1. /\ \A k \in Jobs \ {j} : SameJob(k)
        /\ job_state[j] = "idle" /\ job_state'[j] = "queued"
        /\ UNCHANGED <<job_try, pc, results>>
    BY <1>1, <1>2 DEF EnqueueReview, run_vars, WorkerTypeOK, SameJob
  <2>2. "overlap" \notin Faults => \A k \in JobsOf(d) \ {j} : ~Active(k)
    BY <1>0, <1>2 DEF EnqueueReview, JobsOf, Active, Settled
  <2>3. Solo(d)'
    BY <1>0, <2>1, <2>2 DEF Solo, Active, SameJob, JobsOf
  <2>4. Running(j)' => Started(j)'
    BY <2>1 DEF Running
  <2>5. TurnFacts(d) => JobTurn(j)' /\ Rest(d)'
    <3>1. TurnFacts(d) => Rest(d)'
      BY <1>1, <2>1, RestStays DEF TurnFacts, StoresGrow, SameJob, JobsOf, Started
    <3>2. TurnFacts(d) => JobTurn(j)'
      BY <1>0, <1>1, <2>1, JobTurnStays DEF TurnFacts, JobsOf
    <3> QED BY <3>1, <3>2
  <2>6. Died(j) => Died(j)'
    BY <2>1 DEF Died, Started
  <2> QED BY <1>0, <1>1, <2>1, <2>3, <2>4, <2>5, <2>6, QuietMove DEF Started
<1>3. CASE StartJob(j)
  <2>1. /\ \A k \in Jobs \ {j} : SameJob(k)
        /\ job_state[j] = "queued" /\ job_state'[j] = "running"
        /\ job_try'[j] > 0 /\ pc'[j] = "upsert" /\ pc[j] = "idle"
        /\ job_try[j] \in Nat /\ job_try'[j] = job_try[j] + 1
    BY <1>1, <1>3, WorkerAssumption DEF StartJob, Goto, WorkerTypeOK, SameJob, RunInv, Running
  <2>2. Solo(d)'
    BY <1>1, <2>1, SoloStays DEF Turn, Active, SameJob, JobsOf
  <2>3. TurnFacts(d) => JobTurn(j)' /\ Rest(d)'
    <3>1. TurnFacts(d) => Rest(d)'
      BY <1>1, <2>1, RestStays DEF TurnFacts, StoresGrow, SameJob, JobsOf, Started
    <3> QED BY <2>1, <3>1 DEF JobTurn
  <2>4. Died(j) => Died(j)'
    BY <2>1 DEF Died, Started
  <2> QED BY <1>0, <1>1, <2>1, <2>2, <2>3, <2>4, QuietMove DEF Started
<1>4. CASE GiveUp(j)
  <2>1. /\ \A k \in Jobs \ {j} : SameJob(k)
        /\ job_state[j] = "queued" /\ job_state'[j] = "failed"
        /\ UNCHANGED <<job_try, pc, results>> /\ job_try[j] > 1
    BY <1>1, <1>4, WorkerAssumption DEF GiveUp, RepliesArrive, run_vars, WorkerTypeOK, SameJob
  <2>2. Solo(d)'
    BY <1>1, <2>1, SoloStays DEF Turn, Active, SameJob, JobsOf
  <2>3. Running(j)' => Started(j)'
    BY <2>1 DEF Running
  <2>4. Died(j) /\ Died(j)' /\ ~Uninterrupted(d)'
    BY <1>0, <2>1 DEF Died, Uninterrupted, JobsOf
  <2> QED BY <1>0, <1>1, <2>1, <2>2, <2>3, <2>4, QuietMove DEF Started
<1> QED BY <1>2, <1>3, <1>4

\* A job leaves: with its review decided, or failed and never to be followed
\* without an interruption.
LEMMA LeaveTurn ==
    ASSUME IInv, TurnInv, StoresGrow, NEW j \in Jobs, Running(j),
           NEW state \in {"done", "failed"}, Leave(j, state), UNCHANGED job_try,
           state = "done" => Decided(DeliveryOf[j])',
           UNCHANGED <<github, hitl_reviews, finding_records, github_review_id, call_vars>>
    PROVE  TurnInv'
<1>0. PICK d \in Deliveries : DeliveryOf[j] = d
  BY DomainAssumption
<1>1. WorkerTypeOK /\ Turn(d) /\ Started(j) /\ \A e \in Deliveries : SameEffects(e)
  BY Effectless DEF IInv, TypeOK, TurnInv
<1>2. /\ \A k \in Jobs \ {j} : SameJob(k)
      /\ job_state'[j] = state /\ job_try'[j] = job_try[j] /\ pc'[j] = "idle"
  BY <1>1 DEF Leave, Goto, WorkerTypeOK, SameJob
<1>3. Solo(d)' /\ ~Running(j)'
  BY <1>1, <1>2, SoloStays DEF Turn, Active, Running, SameJob, JobsOf
<1>4. job_state[j] # "failed"
  BY DEF Running
<1>5. Rest(d)'
  <2>1. CASE state = "done"
    BY <1>0, <2>1 DEF Rest
  <2>2. CASE state = "failed"
    BY <1>0, <1>1, <1>2, <2>2 DEF Rest, Started, JobsOf
  <2> QED BY <2>1, <2>2
<1>6. JobTurn(j)'
  BY <1>2 DEF JobTurn
<1>7. Died(j) => Died(j)'
  BY <1>2 DEF Died, Started, Running
<1> QED BY <1>0, <1>1, <1>2, <1>3, <1>4, <1>5, <1>6, <1>7, QuietMove DEF Started

\* The worker dies under a job: nobody relies on its delivery any more.
LEMMA WorkerDiesTurn ==
    ASSUME IInv, TurnInv, StoresGrow, NEW j \in Jobs, WorkerDies(j), UNCHANGED call_vars
    PROVE  TurnInv'
<1>0. PICK d \in Deliveries : DeliveryOf[j] = d
  BY DomainAssumption
<1>1. /\ WorkerTypeOK /\ Turn(d) /\ Running(j) /\ Started(j)
      /\ \A e \in Deliveries : SameEffects(e)
  BY Effectless DEF WorkerDies, store_vars, truth_vars, IInv, TypeOK, TurnInv
<1>2. /\ \A k \in Jobs \ {j} : SameJob(k)
      /\ job_state'[j] \in {"queued", "lost"} /\ job_try'[j] = job_try[j]
  BY <1>1 DEF WorkerDies, Leave, Goto, WorkerTypeOK, SameJob
<1>3. Solo(d)' /\ ~Running(j)'
  BY <1>1, <1>2, SoloStays DEF Turn, Active, Running, SameJob, JobsOf
<1>4. Died(j)' /\ ~Uninterrupted(d)'
  BY <1>0, <1>1, <1>2 DEF Died, Started, Uninterrupted, JobsOf
<1>5. job_state[j] # "failed"
  BY <1>1 DEF Running
<1> QED BY <1>0, <1>1, <1>2, <1>3, <1>4, <1>5, QuietMove DEF Started

\* A job at work goes on without an effect.
LEMMA MoveTurn ==
    ASSUME IInv, TurnInv, StoresGrow, NEW j \in Jobs, NEW d \in Deliveries, DeliveryOf[j] = d,
           Running(j), UNCHANGED <<job_state, job_try>>, pc'[j] \notin {"idle", "upsert"},
           \A k \in Jobs \ {j} : pc'[k] = pc[k] /\ results'[k] = results[k],
           UNCHANGED <<github, hitl_reviews, finding_records, github_review_id, call_vars>>,
           Uninterrupted(d) /\ TurnFacts(d) => JobTurn(j)'
    PROVE  TurnInv'
<1>1. Turn(d) /\ Started(j) /\ j \in JobsOf(d) /\ \A e \in Deliveries : SameEffects(e)
  BY Effectless DEF TurnInv, JobsOf
<1>2. \A k \in Jobs \ {j} : SameJob(k)
  BY DEF SameJob
<1>3. Solo(d)'
  BY <1>1, SoloStays DEF Turn, Active
<1>4. Rest(d)'
  BY <1>1 DEF Rest
<1>5. Died(j) => Died(j)'
  BY DEF Died, Started
<1> QED BY <1>1, <1>2, <1>3, <1>4, <1>5, QuietMove DEF Started

LEMMA GotoMoves ==
    ASSUME IInv, NEW j \in Jobs, NEW label, Goto(j, label)
    PROVE  pc'[j] = label /\ \A k \in Jobs \ {j} : pc'[k] = pc[k]
  BY DEF IInv, TypeOK, WorkerTypeOK, Goto

\* A review not decided yet is untouched: an earlier job that had worked on it
\* would have failed, and this delivery would be interrupted.
LEMMA UpsertReviewTurn ==
    ASSUME IInv, IInv', TurnInv, StoresGrow, NEW j \in Jobs, UpsertReview(j),
           UNCHANGED call_vars
    PROVE  TurnInv'
<1>0. PICK d \in Deliveries : DeliveryOf[j] = d
  BY DomainAssumption
<1>1. /\ Running(j) /\ pc[j] = "upsert" /\ upsert_review(d)
      /\ UNCHANGED <<job_try, github, hitl_reviews, finding_records, github_review_id>>
  BY <1>0 DEF UpsertReview, At, upsert_review
<1>2. StoresTypeOK
  BY DEF IInv, TypeOK, StoresTypeOK
<1>3. CASE status'[d] # "pending"
  <2>1. Leave(j, "done")
    BY <1>0, <1>3 DEF UpsertReview, AlreadyDecided
  <2>2. Decided(d)'
    BY <1>1, <1>2, <1>3 DEF upsert_review, StoresTypeOK, TruthStoreTypeOK, Decided
  <2> QED BY <1>0, <1>1, <2>1, <2>2, LeaveTurn
<1>4. CASE status'[d] = "pending"
  <2>1. Goto(j, "engine") /\ UNCHANGED <<job_state, results>>
    BY <1>0, <1>4 DEF UpsertReview, AlreadyDecided
  <2>2. ASSUME Uninterrupted(d), TurnFacts(d) PROVE JobTurn(j)'
    <3>1. \A k \in JobsOf(d) :
            pc[k] \in {"idle", "upsert"} /\ ~(Started(k) /\ job_state[k] = "failed")
      <4>1. Started(j) /\ job_state[j] # "failed" /\ j \in JobsOf(d)
        BY <1>0, <1>1 DEF TurnInv, Running, JobsOf
      <4> QED BY <1>0, <1>1, <2>2, <4>1, OthersRest DEF Uninterrupted
    <3>2. ~Decided(d)
      BY <1>1, <1>2, <1>4 DEF upsert_review, StoresTypeOK, TruthStoreTypeOK, Decided
    <3>3. NothingOut(d) /\ finding_records[d] = {}
      BY <2>2, <3>1, <3>2 DEF TurnFacts, Rest
    <3>4. pc'[j] = "engine"
      BY <2>1, GotoMoves
    <3> QED BY <1>0, <1>1, <3>3, <3>4 DEF JobTurn, NothingOut
  <2>3. pc'[j] = "engine" /\ \A k \in Jobs \ {j} : pc'[k] = pc[k]
    BY <2>1, GotoMoves
  <2> QED BY <1>0, <1>1, <2>1, <2>2, <2>3, MoveTurn
<1> QED BY <1>3, <1>4

LEMMA EngineTurn ==
    ASSUME IInv, IInv', TurnInv, StoresGrow, NEW j \in Jobs,
           EngineRun(j) \/ (\E a \in Specialists : Specialist(j, a)), UNCHANGED call_vars
    PROVE  TurnInv'
<1>0. PICK d \in Deliveries : DeliveryOf[j] = d
  BY DomainAssumption
<1>1. /\ Running(j) /\ pc[j] \in {"engine", "fan_out"} /\ WorkerTypeOK
      /\ UNCHANGED <<job_try, github, hitl_reviews, finding_records, github_review_id>>
  BY DEF EngineRun, Specialist, At, store_vars, truth_vars, queue_vars, IInv, TypeOK
<1>2. CASE Leave(j, "done")
  <2>1. Decided(d)'
    BY <1>0, <1>1, <1>2 DEF Leave, WorkerTypeOK, IInv, RunInv
  <2> QED BY <1>0, <1>1, <1>2, <2>1, LeaveTurn
<1>3. CASE /\ pc'[j] = "fan_out" /\ UNCHANGED job_state
           /\ \A k \in Jobs \ {j} : pc'[k] = pc[k] /\ results'[k] = results[k]
  <2>1. ASSUME TurnFacts(d) PROVE JobTurn(j)'
    <3>1. JobTurn(j)
      BY <1>0, <2>1 DEF TurnFacts, JobsOf
    <3> QED BY <1>1, <1>3, <3>1 DEF JobTurn, NothingOut
  <2> QED BY <1>0, <1>1, <1>3, <2>1, MoveTurn
<1>4. CASE \E a \in Specialists : Specialist(j, a)
  BY <1>1, <1>3, <1>4 DEF Specialist, At, queue_vars, WorkerTypeOK
<1>5. CASE EngineRun(j) /\ ~Leave(j, "done")
  BY <1>1, <1>3, <1>5, GotoMoves DEF EngineRun, WorkerTypeOK
<1> QED BY <1>2, <1>4, <1>5

LEMMA SaveTurn ==
    ASSUME IInv, TurnInv, StoresGrow, NEW j \in Jobs, BackgroundSave(j), UNCHANGED call_vars
    PROVE  TurnInv'
<1>0. PICK d \in Deliveries : DeliveryOf[j] = d
  BY DomainAssumption
<1>1. /\ Running(j)
      /\ UNCHANGED <<job_state, job_try, pc, results, github, hitl_reviews,
                     finding_records, github_review_id>>
  BY DEF BackgroundSave, SaveStart, SaveJoin, SaveWrites, queue_vars, run_vars, truth_vars
<1>2. Turn(d) /\ j \in JobsOf(d) /\ Started(j) /\ \A e \in Deliveries : SameEffects(e)
  BY <1>0, <1>1, Effectless DEF TurnInv, JobsOf
<1>3. (\A k \in Jobs : SameJob(k)) /\ Solo(d)'
  BY <1>1, <1>2, SoloStays DEF SameJob, Turn, Active
<1>4. TurnFacts(d) => JobTurn(j)' /\ Rest(d)'
  BY <1>0, <1>2, <1>3, JobTurnStays, RestStays DEF TurnFacts, StoresGrow, SameJob, Started, JobsOf
<1>5. Died(j) => Died(j)'
  BY <1>1 DEF Died, Started
<1> QED BY <1>0, <1>1, <1>2, <1>3, <1>4, <1>5, QuietMove DEF Started

LEMMA AggMoveTurn ==
    ASSUME IInv, IInv', TurnInv, StoresGrow, NEW j \in Jobs,
           AggUpsert(j) \/ AggEmit(j) \/ AggStatus(j), UNCHANGED call_vars
    PROVE  TurnInv'
<1>0. PICK d \in Deliveries : DeliveryOf[j] = d
  BY DomainAssumption
<1>1. /\ Running(j)
      /\ UNCHANGED <<job_state, job_try, results, github, hitl_reviews,
                     finding_records, github_review_id>>
  BY DEF AggUpsert, AggEmit, AggStatus, At, upsert_review, emit_decision, set_status, queue_vars
<1>2. PICK label :
        /\ Goto(j, label)
        /\ \/ label = "finish"
           \/ label = "agg_insert" /\ pc[j] = "fan_out" /\ Joined(j)
           \/ label = AfterDecision(j) /\ pc[j] = "agg_emit"
  <2>1. CASE AggUpsert(j)
    <3>1. Goto(j, "finish") \/ Goto(j, "agg_insert")
      BY <2>1 DEF AggUpsert
    <3> QED BY <2>1, <3>1 DEF AggUpsert, At
  <2>2. CASE AggEmit(j)
    BY <2>2 DEF AggEmit, At
  <2>3. CASE AggStatus(j)
    BY <2>3 DEF AggStatus
  <2> QED BY <2>1, <2>2, <2>3
<1>3. pc'[j] = label /\ \A k \in Jobs \ {j} : pc'[k] = pc[k]
  BY <1>2, GotoMoves
<1>4. ASSUME TurnFacts(d) PROVE JobTurn(j)'
  <2>1. JobTurn(j)
    BY <1>0, <1>4 DEF TurnFacts, JobsOf
  <2>2. Joined(j)' = Joined(j) /\ Review(j)' = Review(j) /\ decide(Review(j))' = decide(Review(j))
    BY <1>1 DEF Joined, Review
  <2> QED BY <1>0, <1>1, <1>2, <1>3, <2>1, <2>2 DEF JobTurn, NothingOut, AfterDecision
<1>5. label \notin {"idle", "upsert"}
  BY <1>2 DEF AfterDecision
<1> QED BY <1>0, <1>1, <1>3, <1>4, <1>5, MoveTurn

\* Without lost replies a request that went unanswered changed nothing.
LEMMA UnansweredTurn ==
    ASSUME RepliesArrive, IInv, IInv', TurnInv, StoresGrow, NEW j \in Jobs,
           AggPostUnanswered(j) \/ JobFails(j) \/ Finish(j), UNCHANGED call_vars
    PROVE  TurnInv'
<1>0. PICK d \in Deliveries : DeliveryOf[j] = d
  BY DomainAssumption
<1>1. /\ Running(j) /\ WorkerTypeOK
      /\ UNCHANGED <<job_try, github, hitl_reviews, finding_records, github_review_id>>
  <2>1. CASE AggPostUnanswered(j)
    BY <2>1 DEF AggPostUnanswered, PostUnanswered, RepliesArrive, At, truth_vars, IInv, TypeOK
  <2>2. CASE JobFails(j) \/ Finish(j)
    BY <2>2 DEF JobFails, Finish, At, truth_vars, store_vars, IInv, TypeOK
  <2> QED BY <2>1, <2>2
<1>2. CASE \E state \in {"done", "failed"} : Leave(j, state)
  <2>1. PICK state \in {"done", "failed"} : Leave(j, state)
    BY <1>2
  <2>2. state = "done" => Decided(d)'
    BY <1>0, <1>1, <2>1 DEF Leave, WorkerTypeOK, IInv, RunInv
  <2> QED BY <1>0, <1>1, <2>1, <2>2, LeaveTurn
<1>3. CASE /\ pc[j] = "agg_post" /\ UNCHANGED <<job_state, pc, results>>
  <2>1. ASSUME TurnFacts(d) PROVE JobTurn(j)'
    <3>1. JobTurn(j) /\ SameEffects(d)
      BY <1>0, <1>1, <2>1 DEF TurnFacts, JobsOf, SameEffects
    <3> QED BY <1>0, <1>3, <3>1, JobTurnStays
  <2> QED BY <1>0, <1>1, <1>3, <2>1, MoveTurn
<1>4. CASE AggPostUnanswered(j)
  BY <1>2, <1>3, <1>4 DEF AggPostUnanswered, At
<1>5. CASE JobFails(j) \/ Finish(j)
  BY <1>2, <1>5 DEF JobFails, Finish, AfterException
<1> QED BY <1>4, <1>5

LEMMA AggInsertTurn ==
    ASSUME IInv, IInv', TurnInv, StoresGrow, NEW j \in Jobs, AggInsert(j), UNCHANGED call_vars
    PROVE  TurnInv'
<1>0. PICK d \in Deliveries : DeliveryOf[j] = d
  BY DomainAssumption
<1>1. /\ Running(j) /\ pc[j] = "agg_insert" /\ insert_findings(d, Review(j))
      /\ UNCHANGED <<job_state, job_try, results, github, hitl_reviews, github_review_id>>
      /\ TruthStoreTypeOK /\ results[j] \in Reports /\ j \in JobsOf(d)
  BY <1>0 DEF AggInsert, At, insert_findings, queue_vars, IInv, TypeOK, WorkerTypeOK, JobsOf
<1>2. pc'[j] = "agg_emit" /\ \A k \in Jobs \ {j} : pc'[k] = pc[k]
  BY GotoMoves DEF AggInsert
<1>3. /\ \A e \in Deliveries \ {d} : SameEffects(e)
      /\ finding_records'[d] = InsertRows(finding_records[d], Review(j))
  BY <1>1 DEF SameEffects, insert_findings, TruthStoreTypeOK
<1>4. \A c \in Calls : /\ PostAnswered(c) => PostAnswered(c)'
                       /\ CallTurn(c) => CallTurn(c)'
  BY <1>1 DEF PostAnswered, CallTurn, call_vars
<1>5. ASSUME Uninterrupted(d), TurnFacts(d) PROVE Course(d)' /\ JobTurn(j)'
  <2>1. NothingOut(d) /\ finding_records[d] = {} /\ Joined(j)
    BY <1>0, <1>1, <1>5 DEF TurnFacts, JobTurn
  <2>2. finding_records'[d] = Review(j)
    BY <1>1, <1>3, <2>1, FirstRowsAreTheReview DEF Review
  <2>3. Joined(j)' /\ Review(j)' = Review(j) /\ NothingOut(d)'
    BY <1>1, <2>1 DEF Joined, Review, NothingOut
  <2>4. JobTurn(j)'
    BY <1>0, <1>2, <2>2, <2>3 DEF JobTurn
  <2>5. Course(d)'
    BY <2>3 DEF Course, NothingOut
  <2> QED BY <2>4, <2>5
<1>6. \A c \in Calls : ReviewOf[c] = d => PostAnswered(c)'
  BY <1>4 DEF TurnInv, Turn
<1>7. TurnFacts(d) => \A c \in Calls : ReviewOf[c] = d => CallTurn(c)'
  BY <1>4 DEF TurnFacts
<1> QED BY <1>0, <1>1, <1>2, <1>3, <1>5, <1>6, <1>7, WorkMove

\* Where nothing is queued, no request has a claim.
LEMMA NoClaims ==
    ASSUME IInv, NEW c \in Calls, hitl_reviews[ReviewOf[c]] = <<>>
    PROVE  call[c] \notin {"read", "post", "mark", "approved"}
<1>1. CallInv(c)
  BY DEF IInv
<1>2. ~Claimed(ReviewOf[c], "resolved", c)
  BY DEF Claimed
<1> QED BY <1>1, <1>2 DEF CallInv

LEMMA AggPostTurn ==
    ASSUME IInv, IInv', TurnInv, StoresGrow, NEW j \in Jobs, AggPost(j), UNCHANGED call_vars
    PROVE  TurnInv'
<1>0. PICK d \in Deliveries : DeliveryOf[j] = d
  BY DomainAssumption
<1>1. /\ Running(j) /\ pc[j] = "agg_post" /\ AcceptReview(d, j, Review(j))
      /\ UNCHANGED <<job_state, job_try, results, finding_records, hitl_reviews, github_review_id>>
      /\ GitHubTypeOK /\ j \in JobsOf(d)
  BY <1>0 DEF AggPost, At, queue_vars, truth_vars, IInv, TypeOK, JobsOf
<1>2. pc'[j] = "agg_mark" /\ \A k \in Jobs \ {j} : pc'[k] = pc[k]
  BY GotoMoves DEF AggPost
<1> DEFINE entry == [by |-> j, body |-> Review(j)]
<1>3. /\ \A e \in Deliveries \ {d} : github'[e] = github[e]
      /\ github'[d] = Append(github[d], entry) /\ github[d] \in Seq(PostedReview)
  BY <1>1 DEF AcceptReview, GitHubTypeOK
<1>4. entry.by \notin Calls
  BY DomainAssumption
<1> HIDE DEF entry
<1>5. \A i \in DOMAIN github'[d] :
         \/ i \in DOMAIN github[d] /\ github'[d][i] = github[d][i]
         \/ github'[d][i] = entry
  BY <1>3
<1>6. \A e \in Deliveries \ {d} : SameEffects(e)
  BY <1>1, <1>3 DEF SameEffects
<1>7. ASSUME NEW c \in Calls, ReviewOf[c] = d PROVE PostAnswered(c)'
  <2>1. PostAnswered(c) /\ CallInv(c)
    BY <1>7 DEF TurnInv, Turn, IInv
  <2>2. call'[c] = call[c] /\ call_posted_id'[c] = call_posted_id[c]
    BY DEF call_vars
  <2>3. call[c] = "mark" => github'[d][call_posted_id[c]] = github[d][call_posted_id[c]]
    BY <1>7, <2>1 DEF CallInv, StoresGrow
  <2> QED BY <1>4, <1>5, <1>7, <2>1, <2>2, <2>3 DEF PostAnswered
<1>8. ASSUME TurnFacts(d)
      PROVE  /\ Course(d)' /\ JobTurn(j)'
             /\ \A c \in Calls : ReviewOf[c] = d => CallTurn(c)'
  <2>1. NothingOut(d) /\ finding_records[d] = Review(j) /\ Joined(j)
    BY <1>0, <1>1, <1>8 DEF TurnFacts, JobTurn
  <2>2. Joined(j)' /\ Review(j)' = Review(j)
    BY <1>1, <2>1 DEF Joined, Review
  <2>3. JobTurn(j)'
    BY <1>0, <1>1, <1>2, <2>1, <2>2 DEF JobTurn, NothingOut
  <2>4. Course(d)'
    BY <1>1, <1>3, <2>1 DEF Course, NothingOut
  <2>5. ASSUME NEW c \in Calls, ReviewOf[c] = d PROVE CallTurn(c)'
    BY <2>1, <2>5, NoClaims DEF CallTurn, NothingOut, call_vars
  <2> QED BY <2>3, <2>4, <2>5
<1> QED BY <1>0, <1>1, <1>2, <1>6, <1>7, <1>8, WorkMove

LEMMA AggMarkTurn ==
    ASSUME IInv, IInv', TurnInv, StoresGrow, NEW j \in Jobs, AggMark(j), UNCHANGED call_vars
    PROVE  TurnInv'
<1>0. PICK d \in Deliveries : DeliveryOf[j] = d
  BY DomainAssumption
<1>1. /\ Running(j) /\ pc[j] = "agg_mark" /\ mark_posted(d, posted_id[j]) /\ j \in JobsOf(d)
      /\ UNCHANGED <<job_state, job_try, results, finding_records, hitl_reviews, github>>
      /\ TruthStoreTypeOK
  BY <1>0 DEF AggMark, At, mark_posted, queue_vars, IInv, TypeOK, JobsOf
<1>2. pc'[j] = "finish" /\ \A k \in Jobs \ {j} : pc'[k] = pc[k]
  BY GotoMoves DEF AggMark, AfterMark
<1>3. \A e \in Deliveries \ {d} : SameEffects(e)
  BY <1>1 DEF SameEffects, mark_posted, TruthStoreTypeOK
<1>4. \A c \in Calls : ReviewOf[c] = d => PostAnswered(c)'
  BY <1>1 DEF TurnInv, Turn, PostAnswered, call_vars
<1>5. ASSUME TurnFacts(d)
      PROVE  /\ Course(d)' /\ JobTurn(j)'
             /\ \A c \in Calls : ReviewOf[c] = d => CallTurn(c)'
  <2>1. hitl_reviews[d] = <<>>
    BY <1>0, <1>1, <1>5 DEF TurnFacts, JobTurn
  <2>2. Course(d)'
    BY <1>1, <1>5 DEF TurnFacts, Course
  <2>3. ASSUME NEW c \in Calls, ReviewOf[c] = d PROVE CallTurn(c)'
    BY <2>1, <2>3, NoClaims DEF CallTurn, call_vars
  <2> QED BY <1>2, <2>2, <2>3 DEF JobTurn
<1> QED BY <1>0, <1>1, <1>2, <1>3, <1>4, <1>5, WorkMove

LEMMA AggEnqueueTurn ==
    ASSUME IInv, IInv', TurnInv, StoresGrow, NEW j \in Jobs, AggEnqueue(j), UNCHANGED call_vars
    PROVE  TurnInv'
<1>0. PICK d \in Deliveries : DeliveryOf[j] = d
  BY DomainAssumption
<1>1. /\ Running(j) /\ pc[j] = "agg_enqueue" /\ enqueue(d) /\ j \in JobsOf(d)
      /\ UNCHANGED <<job_state, job_try, results, finding_records, github_review_id, github>>
      /\ HitlQueueTypeOK /\ results[j] \in Reports
  BY <1>0 DEF AggEnqueue, At, queue_vars, truth_vars, IInv, TypeOK, WorkerTypeOK, JobsOf
<1>2. pc'[j] = "agg_status" /\ \A k \in Jobs \ {j} : pc'[k] = pc[k]
  BY GotoMoves DEF AggEnqueue
<1>3. /\ \A e \in Deliveries \ {d} : hitl_reviews'[e] = hitl_reviews[e]
      /\ hitl_reviews'[d] = Append(hitl_reviews[d], [status |-> "pending", by |-> None])
  BY <1>1 DEF enqueue, HitlQueueTypeOK
<1>4. \A e \in Deliveries \ {d} : SameEffects(e)
  BY <1>1, <1>3 DEF SameEffects
<1>5. \A c \in Calls : /\ PostAnswered(c) => PostAnswered(c)'
                       /\ CallTurn(c) => CallTurn(c)'
  BY <1>1 DEF PostAnswered, CallTurn, call_vars
<1>6. ASSUME TurnFacts(d) PROVE Course(d)'
  <2>1. /\ NothingOut(d) /\ finding_records[d] = Review(j) /\ Joined(j)
        /\ decide(Review(j)) # "auto_post"
    BY <1>0, <1>1, <1>6 DEF TurnFacts, JobTurn
  <2>2. Withheld(finding_records'[d])
    BY <1>1, <2>1 DEF Withheld, Joined, Review
  <2>3. Len(hitl_reviews'[d]) = 1
    BY <1>3, <2>1 DEF NothingOut
  <2> QED BY <1>1, <2>1, <2>2, <2>3 DEF Course, NothingOut
<1>7. JobTurn(j)'
  BY <1>2 DEF JobTurn
<1>8. \A c \in Calls : ReviewOf[c] = d => PostAnswered(c)'
  BY <1>5 DEF TurnInv, Turn
<1>9. TurnFacts(d) => \A c \in Calls : ReviewOf[c] = d => CallTurn(c)'
  BY <1>5 DEF TurnFacts
<1> QED BY <1>0, <1>1, <1>2, <1>4, <1>6, <1>7, <1>8, <1>9, WorkMove

\* Nothing of the stores, the jobs or the requests changes that these facts tell.
LEMMA UnmovedTurn ==
    ASSUME TurnInv, StoresGrow,
           UNCHANGED <<job_try, pc, results, github, hitl_reviews, finding_records,
                       github_review_id, call_vars>>,
           \A j \in Jobs : /\ Active(j)' => Active(j)
                           /\ Running(j)' => Running(j)
                           /\ job_state'[j] = "failed" <=> job_state[j] = "failed"
                           /\ Died(j) => Died(j)'
    PROVE  TurnInv'
<1>1. (\A e \in Deliveries : SameEffects(e)) /\ \A c \in Calls : SameCall(c)
  BY Effectless DEF SameCall, call_vars
<1>2. ASSUME NEW d \in Deliveries PROVE Turn(d)'
  <2>1. Turn(d)
    BY DEF TurnInv
  <2>2. Solo(d)'
    BY <2>1, SoloStays DEF Turn, JobsOf
  <2>3. \A c \in Calls : ReviewOf[c] = d => PostAnswered(c)'
    BY <1>1, <2>1, CallStays DEF Turn
  <2>4. ASSUME Uninterrupted(d)' PROVE TurnFacts(d)'
    <3>1. Uninterrupted(d)
      BY <2>4, WasUninterrupted DEF JobsOf
    <3>2. TurnFacts(d)
      BY <2>1, <3>1 DEF Turn, TurnFacts
    <3>3. Course(d)' /\ \A c \in Calls : ReviewOf[c] = d => CallTurn(c)'
      BY <1>1, <3>2, CourseStays, CallStays DEF TurnFacts
    <3>4. Rest(d)'
      BY <1>1, <3>2, RestStays DEF TurnFacts, StoresGrow, Started, JobsOf
    <3>5. ASSUME NEW j \in JobsOf(d) PROVE JobTurn(j)'
      BY <1>1, <3>2, JobTurnStays DEF TurnFacts, JobsOf
    <3> QED BY <3>3, <3>4, <3>5 DEF TurnFacts, JobsOf
  <2> QED BY <2>2, <2>3, <2>4 DEF Turn, TurnFacts
<1>3. (\A j \in Jobs : Running(j) => Started(j))'
  BY DEF TurnInv, Started
<1> QED BY <1>2, <1>3 DEF TurnInv

LEMMA RedisRestartTurn ==
    ASSUME IInv, TurnInv, StoresGrow, RedisRestart, UNCHANGED call_vars
    PROVE  TurnInv'
<1>1. \A j \in Jobs : job_state'[j] = CASE job_state[j] = "queued" -> "lost"
                                         [] job_state[j] = "running" -> "detached"
                                         [] OTHER -> job_state[j]
  BY DEF RedisRestart
<1>2. \A j \in Jobs : /\ Active(j)' => Active(j)
                      /\ Running(j)' => Running(j)
                      /\ job_state'[j] = "failed" <=> job_state[j] = "failed"
                      /\ Died(j) => Died(j)'
  BY <1>1 DEF Active, Running, Died, Started, RedisRestart
<1> QED BY <1>2, UnmovedTurn DEF RedisRestart, truth_vars

-----------------------------------------------------------------------------
(* The steps of a request *)

\* The one row of a review has one owner.
LEMMA OneClaimer ==
    ASSUME NEW d, Len(hitl_reviews[d]) = 1, hitl_reviews[d] \in Seq(HitlRow),
           NEW b, NEW c, NEW o, NEW p, Claimed(d, o, b), Claimed(d, p, c)
    PROVE  b = c
<1>1. \A i \in DOMAIN hitl_reviews[d] : i = 1
  OBVIOUS
<1>2. hitl_reviews[d][1] = [status |-> o, by |-> b] /\ hitl_reviews[d][1] = [status |-> p, by |-> c]
  BY <1>1 DEF Claimed
<1> QED BY <1>2

\* A request that has claimed a row finds the review withheld, and no other
\* request that claimed one.
LEMMA ClaimedFacts ==
    ASSUME IInv, NEW c \in Calls, NEW d \in Deliveries, ReviewOf[c] = d, Course(d),
           call[c] \in {"read", "post", "mark", "approved"}
    PROVE  /\ hitl_reviews[d] # <<>> /\ Withheld(finding_records[d])
           /\ \A i \in DOMAIN github[d] : github[d][i].by = c
           /\ \A b \in Calls : /\ ReviewOf[b] = d
                               /\ call[b] \in {"read", "post", "mark", "approved"}
                               => b = c
<1>1. Claimed(d, "resolved", c) /\ hitl_reviews[d] \in Seq(HitlRow)
  BY DEF IInv, CallInv, TypeOK, HitlQueueTypeOK
<1>2. hitl_reviews[d] # <<>>
  BY NoClaims
<1>3. /\ Len(hitl_reviews[d]) = 1 /\ Withheld(finding_records[d])
      /\ \A i \in DOMAIN github[d] : github[d][i].by \in Calls
  BY <1>2 DEF Course
<1>4. ASSUME NEW i \in DOMAIN github[d] PROVE github[d][i].by = c
  <2>1. Claimed(d, "resolved", github[d][i].by)
    BY <1>3 DEF IInv, HumanPostWasClaimed
  <2> QED BY <1>1, <1>3, <2>1, OneClaimer
<1>5. ASSUME NEW b \in Calls, ReviewOf[b] = d,
             call[b] \in {"read", "post", "mark", "approved"}
      PROVE  b = c
  <2>1. Claimed(d, "resolved", b)
    BY <1>5 DEF IInv, CallInv
  <2> QED BY <1>1, <1>3, <2>1, OneClaimer
<1> QED BY <1>2, <1>3, <1>4, <1>5

LEMMA ClaimTurn ==
    ASSUME IInv, IInv', TurnInv, StoresGrow, NEW c \in Calls, Approve(c) \/ Reject(c),
           UNCHANGED <<queue_vars, run_vars, checkpoint_vars>>
    PROVE  TurnInv'
<1>0. PICK d \in Deliveries : ReviewOf[c] = d
  BY DomainAssumption
<1>1. /\ UNCHANGED <<job_state, job_try, results, pc, github, finding_records,
                     github_review_id, call_body, call_posted_id>>
      /\ HitlApiTypeOK /\ HitlQueueTypeOK /\ HitlQueueTypeOK'
      /\ \E outcome : resolve(d, outcome, c)
      /\ call[c] = "idle" /\ \E next \in {"read", "rejected", "conflict"} : Becomes(c, next)
  BY <1>0 DEF Approve, Reject, Claim, queue_vars, run_vars, truth_vars, IInv, TypeOK
<1>2. /\ \A e \in Deliveries \ {d} : hitl_reviews'[e] = hitl_reviews[e]
      /\ DOMAIN hitl_reviews'[d] = DOMAIN hitl_reviews[d]
  BY <1>1 DEF resolve, HitlQueueTypeOK
<1>3. Len(hitl_reviews'[d]) = Len(hitl_reviews[d]) /\ (hitl_reviews'[d] = <<>> <=> hitl_reviews[d] = <<>>)
  <2>1. hitl_reviews[d] \in Seq(HitlRow) /\ hitl_reviews'[d] \in Seq(HitlRow)
    BY <1>1 DEF HitlQueueTypeOK
  <2> QED BY <1>2, <2>1
<1>4. (\A e \in Deliveries \ {d} : SameEffects(e)) /\ \A b \in Calls \ {c} : SameCall(b)
  BY <1>1, <1>2 DEF SameEffects, SameCall, Becomes, HitlApiTypeOK
<1>5. call'[c] \in {"read", "rejected", "conflict"}
  BY <1>1 DEF Becomes, HitlApiTypeOK
<1>6. ASSUME NEW b \in Calls, ReviewOf[b] = d PROVE PostAnswered(b)'
  <2>1. PostAnswered(b)
    BY <1>6 DEF TurnInv, Turn
  <2>2. CASE b = c
    BY <1>1, <1>5, <2>1, <2>2 DEF PostAnswered
  <2>3. CASE b # c
    BY <1>1, <1>4, <2>1, <2>3 DEF PostAnswered, SameCall
  <2> QED BY <2>2, <2>3
<1>7. ASSUME TurnFacts(d) PROVE TurnFacts(d)'
  <2>1. NothingOut(d)' <=> NothingOut(d)
    BY <1>1, <1>3 DEF NothingOut
  <2>2. Course(d)'
    BY <1>1, <1>3, <1>7 DEF TurnFacts, Course
  <2>3. Rest(d)'
    BY <1>1, <1>7, <2>1 DEF TurnFacts, Rest, Started, StoresGrow
  <2>4. ASSUME NEW j \in JobsOf(d) PROVE JobTurn(j)'
    <3>1. JobTurn(j) /\ DeliveryOf[j] = d
      BY <1>7 DEF TurnFacts, JobsOf
    <3>2. Joined(j)' = Joined(j) /\ Review(j)' = Review(j) /\ decide(Review(j))' = decide(Review(j))
      BY <1>1 DEF Joined, Review
    <3> QED BY <1>1, <1>3, <2>1, <3>1, <3>2 DEF JobTurn
  <2>5. ASSUME NEW b \in Calls, ReviewOf[b] = d PROVE CallTurn(b)'
    <3>1. CallTurn(b)
      BY <1>7, <2>5 DEF TurnFacts
    <3>2. CASE b = c
      BY <1>5, <3>2 DEF CallTurn
    <3>3. CASE b # c
      BY <1>1, <1>4, <3>1, <3>3 DEF CallTurn, SameCall
    <3> QED BY <3>2, <3>3
  <2> QED BY <2>2, <2>3, <2>4, <2>5 DEF TurnFacts, JobsOf
<1> QED BY <1>0, <1>1, <1>4, <1>6, <1>7, CallMove

\* While a request owns the row no job has anything left to do but the status.
LEMMA OwnerTurn ==
    ASSUME IInv, TurnInv, StoresGrow, NEW c \in Calls, NEW d \in Deliveries, ReviewOf[c] = d,
           call[c] \in {"read", "post", "mark"},
           UNCHANGED <<queue_vars, run_vars, hitl_reviews, finding_records>>,
           \A e \in Deliveries \ {d} :
              github'[e] = github[e] /\ github_review_id'[e] = github_review_id[e],
           \A b \in Calls \ {c} : SameCall(b),
           \A b \in Calls : ReviewOf[b] = d => PostAnswered(b)',
           Uninterrupted(d) /\ TurnFacts(d)
              => Course(d)' /\ \A b \in Calls : ReviewOf[b] = d => CallTurn(b)'
    PROVE  TurnInv'
<1>1. UNCHANGED <<job_state, job_try, results, pc>>
  BY DEF queue_vars, run_vars
<1>2. \A e \in Deliveries \ {d} : SameEffects(e)
  BY DEF SameEffects
<1>3. ASSUME Uninterrupted(d), TurnFacts(d) PROVE TurnFacts(d)'
  <2>1. hitl_reviews[d] # <<>>
    BY <1>3, ClaimedFacts DEF TurnFacts
  <2>2. Rest(d)'
    BY <1>1, <1>3, <2>1 DEF TurnFacts, Rest, NothingOut, Started, StoresGrow
  <2>3. ASSUME NEW j \in JobsOf(d) PROVE JobTurn(j)'
    <3>1. JobTurn(j) /\ DeliveryOf[j] = d
      BY <1>3 DEF TurnFacts, JobsOf
    <3> QED BY <1>1, <2>1, <3>1 DEF JobTurn, NothingOut
  <2> QED BY <1>3, <2>2, <2>3 DEF TurnFacts, JobsOf
<1> QED BY <1>1, <1>2, <1>3, CallMove

\* The findings read back are those the gate withheld.
LEMMA ReadReviewTurn ==
    ASSUME IInv, TurnInv, StoresGrow, NEW c \in Calls, ReadReview(c) \/ CallFails(c),
           UNCHANGED <<queue_vars, run_vars, checkpoint_vars>>
    PROVE  TurnInv'
<1>0. PICK d \in Deliveries : ReviewOf[c] = d
  BY DomainAssumption
<1>1. /\ call[c] \in {"read", "post", "mark"} /\ HitlApiTypeOK
      /\ UNCHANGED <<github, hitl_reviews, finding_records, github_review_id, call_posted_id>>
      /\ \/ call'[c] = "failed" /\ UNCHANGED call_body
         \/ call[c] = "read" /\ call'[c] = "post" /\ call_body'[c] = finding_records[d]
      /\ \A b \in Calls \ {c} : SameCall(b)
  BY <1>0 DEF ReadReview, CallFails, Becomes, SameCall, truth_vars, IInv, TypeOK, HitlApiTypeOK
<1>2. ASSUME NEW b \in Calls, ReviewOf[b] = d PROVE PostAnswered(b)'
  <2>1. PostAnswered(b)
    BY <1>2 DEF TurnInv, Turn
  <2>2. CASE b = c
    BY <1>1, <2>1, <2>2 DEF PostAnswered
  <2>3. CASE b # c
    BY <1>1, <2>1, <2>3 DEF PostAnswered, SameCall
  <2> QED BY <2>2, <2>3
<1>3. ASSUME TurnFacts(d)
      PROVE  Course(d)' /\ \A b \in Calls : ReviewOf[b] = d => CallTurn(b)'
  <2>1. Course(d)'
    BY <1>1, <1>3 DEF TurnFacts, Course
  <2>2. Withheld(finding_records[d])
    BY <1>0, <1>1, <1>3, ClaimedFacts DEF TurnFacts
  <2>3. ASSUME NEW b \in Calls, ReviewOf[b] = d PROVE CallTurn(b)'
    <3>1. CallTurn(b)
      BY <1>3, <2>3 DEF TurnFacts
    <3>2. CASE b = c
      BY <1>1, <2>2, <3>2 DEF CallTurn
    <3>3. CASE b # c
      BY <1>1, <3>1, <3>3 DEF CallTurn, SameCall
    <3> QED BY <3>2, <3>3
  <2> QED BY <2>1, <2>3
<1> QED BY <1>0, <1>1, <1>2, <1>3, OwnerTurn

\* The request that owns the row posts before anyone else has.
LEMMA ApprovePostTurn ==
    ASSUME IInv, TurnInv, StoresGrow, NEW c \in Calls, ApprovePost(c),
           UNCHANGED <<queue_vars, run_vars, checkpoint_vars>>
    PROVE  TurnInv'
<1>0. PICK d \in Deliveries : ReviewOf[c] = d
  BY DomainAssumption
<1> DEFINE entry == [by |-> c, body |-> call_body[c]]
<1>1. /\ call[c] = "post" /\ HitlApiTypeOK
      /\ UNCHANGED <<hitl_reviews, finding_records, github_review_id, call_body>>
      /\ call'[c] = "mark" /\ call_posted_id'[c] = Len(github[d]) + 1
      /\ \A b \in Calls \ {c} : SameCall(b)
  BY <1>0 DEF ApprovePost, NewReviewId, Becomes, SameCall, truth_vars, IInv, TypeOK, HitlApiTypeOK
<1>2. /\ \A e \in Deliveries \ {d} : github'[e] = github[e]
      /\ github'[d] = Append(github[d], entry) /\ github[d] \in Seq(PostedReview)
  BY <1>0 DEF ApprovePost, AcceptReview, IInv, TypeOK, GitHubTypeOK
<1>3. entry.by = c
  OBVIOUS
<1> HIDE DEF entry
<1>4. /\ \A i \in DOMAIN github'[d] :
            \/ i \in DOMAIN github[d] /\ github'[d][i] = github[d][i]
            \/ github'[d][i].by = c
      /\ github'[d][Len(github[d]) + 1].by = c
  BY <1>2, <1>3
<1>5. ASSUME NEW b \in Calls, ReviewOf[b] = d PROVE PostAnswered(b)'
  <2>1. PostAnswered(b) /\ CallInv(b)
    BY <1>5 DEF TurnInv, Turn, IInv
  <2>2. CASE b = c
    BY <1>1, <1>4, <1>5, <2>2 DEF PostAnswered
  <2>3. CASE b # c
    <3>1. call[b] = "mark" => github'[d][call_posted_id[b]] = github[d][call_posted_id[b]]
      BY <1>5, <2>1 DEF CallInv, StoresGrow
    <3> QED BY <1>1, <1>4, <1>5, <2>1, <2>3, <3>1 DEF PostAnswered, SameCall
  <2> QED BY <2>2, <2>3
<1>6. ASSUME TurnFacts(d)
      PROVE  Course(d)' /\ \A b \in Calls : ReviewOf[b] = d => CallTurn(b)'
  <2>1. /\ Withheld(finding_records[d]) /\ hitl_reviews[d] # <<>> /\ Course(d)
        /\ \A i \in DOMAIN github[d] : github[d][i].by = c
    BY <1>0, <1>1, <1>6, ClaimedFacts DEF TurnFacts
  <2>2. github[d] = <<>>
    <3>1. PostAnswered(c)
      BY <1>0 DEF TurnInv, Turn
    <3>2. DOMAIN github[d] = {}
      BY <1>0, <1>1, <2>1, <3>1 DEF PostAnswered
    <3> QED BY <1>2, <3>2
  <2>3. Len(github'[d]) = 1 /\ \A i \in DOMAIN github'[d] : github'[d][i].by = c
    BY <1>2, <1>4, <2>2
  <2>4. Course(d)'
    BY <1>1, <2>1, <2>3 DEF Course
  <2>5. ASSUME NEW b \in Calls, ReviewOf[b] = d PROVE CallTurn(b)'
    <3>1. CallTurn(b)
      BY <1>6, <2>5 DEF TurnFacts
    <3>2. CASE b = c
      BY <1>1, <3>1, <3>2 DEF CallTurn
    <3>3. CASE b # c
      BY <1>1, <2>2, <2>5, <3>1, <3>3 DEF CallTurn, SameCall
    <3> QED BY <3>2, <3>3
  <2> QED BY <2>4, <2>5
<1> QED BY <1>0, <1>1, <1>2, <1>5, <1>6, OwnerTurn

\* Without lost replies a post that went unanswered is not on GitHub.
LEMMA ApprovePostUnansweredTurn ==
    ASSUME RepliesArrive, IInv, TurnInv, StoresGrow, NEW c \in Calls, ApprovePostUnanswered(c),
           UNCHANGED <<queue_vars, run_vars, checkpoint_vars>>
    PROVE  TurnInv'
<1>0. PICK d \in Deliveries : ReviewOf[c] = d
  BY DomainAssumption
<1>1. /\ call[c] = "post" /\ call'[c] \in {"post", "failed"}
      /\ UNCHANGED <<github, hitl_reviews, finding_records, github_review_id, call_body,
                     call_posted_id>>
      /\ \A b \in Calls \ {c} : SameCall(b)
  BY DEF ApprovePostUnanswered, PostUnanswered, RepliesArrive, Becomes, SameCall, truth_vars,
         IInv, TypeOK, HitlApiTypeOK
<1>2. ASSUME NEW b \in Calls, ReviewOf[b] = d PROVE PostAnswered(b)'
  <2>1. PostAnswered(b)
    BY <1>2 DEF TurnInv, Turn
  <2>2. CASE b = c
    BY <1>1, <2>1, <2>2 DEF PostAnswered
  <2>3. CASE b # c
    BY <1>1, <2>1, <2>3 DEF PostAnswered, SameCall
  <2> QED BY <2>2, <2>3
<1>3. ASSUME TurnFacts(d)
      PROVE  Course(d)' /\ \A b \in Calls : ReviewOf[b] = d => CallTurn(b)'
  <2>1. Course(d)'
    BY <1>1, <1>3 DEF TurnFacts, Course
  <2>2. ASSUME NEW b \in Calls, ReviewOf[b] = d PROVE CallTurn(b)'
    <3>1. CallTurn(b)
      BY <1>3, <2>2 DEF TurnFacts
    <3>2. CASE b = c
      BY <1>1, <3>1, <3>2 DEF CallTurn
    <3>3. CASE b # c
      BY <1>1, <3>1, <3>3 DEF CallTurn, SameCall
    <3> QED BY <3>2, <3>3
  <2> QED BY <2>1, <2>2
<1> QED BY <1>0, <1>1, <1>2, <1>3, OwnerTurn

\* The id of the post's answer is recorded by the one request that owns the row.
LEMMA ApproveMarkTurn ==
    ASSUME IInv, TurnInv, StoresGrow, NEW c \in Calls, ApproveMark(c),
           UNCHANGED <<queue_vars, run_vars, checkpoint_vars>>
    PROVE  TurnInv'
<1>0. PICK d \in Deliveries : ReviewOf[c] = d
  BY DomainAssumption
<1>1. /\ call[c] = "mark" /\ call'[c] = "approved"
      /\ UNCHANGED <<github, hitl_reviews, finding_records, call_body, call_posted_id>>
      /\ github_review_id' = [github_review_id EXCEPT ![d] = call_posted_id[c]]
      /\ github_review_id'[d] = call_posted_id[c]
      /\ \A b \in Calls \ {c} : SameCall(b)
  BY <1>0 DEF ApproveMark, mark_posted, Becomes, SameCall,
              IInv, TypeOK, HitlApiTypeOK, TruthStoreTypeOK
<1>2. \A e \in Deliveries \ {d} :
         github'[e] = github[e] /\ github_review_id'[e] = github_review_id[e]
  BY <1>1 DEF IInv, TypeOK, TruthStoreTypeOK
<1>3. ASSUME NEW b \in Calls, ReviewOf[b] = d PROVE PostAnswered(b)'
  <2>1. PostAnswered(b)
    BY <1>3 DEF TurnInv, Turn
  <2>2. CASE b = c
    BY <1>1, <2>1, <2>2 DEF PostAnswered
  <2>3. CASE b # c
    BY <1>1, <2>1, <2>3 DEF PostAnswered, SameCall
  <2> QED BY <2>2, <2>3
<1>4. ASSUME TurnFacts(d)
      PROVE  Course(d)' /\ \A b \in Calls : ReviewOf[b] = d => CallTurn(b)'
  <2>1. Course(d)'
    BY <1>1, <1>4 DEF TurnFacts, Course
  <2>2. ASSUME NEW b \in Calls, ReviewOf[b] = d PROVE CallTurn(b)'
    <3>1. CallTurn(b)
      BY <1>4, <2>2 DEF TurnFacts
    <3>2. CASE b = c
      <4>1. PostAnswered(c) /\ CallInv(c)
        BY <1>0 DEF TurnInv, Turn, IInv
      <4>2. call_posted_id[c] \in DOMAIN github[d] /\ github[d][call_posted_id[c]].by = c
        BY <1>0, <1>1, <4>1 DEF PostAnswered, CallInv
      <4> QED BY <1>0, <1>1, <3>1, <3>2, <4>2 DEF CallTurn
    <3>3. CASE b # c
      <4>1. call[b] \notin {"post", "mark", "approved"}
        BY <1>0, <1>1, <1>4, <2>2, <3>3, ClaimedFacts DEF TurnFacts
      <4> QED BY <1>1, <3>3, <4>1 DEF CallTurn, SameCall
    <3> QED BY <3>2, <3>3
  <2> QED BY <2>1, <2>2
<1> QED BY <1>0, <1>1, <1>2, <1>3, <1>4, OwnerTurn

-----------------------------------------------------------------------------
(* The invariant *)

LEMMA InitTurn ==
    ASSUME Init
    PROVE  TurnInv
<1>1. \A j \in Jobs : job_state[j] = "idle" /\ pc[j] = "idle" /\ ~Running(j) /\ ~Active(j)
  BY DEF Init, WorkerInit, Running, Active
<1>2. \A d \in Deliveries : NothingOut(d) /\ finding_records[d] = {}
  BY DEF Init, TruthStoreInit, HitlQueueInit, GitHubInit, NothingOut
<1>3. \A c \in Calls : call[c] = "idle"
  BY DEF Init, HitlApiInit
<1>4. ASSUME NEW d \in Deliveries PROVE Turn(d)
  <2>1. Solo(d)
    BY <1>1 DEF Solo, JobsOf
  <2>2. \A c \in Calls : ReviewOf[c] = d => PostAnswered(c) /\ CallTurn(c)
    BY <1>2, <1>3, <1>4 DEF PostAnswered, CallTurn, NothingOut
  <2>3. Course(d) /\ Rest(d)
    BY <1>2, <1>4 DEF Course, Rest, NothingOut
  <2>4. \A j \in JobsOf(d) : JobTurn(j)
    BY <1>1 DEF JobTurn, JobsOf
  <2> QED BY <2>1, <2>2, <2>3, <2>4 DEF Turn
<1> QED BY <1>1, <1>4 DEF TurnInv

LEMMA NextTurn ==
    ASSUME RepliesArrive, IInv, TurnInv, [Next]_vars,
           "overlap" \notin Faults \/ \A d \in Deliveries : Solo(d)'
    PROVE  TurnInv'
<1>0. IInv' /\ StoresGrow
  BY NextStep
<1>1. ASSUME NEW j \in Jobs, WorkerStep(j), UNCHANGED call_vars PROVE TurnInv'
  <2>1. CASE StartJob(j) \/ GiveUp(j)
    BY <1>0, <1>1, <2>1, QueueTurn
  <2>2. CASE UpsertReview(j)
    BY <1>0, <1>1, <2>2, UpsertReviewTurn
  <2>3. CASE EngineRun(j) \/ \E a \in Specialists : Specialist(j, a)
    BY <1>0, <1>1, <2>3, EngineTurn
  <2>4. CASE AggUpsert(j) \/ AggEmit(j) \/ AggStatus(j)
    BY <1>0, <1>1, <2>4, AggMoveTurn
  <2>5. CASE AggInsert(j)
    BY <1>0, <1>1, <2>5, AggInsertTurn
  <2>6. CASE AggPost(j)
    BY <1>0, <1>1, <2>6, AggPostTurn
  <2>7. CASE AggPostUnanswered(j) \/ Finish(j)
    BY <1>0, <1>1, <2>7, UnansweredTurn
  <2>8. CASE AggMark(j)
    BY <1>0, <1>1, <2>8, AggMarkTurn
  <2>9. CASE AggEnqueue(j)
    BY <1>0, <1>1, <2>9, AggEnqueueTurn
  <2> QED BY <1>1, <2>1, <2>2, <2>3, <2>4, <2>5, <2>6, <2>7, <2>8, <2>9 DEF WorkerStep
<1>2. ASSUME NEW j \in Jobs, UNCHANGED call_vars,
             EnqueueReview(j) \/ BackgroundSave(j) \/ WorkerDies(j) \/ JobFails(j)
      PROVE  TurnInv'
  BY <1>0, <1>2, QueueTurn, SaveTurn, WorkerDiesTurn, UnansweredTurn
<1>3. ASSUME NEW c \in Calls, UNCHANGED <<queue_vars, run_vars, checkpoint_vars>>,
             Approve(c) \/ Reject(c) \/ CallStep(c) \/ CallFails(c)
      PROVE  TurnInv'
  BY <1>0, <1>3, ClaimTurn, ReadReviewTurn, ApprovePostTurn, ApprovePostUnansweredTurn,
     ApproveMarkTurn DEF CallStep
<1>4. CASE WorkerNext /\ UNCHANGED call_vars
  BY <1>0, <1>1, <1>2, <1>4, RedisRestartTurn DEF WorkerNext
<1>5. CASE HitlApiNext /\ UNCHANGED <<queue_vars, run_vars, checkpoint_vars>>
  BY <1>3, <1>5 DEF HitlApiNext
<1>6. CASE UNCHANGED vars
  BY <1>0, <1>6, UnmovedTurn
     DEF vars, queue_vars, run_vars, store_vars, truth_vars, Active, Running, Died, Started
<1> QED BY <1>4, <1>5, <1>6 DEF Next

\* Where no reply is lost and no job overtakes another, each job of run_review
\* that no worker died under finds a review that is settled or untouched, and
\* each approve request one that was withheld whole.
THEOREM TurnInvariant == ASSUME RunsInTurn PROVE Spec => []TurnInv
<1>1. Init => TurnInv
  BY InitTurn
<1>2. IInv /\ TurnInv /\ [Next]_vars => TurnInv'
  BY NextTurn DEF RunsInTurn
<1> QED BY <1>1, <1>2, Invariant, PTL DEF Spec

\* However often a delivery comes and whatever raises, post_review of aggregate
\* and of approve together put one review on GitHub.
THEOREM AtMostOneReviewAlways == ASSUME RunsInTurn PROVE Spec => []AtMostOneReview
<1>1. TurnInv => AtMostOneReview
  BY DEF TurnInv, Turn, Course, AtMostOneReview
<1> QED BY <1>1, TurnInvariant, PTL

\* enqueue of hitl/queue.py has no unique index to rely on: the check of the
\* status before it is what keeps a second row out.
THEOREM AtMostOneHitlRowAlways == ASSUME RunsInTurn PROVE Spec => []AtMostOneHitlRow
<1>1. TurnInv => AtMostOneHitlRow
  <2>1. ASSUME TurnInv, NEW d \in Deliveries, Uninterrupted(d)
        PROVE  Len(hitl_reviews[d]) <= 1
    <3>1. hitl_reviews[d] = <<>> \/ Len(hitl_reviews[d]) = 1
      BY <2>1 DEF TurnInv, Turn, Course
    <3>2. Len(<<>>) = 0
      OBVIOUS
    <3> DEFINE n == Len(hitl_reviews[d])
    <3>3. n = 0 \/ n = 1
      BY <3>1, <3>2
    <3> HIDE DEF n
    <3>4. n <= 1
      BY <3>3
    <3> QED BY <3>4 DEF n
  <2> QED BY <2>1 DEF AtMostOneHitlRow
<1> QED BY <1>1, TurnInvariant, PTL

\* The two branches of aggregate exclude each other over all runs of a review,
\* not only within one.
THEOREM OneWayThroughTheGateAlways ==
    ASSUME RunsInTurn PROVE Spec => []OneWayThroughTheGate
<1>1. TurnInv => OneWayThroughTheGate
  BY DomainAssumption DEF TurnInv, Turn, Course, OneWayThroughTheGate
<1> QED BY <1>1, TurnInvariant, PTL

\* get_review hands approve the deduplicated findings of all specialists of the
\* run the gate withheld.
THEOREM ApprovedIsTheReviewAlways ==
    ASSUME RunsInTurn PROVE Spec => []ApprovedIsTheReview
<1>1. TurnInv => ApprovedIsTheReview
  BY DomainAssumption DEF TurnInv, Turn, CallTurn, ApprovedIsTheReview
<1> QED BY <1>1, TurnInvariant, PTL

\* mark_posted of approve is the last to write github_review_id, and what it
\* writes is the request's own review.
THEOREM ApprovalIsOnRecordAlways ==
    ASSUME RunsInTurn PROVE Spec => []ApprovalIsOnRecord
<1>1. TurnInv => ApprovalIsOnRecord
  BY DomainAssumption DEF TurnInv, Turn, CallTurn, ApprovalIsOnRecord
<1> QED BY <1>1, TurnInvariant, PTL
=============================================================================
