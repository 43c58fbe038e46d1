----------------------------- MODULE TruthStore -----------------------------
(***************************************************************************)
(* integrations/truth_store.py and observability/events.py over Postgres:  *)
(* the review row of a webhook delivery, its finding rows, and the         *)
(* decisions the aggregator recorded.  Every operation is one statement,   *)
(* hence one atomic step; the operators are the state changes, and the     *)
(* processes that call them add their own guards.                          *)
(*                                                                         *)
(* A row is named by its delivery: github_delivery_id is unique, and       *)
(* upsert_review is the only statement that creates rows.                  *)
(***************************************************************************)
EXTENDS FindingGate, ReviewDomain

VARIABLES
    status,             \* pr_review_records.status, "absent" before the row exists
    github_review_id,   \* pr_review_records.github_review_id
    finding_records,    \* the finding rows of each review
    decision_events     \* outcomes of the DECISION events of each review

truth_vars == <<status, github_review_id, finding_records, decision_events>>

Statuses == {"absent", "pending", "posted", "needs_human", "escalated"}

TruthStoreTypeOK ==
    /\ status \in [Deliveries -> Statuses]
    /\ github_review_id \in [Deliveries -> Nat \cup {None}]
    /\ finding_records \in [Deliveries -> SUBSET Rows]
    /\ decision_events \in [Deliveries -> SUBSET Decisions]

TruthStoreInit ==
    /\ status = [d \in Deliveries |-> "absent"]
    /\ github_review_id = [d \in Deliveries |-> None]
    /\ finding_records = [d \in Deliveries |-> {}]
    /\ decision_events = [d \in Deliveries |-> {}]

-----------------------------------------------------------------------------
\* Mutant: the conflict clause starts the review over.
upsert_review_Resets(d) ==
    /\ status' = [status EXCEPT ![d] = "pending"]
    /\ UNCHANGED <<github_review_id, finding_records, decision_events>>

\* INSERT ... ON CONFLICT DO UPDATE of a column to itself: get or create.  The
\* status returned to the caller is status'[d].
upsert_review(d) ==
    /\ status' = [status EXCEPT ![d] = IF @ = "absent" THEN "pending" ELSE @]
    /\ UNCHANGED <<github_review_id, finding_records, decision_events>>

\* Mutants: one row is inserted and not many; a review that has rows is taken
\* for one whose rows are all there.
insert_findings_One(d, deduped) ==
    /\ finding_records' = [finding_records EXCEPT ![d] = InsertRows(@, {CHOOSE s \in deduped : TRUE})]
    /\ UNCHANGED <<status, github_review_id, decision_events>>

insert_findings_Once(d, deduped) ==
    /\ finding_records' = [finding_records EXCEPT ![d] = IF @ = {} THEN InsertRows(@, deduped) ELSE @]
    /\ UNCHANGED <<status, github_review_id, decision_events>>

\* ON CONFLICT DO NOTHING: a row that is there is kept as it is.
insert_findings(d, deduped) ==
    /\ finding_records' =
         [finding_records EXCEPT ![d] = InsertRows(@, deduped)]
    /\ UNCHANGED <<status, github_review_id, decision_events>>

\* UPDATE ... WHERE id: whatever the status was.
mark_posted(d, id) ==
    /\ status' = [status EXCEPT ![d] = "posted"]
    /\ github_review_id' = [github_review_id EXCEPT ![d] = id]
    /\ UNCHANGED <<finding_records, decision_events>>

\* Mutant: the update writes the whole row.
set_status_WholeRow(d, new) ==
    /\ status' = [status EXCEPT ![d] = new]
    /\ github_review_id' = [github_review_id EXCEPT ![d] = None]
    /\ UNCHANGED <<finding_records, decision_events>>

\* UPDATE ... WHERE id: whatever the status was.
set_status(d, new) ==
    /\ status' = [status EXCEPT ![d] = new]
    /\ UNCHANGED <<github_review_id, finding_records, decision_events>>

\* Mutant: the event is left out.
emit_decision_Nothing(d, outcome) == UNCHANGED truth_vars

\* EventSink.emit of a DECISION event.  agent_events is append-only: which
\* decisions were recorded is kept, how often is not.
emit_decision(d, outcome) ==
    /\ decision_events' = [decision_events EXCEPT ![d] = @ \cup {outcome}]
    /\ UNCHANGED <<status, github_review_id, finding_records>>
=============================================================================
