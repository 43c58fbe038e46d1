------------------------------ MODULE HitlApi -------------------------------
(***************************************************************************)
(* api/hitl.py: one approve or reject request, an awaited call at a time,  *)
(* against the stores of TruthStore, HitlQueue and GitHubReviews.          *)
(***************************************************************************)
EXTENDS TruthStore, HitlQueue, GitHubReviews

VARIABLES
    call,           \* where the request is
    call_body,      \* the findings approve read back
    call_attempt,   \* unanswered requests of its post_review
    call_posted_id  \* github_review_id in memory, between post and mark

call_vars == <<call, call_body, call_attempt, call_posted_id>>

\* conflict is the 409, failed any other error the client sees.
CallStates == {"idle", "read", "post", "mark", "approved", "rejected",
               "conflict", "failed"}

HitlApiTypeOK ==
    /\ call \in [Calls -> CallStates]
    /\ call_body \in [Calls -> SUBSET Rows]
    /\ call_attempt \in [Calls -> 0..RetryAttempts - 1]
    /\ call_posted_id \in [Calls -> Nat \cup {None}]

HitlApiInit ==
    /\ call = [c \in Calls |-> "idle"]
    /\ call_body = [c \in Calls |-> {}]
    /\ call_attempt = [c \in Calls |-> 0]
    /\ call_posted_id = [c \in Calls |-> None]

Becomes(c, state) == call' = [call EXCEPT ![c] = state]

\* Both requests start by claiming the pending rows of the review; a client
\* knows a review's id once the review exists.
Claim(c, outcome, next) ==
    /\ call[c] = "idle"
    /\ status[ReviewOf[c]] # "absent"
    /\ resolve(ReviewOf[c], outcome, c)
    /\ Becomes(c, IF HasPending(ReviewOf[c]) THEN next ELSE "conflict")
    /\ UNCHANGED <<call_body, call_attempt, call_posted_id, truth_vars, github>>

Approve(c) == Claim(c, "resolved", "read")

Reject(c) == Claim(c, "dismissed", "rejected")

\* Mutant: an escalated review is not found.
ReadReview_OnlyQueued(c) ==
    /\ call[c] = "read"
    /\ status[ReviewOf[c]] = "needs_human"
    /\ call_body' = [call_body EXCEPT ![c] = finding_records[ReviewOf[c]]]
    /\ Becomes(c, "post")
    /\ UNCHANGED <<call_attempt, call_posted_id, truth_vars, hitl_reviews, github>>

ReadReview(c) ==
    /\ call[c] = "read"
    /\ call_body' = [call_body EXCEPT ![c] = finding_records[ReviewOf[c]]]
    /\ Becomes(c, "post")
    /\ UNCHANGED <<call_attempt, call_posted_id, truth_vars, hitl_reviews, github>>

ApprovePost(c) ==
    /\ call[c] = "post"
    /\ AcceptReview(ReviewOf[c], c, call_body[c])
    /\ call_posted_id' = [call_posted_id EXCEPT ![c] = NewReviewId(ReviewOf[c])]
    /\ Becomes(c, "mark")
    /\ UNCHANGED <<call_body, call_attempt, truth_vars, hitl_reviews>>

ApprovePostUnanswered(c) ==
    /\ call[c] = "post"
    /\ PostUnanswered(ReviewOf[c], c, call_body[c])
    /\ IF call_attempt[c] + 1 < RetryAttempts
       THEN call_attempt' = [call_attempt EXCEPT ![c] = @ + 1] /\ UNCHANGED call
       ELSE Becomes(c, "failed") /\ UNCHANGED call_attempt
    /\ UNCHANGED <<call_body, call_posted_id, truth_vars, hitl_reviews>>

ApproveMark(c) ==
    /\ call[c] = "mark"
    /\ mark_posted(ReviewOf[c], call_posted_id[c])
    /\ Becomes(c, "approved")
    /\ UNCHANGED <<call_body, call_attempt, call_posted_id, hitl_reviews, github>>

\* A call after the claim raises, or the API process dies under the request.
\* Nothing gives the claim back.
CallFails(c) ==
    /\ {"error", "crash"} \cap Faults # {}
    /\ call[c] \in {"read", "post", "mark"}
    /\ Becomes(c, "failed")
    /\ UNCHANGED <<call_body, call_attempt, call_posted_id,
                   truth_vars, hitl_reviews, github>>

-----------------------------------------------------------------------------
\* What a live API process does with a request it has accepted.
CallStep(c) ==
    ReadReview(c) \/ ApprovePost(c) \/ ApprovePostUnanswered(c) \/ ApproveMark(c)

HitlApiNext ==
    \E c \in Calls : Approve(c) \/ Reject(c) \/ CallStep(c) \/ CallFails(c)
=============================================================================
