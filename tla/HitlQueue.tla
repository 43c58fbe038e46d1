----------------------------- MODULE HitlQueue ------------------------------
(***************************************************************************)
(* hitl/queue.py: the hitl_reviews table.  Nothing in the schema limits a  *)
(* review to one row, so the rows of a review are a sequence, oldest first.*)
(***************************************************************************)
EXTENDS Sequences, ReviewDomain

VARIABLE
    hitl_reviews    \* the rows of each review; "by" is the call that resolved one

RowStatuses == {"pending", "resolved", "dismissed"}

HitlRow == [status : RowStatuses, by : Calls \cup {None}]

HitlQueueTypeOK == hitl_reviews \in [Deliveries -> Seq(HitlRow)]

HitlQueueInit == hitl_reviews = [r \in Deliveries |-> <<>>]

\* INSERT: one more pending row, whether or not the review has one already.
enqueue(r) ==
    hitl_reviews' =
        [hitl_reviews EXCEPT ![r] = Append(@, [status |-> "pending", by |-> None])]

IsPending(r, i) == hitl_reviews[r][i].status = "pending"

\* Mutant: any row will do, claimed before or not.
HasPending_AnyRow(r) == hitl_reviews[r] # <<>>

HasPending(r) == \E i \in DOMAIN hitl_reviews[r] : IsPending(r, i)

\* UPDATE ... WHERE review_id = r AND status = 'pending' RETURNING id: every
\* pending row of the review is claimed at once.  The caller has claimed
\* something exactly when HasPending(r) held before.
resolve(r, outcome, caller) ==
    hitl_reviews' =
        [hitl_reviews EXCEPT ![r] =
            [i \in DOMAIN @ |-> IF @[i].status = "pending"
                                THEN [status |-> outcome, by |-> caller]
                                ELSE @[i]]]

\* The caller has a row of the review to its name, with this outcome.
Claimed(r, outcome, caller) ==
    \E i \in DOMAIN hitl_reviews[r] :
        hitl_reviews[r][i] = [status |-> outcome, by |-> caller]
=============================================================================
