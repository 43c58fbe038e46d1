--------------------------- MODULE GitHubReviews ----------------------------
(***************************************************************************)
(* The reviews GitHub holds for a pull request, and the POST that creates  *)
(* one: GitHubAppClient.post_review over _send, which tries a request up   *)
(* to _RETRY_ATTEMPTS times and retries a timeout, a 429 and a 5xx.        *)
(*                                                                         *)
(* GitHub itself is outside the repository: it appends a review for every  *)
(* request it accepts, and says nothing of the ones it already has.  The   *)
(* id it returns is the position of the review.                            *)
(***************************************************************************)
EXTENDS FindingGate, ReviewDomain

CONSTANT RetryAttempts      \* _RETRY_ATTEMPTS

ASSUME RetryAssumption == RetryAttempts \in Nat \ {0}

VARIABLE
    github      \* the reviews created for each delivery's pull request, oldest first

PostedReview == [by : Jobs \cup Calls, body : SUBSET Rows]

GitHubTypeOK == github \in [Deliveries -> Seq(PostedReview)]

GitHubInit == github = [d \in Deliveries |-> <<>>]

\* GitHub creates the review.  The request's author is kept to tell who posted.
AcceptReview(d, author, body) ==
    github' = [github EXCEPT ![d] = Append(@, [by |-> author, body |-> body])]

\* No usable answer: the request was lost or refused with a retryable status,
\* or it was accepted and the answer was lost.
PostUnanswered(d, author, body) ==
    \/ "error" \in Faults /\ UNCHANGED github
    \/ "lost_reply" \in Faults /\ AcceptReview(d, author, body)

\* The id in the answer to a request just accepted.
NewReviewId(d) == Len(github[d]) + 1
=============================================================================
