----------------------------- MODULE ReviewGate -----------------------------
(***************************************************************************)
(* The graph of graph.py around the gate: the specialists report in any    *)
(* order, each once, and the aggregate node runs when all have.            *)
(***************************************************************************)
EXTENDS FindingGate

VARIABLES
    results,    \* what each specialist reported, or Missing
    verdict     \* the gate's decision, "none" until the aggregate node ran

vars == <<results, verdict>>

TypeOK ==
    /\ results \in Reports
    /\ verdict \in Decisions \cup {"none"}

Init ==
    /\ results = [a \in Specialists |-> Missing]
    /\ verdict = "none"

Specialist(a) ==
    /\ results[a] = Missing
    /\ \E reported \in Outcomes[a] : results' = [results EXCEPT ![a] = reported]
    /\ UNCHANGED verdict

Aggregate ==
    /\ verdict = "none"
    /\ \A a \in Specialists : results[a] # Missing
    /\ verdict' = decide(Deduped(results))
    /\ UNCHANGED results

Next == Aggregate \/ \E a \in Specialists : Specialist(a)

Spec == Init /\ [][Next]_vars

-----------------------------------------------------------------------------
\* Every finding reported so far, whoever reported it.
Reported == UNION {ToSet(results[a]) : a \in {b \in Specialists : results[b] # Missing}}

Review == Deduped(results)

\* Deduplication collapses a spot, it never loses one: every spot any
\* specialist flagged survives as exactly one finding, and that finding is one
\* of those reported there, none of which is more confident.
OneSurvivorPerSpot ==
    \A f \in Reported :
        \E s \in Review :
            /\ s.finding \in Reported
            /\ Spot(s.finding) = Spot(f)
            /\ s.finding.confidence >= f.confidence
            /\ \A t \in Review : Spot(t.finding) = Spot(f) => t = s

\* The agreement note is complete: the survivor and the agents it names are
\* exactly the agents that flagged its spot.
AgreementKept ==
    \A s \in Review :
        {s.finding.agent_type} \cup s.also_flagged_by
            = {f.agent_type : f \in {g \in Reported : Spot(g) = Spot(s.finding)}}

\* A review that goes out without a human hides a CRITICAL finding only when a
\* finding at least as confident took its spot: the one way the gate of
\* nodes.py lets one through.
CriticalLostOnlyAtItsSpot ==
    verdict \in {"auto_post", "queued"} =>
        \A f \in Reported :
            f.severity = "critical" =>
                \E g \in Reported :
                    /\ Spot(g) = Spot(f)
                    /\ g.severity # "critical"
                    /\ g.confidence >= f.confidence

\* A review is queued for low confidence only if some specialist doubted: a
\* mean below the threshold needs a reported finding below it.
QueuedOnDoubt ==
    verdict = "queued" => \E f \in Reported : f.confidence < Threshold

\* insert_findings loses nothing of the review: the survivors never collide on
\* the unique index, although the index names the agent and the category and
\* deduplication names neither.  A finding without a line is stored under -1.
RowsAreTheReview == InsertRows({}, Review) = Review

\* What README.md says of the gate: any CRITICAL finding escalates.
AnyCriticalEscalates ==
    verdict # "none" /\ (\E f \in Reported : f.severity = "critical")
        => verdict = "escalated"
=============================================================================
