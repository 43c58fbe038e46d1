---------------------------- MODULE FindingGate ----------------------------
(***************************************************************************)
(* The pure half of backend/orchestrator/nodes.py: merging what the        *)
(* specialists report, collapsing findings on the same spot, scoring the   *)
(* survivors and choosing what the gate does with the review.              *)
(*                                                                         *)
(* A confidence is a whole number of hundredths.  The gate compares a mean *)
(* with 0.75: the model compares a sum with 75 times the number of terms,  *)
(* which agrees with statistics.fmean for one to four two-digit            *)
(* confidences.  Severity, category, file and line are opaque values; only *)
(* CRITICAL is ever told apart.  The order of the findings in the posted   *)
(* text is not modelled, so a deduplicated review is a set.                *)
(***************************************************************************)
EXTENDS Integers, FiniteSets, FiniteSetsExt, Sequences, SequencesExt

CONSTANTS
    SpecialistNames,    \* the tuple SPECIALIST_NAMES of graph.py
    Threshold,          \* DEFAULT_CONFIDENCE_THRESHOLD, in hundredths
    NoLine,             \* the None of Finding.line
    Missing,            \* a specialist that has not answered
    Outcomes            \* what each specialist may report: [Specialists -> SUBSET Seq(Finding)]

ASSUME ThresholdAssumption == Threshold \in 0..100

ASSUME NamesAssumption ==
    DOMAIN SpecialistNames \subseteq Nat /\ IsFiniteSet(DOMAIN SpecialistNames)

Specialists == {SpecialistNames[i] : i \in DOMAIN SpecialistNames}

\* A report is a list, and the schema bounds a confidence.  It only asks for
\* 1-indexed lines: that no specialist answers -1, the key of a missing line,
\* is taken of the model.
ASSUME OutcomesAssumption ==
    \A a \in Specialists :
        /\ Missing \notin Outcomes[a]
        /\ \A report \in Outcomes[a] :
             /\ DOMAIN report \subseteq Nat /\ IsFiniteSet(DOMAIN report)
             /\ \A k \in DOMAIN report :
                  report[k].confidence \in 0..100 /\ report[k].line # -1

\* The specialists' results at any point of a run.
AnyOutcome == UNION {Outcomes[a] : a \in Specialists}
AnyReport == AnyOutcome \cup {Missing}

Reports ==
    {r \in [Specialists -> AnyReport] :
        \A a \in Specialists : r[a] \in Outcomes[a] \cup {Missing}}

-----------------------------------------------------------------------------
\* aggregate_node: the reports, regrouped in SPECIALIST_NAMES order whatever
\* the order the specialists finished in; a specialist without an entry
\* counts as one that reported nothing.
findings_by_agent(results) ==
    [i \in DOMAIN SpecialistNames |->
        IF results[SpecialistNames[i]] = Missing
        THEN <<>> ELSE results[SpecialistNames[i]]]

\* The merged list.  A place in it is named by whose finding it is and which of
\* them, and Before is the order of the list.
Places(by_agent) == UNION {{i} \X DOMAIN by_agent[i] : i \in DOMAIN by_agent}

merged(results) ==
    [p \in Places(findings_by_agent(results)) |-> findings_by_agent(results)[p[1]][p[2]]]

Before(p, q) == p[1] < q[1] \/ (p[1] = q[1] /\ p[2] <= q[2])

-----------------------------------------------------------------------------
Spot(f) == <<f.file, f.line>>

Group(findings, spot) == {i \in DOMAIN findings : Spot(findings[i]) = spot}

\* Mutant: the finding reported first survives.
Winner_First(findings, spot) ==
    findings[CHOOSE i \in Group(findings, spot) :
                \A k \in Group(findings, spot) : Before(i, k)]

\* Python's max keeps the first of several maximal elements.
Winner(findings, spot) ==
    LET group == Group(findings, spot)
        Top(i) == \A k \in group :
                    \/ findings[i].confidence > findings[k].confidence
                    \/ findings[i].confidence = findings[k].confidence /\ Before(i, k)
    IN  findings[CHOOSE i \in group : Top(i)]

\* Mutant: only agents that chose the same category count as agreeing.
Survivor_SameCategory(findings, spot) ==
    LET winner == Winner(findings, spot)
        agreeing == {i \in Group(findings, spot) :
                        findings[i].category = winner.category}
    IN  [finding |-> winner,
         also_flagged_by |-> {findings[i].agent_type : i \in agreeing}
                                \ {winner.agent_type}]

\* The surviving finding of a spot, and the other agents its rationale names.
Survivor(findings, spot) ==
    LET winner == Winner(findings, spot)
    IN  [finding |-> winner,
         also_flagged_by |-> {findings[i].agent_type : i \in Group(findings, spot)}
                                \ {winner.agent_type}]

dedup_findings(findings) ==
    {Survivor(findings, spot) :
        spot \in {Spot(findings[i]) : i \in DOMAIN findings}}

\* The review a run aggregates out of its specialists' results.
Deduped(results) == dedup_findings(merged(results))

\* Every finding that can survive into some review.
Rows == UNION {Deduped(r) : r \in Reports}

-----------------------------------------------------------------------------
\* Mutant: the mean of nothing is zero.
BelowThreshold_EmptyIsZero(deduped) ==
    MapThenSumSet(LAMBDA s : s.finding.confidence, deduped)
        < Threshold * Cardinality(deduped) \/ deduped = {}

\* Mean confidence below the threshold; an empty review scores 1.0.
BelowThreshold(deduped) ==
    /\ deduped # {}
    /\ MapThenSumSet(LAMBDA s : s.finding.confidence, deduped)
         < Threshold * Cardinality(deduped)

HasCritical(deduped) == \E s \in deduped : s.finding.severity = "critical"

\* Mutant: the score is looked at before the severity.
decide_ScoreFirst(deduped) ==
    IF ~BelowThreshold(deduped) THEN "auto_post"
    ELSE IF HasCritical(deduped) THEN "escalated"
    ELSE "queued"

decide(deduped) ==
    IF HasCritical(deduped) THEN "escalated"
    ELSE IF BelowThreshold(deduped) THEN "queued"
    ELSE "auto_post"

Decisions == {"auto_post", "queued", "escalated"}

-----------------------------------------------------------------------------
\* Mutant: COALESCE to a line that exists.
RowKey_FirstLine(s) ==
    <<s.finding.agent_type, s.finding.file,
      IF s.finding.line = NoLine THEN 1 ELSE s.finding.line,
      s.finding.category>>

\* finding_records_dedup_idx: the columns on which ON CONFLICT DO NOTHING
\* takes two findings of one review for the same row.
RowKey(s) ==
    <<s.finding.agent_type, s.finding.file,
      IF s.finding.line = NoLine THEN -1 ELSE s.finding.line,
      s.finding.category>>

RowKeys(rows) == {RowKey(s) : s \in rows}

\* The rows a table holds after inserting these findings in one executemany.
\* Two findings of one batch on the same key keep one of the two.
InsertRows(rows, deduped) ==
    LET fresh == {s \in deduped : RowKey(s) \notin RowKeys(rows)}
    IN  rows \cup {CHOOSE s \in fresh : RowKey(s) = key : key \in RowKeys(fresh)}
=============================================================================
