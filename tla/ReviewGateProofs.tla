-------------------------- MODULE ReviewGateProofs --------------------------
(***************************************************************************)
(* The gate's promises, for any specialists, any reports of theirs, in any *)
(* order, and any threshold.                                               *)
(*                                                                         *)
(* First what deduplication returns: one survivor per spot, chosen among   *)
(* the findings there, and no two under one key of the finding rows.  Then *)
(* what the score of a review bounds: the sum of its confidences, by       *)
(* induction on its size.  The invariant of ReviewGate adds to the types   *)
(* that a verdict is the decision on what all specialists reported.        *)
(***************************************************************************)
EXTENDS ReviewGate, FiniteSetTheorems, WellFoundedInduction, TLAPS

LEMMA LeastNatural ==
    ASSUME NEW T, T \subseteq Nat, T # {}
    PROVE  \E x \in T : \A y \in T : x <= y
<1>1. PICK x \in T : \A y \in T : ~ (<<y, x>> \in OpToRel(<, Nat))
  BY NatLessThanWellFounded, WFMin
<1>2. \A y \in T : ~ (y < x)
  BY <1>1 DEF OpToRel
<1> QED BY <1>2

\* Among any places there is one that comes first.
LEMMA FirstPlace ==
    ASSUME NEW T, T \subseteq Nat \X Nat, T # {}
    PROVE  \E p \in T : \A q \in T : Before(p, q)
<1> DEFINE firsts == {q[1] : q \in T}
<1>1. PICK i \in firsts : \A k \in firsts : i <= k
  <2>1. firsts # {} /\ firsts \subseteq Nat
    OBVIOUS
  <2> HIDE DEF firsts
  <2> QED BY <2>1, LeastNatural
<1> DEFINE row == {q \in T : q[1] = i}
           seconds == {q[2] : q \in row}
<1>2. PICK n \in seconds : \A m \in seconds : n <= m
  <2>1. row # {} /\ row \subseteq Nat \X Nat
    BY <1>1
  <2> HIDE DEF row
  <2>2. seconds # {} /\ seconds \subseteq Nat
    BY <2>1
  <2> HIDE DEF seconds
  <2> QED BY <2>2, LeastNatural
<1>3. PICK p \in row : p[2] = n
  BY <1>2
<1>4. ASSUME NEW q \in T PROVE Before(p, q)
  <2>1. p[1] \in Nat /\ q[1] \in Nat /\ p[1] = i /\ i <= q[1]
    BY <1>1, <1>3
  <2>2. q[1] = i => p[2] <= q[2]
    BY <1>2, <1>3
  <2> QED BY <2>1, <2>2 DEF Before
<1> QED BY <1>3, <1>4

-----------------------------------------------------------------------------
\* The merged reports, as the code may have them.
Findings(findings) ==
    /\ DOMAIN findings \subseteq Nat \X Nat /\ IsFiniteSet(DOMAIN findings)
    /\ \A p \in DOMAIN findings : findings[p].confidence \in 0..100 /\ findings[p].line # -1

LEMMA FiniteImage ==
    ASSUME NEW S, IsFiniteSet(S), NEW f, DOMAIN f = S
    PROVE  IsFiniteSet({f[x] : x \in S})
<1> DEFINE T == {f[x] : x \in S}
           g == [x \in S |-> f[x]]
<1>1. g \in Surjection(S, T)
  BY DEF Surjection
<1> HIDE DEF g, T
<1> QED BY <1>1, FS_Surjection DEF T

LEMMA FinitelyManyPlaces ==
    ASSUME NEW by_agent, IsFiniteSet(DOMAIN by_agent),
           \A i \in DOMAIN by_agent : IsFiniteSet(DOMAIN by_agent[i])
    PROVE  IsFiniteSet(Places(by_agent))
<1> DEFINE f == [i \in DOMAIN by_agent |-> {i} \X DOMAIN by_agent[i]]
           T == {f[i] : i \in DOMAIN by_agent}
<1>1. IsFiniteSet(T)
  <2>1. DOMAIN f = DOMAIN by_agent
    OBVIOUS
  <2> HIDE DEF f
  <2> QED BY <2>1, FiniteImage
<1>2. ASSUME NEW U \in T PROVE IsFiniteSet(U)
  <2>1. PICK i \in DOMAIN by_agent : U = {i} \X DOMAIN by_agent[i]
    OBVIOUS
  <2>2. IsFiniteSet({i})
    BY FS_Singleton
  <2> QED BY <2>1, <2>2, FS_Product
<1>3. Places(by_agent) = UNION T
  BY DEF Places
<1> HIDE DEF T
<1> QED BY <1>1, <1>2, <1>3, FS_UNION

LEMMA MergedIsFindings == ASSUME NEW r \in Reports PROVE Findings(merged(r))
<1> DEFINE by_agent == findings_by_agent(r)
<1>1. ASSUME NEW i \in DOMAIN SpecialistNames
      PROVE  /\ DOMAIN by_agent[i] \subseteq Nat /\ IsFiniteSet(DOMAIN by_agent[i])
             /\ \A k \in DOMAIN by_agent[i] :
                  by_agent[i][k].confidence \in 0..100 /\ by_agent[i][k].line # -1
  <2> DEFINE a == SpecialistNames[i]
  <2>1. a \in Specialists
    BY DEF Specialists
  <2>2. by_agent[i] = IF r[a] = Missing THEN <<>> ELSE r[a]
    BY DEF findings_by_agent
  <2>3. CASE r[a] = Missing
    <3>1. by_agent[i] = <<>> /\ DOMAIN <<>> = {}
      BY <2>2, <2>3
    <3> QED BY <3>1, FS_EmptySet
  <2>4. CASE r[a] # Missing
    <3>1. r[a] \in Outcomes[a]
      BY <2>1, <2>4 DEF Reports
    <3> QED BY <2>1, <2>2, <2>4, <3>1, OutcomesAssumption
  <2> QED BY <2>3, <2>4
<1>2. DOMAIN by_agent = DOMAIN SpecialistNames
  BY DEF findings_by_agent
<1>3. ASSUME NEW p \in Places(by_agent)
      PROVE  /\ p \in Nat \X Nat /\ p[1] \in DOMAIN SpecialistNames
             /\ p[2] \in DOMAIN by_agent[p[1]]
  BY <1>1, <1>2, NamesAssumption DEF Places
<1>4. /\ DOMAIN merged(r) = Places(by_agent)
      /\ \A p \in Places(by_agent) : merged(r)[p] = by_agent[p[1]][p[2]]
  BY DEF merged
<1>5. IsFiniteSet(Places(by_agent))
  <2>1. \A i \in DOMAIN by_agent : IsFiniteSet(DOMAIN by_agent[i])
    BY <1>1, <1>2
  <2>2. IsFiniteSet(DOMAIN by_agent)
    BY <1>2, NamesAssumption
  <2> HIDE DEF by_agent
  <2> QED BY <2>1, <2>2, FinitelyManyPlaces
<1> HIDE DEF by_agent
<1> QED BY <1>1, <1>3, <1>4, <1>5 DEF Findings

-----------------------------------------------------------------------------
(* dedup_findings *)

\* The winner of a spot is one of its findings, and none is more confident.
LEMMA WinnerIsBest ==
    ASSUME NEW findings, Findings(findings), NEW spot, Group(findings, spot) # {}
    PROVE  \E i \in Group(findings, spot) :
              /\ Winner(findings, spot) = findings[i]
              /\ \A k \in Group(findings, spot) :
                    findings[i].confidence >= findings[k].confidence
<1> DEFINE group == Group(findings, spot)
           doubt(i) == 100 - findings[i].confidence
           Top(i) == \A k \in group :
                       \/ findings[i].confidence > findings[k].confidence
                       \/ findings[i].confidence = findings[k].confidence /\ Before(i, k)
<1>1. /\ group \subseteq Nat \X Nat
      /\ \A i \in group : findings[i].confidence \in 0..100
  BY DEF Group, Findings
<1> DEFINE doubts == {doubt(i) : i \in group}
<1>2. PICK least \in doubts : \A d \in doubts : least <= d
  <2>1. doubts # {} /\ doubts \subseteq Nat
    BY <1>1
  <2> HIDE DEF doubts
  <2> QED BY <2>1, LeastNatural
<1> DEFINE best == {i \in group : doubt(i) = least}
<1>3. PICK p \in best : \A q \in best : Before(p, q)
  <2>1. best # {} /\ best \subseteq Nat \X Nat
    BY <1>1, <1>2
  <2> HIDE DEF best
  <2> QED BY <2>1, FirstPlace
<1>4. Top(p)
  <2>1. p \in group /\ doubt(p) = least
    BY <1>3
  <2>2. ASSUME NEW k \in group
        PROVE  \/ findings[p].confidence > findings[k].confidence
               \/ findings[p].confidence = findings[k].confidence /\ Before(p, k)
    <3>1. findings[p].confidence \in 0..100 /\ findings[k].confidence \in 0..100
      BY <1>1, <2>1
    <3>2. 100 - findings[p].confidence <= 100 - findings[k].confidence
      BY <1>2, <2>1
    <3>3. findings[p].confidence = findings[k].confidence => Before(p, k)
      BY <1>3, <2>1
    <3>4. \A c \in 0..100, d \in 0..100 : 100 - c <= 100 - d => c > d \/ c = d
      OBVIOUS
    <3> HIDE DEF group
    <3> QED BY <3>1, <3>2, <3>3, <3>4
  <2> QED BY <2>2
<1> DEFINE w == CHOOSE i \in group : Top(i)
<1>5. w \in group /\ Top(w)
  BY <1>4
<1>6. Winner(findings, spot) = findings[w]
  BY DEF Winner
<1> HIDE DEF w
<1>7. ASSUME NEW k \in group PROVE findings[w].confidence >= findings[k].confidence
  <2>1. /\ findings[w].confidence \in 0..100 /\ findings[k].confidence \in 0..100
        /\ findings[w].confidence > findings[k].confidence
             \/ findings[w].confidence = findings[k].confidence
    BY <1>1, <1>5
  <2>2. \A c \in 0..100, d \in 0..100 : c > d \/ c = d => c >= d
    OBVIOUS
  <2> QED BY <2>1, <2>2
<1> QED BY <1>5, <1>6, <1>7

\* Where a survivor comes from: a finding of its spot, none there more confident.
LEMMA SurvivorOrigin ==
    ASSUME NEW findings, Findings(findings), NEW s \in dedup_findings(findings)
    PROVE  \E i \in DOMAIN findings :
              /\ s.finding = findings[i]
              /\ s = Survivor(findings, Spot(findings[i]))
              /\ \A k \in Group(findings, Spot(findings[i])) :
                    findings[i].confidence >= findings[k].confidence
<1>1. PICK p \in DOMAIN findings : s = Survivor(findings, Spot(findings[p]))
  BY DEF dedup_findings
<1> DEFINE spot == Spot(findings[p])
<1>2. p \in Group(findings, spot)
  BY DEF Group
<1>3. PICK i \in Group(findings, spot) :
        /\ Winner(findings, spot) = findings[i]
        /\ \A k \in Group(findings, spot) :
              findings[i].confidence >= findings[k].confidence
  <2> HIDE DEF spot
  <2> QED BY <1>2, WinnerIsBest
<1>4. i \in DOMAIN findings /\ Spot(findings[i]) = spot
  BY <1>3 DEF Group
<1>5. s.finding = Winner(findings, spot)
  BY <1>1 DEF Survivor
<1> QED BY <1>1, <1>3, <1>4, <1>5

\* A review has at most one survivor per finding.
LEMMA FiniteReview ==
    ASSUME NEW findings, Findings(findings)
    PROVE  IsFiniteSet(dedup_findings(findings))
<1> DEFINE f == [p \in DOMAIN findings |-> Survivor(findings, Spot(findings[p]))]
<1>1. dedup_findings(findings) = {f[p] : p \in DOMAIN findings}
  BY DEF dedup_findings
<1>2. DOMAIN f = DOMAIN findings
  OBVIOUS
<1> HIDE DEF f
<1> QED BY <1>1, <1>2, FiniteImage DEF Findings

\* Every spot anybody flagged has a survivor.
LEMMA SpotSurvives ==
    ASSUME NEW findings, Findings(findings), NEW p \in DOMAIN findings
    PROVE  \E s \in dedup_findings(findings) :
              /\ Spot(s.finding) = Spot(findings[p])
              /\ s.finding.confidence >= findings[p].confidence
              /\ \E i \in DOMAIN findings : s.finding = findings[i]
<1> DEFINE spot == Spot(findings[p])
           s == Survivor(findings, spot)
<1>1. s \in dedup_findings(findings)
  BY DEF dedup_findings
<1>2. p \in Group(findings, spot)
  BY DEF Group
<1>3. PICK i \in Group(findings, spot) :
        /\ Winner(findings, spot) = findings[i]
        /\ \A k \in Group(findings, spot) :
              findings[i].confidence >= findings[k].confidence
  <2> HIDE DEF spot
  <2> QED BY <1>2, WinnerIsBest
<1>4. i \in DOMAIN findings /\ Spot(findings[i]) = spot
  BY <1>3 DEF Group
<1>5. s.finding = findings[i]
  BY <1>3 DEF Survivor
<1> QED BY <1>1, <1>2, <1>3, <1>4, <1>5

\* Two survivors never share a spot.
LEMMA SpotsTellApart ==
    ASSUME NEW findings, Findings(findings),
           NEW s \in dedup_findings(findings), NEW t \in dedup_findings(findings),
           Spot(s.finding) = Spot(t.finding)
    PROVE  s = t
<1>1. PICK i \in DOMAIN findings :
        s.finding = findings[i] /\ s = Survivor(findings, Spot(findings[i]))
  BY SurvivorOrigin
<1>2. PICK k \in DOMAIN findings :
        t.finding = findings[k] /\ t = Survivor(findings, Spot(findings[k]))
  BY SurvivorOrigin
<1> QED BY <1>1, <1>2

\* Nor a key of the unique index, although the index reads None as -1.
LEMMA RowsTellApart ==
    ASSUME NEW findings, Findings(findings),
           NEW s \in dedup_findings(findings), NEW t \in dedup_findings(findings),
           RowKey(s) = RowKey(t)
    PROVE  s = t
<1>1. s.finding.line # -1 /\ t.finding.line # -1
  BY SurvivorOrigin DEF Findings
<1>2. s.finding.file = t.finding.file
  BY DEF RowKey
<1>3. (IF s.finding.line = NoLine THEN -1 ELSE s.finding.line)
        = (IF t.finding.line = NoLine THEN -1 ELSE t.finding.line)
  BY DEF RowKey
<1>4. s.finding.line = t.finding.line
  BY <1>1, <1>3
<1>5. Spot(s.finding) = Spot(t.finding)
  BY <1>2, <1>4 DEF Spot
<1> QED BY <1>5, SpotsTellApart

\* Findings that no key confuses are inserted into an empty table as they are.
LEMMA InsertedWhole ==
    ASSUME NEW deduped,
           \A s \in deduped, t \in deduped : RowKey(s) = RowKey(t) => s = t
    PROVE  InsertRows({}, deduped) = deduped
<1> DEFINE chosen(key) == CHOOSE s \in deduped : RowKey(s) = key
<1>1. InsertRows({}, deduped) = {chosen(key) : key \in RowKeys(deduped)}
  <2>1. {s \in deduped : RowKey(s) \notin RowKeys({})} = deduped
    BY DEF RowKeys
  <2> QED BY <2>1 DEF InsertRows
<1>2. \A s \in deduped : chosen(RowKey(s)) = s
  OBVIOUS
<1>3. RowKeys(deduped) = {RowKey(s) : s \in deduped}
  BY DEF RowKeys
<1> HIDE DEF chosen
<1> QED BY <1>1, <1>2, <1>3

\* So insert_findings keeps the whole of a review.
LEMMA RowsKeepTheReview ==
    ASSUME NEW r \in Reports
    PROVE  InsertRows({}, Deduped(r)) = Deduped(r)
<1>1. Findings(merged(r)) /\ Deduped(r) = dedup_findings(merged(r))
  BY MergedIsFindings DEF Deduped
<1>2. \A s \in Deduped(r), t \in Deduped(r) : RowKey(s) = RowKey(t) => s = t
  BY <1>1, RowsTellApart
<1> QED BY <1>2, InsertedWhole

-----------------------------------------------------------------------------
(* The sum of the confidences.  Folds defines it with a function, which      *)
(* exists because the set is finite: an argument by the least size at which  *)
(* it would not.                                                             *)

first(T) == CHOOSE s \in T : TRUE

Adds(sum, T) ==
    sum[T] = IF T = {} THEN 0
             ELSE first(T).finding.confidence + sum[T \ {first(T)}]

\* A subset without its first member is a subset, one member smaller.
LEMMA Smaller ==
    ASSUME NEW D, IsFiniteSet(D), NEW T \in SUBSET D, T # {}
    PROVE  /\ first(T) \in T
           /\ T \ {first(T)} \in SUBSET D
           /\ Cardinality(T) \in Nat \ {0}
           /\ Cardinality(T \ {first(T)}) = Cardinality(T) - 1
<1>1. first(T) \in T
  BY DEF first
<1>2. IsFiniteSet(T)
  BY FS_Subset
<1>3. Cardinality(T) \in Nat /\ Cardinality(T) # 0
  BY <1>2, FS_CardinalityType, FS_EmptySet
<1>4. Cardinality(T \ {first(T)}) = Cardinality(T) - 1
  BY <1>1, <1>2, FS_RemoveElement
<1> QED BY <1>1, <1>3, <1>4

\* There is a function that adds up every subset of at most n members.
AddsUpTo(D, n) ==
    \E sum : \A T \in SUBSET D : Cardinality(T) <= n => Adds(sum, T)

LEMMA AddsOneMore ==
    ASSUME NEW D, IsFiniteSet(D), NEW n \in Nat, AddsUpTo(D, n)
    PROVE  AddsUpTo(D, n + 1)
<1>1. PICK sum : \A T \in SUBSET D : Cardinality(T) <= n => Adds(sum, T)
  BY DEF AddsUpTo
<1> DEFINE more == [T \in SUBSET D |->
                        IF T = {} THEN 0
                        ELSE first(T).finding.confidence + sum[T \ {first(T)}]]
<1>2. ASSUME NEW T \in SUBSET D, Cardinality(T) <= n + 1 PROVE Adds(more, T)
  <2>1. CASE T = {}
    BY <2>1 DEF Adds
  <2>2. CASE T # {}
    <3> DEFINE rest == T \ {first(T)}
    <3>1. rest \in SUBSET D /\ Cardinality(rest) <= n
      BY <1>2, <2>2, Smaller
    <3>2. sum[rest] = more[rest]
      BY <1>1, <3>1 DEF Adds
    <3>3. more[T] = first(T).finding.confidence + sum[rest]
      BY <2>2
    <3> HIDE DEF more
    <3> QED BY <2>2, <3>2, <3>3 DEF Adds
  <2> QED BY <2>1, <2>2
<1> HIDE DEF more
<1> QED BY <1>2 DEF AddsUpTo

LEMMA AddsEverySize ==
    ASSUME NEW D, IsFiniteSet(D), NEW n \in Nat
    PROVE  AddsUpTo(D, n)
<1> DEFINE failing == {k \in Nat : ~AddsUpTo(D, k)}
<1> SUFFICES ASSUME failing # {} PROVE FALSE
  OBVIOUS
<1>1. PICK k \in failing : \A l \in failing : k <= l
  <2>1. failing \subseteq Nat
    OBVIOUS
  <2> HIDE DEF failing
  <2> QED BY <2>1, LeastNatural
<1>2. AddsUpTo(D, 0)
  <2> DEFINE sum == [T \in SUBSET D |-> 0]
  <2>1. ASSUME NEW T \in SUBSET D, Cardinality(T) <= 0 PROVE Adds(sum, T)
    <3>1. T # {} => Cardinality(T) \in Nat \ {0}
      BY Smaller
    <3>2. T = {}
      BY <2>1, <3>1
    <3> QED BY <3>2 DEF Adds
  <2> HIDE DEF sum
  <2> QED BY <2>1 DEF AddsUpTo
<1>3. k \in Nat \ {0} /\ ~AddsUpTo(D, k)
  BY <1>1, <1>2
<1>4. AddsUpTo(D, k - 1)
  <2>1. k - 1 \in Nat /\ ~(k <= k - 1)
    BY <1>3
  <2> QED BY <1>1, <2>1
<1>5. AddsUpTo(D, (k - 1) + 1)
  <2>1. k - 1 \in Nat
    BY <1>3
  <2> QED BY <1>4, <2>1, AddsOneMore
<1>6. (k - 1) + 1 = k
  BY <1>3
<1> QED BY <1>3, <1>5, <1>6

\* So the sum of the confidences is one of that kind, at every subset.
LEMMA SumAdds ==
    ASSUME NEW D, IsFiniteSet(D)
    PROVE  \E sum :
              /\ \A T \in SUBSET D : Adds(sum, T)
              /\ MapThenSumSet(LAMBDA s : s.finding.confidence, D) = sum[D]
<1> DEFINE Step(g) == [T \in SUBSET D |->
                          IF T = {} THEN 0
                          ELSE first(T).finding.confidence + g[T \ {first(T)}]]
           sum == CHOOSE g : g = Step(g)
<1>1. \E g : g = Step(g)
  <2>1. Cardinality(D) \in Nat /\ \A T \in SUBSET D : Cardinality(T) <= Cardinality(D)
    BY FS_CardinalityType, FS_Subset
  <2>2. PICK g : \A T \in SUBSET D : Adds(g, T)
    BY <2>1, AddsEverySize DEF AddsUpTo
  <2> DEFINE h == Step(g)
  <2>3. \A T \in SUBSET D : h[T] = g[T]
    BY <2>2 DEF Adds
  <2>4. \A T \in SUBSET D : T \ {first(T)} \in SUBSET D
    OBVIOUS
  <2>5. Step(h) = h
    BY <2>3, <2>4
  <2> HIDE DEF h, Step
  <2> QED BY <2>5
<1>2. sum = Step(sum)
  <2> HIDE DEF Step
  <2> QED BY <1>1
<1>3. MapThenSumSet(LAMBDA s : s.finding.confidence, D) = sum[D]
  BY DEF MapThenSumSet, MapThenFoldSet, first
<1> HIDE DEF sum
<1>4. \A T \in SUBSET D : Adds(sum, T)
  BY <1>2 DEF Adds
<1> QED BY <1>3, <1>4

\* Confidences that reach the threshold add up to a mean that does.
LEMMA DoubtNeeded ==
    ASSUME NEW D, IsFiniteSet(D),
           \A s \in D : s.finding.confidence \in 0..100 /\ s.finding.confidence >= Threshold
    PROVE  ~BelowThreshold(D)
<1>1. PICK sum :
        /\ \A T \in SUBSET D : Adds(sum, T)
        /\ MapThenSumSet(LAMBDA s : s.finding.confidence, D) = sum[D]
  BY SumAdds
<1> DEFINE reaches(T) == sum[T] \in Nat /\ sum[T] >= Threshold * Cardinality(T)
           failing == {n \in Nat : \E T \in SUBSET D : Cardinality(T) = n /\ ~reaches(T)}
<1>2. failing = {}
  <2> SUFFICES ASSUME failing # {} PROVE FALSE
    OBVIOUS
  <2>1. PICK n \in failing : \A m \in failing : n <= m
    <3>1. failing \subseteq Nat
      OBVIOUS
    <3> HIDE DEF failing
    <3> QED BY <3>1, LeastNatural
  <2>2. PICK T \in SUBSET D : Cardinality(T) = n /\ ~reaches(T)
    BY <2>1
  <2>3. T # {}
    <3>1. sum[{}] = 0 /\ Cardinality({}) = 0
      BY <1>1, FS_EmptySet DEF Adds
    <3>2. 0 \in Nat /\ 0 >= Threshold * 0
      BY ThresholdAssumption
    <3>3. reaches({})
      BY <3>1, <3>2
    <3> HIDE DEF reaches
    <3> QED BY <2>2, <3>3
  <2> DEFINE rest == T \ {first(T)}
  <2>4. /\ first(T) \in D /\ rest \in SUBSET D
        /\ n \in Nat \ {0} /\ Cardinality(rest) = n - 1
    BY <2>2, <2>3, Smaller
  <2>5. reaches(rest)
    <3>1. n - 1 \notin failing
      BY <2>1, <2>4
    <3>2. n - 1 \in Nat
      BY <2>4
    <3> HIDE DEF reaches
    <3> QED BY <2>4, <3>1, <3>2
  <2>6. sum[T] = first(T).finding.confidence + sum[rest]
    BY <1>1, <2>3 DEF Adds
  <2> DEFINE c == first(T).finding.confidence
  <2>7. c \in Nat /\ c >= Threshold /\ Threshold \in Nat
    BY <2>4, ThresholdAssumption
  <2>8. Threshold * n = Threshold * (n - 1) + Threshold
    BY <2>4, <2>7
  <2>9. /\ sum[rest] \in Nat /\ sum[rest] >= Threshold * (n - 1)
        /\ Threshold * (n - 1) \in Nat
    BY <2>4, <2>5, <2>7
  <2>10. reaches(T)
    <3> DEFINE low == Threshold * (n - 1)
               high == sum[rest]
    <3>1. Threshold * Cardinality(T) = low + Threshold
      BY <2>2, <2>8
    <3>2. high \in Nat /\ low \in Nat /\ high >= low
      BY <2>9
    <3>3. sum[T] = c + high
      BY <2>6
    <3> HIDE DEF c, low, high
    <3>4. sum[T] \in Nat /\ sum[T] >= low + Threshold
      BY <2>7, <3>2, <3>3
    <3> QED BY <3>1, <3>4
  <2> QED BY <2>2, <2>10
<1>3. reaches(D)
  <2>1. Cardinality(D) \in Nat
    BY FS_CardinalityType
  <2> HIDE DEF reaches
  <2> QED BY <1>2, <2>1
<1>4. Threshold * Cardinality(D) \in Nat
  BY FS_CardinalityType, ThresholdAssumption
<1> DEFINE total == MapThenSumSet(LAMBDA s : s.finding.confidence, D)
<1>5. total \in Nat /\ total >= Threshold * Cardinality(D)
  BY <1>1, <1>3
<1>6. ~(total < Threshold * Cardinality(D))
  <2> HIDE DEF total
  <2> QED BY <1>4, <1>5
<1> QED BY <1>6 DEF BelowThreshold

-----------------------------------------------------------------------------
(* The runs of the gate *)

VerdictInv ==
    verdict # "none" =>
        /\ \A a \in Specialists : results[a] # Missing
        /\ verdict = decide(Review)

GateInv == TypeOK /\ VerdictInv

LEMMA InitGate == Init => GateInv
<1> SUFFICES ASSUME Init PROVE GateInv
  OBVIOUS
<1>1. results \in [Specialists -> AnyReport]
  BY DEF Init, AnyReport
<1> QED BY <1>1 DEF Init, GateInv, TypeOK, VerdictInv, Reports

LEMMA NextGate == GateInv /\ [Next]_vars => GateInv'
<1> SUFFICES ASSUME GateInv, [Next]_vars PROVE GateInv'
  OBVIOUS
<1>1. CASE Aggregate
  <2>1. verdict' = decide(Review) /\ UNCHANGED results
    BY <1>1 DEF Aggregate, Review
  <2>2. decide(Review) \in Decisions
    BY DEF decide, Decisions
  <2>3. Review' = Review
    BY <2>1 DEF Review
  <2>4. \A a \in Specialists : results[a] # Missing
    BY <1>1 DEF Aggregate
  <2>5. (decide(Review))' = decide(Review)
    BY <2>3 DEF decide
  <2> QED BY <2>1, <2>2, <2>4, <2>5 DEF GateInv, TypeOK, VerdictInv
<1>2. ASSUME NEW a \in Specialists, Specialist(a) PROVE GateInv'
  <2>1. PICK reported \in Outcomes[a] : results' = [results EXCEPT ![a] = reported]
    BY <1>2 DEF Specialist
  <2>2. reported \in AnyReport
    <3>1. reported \in AnyOutcome
      BY Zenon DEF AnyOutcome
    <3> QED BY <3>1 DEF AnyReport
  <2>3. results \in [Specialists -> AnyReport]
    BY DEF GateInv, TypeOK, Reports
  <2>4. results' \in [Specialists -> AnyReport]
    BY <2>1, <2>2, <2>3
  <2>5. \A b \in Specialists : results'[b] \in Outcomes[b] \cup {Missing}
    BY <2>1, <2>3 DEF GateInv, TypeOK, Reports
  <2>6. results' \in Reports
    BY <2>4, <2>5 DEF Reports
  <2>7. verdict' = "none"
    BY <1>2 DEF Specialist, GateInv, VerdictInv
  <2> QED BY <2>6, <2>7 DEF GateInv, TypeOK, VerdictInv
<1>3. CASE UNCHANGED vars
  <2>1. results' = results /\ verdict' = verdict
    BY <1>3 DEF vars
  <2>2. Review' = Review
    BY <2>1 DEF Review
  <2>3. (decide(Review))' = decide(Review)
    BY <2>2 DEF decide
  <2> QED BY <2>1, <2>3 DEF GateInv, TypeOK, VerdictInv
<1> QED BY <1>1, <1>2, <1>3 DEF Next

\* A verdict is never followed by a report, and it is the decision on them all.
LEMMA GateInvariant == Spec => []GateInv
BY InitGate, NextGate, PTL DEF Spec

\* Each specialist has reported something it may report or nothing, and the
\* verdict is one of the three of decide.
THEOREM TypeCorrect == Spec => []TypeOK
<1>1. GateInv => TypeOK
  BY DEF GateInv
<1> QED BY <1>1, GateInvariant, PTL

-----------------------------------------------------------------------------
\* What was reported is what aggregate_node merges.
LEMMA ReportedIsMerged ==
    ASSUME TypeOK
    PROVE  Reported = {merged(results)[p] : p \in DOMAIN merged(results)}
<1> DEFINE by_agent == findings_by_agent(results)
           merge == {merged(results)[p] : p \in DOMAIN merged(results)}
<1>1. /\ DOMAIN merged(results) = Places(by_agent)
      /\ \A p \in Places(by_agent) : merged(results)[p] = by_agent[p[1]][p[2]]
  BY DEF merged
<1>2. /\ DOMAIN by_agent = DOMAIN SpecialistNames
      /\ \A i \in DOMAIN SpecialistNames :
            by_agent[i] = IF results[SpecialistNames[i]] = Missing
                          THEN <<>> ELSE results[SpecialistNames[i]]
  BY DEF findings_by_agent
<1> HIDE DEF by_agent
<1>3. ASSUME NEW f \in Reported PROVE f \in merge
  <2>1. PICK a \in Specialists : results[a] # Missing /\ f \in ToSet(results[a])
    BY <1>3 DEF Reported
  <2>2. PICK k \in DOMAIN results[a] : f = results[a][k]
    BY <2>1 DEF ToSet
  <2>3. PICK i \in DOMAIN SpecialistNames : a = SpecialistNames[i]
    BY DEF Specialists
  <2>4. by_agent[i] = results[a]
    BY <1>2, <2>1, <2>3
  <2>5. <<i, k>> \in Places(by_agent)
    BY <1>2, <2>2, <2>4 DEF Places
  <2>6. merged(results)[<<i, k>>] = f
    BY <1>1, <2>2, <2>4, <2>5
  <2> QED BY <1>1, <2>5, <2>6
<1>4. ASSUME NEW f \in merge PROVE f \in Reported
  <2>1. PICK p \in Places(by_agent) : f = by_agent[p[1]][p[2]]
    BY <1>1
  <2>2. p[1] \in DOMAIN SpecialistNames /\ p[2] \in DOMAIN by_agent[p[1]]
    BY <1>2 DEF Places
  <2> DEFINE a == SpecialistNames[p[1]]
  <2>3. a \in Specialists
    BY <2>2 DEF Specialists
  <2>4. results[a] # Missing /\ by_agent[p[1]] = results[a]
    BY <1>2, <2>2
  <2>5. f \in ToSet(results[a])
    BY <2>1, <2>2, <2>4 DEF ToSet
  <2> QED BY <2>3, <2>4, <2>5 DEF Reported
<1> QED BY <1>3, <1>4

LEMMA MergedFacts ==
    ASSUME TypeOK
    PROVE  Findings(merged(results)) /\ Review = dedup_findings(merged(results))
BY MergedIsFindings DEF TypeOK, Review, Deduped

-----------------------------------------------------------------------------
(* The theorems *)

\* dedup_findings collapses the findings of a spot to one of the most confident
\* and loses no spot, whatever the specialists report and in whatever order.
THEOREM OneSurvivorPerSpotAlways == Spec => []OneSurvivorPerSpot
<1>1. TypeOK => OneSurvivorPerSpot
  <2> SUFFICES ASSUME TypeOK, NEW f \in Reported
               PROVE  \E s \in Review :
                        /\ s.finding \in Reported
                        /\ Spot(s.finding) = Spot(f)
                        /\ s.finding.confidence >= f.confidence
                        /\ \A t \in Review : Spot(t.finding) = Spot(f) => t = s
    BY DEF OneSurvivorPerSpot
  <2>1. PICK p \in DOMAIN merged(results) : f = merged(results)[p]
    BY ReportedIsMerged
  <2>2. PICK s \in Review :
          /\ Spot(s.finding) = Spot(f)
          /\ s.finding.confidence >= f.confidence
          /\ \E i \in DOMAIN merged(results) : s.finding = merged(results)[i]
    BY <2>1, MergedFacts, SpotSurvives
  <2>3. s.finding \in Reported
    BY <2>2, ReportedIsMerged
  <2>4. \A t \in Review : Spot(t.finding) = Spot(f) => t = s
    BY <2>2, MergedFacts, SpotsTellApart
  <2> QED BY <2>2, <2>3, <2>4
<1> QED BY <1>1, GateInvariant, PTL DEF GateInv

\* The agents a survivor names, with its own, are those that flagged its spot.
THEOREM AgreementKeptAlways == Spec => []AgreementKept
<1>1. TypeOK => AgreementKept
  <2> SUFFICES ASSUME TypeOK, NEW s \in Review
               PROVE  {s.finding.agent_type} \cup s.also_flagged_by
                        = {f.agent_type : f \in {g \in Reported : Spot(g) = Spot(s.finding)}}
    BY DEF AgreementKept
  <2> DEFINE all == merged(results)
  <2>1. PICK i \in DOMAIN all : s.finding = all[i] /\ s = Survivor(all, Spot(all[i]))
    BY MergedFacts, SurvivorOrigin
  <2> DEFINE group == Group(all, Spot(s.finding))
  <2>2. s.also_flagged_by = {all[k].agent_type : k \in group} \ {s.finding.agent_type}
    BY <2>1 DEF Survivor
  <2>3. i \in group
    BY <2>1 DEF Group
  <2>4. {f.agent_type : f \in {g \in Reported : Spot(g) = Spot(s.finding)}}
          = {all[k].agent_type : k \in group}
    BY ReportedIsMerged DEF Group
  <2> HIDE DEF all, group
  <2> QED BY <2>1, <2>2, <2>3, <2>4
<1> QED BY <1>1, GateInvariant, PTL DEF GateInv

\* decide looks for CRITICAL before the score, so the only CRITICAL finding a
\* human does not see is one that lost its spot to a finding as confident.
THEOREM CriticalLostOnlyAtItsSpotAlways == Spec => []CriticalLostOnlyAtItsSpot
<1>1. GateInv => CriticalLostOnlyAtItsSpot
  <2> SUFFICES ASSUME GateInv, verdict \in {"auto_post", "queued"},
                      NEW f \in Reported, f.severity = "critical"
               PROVE  \E g \in Reported :
                        /\ Spot(g) = Spot(f)
                        /\ g.severity # "critical"
                        /\ g.confidence >= f.confidence
    BY DEF CriticalLostOnlyAtItsSpot
  <2>1. TypeOK /\ ~HasCritical(Review)
    BY DEF GateInv, VerdictInv, decide
  <2>2. PICK p \in DOMAIN merged(results) : f = merged(results)[p]
    BY <2>1, ReportedIsMerged
  <2>3. PICK s \in Review :
          /\ Spot(s.finding) = Spot(f)
          /\ s.finding.confidence >= f.confidence
          /\ \E i \in DOMAIN merged(results) : s.finding = merged(results)[i]
    BY <2>1, <2>2, MergedFacts, SpotSurvives
  <2>4. s.finding \in Reported
    BY <2>1, <2>3, ReportedIsMerged
  <2>5. s.finding.severity # "critical"
    BY <2>1 DEF HasCritical
  <2> QED BY <2>3, <2>4, <2>5
<1> QED BY <1>1, GateInvariant, PTL

\* The unique index of finding_records never merges two survivors, a finding
\* without a line included.
THEOREM RowsAreTheReviewAlways == Spec => []RowsAreTheReview
<1>1. TypeOK => RowsAreTheReview
  BY RowsKeepTheReview DEF TypeOK, RowsAreTheReview, Review
<1> QED BY <1>1, GateInvariant, PTL DEF GateInv

\* The gate compares the mean of the surviving confidences with the threshold,
\* so a review is queued for its score only when one of them is below it, and
\* a survivor is a finding somebody reported.
THEOREM QueuedOnDoubtAlways == Spec => []QueuedOnDoubt
<1>1. GateInv => QueuedOnDoubt
  <2> SUFFICES ASSUME GateInv, verdict = "queued",
                      \A f \in Reported : ~(f.confidence < Threshold)
               PROVE  FALSE
    BY DEF QueuedOnDoubt
  <2>1. TypeOK /\ BelowThreshold(Review)
    BY DEF GateInv, VerdictInv, decide
  <2>2. Findings(merged(results)) /\ Review = dedup_findings(merged(results))
    BY <2>1, MergedFacts
  <2>3. IsFiniteSet(Review)
    BY <2>2, FiniteReview
  <2>4. ASSUME NEW s \in Review
        PROVE  s.finding.confidence \in 0..100 /\ s.finding.confidence >= Threshold
    <3>1. PICK p \in DOMAIN merged(results) : s.finding = merged(results)[p]
      BY <2>2, SurvivorOrigin
    <3>2. s.finding.confidence \in 0..100
      BY <2>2, <3>1 DEF Findings
    <3>3. ~(s.finding.confidence < Threshold)
      BY <2>1, <3>1, ReportedIsMerged
    <3> QED BY <3>2, <3>3, ThresholdAssumption
  <2> QED BY <2>1, <2>3, <2>4, DoubtNeeded
<1> QED BY <1>1, GateInvariant, PTL
=============================================================================
