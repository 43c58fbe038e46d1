--------------------------- MODULE MCReviewSystem ---------------------------
(* One pull request delivery, two specialists.  What they may report reaches  *)
(* all three decisions; dropping a specialist's report changes the decision,  *)
(* and two runs may report different findings under one row key.              *)
EXTENDS ReviewSystem, TLC

CONSTANTS d1, j1, j2, c1, c2

MCSpecialistNames == <<"security", "quality">>

F(agent, severity, category, confidence) ==
    [agent_type |-> agent, severity |-> severity, category |-> category,
     file |-> "app.py", line |-> IF agent = "security" THEN 1 ELSE 2,
     confidence |-> confidence]

\* security: nothing, or a CRITICAL; quality: nothing, or a doubtful remark.
MCOutcomes ==
    [security |-> {<<>>, <<F("security", "critical", "injection", 90)>>},
     quality  |-> {<<>>, <<F("quality", "low", "naming", 60)>>}]

\* Enough to tell two decisions apart when jobs interleave.
MCFewOutcomes ==
    [security |-> {<<>>, <<F("security", "critical", "injection", 90)>>},
     quality  |-> {<<F("quality", "low", "naming", 80)>>}]

\* A specialist asked twice may answer twice: the same spot under another
\* category, or the same row with another confidence.
MCVaryingOutcomes ==
    [security |-> {<<F("security", "critical", "injection", 90)>>,
                   <<F("security", "low", "injection", 60)>>,
                   <<F("security", "medium", "secrets", 90)>>},
     quality  |-> {<<>>}]

MCDeliveryOf == [j \in Jobs |-> d1]
MCReviewOf == [c \in Calls |-> d1]

\* Jobs and calls are treated alike; for the runs of invariants alone.
MCSymmetry == Permutations(Jobs) \cup Permutations(Calls)
=============================================================================
