---------------------------- MODULE MCReviewGate ----------------------------
(* Three specialists, two lines of a file and a finding without a line.  The *)
(* confidences lie on both sides of the threshold and tie at one spot.       *)
EXTENDS ReviewGate

MCSpecialistNames == <<"security", "quality", "tests">>
MCThreshold == 75

F(agent, severity, category, line, confidence) ==
    [agent_type |-> agent, severity |-> severity, category |-> category,
     file |-> "app.py", line |-> line, confidence |-> confidence]

\* security may report the same line twice, and a remark on the whole file.
MCOutcomes ==
    [security |->
        {<<>>,
         <<F("security", "critical", "injection", 1, 80)>>,
         <<F("security", "critical", "injection", 1, 90),
           F("security", "low", "secrets", 1, 40)>>,
         <<F("security", "medium", "secrets", NoLine, 60),
           F("security", "medium", "secrets", 1, 95)>>},
     quality |->
        {<<>>,
         <<F("quality", "low", "naming", 1, 80)>>,
         <<F("quality", "low", "naming", 1, 90),
           F("quality", "high", "complexity", 2, 55)>>,
         <<F("quality", "info", "naming", NoLine, 74)>>},
     tests |->
        {<<>>,
         <<F("tests", "medium", "coverage", 2, 75)>>,
         <<F("tests", "critical", "coverage", 2, 50),
           F("tests", "low", "coverage", 1, 85)>>,
         <<F("tests", "medium", "coverage", NoLine, 90),
           F("tests", "medium", "flaky", 2, 76)>>}]

=============================================================================
