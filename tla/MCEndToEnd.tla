----------------------------- MODULE MCEndToEnd -----------------------------
(* One pull request event posted twice: at once, after a failure, or after the *)
(* dedup key is gone.  The one specialist finds something for a human.          *)
EXTENDS EndToEnd

CONSTANTS d1, j1, j2, r1, r2

MCSpecialistNames == <<"security">>

MCOutcomes ==
    [security |-> {<<[agent_type |-> "security", severity |-> "critical",
                   category |-> "injection", file |-> "app.py", line |-> 1,
                   confidence |-> 90]>>}]

MCDeliveryOf == [j \in Jobs |-> d1]
MCReviewOf == [c \in Calls |-> d1]
MCCarries == [r \in Requests |-> d1]
=============================================================================
