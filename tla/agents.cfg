SPECIFICATION Spec
CONSTANTS
    a1 = a1
    a2 = a2
    a3 = a3
    Callers = {a1, a2, a3}
    Deps <- Dependencies
    Threshold = 2
    Budgeted = TRUE
    Cap = 1
    Costs = {0, 1}
    MaxCost = 1
    Attempts <- MCAttempts
    Rounds = 2
    MaxFaults = 3
    Faults = {"error", "lost_reply", "cancel"}
SYMMETRY MCSymmetry
INVARIANTS  OutageCostsFewCalls SpansTellTheOutcome
CHECK_DEADLOCK FALSE
