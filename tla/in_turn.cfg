SPECIFICATION Spec
CONSTANTS
    SpecialistNames <- MCSpecialistNames
    Threshold = 75
    NoLine = NoLine
    Missing = Missing
    None = None
    Outcomes <- MCFewOutcomes
    d1 = d1
    j1 = j1
    j2 = j2
    c1 = c1
    c2 = c2
    Deliveries = {d1}
    Jobs = {j1, j2}
    Calls = {c1, c2}
    DeliveryOf <- MCDeliveryOf
    ReviewOf <- MCReviewOf
    Faults = {"crash", "error", "redis_loss"}
    RetryAttempts = 1
    MaxTries = 2
    MaxCrashes = 1
    MaxRestarts = 1
SYMMETRY MCSymmetry
CHECK_DEADLOCK FALSE
INVARIANTS
    TurnInv
    AtMostOneReview
    AtMostOneHitlRow
    OneWayThroughTheGate
    ApprovedIsTheReview
    ApprovalIsOnRecord
