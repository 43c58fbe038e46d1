SPECIFICATION Spec
CONSTANTS
    SpecialistNames <- MCSpecialistNames
    Threshold = 75
    NoLine = NoLine
    Missing = Missing
    None = None
    Outcomes <- MCOutcomes
    d1 = d1
    j1 = j1
    j2 = j2
    c1 = c1
    c2 = c2
    Deliveries = {d1}
    Jobs = {j1}
    Calls = {c1}
    DeliveryOf <- MCDeliveryOf
    ReviewOf <- MCReviewOf
    Faults = {"error"}
    RetryAttempts = 3
    MaxTries = 3
    MaxCrashes = 3
    MaxRestarts = 1
CHECK_DEADLOCK FALSE
INVARIANTS
    ApprovedIsPosted
