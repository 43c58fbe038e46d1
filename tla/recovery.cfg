SPECIFICATION FairSpec
CONSTANTS
    SpecialistNames <- MCSpecialistNames
    Threshold = 75
    NoLine = NoLine
    Missing = Missing
    None = None
    Outcomes <- MCVaryingOutcomes
    d1 = d1
    j1 = j1
    j2 = j2
    c1 = c1
    c2 = c2
    Deliveries = {d1}
    Jobs = {j1}
    Calls = {c1}
    DeliveryOf <- MCDeliveryOf
    ReviewOf <- MCReviewOf
    Faults = {"crash", "lost_reply", "redis_loss"}
    RetryAttempts = 2
    MaxTries = 2
    MaxCrashes = 2
    MaxRestarts = 1
CHECK_DEADLOCK FALSE
INVARIANTS
    IInv
    PostedHasReceipt
    PostedFindingsAreStored
    AutoPostPassedTheGate
PROPERTIES
    ImplementsLifecycle
    
