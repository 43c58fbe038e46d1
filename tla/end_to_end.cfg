SPECIFICATION Spec
CONSTANTS
    SpecialistNames <- MCSpecialistNames
    Threshold = 75
    NoLine = NoLine
    Missing = Missing
    None = None
    Outcomes <- MCOutcomes
    d1 = d1
    j1 = j1
    j2 = j2
    r1 = r1
    r2 = r2
    Deliveries = {d1}
    Jobs = {j1, j2}
    Calls = {}
    DeliveryOf <- MCDeliveryOf
    ReviewOf <- MCReviewOf
    Faults = {"crash", "error", "redis_loss", "overlap"}
    RetryAttempts = 1
    MaxTries = 2
    MaxCrashes = 1
    MaxRestarts = 1
    Requests = {r1, r2}
    Carries <- MCCarries
    RedisAttempts = 1
    FailureThreshold = 1
    IngressFaults = {"error", "crash"}
    Expiring = {d1}
CHECK_DEADLOCK FALSE
INVARIANTS
    JobsFollowEachOther
    EachAcceptedHasItsJob
    OneEffect
PROPERTIES
    PromisesAreKept
