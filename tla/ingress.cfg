SPECIFICATION FairSpec
CONSTANTS
    pr = pr
    inst = inst
    r1 = r1
    r2 = r2
    r3 = r3
    r4 = r4
    r5 = r5
    None = None
    Requests = {r1, r2, r3, r4, r5}
    Deliveries = {pr, inst}
    Work <- MCWork
    Carries <- MCCarries
    Authentic = {r1, r2, r3, r4}
    FailureThreshold = 2
    RetryAttempts = 2
    Faults = {"error", "crash"}
    Expiring = {inst}
CHECK_DEADLOCK FALSE
INVARIANTS
    AcceptedIsEnqueued
    MarkedBeforeQueued
    OneInHand
    QueuedOnce
    ClaimMeansHandled
PROPERTIES
    RequestsAreAnswered
