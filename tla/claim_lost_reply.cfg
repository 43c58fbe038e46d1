SPECIFICATION Spec
CONSTANTS
    pr = pr
    inst = inst
    r1 = r1
    r2 = r2
    r3 = r3
    r4 = r4
    r5 = r5
    None = None
    Requests = {r1}
    Deliveries = {pr}
    Work <- MCWork
    Carries <- MCCarries
    Authentic = {r1}
    FailureThreshold = 3
    RetryAttempts = 3
    Faults = {"lost_reply"}
    Expiring = {}
CHECK_DEADLOCK FALSE
INVARIANTS
    NeverSilent
