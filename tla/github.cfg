SPECIFICATION Spec
CONSTANTS
    c1 = c1
    c2 = c2
    c3 = c3
    r1 = r1
    r2 = r2
    Deps <- MCDeps
    Threshold = 1
    Callers = {c1, c2, c3}
    Repos = {r1, r2}
    RepoOf <- MCRepoOf
    JwtTTL = 3
    JwtMargin = 1
    TokenTTL = 5
    TokenMargin = 2
    SendTime = 1
    RetryAttempts = 2
    MaxTime = 8
    MaxFaults = 3
CHECK_DEADLOCK FALSE
INVARIANTS  OutageCostsFewCalls
