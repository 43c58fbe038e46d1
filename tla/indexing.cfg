SPECIFICATION FairSpec
CONSTANTS
    f = f
    g = g
    Absent = Absent
    Blank = Blank
    None = None
    Paths = {f, g}
    Jobs <- MCJobs
    Lists <- MCLists
    MaxCommits = 2
    MaxTries = 2
    MaxFaults = 2
    Faults = {"error", "lost_reply", "db_down", "cancel", "crash", "branch"}
CHECK_DEADLOCK FALSE
INVARIANTS CaughtUpIsHead
PROPERTIES  PendingIsAnswered
