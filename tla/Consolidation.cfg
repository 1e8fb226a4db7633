SPECIFICATION FairSpec
CONSTANTS
    Threads = {t1, t2}
    Procs = {p, q}
    None = None
    Absent = Absent
    Partial = Partial
    MaxRaw = 1
    Lease = 1
    RetryDelay = 1
    Cooldown = 1
    MaxStamp = 2
    MaxUsage = 1
    MaxFaults = 1
INVARIANTS
    TypeOK
    BaselineIsDigested
    OverlapNeedsStall
    MarkedIsCommitted
PROPERTIES
    BaselineFollowsRows
CHECK_DEADLOCK FALSE
