SPECIFICATION FairSpec
CONSTANTS
    t1 = t1
    t2 = t2
    a = a
    b = b
    Threads <- MCThreads
    Workers = {a, b}
    NoThread = NoThread
    CurrentThread <- MCCurrentThread
    None = None
    ScanLimit = 2
    MaxRunning = 1
    Lease = 1
    RetryDelay = 1
    Retries = 1
    MaxStamp = 2
    MaxCrashes = 1
    MaxSlow = 1
    MaxResets = 1
INVARIANTS
    TypeOK
    RunningCap
    WatermarkIsCovered
PROPERTIES
    SuccessNeverGoesBack
    EveryThreadSettles
CHECK_DEADLOCK FALSE
