SPECIFICATION FairSpec
CONSTANTS
    Clients = {a, b}
    MaxItems = 3
    MaxBatch = 2
    ChanCap = 1
    MaxOrdinal = 2
    MaxFaults = 2
    MaxCrashes = 1
INVARIANTS
    TypeOK
    AckedIsDurable
    InOrderByOrdinal
PROPERTIES
    BarrierAnswered
    ImplementsLog
CHECK_DEADLOCK FALSE
