SPECIFICATION Spec
CONSTANTS
    c1 = c1
    c2 = c2
    j1 = j1
    None = None
    Callers <- MCCallers
    Jobs <- MCJobs
    Cancellable <- MCJobs
    Writers <- MCWriters
    Transactions <- MCTransactions
    Copying <- MCCopying
    Versions = 2
    MaxBuilds = 2
    MaxBackups = 2
    Keep = 1
    MaxLockRetries = 2
    Loads <- MCLoads
    MaxStarts = 2
INVARIANTS
    AtomicWrites
    Acknowledged
    SharedBuild
    GoodCopiesKept
PROPERTIES
    WaitsEnd
CHECK_DEADLOCK FALSE
