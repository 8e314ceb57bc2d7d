SPECIFICATION Spec
CONSTANTS
    t1 = t1
    t2 = t2
    p1 = p1
    p2 = p2
    Tokens <- MCTokens
    Providers <- MCProviders
    Pairs <- MCPairs
    Offered <- MCOffered
    Illiquid <- MCIlliquid
    None = None
    MaxConcurrent = 2
    FailureThreshold = 1
    MaxPerScan = 2
    QueueCapacity = 2
    MaxFaults = 1
INVARIANTS
    UniqueInWindow
    TruthfulScans
PROPERTIES
    ScanEnds
    PausedAskedAgain
