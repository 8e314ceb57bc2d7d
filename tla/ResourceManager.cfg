CONSTANTS
    r1 = r1
    r2 = r2
    r3 = r3
    r4 = r4
    provider = provider
    network = network
    operation = operation
    ceiling = ceiling
    quotes = quotes
    fees = fees
    rpc = rpc
    Requests <- MCRequests
    Gates <- MCGates
    Ceiling = ceiling
    Limit <- MCLimit
    Resources <- MCResources
    Resource <- MCResource
    GatesFor <- MCGatesFor
    Depth <- MCDepth
    MaxAttempts = 2
    FailureThreshold = 2
    SuccessThreshold = 1
    HalfOpenMaxCalls = 1
SPECIFICATION FairSpec
INVARIANTS
    EveryCallPaid
    OneFailurePerOperation
    NoCircularWait
PROPERTIES
    EveryRequestEnds
