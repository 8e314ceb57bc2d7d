SPECIFICATION Spec
CONSTANTS
    p1 = p1
    p2 = p2
    Providers <- MCProviders
    None = None
    DegradedAt = 2
    UnavailableAt = 3
    HealthyAt = 2
    MaxObservations = 2
    MaxFaults = 1
    MaxStarts = 1
INVARIANTS
    NoHiddenTrouble
PROPERTIES
    EarnedStatus
    SaidOnce
    OperatorLearns
CHECK_DEADLOCK FALSE
