CONSTANTS
    TokenParts = 2
    Burst = 2
    Interval = 1
    MaxUnits = 3
    Horizon = 7
    MaxRequests = 4
SPECIFICATION LimiterSpec
INVARIANTS
    SlotsSpaced
    RateExact
\* the clock stops at the horizon
CHECK_DEADLOCK FALSE
