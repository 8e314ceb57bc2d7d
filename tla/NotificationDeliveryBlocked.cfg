SPECIFICATION FairSpec
CONSTANTS
    Count = 2
    MaxAttempts = 2
    BatchSize = 2
    MaxFaults = 1
    Undeliverable <- First
    Outcomes <- AnsweredOutcomes
    FaultKinds <- OnlyCrash
PROPERTY
    OthersSettle
CHECK_DEADLOCK FALSE
