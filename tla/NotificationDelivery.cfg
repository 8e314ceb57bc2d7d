SPECIFICATION FairSpec
CONSTANTS
    Count = 3
    MaxAttempts = 2
    BatchSize = 2
    MaxFaults = 2
    Undeliverable <- Second
    Outcomes <- AllOutcomes
    FaultKinds <- AllFaults
INVARIANTS
    RecordsTrue
PROPERTIES
    QueueOrder
    EveryNoteSettles
CHECK_DEADLOCK FALSE
