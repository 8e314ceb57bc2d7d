CONSTANTS
    j1 = j1
    j2 = j2
    j3 = j3
    Jobs <- TwoJobs
    MaxParallel = 1
    QueueCapacity = 2
    Outcomes <- MCOutcomes
    Expiring <- TwoJobs
SPECIFICATION Spec
PROPERTIES
    CancelledNeverConfirmed
