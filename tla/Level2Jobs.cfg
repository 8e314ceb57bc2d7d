CONSTANTS
    j1 = j1
    j2 = j2
    j3 = j3
    Jobs <- ThreeJobs
    MaxParallel = 1
    QueueCapacity = 2
    Outcomes <- Mixed
    Expiring <- FirstJob
SPECIFICATION FairSpec
INVARIANTS
    VerdictsFounded
    WorkersAccounted
PROPERTIES
    ImplementsLifecycle
    AcceptedJobsStart
