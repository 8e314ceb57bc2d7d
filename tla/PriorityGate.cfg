CONSTANTS
    r1 = r1
    r2 = r2
    r3 = r3
    r4 = r4
    r5 = r5
    Requests <- MCRequests
    Limit = 2
    Capacity = 2
    OrderingKey <- MCOrderingKey
SPECIFICATION GateFairSpec
INVARIANTS
    SlotsAccounted
PROPERTIES
    ServiceInOrder
    EveryWaitEnds
    ImplementsPermits
\* every request is used once: the system stops when all of them are finished
CHECK_DEADLOCK FALSE
