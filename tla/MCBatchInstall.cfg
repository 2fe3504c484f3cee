\* Every route, every fault.
CONSTANTS
    a = a
    b = b
    g = g
    Files <- MCFiles
    Generated <- MCGenerated
    Plans <- MCPlans
    ParallelFrom = 2
    ParallelTo = 3
    PoolSize = 2
    FaultKinds = {"error", "interrupt", "rollback", "partial", "gap"}
SPECIFICATION Spec
INVARIANTS
    TypeOK
    FailureLeavesNothing
PROPERTIES
    BatchIsAtomic
    StrangersKept
    CallEnds
