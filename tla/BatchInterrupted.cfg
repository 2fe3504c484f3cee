\* KeyboardInterrupt while the workers of the direct route run.
CONSTANTS
    a = a
    b = b
    g = g
    Files <- MCFiles
    Generated <- MCGenerated
    Plans <- MCPlans
    ParallelFrom = 2
    ParallelTo = 3
    PoolSize = 2
    FaultKinds = {"interrupt"}
SPECIFICATION Spec
INVARIANT EveryRouteIsAtomic
