SPECIFICATION Spec
CONSTANTS
    P = 4
    N = 2
    Worlds <- WidenedWorlds
    MinConflictSteps = 4
    StepsPerTrailEntry = 1
    RestartThreshold = 2
    MaxRestarts = 1
    CulpritThreshold = 1
    MinConflicts = 2
    MaxTargeted = 1
INVARIANTS
    UnreachableBug
