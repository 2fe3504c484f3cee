\* A plan of at most two staged files and deletions over two files, every fault.
CONSTANTS
    f1 = f1
    f2 = f2
    t1 = t1
    t2 = t2
    t3 = t3
    Files <- MCFiles
    Texts <- MCTexts
    Real <- MCReal
    FaultKinds = {"error", "partial", "interrupt", "gap", "rollback"}
    MaxPlan = 2
SPECIFICATION Spec
INVARIANTS
    TypeOK
    RollbackRestores
    NothingLost
    CommitApplies
PROPERTIES
    UnrelatedKept
