\* A call of commit fails, then a call of rollback.
CONSTANTS
    f1 = f1
    f2 = f2
    t1 = t1
    t2 = t2
    t3 = t3
    Files <- MCFiles
    Texts <- MCTexts
    Real <- MCReal
    FaultKinds = {"error", "rollback"}
    MaxPlan = 2
SPECIFICATION Spec
INVARIANT OriginalsRecoverable
