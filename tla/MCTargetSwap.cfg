\* Two overlapping processes, every fault.
CONSTANTS
    p1 = p1
    p2 = p2
    a = a
    b = b
    v1 = v1
    v2 = v2
    Procs <- MCProcs
    Dists <- MCDists
    Versions <- MCVersions
    Requests <- MCRequests
    Absent = Absent
    Target = Target
    NoDir = NoDir
    FaultKinds = {"error", "interrupt", "gap", "restore", "crash"}
SPECIFICATION Spec
INVARIANTS
    TypeOK
    CallsAreExact
    TargetKept
    NeverHalfBuilt
PROPERTIES
    TargetComesBack
