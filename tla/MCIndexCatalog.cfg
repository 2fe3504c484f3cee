SPECIFICATION Spec
CONSTANTS
    t1 = t1
    t2 = t2
    p1 = p1
    p2 = p2
    Threads = {t1, t2}
    Processes = {p1, p2}
    Sharing <- MCSharing
    Nobody = Nobody
    MaxVersion = 2
    MaxTime = 1
    Lifetimes <- MCLifetimes
    Attempts = 2
    Lookups = 1
\* All lookups made, it stops.
CHECK_DEADLOCK FALSE
INVARIANTS
    TypeOK
    OneRequest
    DerivedNeverAhead
    RestingAgree
PROPERTIES
    EveryLookupEnds
