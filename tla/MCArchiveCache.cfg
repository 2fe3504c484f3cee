\* Crashes, slow holders, stolen locks.
CONSTANTS
    Procs = {p1, p2, p3}
    Members = {m1}
    First = First
    NoDir = NoDir
    NoProc = NoProc
    MayCrash = TRUE
    SlowHolders = TRUE
SPECIFICATION Spec
INVARIANTS
    TypeOK
    OneExtractor
    InstalledWhole
    EndsMissOrWhole
PROPERTIES
    PublishedForGood
    EveryCallEnds
