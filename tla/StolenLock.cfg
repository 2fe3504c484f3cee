\* A holder is killed, two processes break its stale lock; no live holder is slow.
CONSTANTS
    Procs = {p1, p2, p3}
    Members = {m1}
    First = First
    NoDir = NoDir
    NoProc = NoProc
    MayCrash = TRUE
    SlowHolders = FALSE
SPECIFICATION Spec
INVARIANT ReadersSeeWhole
