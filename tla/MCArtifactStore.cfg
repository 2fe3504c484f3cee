SPECIFICATION Spec
CONSTANTS
    p1 = p1
    p2 = p2
    u1 = u1
    u2 = u2
    c1 = c1
    c2 = c2
    Processes = {p1, p2}
    Urls = {u1, u2}
    Contents = {c1, c2}
    None = None
    Torn = Torn
    Superuser = FALSE
    Calls <- MCCalls
SYMMETRY MCSymmetry
\* All calls made, it stops.
CHECK_DEADLOCK FALSE
INVARIANTS
    BodiesAreWhole
    ReturnsWhatItSays
