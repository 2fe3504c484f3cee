SPECIFICATION Spec
CONSTANTS
    P = 3
    N = 3
    Worlds <- MCWorlds
    MinConflictSteps = 4
    StepsPerTrailEntry = 1
    RestartThreshold = 2
    MaxRestarts = 1
    CulpritThreshold = 1
    MinConflicts = 2
    MaxTargeted = 1
INVARIANTS
    TypeOK
    Sound
    Complete
    EndsWell
    ConflictIsSatisfied
    DecisionsAgree
    AsIfReplayed
    KeysAreFresh
    PrefersNewest
PROPERTIES
    YankedLastResort
    LearnsSomethingNew
    Terminates
