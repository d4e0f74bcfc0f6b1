CONSTANTS
    Levels = 3
    MaxId = 3
    CutMax = 100000
    Clients <- AllClients
SPECIFICATION Spec
INVARIANTS
    CutsAreSound
    CountsAreRight
    CanonicalFlagsAreRight
CHECK_DEADLOCK FALSE
