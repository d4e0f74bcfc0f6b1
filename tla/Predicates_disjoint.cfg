CONSTANTS
    Levels = 4
    MaxId = 15
    CutMax = 100000
    Jobs <- Disjointness
SPECIFICATION Spec
INVARIANT ResultIsRight
