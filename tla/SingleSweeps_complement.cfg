CONSTANTS
    Levels = 3
    MaxId = 15
    CutMax = 100000
    Jobs <- Complements
SPECIFICATION Spec
INVARIANT
    ResultIsRight
