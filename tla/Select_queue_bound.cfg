CONSTANTS
    Levels = 11
    MaxId = 15
    CutMax = 100000
    Jobs <- RestrictLadder
SPECIFICATION Spec
INVARIANT
    SelectsWithinBound
