CONSTANTS
    Levels = 4
    MaxId = 15
    CutMax = 100000
    Jobs <- AllJobs
SPECIFICATION Spec
INVARIANTS
    ResultIsRight
    MetaDataIsSound
    OutputCanBeReduced
    SweepsWithinBounds
