CONSTANTS
    Levels = 4
    MaxId = 3
    CutMax = 100000
    Jobs <- AllJobs
SPECIFICATION Spec
INVARIANTS
    OutputIsCanonical
    MetaDataIsSound
    SweepInSync
    QueueWithinCut
PROPERTIES
    KeepsToTheQueue
