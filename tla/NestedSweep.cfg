CONSTANTS
    Levels = 4
    MaxId = 15
    CutMax = 100000
    Jobs <- AllJobs
SPECIFICATION Spec
INVARIANTS
    ResultIsQuantified
    MetaDataIsSound
    QueuesWithinBounds
    NothingIsPassed
    SweepsStayInSync
