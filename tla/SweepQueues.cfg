SPECIFICATION QueuesSpec
CONSTANTS
    Element <- MCElement
    Stream <- MCStream
    StopLevels <- MCStopLevels
    LevelSkip = 1
    Buckets = 2
    FileCount = 3
    LevelFiles <- MCLevelFiles
INVARIANTS
    TypeOK
    SizeExact
    BucketsHoldTheirLevel
    RingCoversTheLevelsAhead
    PushableBucketsAreUnsorted
    DeliversTheUnionInOrder
PROPERTIES
    ImplementsLevelizedQueue
    UnbucketedImplementsLevelizedQueue
    EveryQueueDrains
CHECK_DEADLOCK FALSE
