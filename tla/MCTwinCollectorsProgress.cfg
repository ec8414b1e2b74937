SPECIFICATION FairSpec
CONSTANTS
    monitor = monitor
    twinUpdater = twinUpdater
    NoThread = NoThread
    Threads <- ThreadsDef
    MayCall <- MayCallDef
    Values = {1, 2}
PROPERTY
    OperationsReturn
CHECK_DEADLOCK FALSE
