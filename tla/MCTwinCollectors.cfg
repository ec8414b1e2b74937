SPECIFICATION Spec
CONSTANTS
    monitor = monitor
    twinUpdater = twinUpdater
    NoThread = NoThread
    Threads <- ThreadsDef
    MayCall <- MayCallDef
    Values = {1, 2}
INVARIANT
    ReportIsOneConfiguration
\* The threads can block each other for ever: see OperationsReturn.
CHECK_DEADLOCK FALSE
