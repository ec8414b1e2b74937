SPECIFICATION FairSpec
CONSTANTS
    monitor = monitor
    publisher = publisher
    high = high
    diag = diag
    b1 = b1
    b2 = b2
    b3 = b3
    NoBuf = NoBuf
    NoThread = NoThread
    Threads <- ThreadsDef
    Queues <- QueuesDef
    DiagnosticQueue = diag
    Buffers <- BuffersDef
    Bytes <- BytesDef
    Limits = {3, 6}
    DefaultLimit = 3
    UintMod = 16
    DiagnosticSeverities = {"information", "error"}
    MayPush <- MayPushDef
    MaySnapshot <- MaySnapshotDef
    MayPop <- MayPopDef
    MaxPushes = 1
INVARIANTS
    TypeOK
    BuffersOwnedOnce
    MemoryExact
    BudgetRespected
    QueueLockProtects
    CountersComplete
PROPERTIES
    ImplementsBoundedCache
    CallsReturn
