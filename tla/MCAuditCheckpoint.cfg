CONSTANTS
    r1 = r1
    r2 = r2
    p1 = p1
    p2 = p2
    Records <- TwoRecords
    Payloads <- TwoPayloads
    TicksPerSecond = 2
    MaxTime = 2
    MaxFaults = 1
    MaxCrashes = 1
    Aggregates = TRUE
    Interval = 0
SPECIFICATION FairSpec
INVARIANTS
    NothingSkipped
    RepeatedOnlyAfterSearch
    AggregationExact
PROPERTIES
    EveryRecordTaken
    FlushedWhenOff
