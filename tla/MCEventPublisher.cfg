SPECIFICATION FairSpec
CONSTANTS
    e1 = e1
    e2 = e2
    e3 = e3
    Events <- EventsDef
    Payload <- PayloadDef
    Overhead = 1
    Envelope = 2
    OtherBytes = {0, 2}
    MessageSizes = {3, 4}
    HighFrequency = 0
    LowFrequency = 1
    MaxAge = 2
INVARIANTS
    MessageAccounted
    OneHighMessagePerPass
PROPERTIES
    EventsDequeued
    OperationalDequeued
