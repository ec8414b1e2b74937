CONSTANTS
    Updates <- MCUpdates
    DefaultNumbers <- MCDefaultNumbers
    DefaultCollectors <- MCDefaultCollectors
    BillingMultiple = 2
    AllocationFails = TRUE
    MaxUpdates = 2
    MaxTime = 2
SPECIFICATION Spec
INVARIANTS
    ConfigurationWhole
    
    HubViewCurrent
    ReadsSpoiltOnlyByUpdate
