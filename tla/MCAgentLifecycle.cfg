CONSTANT
    MaxItems = 2
SPECIFICATION FairSpec
INVARIANTS
    LiveWhileUsed
    JoinedOnce
PROPERTY
    StopExits
CHECK_DEADLOCK FALSE
