CONSTANT
    Monitored <- Everything

SPECIFICATION Spec
INVARIANTS
    PrivilegesGivenBack
    ReleasedExactlyOnce
    OkMeansHandedOver
CHECK_DEADLOCK FALSE
