CONSTANTS
    hubA = hubA
    hubB = hubB
    deviceA = deviceA
    deviceB = deviceB
    Hubs <- MCHubs
    Devices <- MCDevices
    Missing = Missing
    NoString = NoString
    MaxTime = 2
SPECIFICATION Spec
INVARIANTS
    KeyOfNamedModule
    SecretsReleased
    StaleOnlyAfterFailure
