SPECIFICATION FleetSpec
CONSTANTS
    Device <- MCDevice
    Joiner <- MCJoiner
    World <- MCWorld
    MaxBusy = 2
    Host = {1, 2}
    Grace = 1
    BlobWorld <- MCBlobWorld
CHECK_DEADLOCK FALSE
INVARIANTS
    KeysKept
    RevokedLockedOut
    BlobsAvailable
    ExposureRemembered
PROPERTIES
    EventuallyLockedOut
