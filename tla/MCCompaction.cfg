SPECIFICATION FairSpec
CONSTANTS
    a = a
    b = b
    c = c
    Devices = {a, b, c}
    Active = {a, b}
    Revocable = {c}
    Start <- StartAll
    Offline <- OfflineB
    Limit <- LimitThree
    KeepSnapshots = 2
    MaxCompactions <- OnceEach
    MaxCrashes = 1
    SlowHolders = TRUE
    None = None
INVARIANTS
    CursorInv
    NothingLost
PROPERTIES
    FloorsForward
    StragglersCatchUp
