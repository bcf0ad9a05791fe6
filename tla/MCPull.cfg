SPECIFICATION FairSpec
CONSTANTS
    a = a
    b = b
    s1 = s1
    s2 = s2
    r1 = r1
    Origins = {a, b}
    StreamLen = 2
    Epochs = {0, 1}
    HeldEpochs = {0}
    Syncers = {s1, s2}
    Approvers = {r1}
    Worlds <- PullWorlds
INVARIANTS
    PullInv
    NoStranding
PROPERTIES
    ImplementsDelivery
    EverythingDelivered
    FaultIsolation
    CursorForward
