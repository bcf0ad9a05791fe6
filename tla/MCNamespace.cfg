SPECIFICATION NamespaceSpec
CONSTANTS
    d1 = d1
    d2 = d2
    r1 = r1
    r2 = r2
    p1 = p1
    p2 = p2
    A = A
    B = B
    NoRemote = NoRemote
    Devices <- MCDevices
    LogicalMask = 1
    MaxSkew = 1
    EpochFloor = 1
    MaxTime = 2
    MaxPerDevice = 3
    Paths = {p1, p2}
    Remotes = {A, B}
    Replicas = {r1, r2}
    Universe <- MCUniverse
    MaxEvents = 3
    Kinds = {A, B}
    Hosts = {1, 2}
    Sibling <- MCSibling
    MaxHLC = 3
    MaxMinted = 3
    MaxRemovals = 1
SYMMETRY Symmetry
CHECK_DEADLOCK FALSE
INVARIANTS
    NamespaceInv
    Causality
    Convergence
    ConflictsKept
PROPERTIES
    NoPoisoning
    NoResurrection
    ImplementsFold
