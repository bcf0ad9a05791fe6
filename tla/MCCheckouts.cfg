CONSTANTS
    Laptop = {"a", "b"}
    Skew <- SkewAB
    Width = 4
    TTL = 1
    MaxTime = 3
    WipWorld <- WipWorlds
    Job = {"p", "q"}
    File = {"f", "g"}
    HydrateWorld <- HydrateWorlds
    Cmd = {"p", "q"}
    RunId = {"r", "s"}
    MaxCommits = 2
    TreeWorld <- TreeWorlds
SPECIFICATION CheckoutsSpec
CHECK_DEADLOCK FALSE
INVARIANTS
    SnapshotsHonest
    StatesHonest
    CheckoutsTracked
PROPERTIES
    WorkKept
    EventuallyMaterialized
