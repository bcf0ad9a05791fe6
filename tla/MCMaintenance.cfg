SPECIFICATION MaintenanceSpec
CONSTANTS
    c1 = c1
    c2 = c2
    r1 = r1
    r2 = r2
    e1 = e1
    e2 = e2
    api = api
    d1 = d1
    d2 = d2
    d3 = d3
    g1 = g1
    g2 = g2
    Procs = {c1, c2}
    MaxCrashes = 1
    Ref = {r1, r2}
    RestoreWorld <- RestoreWorlds
    Exporter = {e1, e2}
    ExportWorld <- ExportWorlds
    Client = {api}
    CycleWorld <- CycleWorlds
    DaemonRun = {d1, d2, d3}
    NoRun = NoRun
    DaemonWorld <- DaemonWorlds
    Arm = {g1, g2}
    NoArm = NoArm
    WatchWorld <- WatchWorlds
CHECK_DEADLOCK FALSE
INVARIANTS
    RecoverySafe
    RunLoopSafe
PROPERTIES
    EventuallyRecovered
    PromisesKept
    EventuallyRuns
