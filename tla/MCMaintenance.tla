--------------------------- MODULE MCMaintenance ---------------------------
(***************************************************************************)
(* What one machine runs beside its commands: the lock files, backup and   *)
(* restore, the durability export, and the daemon with its scheduler and   *)
(* watch plane.  Each behaviour exercises one of the parts.                *)
(***************************************************************************)
EXTENDS RepoLock, Restore, Durability, Scheduler, Daemon, WatchPlane

CONSTANTS c1, c2, r1, r2, e1, e2, api, d1, d2, d3, g1, g2

VARIABLE part

allvars == <<part, vars, restorevars, exportvars, schedvars, daemonvars, watchvars>>

NoRestore == [captures |-> 0, backups |-> 0, restores |-> 0, mishaps |-> 0, legacy |-> FALSE, there |-> {}]
NoExport == [compactions |-> 0, failures |-> 0, streams |-> {}]
NoCycles == [cycles |-> 0, requests |-> 0]
NoDaemon == [kills |-> 0, stops |-> 0, runs |-> {}]
NoWatch == [changes |-> 0, blips |-> 0, reports |-> 0]

RestoreWorlds == {
    NoRestore,
    [captures |-> 2, backups |-> 1, restores |-> 2, mishaps |-> 2, legacy |-> TRUE, there |-> {1, 3, 4}],
    [captures |-> 0, backups |-> 1, restores |-> 1, mishaps |-> 3, legacy |-> FALSE, there |-> {1, 2, 4}],
    [captures |-> 1, backups |-> 2, restores |-> 2, mishaps |-> 1, legacy |-> TRUE, there |-> {1, 2, 3, 4}]}
ExportWorlds == {
    NoExport,
    [compactions |-> 3, failures |-> 0, streams |-> {1}],
    [compactions |-> 2, failures |-> 1, streams |-> {1, 2}]}
CycleWorlds == {NoCycles, [cycles |-> 3, requests |-> 2]}
DaemonWorlds == {NoDaemon, [kills |-> 1, stops |-> 2, runs |-> {d1, d2, d3}]}
WatchWorlds == {NoWatch, [changes |-> 2, blips |-> 1, reports |-> 1]}

MaintenanceInit ==
    /\ part \in {"lock", "restore", "export", "schedule", "daemon", "watch"}
    /\ Init /\ RestoreInit /\ ExportInit /\ CycleInit /\ DaemonInit /\ WatchInit
    /\ (part = "restore") # (room4 = NoRestore)
    /\ (part = "export") # (room5 = NoExport)
    /\ (part = "schedule") # (room6 = NoCycles)
    /\ (part = "daemon") # (room7 = NoDaemon)
    /\ (part = "watch") # (room8 = NoWatch)
    /\ part = "watch" \/ (roots = 0 /\ native)

MaintenanceNext ==
    /\ UNCHANGED part
    /\ \/ part = "lock" /\ Next /\ UNCHANGED <<restorevars, exportvars, schedvars, daemonvars, watchvars>>
       \/ part = "restore" /\ RestoreNext /\ UNCHANGED <<vars, exportvars, schedvars, daemonvars, watchvars>>
       \/ part = "export" /\ ExportNext /\ UNCHANGED <<vars, restorevars, schedvars, daemonvars, watchvars>>
       \/ part = "schedule" /\ CycleNext /\ UNCHANGED <<vars, restorevars, exportvars, daemonvars, watchvars>>
       \/ part = "daemon" /\ DaemonNext /\ UNCHANGED <<vars, restorevars, exportvars, schedvars, watchvars>>
       \/ part = "watch" /\ WatchNext /\ UNCHANGED <<vars, restorevars, exportvars, schedvars, daemonvars>>

\* A process that is not killed goes on; the timers of those that wait fire.
MaintenanceFairness ==
    /\ WF_vars(part = "lock" /\ HalfHour)
    /\ \A p \in Procs : WF_vars(part = "lock" /\ Work(p))
    /\ WF_restorevars(part = "restore" /\ Recovery) /\ WF_restorevars(part = "restore" /\ Swap)
    /\ \A e \in Exporter : WF_exportvars(part = "export" /\ ExportStep(e)) /\ WF_exportvars(part = "export" /\ IntervalPasses(e))
    /\ \A d \in DaemonRun : WF_daemonvars(part = "daemon" /\ DaemonStep(d))
    /\ WF_daemonvars(part = "daemon" /\ StopStep)
    /\ \A g \in Arm : WF_watchvars(part = "watch" /\ ArmStep(g)) /\ WF_watchvars(part = "watch" /\ readyTimer(g))
    /\ WF_watchvars(part = "watch" /\ rediscover)

MaintenanceSpec == MaintenanceInit /\ [][MaintenanceNext]_allvars /\ MaintenanceFairness

\* What a machine would be recovered from is usable: its archive, its state
\* directory, the replica, and the lock its recovery takes.
RecoverySafe == TypeOK /\ RestoreSafe /\ ReplicaHeadBacked

\* The run loop, its callers, the socket and the watch plane tell the truth
\* about each other: cycles end before the next begin, waiting callers are led
\* and told their own outcome, one daemon serves and can be stopped, and the
\* counts shown belong to the arm that counted them.
RunLoopSafe ==
    /\ EventsAlternate /\ ToldHonest /\ JoinedIsLed
    /\ LiveNotEvicted /\ ServingHasRecord /\ CountHonest

\* No step takes back what was promised: a full sync that is owed, a daemon
\* said to be stopped, the replica's recovery state.
PromisesKept == FullNotLost /\ StopHonest /\ ReplicaForward

\* Whatever died, the machine gets going again: a dead holder's lock is cleared,
\* the replica catches up, a daemon serves and the watch plane watches.
EventuallyRuns == DeadLockReclaimed /\ ReplicaCatchesUp /\ EventuallyServes /\ EventuallyWatched
=============================================================================
