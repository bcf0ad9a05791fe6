------------------------------- MODULE Daemon -------------------------------
(***************************************************************************)
(* Who is the daemon: daemon start takes over the socket under a file      *)
(* lock, writes its pid record, serves, and on SIGTERM unlinks the socket, *)
(* drains and removes its record; daemon stop signals the recorded process *)
(* and waits until the record is released.  Supervisors start daemons at   *)
(* any time, processes are killed at any step.                             *)
(*                                                                         *)
(* Every call on the socket, the lock file and the record is a step.  A    *)
(* pid and its start time identify a process (processIdentityAlive).       *)
(***************************************************************************)
EXTENDS Integers

CONSTANTS
    DaemonRun,          \* executions of daemon start
    NoRun,        \* none of them
    DaemonWorld     \* bounds: processes killed, daemon stop commands, the runs that are started

ASSUME DaemonAssumption ==
    /\ NoRun \notin DaemonRun
    /\ DaemonWorld \subseteq [kills : Nat, stops : Nat, runs : SUBSET DaemonRun]

VARIABLES
    socket,     \* the socket file: who bound it
    takeover,   \* who holds the flock on devstrapd.lock
    record,     \* devstrapd.pid
    daemon,     \* daemon[d]: where runDaemonStart is
    seen,       \* seen[d]: the record removeDaemonRecordIfOwn read
    stopper,    \* the daemon stop command
    clobbered,  \* history: whose record somebody else removed in the gap between
                \* reading his own and removing it
    superseded, \* history: whose record a later daemon wrote over
    room7

daemonvars == <<socket, takeover, record, daemon, seen, stopper, clobbered, superseded, room7>>

Idler == [at |-> "idle", pid |-> NoRun, saw |-> NoRun]

DaemonInit ==
    /\ room7 \in DaemonWorld
    /\ socket = NoRun /\ takeover = NoRun /\ record = NoRun /\ clobbered = {} /\ superseded = {}
    /\ daemon = [d \in DaemonRun |-> "off"] /\ seen = [d \in DaemonRun |-> NoRun]
    /\ stopper = Idler

\* The listener is open: a dial succeeds.
Listening(d) == daemon[d] \in {"secure", "record", "serving", "stopping", "unlinked"}
Running(d) == daemon[d] \notin {"off", "dead"}

DaemonTo(d, there) == daemon' = [daemon EXCEPT ![d] = there]

\* LOCK_NB: a takeover in progress means "already running"; a supervisor tries again.
lockSocketTakeover(d) ==
    /\ d \in room7.runs /\ daemon[d] = "off" /\ takeover = NoRun /\ takeover' = d /\ DaemonTo(d, "probe")
    /\ UNCHANGED <<socket, record, seen, stopper, clobbered, superseded, room7>>

Unlocked(d) == takeover' = IF takeover = d THEN NoRun ELSE takeover

\* Lstat and dial.
clearStaleSocket(d) ==
    /\ daemon[d] = "probe"
    /\ IF socket = NoRun THEN DaemonTo(d, "bind") /\ UNCHANGED takeover
       ELSE IF Listening(socket) THEN DaemonTo(d, "off") /\ Unlocked(d)
       ELSE DaemonTo(d, "remove") /\ UNCHANGED takeover
    /\ UNCHANGED <<socket, record, seen, stopper, clobbered, superseded, room7>>

\* Gone already is an error.
removeStaleSocket(d) ==
    /\ daemon[d] = "remove"
    /\ IF socket = NoRun THEN DaemonTo(d, "off") /\ Unlocked(d) /\ UNCHANGED socket
       ELSE socket' = NoRun /\ DaemonTo(d, "bind") /\ UNCHANGED takeover
    /\ UNCHANGED <<record, seen, stopper, clobbered, superseded, room7>>

bindSocket(d) ==
    /\ daemon[d] = "bind"
    /\ IF socket # NoRun THEN DaemonTo(d, "off") /\ Unlocked(d) /\ UNCHANGED socket
       ELSE socket' = d /\ DaemonTo(d, "secure") /\ UNCHANGED takeover
    /\ UNCHANGED <<record, seen, stopper, clobbered, superseded, room7>>

\* chmod, then Listen returns and releases the lock.
secureSocket(d) ==
    /\ daemon[d] = "secure" /\ DaemonTo(d, "record") /\ Unlocked(d)
    /\ UNCHANGED <<socket, record, seen, stopper, clobbered, superseded, room7>>

\* Only then the record, by rename; then ServeListener.
writeDaemonRecord(d) ==
    /\ daemon[d] = "record" /\ record' = d /\ DaemonTo(d, "serving")
    /\ superseded' = superseded \cup ({record} \ {NoRun})
    /\ UNCHANGED <<socket, takeover, seen, stopper, clobbered, room7>>

\* The signal: Shutdown closes the listener, which unlinks the path and then
\* closes; requests are drained.
shutdownUnlink(d) ==
    /\ daemon[d] = "stopping" /\ socket' = NoRun /\ DaemonTo(d, "unlinked")
    /\ UNCHANGED <<takeover, record, seen, stopper, clobbered, superseded, room7>>

shutdownClose(d) ==
    /\ daemon[d] = "unlinked" /\ DaemonTo(d, "draining")
    /\ UNCHANGED <<socket, takeover, record, seen, stopper, clobbered, superseded, room7>>

ServeListenerReturns(d) ==
    /\ daemon[d] = "draining" /\ DaemonTo(d, "cleanup")
    /\ UNCHANGED <<socket, takeover, record, seen, stopper, clobbered, superseded, room7>>

\* removeDaemonRecordIfOwn reads, compares, and removes in a second call.
readOwnRecord(d) ==
    /\ daemon[d] = "cleanup" /\ seen' = [seen EXCEPT ![d] = record]
    /\ DaemonTo(d, IF record = d THEN "unrecord" ELSE "dead")
    /\ UNCHANGED <<socket, takeover, record, stopper, clobbered, superseded, room7>>

Clobber(saw) == clobbered' = clobbered \cup (IF record \notin {saw, NoRun} THEN {record} ELSE {})

removeOwnRecord(d) ==
    /\ daemon[d] = "unrecord" /\ record' = NoRun /\ Clobber(seen[d])
    /\ seen' = [seen EXCEPT ![d] = NoRun] /\ DaemonTo(d, "dead")
    /\ UNCHANGED <<socket, takeover, stopper, superseded, room7>>

\* External: SIGKILL, power loss.  The kernel drops the lock and the listener,
\* the files stay.
KillDaemon(d) ==
    /\ Running(d) /\ room7.kills > 0 /\ room7' = [room7 EXCEPT !.kills = @ - 1]
    /\ DaemonTo(d, "dead") /\ Unlocked(d) /\ seen' = [seen EXCEPT ![d] = NoRun]
    /\ UNCHANGED <<socket, record, stopper, clobbered, superseded>>

-----------------------------------------------------------------------------
\* daemon stop: no record, a dead process' record, or a signal.
runDaemonStop ==
    /\ stopper.at = "idle" /\ room7.stops > 0 /\ room7' = [room7 EXCEPT !.stops = @ - 1]
    /\ stopper' = IF record = NoRun THEN Idler
                  ELSE [at |-> IF daemon[record] = "dead" THEN "compare" ELSE "signal", pid |-> record, saw |-> NoRun]
    /\ UNCHANGED <<socket, takeover, record, daemon, seen, clobbered, superseded>>

signalDaemon ==
    /\ stopper.at = "signal"
    /\ daemon' = [daemon EXCEPT ![stopper.pid] = IF @ = "serving" THEN "stopping" ELSE @]
    /\ stopper' = IF daemon[stopper.pid] = "dead" THEN Idler ELSE [stopper EXCEPT !.at = "poll"]
    /\ UNCHANGED <<socket, takeover, record, seen, clobbered, superseded, room7>>

\* Mutation of daemonRecordReleased: the socket is gone.
daemonSocketGone == socket # stopper.pid

daemonRecordReleased == record # stopper.pid

\* Released or dead: report after clearing what is left.
pollStopped ==
    /\ stopper.at = "poll" /\ (daemonRecordReleased \/ daemon[stopper.pid] = "dead")
    /\ stopper' = [stopper EXCEPT !.at = "stopped"]
    /\ UNCHANGED <<socket, takeover, record, daemon, seen, clobbered, superseded, room7>>

compareRecord ==
    /\ stopper.at \in {"stopped", "compare"}
    /\ stopper' = IF record = stopper.pid THEN [stopper EXCEPT !.at = "clear", !.saw = record] ELSE Idler
    /\ UNCHANGED <<socket, takeover, record, daemon, seen, clobbered, superseded, room7>>

clearRecord ==
    /\ stopper.at = "clear" /\ record' = NoRun /\ Clobber(stopper.saw) /\ stopper' = Idler
    /\ UNCHANGED <<socket, takeover, daemon, seen, superseded, room7>>

\* The stop timeout.
stopTimesOut ==
    /\ stopper.at = "poll" /\ stopper' = Idler
    /\ UNCHANGED <<socket, takeover, record, daemon, seen, clobbered, superseded, room7>>

DaemonStep(d) ==
    \/ lockSocketTakeover(d) \/ clearStaleSocket(d) \/ removeStaleSocket(d) \/ bindSocket(d) \/ secureSocket(d)
    \/ writeDaemonRecord(d) \/ shutdownUnlink(d) \/ shutdownClose(d) \/ ServeListenerReturns(d)
    \/ readOwnRecord(d) \/ removeOwnRecord(d)

StopStep == signalDaemon \/ pollStopped \/ compareRecord \/ clearRecord

DaemonNext ==
    \/ \E d \in DaemonRun : DaemonStep(d) \/ KillDaemon(d)
    \/ runDaemonStop \/ StopStep \/ stopTimesOut

-----------------------------------------------------------------------------
\* A live daemon is never evicted by a second one starting up, though the probe,
\* the removal and the bind are three steps and starts overlap.
LiveNotEvicted == \A d \in DaemonRun : daemon[d] \in {"secure", "record", "serving", "stopping"} => socket = d

\* A serving daemon can be stopped: the record is its own, whatever an old daemon
\* that is still draining or a late daemon stop removes.  Exempt is the gap
\* between reading the record and removing it.
ServingHasRecord == \A d \in DaemonRun : daemon[d] = "serving" => record = d \/ d \in clobbered

\* daemon stop reports success only when the daemon has finished draining, or a
\* replacement has written its own record over it.
StopHonest ==
    [][(stopper.at = "poll" /\ stopper'.at = "stopped") =>
        \/ daemon[stopper.pid] \in {"cleanup", "unrecord", "dead"}
        \/ stopper.pid \in clobbered \cup superseded]_daemonvars

\* Whatever a killed daemon left behind, a supervisor gets the next one to serve.
CanServe == room7.kills = 0 /\ room7.stops = 0 /\ stopper = Idler /\ \E d \in room7.runs : daemon[d] = "off"
EventuallyServes == CanServe ~> \E d \in DaemonRun : daemon[d] = "serving"
=============================================================================
