----------------------------- MODULE Compaction -----------------------------
(***************************************************************************)
(* `hub compact` and recovery from a snapshot (internal/cli/hub_compact.go, *)
(* hub_sweeplock.go, snapshot_recovery.go, internal/sync/snapshot_import.go): *)
(* compactors publish a snapshot of what they hold, move the retention     *)
(* floors by compare-and-swap and delete the events below them, while the  *)
(* other devices sync, fall below a floor and import the snapshot instead. *)
(*                                                                         *)
(* A step is one call to the hub with the local work around it; local      *)
(* commands mint events between any two steps.  Pull and apply is one step *)
(* (PullApply has its inside); what the events do to the rows, acks and    *)
(* tombstones are in SnapshotMerge.  Keys and signatures are good, and a   *)
(* revocation is known to everybody at once.                               *)
(***************************************************************************)
EXTENDS Naturals, FiniteSets

CONSTANTS
    Devices,
    Active,         \* the devices that are switched on
    Revocable,      \* the devices that may be revoked
    Start,          \* Start[d]: events of d that everybody consumed before
    Offline,        \* Offline[d]: events d has minted, the unpushed ones included
    Limit,          \* Limit[d]: bound on the events of d
    KeepSnapshots,  \* the --keep-snapshots flag
    MaxCompactions, \* bound: runs of `hub compact` on each device
    MaxCrashes,     \* bound: processes that die
    SlowHolders,    \* may a compaction outlast the TTL of its lock?
    None            \* no device

Ids == UNION {{d} \X (1..Limit[d]) : d \in Devices}

ASSUME CompactionAssumption ==
    /\ None \notin Devices /\ Active \subseteq Devices /\ Revocable \subseteq Devices
    /\ Start \in [Devices -> Nat] /\ Offline \in [Devices -> Nat] /\ Limit \in [Devices -> Nat]
    /\ \A d \in Devices : Start[d] <= Offline[d] /\ Offline[d] <= Limit[d]
    /\ KeepSnapshots \in Nat \ {0} /\ SlowHolders \in BOOLEAN
    /\ MaxCompactions \in [Devices -> Nat] /\ MaxCrashes \in Nat

VARIABLES
    minted,         \* minted[d]: length of d's stream
    log,            \* log[d]: d's events table
    cursor,         \* cursor[d][o]: hub_device_cursors
    pushed,         \* pushed[d]: the push watermark
    anchor,         \* anchor[d][o]: sync_chain_anchors, 0 when there is none
    broken,         \* broken[d]: open hash-chain conflicts
    known,          \* known[d]: events d's rows account for (history)
    stored,         \* event objects on the hub
    manifest,       \* the retention manifest
    objects,        \* snapshot objects on the hub
    lock,           \* the sweep lock
    revoked,
    proc,           \* proc[d]: the command d is running
    compactions, published, crashes

replica == <<minted, log, cursor, pushed, anchor, broken, known>>
hub == <<stored, manifest, objects, lock>>
counters == <<compactions, published, crashes>>
vars == <<replica, hub, revoked, proc, counters>>

NoFloors == [o \in Devices |-> 0]
NoManifest == [no |-> 0, floors |-> NoFloors, by |-> None]
NoLock == [holder |-> None, stale |-> FALSE]
Idle == [phase |-> "idle", goal |-> "sync", again |-> FALSE, seen |-> NoManifest, base |-> NoFloors, no |-> 0]

MaxOf(m, n) == IF m > n THEN m ELSE n

Init ==
    /\ LET old == {i \in Ids : i[2] <= Start[i[1]]}
           Has(d) == old \cup {i \in Ids : i[1] = d /\ i[2] <= Offline[d]} IN
       /\ minted = Offline /\ pushed = Start /\ stored = old
       /\ log = [d \in Devices |-> Has(d)] /\ known = [d \in Devices |-> Has(d)]
       /\ cursor = [d \in Devices |-> Start]
    /\ anchor = [d \in Devices |-> NoFloors]
    /\ broken = [d \in Devices |-> {}]
    /\ manifest = NoManifest /\ objects = {} /\ lock = NoLock
    /\ revoked = {}
    /\ proc = [d \in Devices |-> Idle]
    /\ compactions = [d \in Devices |-> 0] /\ published = 0 /\ crashes = 0

-----------------------------------------------------------------------------
(* Local commands, revocation, time.                                       *)

Approved(d) == d \notin revoked

Running(d) == d \in Active /\ Approved(d)

\* A local command appends to the device's stream; the sync itself does too,
\* between its pull and its push (captureAndRecordGitstates).
Mint(d) ==
    LET i == <<d, minted[d] + 1>> IN
    /\ Running(d) /\ i \in Ids
    /\ minted' = [minted EXCEPT ![d] = @ + 1]
    /\ log' = [log EXCEPT ![d] = @ \cup {i}]
    /\ known' = [known EXCEPT ![d] = @ \cup {i}]
    /\ UNCHANGED <<cursor, pushed, anchor, broken, hub, revoked, proc, counters>>

Revoke(d) ==
    /\ d \in Revocable /\ Approved(d)
    /\ revoked' = revoked \cup {d}
    /\ UNCHANGED <<replica, hub, proc, counters>>

Locked == {"publish", "cas", "confirm", "delete", "advance", "cleanup", "prune"}

Holds(d) == lock.holder = d /\ proc[d].phase \in Locked

\* The lock outlives its TTL: its holder is dead, or only slow.
LockExpires ==
    /\ lock.holder # None /\ ~lock.stale
    /\ SlowHolders \/ ~Holds(lock.holder)
    /\ lock' = [lock EXCEPT !.stale = TRUE]
    /\ UNCHANGED <<replica, stored, manifest, objects, revoked, proc, counters>>

-----------------------------------------------------------------------------
(* The pull that opens a sync and a compaction alike.                      *)

Goto(d, phase) == proc' = [proc EXCEPT ![d].phase = phase] /\ UNCHANGED lock

\* The end of a command, with the deferred release of a lock that is still ours.
End(d) ==
    /\ proc' = [proc EXCEPT ![d] = Idle]
    /\ lock' = IF Holds(d) THEN NoLock ELSE lock

\* Hub.Pull's retention gate: a cursor that would leave a gap below a floor.
BelowFloor(cur, floors) == \E o \in Devices : cur[o] + 1 < floors[o]

Begin(d, goal) ==
    /\ Running(d) /\ proc[d].phase = "idle"
    /\ proc' = [proc EXCEPT ![d] = [Idle EXCEPT !.goal = goal, !.phase =
                    IF BelowFloor(cursor[d], manifest.floors) THEN "manifest" ELSE "list"]]
    /\ UNCHANGED <<replica, hub, revoked, published, crashes>>

BeginSync(d) == Begin(d, "sync") /\ UNCHANGED compactions

BeginCompact(d) ==
    /\ compactions[d] < MaxCompactions[d]
    /\ compactions' = [compactions EXCEPT ![d] = @ + 1]
    /\ Begin(d, "compact")

\* The second pull of a command that imported a snapshot: no second recovery.
PullAgain(d) ==
    /\ proc[d].phase = "again"
    /\ IF BelowFloor(cursor[d], manifest.floors) THEN End(d) ELSE Goto(d, "list")
    /\ UNCHANGED <<replica, stored, manifest, objects, revoked, counters>>

\* The hash chain: the predecessor is in the events table or is the anchor.
Chained(d, batch) ==
    {i \in batch : \E b \in 0..(i[2] - 1) :
        /\ b = 0 \/ <<i[1], b>> \in log[d] \/ anchor[d][i[1]] = b
        /\ \A t \in (b + 1)..i[2] : <<i[1], t>> \in batch \cup log[d]}

\* safeDeviceCursors: the end of the contiguous run of consumed events.
SafeCursor(d, o, consumed) ==
    cursor[d][o] + Cardinality({s \in (cursor[d][o] + 1)..Limit[o] :
                                  \A t \in (cursor[d][o] + 1)..s : <<o, t>> \in consumed})

\* The list call, after the floors were read, and the apply; a compaction goes
\* on only from a complete view (refuseIfIncompleteView).
ListAndApply(d) ==
    LET batch == {i \in stored : i[2] > cursor[d][i[1]]}
        good == Chained(d, batch)
        rows == (broken[d] \cup batch) \ good
    IN
    /\ proc[d].phase = "list"
    /\ log' = [log EXCEPT ![d] = @ \cup good]
    /\ known' = [known EXCEPT ![d] = @ \cup good]
    /\ cursor' = [cursor EXCEPT ![d] = [o \in Devices |-> SafeCursor(d, o, good)]]
    /\ broken' = [broken EXCEPT ![d] = rows]
    /\ IF proc[d].goal = "compact" /\ rows # {} THEN End(d) ELSE Goto(d, "push")
    /\ UNCHANGED <<minted, pushed, anchor, stored, manifest, objects, revoked, counters>>

\* pushLocalEventsGated: everything minted so far, then the watermark.
Push(d) ==
    /\ proc[d].phase = "push"
    /\ stored' = stored \cup {i \in Ids : i[1] = d /\ pushed[d] < i[2] /\ i[2] <= minted[d]}
    /\ pushed' = [pushed EXCEPT ![d] = minted[d]]
    /\ IF proc[d].goal = "sync" THEN End(d) ELSE Goto(d, "plan")
    /\ UNCHANGED <<minted, log, cursor, anchor, broken, known, manifest, objects, revoked, counters>>

-----------------------------------------------------------------------------
(* recoverFromSnapshot.                                                    *)

\* GetRetention; the producer must be an approved device, and never this one.
ReadManifest(d) ==
    /\ proc[d].phase = "manifest"
    /\ IF manifest.by # d /\ Approved(manifest.by)
       THEN proc' = [proc EXCEPT ![d].phase = "import", ![d].seen = manifest] /\ UNCHANGED lock
       ELSE End(d)
    /\ UNCHANGED <<replica, stored, manifest, objects, revoked, counters>>

\* Mutation of AtFloors: the floor is taken for the last event below it.
AtFloorsInclusive(cur, floors) == [o \in Devices |-> MaxOf(cur[o], floors[o])]

\* The cursor at which the events above the floors begin.
AtFloors(cur, floors) == [o \in Devices |-> IF floors[o] > 0 THEN MaxOf(cur[o], floors[o] - 1) ELSE cur[o]]

\* Mutation of ImportSnapshot: no chain anchors.
ImportSnapshotNoAnchors(d, snap, floors) ==
    /\ known' = [known EXCEPT ![d] = @ \cup snap.covers]
    /\ anchor' = anchor
    /\ cursor' = [cursor EXCEPT ![d] = AtFloors(@, floors)]

\* ImportSnapshot: the rows, the anchors, the cursors.
ImportSnapshot(d, snap, floors) ==
    /\ known' = [known EXCEPT ![d] = @ \cup snap.covers]
    /\ anchor' = [anchor EXCEPT ![d] = [o \in Devices |-> MaxOf(@[o], snap.anchors[o])]]
    /\ cursor' = [cursor EXCEPT ![d] = AtFloors(@, floors)]

\* The tail pull, the fetch and the import; a floor that moved, or an object
\* pruned in the meantime, ends the command.
Import(d) ==
    LET seen == proc[d].seen
        found == {snap \in objects : snap.no = seen.no}
    IN
    /\ proc[d].phase = "import"
    /\ IF found = {} \/ BelowFloor(AtFloors(cursor[d], seen.floors), manifest.floors)
       THEN End(d) /\ UNCHANGED <<known, anchor, cursor>>
       ELSE (\E snap \in found : ImportSnapshot(d, snap, seen.floors)) /\ Goto(d, "again")
    /\ UNCHANGED <<minted, log, pushed, broken, stored, manifest, objects, revoked, counters>>

-----------------------------------------------------------------------------
(* hubCompact, from the plan to the last delete.                           *)

ComputeCompactFloors(d) ==
    [o \in Devices |->
        LET seq == IF o = d THEN pushed[d] ELSE cursor[d][o] IN IF seq > 0 THEN seq + 1 ELSE 0]

\* Mutation of Refused: no monotonicity check.
RefusedUnverifiable(d, base, current) == current.by \notin {None, d} /\ ~Approved(current.by)

\* reconcileCompactFloors: an unverifiable producer and a floor that would go
\* down are refused; floors we have none of our own for are carried over.
Refused(d, base, current) ==
    \/ current.by \notin {None, d} /\ ~Approved(current.by)
    \/ \E o \in Devices : base[o] # 0 /\ base[o] < current.floors[o]

Reconciled(base, current) ==
    [o \in Devices |-> IF base[o] # 0 THEN base[o] ELSE current.floors[o]]

Plan(d) ==
    LET base == ComputeCompactFloors(d) IN
    /\ proc[d].phase = "plan"
    /\ IF Refused(d, base, manifest)
       THEN End(d)
       ELSE /\ proc' = [proc EXCEPT ![d].phase = "lock", ![d].base = base, ![d].seen = manifest]
            /\ UNCHANGED lock
    /\ UNCHANGED <<replica, stored, manifest, objects, revoked, counters>>

\* hubSweepLock: create, break a stale one, or refuse.
TakeLock(d) ==
    /\ proc[d].phase = "lock"
    /\ IF lock.holder = None \/ lock.stale
       THEN lock' = [holder |-> d, stale |-> FALSE] /\ proc' = [proc EXCEPT ![d].phase = "publish"]
       ELSE End(d)
    /\ UNCHANGED <<replica, stored, manifest, objects, revoked, counters>>

\* ChainAnchorsForFloors: the event below the floor, or an anchor imported before.
AnchorsFor(d, floors) ==
    [o \in Devices |-> IF floors[o] <= 1 THEN 0
                       ELSE IF <<o, floors[o] - 1>> \in log[d] THEN floors[o] - 1
                       ELSE anchor[d][o]]

Committed(d) == Reconciled(proc[d].base, proc[d].seen)

\* Reconcile again, BuildSnapshot from the rows of now, PutSnapshotObject.
Publish(d) ==
    LET snap == [no |-> published + 1, covers |-> known[d], anchors |-> AnchorsFor(d, Committed(d))] IN
    /\ proc[d].phase = "publish"
    /\ IF Refused(d, proc[d].base, proc[d].seen)
       THEN End(d) /\ UNCHANGED <<objects, published>>
       ELSE /\ objects' = objects \cup {snap} /\ published' = published + 1
            /\ proc' = [proc EXCEPT ![d].phase = "cas", ![d].no = snap.no] /\ UNCHANGED lock
    /\ UNCHANGED <<replica, stored, manifest, revoked, compactions, crashes>>

\* PutRetention if the manifest is still the one read; a first conflict is
\* retried on the current manifest, a second one ends the command.
PutRetention(d) ==
    /\ proc[d].phase = "cas"
    /\ IF manifest = proc[d].seen
       THEN /\ manifest' = [no |-> proc[d].no, by |-> d, floors |-> Committed(d)]
            /\ Goto(d, "confirm")
       ELSE /\ UNCHANGED manifest
            /\ IF proc[d].again THEN End(d)
               ELSE /\ proc' = [proc EXCEPT ![d].phase = "publish", ![d].again = TRUE, ![d].seen = manifest]
                    /\ UNCHANGED lock
    /\ UNCHANGED <<replica, stored, objects, revoked, counters>>

\* The read-back, byte for byte.
ConfirmManifest(d) ==
    /\ proc[d].phase = "confirm"
    /\ IF manifest.no = proc[d].no THEN Goto(d, "delete") ELSE End(d)
    /\ UNCHANGED <<replica, stored, manifest, objects, revoked, counters>>

\* Mutation of DeleteCold: the event at the floor goes too.
DeleteColdInclusive(d) ==
    /\ proc[d].phase = "delete"
    /\ stored' = {i \in stored : i[2] > Committed(d)[i[1]]}
    /\ Goto(d, "advance")
    /\ UNCHANGED <<replica, manifest, objects, revoked, counters>>

\* CompactEventsBelow.
DeleteCold(d) ==
    /\ proc[d].phase = "delete"
    /\ stored' = {i \in stored : i[2] >= Committed(d)[i[1]]}
    /\ Goto(d, "advance")
    /\ UNCHANGED <<replica, manifest, objects, revoked, counters>>

\* Our own cursors follow the floors.
AdvanceCursors(d) ==
    /\ proc[d].phase = "advance"
    /\ cursor' = [cursor EXCEPT ![d] = AtFloors(@, Committed(d))]
    /\ Goto(d, "cleanup")
    /\ UNCHANGED <<minted, log, pushed, anchor, broken, known, stored, manifest, objects, revoked, counters>>

\* cleanupRevokedStreams: whole streams.
CleanupRevoked(d) ==
    LET gone == {o \in revoked : Committed(d)[o] > 0} IN
    /\ proc[d].phase = "cleanup"
    /\ stored' = {i \in stored : i[1] \notin gone}
    /\ Goto(d, "prune")
    /\ UNCHANGED <<replica, manifest, objects, revoked, counters>>

\* pruneSnapshotObjects: the one we published and the newest others stay.
PruneSnapshots(d) ==
    LET Newer(o) == Cardinality({n \in objects : n.no > o.no /\ n.no # proc[d].no}) IN
    /\ proc[d].phase = "prune"
    /\ objects' = {o \in objects : o.no = proc[d].no \/ Newer(o) < KeepSnapshots - 1}
    /\ End(d)
    /\ UNCHANGED <<replica, stored, manifest, revoked, counters>>

\* The process dies, or a call to the hub fails for good; the lock stays.
Crash(d) ==
    /\ proc[d].phase # "idle" /\ crashes < MaxCrashes
    /\ proc' = [proc EXCEPT ![d] = Idle] /\ crashes' = crashes + 1
    /\ UNCHANGED <<replica, hub, revoked, compactions, published>>

Step(d) ==
    \/ PullAgain(d) \/ ListAndApply(d) \/ Push(d)
    \/ ReadManifest(d) \/ Import(d)
    \/ Plan(d) \/ TakeLock(d) \/ Publish(d) \/ PutRetention(d) \/ ConfirmManifest(d)
    \/ DeleteCold(d) \/ AdvanceCursors(d) \/ CleanupRevoked(d) \/ PruneSnapshots(d)

Next ==
    \/ LockExpires
    \/ \E d \in Devices :
        Mint(d) \/ Revoke(d) \/ BeginSync(d) \/ BeginCompact(d) \/ Step(d) \/ Crash(d)

\* Every device keeps syncing, and a command that runs goes on to its end.
Fairness == \A d \in Devices : WF_vars(BeginSync(d)) /\ WF_vars(Step(d))

Spec == Init /\ [][Next]_vars

FairSpec == Spec /\ Fairness

-----------------------------------------------------------------------------
Floors == [Devices -> Nat]
Manifest == [no : Nat, floors : Floors, by : Devices \cup {None}]
Snapshot == [no : Nat, covers : SUBSET Ids, anchors : Floors]
Phases == Locked \cup {"idle", "list", "again", "push", "manifest", "import", "plan", "lock"}
Memory == [phase : Phases, goal : {"sync", "compact"}, again : BOOLEAN, seen : Manifest,
           base : Floors, no : Nat]

ReplicaType ==
    /\ minted \in Floors /\ pushed \in Floors
    /\ log \in [Devices -> SUBSET Ids] /\ known \in [Devices -> SUBSET Ids]
    /\ broken \in [Devices -> SUBSET Ids]
    /\ cursor \in [Devices -> Floors] /\ anchor \in [Devices -> Floors]

HubType ==
    /\ stored \subseteq Ids /\ manifest \in Manifest /\ objects \subseteq Snapshot
    /\ lock \in [holder : Devices \cup {None}, stale : BOOLEAN]

TypeOK ==
    /\ ReplicaType /\ HubType
    /\ revoked \subseteq Devices /\ proc \in [Devices -> Memory]
    /\ compactions \in Floors /\ published \in Nat /\ crashes \in Nat

\* What a new device can still learn from the hub besides the events on it: what
\* the snapshot named by the manifest accounts for, while that object is there.
Covered == UNION {snap.covers : snap \in {o \in objects : o.no = manifest.no}}

\* No event of a device in good standing disappears: what was pushed is on the
\* hub, or below its floor and in the snapshot the manifest names.  (hub compact's
\* confirm-before-delete protocol, with crashes and stale locks.)
NothingLost ==
    \A i \in Ids : Approved(i[1]) /\ i[2] <= pushed[i[1]] =>
        i \in stored \/ (i[2] < manifest.floors[i[1]] /\ i \in Covered)

\* The retention floors never go down, whoever compacts beside whom
\* (reconcileCompactFloors and the compare-and-swap of PutRetention).
FloorsForward == [][\A o \in Devices : manifest'.floors[o] >= manifest.floors[o]]_vars

\* A cursor has behind it only what the device really holds: advancing it to a
\* floor skips nothing (AdvanceHubDeviceCursor after compaction and import).
CursorsHonest ==
    \A d \in Devices : \A i \in Ids : i[2] <= cursor[d][i[1]] => i \in known[d]

UpToDate(d) ==
    \A i \in Ids : Approved(i[1]) /\ i[2] <= pushed[i[1]] => i \in known[d]

\* The producer of the manifest is below its own floor: recovery refuses it.
SelfProduced(d) == manifest.by = d /\ BelowFloor(cursor[d], manifest.floors)

\* A device that keeps syncing ends up with every event, from the log or from
\* snapshots, however often a floor passes it by (recoverFromSnapshot), unless
\* it is a producer that died before it moved its own cursors.
StragglersCatchUp == \A d \in Active : <>[](d \in revoked \/ SelfProduced(d) \/ UpToDate(d))

\* The types, and cursors with nothing missing behind them.
CursorInv == TypeOK /\ CursorsHonest
=============================================================================
