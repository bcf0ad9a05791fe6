----------------------------- MODULE Durability -----------------------------
(***************************************************************************)
(* The durability export: after a sync, a device copies the snapshot the   *)
(* primary hub's retention head names to a second hub and then publishes   *)
(* the same head there by compare-and-swap.  Several devices export at     *)
(* once, the primary is compacted and its old snapshots are pruned in      *)
(* between, and any request or its answer may be lost.                     *)
(***************************************************************************)
EXTENDS Integers, Sequences

CONSTANTS
    Exporter,       \* devices with hub_replica configured
    ExportWorld     \* bounds: compactions of the primary, failing requests, the streams compacted

ASSUME ExportAssumption == ExportWorld \subseteq [compactions : Nat, failures : Nat, streams : SUBSET {1, 2}]

MaxRetentionMirrorAttempts == 3
Stream == {1, 2}

VARIABLES
    heads,      \* every retention head the primary has had, the last one current
    objects,    \* the heads whose snapshot object is still on the primary
    replica,    \* the replica: its head (0: none), the snapshots it holds
    export,     \* export[e]: where maybeExportHubDurability of e is
    success,    \* success[e]: durability_export_last_success: "never", "fresh", or
                \* "old" once durability.export_interval has passed
    room5       \* what may still happen

exportvars == <<heads, objects, replica, export, success, room5>>

NotExporting == [at |-> "idle", head |-> 0, seen |-> 0, tries |-> 0]

ExportInit ==
    /\ room5 \in ExportWorld
    /\ heads = <<>> /\ objects = {} /\ replica = [head |-> 0, snapshots |-> {}]
    /\ export = [e \in Exporter |-> NotExporting]
    /\ success = [e \in Exporter |-> "never"]

ExportTo(e, there) == export' = [export EXCEPT ![e].at = there]

\* hub compact on some device: the floors never go down (module Compaction), the
\* clock is the compactor's own.
CompactPrimary ==
    /\ room5.compactions > 0 /\ room5' = [room5 EXCEPT !.compactions = @ - 1]
    /\ \E s \in room5.streams, at \in {1, 2} :
         LET floors == IF heads = <<>> THEN [x \in Stream |-> 1] ELSE heads[Len(heads)].floors
         IN heads' = Append(heads, [floors |-> [floors EXCEPT ![s] = @ + 1], at |-> at])
    /\ objects' = objects \cup {Len(heads')}
    /\ UNCHANGED <<replica, export, success>>

\* Superseded snapshots go.
PruneSnapshotObjects ==
    /\ objects \ {Len(heads)} # {} /\ objects' = {Len(heads)}
    /\ UNCHANGED <<heads, replica, export, success, room5>>

\* External: time passes.
IntervalPasses(e) ==
    /\ success[e] = "fresh" /\ export[e].at = "idle" /\ success' = [success EXCEPT ![e] = "old"]
    /\ UNCHANGED <<heads, objects, replica, export, room5>>

DurabilityExportDue(e) == success[e] \in {"never", "old"}

\* The primary's head is read and verified.
ReadPrimaryHead(e) ==
    /\ export[e].at = "idle" /\ DurabilityExportDue(e) /\ heads # <<>>
    /\ export' = [export EXCEPT ![e] = [NotExporting EXCEPT !.at = "get", !.head = Len(heads)]]
    /\ UNCHANGED <<heads, objects, replica, success, room5>>

\* A snapshot that was pruned in the meantime ends the attempt.
GetSnapshot(e) ==
    /\ export[e].at = "get"
    /\ export' = [export EXCEPT ![e] = IF @.head \in objects THEN [@ EXCEPT !.at = "put"] ELSE NotExporting]
    /\ UNCHANGED <<heads, objects, replica, success, room5>>

PutSnapshot(e) ==
    /\ export[e].at = "put" /\ ExportTo(e, "read")
    /\ replica' = [replica EXCEPT !.snapshots = @ \cup {export[e].head}]
    /\ UNCHANGED <<heads, objects, success, room5>>

Dominates(a, b) == heads[a].at >= heads[b].at /\ \A s \in Stream : heads[a].floors[s] >= heads[b].floors[s]

\* "already": the replica is at least as far; "replace": it may be overwritten.
ReconcileRetentionAdvance(current, next) ==
    IF Dominates(current, next) THEN "already" ELSE IF Dominates(next, current) THEN "replace" ELSE "refuse"

Exported(e) ==
    /\ success' = [success EXCEPT ![e] = "fresh"]
    /\ export' = [export EXCEPT ![e] = NotExporting]

MirrorRead(e) ==
    LET r == replica.head
        h == export[e].head
    IN
    /\ export[e].at = "read"
    /\ IF r = 0 \/ (r # h /\ ReconcileRetentionAdvance(r, h) = "replace")
       THEN export' = [export EXCEPT ![e].at = "cas", ![e].seen = r] /\ UNCHANGED success
       ELSE IF r = h \/ ReconcileRetentionAdvance(r, h) = "already" THEN Exported(e)
       ELSE export' = [export EXCEPT ![e] = NotExporting] /\ UNCHANGED success
    /\ UNCHANGED <<heads, objects, replica, room5>>

\* A conflict reads again, three times in all.
MirrorCAS(e) ==
    /\ export[e].at = "cas"
    /\ IF replica.head = export[e].seen
       THEN replica' = [replica EXCEPT !.head = export[e].head] /\ Exported(e)
       ELSE /\ export' = [export EXCEPT ![e] = IF @.tries + 1 < MaxRetentionMirrorAttempts
                                               THEN [@ EXCEPT !.at = "read", !.tries = export[e].tries + 1] ELSE NotExporting]
            /\ UNCHANGED <<replica, success>>
    /\ UNCHANGED <<heads, objects, room5>>

\* exportHubDurabilityAfterSync warns and the next sync tries again.  A lost
\* answer leaves the write done and the success unrecorded.
ExportFails(e) ==
    /\ export[e].at # "idle" /\ room5.failures > 0 /\ room5' = [room5 EXCEPT !.failures = @ - 1]
    /\ \/ UNCHANGED replica
       \/ export[e].at = "put" /\ replica' = [replica EXCEPT !.snapshots = @ \cup {export[e].head}]
       \/ export[e].at = "cas" /\ replica.head = export[e].seen /\ replica' = [replica EXCEPT !.head = export[e].head]
    /\ export' = [export EXCEPT ![e] = NotExporting]
    /\ UNCHANGED <<heads, objects, success>>

ExportStep(e) == ReadPrimaryHead(e) \/ GetSnapshot(e) \/ PutSnapshot(e) \/ MirrorRead(e) \/ MirrorCAS(e)

ExportNext ==
    \/ CompactPrimary \/ PruneSnapshotObjects
    \/ \E e \in Exporter : ExportStep(e) \/ IntervalPasses(e) \/ ExportFails(e)

ExportSpec == ExportInit /\ [][ExportNext]_exportvars

-----------------------------------------------------------------------------
\* A device that bootstraps from the replica finds the snapshot its head names
\* ("can never observe a head naming an object this export did not first write"),
\* though several devices export different heads at once.
ReplicaHeadBacked == replica.head # 0 => replica.head \in replica.snapshots

\* The replica's recovery state never goes back, whichever exporter is late.
ReplicaForward == [][(replica.head # 0 /\ replica'.head # replica.head) => Dominates(replica'.head, replica.head)]_exportvars

\* While nobody compacts and nothing fails, the exports of any device bring the
\* replica to the primary's head, or at least as far, unless the two are incomparable.
ReplicaBehind ==
    /\ heads # <<>> /\ room5.compactions = 0 /\ room5.failures = 0
    /\ replica.head = 0 \/ ReconcileRetentionAdvance(replica.head, Len(heads)) = "replace"

ReplicaCatchesUp == ReplicaBehind ~> ~ReplicaBehind
=============================================================================
