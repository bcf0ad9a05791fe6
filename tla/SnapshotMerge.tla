--------------------------- MODULE SnapshotMerge ---------------------------
(***************************************************************************)
(* What a snapshot does to the rows (internal/sync/snapshot_build.go,      *)
(* snapshot_import.go), and when `hub compact --gc-tombstones` may purge a *)
(* tombstone (internal/cli/hub_compact.go planTombstoneGC, the sync acks   *)
(* of internal/cli/sync.go maybeWriteSyncAck).                             *)
(*                                                                         *)
(* All events are about one path: an upsert, a delete, or something else   *)
(* (a git state observation, say), each stamped above its author's clock.  *)
(* A sync is three steps, a compaction is three; publishing the snapshot,  *)
(* moving the floors and deleting the events is one of them (Compaction    *)
(* has its inside).                                                        *)
(***************************************************************************)
EXTENDS Naturals, FiniteSets, FiniteSetsExt

CONSTANTS
    Devices,
    Limit,          \* Limit[d]: bound on the events of d
    MaxHLC,         \* bound: the highest stamp
    MaxDeletes,     \* bound: deletes (NamespaceStore on why two are different)
    GCFlags,        \* the values of --gc-tombstones
    BusyCompactor,  \* do local commands run beside a compaction on one device?
    Founder         \* the device that added the project in the first place

Ids == UNION {{d} \X (1..Limit[d]) : d \in Devices}
Ops == {"add", "delete", "other"}
Nothing == [op |-> "other", hlc |-> 0]

ASSUME MergeAssumption ==
    /\ Limit \in [Devices -> Nat \ {0}] /\ MaxHLC \in Nat \ {0} /\ MaxDeletes \in Nat
    /\ GCFlags \subseteq BOOLEAN /\ BusyCompactor \in BOOLEAN /\ Founder \in Devices

VARIABLES
    ev,             \* ev[i]: what event i does, and its HLC
    minted,         \* minted[d]: length of d's stream
    row,            \* row[d]: d's namespace_entries row
    clock,          \* clock[d]: what CurrentHLC returns on d
    cursor,         \* cursor[d][o]: hub_device_cursors
    pushed,         \* pushed[d]: the push watermark
    known,          \* known[d]: the events d's row accounts for (history)
    stored,         \* event objects on the hub
    snapshot,       \* the snapshot the retention manifest names, its floors
    acks,           \* signed sync acks on the hub
    proc,           \* proc[d]: the command d is running
    purged          \* has a tombstone been purged? (history)

replica == <<ev, minted, row, clock, cursor, pushed, known>>
hub == <<stored, snapshot, acks>>
vars == <<replica, hub, proc, purged>>

None == [o \in Devices |-> 0]
NoRow == [status |-> "none", hlc |-> 0]
NoSnapshot == [floors |-> None, covers |-> {}, row |-> NoRow, hlc |-> 0]
NoAck == [cursor |-> None, push |-> 0, hlc |-> 0, written |-> FALSE]
Idle == [phase |-> "idle", base |-> None, hlc |-> 0, before |-> 0]

MaxOf(m, n) == IF m > n THEN m ELSE n

-----------------------------------------------------------------------------
(* Rows, as decide.go and importEntryTx, importTombstoneTx merge them.     *)

Upsert(r, hlc) == IF r.status # "none" /\ hlc <= r.hlc THEN r ELSE [status |-> "active", hlc |-> hlc]

\* tombstonePath stores the incoming HLC, see NamespaceStore.
Tombstone(r, hlc) == IF r.status = "active" /\ r.hlc > hlc THEN r ELSE [status |-> "deleted", hlc |-> hlc]

\* What is stamped hlc, all of it: a delete wins over an add, whichever is first.
Fold(r, hlc, ops) ==
    LET added == IF "add" \in ops THEN Upsert(r, hlc) ELSE r IN
    IF "delete" \in ops THEN Tombstone(added, hlc) ELSE added

OpsAt(batch, hlc) == {ev[i].op : i \in {j \in batch : ev[j].hlc = hlc}}

\* ApplyEvents sorts a batch by HLC first.
FoldAll(r, batch) ==
    LET upto[hlc \in 0..MaxHLC] ==
            IF hlc = 0 THEN r ELSE Fold(upto[hlc - 1], hlc, OpsAt(batch, hlc))
    IN upto[MaxHLC]

\* Mutation of MergeSnapshot: tombstones are not imported.
MergeSnapshotRowsOnly(r, s) == IF s.status = "active" THEN Upsert(r, s.hlc) ELSE r

\* ImportSnapshot: a last-writer-wins merge of the row.
MergeSnapshot(r, s) ==
    IF s.status = "active" THEN Upsert(r, s.hlc)
    ELSE IF s.status = "deleted" THEN Tombstone(r, s.hlc)
    ELSE r

\* Everybody has the first event of every stream; the founder's adds the project.
Init ==
    /\ ev = [i \in Ids |-> IF i[2] = 1 THEN [op |-> IF i[1] = Founder THEN "add" ELSE "other", hlc |-> 1]
                           ELSE Nothing]
    /\ LET old == {i \in Ids : i[2] = 1}
           one == [d \in Devices |-> 1] IN
       /\ minted = one /\ pushed = one /\ stored = old /\ clock = one
       /\ known = [d \in Devices |-> old]
       /\ row = [d \in Devices |-> [status |-> "active", hlc |-> 1]]
       /\ cursor = [d \in Devices |-> one]
    /\ snapshot = NoSnapshot
    /\ acks = [d \in Devices |-> NoAck]
    /\ proc = [d \in Devices |-> Idle]
    /\ purged = FALSE

-----------------------------------------------------------------------------
Compacting(d) == proc[d].phase \in {"planned", "purged"}

\* A local command, or the git state a sync observes between its pull and its
\* push; the clock never goes back, the wall clock may be anything.
Mint(d) ==
    /\ Compacting(d) => BusyCompactor
    /\ minted[d] < Limit[d]
    /\ \E op \in Ops, hlc \in (clock[d] + 1)..MaxHLC :
        LET i == <<d, minted[d] + 1>> IN
        /\ op = "delete" => /\ row[d].status = "active"
                            /\ Cardinality({j \in Ids : ev[j].op = "delete"}) < MaxDeletes
        /\ ev' = [ev EXCEPT ![i] = [op |-> op, hlc |-> hlc]]
        /\ row' = [row EXCEPT ![d] = CASE op = "add" -> Upsert(@, hlc)
                                       [] op = "delete" -> Tombstone(@, hlc)
                                       [] OTHER -> @]
        /\ clock' = [clock EXCEPT ![d] = hlc]
        /\ known' = [known EXCEPT ![d] = @ \cup {i}]
    /\ minted' = [minted EXCEPT ![d] = @ + 1]
    /\ UNCHANGED <<cursor, pushed, hub, proc, purged>>

\* Hub.Pull's retention gate.
BelowFloor(d) == \E o \in Devices : cursor[d][o] + 1 < snapshot.floors[o]

Unread(d) == {i \in stored : i[2] > cursor[d][i[1]]}

Apply(d, batch) ==
    /\ row' = [row EXCEPT ![d] = FoldAll(@, batch \ known[d])]
    /\ known' = [known EXCEPT ![d] = @ \cup batch]
    /\ clock' = [clock EXCEPT ![d] = Max({@} \cup {ev[i].hlc : i \in batch})]

ReadTo(d) == [o \in Devices |-> Max({cursor[d][o]} \cup {i[2] : i \in {j \in Unread(d) : j[1] = o}})]

\* A pull above the floors (pullAndApplyEvents).
Pull(d) ==
    /\ proc[d].phase = "idle" /\ ~BelowFloor(d)
    /\ Apply(d, Unread(d))
    /\ cursor' = [cursor EXCEPT ![d] = ReadTo(d)]
    /\ proc' = [proc EXCEPT ![d].phase = "pulled"]
    /\ UNCHANGED <<ev, minted, pushed, hub, purged>>

\* Mutation of ImportClock: ReceiveRemoteHLC is forgotten.
ImportClockForgotten(c, s) == c

\* ReceiveRemoteHLC with a wall clock behind the stamps; a later wall clock is
\* in the choice of Mint.
ImportClock(c, s) == MaxOf(c, s.hlc)

\* recoverFromSnapshot and ImportSnapshot; the pull that follows is Pull.
Import(d) ==
    /\ proc[d].phase = "idle" /\ BelowFloor(d)
    /\ row' = [row EXCEPT ![d] = MergeSnapshot(@, snapshot.row)]
    /\ known' = [known EXCEPT ![d] = @ \cup snapshot.covers]
    /\ clock' = [clock EXCEPT ![d] = ImportClock(@, snapshot)]
    /\ cursor' = [cursor EXCEPT ![d] = [o \in Devices |->
                     IF snapshot.floors[o] > 0 THEN MaxOf(@[o], snapshot.floors[o] - 1) ELSE @[o]]]
    /\ UNCHANGED <<ev, minted, pushed, hub, proc, purged>>

Unsent(d) == {i \in Ids : i[1] = d /\ pushed[d] < i[2] /\ i[2] <= minted[d]}

Push(d) ==
    /\ proc[d].phase = "pulled"
    /\ stored' = stored \cup Unsent(d)
    /\ pushed' = [pushed EXCEPT ![d] = minted[d]]
    /\ proc' = [proc EXCEPT ![d].phase = "pushed"]
    /\ UNCHANGED <<ev, minted, row, clock, cursor, known, snapshot, acks, purged>>

\* maybeWriteSyncAck: unless cursor and watermark are those of the last ack; the
\* clock is read now, not when the pull was made.
WriteAck(d) ==
    LET old == acks[d]
        same == old.written /\ old.cursor = cursor[d] /\ old.push = pushed[d] IN
    /\ proc[d].phase = "pushed"
    /\ acks' = IF same THEN acks ELSE [acks EXCEPT ![d] =
                    [cursor |-> cursor[d], push |-> pushed[d], hlc |-> clock[d], written |-> TRUE]]
    /\ proc' = [proc EXCEPT ![d] = Idle]
    /\ UNCHANGED <<replica, stored, snapshot, purged>>

-----------------------------------------------------------------------------
(* hubCompact.                                                             *)

\* computeCompactFloors, after the pull and the push.
PlannedFloors(d) == [o \in Devices |-> IF o = d THEN minted[d] + 1 ELSE ReadTo(d)[o] + 1]

\* planTombstoneGC: the least of our clock and the acked watermarks, 0 when
\* somebody has never acked.
TombstoneFloor(d, now) ==
    LET peers == Devices \ {d} IN
    IF \A e \in peers : acks[e].written THEN Min({now} \cup {acks[e].hlc : e \in peers}) ELSE 0

\* The pull, the push and the plan, with the clock the snapshot will carry.
PlanCompact(d) ==
    /\ proc[d].phase = "idle" /\ ~BelowFloor(d)
    /\ Apply(d, Unread(d))
    /\ cursor' = [cursor EXCEPT ![d] = ReadTo(d)]
    /\ stored' = stored \cup Unsent(d)
    /\ pushed' = [pushed EXCEPT ![d] = minted[d]]
    /\ \E gc \in GCFlags :
        proc' = [proc EXCEPT ![d] = [phase |-> "planned", base |-> PlannedFloors(d), hlc |-> clock'[d],
                                     before |-> IF gc THEN TombstoneFloor(d, clock'[d]) ELSE 0]]
    /\ UNCHANGED <<ev, minted, snapshot, acks, purged>>

\* GCTombstones: rows deleted below the floor go, under the sweep lock.
Purge(d) ==
    LET cold == row[d].status = "deleted" /\ row[d].hlc < proc[d].before IN
    /\ proc[d].phase = "planned" /\ \A e \in Devices : proc[e].phase # "purged"
    /\ row' = IF cold THEN [row EXCEPT ![d] = NoRow] ELSE row
    /\ purged' = (purged \/ cold)
    /\ proc' = [proc EXCEPT ![d].phase = "purged"]
    /\ UNCHANGED <<ev, minted, clock, cursor, pushed, known, hub>>

\* BuildSnapshot from the rows of now, the manifest unless a floor would go
\* down, CompactEventsBelow, and our own cursors.
Publish(d) ==
    LET floors == proc[d].base IN
    /\ proc[d].phase = "purged"
    /\ \A o \in Devices : floors[o] >= snapshot.floors[o]
    /\ snapshot' = [floors |-> floors, covers |-> known[d], row |-> row[d], hlc |-> proc[d].hlc]
    /\ stored' = {i \in stored : i[2] >= floors[i[1]]}
    /\ cursor' = [cursor EXCEPT ![d] = [o \in Devices |-> MaxOf(@[o], floors[o] - 1)]]
    /\ proc' = [proc EXCEPT ![d] = Idle]
    /\ UNCHANGED <<ev, minted, row, clock, pushed, known, acks, purged>>

\* The command fails or dies: what it purged stays purged.
Abandon(d) ==
    /\ proc[d].phase # "idle"
    /\ proc' = [proc EXCEPT ![d] = Idle]
    /\ UNCHANGED <<replica, hub, purged>>

Next ==
    \E d \in Devices :
        Mint(d) \/ Pull(d) \/ Import(d) \/ Push(d) \/ WriteAck(d)
        \/ PlanCompact(d) \/ Purge(d) \/ Publish(d) \/ Abandon(d)

Spec == Init /\ [][Next]_vars

-----------------------------------------------------------------------------
Row == [status : {"none", "active", "deleted"}, hlc : Nat]
Floors == [Devices -> Nat]

TypeOK ==
    /\ ev \in [Ids -> [op : Ops, hlc : Nat]]
    /\ minted \in Floors /\ pushed \in Floors /\ clock \in Floors /\ cursor \in [Devices -> Floors]
    /\ row \in [Devices -> Row] /\ known \in [Devices -> SUBSET Ids]
    /\ stored \subseteq Ids
    /\ snapshot \in [floors : Floors, covers : SUBSET Ids, row : Row, hlc : Nat]
    /\ acks \in [Devices -> [cursor : Floors, push : Nat, hlc : Nat, written : BOOLEAN]]
    /\ proc \in [Devices -> [phase : {"idle", "pulled", "pushed", "planned", "purged"},
                             base : Floors, hlc : Nat, before : Nat]]
    /\ purged \in BOOLEAN

\* The row the events of E give, whatever their order and grouping.
Latest(op, E) == Max({0} \cup {ev[i].hlc : i \in {j \in E : ev[j].op = op}})

RowOf(E) ==
    IF Latest("add", E) > Latest("delete", E) THEN [status |-> "active", hlc |-> Latest("add", E)]
    ELSE IF Latest("delete", E) > 0 THEN [status |-> "deleted", hlc |-> Latest("delete", E)]
    ELSE NoRow

\* Whatever mixture of events and snapshots a device got, in whatever order, its
\* row is what the events alone give: import-then-replay and replay-then-import
\* agree (snapshot_import.go), as long as no tombstone was purged.
ImportIsReplay == ~purged => \A d \in Devices : row[d] = RowOf(known[d])

\* After an import too, the local clock is past everything the rows show, so a
\* command is stamped above what it acts on (CurrentHLC, ImportSnapshot).
ClockCoversRows == \A d \in Devices : row[d].hlc <= clock[d]

\* A device that has the delete of a project among what it was given does not
\* show the project: a purged tombstone was not needed by anybody any more
\* (planTombstoneGC).
DeletesStick ==
    \A d \in Devices : row[d].status = "active" => RowOf(known[d]).status = "active"

\* The types, and a clock that covers the rows.
MergeInv == TypeOK /\ ClockCoversRows
=============================================================================
