# DevStrap in TLA+

DevStrap keeps a developer's workspace (which projects exist, where they come
from, which environment files and drafts belong to them) the same on several
machines. Each device owns a SQLite database and an append-only stream of signed
events; a *hub* (a git branch, a shared folder or an R2 bucket) carries the
streams, encrypted, between devices. There is no server that decides anything:
every device folds the events of all devices into its own tables.

This directory holds TLA+ modules translated from that code, TLC
configurations that check them on small instances, and TLAPS proofs of the
results that should hold for every instance. Paths below are relative to
`src/internal/`.

## 1. Inventory

| Component | State | Operations | What makes it correct |
|---|---|---|---|
| Hybrid logical clock (`sync/hlc.go`, `state/store.go`) | one 64-bit stamp per device (48 bits of milliseconds, 16 of counter) | stamp a local event, absorb a remote stamp, the skew gates | stamps follow seq order and causality; a peer cannot push our clock far ahead |
| Decision core (`sync/decide.go`) | none (pure) | `Decide`, `Apply`, `samePathLess` | every order of arrival gives the same rows; a deleted path stays deleted |
| Namespace store (`state/store.go`) | `namespace_entries`, `git_repos`, `conflicts`, `events` | add, promote, delete, apply, tombstone, pending delete | the rows are what the decision core computes; nothing of ours is displaced without a conflict that can bring it back |
| Conflict resolution (`cli/conflict_resolve.go`) | `conflicts` | keep-local, keep-remote, keep-both | a resolver that raced a pull, or died half-way, destroys nothing |
| Pull and apply (`cli/sync.go`, `sync/events.go`, `sync/encryptedhub.go`) | per-origin cursors, quarantine rows, keyring | pull, defer, quarantine, three replays, advance cursors | no event is lost, none is applied early, one bad origin does not stop the others, everything arrives in the end |
| Device trust (`state/store.go`, `cli/devices.go`) | devices, trust state, revocation boundary | enroll, approve, revoke, verify a signature | a revoked device loses access, also when the revocation was interrupted |
| Key epochs (`workspacekeys/`, `cli/wck_rotation.go`) | keyring, grants waited for, rotation-owed marker | found, grant, rotate, retry | one founding key; a granted key is not lost; nobody seals under a key a revoked device can unwrap |
| Push and founding (`cli/sync.go`) | push cursor | publish own stream, found an empty hub | the stream on the hub is a prefix of ours; a workspace is founded once |
| Omission detection (`sync/head.go`, `state/device_heads.go`) | recorded heads, promises | sign a head, verify peers' heads | a hub that withholds events is found out; an honest one is never accused |
| Snapshots and compaction (`sync/snapshot*.go`, `cli/hub_compact.go`) | retention floor, acks, snapshots | compact, import a snapshot, collect tombstones | what is dropped from the hub has been seen by everybody or is in the snapshot |
| Blobs (`cli/blob_gc.go`, `cli/env.go`, `draft/`, `cli/hub_sweeplock.go`) | local cache, hub objects, pointer rows, delete queue, sweep lock | capture, push, rewrap, drain, collect | no needed blob is deleted; what a revoked reader saw stays flagged |
| Hub back ends (`hub/`) | objects on the carrier | put, list, compare-and-swap | a write that reported success stays visible |
| Locks (`cli/repo_lock.go`) | a lock file | acquire, take over, release | one holder; a dead holder does not block for good |
| Daemon (`daemon/`, `cli/daemon.go`, `cli/run_loop.go`) | socket, pid record, cycle in flight, watch phase | start, stop, converge, watch, degrade | one daemon serves; a request is answered by a cycle that ran for it; a broken watcher comes back |
| Backup and restore (`cli/db_backup.go`, `cli/restore_journal.go`), durability export (`cli/durability_export.go`) | database files, journal, replica | backup, restore, recover, export | after a crash the state is the old or the new one, entire; the replica's head names what it holds |
| WIP refs (`cli/wip*.go`, `state/device_wip.go`) | refs on origin, their mirror on every device | push, apply, drop, gc | a sweep deletes what it decided on; the mirrors agree |
| Worktrees and agents (`cli/worktree.go`, `cli/agent*.go`) | checkouts, worktree rows, run rows | new, run, adopt, finish, pr, remove, cleanup, sweep | no commit or edit is lost; a live run keeps its checkout |
| Materialization (`cli/materialize.go`, `cli/hydrate.go`, `cli/promote.go`) | directories, staging clones, state rows | hydrate, materialize, promote, extract a draft, sweep the staging area | a user's file is never replaced; "available" means it is there |

How they meet: local commands stamp an event (clock), write rows (store) and
append to the device's stream in one transaction; push copies the stream to the
hub; pull reads other streams beyond a cursor *per origin*, decrypts with the
keyring, verifies with the trust table, asks the decision core, writes the rows
and only then moves the cursors. What rows point at (clones, bundles, blobs, WIP
refs) is fetched or built afterwards by the materializer, under the repository
lock. Several processes share the database (the daemon's run loop, a manual
`sync`, `devices approve`, `conflicts resolve`); the maintenance lock keeps
run-loop ticks, backup and restore apart and nothing else, so every pair of the
other commands may interleave between transactions.

The behaviours that are hard to test follow from this: arrival orders and ties;
events that arrive before what they need (a key, an approval, a project, local
time, their predecessor); a cursor that passes an event somebody still has to
apply; a process that dies between the apply and the cursor; two commands that
handle the same event; a revocation that overlaps a rotation, a capture or
another revocation; a delete on the hub racing a push; check-then-act on rows, on
directories and on lock files. `PROJECT.json` lists the forty that matter most as
hazards at the line where each one bites, with the properties that would catch it;
section 7 has the others.

## 2. Modules

| Module | Models | Composition |
|---|---|---|
| `HLC` | the clock and both skew gates | part of `MCNamespace` |
| `Decide` | `decide.go` as operators | |
| `ProjectionFold` | replicas that fold `Decide`/`Apply` over events in any order | extends `Decide`; the abstract specification of the store |
| `NamespaceStore` | the SQL rows as the local commands, the apply loop and the resolver write them | extends `Decide`; implements `ProjectionFold` |
| `CausalDelivery` | what a pull promises: events enter the log once, in seq order, after what they point at | abstract specification |
| `PullApply` | `pullAndApplyEvents`, the three replays, `devices approve` | implements `CausalDelivery` |
| `Compaction` | `hub compact`, the sweep lock, recovery from a snapshot; one hub call a step | |
| `SnapshotMerge` | what a snapshot does to rows and clocks, sync acks, tombstone GC | the inside of what `Compaction` treats as "events a device knows" |
| `Fleet` | trust, keys, grants, rotation, containment of a revocation, founding and push gate | `PullApply` has the apply pipeline it abbreviates |
| `Blobs` | capture, rewrap, delete queue, cache collection, `hub gc`, pull of blobs | part of `MCFleet` |
| `HubStore` | what every back end promises | abstract specification |
| `GitCarrier` | the git back end under sync and compaction | implements `HubStore` |
| `Omission` | signed heads and their verification | part of `MCHubs` |
| `WipRefs` | WIP refs on origin, their signed mirror, drop and gc | part of `MCCheckouts` |
| `Hydration` | one project's directory: clone, draft, promotion, staging sweep | part of `MCCheckouts` |
| `Worktrees` | one worktree, its row, the agent runs in it | part of `MCCheckouts` |
| `RepoLock` | the lock file, one file system call a step | part of `MCMaintenance`; `Hydration` and `Worktrees` use the lock as a holder |
| `Restore` | backup, verification, the journalled swap, recovery | part of `MCMaintenance` |
| `Durability` | the export to a replica hub | part of `MCMaintenance` |
| `Scheduler`, `Daemon`, `WatchPlane` | cycles and their callers; socket, record and drain; the watcher's arms | parts of `MCMaintenance` |
| `PullApplyProofs`, `CompactionProofs`, `SnapshotMergeProofs` | theorems and proofs about the module of that name | |
| `NamespaceProofs` | theorems and proofs about `HLC`, `ProjectionFold` (with `Decide`), `NamespaceStore` | on `MCNamespace` |
| `FleetProofs` | theorems and proofs about `Fleet` and `Blobs` | on `MCFleet` |
| `CheckoutProofs` | theorems and proofs about `WipRefs`, `Hydration`, `Worktrees` | on `MCCheckouts` |
| `MaintenanceProofs` | theorems and proofs about `RepoLock`, `Restore`, `Durability`, `Scheduler`, `Daemon`, `WatchPlane` | on `MCMaintenance` |
| `HubsProofs` | theorems and proofs about `GitCarrier` (with `HubStore`) and `Omission` | on `MCHubs` |
| `MC*` | instances for TLC | |

**Worlds.** Most modules have a constant set of *worlds*: records that say where a
run starts and how often what may happen (edits, revocations, crashes, failures,
time). `Init` picks one and the actions use it up. A world asks one question, so
that worlds add up where bounds in one product would multiply. Where an MC
module has several parts that share no variable (`part`), a behaviour
exercises one of them; nothing is lost, since parts without common state cannot
interfere, and what one part assumes of another is a property of that other
part (a lock that is freed when its holder dies: `DeadLockReclaimed` of
`RepoLock`; a floor that never goes down, assumed by `GitCarrier` and
`Durability`: `FloorsForward` of `Compaction`).

**Conjunctions.** A property such as `KeysKept` or `RunLoopSafe` is a conjunction of
named parts; TLC evaluates all of them, and the comment at each part says
what it is about.

### HLC
`last[d]` is `hlc_state`, `now[d]` the wall clock, which moves both ways;
`mint` is `NextHLC` (advance, carry when the counter is at its mask), `Apply`
is `ReceiveHLC` behind the two gates of the apply loop (too far ahead of local
time: deferred; not plausible for any device: quarantined). `LogicalMask` keeps
the width of the counter, so the carry happens in the run.

### Decide, ProjectionFold, NamespaceStore
`DecideUpsert`, `DecideDelete` and `ApplyMutation` follow `decide.go` branch by
branch. `ProjectionFold` delivers events to replicas in any order and folds
them. `NamespaceStore` writes rows the way the SQL does: `UpsertProject` sets
columns whether or not they matter, `UpsertGitRepo` touches a second table,
`TombstonePath` goes through the upsert first. Local `add` and delete do not
ask `Decide`; the resolver reads in one transaction and writes in another.
A payload is its remote; a path has at most one sibling for keep-both.

### PullApply
One transaction is one step. `attr` is the content of the streams, chosen from
`Worlds` and never changed: the epoch an event is sealed under, the project it
points at, and what is wrong with it, if anything; `cast` says which processes
run and which origins are approved. `Verdict` is the body of
`ApplyEventsWithStats` for one event, in the order of the code: key missing,
implausible, too far ahead, signer not trusted, predecessor missing, known already,
payload that aborts the command, payload rejected, project missing.
`SafeCursor` is `safeDeviceCursors`. `ListRows`, `ApplyEvent`, `ResolveRow` serve the
three replays and the batch. A crash drops `proc[p]` and nothing else.

### Compaction, SnapshotMerge
`hubCompact` is a sequence of calls to a hub that other devices use at the same
time, so in `Compaction` each call is a step: the pull (the retention gate first, the
list afterwards), the push, the read of the manifest, the sweep lock, the snapshot
object, the compare-and-swap of the manifest with its one retry, the read-back,
the deletes, the own cursors, the streams of revoked devices, the old snapshots.
`recoverFromSnapshot` is two steps, the manifest and the import, because a floor may
move and an object may be pruned in between. `proc[d]` is what the command
carries in its variables: the floors it computed (`base`), the manifest it read
(`seen`), the number of its snapshot. Rows are abstracted to `known[d]`, the set of events
they account for; a snapshot's content is the producer's `known` at the moment it is
built. A lock may expire under a holder that is alive and slow; a dead holder's
always may. The floor cache of recovery is left out, since `FloorsForward` says that it never
differs from the manifest.

`SnapshotMerge` opens `known` up: one path, its row, and the stamps. `Upsert` and
`Tombstone` are the row rules of `decide.go` as `importEntryTx` and
`importTombstoneTx` repeat them; a sync is pull, push and ack, and a compaction is
plan, purge and publish, so that a peer's push can fall between any two of them.

### Fleet
Each device has a table `trust[d]` of the others, the keys it holds with their origin
(granted or minted here), the waits for keys it has seen ciphertext of (`waits`),
the two markers of unfinished work (`owed` for a rotation, `contain` for the rest of a
revocation), its log and its pull cursors. Commands (`approve`, `pair`, `enroll`, `revoke`, `keys rotate`)
and the sync cycle are programs over `proc[d].at`, one transaction or one hub
call a step; `Rotate` records the epoch first and the grants follow one transaction at a time, so a
crash or an error leaves a rotation half done. A grant is ingested before the batch it
came with is applied, or quarantined when its signer is not approved and replayed by
the approval. Which key seals a push is `Preferred`, the order of `keyring.go`.

### Blobs
A blob is a number in `made`, with the value inside and whether the device being revoked
can read it; `blobs` is what the hub has. A capture runs beside another command of its device (`hand`
beside `job`), because `env capture` takes no lock: encrypt, write to the cache, insert event and
row. A sync uploads what pending events name, then the events, fetches what rows name,
drains `pending_hub_deletes` and runs the cache collector, an object at a time. A revocation flags the values, rewraps every
row and queues the old refs. `hub gc` marks from its own rows, applies the grace period,
looks once more and deletes. `raced` collects what is lost in the windows the code
leaves open, so that every other loss is caught.

### HubStore, GitCarrier, Omission
`HubStore` is the contract in six actions: append, compact below the floors,
swap the manifest for a successor, acquire and release the sweep lock, and a host that is no longer
honest, after which nothing is promised. `GitCarrier` implements it with a branch: `commits` holds every
tree that was ever pushed, `remote` the head. Every call fetches, compares the
head with the one the clone verified last (fast-forward, or the squash rule),
works on a checkout, commits, pushes with a lease and starts over up to
`Attempts` times; the answer of a push may be lost. A branch with an empty tree is taken without a
marker, any other content without one is refused. The host may put an old
state back, and the user may discard the clone to accept it. The checkout alone may go as well (`LoseCheckout`):
`head.json` is left, `known` is false, and a refresh has only the manifest to judge by, not the
contents (`hub/gitcarrier.go:310-320` and `365`). In `Omission` an event stands for its whole chain (the sequence of
contents up to it), and a fold is that sequence, which is what the
hash represents as long as it does not collide. `view` is the database of the
verifier: its rows, anchor, promise and alarms; `cap` is how far a withholding
hub serves.

### WipRefs, Hydration, Worktrees
`WipRefs`: `ref[o]` on origin is read, leased and deleted by one git call a step,
`row[d][o]` is the mirror that signed events build, in any order across
origins; dates come from skewed clocks. `Hydration`: the directory (`dir`, `gitdir`, `origin`, `mine`), the
staging clones and the rows change one file system, git or database call at a time;
the user may write into the directory between any two. `promoteClonedRepo` looks twice; the rollback of a failed
promotion undoes what it recorded, and where commands may die (`deadly`) it may fail too and only warn.
`promote --draft` takes no lock: it reads the row, looks at the directory and records, each a step. `Worktrees`: `tree` counts the commits on the branch and on a detached HEAD and knows
whether the checkout is on disk and dirty; `base` says how many of them are upstream and how many of those
this clone has fetched; `reg` and `agentrun` are the rows. `cleanup --merged` reads the rows, takes the lock,
looks again, removes and deletes the branch, each a step; the clean-up after a failed `agent run` or
`worktree new` may leave the checkout or the branch behind with a warning (`quota.deadly`).

### RepoLock, Restore, Durability
`acquireRepoLock`, `repoLockIsStale`, `removeStaleRepoLock` and the unlock
function, one system call a step: create exclusively, write, probe, read,
check the process, read again, remove. Contents are the writer's identity or
empty. `Restore` has the four targets with the generation they hold and the refs
their database names; the swap is `moveAside` and promotion per target under `journal`, each record of the journal a step of its
own, and recovery may be interrupted and fail like the swap itself. `Durability` has the
sequence of heads of the primary, which are only partly ordered because floors are per
stream, and exporters that read, copy and swap on the replica.

### Scheduler, Daemon, WatchPlane
What a critical section does is one step. `Scheduler`: `Converge` joins the cycle in flight or leads
one, `pendingMode` remembers that a full cycle is owed. `Daemon`: probe, remove and bind of the socket, the record, the drain and `daemon stop`,
each system call a step. `WatchPlane`: an arm is a goroutine; a cancelled one
lives on beside its successor until it notices.

## 3. Runs

| Run | Instance | What it shows |
|---|---|---|
| `namespace` | clock: 2 devices, a counter of 2 values, 3 events each. Fold: 2 replicas, 3 events on one path with every tie. Store: 2 devices, a path and its sibling, 2 remotes, 3 events, 1 delete | `NamespaceInv` (types, `StreamOrder`, `RowIsLatest`); `Causality` and `NoPoisoning` through backward clock steps and carries; `Convergence`, `NoResurrection`; the rows implement the fold (`ImplementsFold`); `ConflictsKept`: every open conflict still leads to both variants, and a row of ours is displaced only with a conflict |
| `pull` | 2 origins of 2 events, 1 crash, in 4 families of worlds: late keys and clocks ahead, a damaged event of each kind, an approval beside the sync, two syncs at once | `NoStranding`, `PullInv` (types, `AppliedUnflagged`), `ImplementsDelivery`, `FaultIsolation`, `CursorForward`, and under fairness `EverythingDelivered` |
| `compact` | 2 devices that sync and compact once each, 1 that is off and may be revoked, 2 new events, 1 crash, locks that expire under their holders | `NothingLost`, `CursorInv` (types, `CursorsHonest`), `FloorsForward`, and under fairness `StragglersCatchUp` |
| `merge` | 2 devices, one project, 2 further events of any kind, one delete, with and without `--gc-tombstones` | `ImportIsReplay`: import and replay agree in every mixture; `MergeInv`: the clock covers the rows |
| `fleet` | keys: 3 devices, 6 worlds (first syncs and approvals in any order; pairing; a revocation overtaken by a rotation and a mishap; two revokers; one that is taken back; two devices revoking each other). Blobs: 2 devices that stay, 8 worlds of captures, revocations, collections, a mishap and a tick of time | `KeysKept` (one founding key, no granted key lost), `RevokedLockedOut` and under fairness `EventuallyLockedOut`; `BlobsAvailable`, `ExposureRemembered` |
| `hubs` | carrier: 3 devices, of which 1 revoked, 8 worlds (two compactors; a compactor, a writer and a mishap; a host that rewinds; the same past a compaction, with a clone or its checkout discarded; a revoked stream; stopped clocks; somebody else's branch; a branch with an empty tree). Omission: 1 stream of 3 events, 6 worlds (nothing happens; a compaction and a declined event; two compactions; an origin restored from a backup, alone and beside a compaction; a hub that withholds) | `HubsSafe` (`Acknowledged`, `RefusalExplained`, `SweepersExclude`, `Vouched`), `NoSilentRewind`, `ImplementsHub`, `EventsLand`, `NeverAccused`, `WithholdingFound` |
| `checkouts` | WIP: 2 devices, 5 worlds. Hydration: 2 processes, 2 user files, 5 worlds by type of project and by what another device does. Worktrees: 2 processes, 2 runs, 2 commits, 7 worlds | `SnapshotsHonest`, `StatesHonest`, `CheckoutsTracked`, `WorkKept`, and under fairness `EventuallyMaterialized` |
| `maintenance` | 2 lock contenders and 1 crash; 2 restores with up to 3 mishaps; 2 exporters and 3 compactions; 3 cycles; 3 daemon processes, a kill and 2 stops; 2 overlapping arms | `RecoverySafe`, `RunLoopSafe`, `PromisesKept`, `EventuallyRecovered`, `EventuallyRuns` |

Four more runs end with a counterexample; they are in the table of
disagreements below.

### Why the bounds are enough
Two origins are needed for a pointer to wait for
another stream, two events for a chain to break; three would only repeat the
successor. Two replicas disagree or they do not: convergence is pairwise. Three events on a path are
the shortest history with a delete between two adds, and the shortest in which a resolver works on a row
that a pull then changes; for more, the theorems of section 4 hold for any number. One crash at any point reaches every half-done state, and a second one
starts from a state that is already an initial state of the next command.

Two compactions by two devices are what can conflict on the manifest and the
lock; a third would conflict with one of them. One stream has three events: one that everybody has, one that a
floor can hide from the other device, and one above that floor whose chain then
hangs on the imported anchor. In `merge` the stamps go to 3, so that an event of one device can be stamped
below, at or above the other's clock.

A revocation concerns three devices: the one revoked, the one that revokes, and one that does
not know yet and may rotate, grant or revoke at the same time. Two of them may be inside a command at once (`MaxBusy`); a third
command would have to wait for the same hub objects as one of the two. Two hosts suffice for blobs, one that has the ciphertext and one that
needs or deletes it. On the carrier two writers conflict for a head. The code tries a push five times
(`gitPushAttempts`, `hub/gitcarrier.go:72`), the run three: a first attempt, one after a lost race, and one after
that, which finds what any later one would; the theorems hold for any number. The verifier of `Omission` needs a promise, an event below it and one above. Two processes contend for a lock,
a checkout or a project directory; a third daemon is needed so that one
serves, one drains and one starts.

### Fairness
`PullApply`: other devices push what they have, grants reach the hub, local
time passes, the daemon's loop pulls again and again, a command that runs goes on
to its end, and the operator approves a device whose events are quarantined
(`devices approve` prints what it could not replay and is meant to be run again,
hence strong fairness). The grace window for a key is *not* fair: it may run
out or not. `Compaction`: devices keep syncing and a command that runs
goes on; compactions, crashes, expiring locks and new events are not fair.
`Fleet`: commands go on to their end, and the run loop starts a sync on every device
again and again; strong fairness, since a sync is put off while two other devices are
busy (`MaxBusy`), which is a bound of ours. `GitCarrier`: the same, where weak
fairness will do. `Omission`: the verifier keeps pulling and verifying; nothing is
assumed of origin and hub. `Hydration`: the processes that run go on, and the daemon's materializer comes
back (`MaterializeGitRepo` of the run loop). `Restore`: a restore that runs goes on, and an interrupted one is recovered
in the end: every command that opens the database refuses while the journal is there and names `db restore --recover`
(`openState`, `cli/root.go:226`), so that we assume the user to run that until it succeeds. `Durability`: syncs go on, and the export interval passes.
`Daemon`, `WatchPlane`, `Scheduler`: goroutines go on and timers fire; kills,
restarts by a supervisor beyond those of the world, changes of the roots and failures are not fair. `RepoLock`: live processes go on and the half hour after which an
unreadable file counts as stale passes; it does not pass while a process is between two
system calls.

### What the properties leave out
A property that needs an exemption names it where it is defined:
* `AppliedUnflagged` is claimed where one process syncs; `FaultIsolation` is about origins other
  than the damaged one, and not about a payload that aborts the command.
* `StragglersCatchUp` leaves out a producer that died below its own floor.
* `BlobsAvailable` leaves out `raced`: the window between the last look of `hub gc` and its delete, and those
  that the cache collector leaves to a concurrent capture.
* `NeverAccused` leaves out a snapshot anchor at or above the promise (the `omission_fork` run is about
  it); `WithholdingFound` asks for a stream with a seed.
* `NoSilentRewind` leaves out a clone whose checkout was lost since its last refresh: it cannot compare contents
  (`hub/gitcarrier.go:205-212` says so of a pruned head).
* `Vouched` leaves out rows at or below an imported anchor where the origin was restored from a backup: the check starts at
  the anchor, and the restored origin may have signed other events below it.
* `EventuallyRecovered` leaves out `Torn`, `ServingHasRecord` and `StopHonest` the gap in which a
  daemon removes a record it has read (`clobbered`, `superseded`).
* `ReplicaCatchesUp` is about heads the reconciliation can compare (`ReplicaBehind`).
* `UserFilesKept` is about files that were there when the operation last
  looked; `WorkKept` in general about what was there when the lock was taken.
* `EventuallyMaterialized` leaves out a project that a late `promote --draft` demotes (below), and `RollbackComplete`
  and `NoHiddenCheckout` the worlds in which commands die and clean-ups fail.
* `HiddenNotReaped` is about the decision of a sweep, the moment it puts a ref on its list. Between that and the
  delete a sync may deliver the push that would have kept the ref, and the sweep goes on: as an invariant of the
  state it is false, for larger bounds than those of the run.
* `CommitsKept` does not count loose commits where somebody detaches HEAD: `cleanup` tests the branch on record. A
  world with `cleanup` and a detach checks that the commits on the branch are kept all the same.
* `EventuallyWatched` assumes that an arm gets through the steps without waits within
  a re-discovery interval, and that a timer does not fire in the instant its arm is cancelled.

### Disagreements with the repository's own statements
Four are runs that TLC ends with a counterexample.

| Run | What happens | What the repository says |
|---|---|---|
| `pull_two_epochs` | two quarantined events in a row, keys arrive in the wrong order: the replay of the second fails on the hash chain and its row is closed anyway (`sync/encryptedhub.go:698`) | `cli/sync.go:473`: the quarantine "never loses it" |
| `compact_carry` | `a` pulls; `c` pushes its first event; `b` compacts with a floor for `c`; `a` reads that manifest, has no floor of its own for `c`, carries `b`'s over and publishes a snapshot without `c`'s event (`cli/hub_compact.go:559`) | `cli/hub_compact.go:48`: the snapshot "covers everything below the new per-device retention floors" |
| `merge_gc` | the purge floor is a minimum over the ackers' *clocks*; a delete stamped below such a clock and pushed after the ack is purged and compacted away, and the peer that never read it keeps the project (`cli/hub_compact.go:389`) | `cli/hub_compact.go:384`: never "before a peer that could still resurrect it has consumed the delete" |
| `omission_fork` | a device bootstraps from a snapshot anchored at or above a peer's promise; `DeviceFold` (`state/device_heads.go:274`) looks at its bound only after a further event, two different seqs are compared, and a fork is recorded | `sync/head.go:71`: "never a false alarm" |

Others were met while the passing runs were being set up and shaped their bounds. They were found
by reading and by TLC on larger instances, and no run of the project shows them.

**Store.** `tombstonePath` calls the upsert first, which sets `tombstone_hlc` to NULL, so an older
delete that arrives late lowers the tombstone (`state/store.go:1326`, against
`sync/decide.go:110` "monotonically non-decreasing"): `namespace` and `merge` have one delete. A
folder upserted over a git project keeps the old `git_repos` row
(`state/store.go:1222`): the store is checked for git projects.

**Pull.** A project event whose payload does not decode aborts the batch on every
pull and no cursor moves (`sync/events.go:1250`, against `sync/events.go:482`). A consumed corrupt object breaks the
chain of its own origin for good (`sync/events.go:691`). With two syncs at once the row of a skipped event may be opened
after the other sync applied it, and nothing closes it (`sync/events.go:651`).

**Compaction.** A producer that dies between the manifest and its own cursors is below
its own floor, and recovery refuses its own snapshot until somebody else
compacts (`cli/hub_compact.go:339`). A manifest of
a device that is revoked later blocks recovery and compaction alike; in `compact` only the device that is
off can be revoked. With `--keep-snapshots 1` and an expired lock the snapshot of
a compaction in flight can be pruned: the run keeps two. A revoked device's stream is
deleted above its floor as well, which `NothingLost` does not count; the comment at `cli/hub_compact.go:448`
speaks of covered streams, the code asks for a floor above zero. A chain-break row opened when
a pull raced the deletes stays open after the import. The clock in a snapshot is read
before its rows, so a local command in between breaks `ClockCoversRows`
(`BusyCompactor = TRUE`). A sweep lock whose `Put` succeeded but whose answer was lost is met by the retry as
somebody else's and blocks for its TTL (`hub/r2.go:1085`).

**Keys.** One `wck_rotation_pending` marker stands for all owed rotations, and `keys rotate` clears it whatever it was for:
two processes of one device can forget one (`cli/wck_rotation.go:58`). Rotations of two devices at once can
mint one epoch twice, and a grant of "all epochs" then has one key of it
(`workspacekeys/keyring.go:277`). An age-triggered rotation that dies leaves an epoch whose grants nobody
completes. `devices enroll --approve` keeps `revoked_at_hlc` of the earlier revocation. `hub compact` pushes without looking
whether a rotation is owed.

**Blobs.** A revocation with a hub publishes the superseding event after the old ciphertext may be gone, and for a while the hub has
neither a usable event nor a blob (`cli/blob_gc.go:343`). A crash between `UpdateBlobRef` and `QueuePendingHubDelete` forgets
the old ref (`cli/blob_gc.go:150`), and a direct delete that fails is never tried again. The cache
collector may remove a blob a capture has just written (`cli/blob_gc.go:375`), and then every later push fails. A later sync or a
repeated push puts a deleted ciphertext back. A blob that was missing when its event was pulled is not fetched by the
next sync, although `cli/env.go:358` says so. `hub gc` on a device with an unpushed superseding event deletes the
blob that the hub's latest event names. `env rotate` clears a flag set after its capture.

**Omission.** An anchor imported without a fold on a device that already holds a prefix, and a decline whose conflict
an operator resolves, both make an honest hub look withholding (`sync/head.go:194`). A stream withheld from its first event is never
examined (`state/device_heads.go:282`), nor is one whose ack the hub drops along with its
tail, nor one of a device with an open clock-skew quarantine.

**Checkouts.** `agent adopt` takes the lock and does not look again whether the worktree is there
(`cli/agent_adopt.go:202`), against its comment. `cleanup` tests the branch on record, so commits on a detached
HEAD go (`cli/worktree.go:1173`), and between its last look and `branch -D` a commit can be added. `worktree remove`
takes no lock. The sweep of stale runs can write `interrupted` over `complete`
(`cli/agent_sweep.go:14`); a runner that dies while its child lives is swept, and
then its checkout is. `agent run` leaves its row running when the secrets cannot be resolved. `Tx.UpsertProject` never
writes the materialization state that `cli/promote.go:519` says it resets, so a folder or draft promoted elsewhere is not cloned where
it was available. `materializeDraft` and `materializePlainFolder` take no lock (`cli/promote.go:222` says materialization does). Two interrupted
extractions of one draft bundle block a third. `promote --draft` takes no lock and writes the type it decided on
without reading the row again (`cli/promote.go:196`): if a pull has made the project a git repository meanwhile, this device records it as a
draft and announces that, although "demotion is not supported" (`cli/promote.go:70`).

**Locks and recovery.** The stale check and the removal of a lock file are separate calls, and an empty file compares
equal to another empty file: a contender can remove a live holder's lock
(`cli/repo_lock.go:181`). No mutual exclusion is claimed for `RepoLock`. When a rollback put a target back and the
record of it was lost, recovery misses the aside it has itself restored and refuses for good (`Torn`; against
`cli/restore_journal.go:34`). The write-ahead log of a crashed process is neither backed up nor removed by a restore.
A whole restore fits between the two looks of `openState` (`cli/root.go:226`). An archive truncated by a crash can stay at
the output path (`cli/db_backup.go:312`). The durability export refuses for good when a later
head has an earlier clock.

**Daemon.** `removeDaemonRecordIfOwn` reads and then removes: a replacement's record can go
(`cli/daemon.go:596`, "never deletes its replacement's"). An overwritten record counts as released while the old daemon
drains (`cli/daemon.go:644`). `daemon stop` says that every lock is released; a periodic cycle is not waited for
(`cli/daemon.go:295`). A cancelled arm whose timer has fired can announce
"watching" over the degradation of its successor. A client that disconnects cancels the cycle others joined. A cycle started by a hint
may be promoted to a full one.

## 4. Proofs

Every theorem holds for all values of the constants, under the assumptions named in the
modules. They say that sets are what their names say (and the devices of a fleet, the hosts of blobs and the processes of a device finite), that time starts above zero,
that "none" is not the name of a process, that the streams found on a carrier have no gaps, that no world mints more
than the bound of its run and, for the fold, that two different events differ in stamp, device or seq.

* **HLC** (`NamespaceProofs`, `ClockIInv`). `StreamOrder` alone is not inductive: nothing in it says that the
  clock is above what was minted. `ClockIInv` adds that the clock of a device is at or above
  every stamp it minted or applied, and that the counter is below its
  mask. From it: `TypeCorrect`, `StampsFollowSeq`, `StampsRespectCausality`, `ClockNotPoisoned`.
* **Fold** (`NamespaceProofs`, `IInv`). `IInv` says that a row is the maximum, in the same-path order, of the events
  accepted on its path, and that a tombstone is the maximum of the deletes. The
  step is a case analysis over `Decide`; convergence follows because a maximum
  does not depend on the order. From it: `RowsAreLatest`, `StrongEventualConsistency`, `DeletedStaysDeleted`.
* **Store** (`NamespaceProofs`, `StoreIInv`). A row of SQL columns and its satellite is tied to the log: an active row carries the coordinate
  of a logged add, a tombstone the stamp of a logged delete (`RowsKnown`); a coordinate names one event, and whoever minted it has it
  (`LogsSound`); a resolution that was read but not written holds a conflict that was there (`ChoicesKnown`). With `ConflictsRecoverable` and
  `OwnDisplacementFlagged` that is inductive. From it and the two above: `NamespaceSound` and `NothingDisplacedUnseen`.
  `StoreImplementsFold` maps each write of a command, of the apply loop or of the resolver to a delivery of the fold or to nothing. It has the two hypotheses
  under which the code does that: every project has a remote (`Kinds \subseteq Remotes`; a folder keeps the `git_repos` row of its predecessor),
  and no step lowers the stamp of a tombstone (`LowersTombstone`, see Store above); the run satisfies both by its bounds.
* **Pull** (`PullApplyProofs`). One lemma says what any step may do to the log and the cursors
  (`Moves`), over the types of streams, log and cursors (`Base`). From it:
  `CursorsNeverRewind` and the refinement `DeliveryIsCausal`.
  `NoStranding` relates the cursors to three tables, but what a cursor will be is decided in the memory of a command, long before it is
  written. `StrandInv` therefore says that every command's lists are honest: it pulled from cursors that were there,
  what it consumed is in the log or in a row (`Kept`), so is all below the cursors it is about to write, and its
  verdict on an event is still true when the second transaction runs (`HandHonest`). A row may go only once its event is in the log (`Stable`). One row does
  not obey: `ReplayUndecryptableConflicts` closes the row of a carrier it recovered even when the event was then flagged as a broken chain, the bug
  that `pull_two_epochs` shows. `OnlyLateChainsAreLost` says for all worlds that this is the only way to lose an event, and
  `NothingStranded` that `NoStranding` holds on a device that had every key of its streams from the start. That hypothesis is
  stronger than what the worlds of `pull` need, where keys do come late, but in streams whose late events are opened together.
  `FlagInv`: what is in the log passed the gates, so that the only process running never holds a "not yet" verdict on it; `PullSafe` shows
  `PullInv`, between two transactions as well.
* **Compaction** (`CompactionProofs`). That floors only go up is not visible in the compare-and-swap: it
  holds because the manifest a command read was checked against its own floors. `Checked` says so of every
  command between its snapshot and its write; with the types it is inductive, and
  `PutRetention`, the only step that writes the manifest, then gives `FloorsMonotonic`. The lock takes no part in the
  argument, so the theorem holds with locks broken under their holders.
  `CursorsHonest` and `NothingLost` need `Honest`: a compactor knows what is below the floors it computed (`Planned`), and a snapshot, named, about to be named or
  read by a recovery, has what is below its floors (`Whole`), since no number is used twice (`Numbered`). To it come for `NothingLost` that who
  deletes does so below floors in force (`InForce`) and that the snapshot named is there (`There`). Two steps break the argument and are named:
  `CarriesFloor`, which is `compact_carry`, and `PrunesNeeded`, a snapshot pruned under its manifest by a compactor whose lock was broken.
  `CursorsAccount` and `OnlyCarryOrPruneLoses` say that nothing else does. No device takes a floor over where everybody has seen
  the beginning of every stream (`Start[d] > 0`, as in the run; `Established`), and none prunes what is needed where compactors exclude each other
  (`SlowHolders = FALSE`; `Exclusive`): hence `EstablishedCursors` and `NothingIsLost`, for any `--keep-snapshots`. The run `compact` goes beyond
  in letting locks expire under their holders, with two snapshots kept.
* **Snapshots and rows** (`SnapshotMergeProofs`). A row is compared with what a set of events gives by their stamps (`RowAt`, no maximum and no
  order of arrival); an add, a delete, a batch and a snapshot laid over a row each keep that, so that import and replay meet (`RowsReplay`). A late delete
  that lowers a tombstone breaks it until a row is stamped above it, hence `ImportsAreReplays` for steps that do not, and `OneDeleteReplays` for one
  delete on the path, where no step can: what the run `merge` checks. `ClockStaysAhead` is `MergeInv`, with types and
  stamps from `Kept`; a command carries the clock it read before its rows, so that the theorem assumes, like the run, that the device is idle in between
  (`BusyCompactor = FALSE`). `UnpurgedDeletesStick` completes the finding `merge_gc`: where tombstones are not purged, a delete that a device has seen
  holds against every snapshot.
* **Keys** (`FleetProofs`). `KeysKept` relates what a cursor has passed to the keyring and the quarantine.
  `FleetInv(B)` types every variable with epochs up to `B`, and a step raises `B` by one: the type of a grant must not depend
  on how many rotations there were. To it come: a key of the first epoch was minted by a device that may found
  (one founder, one key: the joiners' gate); keys leave a keyring never, a row leaves the quarantine only into the
  keyring; and a batch that a sync has in hand holds the grants its cursor is about to pass, each of them ingested or in
  quarantine. From it: `FleetKeepsItsKeys` and, for the run's specification, `KeysAreKept`.
* **Blobs** (`FleetProofs`, `BlobsHeld`). The properties look at the hub; why they hold is spread over what each command carries while it works, and
  `BlobsHeld` has a part for each. A ref is named by one event, and one that is not named yet belongs to the capture or the rewrap that made it
  (`NamedOnce`, `Captured`, `Rewrapped`). A row has the coordinates of an event the device has, and each such event is a row or
  came before one (`RowsStand`). What a rewrap replaces was superseded before it is taken off the rows, and off the rows before it is queued (`Replaced`). What was
  encrypted is cached until its event is pushed (`Cached`); what is put is younger than any sweep until it is named (`PushedWhole`); what was
  published is there or has a successor (`PublishedKept`). `hub gc` has in its view all that was published, except what is too young for it
  (`ViewWhole`). A value that is flagged stays so through every write of the row (`Flagged`). The windows of `raced` appear where the
  code has them and nowhere else. From it: `BlobsStayAvailable`, `ExposureIsRemembered`, and `SharedBlobsAreKept` for the run's specification.
* **Snapshots** (`CheckoutProofs`, `WipInv`). A mirror is a row overwritten by events in arrival order, so that two of them agree
  is proved by saying what a row *is*: the last push and the last drop among the applied
  events (`Mirror`), which depends on how many of each stream were applied and on nothing
  else. `DropsProved` says that a drop which names a sha was signed after the ref lost it, and a
  sha never returns; `Holds` says what each command carries: the sha to apply was announced, the sha to delete was old by its own
  commit date, the orphans on a list were seen on origin. From them `SnapshotsAreHonest`.
* **Directories** (`HydrateInv`). Where each process is tells what it has seen, done and holds: who is between the
  check and the rename holds the lock, whose staging clone is there, which of `.git`, origin and the row a promotion
  has already written, so that what its rollback undoes is what it did. From it `StatesAreHonest`.
* **Worktrees** (`WtInv`). The same for the commands around one worktree: no run of `agent run` lives once `cleanup` removes, the commits it counted are
  upstream and stay there, and from the checkout to the row of the run that made it the lock is held. From it `CheckoutsAreTracked`, and with the two above `WorkIsKept`, whose five parts are action
  properties: each step that removes files, commits or refs is shown to be one of those that may.
* **Recovery** (`MaintenanceProofs`, `RestoreInv`). There are two directories, the one from before and the new one, such that every target is where it was,
  moved aside or promoted; what the journal says of a target and where the swap or the recovery stands decides which
  (`JournalOK`, `SwapOK`, `RecoveryOK`), and all is promoted before an aside goes. With `ExportInv` (what an exporter carries is on the replica once its upload is
  over, and the two heads of a swap were compared): `RecoveryIsSafe`.
* **Run loop** (`DaemonInv`, `CycleInv`, `WatchInv`). The cycle in flight has exactly one leader and runs while its leader runs it; one takeover at a time, a
  socket file belongs to a live daemon or a dead one, and who is about to remove it has seen that; the record names a daemon that wrote it; a count needs
  a phase that watches. From them `RunLoopIsSafe` and `PromisesAreKept`.

* **Carrier** (`HubsProofs`, `CarrierInv`). A refresh compares two commits, so the invariant speaks of the whole history: a commit goes on from
  each of its ancestors (no floor goes down, no manifest is older, what is missing is below a floor or revoked), and on an
  honest host the commits are one line (`LineOK`). `Staged` says what a write has made of the tree it is based on, call by call of `hub compact`, so that a
  push that lands, learnt of or not, is an append, a deletion below the floors, a successor of the manifest or a step of
  the lock. Deletions run under floors that the clone saw in force (`Confirmed`), and the tree it verified last can only have been
  replaced by one that goes on from it. From it `HubsKeepTheirWord`, `NoClonesRewind` and the refinement `CarrierIsAHub`.
  `EmptyTree` is a tree like the others, which is why a first push and a re-adoption need no case of their own.
* **Signed heads** (`OmInv`). Above its anchor a verifier's rows are one chain from the anchor's fold to the cursor (`RowsOK`), each promise is an ack
  its origin signed (`PromiseOK`), an origin that kept its log has signed, pushed and compacted beginnings of that log only (`FirstEra`), and on an honest
  hub a pull gets as far as the promise (`Through0`). From it `Vouched`, and `HeadsNeverAccuse`: a fold that can be compared is a fold of the same beginning.

What the theorems say of a module holds of the composed runs too, since a step of
the composition is a step of one part and a stutter of the others.

Proving changed the models in eleven places. `HiddenNotReaped` had been a state invariant that the bounds of
the run did not refute; it is an action property now. The loose commits of `CommitsKept`, once protected by the
worlds, are exempted by name. The names of jobs and commands exclude "none", which stands for
no holder. `Fleet` says that its devices are finitely many, which the order of grants needs, and `PullApply` that its processes
are, without which "one process runs" cannot be counted.
`Vouched` had claimed the rows below an imported anchor as well: for an origin restored beside a compaction that is false, which
no world of the run had tried, and one does now. The events found on a carrier at the start are beginnings of streams.
The store says what a pending or a resolved conflict may hold, and that both sides of a clash are adds, which is what a resolution needs of them; a batch of `SnapshotMerge` is applied stamp by stamp, as a function of what it holds
(the order within a stamp does not matter, and a sort that leaves it open cannot be reasoned about); and the hosts of `Blobs` are finitely many, without
which there is no next stamp.

Only model-checked, and why:
* all liveness, which is out of reach of the prover;
* `RevokedLockedOut`: with four devices and mutual revocations we expect it to fail, since the rotation a revoker owes is granted by its own table, and a
  proof would need the bound of three;
* `NothingLost` where the lock of a slow compaction is broken, for the bounds of the run: with more compactions the snapshot in force may be pruned (section 3);
* `NoStranding` where keys come late: false in general (`pull_two_epochs`), so that only what is said above of it is a theorem;
* `ImplementsFold` for projects without a remote, `MergeInv` while another process works on the compacting device, and `ImportIsReplay` where late deletes lower
  a tombstone: false in the code as it is (section 3), and the theorems name the hypothesis.

## 5. Plan

**Still to model**: the conflict ledger (`conflict.resolved` before the event that opens the row), trust rows and env and draft
pointers in snapshots, the R2 and folder back ends against `HubStore`, the journal's look in `openState`,
several processes of one device in `Fleet`.

## 6. Not modelled

Cryptography, key storage and byte formats are represented by what callers
rely on (a signature verifies or not, a carrier opens or not, a hash does not collide). Git itself, the R2 wire
protocol and the file system are external; of the hub back ends the git carrier is modelled, and R2 only as the object store
under `Blobs` and `Compaction`. The HTTP surface of the daemon and its event stream, command-line parsing, `doctor`, service
installation and text output keep no state that another part reads. Display
names, policies and local paths do not take part in convergence;
`project.renamed` is only received in this version. Verification of signatures from before a revocation by its time stamp, and
`devices lost` as distinct from `devices revoke`, are left out of `Fleet`; the two states are treated alike wherever trust is read. Size limits and
batching of a push, the secrets and environment of an agent run, sparse checkouts, and the lock of another host on a shared file system are left out.

## 7. Further hazards

| Line | What can go wrong | Properties |
|---|---|---|
| `state/store.go:3339` | The 16-bit logical part is at its mask: the next stamp must carry into the physical part, or it wraps below the last one. | `NamespaceInv` |
| `sync/decide.go:218` | An add and a delete carry the same HLC: both sides must break the tie the same way. | `Convergence`, `NamespaceInv` |
| `state/store.go:1222` | A path changes type from git repository to folder and keeps the satellite row of the old type. | none |
| `cli/conflicts.go:101` | The resolver dies between writing the winner and closing the conflict; running it again must still find both variants. | `ConflictsKept` |
| `sync/events.go:931` | conflict.resolved arrives before the event that opens the conflict here, closes nothing, and the conflict stays open on this device. | none |
| `state/store.go:3459` | A quarantined event leaves a hole, and its successors arrive before it is recovered. | `ImplementsDelivery`, `NoStranding`, `EverythingDelivered` |
| `sync/encryptedhub.go:258` | The keyring was primed before another process ingested the grant. | `EverythingDelivered` |
| `sync/events.go:1011` | An env or draft pointer arrives before the project it points at, from another origin whose events are quarantined. | `EverythingDelivered`, `ImplementsDelivery` |
| `sync/events.go:614` | An event ahead of local time holds its origin; it must be delivered again once time has caught up, and its row must close. | `EverythingDelivered`, `PullInv` |
| `sync/events.go:691` | A consumed quarantine is a permanent hole in the chain: the origin's later events can never apply. | none |
| `sync/events.go:858` | insertEventConflictOnce lists the open rows and inserts in two calls; two processes insert two rows for one event. | none |
| `cli/repo_lock.go:198` | The lock file changes hands between the second read and the remove. | none |
| `cli/repo_lock.go:123` | The holder dies between creating the file and writing its identity into it. | `EventuallyRuns` |
| `cli/repo_lock.go:146` | unlock removes the path without looking, so a holder whose file was replaced removes somebody else's lock. | none |
| `cli/hub_compact.go:339` | The compactor dies after the manifest is committed and before its own cursors moved: it is below its own floor, and recovery refuses a snapshot it produced itself. | none |
| `sync/hub.go:663` | Floors are exclusive, cursors inclusive: off by one loses the event at the floor or skips it on import. | `NothingLost`, `CursorInv` |
| `cli/snapshot_recovery.go:113` | The floor moves, or the snapshot object is pruned, between reading the manifest and fetching the object. | `CursorInv`, `StragglersCatchUp` |
| `state/snapshot_reads.go:287` | A device that only ever imported compacts in turn: it has no event below the floor to anchor the chain on. | `StragglersCatchUp` |
| `cli/hub_sweeplock.go:137` | A slow sweep outlives the TTL of its lock, a second one breaks it, and the first one goes on. | `NothingLost`, `FloorsForward` |
| `cli/hub_compact.go:181` | The clock for the snapshot is read before the rows: a local command in between puts rows into the snapshot that its HLC does not cover. | none |
| `sync/events.go:1150` | A peer learns of a revocation after it has rotated on its own, or never sees the revoker's rotation: its newer epoch was granted to the revoked device. | `RevokedLockedOut`, `EventuallyLockedOut` |
| `cli/devices.go:365` | The process dies between the transaction that revokes and the rotation, the rewrap or the clearing of the marker. | `EventuallyLockedOut`, `RevokedLockedOut` |
| `cli/sync.go:628` | A rotation is owed, keeps failing, and is retried by every sync until it succeeds, while other devices rotate and revoke as well. | `EventuallyLockedOut` |
| `cli/wck_rotation.go:58` | One marker stands for every owed rotation: clearing it after a rotation whose recipients were read before the next revocation arrived forgets that one. | none |
| `hub/gitcarrier.go:690` | A push lands and its answer is lost: the same write is applied again on top of itself. | `ImplementsHub`, `HubsSafe` |
| `hub/r2.go:1085` | The create of the sweep lock lands, its answer is lost, and the retry takes its own lock for somebody else's: the command fails and the lock stays for an hour. | `HubsSafe` |
| `hub/gitcarrier.go:989` | The compactor dies after its force-push and before head.json is written, and must recognise its own squash. | `HubsSafe` |
| `cli/hub_compact.go:280` | ProducedAt is the compactor's clock, read without moving it: a second compaction of a quiet workspace carries the same stamp, and clones that saw the first squash refuse the second. | `HubsSafe` |
| `cli/hub_compact.go:464` | The stream of a revoked device is dropped although events at or above its floor are in it: clones that saw them refuse the next squash. | `HubsSafe` |
| `sync/head.go:218` | A peer pushes between the origin's push and its ack, again and again: falling short of a growing stream must not look like a hub that withholds. | `NeverAccused` |
| `sync/head.go:175` | The tail arrives after the alarm: if nothing resolves the row, hub gc refuses for ever. | `WithholdingFound` |
| `cli/sync.go:965` | A push fails half-way; a head signed for what was minted would accuse the hub of losing what it never got. | `NeverAccused` |
| `sync/head.go:194` | The gap is one this device declined itself; once an operator resolves the row that says so, the same gap counts as withheld. | none |
| `state/device_heads.go:282` | A stream withheld from its very first event leaves no seed to fold from, so no promise about it is ever examined. | none |
| `cli/blob_gc.go:150` | The process dies between the rewrapped row and the queue of deletes: which ciphertext is still to be deleted is then nowhere. | `ExposureRemembered` |
| `cli/hub.go:1121` | hub gc lists, marks and looks again at the age of a blob; between the last look and the delete the blob is put again. | `BlobsAvailable` |
| `cli/blob_gc.go:375` | The cache collector counts references while a capture has written its blob and not its row yet. | `BlobsAvailable` |
| `state/store.go:1939` | A superseding event from elsewhere, or the own rewrap, replaces a binding that was flagged for rotation, and the flag goes with it. | `ExposureRemembered` |
| `state/device_wip.go:66` | A push and a drop of one owner's snapshot arrive in different orders on different devices. | `SnapshotsHonest` |
| `cli/wip_gc.go:141` | A row whose drop proved no sha hides a newer push from the listing; an orphan sweep would reap it. | `WorkKept` |
| `cli/promote.go:501` | A promotion fails after init or after the remote was added, and what is left refuses the next attempt. | `StatesHonest` |
| `cli/promote.go:196` | `promote --draft` reads a folder, a pull makes it a git repository, and the promotion then writes a draft over it. | none |
| `cli/staging_sweeper.go:50` | The sweep sees the staging directory of a clone that is running. | `StatesHonest` |
| `cli/materialize.go:188` | A process dies holding the project's lock, or a clone fails: the next tick must still get the repository there. | `EventuallyMaterialized` |
| `cli/agent_adopt.go:212` | agent adopt takes the lock but does not look again whether the worktree is still there: cleanup in between leaves a running run without a checkout. | none |
| `cli/worktree.go:1173` | A worktree is judged by its recorded branch; its HEAD may be detached with commits on no branch. | `WorkKept` |
| `cli/worktree.go:1215` | An edit is made between the last check for a dirty tree and the removal. | `WorkKept` |
| `cli/worktree.go:1334` | agent run or worktree new fails between git's worktree and the row that names it. | `CheckoutsTracked` |
| `cli/agent_sweep.go:14` | The sweep reads running rows, the run finishes, and the sweep then writes interrupted over complete. | none |
| `cli/restore_journal.go:271` | A rollback reverses a target and dies before the journal says so: the next recovery finds the aside missing and refuses. | `EventuallyRecovered` |
| `cli/db_backup.go:189` | A capture or a cache collection runs between the snapshot of the database and the copy of the blobs it names. | `RecoverySafe` |
| `cli/durability_export.go:64` | An export fails or is overtaken and the interval says it is not due: the replica stays behind. | `EventuallyRuns` |
| `daemon/converge.go:155` | A cycle ends in an error and its leader returns before closing it: the callers that joined wait for ever. | `RunLoopSafe` |
| `daemon/converge.go:109` | A caller wakes after further cycles have run and reads the scheduler's last result instead of its own. | `RunLoopSafe` |
| `daemon/server.go:255` | A full sync is asked for while a namespace-only cycle runs; it must be owed, not dropped. | `PromisesKept` |
| `cli/daemon.go:598` | A daemon that drains reads its record, its replacement writes its own, and the first one deletes that. | `RunLoopSafe` |
| `cli/daemon.go:292` | daemon stop takes the socket's disappearance for the end of the drain. | `PromisesKept` |
| `daemon/watch.go:188` | A degraded plane re-arms, fails and re-arms: the retries must leave an arm the time to become ready. | `EventuallyRuns` |
| `cli/root.go:226` | A whole restore runs between the two looks for its journal, and a command opens the database in the middle of it. | none |
