--------------------------- MODULE NamespaceStore ---------------------------
(***************************************************************************)
(* The namespace map as the store keeps it: namespace_entries and git_repos *)
(* rows (internal/state/store.go), written by local commands without asking *)
(* Decide (addProject, adoptFindings, recordPromotion, the conflict        *)
(* resolver) and by the apply loop after asking it (applyEventTx).         *)
(*                                                                         *)
(* A device stamps its events above everything in its log (HLC!Causality), *)
(* otherwise freely: wall clocks differ.  project.renamed is not modelled  *)
(* here; no command of this version emits it.                              *)
(***************************************************************************)
EXTENDS Decide, FiniteSets

CONSTANTS
    Hosts,       \* device ids: numbers, because their order breaks ties
    Kinds,          \* what local commands add: subset of Remotes \cup {NoRemote}
    Sibling,        \* siblingResolvedPath, as a function on Paths
    MaxHLC,         \* bound: stamps are 1..MaxHLC
    MaxMinted,      \* bound: project events minted
    MaxRemovals     \* bound: RemoveProject steps

ASSUME StoreAssumption ==
    /\ Hosts \subseteq Nat /\ Kinds \subseteq Remotes \cup {NoRemote}
    /\ Sibling \in [Paths -> Paths] /\ MaxHLC \in Nat

VARIABLES
    log,            \* log[r]: the project events in r's events table
    ns,             \* ns[r][p]: the namespace_entries row
    git,            \* git[r][p]: git_repos.remote_key of the row, or NoRemote
    held,           \* held[r]: deletes recorded as pending_delete conflicts
    conflicts,      \* conflicts[r]: conflicts ever recorded, keyed by details
    resolved,       \* resolved[r]: those whose status is "resolved"
    choice          \* choice[r]: a resolution read from the store, not yet written

storevars == <<log, ns, git, held, conflicts, resolved, choice>>

MintedProjects == UNION {log[r] : r \in Hosts}

NullRow == [status |-> "absent", tombstone |-> 0, src |-> NoCoord]

Conflict ==
    [type : {"same_path_different_remote", "pending_delete"}, path : Paths,
     winner : Coord, loser : Coord]

NoChoice == [act |-> "none"]

StoreInit ==
    /\ log = [r \in Hosts |-> {}]
    /\ ns = [r \in Hosts |-> [p \in Paths |-> NullRow]]
    /\ git = [r \in Hosts |-> [p \in Paths |-> NoRemote]]
    /\ held = [r \in Hosts |-> {}]
    /\ conflicts = [r \in Hosts |-> {}]
    /\ resolved = [r \in Hosts |-> {}]
    /\ choice = [r \in Hosts |-> NoChoice]

-----------------------------------------------------------------------------
(* Persistence.  NULL is 0 for a tombstone and NoCoord for coordinates.    *)

\* upsertNamespaceTx: activate, clear the tombstone, COALESCE the coordinates.
UpsertNamespace(row, src) ==
    [status |-> "active", tombstone |-> 0, src |-> IF src = NoCoord THEN row.src ELSE src]

\* Mutation of UpsertGitRepo: a losing remote's row left in place.
UpsertGitRepoKeepsFirst(old, remote) == IF old = NoRemote THEN remote ELSE old

\* UpsertProject's git_repos half: written for git projects only, so adding a
\* folder over a git project leaves the old remote behind.
UpsertGitRepo(old, remote) == IF remote = NoRemote THEN old ELSE remote

\* tombstonePath: an upsert without coordinates, then status and tombstone.
TombstonePath(row, hlc) ==
    LET placed == UpsertNamespace(row, NoCoord)
    IN  [placed EXCEPT !.status = "deleted",
                       !.tombstone = IF @ = 0 \/ @ < hlc THEN hlc ELSE @]

\* loadNamespaceProjection / projectByPath: the row Decide sees.
LoadRow(row, remote) ==
    IF row.status = "active"
    THEN [status |-> "active", tombstone |-> 0, src |-> row.src, remote |-> remote]
    ELSE IF row.status = "deleted" THEN DeletedRow(row.tombstone)
    ELSE AbsentRow

Projection(r) == [p \in Paths |-> LoadRow(ns[r][p], git[r][p])]

\* applyDecisionTx's mutation, on both tables.
Persist(r, e, mutation) ==
    /\ ns' = [ns EXCEPT ![r][e.path] =
                IF mutation = "upsert" THEN UpsertNamespace(@, e.at)
                ELSE IF mutation = "tombstone" THEN TombstonePath(@, HLC(e))
                ELSE @]
    /\ git' = IF mutation = "upsert"
              THEN [git EXCEPT ![r][e.path] = UpsertGitRepo(@, e.remote)] ELSE git

-----------------------------------------------------------------------------
(* Local commands: mint, insert and write, in one transaction.             *)

\* nextLocalEventStamp: above everything r has seen.
FreshStamps(r) == {h \in 1..MaxHLC : \A e \in log[r] : HLC(e) < h}

Event(op, r, h, p, remote) == [op |-> op, at |-> <<h, r, 1>>, path |-> p, remote |-> remote]

\* addProject, adoptFindings, recordPromotion, import (on a free path) and
\* upsertResolvedProject: the upsert is unconditional.
EmitUpsert(r, h, p, remote) ==
    /\ Cardinality(MintedProjects) < MaxMinted
    /\ LET e == Event("upsert", r, h, p, remote)
       IN  log' = [log EXCEPT ![r] = @ \cup {e}] /\ Persist(r, e, "upsert")

\* deleteResolvedProject: a fresh delete, tombstoned unconditionally.
EmitDelete(r, h, p) ==
    /\ Cardinality(MintedProjects) < MaxMinted
    /\ LET e == Event("delete", r, h, p, NoRemote)
       IN  log' = [log EXCEPT ![r] = @ \cup {e}] /\ Persist(r, e, "tombstone")

AddProject(r, p, remote) ==
    /\ \E h \in FreshStamps(r) : EmitUpsert(r, h, p, remote)
    /\ UNCHANGED <<held, conflicts, resolved, choice>>

\* A delete of an active project by its device.  In this version the conflict
\* resolver is the only command that emits one; the first delete comes from
\* elsewhere in the fleet.
RemoveProject(r, p) ==
    /\ ns[r][p].status = "active"
    /\ Cardinality({e \in MintedProjects : e.op = "delete"}) < MaxRemovals
    /\ \E h \in FreshStamps(r) : EmitDelete(r, h, p)
    /\ UNCHANGED <<held, conflicts, resolved, choice>>

-----------------------------------------------------------------------------
(* The apply loop.                                                         *)

\* reconcileSamePath's details: the winner and the loser of the clash.
ClashDetails(row, e) ==
    LET incomingWins == SamePathLess(row.src, e.at)
    IN  [type |-> "same_path_different_remote", path |-> e.path,
         winner |-> IF incomingWins THEN e.at ELSE row.src,
         loser |-> IF incomingWins THEN row.src ELSE e.at]

PendingDetails(e) ==
    [type |-> "pending_delete", path |-> e.path, winner |-> e.at, loser |-> NoCoord]

\* The hash chain: a device's events are applied in the order it minted them.
ChainReady(r, e) ==
    \A f \in MintedProjects : f.at[2] = e.at[2] /\ HLC(f) < HLC(e) => f \in log[r]

\* applyEventTx on a project event that is new to r: load, decide, persist the
\* mutation, record the conflict.  dirty is the local checkout's state.
ApplyEvent(r, e, dirty) ==
    /\ e \notin log[r] /\ ChainReady(r, e)
    /\ LET row == LoadRow(ns[r][e.path], git[r][e.path])
           d == Decide(row, e, dirty)
       IN  /\ Persist(r, e, d.mutation)
           /\ conflicts' =
                [conflicts EXCEPT ![r] = @ \cup
                    CASE d.conflict = "same_path_different_remote" -> {ClashDetails(row, e)}
                      [] d.conflict = "pending_delete" -> {PendingDetails(e)}
                      [] OTHER -> {}]
           /\ held' = IF d.conflict = "pending_delete"
                      THEN [held EXCEPT ![r] = @ \cup {e}] ELSE held
    /\ log' = [log EXCEPT ![r] = @ \cup {e}]
    /\ UNCHANGED <<resolved, choice>>

-----------------------------------------------------------------------------
(* conflicts resolve: read the variant to keep, write it with a fresh       *)
(* event, then close the row and tell the peers.  Three transactions: the  *)
(* store may change between them, and a crash may stop after any.          *)

EventAt(r, coord) == CHOOSE e \in log[r] : e.at = coord

\* otherVariantPayload: the variant that is not the current remote.
OtherVariant(r, c) ==
    IF git[r][c.path] = EventAt(r, c.loser).remote
    THEN EventAt(r, c.winner).remote ELSE EventAt(r, c.loser).remote

\* Enacting on a same-path conflict: the reads.
ReadSamePath(r, c, keep) ==
    /\ c.type = "same_path_different_remote"
    /\ choice' = [choice EXCEPT ![r] =
         [act |-> IF ns[r][c.path].status = "active" THEN "upsert" ELSE "close",
          path |-> IF keep = "both" THEN Sibling[c.path] ELSE c.path,
          remote |-> IF keep = "local" THEN git[r][c.path] ELSE OtherVariant(r, c),
          conflict |-> c]]

\* Enacting on a pending delete: keep-local re-asserts the row, keep-remote
\* deletes afresh.
ReadPendingDelete(r, c, keep) ==
    /\ c.type = "pending_delete" /\ keep # "both"
    /\ choice' = [choice EXCEPT ![r] =
         [act |-> IF keep = "remote" THEN "delete"
                  ELSE IF ns[r][c.path].status = "active" THEN "upsert" ELSE "close",
          path |-> c.path, remote |-> git[r][c.path], conflict |-> c]]

ReadResolution(r, c, keep) ==
    /\ choice[r] = NoChoice /\ c \in conflicts[r] \ resolved[r]
    /\ ReadSamePath(r, c, keep) \/ ReadPendingDelete(r, c, keep)
    /\ UNCHANGED <<log, ns, git, held, conflicts, resolved>>

\* upsertResolvedProject / deleteResolvedProject with what was read.
EnactResolution(r) ==
    /\ choice[r] # NoChoice
    /\ \/ choice[r].act = "upsert"
          /\ \E h \in FreshStamps(r) : EmitUpsert(r, h, choice[r].path, choice[r].remote)
       \/ choice[r].act = "delete"
          /\ \E h \in FreshStamps(r) : EmitDelete(r, h, choice[r].path)
    /\ choice' = [choice EXCEPT ![r].act = "close"]
    /\ UNCHANGED <<held, conflicts, resolved>>

\* Close the row and emit conflict.resolved, in one transaction.
CloseConflict(r) ==
    /\ choice[r] # NoChoice /\ choice[r].act = "close"
    /\ resolved' = [resolved EXCEPT ![r] = @ \cup {choice[r].conflict}]
    /\ choice' = [choice EXCEPT ![r] = NoChoice]
    /\ UNCHANGED <<log, ns, git, held, conflicts>>

\* The command dies between its transactions; the conflict stays open.
AbandonResolution(r) ==
    /\ choice[r] # NoChoice
    /\ choice' = [choice EXCEPT ![r] = NoChoice]
    /\ UNCHANGED <<log, ns, git, held, conflicts, resolved>>

\* conflict.resolved applied on a peer: ResolveConflictByFingerprint closes a
\* matching open row, and does nothing when there is none.
ApplyConflictResolved(r, s, c) ==
    /\ c \in resolved[s] /\ c \in conflicts[r] \ resolved[r]
    /\ resolved' = [resolved EXCEPT ![r] = @ \cup {c}]
    /\ UNCHANGED <<log, ns, git, held, conflicts, choice>>

StoreNext ==
    \E r \in Hosts :
        \/ \E p \in Paths, remote \in Kinds : AddProject(r, p, remote)
        \/ \E p \in Paths : RemoveProject(r, p)
        \/ \E e \in MintedProjects, dirty \in BOOLEAN : ApplyEvent(r, e, dirty)
        \/ \E c \in conflicts[r], keep \in {"local", "remote", "both"} :
              ReadResolution(r, c, keep)
        \/ EnactResolution(r)
        \/ CloseConflict(r)
        \/ AbandonResolution(r)
        \/ \E s \in Hosts, c \in conflicts[r] : ApplyConflictResolved(r, s, c)

StoreSpec == StoreInit /\ [][StoreNext]_storevars

-----------------------------------------------------------------------------
StoreTypeOK ==
    /\ log \in [Hosts -> SUBSET ProjectEvent]
    /\ ns \in [Hosts -> [Paths -> [status : {"absent", "active", "deleted"},
                                      tombstone : Nat, src : Coord]]]
    /\ git \in [Hosts -> [Paths -> Remotes \cup {NoRemote}]]
    /\ held \in [Hosts -> SUBSET ProjectEvent] /\ \A r \in Hosts : held[r] \subseteq log[r]
    /\ conflicts \in [Hosts -> SUBSET Conflict]
    /\ resolved \in [Hosts -> SUBSET Conflict] /\ \A r \in Hosts : resolved[r] \subseteq conflicts[r]

\* The events the resolver or a peer could recover are really in the log: a
\* clash always names two adds this device holds, with different
\* remotes (otherVariantPayload would otherwise fail or re-assert the same one).
ConflictsRecoverable ==
    \A r \in Hosts : \A c \in conflicts[r] :
        c.type = "same_path_different_remote" =>
            \E e, f \in log[r] : /\ e.op = "upsert" /\ e.at = c.winner /\ e.path = c.path
                                 /\ f.op = "upsert" /\ f.at = c.loser /\ f.path = c.path
                                 /\ e.remote # f.remote

\* A device whose own latest claim to a path lost to another remote has a
\* conflict that says so: nobody's project is replaced silently.  (Where no
\* delete and no folder claim was applied to the path.)
OwnDisplacementFlagged ==
    \A r \in Hosts, p \in Paths :
        LET onPath == {e \in log[r] : e.path = p}
        IN  (\A e \in onPath : e.op = "upsert" /\ e.remote # NoRemote) =>
              \A e \in onPath :
                 /\ e.at[2] = r
                 /\ \A f \in onPath : f.at[2] = r => HLC(f) <= HLC(e)
                 /\ git[r][p] # e.remote
                 => \E c \in conflicts[r] :
                       /\ c.type = "same_path_different_remote" /\ c.path = p
                       /\ EventAt(r, c.loser).remote = e.remote

\* The project events the hosts may mint.
Mintable ==
    [op : {"upsert"}, at : (1..MaxHLC) \X Hosts \X {1}, path : Paths, remote : Remotes \cup {NoRemote}]
      \cup [op : {"delete"}, at : (1..MaxHLC) \X Hosts \X {1}, path : Paths, remote : {NoRemote}]

\* The store implements the pure fold: loading the rows back gives the
\* projection that Decide and Apply compute, for local commands too, although
\* those write without asking Decide.
Fold == INSTANCE ProjectionFold WITH
            Replicas <- Hosts, MaxEvents <- MaxMinted,
            Universe <- Mintable,
            delivered <- log,
            declined <- held,
            proj <- [r \in Hosts |-> Projection(r)]

ImplementsFold == Fold!Spec
=============================================================================
