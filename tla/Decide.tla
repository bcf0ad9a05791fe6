------------------------------- MODULE Decide -------------------------------
(***************************************************************************)
(* The pure convergence core of internal/sync/decide.go: how one project   *)
(* event (project.added / project.updated / project.deleted) is reconciled *)
(* against the namespace row at its path, and the in-memory Apply.         *)
(*                                                                         *)
(* A coordinate is <<hlc, device, event id>>, each a number: only the      *)
(* order of the three matters.  The dirty flag of the local checkout is an *)
(* argument, because the working tree changes it at any time.              *)
(***************************************************************************)
EXTENDS Naturals

CONSTANTS Paths, Remotes, NoRemote

ASSUME DecideAssumption == NoRemote \notin Remotes

Coord == Nat \X Nat \X Nat

\* project.added and project.updated are handled alike: both are "upsert".
\* A git_repo carries a remote key, a draft_project or plain_folder none.
UpsertEvent ==
    [op : {"upsert"}, at : Coord, path : Paths, remote : Remotes \cup {NoRemote}]

DeleteEvent ==
    [op : {"delete"}, at : Coord, path : Paths, remote : {NoRemote}]

ProjectEvent == UpsertEvent \cup DeleteEvent

HLC(e) == e.at[1]

Row ==
    [status : {"absent", "active", "deleted"}, tombstone : Nat, src : Coord,
     remote : Remotes \cup {NoRemote}]

NoCoord == <<0, 0, 0>>

AbsentRow == [status |-> "absent", tombstone |-> 0, src |-> NoCoord, remote |-> NoRemote]

\* upsertParamsForEvent, as the row it installs.
ActiveRow(e) == [status |-> "active", tombstone |-> 0, src |-> e.at, remote |-> e.remote]

\* A deleted row is canonical: only its tombstone HLC means anything.
DeletedRow(hlc) ==
    [status |-> "deleted", tombstone |-> hlc, src |-> NoCoord, remote |-> NoRemote]

\* samePathLess: lexicographic on (HLC, device, event id).
SamePathLess(a, b) ==
    \/ a[1] < b[1]
    \/ a[1] = b[1] /\ a[2] < b[2]
    \/ a[1] = b[1] /\ a[2] = b[2] /\ a[3] < b[3]

-----------------------------------------------------------------------------
(* A decision is the mutation of the row and the conflict to record.       *)

Decision(mutation, conflict) == [mutation |-> mutation, conflict |-> conflict]

\* Mutation of CompetingRemotes: two adds of the same remote clash.
CompetingRemotesAnyTwo(row, e) ==
    row.status = "active" /\ row.remote # NoRemote /\ e.remote # NoRemote

\* Both sides name a remote and the remotes differ.
CompetingRemotes(row, e) ==
    /\ row.status = "active"
    /\ row.remote # NoRemote /\ e.remote # NoRemote
    /\ row.remote # e.remote

\* Mutation of DecideUpsert: no tombstone gate.
DecideUpsertNoGate(row, e) ==
    Decision(IF row.status = "active" /\ ~SamePathLess(row.src, e.at) THEN "none" ELSE "upsert",
             IF CompetingRemotes(row, e) THEN "same_path_different_remote" ELSE "none")

\* decideUpsert: an add at or below the tombstone is stale; otherwise the
\* highest coordinate owns the path, and two different remotes also leave a
\* conflict, whichever of them wins.
DecideUpsert(row, e) ==
    IF row.status = "deleted" /\ HLC(e) <= row.tombstone
    THEN Decision("none", "none")
    ELSE Decision(IF row.status = "active" /\ ~SamePathLess(row.src, e.at)
                  THEN "none" ELSE "upsert",
                  IF CompetingRemotes(row, e) THEN "same_path_different_remote" ELSE "none")

\* Mutation of DecideDelete: an equal-HLC add survives the delete.
DecideDeleteTieKeepsAdd(row, e, dirty) ==
    IF row.status = "active" /\ row.src[1] >= HLC(e)
    THEN Decision("none", "none")
    ELSE IF row.status = "active" /\ dirty
    THEN Decision("none", "pending_delete")
    ELSE Decision("tombstone", "none")

\* decideDelete: a strictly newer add keeps the path; a dirty checkout holds
\* the delete back as a conflict; otherwise the path is tombstoned.
DecideDelete(row, e, dirty) ==
    IF row.status = "active" /\ row.src[1] > HLC(e)
    THEN Decision("none", "none")
    ELSE IF row.status = "active" /\ dirty
    THEN Decision("none", "pending_delete")
    ELSE Decision("tombstone", "none")

Decide(row, e, dirty) ==
    IF e.op = "upsert" THEN DecideUpsert(row, e) ELSE DecideDelete(row, e, dirty)

\* Projection.Apply on the row of e's path; a tombstone HLC never decreases.
ApplyMutation(row, e, mutation) ==
    IF mutation = "upsert" THEN ActiveRow(e)
    ELSE IF mutation = "tombstone"
    THEN DeletedRow(IF row.status = "deleted" /\ row.tombstone > HLC(e)
                    THEN row.tombstone ELSE HLC(e))
    ELSE row
=============================================================================
