---------------------------- MODULE MCCheckouts ----------------------------
(***************************************************************************)
(* The three parts of a device's handling of its checkouts (WIP refs,      *)
(* hydration, worktrees and agents) share no state but the repository lock,*)
(* which each has as a holder.  A run explores one part at a time, each    *)
(* from the worlds below.                                                  *)
(***************************************************************************)
EXTENDS WipRefs, Hydration, Worktrees, TLC

VARIABLE part
checkoutvars == <<wipvars, hydrvars, wtvars, part>>

SkewAB == "a" :> 0 @@ "b" :> 1

Wip(p, d, s, a, m, w, r, q) ==
    [pushes |-> p, drops |-> d, sweeps |-> s, applies |-> a, mishaps |-> m, owners |-> {"a"}, sweepers |-> w, revoked |-> r, approvals |-> q]
IdleWip == Wip(0, 0, 0, 0, 0, {}, {}, 0)
WipWorlds == {IdleWip,
    Wip(2, 2, 2, 0, 0, {"a"}, {}, 0),      \* pushes against drops and the owner's sweeps
    Wip(2, 0, 2, 0, 1, {"b"}, {"a"}, 1),   \* a sweep of a revoked, re-approved owner
    Wip(2, 1, 0, 1, 0, {}, {}, 0),         \* an apply of what is replaced or dropped
    Wip(2, 0, 1, 0, 0, {"a", "b"}, {}, 0), \* two sweepers
    Wip(1, 2, 0, 0, 1, {}, {}, 0)}         \* a drop that fails half way

Hyd(t, s, d, c, n, m, k, w, e) ==
    [type |-> t, state |-> s, dir |-> d, cmds |-> c, starts |-> n, mishaps |-> m, deadly |-> k, writes |-> w, elsewhere |-> e]
IdleHydration == Hyd("plain_folder", "", "absent", {}, 0, 0, FALSE, 0, {})
HydrateWorlds == {IdleHydration,
    Hyd("git_repo", "skeleton", "skeleton", {"hydrate", "materialize", "sweep"}, 2, 2, TRUE, 1, {"delete"}),
    Hyd("plain_folder", "", "content", {"promote", "promote draft", "draft"}, 4, 2, FALSE, 1, {}),
    Hyd("plain_folder", "", "empty", {"promote draft", "materialize"}, 2, 1, FALSE, 0, {"promote"}),
    Hyd("local_git", "", "content", {"promote", "draft"}, 3, 2, FALSE, 1, {}),
    Hyd("draft_project", "skeleton", "absent", {"draft", "promote", "hydrate", "materialize"}, 3, 2, TRUE, 1, {"promote"})}

Trees(s, c, f, n, m, k) == [start |-> s, cmds |-> c, force |-> f, calls |-> n, mishaps |-> m, deadly |-> k]
IdleTrees == Trees("none", {}, FALSE, 0, 0, FALSE)
TreeWorlds == {IdleTrees,
    Trees("none", {"run", "new", "cleanup", "pr"}, FALSE, 3, 1, FALSE),
    Trees("none", {"run", "cleanup", "sweep"}, FALSE, 3, 1, TRUE),
    Trees("created", {"cleanup", "remove"}, TRUE, 3, 1, TRUE),
    Trees("detached", {"adopt", "cleanup"}, FALSE, 2, 0, FALSE),
    Trees("attached", {"adopt", "agent adopt", "remove", "pr"}, FALSE, 4, 0, FALSE),
    Trees("created", {"cleanup", "detach"}, FALSE, 1, 1, FALSE),
    Trees("created", {"agent adopt", "finish", "sweep", "cleanup"}, FALSE, 3, 0, FALSE)}

CheckoutsInit ==
    /\ WipInit /\ HydrateInit /\ TreesInit
    /\ \/ part = "wip" /\ room = IdleHydration /\ quota = IdleTrees
       \/ part = "hydration" /\ allow = IdleWip /\ quota = IdleTrees
       \/ part = "trees" /\ allow = IdleWip /\ room = IdleHydration

CheckoutsNext ==
    /\ UNCHANGED part
    /\ \/ part = "wip" /\ WipNext /\ UNCHANGED <<hydrvars, wtvars>>
       \/ part = "hydration" /\ HydrateNext /\ UNCHANGED <<wipvars, wtvars>>
       \/ part = "trees" /\ TreesNext /\ UNCHANGED <<wipvars, hydrvars>>

CheckoutsSpec == CheckoutsInit /\ [][CheckoutsNext]_checkoutvars /\ HydrateFairness

\* No command takes what a user wrote and did not tell it to take: files in a
\* project directory, commits and edits in a worktree, snapshots on origin.
WorkKept == UserFilesKept /\ CommitsKept /\ EditsKept /\ OnlyAgedSnapshotsReaped /\ HiddenNotReaped
=============================================================================
