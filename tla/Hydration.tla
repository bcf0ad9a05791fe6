----------------------------- MODULE Hydration -----------------------------
(***************************************************************************)
(* One project's directory on one device: cloning it into place (hydrate,  *)
(* materialize), extracting a draft bundle, promoting a folder to a git    *)
(* repository, sweeping the staging directories killed clones leave, and   *)
(* the user, who writes files there at any moment.                         *)
(*                                                                         *)
(* Operations of several processes interleave at their file system, git    *)
(* and database calls.  The repository lock is a holder; a process that    *)
(* dies frees it (RepoLock has the lock file itself).  File contents are   *)
(* abstracted to who they belong to.                                       *)
(***************************************************************************)
EXTENDS Naturals, FiniteSets

CONSTANTS
    Job,           \* the processes
    File,          \* the files the user may write
    HydrateWorld   \* where a run starts, which commands it has, how many commands,
                   \* mishaps and writes happen, whether processes die and their
                   \* rollbacks fail, and what another device may do to the project

\* What a project starts as: its type, its materialization state, its directory.
ASSUME HydrateAssumption ==
    /\ "none" \notin Job
    /\ HydrateWorld \subseteq [type : {"git_repo", "local_git", "draft_project", "plain_folder"},
                               state : {"", "skeleton", "available"},
                               dir : {"absent", "empty", "skeleton", "content"},
                               cmds : SUBSET {"hydrate", "materialize", "promote", "promote draft", "draft", "sweep"},
                               starts : Nat, mishaps : Nat, deadly : BOOLEAN, writes : Nat,
                               elsewhere : SUBSET {"delete", "promote"}]

VARIABLES
    dir,        \* the directory: absent, empty, a skeleton, or content
    gitdir,     \* its .git: none, partial (an init that did not finish), repo
    origin,     \* whether that repository has an origin remote
    mine,       \* the user's files in it
    staging,    \* clone-staging directories, by the job that made them, or "orphan"
    ptype,      \* namespace_entries.type
    mat,        \* device_project_state.materialization_state
    listed,     \* whether the project is in the namespace
    remote,     \* the git remote: empty, or holding the project's history
    lock,       \* who holds the repository lock
    job,        \* what each process is doing
    room        \* what may still happen in this world

hydrvars == <<dir, gitdir, origin, mine, staging, ptype, mat, listed, remote, lock, job, room>>
treevars == <<dir, gitdir, origin, mine>>
rowvars == <<ptype, mat, listed>>

Resting == [at |-> "idle", cmd |-> "none", type |-> "none", saw |-> {}, was |-> "none"]
Take(what) == room[what] > 0 /\ room' = [room EXCEPT ![what] = @ - 1]
At(j, s) == job' = [job EXCEPT ![j].at = s]
IsRepo == gitdir # "none"

HydrateInit ==
    /\ room \in HydrateWorld
    /\ dir = room.dir /\ mine = {} /\ ptype = room.type /\ mat = room.state
    /\ gitdir = (IF room.type = "local_git" \/ (room.type = "git_repo" /\ room.state = "available")
                 THEN "repo" ELSE "none")
    /\ origin = (room.type = "git_repo" /\ room.state = "available")
    /\ remote = (IF room.type = "git_repo" THEN "history" ELSE "empty")
    /\ listed = TRUE /\ staging = {} /\ lock = "none"
    /\ job = [j \in Job |-> Resting]

\* Mutation of Finish: a return without the unlock.
FinishLocked(j) ==
    job' = [job EXCEPT ![j] = Resting] /\ staging' = staging \ {j} /\ UNCHANGED lock

\* Leave the command: the deferred unlock and the deferred removal of the
\* staging directory run whatever the outcome.
Finish(j) ==
    /\ job' = [job EXCEPT ![j] = Resting]
    /\ lock' = IF lock = j THEN "none" ELSE lock
    /\ staging' = staging \ {j}

\* A command reads the project's row before anything else.
Start(j, cmd, next) ==
    /\ job[j] = Resting /\ cmd \in room.cmds /\ listed /\ Take("starts")
    /\ job' = [job EXCEPT ![j] = [Resting EXCEPT !.at = next, !.cmd = cmd, !.type = ptype]]
    /\ UNCHANGED <<treevars, rowvars, staging, remote, lock>>

\* acquireRepoLock: taken, or the command fails with a conflict.
AcquireRepoLock(j) ==
    /\ job[j].at = "lock"
    /\ \/ lock = "none" /\ lock' = j /\ At(j, job[j].cmd)
       \/ lock # "none" /\ job' = [job EXCEPT ![j] = Resting] /\ UNCHANGED lock
    /\ UNCHANGED <<treevars, rowvars, staging, remote, room>>

(***************************************************************************)
(* hydrate and materialize of a git_repo.                                  *)
(***************************************************************************)
SkeletonProject == mat \in {"", "skeleton", "failed"}
HydrateProject(j) == ptype = "git_repo" /\ Start(j, "hydrate", "lock")

\* The materialization pass of every sync takes what is not there yet.
MaterializeGitRepo(j) ==
    /\ job[j] = Resting /\ "materialize" \in room.cmds /\ listed /\ ptype = "git_repo" /\ SkeletonProject
    /\ job' = [job EXCEPT ![j] = [Resting EXCEPT !.at = "lock", !.cmd = "materialize", !.type = ptype]]
    /\ UNCHANGED <<treevars, rowvars, staging, remote, lock, room>>

ensureHydratableTarget == dir \in {"absent", "empty", "skeleton"}

\* An existing repository is recorded as available; materialize may still fail
\* it for its LFS policy.
AlreadyRepo(j) ==
    /\ job[j].at \in {"hydrate", "materialize"} /\ IsRepo /\ Finish(j)
    /\ \/ mat' = "available" /\ UNCHANGED room
       \/ job[j].at = "materialize" /\ Take("mishaps") /\ mat' = "failed"
    /\ UNCHANGED <<treevars, ptype, listed, remote>>

\* hydrateProjectUnlocked up to the clone.
CloneTempDir(j) ==
    /\ job[j].at \in {"hydrate", "materialize"} /\ ~IsRepo
    /\ \/ ~ensureHydratableTarget /\ Finish(j)
       \/ ensureHydratableTarget /\ staging' = staging \cup {j} /\ At(j, "clone") /\ UNCHANGED lock
    /\ UNCHANGED <<treevars, rowvars, remote, room>>

Failed(j) == Finish(j) /\ mat' = "failed"

\* The clone, which may take long, succeeds, or the network fails it, or
\* its staging directory was taken away.
Clone(j) ==
    /\ job[j].at = "clone"
    /\ \/ j \in staging /\ At(j, "cloned") /\ UNCHANGED <<staging, lock, mat, room>>
       \/ Failed(j) /\ Take("mishaps")
       \/ j \notin staging /\ Failed(j) /\ UNCHANGED room
    /\ UNCHANGED <<treevars, ptype, listed, remote>>

\* Mutation of Revalidate: the directory was checked before the clone.
RevalidateNever(j) ==
    /\ job[j].at = "cloned"
    /\ job' = [job EXCEPT ![j].at = "remove", ![j].saw = mine, ![j].was = dir]
    /\ UNCHANGED <<treevars, rowvars, staging, remote, lock, room>>

\* promoteClonedRepo looks again before it removes the directory.
Revalidate(j) ==
    /\ job[j].at = "cloned"
    /\ \/ /\ ensureHydratableTarget
          /\ job' = [job EXCEPT ![j].at = "remove", ![j].saw = mine, ![j].was = dir]
          /\ UNCHANGED <<staging, lock, mat>>
       \/ ~ensureHydratableTarget /\ Failed(j)
    /\ UNCHANGED <<treevars, ptype, listed, remote, room>>

RemoveTarget(j) ==
    /\ job[j].at = "remove" /\ At(j, "rename")
    /\ dir' = "absent" /\ gitdir' = "none" /\ origin' = FALSE /\ mine' = {}
    /\ UNCHANGED <<rowvars, staging, remote, lock, room>>

\* The rename needs the name to be free (or an empty directory); when it fails,
\* a skeleton is written again in place of the one removed.
PromoteClonedRepo(j) ==
    /\ job[j].at = "rename"
    /\ \/ /\ dir \in {"absent", "empty"} /\ j \in staging
          /\ dir' = "content" /\ gitdir' = "repo" /\ origin' = TRUE
          /\ staging' = staging \ {j} /\ At(j, "record") /\ UNCHANGED <<lock, mat>>
       \/ /\ dir = "content" \/ j \notin staging
          /\ dir' = IF job[j].was = "skeleton" /\ dir = "absent" THEN "skeleton" ELSE dir
          /\ Failed(j) /\ UNCHANGED <<gitdir, origin>>
    /\ UNCHANGED <<mine, ptype, listed, remote, room>>

\* The state is written last: available, or materialized-empty when the remote's
\* HEAD names a branch it does not have, or failed when materialize cannot meet
\* the LFS policy of the checkout it just made.
RecordHydrated(j) ==
    /\ job[j].at = "record" /\ Finish(j)
    /\ \/ mat' = "available" /\ UNCHANGED room
       \/ mat' = "materialized-empty" /\ Take("mishaps")
       \/ job[j].cmd = "materialize" /\ mat' = "failed" /\ Take("mishaps")
    /\ UNCHANGED <<treevars, ptype, listed, remote>>

(***************************************************************************)
(* Drafts and plain folders take no lock.                                  *)
(***************************************************************************)
\* A plain folder is created and recorded.
MaterializePlainFolder(j) ==
    /\ ptype = "plain_folder" /\ SkeletonProject /\ job[j] = Resting /\ "draft" \in room.cmds
    /\ Take("starts")
    /\ dir' = IF dir = "absent" THEN "empty" ELSE dir
    /\ mat' = "available"
    /\ UNCHANGED <<gitdir, origin, mine, staging, ptype, listed, remote, lock, job>>

MaterializeDraft(j) ==
    ptype \in {"draft_project", "local_git"} /\ SkeletonProject /\ Start(j, "draft", "extract")

\* The bundle is unpacked beside what is there: an existing file is kept and
\* the bundle's version gets a conflict name.  Without a bundle the directory
\* is made and the project stays a skeleton.
ExtractDraftBundle(j) ==
    /\ job[j].at = "extract"
    /\ \/ dir' = "content" /\ At(j, "extracted") /\ UNCHANGED <<mat, lock, staging, room>>
       \/ dir' = (IF dir = "absent" THEN "empty" ELSE dir) /\ mat' = "skeleton" /\ Finish(j) /\ UNCHANGED room
       \/ dir' = "content" /\ Take("mishaps") /\ Failed(j)
    /\ UNCHANGED <<gitdir, origin, mine, ptype, listed, remote>>

RecordDraft(j) ==
    /\ job[j].at = "extracted" /\ Finish(j) /\ mat' = "available"
    /\ UNCHANGED <<treevars, ptype, listed, remote, room>>

(***************************************************************************)
(* promote.                                                                *)
(***************************************************************************)
\* recordPromotion changes the namespace row; Tx.UpsertProject leaves the
\* device's materialization state as it is.
recordPromotion(type) == ptype' = type /\ UNCHANGED <<mat, listed>>

\* promote --draft takes no lock: it reads the row, looks at the directory, and
\* records.  The record does not ask what the row has become meanwhile.
PromoteToDraft(j) == ptype = "plain_folder" /\ Start(j, "promote draft", "look")

CheckFolder(j) ==
    /\ job[j].at = "look"
    /\ \/ dir # "absent" /\ ~IsRepo /\ At(j, "todraft") /\ UNCHANGED <<lock, staging>>
       \/ (dir = "absent" \/ IsRepo) /\ Finish(j)
    /\ UNCHANGED <<treevars, rowvars, remote, room>>

RecordDraftPromotion(j) ==
    /\ job[j].at = "todraft" /\ Finish(j)
    /\ \/ recordPromotion("draft_project") /\ UNCHANGED room
       \/ Take("mishaps") /\ UNCHANGED rowvars
    /\ UNCHANGED <<treevars, remote>>

\* refuseAlreadyRemote, promoteLocalPath.
PromoteToGitRepo(j) == ptype # "git_repo" /\ dir # "absent" /\ Start(j, "promote", "lock")

\* RemoteIsEmpty and the checks of the local tree, before anything changes.
PromotePreflight(j) ==
    /\ job[j].at = "promote"
    /\ LET ready == /\ remote = "empty"
                    /\ IF job[j].type = "local_git" THEN gitdir = "repo" /\ ~origin
                                                    ELSE ~IsRepo /\ dir # "empty"
       IN \/ ready /\ At(j, IF job[j].type = "local_git" THEN "addremote" ELSE "init") /\ UNCHANGED <<lock, staging>>
          \/ ~ready /\ Finish(j)
    /\ UNCHANGED <<treevars, rowvars, remote, room>>

\* Mutation of Rollback: the rollback is armed by the commit.
RollbackUnarmed(j) ==
    IF job[j].at = "commit" THEN UNCHANGED <<gitdir, origin>>
    ELSE IF job[j].type = "local_git" THEN origin' = FALSE /\ UNCHANGED gitdir ELSE gitdir' = "none" /\ origin' = FALSE

\* Rollback removes the .git this command made, or the origin it added.  That it
\* fails is only warned of.
Rollback(j) ==
    \/ job[j].type = "local_git" /\ origin' = FALSE /\ UNCHANGED gitdir
    \/ job[j].type # "local_git" /\ gitdir' = "none" /\ origin' = FALSE
    \/ room.deadly /\ UNCHANGED <<gitdir, origin>>

\* git init makes .git bit by bit; then everything is staged, screened and
\* committed.  Each may fail and is rolled back.
InitRepo(j) ==
    /\ job[j].at = "init" /\ gitdir' = "partial" /\ At(j, "commit")
    /\ UNCHANGED <<dir, origin, mine, rowvars, staging, remote, lock, room>>

CommitStaged(j) ==
    /\ job[j].at = "commit"
    /\ \/ gitdir' = "repo" /\ At(j, "addremote") /\ UNCHANGED <<origin, lock, staging, room>>
       \/ Take("mishaps") /\ Rollback(j) /\ Finish(j)
    /\ UNCHANGED <<dir, mine, rowvars, remote>>

\* When git refuses the origin, a .git of ours is rolled back; a local_git had
\* nothing changed yet.
AddRemote(j) ==
    /\ job[j].at = "addremote"
    /\ \/ origin' = TRUE /\ At(j, "push") /\ UNCHANGED <<gitdir, lock, staging, room>>
       \/ /\ Take("mishaps") /\ Finish(j)
          /\ IF job[j].type = "local_git" THEN UNCHANGED <<gitdir, origin>> ELSE Rollback(j)
    /\ UNCHANGED <<dir, mine, rowvars, remote>>

\* The push succeeds; or fails; or succeeds and its answer is lost, which is
\* rolled back here although the remote is no longer empty.
PushBranch(j) ==
    /\ job[j].at = "push"
    /\ \/ remote' = "history" /\ At(j, "promoted") /\ UNCHANGED <<gitdir, origin, lock, staging, room>>
       \/ Take("mishaps") /\ remote' \in {remote, "history"} /\ Rollback(j) /\ Finish(j)
    /\ UNCHANGED <<dir, mine, rowvars>>

\* Not rolled back when recording fails: the history is on the remote.
RecordPromoted(j) ==
    /\ job[j].at = "promoted" /\ Finish(j)
    /\ \/ recordPromotion("git_repo") /\ UNCHANGED room
       \/ Take("mishaps") /\ UNCHANGED rowvars
    /\ UNCHANGED <<treevars, remote>>

(***************************************************************************)
(* The sweep of orphaned staging directories.                              *)
(***************************************************************************)
SweepStagingOrphans(j) ==
    /\ job[j] = Resting /\ "sweep" \in room.cmds /\ Take("starts")
    /\ job' = [job EXCEPT ![j] = [Resting EXCEPT !.at = "candidates", !.cmd = "sweep",
                                                 !.was = IF listed THEN "mapped" ELSE "unmapped"]]
    /\ UNCHANGED <<treevars, rowvars, staging, remote, lock>>

\* A directory of a listed project is removed under that project's lock, or
\* left when the lock is held; one of a project the sweep did not find when it
\* listed them is protected by its age only, and may be a clone that runs long.
RemoveOrphan(j) ==
    /\ job[j].at = "candidates"
    /\ \/ job[j].was = "mapped" /\ lock = "none" /\ staging' = {}
       \/ job[j].was = "mapped" /\ lock # "none" /\ UNCHANGED staging
       \/ job[j].was = "unmapped" /\ staging' \in SUBSET staging
    /\ UNCHANGED lock /\ job' = [job EXCEPT ![j] = Resting]
    /\ UNCHANGED <<treevars, rowvars, remote, room>>

(***************************************************************************)
(* The user, other devices, and processes that die.                        *)
(***************************************************************************)
WriteFile(f) ==
    /\ f \notin mine /\ Take("writes") /\ mine' = mine \cup {f} /\ dir' = "content"
    /\ UNCHANGED <<gitdir, origin, staging, rowvars, remote, lock, job>>

\* A pulled project.deleted takes the project out of the namespace.
DeletedElsewhere ==
    /\ listed /\ "delete" \in room.elsewhere /\ listed' = FALSE
    /\ UNCHANGED <<treevars, staging, ptype, mat, remote, lock, job, room>>

\* A pulled project.updated tells of a promotion on another device.  It changes
\* the type and leaves the materialization state of this device.
PromotedElsewhere ==
    /\ ptype # "git_repo" /\ "promote" \in room.elsewhere /\ remote = "empty"
    /\ remote' = "history" /\ recordPromotion("git_repo")
    /\ UNCHANGED <<treevars, staging, lock, job, room>>

\* The process dies: its staging directory and what it did stay.
Killed(j) ==
    /\ job[j] # Resting /\ room.deadly /\ Take("mishaps")
    /\ job' = [job EXCEPT ![j] = Resting] /\ lock' = IF lock = j THEN "none" ELSE lock
    /\ staging' = IF j \in staging THEN (staging \ {j}) \cup {"orphan"} ELSE staging
    /\ UNCHANGED <<treevars, rowvars, remote>>

JobStep(j) ==
    \/ AcquireRepoLock(j) \/ AlreadyRepo(j) \/ CloneTempDir(j) \/ Clone(j) \/ Revalidate(j) \/ RemoveTarget(j)
    \/ PromoteClonedRepo(j) \/ RecordHydrated(j) \/ ExtractDraftBundle(j) \/ RecordDraft(j)
    \/ CheckFolder(j) \/ RecordDraftPromotion(j) \/ PromotePreflight(j) \/ InitRepo(j) \/ CommitStaged(j) \/ AddRemote(j) \/ PushBranch(j)
    \/ RecordPromoted(j) \/ RemoveOrphan(j)

HydrateNext ==
    \/ \E j \in Job : \/ HydrateProject(j) \/ MaterializeGitRepo(j) \/ MaterializePlainFolder(j)
                      \/ MaterializeDraft(j) \/ PromoteToDraft(j) \/ PromoteToGitRepo(j)
                      \/ SweepStagingOrphans(j) \/ JobStep(j) \/ Killed(j)
    \/ \E f \in File : WriteFile(f)
    \/ DeletedElsewhere \/ PromotedElsewhere

\* A started command goes on: its steps are calls that return or time out.  The
\* run loop syncs, and so materializes, again and again.
HydrateFairness ==
    /\ \A j \in Job : WF_hydrvars(JobStep(j))
    /\ WF_hydrvars(\E j \in Job : MaterializeGitRepo(j))
HydrateSpec == HydrateInit /\ [][HydrateNext]_hydrvars /\ HydrateFairness

(***************************************************************************)
(* Properties.                                                             *)
(***************************************************************************)
\* No operation deletes a file of the user's that was there when the
\* operation last looked: a clone that ran for minutes never replaces what
\* was written meanwhile (promoteClonedRepo's second validation).  Only a write
\* between that look and the removal is not covered.
UserFilesKept ==
    [][\A f \in mine \ mine' : \E j \in Job : job[j].at = "remove" /\ f \notin job[j].saw]_hydrvars

\* A project is announced as a git_repo only with its history on the remote,
\* whatever fails or dies on the way (promoteToGitRepo: validate, push, record).
AnnouncedHistoryExists == ptype = "git_repo" => remote = "history"

\* A promotion that failed leaves nothing that would refuse the next attempt:
\* a .git or an origin of ours remains in an unpromoted project only while a
\* promotion runs, after a process died or failed to clean up (a deadly world),
\* or once the remote has the history.
RollbackComplete ==
    (ptype \in {"plain_folder", "draft_project"} /\ IsRepo) \/ (ptype = "local_git" /\ origin) =>
        remote = "history" \/ room.deadly \/ \E j \in Job : job[j].cmd = "promote"

\* The sweep never takes the staging directory of a running clone of a listed
\* project (sweepStagingOrphans takes the project's lock first).
LiveStagingKept ==
    \A j \in Job : job[j].at \in {"clone", "cloned", "remove", "rename"} => j \in staging \/ ~listed

\* available is what the materializer and status believe: a git_repo recorded
\* so has a repository in its directory, across crashes and lost races, unless
\* it was promoted on another device after this one recorded a folder.
AvailableIsThere ==
    ptype = "git_repo" /\ mat = "available" /\ "promote" \notin room.elsewhere => IsRepo

\* A git_repo that is not on disk gets there, however often a clone fails or
\* a process dies holding the lock, unless something else occupies the place or
\* a promotion to a draft, read from the row before it was one, is recorded late.
EventuallyMaterialized ==
    "materialize" \in room.cmds /\ ptype = "git_repo" /\ SkeletonProject
        ~> ~SkeletonProject \/ ~listed \/ ptype # "git_repo" \/ (dir = "content" /\ ~IsRepo)

\* What the rows say of a project is so on disk and on the remote, whatever
\* failed or raced (promote.go, materialize.go).
StatesHonest == AnnouncedHistoryExists /\ RollbackComplete /\ LiveStagingKept /\ AvailableIsThere
=============================================================================
