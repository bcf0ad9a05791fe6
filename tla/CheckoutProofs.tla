--------------------------- MODULE CheckoutProofs ---------------------------
(***************************************************************************)
(* Proofs about a device's checkouts: the directory of a project           *)
(* (Hydration), its worktree and agent runs (Worktrees) and the recovery   *)
(* snapshots (WipRefs), for any number of processes, files, runs, devices  *)
(* and commits, and any worlds.                                            *)
(***************************************************************************)
EXTENDS MCCheckouts, TLAPS

-----------------------------------------------------------------------------
(* Hydration: the invariant.                                               *)

Types == {"git_repo", "local_git", "draft_project", "plain_folder"}
Stages == {"idle", "lock", "hydrate", "materialize", "promote", "clone", "cloned", "remove", "rename", "record",
           "extract", "extracted", "look", "todraft", "init", "commit", "addremote", "push", "promoted", "candidates"}
Cloning == {"clone", "cloned", "remove", "rename"}
Changing == {"commit", "addremote", "push", "promoted"}
UnderLock == {"hydrate", "materialize", "promote", "record", "init"} \cup Cloning \cup Changing

Process == [at : Stages, cmd : {"none", "hydrate", "materialize", "promote", "promote draft", "draft", "sweep"},
            type : Types \cup {"none"}, saw : SUBSET File,
            was : {"none", "absent", "empty", "skeleton", "content", "mapped", "unmapped"}]
World == [type : Types, state : {"", "skeleton", "available"}, dir : {"absent", "empty", "skeleton", "content"},
          cmds : SUBSET {"hydrate", "materialize", "promote", "promote draft", "draft", "sweep"},
          starts : Nat, mishaps : Nat, deadly : BOOLEAN, writes : Nat, elsewhere : SUBSET {"delete", "promote"}]

\* What a process is at, what a project is, and the bounds of the world.
HydrateTyped ==
    /\ job \in [Job -> Process] /\ room \in World
    /\ ptype \in Types /\ mine \subseteq File /\ dir \in {"absent", "empty", "skeleton", "content"}

\* What a process may rely on where it is: the lock, the type it read, what it
\* saw before it removes, what it cloned or made so far.
JobOK(j) ==
    /\ job[j].at \in UnderLock => lock = j
    /\ job[j].at = "lock" => job[j].cmd \in {"hydrate", "materialize", "promote"}
    /\ job[j].at \in {"promote", "init"} \cup Changing => job[j].cmd = "promote"
    /\ job[j].at \in {"extract", "extracted"} => job[j].cmd = "draft"
    /\ job[j].at \in {"hydrate", "materialize", "record"} \cup Cloning => job[j].cmd \in {"hydrate", "materialize"}
    /\ job[j].cmd \in {"hydrate", "materialize"} => remote = "history"
    /\ job[j].cmd = "promote" => (room.type = "local_git" <=> job[j].type = "local_git")
    /\ room.type = "git_repo" => job[j].cmd \notin {"draft", "promote"}
    /\ job[j].at \in Cloning => gitdir = "none" /\ (j \in staging \/ ~listed)
    /\ job[j].at = "remove" => job[j].saw = {}
    /\ job[j].at \in {"record"} \cup Changing => gitdir # "none"
    /\ job[j].at = "promoted" => remote = "history"
    /\ job[j].at \in {"init", "commit", "addremote", "push"} => "promote" \in room.elsewhere \/ ptype # "git_repo"
    /\ job[j].at = "candidates" /\ job[j].was = "unmapped" => ~listed
    /\ job[j].at \in {"look", "todraft"} => job[j].cmd = "promote draft"
    /\ job[j].cmd = "promote draft" => room.type \notin {"git_repo", "local_git"}
    /\ job[j].at \in {"init", "commit"} => job[j].type # "local_git"
    /\ job[j].at = "addremote" /\ job[j].type = "local_git" => ~origin

\* A .git or an origin of ours in an unpromoted project.
Leftover == (ptype \in {"plain_folder", "draft_project"} /\ gitdir # "none") \/ (ptype = "local_git" /\ origin)

ProjectOK ==
    /\ mine # {} => dir = "content"
    /\ ptype = "git_repo" => remote = "history"
    /\ Leftover => remote = "history" \/ room.deadly \/ \E j \in Job : job[j].at \in Changing
    /\ room.type = "git_repo" => ptype = "git_repo"
    /\ ptype = "git_repo" \/ (ptype = "local_git" <=> room.type = "local_git")
    /\ ptype = "git_repo" /\ (room.type # "git_repo" \/ mat = "available") =>
           "promote" \in room.elsewhere \/ gitdir # "none"

HydrateInv == HydrateTyped /\ ProjectOK /\ \A j \in Job : JobOK(j)

\* Nothing is lost of the rest of the world when a bound is counted down.
LEMMA TakeKeeps ==
    ASSUME room \in World, NEW what \in {"starts", "mishaps", "writes"}, Take(what)
    PROVE  /\ room' \in World /\ room'.type = room.type /\ room'.elsewhere = room.elsewhere
           /\ room'.cmds = room.cmds /\ (room'.deadly <=> room.deadly)
<1>1. CASE what = "starts"
  <2>1. room.starts \in Nat /\ room.starts > 0
    BY <1>1 DEF World, Take
  <2>2. room.starts - 1 \in Nat
    BY <2>1
  <2>3. room' = [room EXCEPT !.starts = room.starts - 1]
    BY <1>1 DEF Take
  <2> QED BY <2>2, <2>3 DEF World
<1>2. CASE what = "mishaps"
  <2>1. room.mishaps \in Nat /\ room.mishaps > 0
    BY <1>2 DEF World, Take
  <2>2. room.mishaps - 1 \in Nat
    BY <2>1
  <2>3. room' = [room EXCEPT !.mishaps = room.mishaps - 1]
    BY <1>2 DEF Take
  <2> QED BY <2>2, <2>3 DEF World
<1>3. CASE what = "writes"
  <2>1. room.writes \in Nat /\ room.writes > 0
    BY <1>3 DEF World, Take
  <2>2. room.writes - 1 \in Nat
    BY <2>1
  <2>3. room' = [room EXCEPT !.writes = room.writes - 1]
    BY <1>3 DEF Take
  <2> QED BY <2>2, <2>3 DEF World
<1> QED BY <1>1, <1>2, <1>3

\* A step of one process: where it is then, and that the others are where they were.
LEMMA Moves ==
    ASSUME HydrateTyped, NEW j \in Job, NEW p \in Process, job' = [job EXCEPT ![j] = p]
    PROVE  job' \in [Job -> Process] /\ job'[j] = p /\ \A i \in Job \ {j} : job'[i] = job[i]
<1> QED BY DEF HydrateTyped

\* A process goes on to the next step of its operation.
LEMMA AtMoves ==
    ASSUME HydrateTyped, NEW j \in Job, NEW s \in Stages, At(j, s)
    PROVE  /\ job' \in [Job -> Process] /\ \A i \in Job \ {j} : job'[i] = job[i]
           /\ job'[j].at = s /\ job'[j].cmd = job[j].cmd /\ job'[j].type = job[j].type
           /\ job'[j].saw = job[j].saw /\ job'[j].was = job[j].was
<1> QED BY DEF HydrateTyped, At, Process

\* A process is done, successfully or not.
LEMMA FinishMoves ==
    ASSUME HydrateTyped, NEW j \in Job, job' = [job EXCEPT ![j] = Resting]
    PROVE  /\ job' \in [Job -> Process] /\ \A i \in Job \ {j} : job'[i] = job[i]
           /\ job'[j].at = "idle" /\ job'[j].cmd = "none"
<1>1. Resting \in Process
  BY DEF Resting, Process, Stages
<1> QED BY <1>1, Moves DEF Resting

\* What one process relies on survives a step that is not its own, when the
\* step respects the lock and the staging directory it holds.
Respects(i) ==
    /\ job'[i] = job[i] /\ room'.type = room.type /\ room'.elsewhere = room.elsewhere
    /\ lock = i => lock' = i /\ gitdir' = gitdir /\ origin' = origin
    /\ lock = i /\ ptype # "git_repo" => ptype' # "git_repo" \/ "promote" \in room.elsewhere
    /\ listed' => listed
    /\ i \in staging => i \in staging' \/ ~listed' \/ (lock # i /\ job[i].at \notin Cloning)
    /\ remote = "history" => remote' = "history"

\* So what every other process relies on is kept by a step that respects it.
LEMMA RespectedKeeps ==
    ASSUME NEW i \in Job, JobOK(i), Respects(i)
    PROVE  JobOK(i)'
<1>1. JobOK(i)!1' /\ JobOK(i)!2' /\ JobOK(i)!3' /\ JobOK(i)!4' /\ JobOK(i)!5'
  BY DEF JobOK, Respects
<1>2. JobOK(i)!6' /\ JobOK(i)!7' /\ JobOK(i)!8'
  BY DEF JobOK, Respects
<1>3. JobOK(i)!9' /\ JobOK(i)!10' /\ JobOK(i)!11'
  BY DEF JobOK, Respects, Cloning, UnderLock
<1>4. JobOK(i)!12' /\ JobOK(i)!13' /\ JobOK(i)!14'
  BY DEF JobOK, Respects, Changing, Cloning, UnderLock
<1>5. JobOK(i)!15' /\ JobOK(i)!16' /\ JobOK(i)!17'
  BY DEF JobOK, Respects
<1>6. JobOK(i)!18'
  BY DEF JobOK, Respects, Changing, UnderLock
<1> QED BY <1>1, <1>2, <1>3, <1>4, <1>5, <1>6 DEF JobOK

\* The target is a repository already: only the row changes (HydrateGitRepo).
LEMMA AlreadyRepoKeeps ==
    ASSUME HydrateInv, NEW j \in Job, AlreadyRepo(j)
    PROVE  HydrateInv'
<1>0. HydrateTyped /\ ProjectOK /\ JobOK(j) /\ \A i \in Job : JobOK(i)
  BY DEF HydrateInv
<1> USE AtMoves, FinishMoves, TakeKeeps DEF treevars, rowvars
<1>1. HydrateTyped'
  BY <1>0 DEF AlreadyRepo, Finish, HydrateTyped, Types, Stages
<1>2. ProjectOK'
  BY <1>0 DEF AlreadyRepo, Finish, HydrateTyped, Types, Stages, JobOK, ProjectOK, Leftover, IsRepo, Cloning, Changing, UnderLock
<1>3. ASSUME NEW i \in Job \ {j} PROVE JobOK(i)'
  <2>1. JobOK(i) /\ i # j
    BY <1>0
  <2>2. Respects(i)
    <3>1. job'[i] = job[i] /\ room'.type = room.type /\ room'.elsewhere = room.elsewhere
      BY <1>0 DEF AlreadyRepo, Finish, HydrateTyped, Stages
    <3>2. lock = i => lock' = i /\ gitdir' = gitdir /\ origin' = origin
      BY <1>0, <2>1 DEF AlreadyRepo, Finish, JobOK, Cloning, Changing, UnderLock
    <3> QED BY <1>0, <2>1, <3>1, <3>2 DEF AlreadyRepo, Finish, Respects, JobOK, Cloning, Changing, UnderLock
  <2> QED BY <2>1, <2>2, RespectedKeeps
<1>4. JobOK(j)'
  <2>1. job'[j].at = "idle" /\ job'[j].cmd = "none"
    BY <1>0 DEF AlreadyRepo, Finish, Resting
  <2> QED BY ONLY <2>1 DEF JobOK, Cloning, Changing, UnderLock
<1> QED BY <1>1, <1>2, <1>3, <1>4 DEF HydrateInv

\* A staging directory of one's own beside the target (cloneTempDir).
LEMMA CloneTempDirKeeps ==
    ASSUME HydrateInv, NEW j \in Job, CloneTempDir(j)
    PROVE  HydrateInv'
<1>0. HydrateTyped /\ ProjectOK /\ JobOK(j) /\ \A i \in Job : JobOK(i)
  BY DEF HydrateInv
<1> USE AtMoves, FinishMoves, TakeKeeps DEF treevars, rowvars
<1>1. HydrateTyped'
  BY <1>0 DEF CloneTempDir, Finish, ensureHydratableTarget, HydrateTyped, Types, Stages
<1>2. ProjectOK'
  BY <1>0 DEF CloneTempDir, Finish, ensureHydratableTarget, HydrateTyped, Types, Stages, JobOK, ProjectOK, Leftover, IsRepo, Cloning, Changing, UnderLock
<1>3. ASSUME NEW i \in Job \ {j} PROVE JobOK(i)'
  <2>1. JobOK(i) /\ i # j
    BY <1>0
  <2>2. Respects(i)
    <3>1. job'[i] = job[i] /\ room'.type = room.type /\ room'.elsewhere = room.elsewhere
      BY <1>0 DEF CloneTempDir, Finish, ensureHydratableTarget, HydrateTyped, Stages
    <3>2. lock = i => lock' = i /\ gitdir' = gitdir /\ origin' = origin
      BY <1>0, <2>1 DEF CloneTempDir, Finish, ensureHydratableTarget, JobOK, Cloning, Changing, UnderLock
    <3> QED BY <1>0, <2>1, <3>1, <3>2 DEF CloneTempDir, Finish, ensureHydratableTarget, Respects, JobOK, Cloning, Changing, UnderLock
  <2> QED BY <2>1, <2>2, RespectedKeeps
<1>4. JobOK(j)'
  BY <1>0 DEF CloneTempDir, Finish, ensureHydratableTarget, HydrateTyped, Types, Stages, JobOK, ProjectOK, Leftover, IsRepo, Cloning, Changing, UnderLock
<1> QED BY <1>1, <1>2, <1>3, <1>4 DEF HydrateInv

\* The clone lands in the staging directory, or fails and is cleaned up.
LEMMA CloneKeeps ==
    ASSUME HydrateInv, NEW j \in Job, Clone(j)
    PROVE  HydrateInv'
<1>0. HydrateTyped /\ ProjectOK /\ JobOK(j) /\ \A i \in Job : JobOK(i)
  BY DEF HydrateInv
<1> USE AtMoves, FinishMoves, TakeKeeps DEF treevars, rowvars
<1>1. HydrateTyped'
  BY <1>0 DEF Clone, Failed, Finish, HydrateTyped, Types, Stages
<1>2. ProjectOK'
  BY <1>0 DEF Clone, Failed, Finish, HydrateTyped, Types, Stages, JobOK, ProjectOK, Leftover, IsRepo, Cloning, Changing, UnderLock
<1>3. ASSUME NEW i \in Job \ {j} PROVE JobOK(i)'
  <2>1. JobOK(i) /\ i # j
    BY <1>0
  <2>2. Respects(i)
    <3>1. job'[i] = job[i] /\ room'.type = room.type /\ room'.elsewhere = room.elsewhere
      BY <1>0 DEF Clone, Failed, Finish, HydrateTyped, Stages
    <3>2. lock = i => lock' = i /\ gitdir' = gitdir /\ origin' = origin
      BY <1>0, <2>1 DEF Clone, Failed, Finish, JobOK, Cloning, Changing, UnderLock
    <3> QED BY <1>0, <2>1, <3>1, <3>2 DEF Clone, Failed, Finish, Respects, JobOK, Cloning, Changing, UnderLock
  <2> QED BY <2>1, <2>2, RespectedKeeps
<1>4. JobOK(j)'
  BY <1>0 DEF Clone, Failed, Finish, HydrateTyped, Types, Stages, JobOK, ProjectOK, Leftover, IsRepo, Cloning, Changing, UnderLock
<1> QED BY <1>1, <1>2, <1>3, <1>4 DEF HydrateInv

\* The skeleton goes, on the word of the last look at it.
LEMMA RemoveTargetKeeps ==
    ASSUME HydrateInv, NEW j \in Job, RemoveTarget(j)
    PROVE  HydrateInv'
<1>0. HydrateTyped /\ ProjectOK /\ JobOK(j) /\ \A i \in Job : JobOK(i)
  BY DEF HydrateInv
<1> USE AtMoves, FinishMoves, TakeKeeps DEF treevars, rowvars
<1>1. HydrateTyped'
  BY <1>0 DEF RemoveTarget, HydrateTyped, Types, Stages
<1>2. ProjectOK'
  BY <1>0 DEF RemoveTarget, HydrateTyped, Types, Stages, JobOK, ProjectOK, Leftover, IsRepo, Cloning, Changing, UnderLock
<1>3. ASSUME NEW i \in Job \ {j} PROVE JobOK(i)'
  <2>1. JobOK(i) /\ i # j
    BY <1>0
  <2>2. Respects(i)
    <3>1. job'[i] = job[i] /\ room'.type = room.type /\ room'.elsewhere = room.elsewhere
      BY <1>0 DEF RemoveTarget, HydrateTyped, Stages
    <3>2. lock = i => lock' = i /\ gitdir' = gitdir /\ origin' = origin
      BY <1>0, <2>1 DEF RemoveTarget, JobOK, Cloning, Changing, UnderLock
    <3> QED BY <1>0, <2>1, <3>1, <3>2 DEF RemoveTarget, Respects, JobOK, Cloning, Changing, UnderLock
  <2> QED BY <2>1, <2>2, RespectedKeeps
<1>4. JobOK(j)'
  BY <1>0 DEF RemoveTarget, HydrateTyped, Types, Stages, JobOK, ProjectOK, Leftover, IsRepo, Cloning, Changing, UnderLock
<1> QED BY <1>1, <1>2, <1>3, <1>4 DEF HydrateInv

\* The staging directory is renamed into place (promoteClonedRepo).
LEMMA PromoteClonedRepoKeeps ==
    ASSUME HydrateInv, NEW j \in Job, PromoteClonedRepo(j)
    PROVE  HydrateInv'
<1>0. HydrateTyped /\ ProjectOK /\ JobOK(j) /\ \A i \in Job : JobOK(i)
  BY DEF HydrateInv
<1> USE AtMoves, FinishMoves, TakeKeeps DEF treevars, rowvars
<1>1. HydrateTyped'
  BY <1>0 DEF PromoteClonedRepo, Failed, Finish, HydrateTyped, Types, Stages
<1>2. ProjectOK'
  BY <1>0 DEF PromoteClonedRepo, Failed, Finish, HydrateTyped, Types, Stages, JobOK, ProjectOK, Leftover, IsRepo, Cloning, Changing, UnderLock
<1>3. ASSUME NEW i \in Job \ {j} PROVE JobOK(i)'
  <2>1. JobOK(i) /\ i # j
    BY <1>0
  <2>2. Respects(i)
    <3>1. job'[i] = job[i] /\ room'.type = room.type /\ room'.elsewhere = room.elsewhere
      BY <1>0 DEF PromoteClonedRepo, Failed, Finish, HydrateTyped, Stages
    <3>2. lock = i => lock' = i /\ gitdir' = gitdir /\ origin' = origin
      BY <1>0, <2>1 DEF PromoteClonedRepo, Failed, Finish, JobOK, Cloning, Changing, UnderLock
    <3> QED BY <1>0, <2>1, <3>1, <3>2 DEF PromoteClonedRepo, Failed, Finish, Respects, JobOK, Cloning, Changing, UnderLock
  <2> QED BY <2>1, <2>2, RespectedKeeps
<1>4. JobOK(j)'
  BY <1>0 DEF PromoteClonedRepo, Failed, Finish, HydrateTyped, Types, Stages, JobOK, ProjectOK, Leftover, IsRepo, Cloning, Changing, UnderLock
<1> QED BY <1>1, <1>2, <1>3, <1>4 DEF HydrateInv

\* The materialization state is written last.
LEMMA RecordHydratedKeeps ==
    ASSUME HydrateInv, NEW j \in Job, RecordHydrated(j)
    PROVE  HydrateInv'
<1>0. HydrateTyped /\ ProjectOK /\ JobOK(j) /\ \A i \in Job : JobOK(i)
  BY DEF HydrateInv
<1> USE AtMoves, FinishMoves, TakeKeeps DEF treevars, rowvars
<1>1. HydrateTyped'
  BY <1>0 DEF RecordHydrated, Finish, HydrateTyped, Types, Stages
<1>2. ProjectOK'
  BY <1>0 DEF RecordHydrated, Finish, HydrateTyped, Types, Stages, JobOK, ProjectOK, Leftover, IsRepo, Cloning, Changing, UnderLock
<1>3. ASSUME NEW i \in Job \ {j} PROVE JobOK(i)'
  <2>1. JobOK(i) /\ i # j
    BY <1>0
  <2>2. Respects(i)
    <3>1. job'[i] = job[i] /\ room'.type = room.type /\ room'.elsewhere = room.elsewhere
      BY <1>0 DEF RecordHydrated, Finish, HydrateTyped, Stages
    <3>2. lock = i => lock' = i /\ gitdir' = gitdir /\ origin' = origin
      BY <1>0, <2>1 DEF RecordHydrated, Finish, JobOK, Cloning, Changing, UnderLock
    <3> QED BY <1>0, <2>1, <3>1, <3>2 DEF RecordHydrated, Finish, Respects, JobOK, Cloning, Changing, UnderLock
  <2> QED BY <2>1, <2>2, RespectedKeeps
<1>4. JobOK(j)'
  BY <1>0 DEF RecordHydrated, Finish, HydrateTyped, Types, Stages, JobOK, ProjectOK, Leftover, IsRepo, Cloning, Changing, UnderLock
<1> QED BY <1>1, <1>2, <1>3, <1>4 DEF HydrateInv

\* The bundle is unpacked beside what is there.
LEMMA ExtractDraftBundleKeeps ==
    ASSUME HydrateInv, NEW j \in Job, ExtractDraftBundle(j)
    PROVE  HydrateInv'
<1>0. HydrateTyped /\ ProjectOK /\ JobOK(j) /\ \A i \in Job : JobOK(i)
  BY DEF HydrateInv
<1> USE AtMoves, FinishMoves, TakeKeeps DEF treevars, rowvars
<1>1. HydrateTyped'
  BY <1>0 DEF ExtractDraftBundle, Failed, Finish, HydrateTyped, Types, Stages
<1>2. ProjectOK'
  <2>0. job[j].at = "extract" /\ \A i \in Job \ {j} : job'[i] = job[i]
    BY <1>0 DEF ExtractDraftBundle, Failed, Finish, HydrateTyped, Stages
  <2>1. \A i \in Job : job[i].at \in Changing => job'[i].at \in Changing
    BY <2>0 DEF Changing
  <2>2. room'.type = room.type /\ room'.elsewhere = room.elsewhere /\ (room'.deadly <=> room.deadly)
    BY <1>0 DEF ExtractDraftBundle, HydrateTyped
  <2> QED BY <1>0, <2>1, <2>2 DEF ExtractDraftBundle, Failed, Finish, HydrateTyped, Types, Stages, JobOK, ProjectOK, Leftover, IsRepo, Cloning, Changing, UnderLock
<1>3. ASSUME NEW i \in Job \ {j} PROVE JobOK(i)'
  <2>1. JobOK(i) /\ i # j
    BY <1>0
  <2>2. Respects(i)
    <3>1. job'[i] = job[i] /\ room'.type = room.type /\ room'.elsewhere = room.elsewhere
      BY <1>0 DEF ExtractDraftBundle, Failed, Finish, HydrateTyped, Stages
    <3>2. lock = i => lock' = i /\ gitdir' = gitdir /\ origin' = origin
      BY <1>0, <2>1 DEF ExtractDraftBundle, Failed, Finish, JobOK, Cloning, Changing, UnderLock
    <3> QED BY <1>0, <2>1, <3>1, <3>2 DEF ExtractDraftBundle, Failed, Finish, Respects, JobOK, Cloning, Changing, UnderLock
  <2> QED BY <2>1, <2>2, RespectedKeeps
<1>4. JobOK(j)'
  BY <1>0 DEF ExtractDraftBundle, Failed, Finish, HydrateTyped, Types, Stages, JobOK, ProjectOK, Leftover, IsRepo, Cloning, Changing, UnderLock
<1> QED BY <1>1, <1>2, <1>3, <1>4 DEF HydrateInv

\* The extracted draft is recorded as available.
LEMMA RecordDraftKeeps ==
    ASSUME HydrateInv, NEW j \in Job, RecordDraft(j)
    PROVE  HydrateInv'
<1>0. HydrateTyped /\ ProjectOK /\ JobOK(j) /\ \A i \in Job : JobOK(i)
  BY DEF HydrateInv
<1> USE AtMoves, FinishMoves, TakeKeeps DEF treevars, rowvars
<1>1. HydrateTyped'
  BY <1>0 DEF RecordDraft, Finish, HydrateTyped, Types, Stages
<1>2. ProjectOK'
  BY <1>0 DEF RecordDraft, Finish, HydrateTyped, Types, Stages, JobOK, ProjectOK, Leftover, IsRepo, Cloning, Changing, UnderLock
<1>3. ASSUME NEW i \in Job \ {j} PROVE JobOK(i)'
  <2>1. JobOK(i) /\ i # j
    BY <1>0
  <2>2. Respects(i)
    <3>1. job'[i] = job[i] /\ room'.type = room.type /\ room'.elsewhere = room.elsewhere
      BY <1>0 DEF RecordDraft, Finish, HydrateTyped, Stages
    <3>2. lock = i => lock' = i /\ gitdir' = gitdir /\ origin' = origin
      BY <1>0, <2>1 DEF RecordDraft, Finish, JobOK, Cloning, Changing, UnderLock
    <3> QED BY <1>0, <2>1, <3>1, <3>2 DEF RecordDraft, Finish, Respects, JobOK, Cloning, Changing, UnderLock
  <2> QED BY <2>1, <2>2, RespectedKeeps
<1>4. JobOK(j)'
  <2>1. job'[j].at = "idle" /\ job'[j].cmd = "none"
    BY <1>0 DEF RecordDraft, Finish, Resting
  <2> QED BY ONLY <2>1 DEF JobOK, Cloning, Changing, UnderLock
<1> QED BY <1>1, <1>2, <1>3, <1>4 DEF HydrateInv

\* Promotion looks at the remote and at the directory first.
LEMMA PromotePreflightKeeps ==
    ASSUME HydrateInv, NEW j \in Job, PromotePreflight(j)
    PROVE  HydrateInv'
<1>0. HydrateTyped /\ ProjectOK /\ JobOK(j) /\ \A i \in Job : JobOK(i)
  BY DEF HydrateInv
<1> USE AtMoves, FinishMoves, TakeKeeps DEF treevars, rowvars
<1>1. HydrateTyped'
  BY <1>0 DEF PromotePreflight, Finish, HydrateTyped, Types, Stages
<1>2. ProjectOK'
  BY <1>0 DEF PromotePreflight, Finish, HydrateTyped, Types, Stages, JobOK, ProjectOK, Leftover, IsRepo, Cloning, Changing, UnderLock
<1>3. ASSUME NEW i \in Job \ {j} PROVE JobOK(i)'
  <2>1. JobOK(i) /\ i # j
    BY <1>0
  <2>2. Respects(i)
    <3>1. job'[i] = job[i] /\ room'.type = room.type /\ room'.elsewhere = room.elsewhere
      BY <1>0 DEF PromotePreflight, Finish, HydrateTyped, Stages
    <3>2. lock = i => lock' = i /\ gitdir' = gitdir /\ origin' = origin
      BY <1>0, <2>1 DEF PromotePreflight, Finish, JobOK, Cloning, Changing, UnderLock
    <3> QED BY <1>0, <2>1, <3>1, <3>2 DEF PromotePreflight, Finish, Respects, JobOK, Cloning, Changing, UnderLock
  <2> QED BY <2>1, <2>2, RespectedKeeps
<1>4. JobOK(j)'
  BY <1>0 DEF PromotePreflight, Finish, HydrateTyped, Types, Stages, JobOK, ProjectOK, Leftover, IsRepo, Cloning, Changing, UnderLock
<1> QED BY <1>1, <1>2, <1>3, <1>4 DEF HydrateInv

\* git init makes a .git where the preflight found none.
LEMMA InitRepoKeeps ==
    ASSUME HydrateInv, NEW j \in Job, InitRepo(j)
    PROVE  HydrateInv'
<1>0. HydrateTyped /\ ProjectOK /\ JobOK(j) /\ \A i \in Job : JobOK(i)
  BY DEF HydrateInv
<1> USE AtMoves, FinishMoves, TakeKeeps DEF treevars, rowvars
<1>1. HydrateTyped'
  BY <1>0 DEF InitRepo, HydrateTyped, Types, Stages
<1>2. ProjectOK'
  BY <1>0 DEF InitRepo, HydrateTyped, Types, Stages, JobOK, ProjectOK, Leftover, IsRepo, Cloning, Changing, UnderLock
<1>3. ASSUME NEW i \in Job \ {j} PROVE JobOK(i)'
  <2>1. JobOK(i) /\ i # j
    BY <1>0
  <2>2. Respects(i)
    <3>1. job'[i] = job[i] /\ room'.type = room.type /\ room'.elsewhere = room.elsewhere
      BY <1>0 DEF InitRepo, HydrateTyped, Stages
    <3>2. lock = i => lock' = i /\ gitdir' = gitdir /\ origin' = origin
      BY <1>0, <2>1 DEF InitRepo, JobOK, Cloning, Changing, UnderLock
    <3> QED BY <1>0, <2>1, <3>1, <3>2 DEF InitRepo, Respects, JobOK, Cloning, Changing, UnderLock
  <2> QED BY <2>1, <2>2, RespectedKeeps
<1>4. JobOK(j)'
  BY <1>0 DEF InitRepo, HydrateTyped, Types, Stages, JobOK, ProjectOK, Leftover, IsRepo, Cloning, Changing, UnderLock
<1> QED BY <1>1, <1>2, <1>3, <1>4 DEF HydrateInv

\* The files are committed.
LEMMA CommitStagedKeeps ==
    ASSUME HydrateInv, NEW j \in Job, CommitStaged(j)
    PROVE  HydrateInv'
<1>0. HydrateTyped /\ ProjectOK /\ JobOK(j) /\ \A i \in Job : JobOK(i)
  BY DEF HydrateInv
<1> USE AtMoves, FinishMoves, TakeKeeps DEF treevars, rowvars
<1>1. HydrateTyped'
  BY <1>0 DEF CommitStaged, Finish, Rollback, HydrateTyped, Types, Stages
<1>2. ProjectOK'
  BY <1>0 DEF CommitStaged, Finish, Rollback, HydrateTyped, Types, Stages, JobOK, ProjectOK, Leftover, IsRepo, Cloning, Changing, UnderLock
<1>3. ASSUME NEW i \in Job \ {j} PROVE JobOK(i)'
  <2>1. JobOK(i) /\ i # j
    BY <1>0
  <2>2. Respects(i)
    <3>1. job'[i] = job[i] /\ room'.type = room.type /\ room'.elsewhere = room.elsewhere
      BY <1>0 DEF CommitStaged, Finish, Rollback, HydrateTyped, Stages
    <3>2. lock = i => lock' = i /\ gitdir' = gitdir /\ origin' = origin
      BY <1>0, <2>1 DEF CommitStaged, Finish, Rollback, JobOK, Cloning, Changing, UnderLock
    <3> QED BY <1>0, <2>1, <3>1, <3>2 DEF CommitStaged, Finish, Rollback, Respects, JobOK, Cloning, Changing, UnderLock
  <2> QED BY <2>1, <2>2, RespectedKeeps
<1>4. JobOK(j)'
  BY <1>0 DEF CommitStaged, Finish, Rollback, HydrateTyped, Types, Stages, JobOK, ProjectOK, Leftover, IsRepo, Cloning, Changing, UnderLock
<1> QED BY <1>1, <1>2, <1>3, <1>4 DEF HydrateInv

\* The remote is added.
LEMMA AddRemoteKeeps ==
    ASSUME HydrateInv, NEW j \in Job, AddRemote(j)
    PROVE  HydrateInv'
<1>0. HydrateTyped /\ ProjectOK /\ JobOK(j) /\ \A i \in Job : JobOK(i)
  BY DEF HydrateInv
<1> USE AtMoves, FinishMoves, TakeKeeps DEF treevars, rowvars
<1>1. HydrateTyped'
  BY <1>0 DEF AddRemote, Finish, Rollback, HydrateTyped, Types, Stages
<1>2. ProjectOK'
  <2>1. /\ job[j].at = "addremote" /\ gitdir # "none" /\ room'.type = room.type /\ room'.elsewhere = room.elsewhere
        /\ (room'.deadly <=> room.deadly) /\ UNCHANGED <<dir, mine, ptype, mat, listed, remote>>
    BY <1>0 DEF AddRemote, HydrateTyped, JobOK, Changing
  <2>2. CASE origin' = TRUE /\ At(j, "push") /\ UNCHANGED gitdir
    <3>1. job'[j].at \in Changing
      BY <1>0, <2>2 DEF HydrateTyped, Stages, Changing
    <3> QED BY <1>0, <2>1, <2>2, <3>1 DEF ProjectOK, Leftover
  <2>3. CASE job[j].type = "local_git" /\ UNCHANGED <<gitdir, origin>>
    <3>1. room.type = "local_git" /\ ~origin
      BY <1>0, <2>1, <2>3 DEF JobOK, Changing
    <3> QED BY <1>0, <2>1, <2>3, <3>1 DEF ProjectOK, Leftover
  <2>4. CASE job[j].type # "local_git" /\ Rollback(j)
    <3>1. room.type # "local_git"
      BY <1>0, <2>1, <2>4 DEF JobOK, Changing
    <3>2. CASE gitdir' = "none" /\ origin' = FALSE
      BY <1>0, <2>1, <3>2 DEF ProjectOK, Leftover, JobOK
    <3>3. CASE room.deadly /\ UNCHANGED <<gitdir, origin>>
      BY <1>0, <2>1, <3>3 DEF ProjectOK, Leftover
    <3> QED BY <2>4, <3>2, <3>3 DEF Rollback
  <2> QED BY <2>2, <2>3, <2>4 DEF AddRemote
<1>3. ASSUME NEW i \in Job \ {j} PROVE JobOK(i)'
  <2>1. JobOK(i) /\ i # j
    BY <1>0
  <2>2. Respects(i)
    <3>1. job'[i] = job[i] /\ room'.type = room.type /\ room'.elsewhere = room.elsewhere
      BY <1>0 DEF AddRemote, Finish, Rollback, HydrateTyped, Stages
    <3>2. lock = i => lock' = i /\ gitdir' = gitdir /\ origin' = origin
      BY <1>0, <2>1 DEF AddRemote, Finish, Rollback, JobOK, Cloning, Changing, UnderLock
    <3> QED BY <1>0, <2>1, <3>1, <3>2 DEF AddRemote, Finish, Rollback, Respects, JobOK, Cloning, Changing, UnderLock
  <2> QED BY <2>1, <2>2, RespectedKeeps
<1>4. JobOK(j)'
  BY <1>0 DEF AddRemote, Finish, Rollback, HydrateTyped, Types, Stages, JobOK, ProjectOK, Leftover, IsRepo, Cloning, Changing, UnderLock
<1> QED BY <1>1, <1>2, <1>3, <1>4 DEF HydrateInv

\* The branch is pushed: the history exists before anything announces it.
LEMMA PushBranchKeeps ==
    ASSUME HydrateInv, NEW j \in Job, PushBranch(j)
    PROVE  HydrateInv'
<1>0. HydrateTyped /\ ProjectOK /\ JobOK(j) /\ \A i \in Job : JobOK(i)
  BY DEF HydrateInv
<1> USE AtMoves, FinishMoves, TakeKeeps DEF treevars, rowvars
<1>1. HydrateTyped'
  BY <1>0 DEF PushBranch, Finish, Rollback, HydrateTyped, Types, Stages
<1>2. ProjectOK'
  BY <1>0 DEF PushBranch, Finish, Rollback, HydrateTyped, Types, Stages, JobOK, ProjectOK, Leftover, IsRepo, Cloning, Changing, UnderLock
<1>3. ASSUME NEW i \in Job \ {j} PROVE JobOK(i)'
  <2>1. JobOK(i) /\ i # j
    BY <1>0
  <2>2. Respects(i)
    <3>1. job'[i] = job[i] /\ room'.type = room.type /\ room'.elsewhere = room.elsewhere
      BY <1>0 DEF PushBranch, Finish, Rollback, HydrateTyped, Stages
    <3>2. lock = i => lock' = i /\ gitdir' = gitdir /\ origin' = origin
      BY <1>0, <2>1 DEF PushBranch, Finish, Rollback, JobOK, Cloning, Changing, UnderLock
    <3> QED BY <1>0, <2>1, <3>1, <3>2 DEF PushBranch, Finish, Rollback, Respects, JobOK, Cloning, Changing, UnderLock
  <2> QED BY <2>1, <2>2, RespectedKeeps
<1>4. JobOK(j)'
  BY <1>0 DEF PushBranch, Finish, Rollback, HydrateTyped, Types, Stages, JobOK, ProjectOK, Leftover, IsRepo, Cloning, Changing, UnderLock
<1> QED BY <1>1, <1>2, <1>3, <1>4 DEF HydrateInv

\* The type changes, or recording fails with the history already on the remote.
LEMMA RecordPromotedKeeps ==
    ASSUME HydrateInv, NEW j \in Job, RecordPromoted(j)
    PROVE  HydrateInv'
<1>0. HydrateTyped /\ ProjectOK /\ JobOK(j) /\ \A i \in Job : JobOK(i)
  BY DEF HydrateInv
<1> USE AtMoves, FinishMoves, TakeKeeps DEF treevars, rowvars
<1>1. HydrateTyped'
  BY <1>0 DEF RecordPromoted, Finish, recordPromotion, HydrateTyped, Types, Stages
<1>2. ProjectOK'
  BY <1>0 DEF RecordPromoted, Finish, recordPromotion, HydrateTyped, Types, Stages, JobOK, ProjectOK, Leftover, IsRepo, Cloning, Changing, UnderLock
<1>3. ASSUME NEW i \in Job \ {j} PROVE JobOK(i)'
  <2>1. JobOK(i) /\ i # j
    BY <1>0
  <2>2. Respects(i)
    <3>1. job'[i] = job[i] /\ room'.type = room.type /\ room'.elsewhere = room.elsewhere
      BY <1>0 DEF RecordPromoted, Finish, recordPromotion, HydrateTyped, Stages
    <3>2. lock = i => lock' = i /\ gitdir' = gitdir /\ origin' = origin
      BY <1>0, <2>1 DEF RecordPromoted, Finish, recordPromotion, JobOK, Cloning, Changing, UnderLock
    <3>3. lock = j /\ (ptype' = "git_repo" \/ ptype' = ptype) /\ listed' = listed /\ remote' = remote /\ staging' = staging \ {j}
      BY <1>0 DEF RecordPromoted, Finish, recordPromotion, JobOK, UnderLock, Changing
    <3> QED BY <2>1, <3>1, <3>2, <3>3 DEF Respects
  <2> QED BY <2>1, <2>2, RespectedKeeps
<1>4. JobOK(j)'
  BY <1>0 DEF RecordPromoted, Finish, recordPromotion, HydrateTyped, Types, Stages, JobOK, ProjectOK, Leftover, IsRepo, Cloning, Changing, UnderLock
<1> QED BY <1>1, <1>2, <1>3, <1>4 DEF HydrateInv

\* promote --draft looks at the directory.
LEMMA CheckFolderKeeps ==
    ASSUME HydrateInv, NEW j \in Job, CheckFolder(j)
    PROVE  HydrateInv'
<1>0. HydrateTyped /\ ProjectOK /\ JobOK(j) /\ \A i \in Job : JobOK(i)
  BY DEF HydrateInv
<1> USE AtMoves, FinishMoves, TakeKeeps DEF treevars, rowvars
<1>1. HydrateTyped'
  BY <1>0 DEF CheckFolder, Finish, HydrateTyped, Types, Stages
<1>2. ProjectOK'
  <2>0. job[j].at \notin Changing /\ \A i \in Job \ {j} : job'[i] = job[i]
    BY <1>0 DEF CheckFolder, Finish, HydrateTyped, Stages, Changing
  <2>1. \A i \in Job : job[i].at \in Changing => job'[i].at \in Changing
    BY <2>0
  <2>2. room'.type = room.type /\ room'.elsewhere = room.elsewhere /\ (room'.deadly <=> room.deadly)
    BY <1>0 DEF CheckFolder, Finish, HydrateTyped
  <2> QED BY <1>0, <2>1, <2>2 DEF CheckFolder, Finish, HydrateTyped, Types, JobOK, ProjectOK, Leftover, IsRepo
<1>3. ASSUME NEW i \in Job \ {j} PROVE JobOK(i)'
  <2>1. JobOK(i) /\ i # j
    BY <1>0
  <2>2. Respects(i)
    <3>1. job'[i] = job[i] /\ room'.type = room.type /\ room'.elsewhere = room.elsewhere
      BY <1>0 DEF CheckFolder, Finish, HydrateTyped, Stages
    <3>2. lock = i => lock' = i /\ gitdir' = gitdir /\ origin' = origin
      BY <1>0, <2>1 DEF CheckFolder, Finish, JobOK, Cloning, Changing, UnderLock
    <3> QED BY <1>0, <2>1, <3>1, <3>2 DEF CheckFolder, Finish, Respects, JobOK, Cloning, Changing, UnderLock
  <2> QED BY <2>1, <2>2, RespectedKeeps
<1>4. JobOK(j)'
  BY <1>0 DEF CheckFolder, Finish, HydrateTyped, Types, Stages, JobOK, ProjectOK, Leftover, IsRepo, Cloning, Changing, UnderLock
<1> QED BY <1>1, <1>2, <1>3, <1>4 DEF HydrateInv

\* The promotion to a draft is recorded, whatever the row has become meanwhile.
LEMMA RecordDraftPromotionKeeps ==
    ASSUME HydrateInv, NEW j \in Job, RecordDraftPromotion(j)
    PROVE  HydrateInv'
<1>0. HydrateTyped /\ ProjectOK /\ JobOK(j) /\ \A i \in Job : JobOK(i)
  BY DEF HydrateInv
<1> USE AtMoves, FinishMoves, TakeKeeps DEF treevars, rowvars
<1>1. HydrateTyped'
  BY <1>0 DEF RecordDraftPromotion, Finish, recordPromotion, HydrateTyped, Types, Stages
<1>2. ProjectOK'
  <2>0. job[j].at \notin Changing /\ \A i \in Job \ {j} : job'[i] = job[i]
    BY <1>0 DEF RecordDraftPromotion, Finish, recordPromotion, HydrateTyped, Stages, Changing
  <2>1. \A i \in Job : job[i].at \in Changing => job'[i].at \in Changing
    BY <2>0
  <2>2. room'.type = room.type /\ room'.elsewhere = room.elsewhere /\ (room'.deadly <=> room.deadly)
    BY <1>0 DEF RecordDraftPromotion, Finish, recordPromotion, HydrateTyped
  <2> QED BY <1>0, <2>1, <2>2 DEF RecordDraftPromotion, Finish, recordPromotion, HydrateTyped, Types, JobOK, ProjectOK, Leftover, IsRepo
<1>3. ASSUME NEW i \in Job \ {j} PROVE JobOK(i)'
  <2>1. JobOK(i) /\ i # j
    BY <1>0
  <2>2. Respects(i)
    <3>1. job'[i] = job[i] /\ room'.type = room.type /\ room'.elsewhere = room.elsewhere
      BY <1>0 DEF RecordDraftPromotion, Finish, recordPromotion, HydrateTyped, Stages
    <3>2. lock = i => lock' = i /\ gitdir' = gitdir /\ origin' = origin
      BY <1>0, <2>1 DEF RecordDraftPromotion, Finish, recordPromotion, JobOK, Cloning, Changing, UnderLock
    <3>3. /\ ptype' = ptype \/ ptype' = "draft_project"
          /\ listed' = listed /\ remote' = remote /\ staging' = staging \ {j}
      BY <1>0 DEF RecordDraftPromotion, Finish, recordPromotion
    <3> QED BY <2>1, <3>1, <3>2, <3>3 DEF Respects
  <2> QED BY <2>1, <2>2, RespectedKeeps
<1>4. JobOK(j)'
  BY <1>0 DEF RecordDraftPromotion, Finish, recordPromotion, HydrateTyped, Types, Stages, JobOK, ProjectOK, Leftover, IsRepo, Cloning, Changing, UnderLock
<1> QED BY <1>1, <1>2, <1>3, <1>4 DEF HydrateInv

\* The repository lock, or the operation gives up (AcquireRepoLock).
LEMMA AcquireRepoLockKeeps ==
    ASSUME HydrateInv, NEW j \in Job, AcquireRepoLock(j)
    PROVE  HydrateInv'
<1>0. HydrateTyped /\ ProjectOK /\ JobOK(j) /\ \A i \in Job : JobOK(i)
  BY DEF HydrateInv
<1> USE AtMoves, FinishMoves, TakeKeeps DEF treevars, rowvars
<1>a. job[j].cmd \in Stages /\ job[j].at = "lock"
  BY <1>0 DEF AcquireRepoLock, JobOK, Stages
<1>b. /\ job' \in [Job -> Process] /\ \A i \in Job \ {j} : job'[i] = job[i]
      /\ \/ lock = "none" /\ lock' = j /\ job'[j].at = job[j].cmd /\ job'[j].cmd = job[j].cmd /\ job'[j].type = job[j].type
         \/ lock # "none" /\ lock' = lock /\ job'[j].at = "idle" /\ job'[j].cmd = "none"
  BY <1>0, <1>a DEF AcquireRepoLock
<1>1. HydrateTyped'
  BY <1>0, <1>a, <1>b DEF AcquireRepoLock, HydrateTyped, Types, Stages
<1>2. ProjectOK'
  <2>1. \A i \in Job : job[i].at \in Changing => job'[i].at \in Changing
    BY <1>a, <1>b DEF Changing
  <2> QED BY <1>0, <2>1 DEF AcquireRepoLock, HydrateTyped, Types, Stages, JobOK, ProjectOK, Leftover, IsRepo, Cloning, Changing, UnderLock
<1>3. ASSUME NEW i \in Job \ {j} PROVE JobOK(i)'
  <2>1. JobOK(i) /\ i # j
    BY <1>0
  <2>2. Respects(i)
    <3>1. job'[i] = job[i] /\ room'.type = room.type /\ room'.elsewhere = room.elsewhere
      BY <1>0, <1>a, <1>b DEF AcquireRepoLock, HydrateTyped, Stages
    <3>2. lock = i => lock' = i /\ gitdir' = gitdir /\ origin' = origin
      <4>1. i # "none" /\ treevars' = treevars
        BY HydrateAssumption DEF AcquireRepoLock
      <4> QED BY <1>b, <2>1, <4>1
    <3> QED BY <1>0, <2>1, <3>1, <3>2 DEF AcquireRepoLock, Respects, JobOK, Cloning, Changing, UnderLock
  <2> QED BY <2>1, <2>2, RespectedKeeps
<1>4. JobOK(j)'
  BY <1>0, <1>a, <1>b DEF AcquireRepoLock, HydrateTyped, Types, Stages, JobOK, ProjectOK, Leftover, IsRepo, Cloning, Changing, UnderLock
<1> QED BY <1>1, <1>2, <1>3, <1>4 DEF HydrateInv

\* A command that starts.
LEMMA StartMoves ==
    ASSUME HydrateTyped, NEW j \in Job, NEW next \in Stages, 
           NEW cmd \in {"hydrate", "materialize", "promote", "promote draft", "draft", "sweep"}, Start(j, cmd, next)
    PROVE  /\ job[j].at = "idle" /\ job' \in [Job -> Process] /\ \A i \in Job \ {j} : job'[i] = job[i]
           /\ job'[j].at = next /\ job'[j].cmd = cmd /\ job'[j].type = ptype
           /\ room' \in World /\ room'.type = room.type /\ room'.elsewhere = room.elsewhere /\ (room'.deadly <=> room.deadly)
<1> DEFINE p == [Resting EXCEPT !.at = next, !.cmd = cmd, !.type = ptype]
<1>1. p \in Process /\ p.at = next /\ p.cmd = cmd /\ p.type = ptype
  BY DEF HydrateTyped, Resting, Process
<1>2. job' = [job EXCEPT ![j] = p] /\ job[j] = Resting
  BY DEF Start
<1>3. Take("starts") /\ room \in World
  BY DEF Start, HydrateTyped
<1> HIDE DEF p
<1>4. Resting.at = "idle"
  BY DEF Resting
<1> QED BY <1>1, <1>2, <1>3, <1>4, Moves, TakeKeeps

\* Before it removes anything, promoteClonedRepo looks at the target again.
LEMMA RevalidateKeeps ==
    ASSUME HydrateInv, NEW j \in Job, Revalidate(j)
    PROVE  HydrateInv'
<1>0. HydrateTyped /\ ProjectOK /\ JobOK(j) /\ \A i \in Job : JobOK(i)
  BY DEF HydrateInv
<1> USE AtMoves, FinishMoves, TakeKeeps DEF treevars, rowvars
<1>a. /\ job' \in [Job -> Process] /\ \A i \in Job \ {j} : job'[i] = job[i]
      /\ room' \in World /\ room'.type = room.type /\ room'.elsewhere = room.elsewhere /\ (room'.deadly <=> room.deadly)
      /\ room' = room /\ job[j].at = "cloned"
      /\ \/ /\ job'[j].at = "remove" /\ job'[j].cmd = job[j].cmd /\ job'[j].saw = mine /\ ensureHydratableTarget
            /\ UNCHANGED <<staging, lock, mat>>
         \/ Failed(j) /\ job'[j].at = "idle" /\ job'[j].cmd = "none"
  <2>1. CASE ensureHydratableTarget /\ UNCHANGED <<staging, lock, mat>>
             /\ job' = [job EXCEPT ![j].at = "remove", ![j].saw = mine, ![j].was = dir]
    <3> DEFINE p == [job[j] EXCEPT !.at = "remove", !.saw = mine, !.was = dir]
    <3>0. job[j] \in Process /\ mine \in SUBSET File /\ dir \in {"absent", "empty", "skeleton", "content"}
      BY <1>0 DEF HydrateTyped
    <3>1. p \in Process /\ p.at = "remove" /\ p.cmd = job[j].cmd /\ p.saw = mine
      BY <3>0 DEF Process, Stages
    <3>2. job' = [job EXCEPT ![j] = p]
      BY <1>0, <2>1 DEF HydrateTyped
    <3> HIDE DEF p
    <3> QED BY <1>0, <2>1, <3>1, <3>2, Moves DEF Revalidate, HydrateTyped
  <2>2. CASE Failed(j)
    BY <1>0, <2>2 DEF Revalidate, Failed, Finish, HydrateTyped
  <2> QED BY <2>1, <2>2 DEF Revalidate
<1>1. HydrateTyped'
  BY <1>0, <1>a DEF Revalidate, Failed, Finish, ensureHydratableTarget, HydrateTyped, Types
<1>2. ProjectOK'
  <2>1. \A i \in Job : job[i].at \in Changing => job'[i].at \in Changing
    BY <1>a DEF Changing
  <2> QED BY <1>0, <1>a, <2>1 DEF Revalidate, Failed, Finish, ensureHydratableTarget, HydrateTyped, Types, JobOK, ProjectOK, Leftover, IsRepo, SkeletonProject
<1>3. ASSUME NEW i \in Job \ {j} PROVE JobOK(i)'
  <2>1. JobOK(i) /\ i # j
    BY <1>0
  <2>2. Respects(i)
    <3>2. lock = i => lock' = i /\ gitdir' = gitdir /\ origin' = origin
      BY <1>0, <2>1 DEF Revalidate, Failed, Finish, ensureHydratableTarget, JobOK, Cloning, Changing, UnderLock
    <3> QED BY <1>0, <1>a, <2>1, <3>2 DEF Revalidate, Failed, Finish, ensureHydratableTarget, Respects, JobOK, Cloning, Changing, UnderLock
  <2> QED BY <2>1, <2>2, RespectedKeeps
<1>4. JobOK(j)'
  BY <1>0, <1>a DEF Revalidate, Failed, Finish, ensureHydratableTarget, JobOK, ProjectOK, Cloning, Changing, UnderLock
<1> QED BY <1>1, <1>2, <1>3, <1>4 DEF HydrateInv

\* The sweep removes staging directories under the project's lock, or by age those
\* of a project it did not find listed.
LEMMA RemoveOrphanKeeps ==
    ASSUME HydrateInv, NEW j \in Job, RemoveOrphan(j)
    PROVE  HydrateInv'
<1>0. HydrateTyped /\ ProjectOK /\ JobOK(j) /\ \A i \in Job : JobOK(i)
  BY DEF HydrateInv
<1> USE AtMoves, FinishMoves, TakeKeeps DEF treevars, rowvars
<1>a. /\ job' \in [Job -> Process] /\ \A i \in Job \ {j} : job'[i] = job[i]
      /\ room' \in World /\ room'.type = room.type /\ room'.elsewhere = room.elsewhere /\ (room'.deadly <=> room.deadly)
  BY <1>0 DEF RemoveOrphan, HydrateTyped, Types, Stages
<1>1. HydrateTyped'
  BY <1>0, <1>a DEF RemoveOrphan, HydrateTyped, Types
<1>2. ProjectOK'
  <2>1. \A i \in Job : job[i].at \in Changing => job'[i].at \in Changing
    BY <1>0, <1>a DEF RemoveOrphan, Changing, Resting
  <2> QED BY <1>0, <1>a, <2>1 DEF RemoveOrphan, HydrateTyped, Types, JobOK, ProjectOK, Leftover, IsRepo, SkeletonProject
<1>3. ASSUME NEW i \in Job \ {j} PROVE JobOK(i)'
  <2>1. JobOK(i) /\ i # j
    BY <1>0
  <2>2. Respects(i)
    <3>2. lock = i => lock' = i /\ gitdir' = gitdir /\ origin' = origin
      BY <1>0, <2>1 DEF RemoveOrphan, JobOK, Cloning, Changing, UnderLock
    <3>3. i \in staging => i \in staging' \/ ~listed' \/ (lock # i /\ job[i].at \notin Cloning)
      <4>1. CASE job[j].was = "mapped" /\ lock = "none"
        BY HydrateAssumption, <4>1, <2>1 DEF JobOK, UnderLock
      <4>2. CASE job[j].was = "unmapped"
        BY <1>0, <4>2 DEF RemoveOrphan, JobOK
      <4>3. CASE job[j].was = "mapped" /\ lock # "none"
        BY <4>3 DEF RemoveOrphan
      <4> QED BY <4>1, <4>2, <4>3 DEF RemoveOrphan
    <3> QED BY <1>0, <1>a, <2>1, <3>2, <3>3 DEF RemoveOrphan, Respects, JobOK, Cloning, Changing, UnderLock
  <2> QED BY <2>1, <2>2, RespectedKeeps
<1>4. JobOK(j)'
  BY <1>0, <1>a DEF RemoveOrphan, HydrateTyped, Types, Stages, JobOK, ProjectOK, Resting, Cloning, Changing, UnderLock
<1> QED BY <1>1, <1>2, <1>3, <1>4 DEF HydrateInv

\* A command begins: hydrate.
LEMMA HydrateProjectKeeps ==
    ASSUME HydrateInv, NEW j \in Job, HydrateProject(j)
    PROVE  HydrateInv'
<1>0. HydrateTyped /\ ProjectOK /\ JobOK(j) /\ \A i \in Job : JobOK(i)
  BY DEF HydrateInv
<1> USE AtMoves, FinishMoves, TakeKeeps DEF treevars, rowvars
<1>a. /\ job' \in [Job -> Process] /\ \A i \in Job \ {j} : job'[i] = job[i]
      /\ room' \in World /\ room'.type = room.type /\ room'.elsewhere = room.elsewhere /\ (room'.deadly <=> room.deadly)
      /\ job[j].at = "idle" /\ job'[j].at = "lock" /\ job'[j].cmd = "hydrate" /\ job'[j].type = ptype
  <2>1. Start(j, "hydrate", "lock")
    BY DEF HydrateProject
  <2> QED BY <1>0, <2>1, StartMoves DEF Stages
<1>1. HydrateTyped'
  BY <1>0, <1>a DEF HydrateProject, Start, HydrateTyped, Types
<1>2. ProjectOK'
  <2>1. \A i \in Job : job[i].at \in Changing => job'[i].at \in Changing
    BY <1>a DEF Changing
  <2> QED BY <1>0, <1>a, <2>1 DEF HydrateProject, Start, HydrateTyped, Types, JobOK, ProjectOK, Leftover, IsRepo, SkeletonProject
<1>3. ASSUME NEW i \in Job \ {j} PROVE JobOK(i)'
  <2>1. JobOK(i) /\ i # j
    BY <1>0
  <2>2. Respects(i)
    <3>2. lock = i => lock' = i /\ gitdir' = gitdir /\ origin' = origin
      BY <1>0, <2>1 DEF HydrateProject, Start, JobOK, Cloning, Changing, UnderLock
    <3> QED BY <1>0, <1>a, <2>1, <3>2 DEF HydrateProject, Start, Respects, JobOK, Cloning, Changing, UnderLock
  <2> QED BY <2>1, <2>2, RespectedKeeps
<1>4. JobOK(j)'
  BY <1>0, <1>a DEF HydrateProject, Start, JobOK, ProjectOK, Cloning, Changing, UnderLock
<1> QED BY <1>1, <1>2, <1>3, <1>4 DEF HydrateInv

\* A command begins: materialize, of a draft.
LEMMA MaterializeDraftKeeps ==
    ASSUME HydrateInv, NEW j \in Job, MaterializeDraft(j)
    PROVE  HydrateInv'
<1>0. HydrateTyped /\ ProjectOK /\ JobOK(j) /\ \A i \in Job : JobOK(i)
  BY DEF HydrateInv
<1> USE AtMoves, FinishMoves, TakeKeeps DEF treevars, rowvars
<1>a. /\ job' \in [Job -> Process] /\ \A i \in Job \ {j} : job'[i] = job[i]
      /\ room' \in World /\ room'.type = room.type /\ room'.elsewhere = room.elsewhere /\ (room'.deadly <=> room.deadly)
      /\ job[j].at = "idle" /\ job'[j].at = "extract" /\ job'[j].cmd = "draft" /\ job'[j].type = ptype
  <2>1. Start(j, "draft", "extract")
    BY DEF MaterializeDraft
  <2> QED BY <1>0, <2>1, StartMoves DEF Stages
<1>1. HydrateTyped'
  BY <1>0, <1>a DEF MaterializeDraft, Start, HydrateTyped, Types
<1>2. ProjectOK'
  <2>1. \A i \in Job : job[i].at \in Changing => job'[i].at \in Changing
    BY <1>a DEF Changing
  <2> QED BY <1>0, <1>a, <2>1 DEF MaterializeDraft, Start, HydrateTyped, Types, JobOK, ProjectOK, Leftover, IsRepo, SkeletonProject
<1>3. ASSUME NEW i \in Job \ {j} PROVE JobOK(i)'
  <2>1. JobOK(i) /\ i # j
    BY <1>0
  <2>2. Respects(i)
    <3>2. lock = i => lock' = i /\ gitdir' = gitdir /\ origin' = origin
      BY <1>0, <2>1 DEF MaterializeDraft, Start, JobOK, Cloning, Changing, UnderLock
    <3> QED BY <1>0, <1>a, <2>1, <3>2 DEF MaterializeDraft, Start, Respects, JobOK, Cloning, Changing, UnderLock
  <2> QED BY <2>1, <2>2, RespectedKeeps
<1>4. JobOK(j)'
  BY <1>0, <1>a DEF MaterializeDraft, Start, JobOK, ProjectOK, Cloning, Changing, UnderLock
<1> QED BY <1>1, <1>2, <1>3, <1>4 DEF HydrateInv

\* A command begins: promote.
LEMMA PromoteToGitRepoKeeps ==
    ASSUME HydrateInv, NEW j \in Job, PromoteToGitRepo(j)
    PROVE  HydrateInv'
<1>0. HydrateTyped /\ ProjectOK /\ JobOK(j) /\ \A i \in Job : JobOK(i)
  BY DEF HydrateInv
<1> USE AtMoves, FinishMoves, TakeKeeps DEF treevars, rowvars
<1>a. /\ job' \in [Job -> Process] /\ \A i \in Job \ {j} : job'[i] = job[i]
      /\ room' \in World /\ room'.type = room.type /\ room'.elsewhere = room.elsewhere /\ (room'.deadly <=> room.deadly)
      /\ job[j].at = "idle" /\ job'[j].at = "lock" /\ job'[j].cmd = "promote" /\ job'[j].type = ptype
  <2>1. Start(j, "promote", "lock")
    BY DEF PromoteToGitRepo
  <2> QED BY <1>0, <2>1, StartMoves DEF Stages
<1>1. HydrateTyped'
  BY <1>0, <1>a DEF PromoteToGitRepo, Start, HydrateTyped, Types
<1>2. ProjectOK'
  <2>1. \A i \in Job : job[i].at \in Changing => job'[i].at \in Changing
    BY <1>a DEF Changing
  <2> QED BY <1>0, <1>a, <2>1 DEF PromoteToGitRepo, Start, HydrateTyped, Types, JobOK, ProjectOK, Leftover, IsRepo, SkeletonProject
<1>3. ASSUME NEW i \in Job \ {j} PROVE JobOK(i)'
  <2>1. JobOK(i) /\ i # j
    BY <1>0
  <2>2. Respects(i)
    <3>2. lock = i => lock' = i /\ gitdir' = gitdir /\ origin' = origin
      BY <1>0, <2>1 DEF PromoteToGitRepo, Start, JobOK, Cloning, Changing, UnderLock
    <3> QED BY <1>0, <1>a, <2>1, <3>2 DEF PromoteToGitRepo, Start, Respects, JobOK, Cloning, Changing, UnderLock
  <2> QED BY <2>1, <2>2, RespectedKeeps
<1>4. JobOK(j)'
  BY <1>0, <1>a DEF PromoteToGitRepo, Start, JobOK, ProjectOK, Cloning, Changing, UnderLock
<1> QED BY <1>1, <1>2, <1>3, <1>4 DEF HydrateInv

\* A command begins: materialize, of a git repository.
LEMMA MaterializeGitRepoKeeps ==
    ASSUME HydrateInv, NEW j \in Job, MaterializeGitRepo(j)
    PROVE  HydrateInv'
<1>0. HydrateTyped /\ ProjectOK /\ JobOK(j) /\ \A i \in Job : JobOK(i)
  BY DEF HydrateInv
<1> USE AtMoves, FinishMoves, TakeKeeps DEF treevars, rowvars
<1>a. /\ job' \in [Job -> Process] /\ \A i \in Job \ {j} : job'[i] = job[i]
      /\ room' \in World /\ room'.type = room.type /\ room'.elsewhere = room.elsewhere /\ (room'.deadly <=> room.deadly)
      /\ job[j].at = "idle" /\ job'[j].at = "lock" /\ job'[j].cmd = "materialize" /\ job'[j].type = ptype
  <2> DEFINE p == [Resting EXCEPT !.at = "lock", !.cmd = "materialize", !.type = ptype]
  <2>1. p \in Process /\ p.at = "lock" /\ p.cmd = "materialize" /\ p.type = ptype
    BY <1>0 DEF HydrateTyped, Resting, Process, Stages
  <2>2. job[j].at = "idle" /\ job' = [job EXCEPT ![j] = p] /\ room' = room
    BY DEF MaterializeGitRepo, Resting
  <2> HIDE DEF p
  <2> QED BY <1>0, <2>1, <2>2, Moves DEF HydrateTyped
<1>1. HydrateTyped'
  BY <1>0, <1>a DEF MaterializeGitRepo, HydrateTyped, Types
<1>2. ProjectOK'
  <2>1. \A i \in Job : job[i].at \in Changing => job'[i].at \in Changing
    BY <1>a DEF Changing
  <2> QED BY <1>0, <1>a, <2>1 DEF MaterializeGitRepo, HydrateTyped, Types, JobOK, ProjectOK, Leftover, IsRepo, SkeletonProject
<1>3. ASSUME NEW i \in Job \ {j} PROVE JobOK(i)'
  <2>1. JobOK(i) /\ i # j
    BY <1>0
  <2>2. Respects(i)
    <3>2. lock = i => lock' = i /\ gitdir' = gitdir /\ origin' = origin
      BY <1>0, <2>1 DEF MaterializeGitRepo, JobOK, Cloning, Changing, UnderLock
    <3> QED BY <1>0, <1>a, <2>1, <3>2 DEF MaterializeGitRepo, Respects, JobOK, Cloning, Changing, UnderLock
  <2> QED BY <2>1, <2>2, RespectedKeeps
<1>4. JobOK(j)'
  BY <1>0, <1>a DEF MaterializeGitRepo, JobOK, ProjectOK, Cloning, Changing, UnderLock
<1> QED BY <1>1, <1>2, <1>3, <1>4 DEF HydrateInv

\* A command begins: the sweep for abandoned staging directories lists the projects.
LEMMA SweepStagingOrphansKeeps ==
    ASSUME HydrateInv, NEW j \in Job, SweepStagingOrphans(j)
    PROVE  HydrateInv'
<1>0. HydrateTyped /\ ProjectOK /\ JobOK(j) /\ \A i \in Job : JobOK(i)
  BY DEF HydrateInv
<1> USE AtMoves, FinishMoves, TakeKeeps DEF treevars, rowvars
<1>a. /\ job' \in [Job -> Process] /\ \A i \in Job \ {j} : job'[i] = job[i]
      /\ room' \in World /\ room'.type = room.type /\ room'.elsewhere = room.elsewhere /\ (room'.deadly <=> room.deadly)
      /\ job[j].at = "idle" /\ job'[j].at = "candidates" /\ job'[j].cmd = "sweep"
      /\ job'[j].was = IF listed THEN "mapped" ELSE "unmapped"
  <2> DEFINE w == IF listed THEN "mapped" ELSE "unmapped"
             p == [Resting EXCEPT !.at = "candidates", !.cmd = "sweep", !.was = w]
  <2>1. p \in Process /\ p.at = "candidates" /\ p.cmd = "sweep" /\ p.was = w
    BY DEF Resting, Process, Stages
  <2>2. job[j].at = "idle" /\ job' = [job EXCEPT ![j] = p] /\ Take("starts")
    BY DEF SweepStagingOrphans, Resting
  <2>3. room \in World
    BY <1>0 DEF HydrateTyped
  <2> HIDE DEF p
  <2> QED BY <1>0, <2>1, <2>2, <2>3, Moves
<1>1. HydrateTyped'
  BY <1>0, <1>a DEF SweepStagingOrphans, HydrateTyped, Types
<1>2. ProjectOK'
  <2>1. \A i \in Job : job[i].at \in Changing => job'[i].at \in Changing
    BY <1>a DEF Changing
  <2> QED BY <1>0, <1>a, <2>1 DEF SweepStagingOrphans, HydrateTyped, Types, JobOK, ProjectOK, Leftover, IsRepo, SkeletonProject
<1>3. ASSUME NEW i \in Job \ {j} PROVE JobOK(i)'
  <2>1. JobOK(i) /\ i # j
    BY <1>0
  <2>2. Respects(i)
    <3>2. lock = i => lock' = i /\ gitdir' = gitdir /\ origin' = origin
      BY <1>0, <2>1 DEF SweepStagingOrphans, JobOK, Cloning, Changing, UnderLock
    <3> QED BY <1>0, <1>a, <2>1, <3>2 DEF SweepStagingOrphans, Respects, JobOK, Cloning, Changing, UnderLock
  <2> QED BY <2>1, <2>2, RespectedKeeps
<1>4. JobOK(j)'
  <2>1. job'[j].at = "candidates" /\ job'[j].cmd = "sweep" /\ (job'[j].was = "unmapped" => ~listed')
    BY <1>a DEF SweepStagingOrphans
  <2> QED BY ONLY <2>1 DEF JobOK, Cloning, Changing, UnderLock
<1> QED BY <1>1, <1>2, <1>3, <1>4 DEF HydrateInv

\* A plain folder is materialized in one step.
LEMMA MaterializePlainFolderKeeps ==
    ASSUME HydrateInv, NEW j \in Job, MaterializePlainFolder(j)
    PROVE  HydrateInv'
<1>0. HydrateTyped /\ ProjectOK /\ JobOK(j) /\ \A i \in Job : JobOK(i)
  BY DEF HydrateInv
<1> USE AtMoves, FinishMoves, TakeKeeps DEF treevars, rowvars
<1>a. /\ job' \in [Job -> Process] /\ \A i \in Job \ {j} : job'[i] = job[i]
      /\ room' \in World /\ room'.type = room.type /\ room'.elsewhere = room.elsewhere /\ (room'.deadly <=> room.deadly)
  BY <1>0 DEF MaterializePlainFolder, HydrateTyped, Types, Stages
<1>1. HydrateTyped'
  BY <1>0, <1>a DEF MaterializePlainFolder, HydrateTyped, Types
<1>2. ProjectOK'
  <2>1. \A i \in Job : job[i].at \in Changing => job'[i].at \in Changing
    BY <1>0, <1>a DEF MaterializePlainFolder, Changing, Resting
  <2> QED BY <1>0, <1>a, <2>1 DEF MaterializePlainFolder, HydrateTyped, Types, JobOK, ProjectOK, Leftover, IsRepo, SkeletonProject
<1>3. ASSUME NEW i \in Job \ {j} PROVE JobOK(i)'
  <2>1. JobOK(i) /\ i # j
    BY <1>0
  <2>2. Respects(i)
    <3>2. lock = i => lock' = i /\ gitdir' = gitdir /\ origin' = origin
      BY <1>0, <2>1 DEF MaterializePlainFolder, JobOK, Cloning, Changing, UnderLock
    <3> QED BY <1>0, <1>a, <2>1, <3>2 DEF MaterializePlainFolder, Respects, JobOK, Cloning, Changing, UnderLock
  <2> QED BY <2>1, <2>2, RespectedKeeps
<1>4. JobOK(j)'
  BY <1>0, <1>a DEF MaterializePlainFolder, HydrateTyped, Types, Stages, JobOK, ProjectOK, Resting, Cloning, Changing, UnderLock
<1> QED BY <1>1, <1>2, <1>3, <1>4 DEF HydrateInv

\* A plain folder becomes a draft.
LEMMA PromoteToDraftKeeps ==
    ASSUME HydrateInv, NEW j \in Job, PromoteToDraft(j)
    PROVE  HydrateInv'
<1>0. HydrateTyped /\ ProjectOK /\ JobOK(j) /\ \A i \in Job : JobOK(i)
  BY DEF HydrateInv
<1> USE AtMoves, FinishMoves, TakeKeeps DEF treevars, rowvars
<1>a. /\ job' \in [Job -> Process] /\ \A i \in Job \ {j} : job'[i] = job[i]
      /\ room' \in World /\ room'.type = room.type /\ room'.elsewhere = room.elsewhere /\ (room'.deadly <=> room.deadly)
      /\ job[j].at = "idle" /\ job'[j].at = "look" /\ job'[j].cmd = "promote draft" /\ job'[j].type = ptype
  <2>1. Start(j, "promote draft", "look")
    BY DEF PromoteToDraft
  <2> QED BY <1>0, <2>1, StartMoves DEF Stages
<1>1. HydrateTyped'
  BY <1>0, <1>a DEF PromoteToDraft, Start, HydrateTyped, Types
<1>2. ProjectOK'
  <2>1. \A i \in Job : job[i].at \in Changing => job'[i].at \in Changing
    BY <1>a DEF Changing
  <2> QED BY <1>0, <1>a, <2>1 DEF PromoteToDraft, Start, HydrateTyped, Types, JobOK, ProjectOK, Leftover, IsRepo, SkeletonProject
<1>3. ASSUME NEW i \in Job \ {j} PROVE JobOK(i)'
  <2>1. JobOK(i) /\ i # j
    BY <1>0
  <2>2. Respects(i)
    <3>2. lock = i => lock' = i /\ gitdir' = gitdir /\ origin' = origin
      BY <1>0, <2>1 DEF PromoteToDraft, Start, JobOK, Cloning, Changing, UnderLock
    <3> QED BY <1>0, <1>a, <2>1, <3>2 DEF PromoteToDraft, Start, Respects, JobOK, Cloning, Changing, UnderLock
  <2> QED BY <2>1, <2>2, RespectedKeeps
<1>4. JobOK(j)'
  BY <1>0, <1>a DEF PromoteToDraft, Start, JobOK, ProjectOK, Cloning, Changing, UnderLock
<1> QED BY <1>1, <1>2, <1>3, <1>4 DEF HydrateInv

\* A process dies: only its lock is released.
LEMMA KilledKeeps ==
    ASSUME HydrateInv, NEW j \in Job, Killed(j)
    PROVE  HydrateInv'
<1>0. HydrateTyped /\ ProjectOK /\ JobOK(j) /\ \A i \in Job : JobOK(i)
  BY DEF HydrateInv
<1> USE AtMoves, FinishMoves, TakeKeeps DEF treevars, rowvars
<1>a. /\ job' \in [Job -> Process] /\ \A i \in Job \ {j} : job'[i] = job[i]
      /\ room' \in World /\ room'.type = room.type /\ room'.elsewhere = room.elsewhere /\ (room'.deadly <=> room.deadly)
  BY <1>0 DEF Killed, HydrateTyped, Types, Stages
<1>1. HydrateTyped'
  BY <1>0, <1>a DEF Killed, HydrateTyped, Types
<1>2. ProjectOK'
  BY <1>0, <1>a DEF Killed, HydrateTyped, Types, JobOK, ProjectOK, Leftover, IsRepo, SkeletonProject
<1>3. ASSUME NEW i \in Job \ {j} PROVE JobOK(i)'
  <2>1. JobOK(i) /\ i # j
    BY <1>0
  <2>2. Respects(i)
    <3>2. lock = i => lock' = i /\ gitdir' = gitdir /\ origin' = origin
      BY <1>0, <2>1 DEF Killed, JobOK, Cloning, Changing, UnderLock
    <3> QED BY <1>0, <1>a, <2>1, <3>2 DEF Killed, Respects, JobOK, Cloning, Changing, UnderLock
  <2> QED BY <2>1, <2>2, RespectedKeeps
<1>4. JobOK(j)'
  BY <1>0, <1>a DEF Killed, HydrateTyped, Types, Stages, JobOK, ProjectOK, Resting, Cloning, Changing, UnderLock
<1> QED BY <1>1, <1>2, <1>3, <1>4 DEF HydrateInv


\* The user writes a file; the project is deleted or promoted on another device.
LEMMA WriteFileKeeps ==
    ASSUME HydrateInv, NEW f \in File, WriteFile(f)
    PROVE  HydrateInv'
<1>0. HydrateTyped /\ ProjectOK /\ \A i \in Job : JobOK(i)
  BY DEF HydrateInv
<1>a. room' \in World /\ room'.type = room.type /\ room'.elsewhere = room.elsewhere /\ (room'.deadly <=> room.deadly)
  BY <1>0, TakeKeeps DEF WriteFile, HydrateTyped
<1>1. HydrateTyped'
  BY <1>0, <1>a DEF WriteFile, HydrateTyped, rowvars
<1>2. ProjectOK'
  BY <1>0, <1>a DEF WriteFile, ProjectOK, Leftover, rowvars
<1>3. ASSUME NEW i \in Job PROVE JobOK(i)'
  BY <1>0, <1>a, RespectedKeeps DEF WriteFile, Respects, rowvars
<1> QED BY <1>1, <1>2, <1>3 DEF HydrateInv

\* Another device deletes the project or promotes it.
LEMMA ElsewhereKeeps ==
    ASSUME HydrateInv, DeletedElsewhere \/ PromotedElsewhere \/ UNCHANGED hydrvars
    PROVE  HydrateInv'
<1>0. HydrateTyped /\ ProjectOK /\ \A i \in Job : JobOK(i)
  BY DEF HydrateInv
<1>1. HydrateTyped'
  BY <1>0 DEF HydrateTyped, DeletedElsewhere, PromotedElsewhere, hydrvars, treevars, rowvars, recordPromotion, Types
<1>2. ProjectOK'
  BY <1>0 DEF ProjectOK, Leftover, DeletedElsewhere, PromotedElsewhere, hydrvars, treevars, rowvars, recordPromotion
<1>3. ASSUME NEW i \in Job PROVE JobOK(i)'
  <2>1. Respects(i)
    BY DEF Respects, DeletedElsewhere, PromotedElsewhere, hydrvars, treevars, rowvars, recordPromotion
  <2> QED BY <1>0, <2>1, RespectedKeeps
<1> QED BY <1>1, <1>2, <1>3 DEF HydrateInv

\* A world as it starts: nothing runs, an available repository has its .git.
LEMMA HydrateInitKeeps == HydrateInit => HydrateInv
<1> SUFFICES ASSUME HydrateInit PROVE HydrateInv
  OBVIOUS
<1>1. room \in World
  BY HydrateAssumption DEF HydrateInit, World, Types
<1>2. Resting \in Process /\ Resting.at = "idle" /\ Resting.cmd = "none"
  BY DEF Resting, Process, Stages
<1>3. \A j \in Job : job[j] = Resting
  BY DEF HydrateInit
<1>4. HydrateTyped
  BY <1>1, <1>2 DEF HydrateInit, HydrateTyped, World
<1>5. ProjectOK
  BY <1>1 DEF HydrateInit, ProjectOK, Leftover, World, Types
<1>6. ASSUME NEW j \in Job PROVE JobOK(j)
  BY <1>2, <1>3 DEF JobOK, UnderLock, Cloning, Changing
<1> QED BY <1>4, <1>5, <1>6 DEF HydrateInv

\* Every step of the directory's world.
LEMMA HydrateStep == HydrateInv /\ [HydrateNext]_hydrvars => HydrateInv'
<1> SUFFICES ASSUME HydrateInv, [HydrateNext]_hydrvars PROVE HydrateInv'
  OBVIOUS
<1>1. ASSUME NEW j \in Job, HydrateProject(j) \/ MaterializeGitRepo(j) \/ MaterializePlainFolder(j) \/ MaterializeDraft(j)
             \/ PromoteToDraft(j) \/ PromoteToGitRepo(j) \/ SweepStagingOrphans(j) \/ Killed(j)
      PROVE  HydrateInv'
  BY <1>1, HydrateProjectKeeps, MaterializeGitRepoKeeps, MaterializePlainFolderKeeps, MaterializeDraftKeeps,
     PromoteToDraftKeeps, PromoteToGitRepoKeeps, SweepStagingOrphansKeeps, KilledKeeps
<1>2. ASSUME NEW j \in Job, JobStep(j) PROVE HydrateInv'
  BY <1>2, AcquireRepoLockKeeps, AlreadyRepoKeeps, CloneTempDirKeeps, CloneKeeps, RevalidateKeeps, RemoveTargetKeeps,
     PromoteClonedRepoKeeps, RecordHydratedKeeps, ExtractDraftBundleKeeps, RecordDraftKeeps, CheckFolderKeeps, RecordDraftPromotionKeeps, PromotePreflightKeeps,
     InitRepoKeeps, CommitStagedKeeps, AddRemoteKeeps, PushBranchKeeps, RecordPromotedKeeps, RemoveOrphanKeeps DEF JobStep
<1> QED BY <1>1, <1>2, WriteFileKeeps, ElsewhereKeeps DEF HydrateNext

\* What the invariant says is what StatesHonest promises.
LEMMA HonestByInv == HydrateInv => StatesHonest
<1> SUFFICES ASSUME HydrateInv PROVE StatesHonest
  OBVIOUS
<1>0. HydrateTyped /\ ProjectOK /\ \A i \in Job : JobOK(i)
  BY DEF HydrateInv
<1>1. AnnouncedHistoryExists
  BY <1>0 DEF ProjectOK, AnnouncedHistoryExists
<1>2. RollbackComplete
  BY <1>0 DEF ProjectOK, JobOK, Leftover, RollbackComplete, IsRepo
<1>3. LiveStagingKept
  BY <1>0 DEF JobOK, LiveStagingKept, Cloning
<1>4. AvailableIsThere
  BY <1>0 DEF ProjectOK, AvailableIsThere, IsRepo
<1> QED BY <1>1, <1>2, <1>3, <1>4 DEF StatesHonest

\* What the rows say of a project is so on disk and on the remote, for any
\* number of processes, commands and mishaps, in every world.
THEOREM StatesAreHonest == CheckoutsSpec => []StatesHonest
<1>1. CheckoutsInit => HydrateInv
  BY HydrateInitKeeps DEF CheckoutsInit
<1>2. HydrateInv /\ [CheckoutsNext]_checkoutvars => HydrateInv'
  BY HydrateStep DEF CheckoutsNext, checkoutvars, hydrvars
<1>3. HydrateInv => StatesHonest
  BY HonestByInv
<1> QED BY <1>1, <1>2, <1>3, PTL DEF CheckoutsSpec

\* One step takes no file that was there when the operation last looked:
\* a removal starts from a directory seen without any.
LEMMA UserFilesStep == HydrateInv /\ [HydrateNext]_hydrvars =>
    \A f \in mine \ mine' : \E j \in Job : job[j].at = "remove" /\ f \notin job[j].saw
<1> SUFFICES ASSUME HydrateInv, [HydrateNext]_hydrvars, NEW f \in mine \ mine'
             PROVE  \E j \in Job : job[j].at = "remove" /\ f \notin job[j].saw
  OBVIOUS
<1>1. ASSUME NEW j \in Job, RemoveTarget(j) PROVE job[j].at = "remove" /\ f \notin job[j].saw
  BY <1>1 DEF RemoveTarget, HydrateInv, JobOK
<1>2. ASSUME NEW j \in Job, JobStep(j), ~RemoveTarget(j) PROVE mine' = mine
  BY <1>2 DEF JobStep, treevars, AcquireRepoLock, AlreadyRepo, CloneTempDir, Clone, Revalidate,
     PromoteClonedRepo, RecordHydrated, ExtractDraftBundle, RecordDraft, CheckFolder, RecordDraftPromotion, PromotePreflight,
     InitRepo, CommitStaged, AddRemote, PushBranch, RecordPromoted, RemoveOrphan
<1>3. ASSUME NEW j \in Job, HydrateProject(j) \/ MaterializeGitRepo(j) \/ MaterializePlainFolder(j) \/ MaterializeDraft(j)
             \/ PromoteToDraft(j) \/ PromoteToGitRepo(j) \/ SweepStagingOrphans(j) \/ Killed(j)
      PROVE  mine' = mine
  BY <1>3 DEF treevars, HydrateProject, Start, MaterializeGitRepo, MaterializePlainFolder, MaterializeDraft,
     PromoteToDraft, PromoteToGitRepo, SweepStagingOrphans, Killed
<1>4. (\E g \in File : WriteFile(g)) \/ DeletedElsewhere \/ PromotedElsewhere \/ UNCHANGED hydrvars => mine \subseteq mine'
  BY DEF WriteFile, DeletedElsewhere, PromotedElsewhere, hydrvars, treevars
<1> QED BY <1>1, <1>2, <1>3, <1>4 DEF HydrateNext

-----------------------------------------------------------------------------
(* Worktrees: the invariant.                                               *)

\* The steps a command is at.
Steps == {"ready", "lock", "locked", "added", "registered", "working", "inspect", "report", "sweep", "mark", "list",
          "gate", "recheck", "remove", "branch", "deregister", "look"}
Commands == {"run", "new", "adopt", "agent adopt", "finish", "pr", "remove", "cleanup", "sweep", "detach"}
Removing == {"recheck", "remove", "branch", "deregister"}
WtRow == [id : Nat, status : {"none", "active", "removed"}, by : {"none", "agent", "adopted"}, branch : BOOLEAN]
AgentRun == [status : {"none", "running", "complete", "failed", "interrupted"}, pid : {"none", "alive", "dead"},
             by : {"none", "run", "adopt"}, wt : Nat]
Operation == [at : Steps, cmd : Commands \cup {"none"}, force : BOOLEAN, run : RunId \cup {"none"},
              stale : SUBSET RunId, tip : Nat, loose : Nat, row : WtRow]
Checkout == [disk : BOOLEAN, branch : BOOLEAN, head : {"branch", "detached"}, tip : Nat, loose : Nat, dirty : BOOLEAN]
Quota == [start : {"none", "created", "attached", "detached"}, cmds : SUBSET Commands,
          force : BOOLEAN, calls : Nat, mishaps : Nat, deadly : BOOLEAN]

\* What a command is at, the rows, the checkout, and the bounds of the world.
WtTyped ==
    /\ op \in [Cmd -> Operation] /\ reg \in WtRow /\ agentrun \in [RunId -> AgentRun]
    /\ tree \in Checkout
    /\ base \in [merged : Nat, fetched : Nat]
    /\ quota \in Quota

\* A run that agent run recorded and whose recorder lives.
Live(r) == agentrun[r].by = "run" /\ agentrun[r].status = "running" /\ agentrun[r].pid = "alive"

\* The branch's commits upstream; uncommitted edits and detached commits are in
\* a checkout; a row of a branch means the checkout is on it, unless somebody detaches.
CheckoutOK ==
    /\ base.fetched <= base.merged
    /\ tree.dirty => tree.disk
    /\ ~tree.branch => tree.tip = 0 /\ ~(tree.disk /\ tree.head = "branch")
    /\ "detach" \notin quota.cmds => (tree.head = "branch" => tree.loose = 0) /\ (reg.branch => tree.head = "branch")

\* The first row of a worktree is the only one agent run records runs for.
RowOK ==
    /\ reg.status = "none" <=> reg.id = 0
    /\ \A r \in RunId : agentrun[r].by = "run" => reg.id # 0 /\ agentrun[r].wt = 1
    /\ "remove" \notin quota.cmds => \A r \in RunId : Live(r) => tree.disk /\ reg.status = "active" /\ reg.id = 1
    /\ \A r \in RunId : agentrun[r].status = "interrupted" => agentrun[r].pid = "dead"

\* A checkout that a command made has its row, or the command is still to insert it.
KnownOK ==
    quota.start = "none" /\ ~quota.deadly /\ tree.disk =>
        (reg.status = "active" /\ reg.by = "agent") \/ \E p \in Cmd : op[p].at = "added"

\* What a command may rely on where it is.
LockedOK(p) ==
    /\ op[p].at \in {"locked", "added", "registered", "recheck", "branch"} => rlock = p
    /\ op[p].at \in {"remove", "deregister"} => op[p].cmd = "remove" \/ rlock = p
    /\ op[p].at \in {"recheck", "branch"} => op[p].cmd = "cleanup"
    /\ op[p].at \in {"remove", "deregister"} => op[p].cmd \in {"cleanup", "remove"}
    /\ op[p].at = "look" => op[p].cmd = "remove"
    /\ op[p].at = "inspect" => op[p].cmd = "adopt"
    /\ op[p].at \in {"added", "registered"} => op[p].cmd \in {"run", "new"}
    /\ op[p].cmd = "remove" => "remove" \in quota.cmds
FreshOK(p) ==
    /\ op[p].at = "added" => reg.id = 0 /\ ("detach" \notin quota.cmds => tree.head = "branch")
    /\ op[p].at = "registered" => reg.id = 1 /\ \A r \in RunId : agentrun[r].by # "run"
    /\ op[p].at \in {"added", "registered"} /\ "remove" \notin quota.cmds => tree.disk
    /\ op[p].at = "registered" /\ "remove" \notin quota.cmds => reg.status = "active"
CleanupOK(p) ==
    /\ op[p].row.id <= reg.id
    /\ op[p].cmd = "cleanup" /\ op[p].at \in {"lock", "locked"} \cup Removing => op[p].row.id # 0
    /\ op[p].cmd = "remove" => op[p].row.id # 0
    /\ op[p].cmd = "cleanup" /\ op[p].at \in Removing /\ "remove" \notin quota.cmds => \A r \in RunId : ~Live(r)
    /\ op[p].at \in {"branch", "deregister"} /\ quota.start = "none" /\ ~quota.deadly => ~tree.disk
    /\ op[p].cmd = "cleanup" /\ op[p].at = "locked" => op[p].tip <= tree.tip
    /\ op[p].cmd = "cleanup" /\ op[p].at \in {"recheck", "remove", "branch"} => op[p].row.branch /\ op[p].tip <= base.merged
    /\ "detach" \notin quota.cmds /\ op[p].row.branch =>
           tree.head = "branch" /\ (op[p].cmd = "cleanup" /\ op[p].at \in {"locked"} \cup Removing => op[p].loose = 0)
RunsOK(p) ==
    /\ \A r \in op[p].stale : agentrun[r].pid # "none"
    /\ op[p].at = "report" => op[p].run \in RunId /\ agentrun[op[p].run].by = "adopt"
    /\ op[p].at = "working" => op[p].run \in RunId

WtInv ==
    /\ WtTyped /\ CheckoutOK /\ RowOK /\ KnownOK
    /\ \A p \in Cmd : LockedOK(p) /\ FreshOK(p) /\ CleanupOK(p) /\ RunsOK(p)

\* What may still happen is counted down, the rest of the world stays.
SameWorld == quota' \in Quota /\ quota'.start = quota.start /\ quota'.cmds = quota.cmds /\ (quota'.deadly <=> quota.deadly)

\* A call or a mishap is taken from what may still happen.
LEMMA SpendKeeps ==
    ASSUME quota \in Quota, NEW what \in {"calls", "mishaps"}, Spend(what)
    PROVE  SameWorld
<1>1. CASE what = "calls"
  <2>1. quota.calls \in Nat /\ quota.calls > 0
    BY <1>1 DEF Quota, Spend
  <2>2. quota.calls - 1 \in Nat
    BY <2>1
  <2>3. quota' = [quota EXCEPT !.calls = quota.calls - 1]
    BY <1>1 DEF Spend
  <2> QED BY <2>2, <2>3 DEF Quota, SameWorld
<1>2. CASE what = "mishaps"
  <2>1. quota.mishaps \in Nat /\ quota.mishaps > 0
    BY <1>2 DEF Quota, Spend
  <2>2. quota.mishaps - 1 \in Nat
    BY <2>1
  <2>3. quota' = [quota EXCEPT !.mishaps = quota.mishaps - 1]
    BY <1>2 DEF Spend
  <2> QED BY <2>2, <2>3 DEF Quota, SameWorld
<1> QED BY <1>1, <1>2

\* Nor does a step that takes nothing change the world.
LEMMA SameStays == ASSUME quota \in Quota, quota' = quota PROVE SameWorld
  BY DEF SameWorld

\* A step of one command: what it is doing then, and that the others are where they were.
Acts(p) == op' \in [Cmd -> Operation] /\ \A q \in Cmd \ {p} : op'[q] = op[q]

\* One command's record is replaced.
LEMMA OpMoves ==
    ASSUME op \in [Cmd -> Operation], NEW p \in Cmd, NEW x \in Operation, op' = [op EXCEPT ![p] = x]
    PROVE  Acts(p) /\ op'[p] = x
  BY DEF Acts

\* A command goes on to its next step.
LEMMA GoToMoves ==
    ASSUME op \in [Cmd -> Operation], NEW p \in Cmd, NEW s \in Steps, GoTo(p, s)
    PROVE  /\ Acts(p) /\ op'[p].at = s /\ op'[p].cmd = op[p].cmd /\ op'[p].run = op[p].run /\ op'[p].stale = op[p].stale
           /\ op'[p].tip = op[p].tip /\ op'[p].loose = op[p].loose /\ op'[p].row = op[p].row
  BY DEF GoTo, Operation, Acts

\* The row of a checkout that has none.
LEMMA UnregisteredRow == Unregistered \in WtRow /\ Unregistered.id = 0 /\ Unregistered.branch = FALSE /\ Unregistered.status = "none"
  BY DEF Unregistered, WtRow

\* A command returns.
LEMMA ReturnMoves ==
    ASSUME op \in [Cmd -> Operation], NEW p \in Cmd, op' = [op EXCEPT ![p] = Ready]
    PROVE  /\ Acts(p) /\ op'[p].at = "ready" /\ op'[p].cmd = "none" /\ op'[p].stale = {}
           /\ op'[p].row.id = 0 /\ op'[p].row.branch = FALSE
<1>1. /\ Ready \in Operation /\ Ready.at = "ready" /\ Ready.cmd = "none" /\ Ready.stale = {}
      /\ Ready.row.id = 0 /\ Ready.row.branch = FALSE
  BY UnregisteredRow DEF Ready, Operation, Steps
<1> HIDE DEF Ready
<1> QED BY <1>1, OpMoves

\* A command begins, with the row as it is read then.
LEMMA BeginMoves ==
    ASSUME WtTyped, NEW p \in Cmd, NEW cmd \in Commands, NEW first \in Steps, Begin(p, cmd, first)
    PROVE  /\ Acts(p) /\ op'[p].at = first /\ op'[p].cmd = cmd /\ op'[p].stale = {} /\ op'[p].row = reg
           /\ SameWorld /\ op[p].at = "ready" /\ cmd \in quota.cmds
<1>1. PICK f \in BOOLEAN : op' = [op EXCEPT ![p] = [Ready EXCEPT !.at = first, !.cmd = cmd, !.force = f, !.row = reg]]
  BY DEF Begin
<1> DEFINE x == [Ready EXCEPT !.at = first, !.cmd = cmd, !.force = f, !.row = reg]
<1>2. x \in Operation /\ x.at = first /\ x.cmd = cmd /\ x.stale = {} /\ x.row = reg
  BY UnregisteredRow DEF WtTyped, Ready, Operation
<1>3. op' = [op EXCEPT ![p] = x]
  BY <1>1
<1>4. op[p].at = "ready" /\ Spend("calls") /\ cmd \in quota.cmds
  BY DEF Begin, Ready
<1> HIDE DEF x
<1> QED BY <1>2, <1>3, <1>4, OpMoves, SpendKeeps DEF WtTyped

\* A step is peaceful for a command when it respects the lock it may hold, and
\* what every command relies on: ids grow, a checkout comes once, merged commits
\* stay merged, recorders stay recorded.
Peaceful(q) ==
    /\ op'[q] = op[q] /\ SameWorld
    /\ reg.id <= reg'.id /\ base.merged <= base'.merged
    /\ rlock = q => /\ rlock' = q /\ reg'.id = reg.id /\ tree.tip <= tree'.tip
                    /\ \A r \in RunId : agentrun'[r].by = "run" => agentrun[r].by = "run"
                    /\ \A r \in RunId : Live(r)' => Live(r)
                    /\ "remove" \notin quota.cmds => reg'.status = reg.status /\ (tree.disk => tree'.disk)
    /\ tree'.disk => tree.disk \/ reg.id = 0
    /\ "detach" \notin quota.cmds /\ tree.head = "branch" => tree'.head = "branch"
    /\ \A r \in RunId : /\ agentrun[r].pid # "none" => agentrun'[r].pid # "none"
                        /\ agentrun[r].by = "adopt" => agentrun'[r].by = "adopt"

\* Everything that is said of one command.
CommandOK(p) == LockedOK(p) /\ FreshOK(p) /\ CleanupOK(p) /\ RunsOK(p)

\* Another command's step is peaceful when it leaves alone what this one holds.
LEMMA PeacefulKeeps ==
    ASSUME WtTyped, WtTyped', NEW q \in Cmd, CommandOK(q), Peaceful(q)
    PROVE  CommandOK(q)'
<1>0. /\ reg.id \in Nat /\ reg'.id \in Nat /\ base.merged \in Nat /\ base'.merged \in Nat /\ tree.tip \in Nat /\ tree'.tip \in Nat
      /\ op[q] \in Operation /\ op[q].row.id \in Nat /\ op[q].tip \in Nat /\ op'[q] = op[q]
  BY DEF WtTyped, Operation, WtRow, Checkout, Peaceful
<1>1. LockedOK(q)'
  BY DEF CommandOK, LockedOK, Peaceful, SameWorld
<1>2. FreshOK(q)'
  BY DEF CommandOK, LockedOK, FreshOK, Peaceful, SameWorld
<1>3. CleanupOK(q)'
  BY <1>0 DEF CommandOK, LockedOK, CleanupOK, Peaceful, SameWorld, Removing
<1>4. RunsOK(q)'
  BY <1>0 DEF CommandOK, RunsOK, Peaceful, Operation
<1> QED BY <1>1, <1>2, <1>3, <1>4 DEF CommandOK

\* The parts of the invariant, put together after a step.
LEMMA WtTogether ==
    ASSUME WtInv, WtTyped', CheckoutOK', RowOK', KnownOK', \A q \in Cmd : Peaceful(q) \/ CommandOK(q)'
    PROVE  WtInv'
<1>1. \A q \in Cmd : CommandOK(q) /\ WtTyped
  BY DEF WtInv, CommandOK
<1>2. \A q \in Cmd : CommandOK(q)'
  BY <1>1, PeacefulKeeps
<1> QED BY <1>2 DEF WtInv, CommandOK

\* The lock stays, is taken by p, or is let go by p.
LockMove(p) == rlock' = rlock \/ (rlock = "none" /\ rlock' = p) \/ (rlock = p /\ rlock' = "none")

\* A command that returned relies on nothing.
LEMMA ReadyOK ==
    ASSUME WtTyped, WtTyped', NEW p \in Cmd, op' = [op EXCEPT ![p] = Ready]
    PROVE  CommandOK(p)' /\ Acts(p)
<1>1. /\ Acts(p) /\ op'[p].at = "ready" /\ op'[p].cmd = "none" /\ op'[p].stale = {}
      /\ op'[p].row.id = 0 /\ op'[p].row.branch = FALSE /\ reg'.id \in Nat
  BY ReturnMoves DEF WtTyped, WtRow
<1>2. LockedOK(p)'
  BY <1>1 DEF LockedOK
<1>3. FreshOK(p)'
  BY <1>1 DEF FreshOK
<1>4. CleanupOK(p)'
  BY <1>1 DEF CleanupOK
<1>5. RunsOK(p)'
  BY <1>1 DEF RunsOK
<1> QED BY <1>1, <1>2, <1>3, <1>4, <1>5 DEF CommandOK

\* A step that only moves a command, and the lock.
LEMMA QuietKeeps ==
    ASSUME WtInv, NEW p \in Cmd, Acts(p), SameWorld, UNCHANGED <<tree, base, reg, agentrun>>, LockMove(p),
           op[p].at # "added" \/ quota.deadly, CommandOK(p)'
    PROVE  WtInv'
<1>0. WtTyped /\ CheckoutOK /\ RowOK /\ KnownOK
  BY DEF WtInv
<1>1. WtTyped'
  BY <1>0 DEF WtTyped, Acts, SameWorld
<1>2. CheckoutOK' /\ RowOK'
  BY <1>0 DEF CheckoutOK, RowOK, SameWorld, Live
<1>3. KnownOK'
  BY <1>0 DEF KnownOK, SameWorld, Acts
<1>4. ASSUME NEW q \in Cmd \ {p} PROVE Peaceful(q)
  <2>1. q # "none" /\ op'[q] = op[q]
    BY TreeAssumption DEF Acts
  <2>2. reg.id <= reg'.id /\ base.merged <= base'.merged /\ tree.tip <= tree'.tip
    BY <1>0 DEF WtTyped, WtRow, Checkout
  <2> QED BY <2>1, <2>2 DEF Peaceful, LockMove, Live
<1> QED BY <1>1, <1>2, <1>3, <1>4, WtTogether

\* A command returns having changed nothing else.
LEMMA QuietReturn ==
    ASSUME WtInv, NEW p \in Cmd, Return(p), SameWorld, UNCHANGED <<tree, base, reg, agentrun>>,
           op[p].at # "added" \/ quota.deadly
    PROVE  WtInv'
<1>1. WtTyped /\ op' = [op EXCEPT ![p] = Ready] /\ LockMove(p)
  BY DEF WtInv, Return, LockMove
<1>2. Acts(p)
  BY <1>1, ReturnMoves DEF WtTyped
<1>3. WtTyped'
  BY <1>1, <1>2 DEF WtTyped, Acts, SameWorld
<1> QED BY <1>1, <1>2, <1>3, ReadyOK, QuietKeeps

\* One run's row changes without becoming a live run.
Softens(r, x) ==
    /\ x \in AgentRun /\ agentrun' = [agentrun EXCEPT ![r] = x]
    /\ x.by = "run" => agentrun[r].by = "run" /\ x.wt = agentrun[r].wt
    /\ x.by = "run" /\ x.status = "running" /\ x.pid = "alive" => Live(r)
    /\ agentrun[r].by = "adopt" => x.by = "adopt"
    /\ agentrun[r].pid # "none" => x.pid # "none"
    /\ x.status = "interrupted" => x.pid = "dead"

\* A step that changes runs and rows but neither checkout nor branch, peacefully.
LEMMA SoftKeeps ==
    ASSUME WtInv, SameWorld, UNCHANGED <<tree, base, reg>>, op' \in [Cmd -> Operation], NEW r \in RunId, NEW x, Softens(r, x),
           \A q \in Cmd : \/ op'[q] = op[q] /\ (rlock = q => rlock' = q)
                          \/ CommandOK(q)' /\ (op[q].at # "added" \/ quota.deadly)
    PROVE  WtInv'
<1>0. WtTyped /\ CheckoutOK /\ RowOK /\ KnownOK
  BY DEF WtInv
<1>1. /\ agentrun' \in [RunId -> AgentRun] /\ agentrun'[r] = x
      /\ \A s \in RunId \ {r} : agentrun'[s] = agentrun[s]
  BY <1>0 DEF Softens, WtTyped
<1>2. /\ \A s \in RunId : agentrun'[s].by = "run" => agentrun[s].by = "run" /\ agentrun'[s].wt = agentrun[s].wt
      /\ \A s \in RunId : Live(s)' => Live(s)
      /\ \A s \in RunId : agentrun[s].by = "adopt" => agentrun'[s].by = "adopt"
      /\ \A s \in RunId : agentrun[s].pid # "none" => agentrun'[s].pid # "none"
      /\ \A s \in RunId : agentrun'[s].status = "interrupted" => agentrun'[s].pid = "dead"
  BY <1>0, <1>1 DEF Softens, Live, RowOK
<1>3. WtTyped'
  BY <1>0, <1>1 DEF WtTyped, SameWorld
<1>4. CheckoutOK' /\ RowOK'
  <2>1. CheckoutOK'
    BY <1>0 DEF CheckoutOK, SameWorld
  <2>2. RowOK'
    BY <1>0, <1>2 DEF RowOK, SameWorld
  <2> QED BY <2>1, <2>2
<1>5. KnownOK'
  BY <1>0 DEF KnownOK, SameWorld
<1>6. ASSUME NEW q \in Cmd, op'[q] = op[q], rlock = q => rlock' = q PROVE Peaceful(q)
  <2>1. reg.id <= reg'.id /\ base.merged <= base'.merged /\ tree.tip <= tree'.tip
    BY <1>0 DEF WtTyped, WtRow, Checkout
  <2> QED BY <1>6, <1>2, <2>1 DEF Peaceful
<1> QED BY <1>3, <1>4, <1>5, <1>6, WtTogether

\* Commands that start.
LEMMA BeginKeeps ==
    ASSUME WtInv, NEW p \in Cmd, NEW cmd \in Commands, NEW first \in {"lock", "inspect", "sweep", "deregister", "look"},
           Begin(p, cmd, first), first \in {"deregister", "look"} <=> cmd = "remove", first = "inspect" => cmd = "adopt",
           cmd = "cleanup" => first = "sweep", cmd = "remove" => reg.status = "active",
           first = "deregister" => reg.by = "adopted"
    PROVE  WtInv'
<1>0. WtTyped /\ CheckoutOK /\ RowOK /\ KnownOK /\ \A q \in Cmd : CommandOK(q)
  BY DEF WtInv, CommandOK
<1>1. /\ Acts(p) /\ op'[p].at = first /\ op'[p].cmd = cmd /\ op'[p].stale = {} /\ op'[p].row = reg
      /\ SameWorld /\ op[p].at = "ready" /\ cmd \in quota.cmds
  BY <1>0, BeginMoves DEF Steps
<1>2. UNCHANGED <<tree, base, reg, agentrun, rlock>>
  BY DEF Begin
<1>3. LockedOK(p)'
  BY <1>1 DEF LockedOK, SameWorld
<1>4. FreshOK(p)' /\ RunsOK(p)'
  BY <1>1 DEF FreshOK, RunsOK
<1>5. CleanupOK(p)'
  <2>1. reg.id \in Nat
    BY <1>0 DEF WtTyped, WtRow
  <2>2. first = "deregister" /\ quota.start = "none" /\ ~quota.deadly => ~tree.disk
    <3>1. ASSUME NEW q \in Cmd, op[q].at = "added", first = "deregister" PROVE FALSE
      BY <1>0, <3>1 DEF CommandOK, FreshOK, RowOK
    <3> QED BY <1>0, <3>1 DEF KnownOK
  <2> QED BY <1>0, <1>1, <1>2, <2>1, <2>2 DEF CleanupOK, SameWorld, Removing, RowOK, CheckoutOK
<1> QED BY <1>1, <1>2, <1>3, <1>4, <1>5, QuietKeeps DEF CommandOK, LockMove

\* The commands begin (agent run, worktree create, adopt, pr, sweep, cleanup, remove).
LEMMA StartsKeep ==
    ASSUME WtInv, NEW p \in Cmd,
           CreateFresh(p, "run") \/ CreateFresh(p, "new") \/ WorktreeAdopt(p) \/ AgentAdopt(p)
           \/ SweepCommand(p) \/ CleanupCommand(p) \/ RemoveCommand(p) \/ AgentPR(p)
    PROVE  WtInv'
<1>1. CASE CreateFresh(p, "run") \/ CreateFresh(p, "new")
  BY <1>1, BeginKeeps DEF CreateFresh, Commands
<1>2. CASE WorktreeAdopt(p)
  BY <1>2, BeginKeeps DEF WorktreeAdopt, Commands
<1>3. CASE AgentAdopt(p)
  BY <1>3, BeginKeeps DEF AgentAdopt, Commands
<1>4. CASE SweepCommand(p) \/ CleanupCommand(p) \/ AgentPR(p)
  BY <1>4, BeginKeeps DEF SweepCommand, CleanupCommand, AgentPR, Commands
<1>5. CASE RemoveCommand(p)
  BY <1>5, BeginKeeps DEF RemoveCommand, Commands
<1> QED BY <1>1, <1>2, <1>3, <1>4, <1>5

\* agent finish begins, on an adopted run.
LEMMA AgentFinishKeeps == ASSUME WtInv, NEW p \in Cmd, AgentFinish(p) PROVE WtInv'
<1>1. PICK r \in RunId : /\ agentrun[r].by = "adopt" /\ op[p] = Ready /\ Spend("calls")
                         /\ op' = [op EXCEPT ![p] = [Ready EXCEPT !.at = "report", !.cmd = "finish", !.run = r]]
  BY DEF AgentFinish
<1> DEFINE x == [Ready EXCEPT !.at = "report", !.cmd = "finish", !.run = r]
<1>2. /\ x \in Operation /\ x.at = "report" /\ x.cmd = "finish" /\ x.run = r /\ x.stale = {}
      /\ x.row.id = 0 /\ x.row.branch = FALSE
  BY UnregisteredRow DEF Ready, Operation, Steps, Commands
<1>3. op' = [op EXCEPT ![p] = x] /\ WtTyped
  BY <1>1 DEF WtInv
<1>4. op[p].at = "ready" /\ SameWorld
  BY <1>1, <1>3, SpendKeeps DEF Ready, WtTyped
<1> HIDE DEF x
<1>5. Acts(p) /\ op'[p] = x
  BY <1>2, <1>3, OpMoves DEF WtTyped
<1>6. UNCHANGED <<tree, base, reg, agentrun, rlock>>
  BY DEF AgentFinish
<1>7. CommandOK(p)'
  <2>1. LockedOK(p)' /\ FreshOK(p)'
    BY <1>2, <1>5 DEF LockedOK, FreshOK
  <2>2. CleanupOK(p)'
    BY <1>2, <1>3, <1>5, <1>6 DEF CleanupOK, WtTyped, WtRow
  <2>3. RunsOK(p)'
    BY <1>1, <1>2, <1>5, <1>6 DEF RunsOK
  <2> QED BY <2>1, <2>2, <2>3 DEF CommandOK
<1> QED BY <1>4, <1>5, <1>6, <1>7, QuietKeeps DEF LockMove

\* Steps that look, or take the lock.
LEMMA LockRepoKeeps == ASSUME WtInv, NEW p \in Cmd, LockRepo(p) PROVE WtInv'
<1>0. WtTyped /\ CheckoutOK /\ RowOK /\ CommandOK(p) /\ SameWorld /\ op[p].at = "lock"
      /\ UNCHANGED <<tree, base, reg, agentrun, quota>>
  BY SameStays DEF WtInv, CommandOK, LockRepo, WtTyped
<1>1. CASE Return(p)
  BY <1>0, <1>1, QuietReturn
<1>2. CASE rlock = "none" /\ rlock' = p /\ op' = [op EXCEPT ![p].at = "locked", ![p].tip = tree.tip, ![p].loose = tree.loose]
  <2> DEFINE x == [op[p] EXCEPT !.at = "locked", !.tip = tree.tip, !.loose = tree.loose]
  <2>1. tree.tip \in Nat /\ tree.loose \in Nat /\ op[p] \in Operation
    BY <1>0 DEF WtTyped, Checkout
  <2>2. /\ x \in Operation /\ x.at = "locked" /\ x.cmd = op[p].cmd /\ x.run = op[p].run /\ x.stale = op[p].stale
        /\ x.tip = tree.tip /\ x.loose = tree.loose /\ x.row = op[p].row
    BY <2>1 DEF Operation, Steps
  <2>3. op' = [op EXCEPT ![p] = x]
    BY <1>0, <1>2 DEF WtTyped
  <2> HIDE DEF x
  <2>4. Acts(p) /\ op'[p] = x
    BY <1>0, <2>2, <2>3, OpMoves DEF WtTyped
  <2>5. LockedOK(p)' /\ FreshOK(p)'
    BY <1>0, <1>2, <2>2, <2>4 DEF CommandOK, LockedOK, FreshOK, SameWorld
  <2>6. CleanupOK(p)'
    BY <1>0, <2>1, <2>2, <2>4 DEF CommandOK, CleanupOK, SameWorld, CheckoutOK, Removing
  <2>7. RunsOK(p)'
    BY <1>0, <2>2, <2>4 DEF CommandOK, RunsOK
  <2> QED BY <1>0, <1>2, <2>4, <2>5, <2>6, <2>7, QuietKeeps DEF LockMove, CommandOK
<1> QED BY <1>1, <1>2 DEF LockRepo

\* adopt inspects the checkout it is to register.
LEMMA InspectWorktreeKeeps == ASSUME WtInv, NEW p \in Cmd, InspectWorktree(p) PROVE WtInv'
<1>0. WtTyped /\ CheckoutOK /\ RowOK /\ CommandOK(p) /\ SameWorld /\ op[p].at = "inspect"
      /\ UNCHANGED <<tree, base, reg, agentrun, quota>>
  BY SameStays DEF WtInv, CommandOK, InspectWorktree, WtTyped
<1>1. CASE Return(p)
  BY <1>0, <1>1, QuietReturn
<1>2. CASE op' = [op EXCEPT ![p].at = "lock", ![p].row.branch = (tree.head = "branch")] /\ UNCHANGED rlock
  <2> DEFINE b == tree.head = "branch"
             seen == [op[p].row EXCEPT !.branch = b]
             x == [op[p] EXCEPT !.at = "lock", !.row = seen]
  <2>1. op[p] \in Operation /\ op[p].row \in WtRow /\ b \in BOOLEAN
    BY <1>0 DEF WtTyped, Operation
  <2>2. seen \in WtRow /\ seen.id = op[p].row.id /\ (seen.branch <=> b)
    BY <2>1 DEF WtRow
  <2>3. op' = [op EXCEPT ![p] = x]
    BY <1>0, <1>2 DEF WtTyped
  <2> HIDE DEF seen
  <2>4. /\ x \in Operation /\ x.at = "lock" /\ x.cmd = op[p].cmd /\ x.stale = op[p].stale /\ x.row = seen
    BY <2>1, <2>2 DEF Operation, Steps
  <2> HIDE DEF x
  <2>5. Acts(p) /\ op'[p] = x
    BY <1>0, <2>3, <2>4, OpMoves DEF WtTyped
  <2>6. LockedOK(p)' /\ FreshOK(p)' /\ RunsOK(p)'
    BY <1>0, <2>4, <2>5 DEF CommandOK, LockedOK, FreshOK, SameWorld, RunsOK
  <2>7. CleanupOK(p)'
    BY <1>0, <2>2, <2>4, <2>5 DEF CommandOK, LockedOK, CleanupOK, SameWorld, Removing
  <2> QED BY <1>0, <1>2, <2>5, <2>6, <2>7, QuietKeeps DEF LockMove, CommandOK
<1> QED BY <1>1, <1>2 DEF InspectWorktree

\* The sweep reads the running rows and probes their processes.
LEMMA ReadRunningKeeps == ASSUME WtInv, NEW p \in Cmd, ReadRunning(p) PROVE WtInv'
<1>0. WtTyped /\ CheckoutOK /\ RowOK /\ CommandOK(p) /\ SameWorld /\ op[p].at = "sweep" /\ op[p] \in Operation
      /\ UNCHANGED <<tree, base, reg, agentrun, rlock, quota>>
  BY SameStays DEF WtInv, CommandOK, ReadRunning, WtTyped
<1> DEFINE runs == RunningAgentRunsWithPID
           x == [op[p] EXCEPT !.at = "mark", !.stale = runs]
<1>1. runs \in SUBSET RunId /\ \A r \in runs : agentrun[r].pid # "none"
  BY DEF RunningAgentRunsWithPID
<1>2. op' = [op EXCEPT ![p] = x]
  BY <1>0 DEF WtTyped, ReadRunning
<1> HIDE DEF runs
<1>3. /\ x \in Operation /\ x.at = "mark" /\ x.cmd = op[p].cmd /\ x.stale = runs /\ x.row = op[p].row
  BY <1>0, <1>1 DEF Operation, Steps
<1> HIDE DEF x
<1>5. Acts(p) /\ op'[p] = x
  BY <1>0, <1>2, <1>3, OpMoves DEF WtTyped
<1>6. LockedOK(p)' /\ FreshOK(p)' /\ RunsOK(p)'
  BY <1>0, <1>1, <1>3, <1>5 DEF CommandOK, LockedOK, FreshOK, SameWorld, RunsOK
<1>7. CleanupOK(p)'
  BY <1>0, <1>3, <1>5 DEF CommandOK, LockedOK, CleanupOK, SameWorld, Removing
<1> QED BY <1>0, <1>5, <1>6, <1>7, QuietKeeps DEF LockMove, CommandOK

\* cleanup lists the rows it may remove.
LEMMA ListWorktreesKeeps == ASSUME WtInv, NEW p \in Cmd, ListWorktrees(p) PROVE WtInv'
<1>0. WtTyped /\ CheckoutOK /\ RowOK /\ CommandOK(p) /\ SameWorld /\ op[p].at = "list" /\ op[p] \in Operation /\ reg \in WtRow
      /\ UNCHANGED <<tree, base, reg, agentrun, quota>>
  BY SameStays DEF WtInv, CommandOK, ListWorktrees, WtTyped
<1>1. CASE Return(p)
  BY <1>0, <1>1, QuietReturn
<1>2. CASE reg.status = "active" /\ op' = [op EXCEPT ![p].at = "lock", ![p].row = reg] /\ UNCHANGED rlock
  <2> DEFINE x == [op[p] EXCEPT !.at = "lock", !.row = reg]
  <2>1. op' = [op EXCEPT ![p] = x]
    BY <1>0, <1>2 DEF WtTyped
  <2>2. /\ x \in Operation /\ x.at = "lock" /\ x.cmd = op[p].cmd /\ x.stale = op[p].stale /\ x.row = reg
    BY <1>0 DEF Operation, Steps
  <2> HIDE DEF x
  <2>3. Acts(p) /\ op'[p] = x
    BY <1>0, <2>1, <2>2, OpMoves DEF WtTyped
  <2>4. LockedOK(p)' /\ FreshOK(p)' /\ RunsOK(p)'
    BY <1>0, <2>2, <2>3 DEF CommandOK, LockedOK, FreshOK, SameWorld, RunsOK
  <2>5. reg.id # 0 /\ reg.id \in Nat /\ reg' = reg
    BY <1>0, <1>2 DEF RowOK, WtRow
  <2>6. CleanupOK(p)'
    BY <1>0, <2>2, <2>3, <2>5 DEF CommandOK, LockedOK, CleanupOK, SameWorld, Removing, CheckoutOK
  <2> QED BY <1>0, <1>2, <2>3, <2>4, <2>6, QuietKeeps DEF LockMove, CommandOK
<1> QED BY <1>1, <1>2 DEF ListWorktrees

\* The last looks before a removal: uncommitted edits, and a running agent.
LEMMA LooksKeep == ASSUME WtInv, NEW p \in Cmd, RecheckDirty(p) \/ LookBeforeRemove(p) PROVE WtInv'
<1>0. WtTyped /\ CheckoutOK /\ RowOK /\ CommandOK(p) /\ SameWorld /\ op[p].at \in {"recheck", "look"} /\ op[p] \in Operation
      /\ UNCHANGED <<tree, base, reg, agentrun, quota>>
  BY SameStays DEF WtInv, CommandOK, RecheckDirty, LookBeforeRemove, WtTyped
<1>1. CASE Return(p)
  BY <1>0, <1>1, QuietReturn
<1>2. ASSUME NEW s \in {"remove", "deregister"}, GoTo(p, s), UNCHANGED rlock, s = "deregister" => ~tree.disk /\ op[p].at = "look"
      PROVE  WtInv'
  <2>1. /\ Acts(p) /\ op'[p].at = s /\ op'[p].cmd = op[p].cmd /\ op'[p].run = op[p].run /\ op'[p].stale = op[p].stale
        /\ op'[p].tip = op[p].tip /\ op'[p].loose = op[p].loose /\ op'[p].row = op[p].row
    BY <1>0, <1>2, GoToMoves DEF WtTyped, Steps
  <2>4. LockedOK(p)' /\ FreshOK(p)' /\ RunsOK(p)'
    BY <1>0, <1>2, <2>1 DEF CommandOK, LockedOK, FreshOK, SameWorld, RunsOK
  <2>6. CleanupOK(p)'
    BY <1>0, <1>2, <2>1 DEF CommandOK, LockedOK, CleanupOK, SameWorld, Removing, Live
  <2> QED BY <1>0, <1>2, <2>1, <2>4, <2>6, QuietKeeps DEF LockMove, CommandOK
<1> QED BY <1>1, <1>2 DEF RecheckDirty, LookBeforeRemove


\* Steps that write an agent run's row.
LEMMA SoftReturn ==
    ASSUME WtInv, NEW p \in Cmd, Return(p), SameWorld, UNCHANGED <<tree, base, reg>>, NEW r \in RunId, NEW x, Softens(r, x),
           op[p].at # "added" \/ quota.deadly
    PROVE  WtInv'
<1>0. WtTyped /\ op' = [op EXCEPT ![p] = Ready]
  BY DEF WtInv, Return
<1>1. Acts(p)
  BY <1>0, ReturnMoves DEF WtTyped
<1>2. WtTyped'
  <2>1. agentrun' \in [RunId -> AgentRun]
    BY <1>0 DEF Softens, WtTyped
  <2> QED BY <1>0, <1>1, <2>1 DEF WtTyped, Acts, SameWorld
<1>3. CommandOK(p)'
  BY <1>0, <1>2, ReadyOK
<1>4. \A q \in Cmd \ {p} : op'[q] = op[q] /\ (rlock = q => rlock' = q)
  BY <1>1 DEF Acts, Return
<1> QED BY <1>1, <1>3, <1>4, SoftKeeps DEF Acts

\* agent run stores the result of its harness.
LEMMA FinishRunKeeps == ASSUME WtInv, NEW p \in Cmd, FinishRun(p) PROVE WtInv'
<1>0. WtTyped /\ RowOK /\ CommandOK(p) /\ op[p].at = "working" /\ Return(p) /\ UNCHANGED <<tree, base, reg>>
  BY DEF WtInv, CommandOK, FinishRun
<1> DEFINE r == op[p].run
<1>1. r \in RunId /\ agentrun[r] \in AgentRun
  BY <1>0 DEF CommandOK, RunsOK, WtTyped
<1>2. SameWorld
  BY <1>0, SpendKeeps, SameStays DEF FinishRun, WtTyped
<1> HIDE DEF r
<1>3. ASSUME NEW s \in {"complete", "failed"}, agentrun' = [agentrun EXCEPT ![r].status = s, ![r].pid = "dead"]
      PROVE  \E x : Softens(r, x)
  <2> DEFINE x == [agentrun[r] EXCEPT !.status = s, !.pid = "dead"]
  <2>1. x \in AgentRun /\ x.by = agentrun[r].by /\ x.wt = agentrun[r].wt /\ x.status = s /\ x.pid = "dead"
    BY <1>1 DEF AgentRun
  <2>2. agentrun' = [agentrun EXCEPT ![r] = x]
    BY <1>0, <1>1, <1>3 DEF WtTyped
  <2> HIDE DEF x
  <2>3. Softens(r, x)
    BY <2>1, <2>2 DEF Softens
  <2> QED BY <2>3
<1>4. ASSUME agentrun' = [agentrun EXCEPT ![r].pid = "dead"] PROVE \E x : Softens(r, x)
  <2> DEFINE x == [agentrun[r] EXCEPT !.pid = "dead"]
  <2>1. x \in AgentRun /\ x.by = agentrun[r].by /\ x.wt = agentrun[r].wt /\ x.pid = "dead"
    BY <1>1 DEF AgentRun
  <2>2. agentrun' = [agentrun EXCEPT ![r] = x]
    BY <1>0, <1>1, <1>4 DEF WtTyped
  <2> HIDE DEF x
  <2>3. Softens(r, x)
    BY <2>1, <2>2 DEF Softens
  <2> QED BY <2>3
<1>5. \E x : Softens(r, x)
  BY <1>3, <1>4 DEF FinishRun, r
<1> QED BY <1>0, <1>1, <1>2, <1>5, SoftReturn

\* agent adopt records a run in a checkout it did not make.
LEMMA AdoptRunKeeps == ASSUME WtInv, NEW p \in Cmd, AdoptRun(p) PROVE WtInv'
<1>0. WtTyped /\ SameWorld /\ op[p].at = "locked" /\ Return(p) /\ UNCHANGED <<tree, base, reg>>
  BY SameStays DEF WtInv, AdoptRun, WtTyped
<1>1. PICK r \in RunId, pid \in {"none", "alive"} :
        /\ agentrun[r] = NoRun
        /\ agentrun' = [agentrun EXCEPT ![r] = [status |-> "running", pid |-> pid, by |-> "adopt", wt |-> op[p].row.id]]
  BY DEF AdoptRun
<1> DEFINE x == [status |-> "running", pid |-> pid, by |-> "adopt", wt |-> op[p].row.id]
<1>2. op[p].row.id \in Nat
  BY <1>0 DEF WtTyped, Operation, WtRow
<1>3. x \in AgentRun /\ x.by = "adopt" /\ x.status = "running"
  BY <1>2 DEF AgentRun
<1>4. agentrun[r].pid = "none"
  BY <1>1 DEF NoRun
<1>5. agentrun' = [agentrun EXCEPT ![r] = x]
  BY <1>1
<1> HIDE DEF x
<1>6. Softens(r, x)
  BY <1>3, <1>4, <1>5 DEF Softens
<1> QED BY <1>0, <1>6, SoftReturn

\* agent finish stores its result.
LEMMA UpdateAgentRunResultKeeps == ASSUME WtInv, NEW p \in Cmd, UpdateAgentRunResult(p) PROVE WtInv'
<1>0. WtTyped /\ CommandOK(p) /\ SameWorld /\ op[p].at = "report" /\ Return(p) /\ UNCHANGED <<tree, base, reg>>
  BY SameStays DEF WtInv, CommandOK, UpdateAgentRunResult, WtTyped
<1> DEFINE r == op[p].run
<1>1. r \in RunId /\ agentrun[r] \in AgentRun /\ agentrun[r].by = "adopt"
  BY <1>0 DEF CommandOK, RunsOK, WtTyped
<1>2. PICK s \in {"complete", "failed"} : agentrun' = [agentrun EXCEPT ![r].status = s]
  BY DEF UpdateAgentRunResult
<1> HIDE DEF r
<1> DEFINE x == [agentrun[r] EXCEPT !.status = s]
<1>3. x \in AgentRun /\ x.by = "adopt" /\ x.status = s /\ x.pid = agentrun[r].pid
  BY <1>1 DEF AgentRun
<1>4. agentrun' = [agentrun EXCEPT ![r] = x]
  BY <1>0, <1>1, <1>2 DEF WtTyped
<1> HIDE DEF x
<1>5. Softens(r, x)
  BY <1>3, <1>4 DEF Softens
<1> QED BY <1>0, <1>1, <1>5, SoftReturn

\* The sweep marks each row it read whose process is dead.
LEMMA MarkInterruptedKeeps == ASSUME WtInv, NEW p \in Cmd, MarkInterrupted(p) PROVE WtInv'
<1>0. WtTyped /\ RowOK /\ CommandOK(p) /\ SameWorld /\ op[p].at = "mark" /\ op[p] \in Operation /\ UNCHANGED <<tree, base, reg, quota>>
  BY SameStays DEF WtInv, CommandOK, MarkInterrupted, WtTyped
<1>1. CASE Return(p) /\ UNCHANGED agentrun
  BY <1>0, <1>1, QuietReturn
<1>2. ASSUME NEW s \in {"list", "gate"}, GoTo(p, s), UNCHANGED <<rlock, agentrun>>
      PROVE  WtInv'
  <2>1. /\ Acts(p) /\ op'[p].at = s /\ op'[p].cmd = op[p].cmd /\ op'[p].run = op[p].run /\ op'[p].stale = op[p].stale
        /\ op'[p].tip = op[p].tip /\ op'[p].loose = op[p].loose /\ op'[p].row = op[p].row
    BY <1>0, <1>2, GoToMoves DEF WtTyped, Steps
  <2>4. LockedOK(p)' /\ FreshOK(p)' /\ RunsOK(p)'
    BY <1>0, <1>2, <2>1 DEF CommandOK, LockedOK, FreshOK, SameWorld, RunsOK
  <2>6. CleanupOK(p)'
    BY <1>0, <1>2, <2>1 DEF CommandOK, LockedOK, CleanupOK, SameWorld, Removing, Live
  <2> QED BY <1>0, <1>2, <2>1, <2>4, <2>6, QuietKeeps DEF LockMove, CommandOK
<1>3. ASSUME NEW r \in op[p].stale, op' = [op EXCEPT ![p].stale = @ \ {r}], UNCHANGED rlock,
             agentrun' = IF agentrun[r].pid = "alive" THEN agentrun ELSE [agentrun EXCEPT ![r].status = "interrupted"]
      PROVE  WtInv'
  <2> DEFINE y == [op[p] EXCEPT !.stale = op[p].stale \ {r}]
  <2>1. r \in RunId /\ agentrun[r] \in AgentRun /\ agentrun[r].pid # "none" /\ op[p].stale \in SUBSET RunId
    BY <1>0 DEF CommandOK, RunsOK, WtTyped, Operation
  <2>2. /\ y \in Operation /\ y.at = "mark" /\ y.cmd = op[p].cmd /\ y.stale = op[p].stale \ {r} /\ y.row = op[p].row
    BY <1>0, <2>1 DEF Operation
  <2>3. op' = [op EXCEPT ![p] = y]
    BY <1>0, <1>3 DEF WtTyped
  <2> HIDE DEF y
  <2>4. Acts(p) /\ op'[p] = y
    BY <1>0, <2>2, <2>3, OpMoves DEF WtTyped
  <2> DEFINE x == IF agentrun[r].pid = "alive" THEN agentrun[r] ELSE [agentrun[r] EXCEPT !.status = "interrupted"]
  <2>5. /\ x \in AgentRun /\ x.by = agentrun[r].by /\ x.wt = agentrun[r].wt /\ x.pid = agentrun[r].pid
        /\ x.pid = "alive" => x.status = agentrun[r].status
        /\ x.pid # "alive" => x.pid = "dead"
    BY <2>1 DEF AgentRun
  <2>6. agentrun' = [agentrun EXCEPT ![r] = x]
    BY <1>0, <1>3, <2>1 DEF WtTyped
  <2> HIDE DEF x
  <2>7. Softens(r, x)
    <3>1. x.status = "interrupted" => x.pid = "dead"
      BY <2>1, <2>5, <1>0 DEF RowOK
    <3> QED BY <2>1, <2>5, <2>6, <3>1 DEF Softens, Live
  <2>8. LockedOK(p)' /\ FreshOK(p)'
    BY <1>0, <1>3, <2>2, <2>4 DEF CommandOK, LockedOK, FreshOK, SameWorld
  <2>9. RunsOK(p)'
    <3>1. \A s \in RunId : agentrun[s].pid # "none" => agentrun'[s].pid # "none"
      BY <1>0, <2>1, <2>5, <2>6 DEF WtTyped
    <3> QED BY <1>0, <2>1, <2>2, <2>4, <3>1 DEF CommandOK, RunsOK
  <2>10. CleanupOK(p)'
    BY <1>0, <1>3, <2>2, <2>4 DEF CommandOK, CleanupOK, SameWorld, Removing
  <2>11. \A q \in Cmd \ {p} : op'[q] = op[q] /\ (rlock = q => rlock' = q)
    BY <1>3, <2>4 DEF Acts
  <2> QED BY <1>0, <2>1, <2>4, <2>7, <2>8, <2>9, <2>10, <2>11, SoftKeeps DEF Acts, CommandOK
<1> QED BY <1>1, <1>2, <1>3 DEF MarkInterrupted, AfterSweep

\* A harness ends by itself.
LEMMA HarnessExitsKeeps == ASSUME WtInv, NEW r \in RunId, HarnessExits(r) PROVE WtInv'
<1>0. WtTyped /\ RowOK /\ SameWorld /\ UNCHANGED <<tree, base, reg, rlock, op>> /\ agentrun[r] \in AgentRun
      /\ agentrun[r].by = "adopt" /\ agentrun' = [agentrun EXCEPT ![r].pid = "dead"]
  BY SameStays DEF WtInv, HarnessExits, WtTyped
<1> DEFINE x == [agentrun[r] EXCEPT !.pid = "dead"]
<1>1. x \in AgentRun /\ x.by = "adopt" /\ x.wt = agentrun[r].wt /\ x.pid = "dead"
  BY <1>0 DEF AgentRun
<1>2. agentrun' = [agentrun EXCEPT ![r] = x]
  BY <1>0 DEF WtTyped
<1> HIDE DEF x
<1>3. Softens(r, x)
  BY <1>1, <1>2 DEF Softens
<1>4. op' \in [Cmd -> Operation]
  BY <1>0 DEF WtTyped
<1> QED BY <1>0, <1>3, <1>4, SoftKeeps

\* A command dies.
LEMMA DieKeeps == ASSUME WtInv, NEW p \in Cmd, Die(p) PROVE WtInv'
<1>0. WtTyped /\ CommandOK(p) /\ quota.deadly /\ Return(p) /\ UNCHANGED <<tree, base, reg>>
  BY DEF WtInv, CommandOK, Die
<1>1. SameWorld
  BY <1>0, SpendKeeps DEF Die, WtTyped
<1>2. CASE op[p].at # "working"
  BY <1>0, <1>1, <1>2, QuietReturn DEF Die
<1>3. CASE op[p].at = "working"
  <2> DEFINE r == op[p].run
             x == [agentrun[r] EXCEPT !.pid = "dead"]
  <2>1. r \in RunId /\ agentrun[r] \in AgentRun /\ agentrun' = [agentrun EXCEPT ![r].pid = "dead"]
    BY <1>0, <1>3 DEF CommandOK, RunsOK, WtTyped, Die
  <2> HIDE DEF r
  <2>2. x \in AgentRun /\ x.by = agentrun[r].by /\ x.wt = agentrun[r].wt /\ x.pid = "dead"
    BY <2>1 DEF AgentRun
  <2>3. agentrun' = [agentrun EXCEPT ![r] = x]
    BY <1>0, <2>1 DEF WtTyped
  <2> HIDE DEF x
  <2>4. Softens(r, x)
    BY <2>2, <2>3 DEF Softens
  <2> QED BY <1>0, <1>1, <2>1, <2>4, SoftReturn
<1> QED BY <1>2, <1>3

\* Steps that write the worktree's row.
LEMMA RegKeeps ==
    ASSUME WtInv, NEW p \in Cmd, Acts(p), LockMove(p), SameWorld, UNCHANGED <<tree, base, agentrun>>,
           reg' \in WtRow, reg.id <= reg'.id, reg'.status = "none" <=> reg'.id = 0,
           rlock = p \/ (reg'.id = reg.id /\ ("remove" \notin quota.cmds => reg'.status = reg.status)),
           "remove" \notin quota.cmds => \A r \in RunId : Live(r) => reg'.status = "active" /\ reg'.id = 1,
           "detach" \notin quota.cmds /\ reg'.branch => tree.head = "branch",
           KnownOK', CommandOK(p)'
    PROVE  WtInv'
<1>0. WtTyped /\ CheckoutOK /\ RowOK /\ reg.id \in Nat /\ reg'.id \in Nat
  BY DEF WtInv, WtTyped, WtRow
<1>1. WtTyped'
  BY <1>0 DEF WtTyped, Acts, SameWorld
<1>2. CheckoutOK'
  BY <1>0 DEF CheckoutOK, SameWorld
<1>3. RowOK'
  BY <1>0 DEF RowOK, SameWorld, Live
<1>4. ASSUME NEW q \in Cmd \ {p} PROVE Peaceful(q)
  <2>1. q # "none" /\ op'[q] = op[q]
    BY TreeAssumption DEF Acts
  <2>2. base.merged <= base'.merged /\ tree.tip <= tree'.tip
    BY <1>0 DEF WtTyped, Checkout
  <2> QED BY <2>1, <2>2 DEF Peaceful, LockMove, Live
<1> QED BY <1>1, <1>2, <1>3, <1>4, WtTogether

\* The row as Deregistered leaves it.
LEMMA DeregisteredRow ==
    ASSUME reg \in WtRow, NEW seen \in WtRow, reg' = Deregistered(seen)
    PROVE  /\ reg' \in WtRow /\ reg'.id = reg.id /\ (reg'.branch <=> reg.branch) /\ reg'.by = reg.by
           /\ reg.id # seen.id => reg' = reg
           /\ reg.id = seen.id => reg'.status = "removed"
  BY DEF Deregistered, WtRow

\* The row of a removed checkout says so.
LEMMA MarkWorktreeRemovedKeeps == ASSUME WtInv, NEW p \in Cmd, MarkWorktreeRemoved(p) PROVE WtInv'
<1>0. WtTyped /\ CheckoutOK /\ RowOK /\ KnownOK /\ CommandOK(p) /\ \A q \in Cmd : CommandOK(q)
  BY DEF WtInv, CommandOK
<1>1. SameWorld /\ op[p].at = "deregister" /\ Return(p) /\ UNCHANGED <<tree, base, agentrun>> /\ reg' = Deregistered(op[p].row)
      /\ op[p].row \in WtRow /\ reg \in WtRow /\ reg.id \in Nat
  BY <1>0, SameStays DEF MarkWorktreeRemoved, WtTyped, Operation, WtRow
<1>2. /\ reg' \in WtRow /\ reg'.id = reg.id /\ (reg'.branch <=> reg.branch)
      /\ reg.id # op[p].row.id => reg' = reg
      /\ reg.id = op[p].row.id => reg'.status = "removed"
  BY <1>1, DeregisteredRow
<1>3. op' = [op EXCEPT ![p] = Ready] /\ LockMove(p) /\ Acts(p)
  BY <1>0, <1>1, ReturnMoves DEF Return, LockMove, WtTyped
<1>4. WtTyped'
  BY <1>0, <1>1, <1>2, <1>3 DEF WtTyped, Acts, SameWorld
<1>5. CommandOK(p)'
  BY <1>0, <1>3, <1>4, ReadyOK
<1>6. KnownOK'
  BY <1>0, <1>1 DEF KnownOK, CommandOK, CleanupOK, SameWorld
<1>7. op[p].cmd = "remove" => "remove" \in quota.cmds
  BY <1>0 DEF CommandOK, LockedOK
<1>8. op[p].cmd # "remove" => op[p].cmd = "cleanup" /\ rlock = p
  BY <1>0, <1>1 DEF CommandOK, LockedOK
<1>9. op[p].row.id # 0
  BY <1>0, <1>1, <1>8 DEF CommandOK, CleanupOK, Removing
<1>10. "remove" \notin quota.cmds => \A r \in RunId : ~Live(r)
  BY <1>0, <1>1, <1>7, <1>8 DEF CommandOK, CleanupOK, Removing
<1>11. reg'.status = "none" <=> reg'.id = 0
  BY <1>0, <1>2, <1>9 DEF RowOK
<1>12. rlock = p \/ (reg'.id = reg.id /\ ("remove" \notin quota.cmds => reg'.status = reg.status))
  BY <1>2, <1>7, <1>8
<1>13. "detach" \notin quota.cmds /\ reg'.branch => tree.head = "branch"
  BY <1>0, <1>2 DEF CheckoutOK
<1>14. reg.id <= reg'.id
  BY <1>1, <1>2
<1> QED BY <1>1, <1>2, <1>3, <1>5, <1>6, <1>10, <1>11, <1>12, <1>13, <1>14, RegKeeps

\* adopt registers the checkout under its lock.
LEMMA RegisterAdoptedKeeps == ASSUME WtInv, NEW p \in Cmd, RegisterAdopted(p) PROVE WtInv'
<1>0. WtTyped /\ CheckoutOK /\ RowOK /\ KnownOK /\ CommandOK(p) /\ \A q \in Cmd : CommandOK(q)
  BY DEF WtInv, CommandOK
<1>1. SameWorld /\ op[p].at = "locked" /\ Return(p) /\ UNCHANGED <<tree, base, agentrun>>
      /\ op[p].row \in WtRow /\ reg \in WtRow /\ reg.id \in Nat /\ rlock = p
  BY <1>0, SameStays DEF RegisterAdopted, WtTyped, Operation, WtRow, CommandOK, LockedOK
<1> DEFINE b == op[p].row.branch
<1>2. /\ reg' \in WtRow /\ reg.id <= reg'.id /\ reg'.id = (IF reg.status = "active" THEN reg.id ELSE reg.id + 1)
      /\ reg'.status = "active"
      /\ reg'.branch => b \/ reg.branch
      /\ reg.status = "active" => reg'.by = reg.by
  <2>1. CASE reg.status # "active"
    <3>1. reg' = [id |-> reg.id + 1, status |-> "active", by |-> "adopted", branch |-> b]
      BY <2>1 DEF RegisterAdopted, InsertWorktree
    <3>2. reg.id + 1 \in Nat /\ reg.id <= reg.id + 1 /\ b \in BOOLEAN
      BY <1>1 DEF WtRow
    <3> HIDE DEF b
    <3> QED BY <2>1, <3>1, <3>2 DEF WtRow
  <2>2. CASE reg.status = "active" /\ reg.by = "agent"
    BY <1>1, <2>2 DEF RegisterAdopted
  <2>3. CASE reg.status = "active" /\ reg.by # "agent"
    <3>1. reg' = [reg EXCEPT !.branch = b] /\ b \in BOOLEAN
      BY <1>1, <2>3 DEF RegisterAdopted, WtRow
    <3> HIDE DEF b
    <3> QED BY <1>1, <2>3, <3>1 DEF WtRow
  <2> QED BY <2>1, <2>2, <2>3
<1>3. op' = [op EXCEPT ![p] = Ready] /\ LockMove(p) /\ Acts(p)
  BY <1>0, <1>1, ReturnMoves DEF Return, LockMove, WtTyped
<1>4. WtTyped'
  BY <1>0, <1>1, <1>2, <1>3 DEF WtTyped, Acts, SameWorld
<1>5. CommandOK(p)'
  BY <1>0, <1>3, <1>4, ReadyOK
<1>6. KnownOK'
  <2>1. \A q \in Cmd : op[q].at # "added"
    BY <1>0, <1>1 DEF CommandOK, LockedOK
  <2> QED BY <1>0, <1>1, <1>2, <2>1 DEF KnownOK, SameWorld
<1>7. "remove" \notin quota.cmds => \A r \in RunId : Live(r) => reg'.status = "active" /\ reg'.id = 1
  BY <1>0, <1>2 DEF RowOK
<1>8. reg'.status = "none" <=> reg'.id = 0
  BY <1>0, <1>1, <1>2 DEF RowOK
<1>9. "detach" \notin quota.cmds /\ reg'.branch => tree.head = "branch"
  BY <1>0, <1>2 DEF CheckoutOK, CommandOK, CleanupOK
<1> QED BY <1>1, <1>2, <1>3, <1>5, <1>6, <1>7, <1>8, <1>9, RegKeeps

\* agent pr pushes the branch and reads it from HEAD.
LEMMA OpenPRKeeps == ASSUME WtInv, NEW p \in Cmd, OpenPR(p) PROVE WtInv'
<1>0. WtTyped /\ CheckoutOK /\ RowOK /\ KnownOK /\ CommandOK(p)
  BY DEF WtInv, CommandOK
<1>1. SameWorld /\ op[p].at = "gate" /\ Return(p) /\ UNCHANGED <<tree, base, agentrun>> /\ reg \in WtRow /\ reg.id \in Nat
  BY <1>0, SameStays DEF OpenPR, WtTyped, WtRow
<1>2. CASE reg' = reg
  BY <1>0, <1>1, <1>2, QuietReturn
<1>3. CASE reg' = [reg EXCEPT !.branch = TRUE] /\ (reg.branch \/ (tree.disk /\ tree.head = "branch"))
  <2>0. reg' \in WtRow /\ reg'.id = reg.id /\ reg'.status = reg.status /\ reg'.by = reg.by
    BY <1>1, <1>3 DEF WtRow
  <2>1. reg' \in WtRow /\ reg'.id = reg.id /\ reg'.status = reg.status /\ reg'.by = reg.by /\ reg.id <= reg'.id
    BY <1>1, <2>0
  <2>2. op' = [op EXCEPT ![p] = Ready] /\ LockMove(p) /\ Acts(p)
    BY <1>0, <1>1, ReturnMoves DEF Return, LockMove, WtTyped
  <2>3. WtTyped'
    BY <1>0, <1>1, <2>1, <2>2 DEF WtTyped, Acts, SameWorld
  <2>4. CommandOK(p)'
    BY <1>0, <2>2, <2>3, ReadyOK
  <2>5. KnownOK'
    BY <1>0, <1>1, <2>1, <2>2 DEF KnownOK, SameWorld, Acts
  <2>6. "detach" \notin quota.cmds /\ reg'.branch => tree.head = "branch"
    BY <1>0, <1>3 DEF CheckoutOK
  <2>7. "remove" \notin quota.cmds => \A r \in RunId : Live(r) => reg'.status = "active" /\ reg'.id = 1
    BY <1>0, <2>1 DEF RowOK
  <2>8. reg'.status = "none" <=> reg'.id = 0
    BY <1>0, <2>1 DEF RowOK
  <2> QED BY <1>1, <2>1, <2>2, <2>4, <2>5, <2>6, <2>7, <2>8, RegKeeps
<1> QED BY <1>2, <1>3 DEF OpenPR


\* A checkout that a command made is taken away again.
LEMMA TreeGone ==
    ASSUME WtInv, NEW p \in Cmd, Return(p), SameWorld, rlock = p, RemoveOrphanWorktree, UNCHANGED <<base, agentrun>>,
           reg' \in WtRow, reg'.id = reg.id, reg'.branch <=> reg.branch, reg'.status = "none" <=> reg.status = "none",
           \A r \in RunId : ~Live(r)
    PROVE  WtInv'
<1>0. WtTyped /\ CheckoutOK /\ RowOK /\ reg.id \in Nat /\ reg'.id \in Nat
  BY DEF WtInv, WtTyped, WtRow
<1>1. /\ tree' \in Checkout /\ (tree'.disk => tree.disk /\ quota.deadly) /\ (tree'.dirty => tree'.disk)
      /\ ~tree'.branch => tree'.tip = 0 /\ ~(tree'.disk /\ tree'.head = "branch")
      /\ tree.head = "branch" => tree'.head = "branch"
      /\ "detach" \notin quota.cmds /\ tree'.head = "branch" => tree'.loose = 0
  <2>1. tree \in Checkout
    BY <1>0 DEF WtTyped
  <2>2. CASE tree' = NoTree
    BY <2>2 DEF NoTree, Checkout
  <2>3. CASE tree' = tree /\ quota.deadly
    BY <1>0, <2>1, <2>3 DEF CheckoutOK
  <2>4. CASE tree' = [tree EXCEPT !.disk = FALSE, !.dirty = FALSE, !.loose = 0]
    BY <1>0, <2>1, <2>4 DEF CheckoutOK, Checkout
  <2> QED BY <2>2, <2>3, <2>4 DEF RemoveOrphanWorktree
<1>2. op' = [op EXCEPT ![p] = Ready] /\ LockMove(p) /\ Acts(p)
  BY <1>0, ReturnMoves DEF Return, LockMove, WtTyped
<1>3. WtTyped'
  BY <1>0, <1>1, <1>2 DEF WtTyped, Acts, SameWorld
<1>4. CommandOK(p)'
  BY <1>0, <1>2, <1>3, ReadyOK
<1>5. CheckoutOK'
  BY <1>0, <1>1 DEF CheckoutOK, SameWorld
<1>6. RowOK'
  BY <1>0 DEF RowOK, SameWorld, Live
<1>7. KnownOK'
  BY <1>1 DEF KnownOK, SameWorld
<1>8. ASSUME NEW q \in Cmd \ {p} PROVE Peaceful(q)
  <2>1. q # "none" /\ op'[q] = op[q] /\ rlock # q
    BY <1>2, TreeAssumption DEF Acts
  <2>2. base.merged <= base'.merged /\ reg.id <= reg'.id
    BY <1>0 DEF WtTyped
  <2> QED BY <1>1, <2>1, <2>2 DEF Peaceful, Live
<1> QED BY <1>3, <1>4, <1>5, <1>6, <1>7, <1>8, WtTogether

\* A new worktree is registered, or removed again by force.
LEMMA RegisterFreshKeeps == ASSUME WtInv, NEW p \in Cmd, RegisterFresh(p) PROVE WtInv'
<1>0. WtTyped /\ CheckoutOK /\ RowOK /\ KnownOK /\ CommandOK(p)
  BY DEF WtInv, CommandOK
<1>1. /\ SameWorld /\ op[p].at = "added" /\ UNCHANGED <<base, agentrun>> /\ reg \in WtRow /\ reg.id = 0 /\ rlock = p
      /\ \A r \in RunId : agentrun[r].by # "run" /\ ~Live(r)
  BY <1>0, SameStays, SpendKeeps DEF RegisterFresh, WtTyped, CommandOK, LockedOK, FreshOK, RowOK, Live
<1>2. CASE RemoveOrphanWorktree /\ Return(p) /\ UNCHANGED reg
  BY <1>1, <1>2, TreeGone
<1>3. CASE reg' = InsertWorktree("agent", TRUE) /\ UNCHANGED <<tree, quota>>
           /\ (IF op[p].cmd = "run" THEN GoTo(p, "registered") /\ UNCHANGED rlock ELSE Return(p))
  <2>1. reg' \in WtRow /\ reg'.id = 1 /\ reg'.status = "active" /\ reg'.by = "agent" /\ reg.id <= reg'.id
    <3>1. reg' = [id |-> 1, status |-> "active", by |-> "agent", branch |-> TRUE]
      BY <1>1, <1>3 DEF InsertWorktree
    <3> QED BY <1>1, <3>1 DEF WtRow
  <2>2. "detach" \notin quota.cmds => tree.head = "branch"
    BY <1>0, <1>1 DEF CommandOK, FreshOK
  <2>3. Acts(p) /\ CommandOK(p)' /\ LockMove(p)
    <3>1. CASE Return(p)
      <4>1. op' = [op EXCEPT ![p] = Ready] /\ LockMove(p) /\ Acts(p)
        BY <1>0, <3>1, ReturnMoves DEF Return, LockMove, WtTyped
      <4>2. WtTyped'
        BY <1>0, <1>1, <1>3, <2>1, <4>1 DEF WtTyped, Acts, SameWorld
      <4> QED BY <1>0, <4>1, <4>2, ReadyOK
    <3>2. CASE GoTo(p, "registered") /\ UNCHANGED rlock
      <4>1. /\ Acts(p) /\ op'[p].at = "registered" /\ op'[p].cmd = op[p].cmd /\ op'[p].run = op[p].run /\ op'[p].stale = op[p].stale
            /\ op'[p].tip = op[p].tip /\ op'[p].loose = op[p].loose /\ op'[p].row = op[p].row
        BY <1>0, <3>2, GoToMoves DEF WtTyped, Steps
      <4>2. LockedOK(p)' /\ FreshOK(p)' /\ RunsOK(p)'
        BY <1>0, <1>1, <1>3, <2>1, <3>2, <4>1 DEF CommandOK, LockedOK, FreshOK, RunsOK, SameWorld
      <4>3. op[p].row.id = 0
        BY <1>0, <1>1 DEF CommandOK, CleanupOK, WtTyped, Operation, WtRow
      <4>4. CleanupOK(p)'
        BY <1>0, <1>1, <1>3, <2>1, <4>1, <4>3 DEF CommandOK, CleanupOK, SameWorld, Removing
      <4> QED BY <3>2, <4>1, <4>2, <4>4 DEF CommandOK, LockMove
    <3> QED BY <1>3, <3>1, <3>2
  <2>4. KnownOK'
    BY <2>1 DEF KnownOK
  <2>5. UNCHANGED <<tree, base, agentrun>>
    BY <1>1, <1>3
  <2>6. reg'.status = "none" <=> reg'.id = 0
    BY <2>1
  <2> QED BY ONLY WtInv, p \in Cmd, <1>1, <2>1, <2>2, <2>3, <2>4, <2>5, <2>6, RegKeeps
<1> QED BY <1>2, <1>3 DEF RegisterFresh

\* git worktree add makes branch and checkout.
LEMMA AddWorktreeKeeps == ASSUME WtInv, NEW p \in Cmd, AddWorktree(p) PROVE WtInv'
<1>0. WtTyped /\ CheckoutOK /\ RowOK /\ KnownOK /\ CommandOK(p)
  BY DEF WtInv, CommandOK
<1>1. /\ SameWorld /\ op[p].at = "locked" /\ op[p].cmd \in {"run", "new"} /\ UNCHANGED <<base, reg, agentrun>> /\ rlock = p
  BY <1>0, SameStays, SpendKeeps DEF AddWorktree, WtTyped, CommandOK, LockedOK
<1>2. CASE Return(p) /\ UNCHANGED tree
  BY <1>1, <1>2, QuietReturn
<1>3. CASE /\ ~tree.disk /\ ~tree.branch /\ reg.status = "none"
           /\ tree' = [NoTree EXCEPT !.disk = TRUE, !.branch = TRUE]
           /\ GoTo(p, "added") /\ UNCHANGED <<rlock, quota>>
  <2>1. /\ tree' \in Checkout /\ tree'.disk /\ tree'.branch /\ tree'.head = "branch" /\ tree'.tip = 0 /\ tree'.loose = 0
        /\ ~tree'.dirty
    BY <1>3 DEF NoTree, Checkout
  <2>2. /\ Acts(p) /\ op'[p].at = "added" /\ op'[p].cmd = op[p].cmd /\ op'[p].run = op[p].run /\ op'[p].stale = op[p].stale
        /\ op'[p].tip = op[p].tip /\ op'[p].loose = op[p].loose /\ op'[p].row = op[p].row
    BY <1>0, <1>3, GoToMoves DEF WtTyped, Steps
  <2>3. reg.id = 0 /\ \A r \in RunId : agentrun[r].by # "run" /\ ~Live(r)
    BY <1>0, <1>3 DEF RowOK, Live
  <2>4. WtTyped'
    BY <1>0, <1>1, <2>1, <2>2 DEF WtTyped, Acts, SameWorld
  <2>5. CheckoutOK'
    BY <1>0, <1>1, <2>1 DEF CheckoutOK, SameWorld
  <2>6. RowOK'
    BY <1>0, <1>1, <2>3 DEF RowOK, SameWorld, Live
  <2>7. KnownOK'
    BY <2>2 DEF KnownOK
  <2>8. LockedOK(p)' /\ FreshOK(p)' /\ RunsOK(p)'
    BY <1>0, <1>1, <1>3, <2>1, <2>2, <2>3 DEF CommandOK, LockedOK, FreshOK, RunsOK, SameWorld
  <2>9. CleanupOK(p)'
    BY <1>0, <1>1, <1>3, <2>1, <2>2 DEF CommandOK, CleanupOK, SameWorld, Removing
  <2>10. ASSUME NEW q \in Cmd \ {p} PROVE Peaceful(q)
    <3>1. q # "none" /\ op'[q] = op[q] /\ rlock # q
      BY <1>1, <2>2, TreeAssumption DEF Acts
    <3>2. base.merged <= base'.merged /\ reg.id <= reg'.id
      BY <1>0, <1>1, <2>3 DEF WtTyped
    <3> QED BY <1>1, <2>1, <2>3, <3>1, <3>2 DEF Peaceful, Live
  <2> QED BY <2>4, <2>5, <2>6, <2>7, <2>8, <2>9, <2>10, WtTogether DEF CommandOK
<1> QED BY <1>2, <1>3 DEF AddWorktree

\* agent run records its run while it holds the lock.
LEMMA InsertRunKeeps == ASSUME WtInv, NEW p \in Cmd, InsertRun(p) PROVE WtInv'
<1>0. WtTyped /\ CheckoutOK /\ RowOK /\ KnownOK /\ CommandOK(p) /\ reg \in WtRow
  BY DEF WtInv, CommandOK, WtTyped
<1>1. /\ SameWorld /\ op[p].at = "registered" /\ UNCHANGED base /\ reg.id = 1 /\ rlock = p
      /\ \A r \in RunId : agentrun[r].by # "run" /\ ~Live(r)
      /\ "remove" \notin quota.cmds => tree.disk /\ reg.status = "active"
  BY <1>0, SameStays, SpendKeeps DEF InsertRun, WtTyped, CommandOK, LockedOK, FreshOK, RowOK, Live
<1>2. CASE RemoveOrphanWorktree /\ reg' = Deregistered(reg) /\ Return(p) /\ UNCHANGED agentrun
  <2>1. /\ reg' \in WtRow /\ reg'.id = reg.id /\ (reg'.branch <=> reg.branch) /\ reg'.status = "removed"
    BY <1>0, <1>2, DeregisteredRow
  <2>2. reg.status # "none"
    BY <1>0, <1>1 DEF RowOK
  <2> QED BY <1>1, <1>2, <2>1, <2>2, TreeGone
<1>3. ASSUME NEW r \in RunId, agentrun[r] = NoRun, rlock' = "none", UNCHANGED <<tree, reg, quota>>,
             agentrun' = [agentrun EXCEPT ![r] = [status |-> "running", pid |-> "alive", by |-> "run", wt |-> reg.id]],
             op' = [op EXCEPT ![p].at = "working", ![p].run = r]
      PROVE  WtInv'
  <2> DEFINE y == [op[p] EXCEPT !.at = "working", !.run = r]
             x == [status |-> "running", pid |-> "alive", by |-> "run", wt |-> reg.id]
  <2>1. op[p] \in Operation
    BY <1>0 DEF WtTyped
  <2>2. /\ y \in Operation /\ y.at = "working" /\ y.cmd = op[p].cmd /\ y.run = r /\ y.stale = op[p].stale /\ y.row = op[p].row
    BY <2>1 DEF Operation, Steps
  <2>3. op' = [op EXCEPT ![p] = y]
    BY <1>0, <1>3 DEF WtTyped
  <2> HIDE DEF y
  <2>4. Acts(p) /\ op'[p] = y
    BY <1>0, <2>2, <2>3, OpMoves DEF WtTyped
  <2>5. x \in AgentRun /\ x.status = "running" /\ x.by = "run" /\ x.wt = 1 /\ x.pid = "alive"
    BY <1>1 DEF AgentRun
  <2>6. agentrun' = [agentrun EXCEPT ![r] = x]
    BY <1>3
  <2> HIDE DEF x
  <2>7. /\ agentrun' \in [RunId -> AgentRun] /\ agentrun'[r] = x
        /\ \A s \in RunId \ {r} : agentrun'[s] = agentrun[s]
    BY <1>0, <2>5, <2>6 DEF WtTyped
  <2>8. agentrun[r].by = "none" /\ agentrun[r].pid = "none"
    BY <1>3 DEF NoRun
  <2>9. WtTyped'
    BY <1>0, <1>1, <1>3, <2>4, <2>7 DEF WtTyped, Acts, SameWorld
  <2>10. CheckoutOK'
    BY <1>0, <1>1, <1>3 DEF CheckoutOK
  <2>11. RowOK'
    BY <1>0, <1>1, <1>3, <2>5, <2>7 DEF RowOK, Live
  <2>12. KnownOK'
    BY <1>0, <1>1, <1>3, <2>4 DEF KnownOK, Acts
  <2>13. LockedOK(p)' /\ FreshOK(p)'
    BY <1>0, <1>1, <1>3, <2>2, <2>4 DEF CommandOK, LockedOK, FreshOK
  <2>14. RunsOK(p)'
    <3>1. op[p].stale \in SUBSET RunId
      BY <2>1 DEF Operation
    <3>2. \A s \in RunId : agentrun[s].pid # "none" => agentrun'[s].pid # "none"
      BY <2>5, <2>7
    <3> QED BY <1>0, <2>2, <2>4, <3>1, <3>2 DEF CommandOK, RunsOK
  <2>15. CleanupOK(p)'
    BY <1>0, <1>1, <1>3, <2>2, <2>4 DEF CommandOK, CleanupOK, Removing
  <2>16. ASSUME NEW q \in Cmd \ {p} PROVE Peaceful(q)
    <3>1. q # "none" /\ op'[q] = op[q] /\ rlock # q
      BY <1>1, <2>4, TreeAssumption DEF Acts
    <3>2. base.merged <= base'.merged /\ reg.id <= reg'.id
      BY <1>0, <1>1, <1>3 DEF WtTyped, WtRow
    <3> QED BY <1>1, <1>3, <2>5, <2>7, <2>8, <3>1, <3>2 DEF Peaceful
  <2> QED BY <2>9, <2>10, <2>11, <2>12, <2>13, <2>14, <2>15, <2>16, WtTogether DEF CommandOK
<1> QED BY <1>2, <1>3 DEF InsertRun


\* cleanup gates each checkout: clean, merged, and no agent in it.
LEMMA CheckWorktreeKeeps == ASSUME WtInv, NEW p \in Cmd, CheckWorktree(p) PROVE WtInv'
<1>0. WtTyped /\ CheckoutOK /\ RowOK /\ KnownOK /\ CommandOK(p) /\ reg \in WtRow /\ op[p] \in Operation /\ op[p].row \in WtRow
  BY DEF WtInv, CommandOK, WtTyped, Operation
<1>1. /\ SameWorld /\ op[p].at = "locked" /\ op[p].cmd = "cleanup" /\ UNCHANGED <<tree, agentrun, quota>> /\ rlock = p
      /\ op[p].row.id # 0 /\ op[p].row.id <= reg.id
  BY <1>0, SameStays DEF CheckWorktree, WtTyped, CommandOK, LockedOK, CleanupOK
<1> DEFINE protected == \E r \in RunId : agentrun[r].status = "running" /\ agentrun[r].wt = op[p].row.id
<1>2. ~protected => ("remove" \notin quota.cmds => \A r \in RunId : ~Live(r))
  <2> SUFFICES ASSUME "remove" \notin quota.cmds, NEW r \in RunId, Live(r) PROVE protected
    OBVIOUS
  <2>1. reg.id = 1 /\ agentrun[r].wt = 1 /\ agentrun[r].status = "running"
    BY <1>0 DEF RowOK, Live
  <2>2. op[p].row.id \in Nat
    BY <1>0 DEF WtRow
  <2>3. op[p].row.id = 1
    BY <1>1, <2>1, <2>2
  <2> QED BY <2>1, <2>3
<1> HIDE DEF protected
<1>3. CASE Return(p) /\ UNCHANGED <<reg, base>>
  BY <1>1, <1>3, QuietReturn
<1>4. CASE ~protected /\ ~tree.disk /\ reg' = Deregistered(op[p].row) /\ Return(p) /\ UNCHANGED base
  <2>1. /\ reg' \in WtRow /\ reg'.id = reg.id /\ (reg'.branch <=> reg.branch)
        /\ reg.id # op[p].row.id => reg' = reg
        /\ reg.id = op[p].row.id => reg'.status = "removed"
    BY <1>0, <1>4, DeregisteredRow
  <2>2. op' = [op EXCEPT ![p] = Ready] /\ LockMove(p) /\ Acts(p)
    BY <1>0, <1>4, ReturnMoves DEF Return, LockMove, WtTyped
  <2>3. WtTyped'
    BY <1>0, <1>1, <1>4, <2>1, <2>2 DEF WtTyped, Acts, SameWorld
  <2>4. CommandOK(p)'
    BY <1>0, <2>2, <2>3, ReadyOK
  <2>5. KnownOK'
    BY <1>1, <1>4 DEF KnownOK
  <2>6. reg'.status = "none" <=> reg'.id = 0
    BY <1>0, <1>1, <2>1 DEF RowOK
  <2>7. "detach" \notin quota.cmds /\ reg'.branch => tree.head = "branch"
    BY <1>0, <2>1 DEF CheckoutOK
  <2>8. reg.id <= reg'.id
    BY <1>0, <2>1 DEF WtRow
  <2>9. UNCHANGED <<tree, base, agentrun>>
    BY <1>1, <1>4
  <2>10. "remove" \notin quota.cmds => \A r \in RunId : Live(r) => reg'.status = "active" /\ reg'.id = 1
    BY <1>2, <1>4
  <2> QED BY ONLY WtInv, p \in Cmd, <1>1, <2>1, <2>2, <2>4, <2>5, <2>6, <2>7, <2>8, <2>9, <2>10, RegKeeps
<1>5. CASE /\ ~protected /\ tree.disk /\ UNCHANGED reg
           /\ base' \in {base, [base EXCEPT !.fetched = base.merged]}
           /\ (IF MergeEligible(p) THEN GoTo(p, "recheck") /\ UNCHANGED rlock ELSE Return(p))
  <2>1. base' \in [merged : Nat, fetched : Nat] /\ base'.merged = base.merged /\ base'.fetched <= base'.merged
        /\ base.merged \in Nat /\ base.merged <= base'.merged
    <3>1. base \in [merged : Nat, fetched : Nat] /\ base.fetched <= base.merged
      BY <1>0 DEF WtTyped, CheckoutOK
    <3>2. CASE base' = base
      BY <3>1, <3>2
    <3>3. CASE base' = [base EXCEPT !.fetched = base.merged]
      BY <3>1, <3>3
    <3> QED BY <1>5, <3>2, <3>3
  <2>2. /\ Acts(p)
        /\ \/ op' = [op EXCEPT ![p] = Ready]
           \/ GoTo(p, "recheck") /\ rlock' = rlock /\ op[p].row.branch /\ tree.tip <= base'.fetched
    <3>1. CASE MergeEligible(p)
      <4>1. GoTo(p, "recheck") /\ rlock' = rlock /\ op[p].row.branch /\ tree.tip <= base'.fetched
        BY <1>5, <3>1 DEF MergeEligible
      <4> QED BY <1>0, <4>1, GoToMoves DEF WtTyped, Steps
    <3>2. CASE ~MergeEligible(p)
      <4>1. op' = [op EXCEPT ![p] = Ready]
        BY <1>5, <3>2 DEF Return
      <4> QED BY <1>0, <4>1, ReturnMoves DEF WtTyped
    <3> QED BY <3>1, <3>2
  <2>3. WtTyped'
    BY <1>0, <1>1, <1>5, <2>1, <2>2 DEF WtTyped, Acts, SameWorld
  <2>4. CheckoutOK'
    BY <1>0, <1>1, <1>5, <2>1 DEF CheckoutOK, SameWorld
  <2>5. RowOK'
    BY <1>0, <1>1, <1>5 DEF RowOK, Live
  <2>6. KnownOK'
    BY <1>0, <1>1, <1>5, <2>2 DEF KnownOK, Acts
  <2>7. CommandOK(p)'
    <3>1. CASE op' = [op EXCEPT ![p] = Ready]
      BY <1>0, <2>3, <3>1, ReadyOK
    <3>2. CASE GoTo(p, "recheck") /\ rlock' = rlock /\ op[p].row.branch /\ tree.tip <= base'.fetched
      <4>1. /\ op'[p].at = "recheck" /\ op'[p].cmd = op[p].cmd /\ op'[p].run = op[p].run /\ op'[p].stale = op[p].stale
            /\ op'[p].tip = op[p].tip /\ op'[p].loose = op[p].loose /\ op'[p].row = op[p].row
        BY <1>0, <3>2, GoToMoves DEF WtTyped, Steps
      <4>2. LockedOK(p)' /\ FreshOK(p)' /\ RunsOK(p)'
        BY <1>0, <1>1, <3>2, <4>1 DEF CommandOK, LockedOK, FreshOK, RunsOK
      <4>3. op[p].tip <= base'.merged
        <5>1. op[p].tip \in Nat /\ tree.tip \in Nat /\ base'.fetched \in Nat /\ base'.merged \in Nat /\ op[p].tip <= tree.tip
          BY <1>0, <1>1, <2>1 DEF Operation, WtTyped, Checkout, CommandOK, CleanupOK
        <5> QED BY <2>1, <3>2, <5>1
      <4>4. CleanupOK(p)'
        BY <1>0, <1>1, <1>2, <1>5, <3>2, <4>1, <4>3 DEF CommandOK, CleanupOK, Removing, Live
      <4> QED BY <4>2, <4>4 DEF CommandOK
    <3> QED BY <2>2, <3>1, <3>2
  <2>8. ASSUME NEW q \in Cmd \ {p} PROVE Peaceful(q)
    <3>1. q # "none" /\ op'[q] = op[q] /\ rlock # q
      BY <1>1, <2>2, TreeAssumption DEF Acts
    <3>2. reg.id <= reg'.id
      BY <1>0, <1>5 DEF WtRow
    <3> QED BY <1>1, <1>5, <2>1, <3>1, <3>2 DEF Peaceful, Live
  <2> QED BY <2>3, <2>4, <2>5, <2>6, <2>7, <2>8, WtTogether
<1>6. \/ Return(p) /\ UNCHANGED <<reg, base>>
      \/ ~protected /\ ~tree.disk /\ reg' = Deregistered(op[p].row) /\ Return(p) /\ UNCHANGED base
      \/ /\ ~protected /\ tree.disk /\ UNCHANGED reg
         /\ base' \in {base, [base EXCEPT !.fetched = base.merged]}
         /\ (IF MergeEligible(p) THEN GoTo(p, "recheck") /\ UNCHANGED rlock ELSE Return(p))
  BY DEF CheckWorktree, protected
<1> QED BY <1>3, <1>4, <1>5, <1>6

\* git worktree remove, with force only when the caller gave it.
LEMMA RemoveCheckoutKeeps == ASSUME WtInv, NEW p \in Cmd, RemoveCheckout(p) PROVE WtInv'
<1>0. WtTyped /\ CheckoutOK /\ RowOK /\ KnownOK /\ CommandOK(p) /\ tree \in Checkout
  BY DEF WtInv, CommandOK, WtTyped
<1>1. /\ SameWorld /\ op[p].at = "remove" /\ UNCHANGED <<base, reg, agentrun>>
  BY <1>0, SameStays, SpendKeeps DEF RemoveCheckout, WtTyped
<1>2. CASE Return(p) /\ UNCHANGED tree
  BY <1>1, <1>2, QuietReturn
<1>3. ASSUME NEW s \in {"branch", "deregister"}, WorktreeRemove(p), GoTo(p, s), s = "branch" <=> op[p].cmd = "cleanup", UNCHANGED rlock
      PROVE  WtInv'
  <2>1. /\ tree' \in Checkout /\ ~tree'.disk /\ (tree'.branch <=> tree.branch) /\ tree'.head = tree.head /\ tree'.tip = tree.tip
        /\ tree'.loose = 0 /\ ~tree'.dirty
    BY <1>0, <1>3 DEF WorktreeRemove, Checkout
  <2>2. /\ Acts(p) /\ op'[p].at = s /\ op'[p].cmd = op[p].cmd /\ op'[p].run = op[p].run /\ op'[p].stale = op[p].stale
        /\ op'[p].tip = op[p].tip /\ op'[p].loose = op[p].loose /\ op'[p].row = op[p].row
    BY <1>0, <1>3, GoToMoves DEF WtTyped, Steps
  <2>3. "remove" \notin quota.cmds => op[p].cmd = "cleanup" /\ rlock = p /\ \A r \in RunId : ~Live(r)
    BY <1>0, <1>1 DEF CommandOK, LockedOK, CleanupOK, Removing
  <2>4. WtTyped'
    BY <1>0, <1>1, <2>1, <2>2 DEF WtTyped, Acts, SameWorld
  <2>5. CheckoutOK'
    BY <1>0, <1>1, <2>1 DEF CheckoutOK, SameWorld
  <2>6. RowOK'
    BY <1>0, <1>1, <2>3 DEF RowOK, SameWorld, Live
  <2>7. KnownOK'
    BY <2>1 DEF KnownOK
  <2>8. LockedOK(p)' /\ FreshOK(p)' /\ RunsOK(p)'
    BY <1>0, <1>1, <1>3, <2>2 DEF CommandOK, LockedOK, FreshOK, RunsOK, SameWorld
  <2>9. CleanupOK(p)'
    BY <1>0, <1>1, <1>3, <2>1, <2>2 DEF CommandOK, CleanupOK, SameWorld, Removing, Live
  <2>10. ASSUME NEW q \in Cmd \ {p} PROVE Peaceful(q)
    <3>1. q # "none" /\ op'[q] = op[q] /\ q # p /\ rlock' = rlock
      BY <1>3, <2>2, TreeAssumption DEF Acts
    <3>2. base.merged <= base'.merged /\ reg.id <= reg'.id /\ tree.tip <= tree'.tip
      BY <1>0, <1>1, <2>1 DEF WtTyped, WtRow, Checkout
    <3> QED BY <1>1, <2>1, <2>3, <3>1, <3>2 DEF Peaceful, Live
  <2> QED BY <2>4, <2>5, <2>6, <2>7, <2>8, <2>9, <2>10, WtTogether DEF CommandOK
<1> QED BY <1>2, <1>3 DEF RemoveCheckout

\* The branch goes after its checkout, unless it is checked out.
LEMMA DeleteBranchKeeps == ASSUME WtInv, NEW p \in Cmd, DeleteBranch(p) PROVE WtInv'
<1>0. WtTyped /\ CheckoutOK /\ RowOK /\ KnownOK /\ CommandOK(p) /\ tree \in Checkout
  BY DEF WtInv, CommandOK, WtTyped
<1>1. /\ SameWorld /\ op[p].at = "branch" /\ op[p].cmd = "cleanup" /\ rlock = p
      /\ UNCHANGED <<base, reg, agentrun, rlock>> /\ GoTo(p, "deregister")
  BY <1>0, SameStays, SpendKeeps DEF DeleteBranch, WtTyped, CommandOK, LockedOK
<1>2. /\ tree' \in Checkout /\ (tree'.disk <=> tree.disk) /\ tree'.head = tree.head
      /\ tree'.loose = tree.loose /\ (tree'.dirty <=> tree.dirty)
      /\ ~tree'.branch => tree'.tip = 0 /\ ~(tree'.disk /\ tree'.head = "branch")
  <2>1. CASE tree' = tree
    BY <1>0, <2>1 DEF CheckoutOK
  <2>2. CASE ~(tree.disk /\ tree.head = "branch") /\ tree' = [tree EXCEPT !.branch = FALSE, !.tip = 0]
    BY <1>0, <2>2 DEF Checkout
  <2> QED BY <2>1, <2>2 DEF DeleteBranch
<1>3. /\ Acts(p) /\ op'[p].at = "deregister" /\ op'[p].cmd = op[p].cmd /\ op'[p].run = op[p].run /\ op'[p].stale = op[p].stale
      /\ op'[p].tip = op[p].tip /\ op'[p].loose = op[p].loose /\ op'[p].row = op[p].row
  BY <1>0, <1>1, GoToMoves DEF WtTyped, Steps
<1>4. WtTyped'
  BY <1>0, <1>1, <1>2, <1>3 DEF WtTyped, Acts, SameWorld
<1>5. CheckoutOK'
  BY <1>0, <1>1, <1>2 DEF CheckoutOK, SameWorld
<1>6. RowOK'
  BY <1>0, <1>1, <1>2 DEF RowOK, SameWorld, Live
<1>7. KnownOK'
  BY <1>0, <1>1, <1>2, <1>3 DEF KnownOK, SameWorld, Acts
<1>8. LockedOK(p)' /\ FreshOK(p)' /\ RunsOK(p)'
  BY <1>0, <1>1, <1>3 DEF CommandOK, LockedOK, FreshOK, RunsOK, SameWorld
<1>9. CleanupOK(p)'
  BY <1>0, <1>1, <1>2, <1>3 DEF CommandOK, CleanupOK, SameWorld, Removing, Live
<1>10. ASSUME NEW q \in Cmd \ {p} PROVE Peaceful(q)
  <2>1. q # "none" /\ op'[q] = op[q] /\ rlock # q
    BY <1>1, <1>3, TreeAssumption DEF Acts
  <2>2. base.merged <= base'.merged /\ reg.id <= reg'.id
    BY <1>0, <1>1 DEF WtTyped, WtRow
  <2> QED BY <1>1, <1>2, <2>1, <2>2 DEF Peaceful, Live
<1> QED BY <1>4, <1>5, <1>6, <1>7, <1>8, <1>9, <1>10, WtTogether DEF CommandOK


\* The checkout's user and upstream.
LEMMA UserKeeps == ASSUME WtInv, Edit \/ Commit \/ SwitchHead \/ MergeUpstream \/ UNCHANGED wtvars PROVE WtInv'
<1>0. WtTyped /\ CheckoutOK /\ RowOK /\ KnownOK /\ tree \in Checkout /\ base \in [merged : Nat, fetched : Nat]
  BY DEF WtInv, WtTyped
<1>1. /\ SameWorld /\ UNCHANGED <<reg, agentrun, rlock, op>>
  BY <1>0, SameStays DEF Edit, Commit, SwitchHead, MergeUpstream, wtvars, WtTyped
<1>2. /\ tree' \in Checkout /\ (tree'.disk <=> tree.disk) /\ tree.tip <= tree'.tip /\ (tree'.dirty => tree'.disk)
      /\ ~tree'.branch => tree'.tip = 0 /\ ~(tree'.disk /\ tree'.head = "branch")
      /\ "detach" \notin quota.cmds => (tree.head = "branch" => tree'.head = "branch") /\ (tree'.head = "branch" => tree'.loose = 0)
      /\ base' \in [merged : Nat, fetched : Nat] /\ base.merged <= base'.merged /\ base'.fetched <= base'.merged
  <2>0. tree.tip \in Nat /\ tree.loose \in Nat /\ base.merged \in Nat /\ base.fetched \in Nat
    BY <1>0 DEF Checkout
  <2>1. CASE Edit
    <3>1. tree' = [tree EXCEPT !.dirty = TRUE] /\ base' = base /\ tree.disk
      BY <2>1 DEF Edit
    <3>2. /\ tree' \in Checkout /\ tree'.disk = tree.disk /\ tree'.branch = tree.branch /\ tree'.head = tree.head
          /\ tree'.tip = tree.tip /\ tree'.loose = tree.loose
      BY <1>0, <3>1 DEF Checkout
    <3> QED BY <1>0, <2>0, <3>1, <3>2 DEF CheckoutOK
  <2>2. CASE Commit
    <3>1. CASE tree.head = "branch"
      <4>1. tree' = [tree EXCEPT !.dirty = FALSE, !.tip = tree.tip + 1, !.loose = tree.loose + 0] /\ base' = base /\ tree.disk
        BY <2>2, <3>1 DEF Commit
      <4>2. tree.tip + 1 \in Nat /\ tree.loose + 0 = tree.loose /\ tree.tip <= tree.tip + 1
        BY <2>0
      <4>3. /\ tree' \in Checkout /\ tree'.disk = tree.disk /\ tree'.branch = tree.branch /\ tree'.head = tree.head
            /\ tree'.tip = tree.tip + 1 /\ tree'.loose = tree.loose /\ ~tree'.dirty
        BY <1>0, <2>0, <4>1, <4>2 DEF Checkout
      <4> QED BY <1>0, <2>0, <3>1, <4>1, <4>2, <4>3 DEF CheckoutOK
    <3>2. CASE tree.head # "branch"
      <4>1. tree' = [tree EXCEPT !.dirty = FALSE, !.tip = tree.tip + 0, !.loose = tree.loose + 1] /\ base' = base /\ tree.disk
        BY <2>2, <3>2 DEF Commit
      <4>2. tree.loose + 1 \in Nat /\ tree.tip + 0 = tree.tip
        BY <2>0
      <4>3. /\ tree' \in Checkout /\ tree'.disk = tree.disk /\ tree'.branch = tree.branch /\ tree'.head = tree.head
            /\ tree'.tip = tree.tip /\ ~tree'.dirty
        BY <1>0, <2>0, <4>1, <4>2 DEF Checkout
      <4> QED BY <1>0, <2>0, <3>2, <4>1, <4>3 DEF CheckoutOK
    <3> QED BY <3>1, <3>2
  <2>3. CASE SwitchHead
    <3>1. CASE tree.head = "detached" /\ ~tree.branch
               /\ tree' = [tree EXCEPT !.head = "branch", !.branch = TRUE, !.tip = tree.loose, !.loose = 0]
      <4>1. base' = base /\ tree.disk
        BY <2>3 DEF SwitchHead
      <4>2. /\ tree' \in Checkout /\ tree'.disk = tree.disk /\ tree'.branch = TRUE /\ tree'.head = "branch"
            /\ tree'.tip = tree.loose /\ tree'.loose = 0 /\ tree'.dirty = tree.dirty
        BY <1>0, <2>0, <3>1 DEF Checkout
      <4> QED BY <1>0, <2>0, <3>1, <4>1, <4>2 DEF CheckoutOK
    <3>2. CASE "detach" \in quota.cmds /\ tree' = [tree EXCEPT !.head = "detached"]
      BY <1>0, <2>0, <2>3, <3>2 DEF SwitchHead, Checkout, CheckoutOK
    <3> QED BY <2>3, <3>1, <3>2 DEF SwitchHead
  <2>4. CASE MergeUpstream
    <3>1. base.merged < tree.tip /\ base' = [base EXCEPT !.merged = tree.tip] /\ tree' = tree
      BY <2>4 DEF MergeUpstream
    <3>2. base'.merged = tree.tip /\ base'.fetched = base.fetched /\ base' \in [merged : Nat, fetched : Nat]
      BY <1>0, <2>0, <3>1
    <3> QED BY <1>0, <2>0, <3>1, <3>2 DEF CheckoutOK
  <2>5. CASE UNCHANGED wtvars
    BY <1>0, <2>0, <2>5 DEF wtvars, CheckoutOK
  <2> QED BY <2>1, <2>2, <2>3, <2>4, <2>5
<1>3. WtTyped'
  BY <1>0, <1>1, <1>2 DEF WtTyped, SameWorld
<1>4. CheckoutOK'
  BY <1>0, <1>1, <1>2 DEF CheckoutOK, SameWorld
<1>5. RowOK'
  BY <1>0, <1>1, <1>2 DEF RowOK, SameWorld, Live
<1>6. KnownOK'
  BY <1>0, <1>1, <1>2 DEF KnownOK, SameWorld
<1>7. ASSUME NEW q \in Cmd PROVE Peaceful(q)
  <2>1. reg.id <= reg'.id
    BY <1>0, <1>1 DEF WtTyped, WtRow
  <2> QED BY <1>1, <1>2, <2>1 DEF Peaceful, Live
<1> QED BY <1>3, <1>4, <1>5, <1>6, <1>7, WtTogether

\* The worlds begin with no command under way.
LEMMA TreesInitKeeps == TreesInit => WtInv
<1> SUFFICES ASSUME TreesInit PROVE WtInv
  OBVIOUS
<1>1. quota \in Quota
  BY TreeAssumption DEF TreesInit, Quota, Commands
<1>2. /\ Ready \in Operation /\ Ready.at = "ready" /\ Ready.cmd = "none" /\ Ready.stale = {}
      /\ Ready.row.id = 0 /\ Ready.row.branch = FALSE
  BY UnregisteredRow DEF Ready, Operation, Steps
<1>3. \A p \in Cmd : op[p] = Ready
  BY DEF TreesInit
<1>4. NoRun \in AgentRun /\ NoRun.by = "none" /\ NoRun.status = "none"
  BY DEF NoRun, AgentRun
<1>5. \A r \in RunId : agentrun[r] = NoRun
  BY DEF TreesInit
<1>6. /\ tree \in Checkout /\ ~tree.dirty /\ tree.tip = 0 /\ tree.loose = 0
      /\ quota.start = "none" => ~tree.disk
      /\ quota.start = "created" => tree.head = "branch"
      /\ ~tree.branch => ~(tree.disk /\ tree.head = "branch")
  <2>1. CASE quota.start = "none"
    BY <2>1 DEF TreesInit, NoTree, Checkout
  <2>2. CASE quota.start # "none"
    <3> DEFINE h == IF quota.start = "detached" THEN "detached" ELSE "branch"
    <3>1. tree = [NoTree EXCEPT !.disk = TRUE, !.branch = quota.start # "detached", !.head = h]
      BY <2>2 DEF TreesInit
    <3>2. h \in {"branch", "detached"} /\ (quota.start = "created" => h = "branch") /\ (h = "branch" => quota.start # "detached")
      OBVIOUS
    <3> HIDE DEF h
    <3> QED BY <2>2, <3>1, <3>2 DEF NoTree, Checkout
  <2> QED BY <2>1, <2>2
<1>7. /\ reg \in WtRow /\ (reg.status = "none" <=> reg.id = 0) /\ (reg.branch => quota.start = "created") /\ reg.id \in Nat
  <2>1. CASE quota.start = "created"
    BY <2>1 DEF TreesInit, WtRow
  <2>2. CASE quota.start # "created"
    BY <2>2, UnregisteredRow DEF TreesInit
  <2> QED BY <2>1, <2>2
<1>8. base = [merged |-> 0, fetched |-> 0] /\ base.merged = 0 /\ base.fetched = 0
  BY DEF TreesInit
<1>9. WtTyped
  <2>1. op \in [Cmd -> Operation] /\ agentrun \in [RunId -> AgentRun]
    BY <1>2, <1>4 DEF TreesInit
  <2>2. base \in [merged : Nat, fetched : Nat]
    BY <1>8
  <2> QED BY <1>1, <1>6, <1>7, <2>1, <2>2 DEF WtTyped
<1>10. CheckoutOK
  BY <1>6, <1>7, <1>8 DEF CheckoutOK
<1>11. RowOK
  BY <1>4, <1>5, <1>7 DEF RowOK, Live
<1>12. KnownOK
  BY <1>6 DEF KnownOK
<1>13. ASSUME NEW p \in Cmd PROVE LockedOK(p) /\ FreshOK(p) /\ RunsOK(p)
  BY <1>2, <1>3 DEF LockedOK, FreshOK, RunsOK
<1>14. ASSUME NEW p \in Cmd PROVE CleanupOK(p)
  BY <1>2, <1>3, <1>7 DEF CleanupOK
<1> QED BY <1>9, <1>10, <1>11, <1>12, <1>13, <1>14 DEF WtInv

\* Every step of a worktree's world.
LEMMA TreesStep == WtInv /\ [TreesNext]_wtvars => WtInv'
<1> SUFFICES ASSUME WtInv, [TreesNext]_wtvars PROVE WtInv'
  OBVIOUS
<1>1. ASSUME NEW p \in Cmd, CommandStep(p) PROVE WtInv'
  BY <1>1, LockRepoKeeps, AddWorktreeKeeps, RegisterFreshKeeps, InsertRunKeeps, FinishRunKeeps, InspectWorktreeKeeps,
     RegisterAdoptedKeeps, AdoptRunKeeps, UpdateAgentRunResultKeeps, ReadRunningKeeps, MarkInterruptedKeeps,
     ListWorktreesKeeps, CheckWorktreeKeeps, LooksKeep, RemoveCheckoutKeeps, DeleteBranchKeeps,
     MarkWorktreeRemovedKeeps, OpenPRKeeps DEF CommandStep
<1>2. ASSUME NEW p \in Cmd, AgentFinish(p) \/ Die(p) PROVE WtInv'
  BY <1>2, AgentFinishKeeps, DieKeeps
<1> QED BY <1>1, <1>2, StartsKeep, UserKeeps, HarnessExitsKeeps DEF TreesNext

\* Checkouts, their rows and the runs in them stay together, for any number of
\* commands, runs and commits, in every world.
THEOREM CheckoutsAreTracked == CheckoutsSpec => []CheckoutsTracked
<1>1. CheckoutsInit => WtInv
  BY TreesInitKeeps DEF CheckoutsInit
<1>2. WtInv /\ [CheckoutsNext]_checkoutvars => WtInv'
  BY TreesStep DEF CheckoutsNext, checkoutvars, wtvars
<1>3. WtInv => CheckoutsTracked
  <2> SUFFICES ASSUME WtInv PROVE CheckoutsTracked
    OBVIOUS
  <2>1. AgentKeepsCheckout
    BY DEF WtInv, RowOK, Live, AgentKeepsCheckout
  <2>2. LiveNotInterrupted
    BY DEF WtInv, RowOK, LiveNotInterrupted
  <2>3. NoHiddenCheckout
    BY DEF WtInv, KnownOK, NoHiddenCheckout
  <2> QED BY <2>1, <2>2, <2>3 DEF CheckoutsTracked
<1> QED BY <1>1, <1>2, <1>3, PTL DEF CheckoutsSpec


\* Which steps of commands take a checkout or a branch away.
LEMMA OtherStepsKeepTree ==
    ASSUME NEW p \in Cmd, CommandStep(p), ~RemoveCheckout(p), ~DeleteBranch(p), op[p].at \notin {"added", "registered"}
    PROVE  (tree.disk => tree'.disk) /\ (tree.branch => tree'.branch)
<1>1. CASE AddWorktree(p)
  BY <1>1 DEF AddWorktree, NoTree
<1>2. CASE ~AddWorktree(p)
  BY <1>2 DEF CommandStep, LockRepo, RegisterFresh, InsertRun, FinishRun, InspectWorktree, RegisterAdopted, AdoptRun,
     UpdateAgentRunResult, ReadRunning, MarkInterrupted, ListWorktrees, CheckWorktree, RecheckDirty, MarkWorktreeRemoved,
     LookBeforeRemove, OpenPR
<1> QED BY <1>1, <1>2

\* No other action takes a checkout or a branch.
LEMMA OtherActionsKeepTree ==
    ASSUME WtInv,
           \/ \E p \in Cmd : \/ CreateFresh(p, "run") \/ CreateFresh(p, "new") \/ WorktreeAdopt(p) \/ AgentAdopt(p)
                             \/ AgentFinish(p) \/ SweepCommand(p) \/ CleanupCommand(p) \/ RemoveCommand(p)
                             \/ AgentPR(p) \/ Die(p)
           \/ Edit \/ Commit \/ SwitchHead \/ MergeUpstream \/ (\E r \in RunId : HarnessExits(r)) \/ UNCHANGED wtvars
    PROVE  (tree.disk => tree'.disk) /\ (tree.branch => tree'.branch)
<1>0. tree \in Checkout
  BY DEF WtInv, WtTyped
<1>1. CASE \E p \in Cmd : \/ CreateFresh(p, "run") \/ CreateFresh(p, "new") \/ WorktreeAdopt(p) \/ AgentAdopt(p)
                          \/ AgentFinish(p) \/ SweepCommand(p) \/ CleanupCommand(p) \/ RemoveCommand(p)
                          \/ AgentPR(p) \/ Die(p)
  BY <1>1 DEF CreateFresh, WorktreeAdopt, AgentAdopt, AgentFinish, SweepCommand, CleanupCommand, RemoveCommand, AgentPR, Die, Begin
<1>2. CASE Edit \/ Commit \/ SwitchHead \/ MergeUpstream
  BY <1>0, <1>2 DEF Edit, Commit, SwitchHead, MergeUpstream, Checkout
<1>3. CASE (\E r \in RunId : HarnessExits(r)) \/ UNCHANGED wtvars
  BY <1>3 DEF HarnessExits, wtvars
<1> QED BY <1>1, <1>2, <1>3

\* cleanup takes a branch only when its tip is merged, and a checkout only when
\* it saw no commit on a detached HEAD alone, where users do not detach it meanwhile.
LEMMA CommitsStep == WtInv /\ [TreesNext]_wtvars =>
    \A p \in Cmd : op[p].cmd = "cleanup" /\ op'[p] # op[p] =>
        /\ tree.branch /\ ~tree'.branch => op[p].tip <= base.merged
        /\ tree.disk /\ ~tree'.disk => op[p].loose = 0 \/ "detach" \in quota.cmds
<1> SUFFICES ASSUME WtInv, [TreesNext]_wtvars, NEW p \in Cmd, op[p].cmd = "cleanup", op'[p] # op[p]
             PROVE  /\ tree.branch /\ ~tree'.branch => op[p].tip <= base.merged
                    /\ tree.disk /\ ~tree'.disk => op[p].loose = 0 \/ "detach" \in quota.cmds
  OBVIOUS
<1>0. WtTyped /\ CommandOK(p) /\ op[p].at \notin {"added", "registered"} /\ tree \in Checkout
  BY DEF WtInv, CommandOK, LockedOK, WtTyped
<1>1. CASE RemoveCheckout(p)
  <2>1. op[p].at = "remove" /\ (tree.branch => tree'.branch)
    BY <1>0, <1>1 DEF RemoveCheckout, WorktreeRemove, Checkout
  <2> QED BY <1>0, <2>1 DEF CommandOK, CleanupOK, Removing
<1>2. CASE DeleteBranch(p)
  <2>1. op[p].at = "branch" /\ (tree.disk => tree'.disk)
    BY <1>0, <1>2 DEF DeleteBranch, Checkout
  <2> QED BY <1>0, <2>1 DEF CommandOK, CleanupOK
<1>3. CASE CommandStep(p) /\ ~RemoveCheckout(p) /\ ~DeleteBranch(p)
  BY <1>0, <1>3, OtherStepsKeepTree
<1>4. ASSUME NEW q \in Cmd \ {p}, CommandStep(q) PROVE FALSE
  <2>1. \A x : op' = [op EXCEPT ![q] = x] => op'[p] = op[p]
    BY <1>0, <1>4 DEF WtTyped
  <2>2. \A s : GoTo(q, s) => op'[p] = op[p]
    BY <1>0, <1>4 DEF WtTyped, GoTo
  <2> QED BY <1>0, <1>4, <2>1, <2>2 DEF WtTyped, CommandStep, LockRepo, AddWorktree, RegisterFresh, InsertRun, FinishRun, InspectWorktree, RegisterAdopted, AdoptRun,
     UpdateAgentRunResult, ReadRunning, MarkInterrupted, ListWorktrees, CheckWorktree, RecheckDirty, MarkWorktreeRemoved,
     LookBeforeRemove, OpenPR, RemoveCheckout, DeleteBranch, Return
<1> QED BY <1>1, <1>2, <1>3, <1>4, OtherActionsKeepTree DEF TreesNext

\* Uncommitted edits go only with a removal that was forced, or with a worktree
\* that its own creation takes back.
LEMMA EditsStep == WtInv /\ [TreesNext]_wtvars =>
    (tree.dirty /\ ~tree'.disk => \E p \in Cmd : op[p].at \in {"added", "registered"} \/ (op[p].at = "remove" /\ op[p].force))
<1> SUFFICES ASSUME WtInv, [TreesNext]_wtvars, tree.dirty, ~tree'.disk
             PROVE  \E p \in Cmd : op[p].at \in {"added", "registered"} \/ (op[p].at = "remove" /\ op[p].force)
  OBVIOUS
<1>0. tree.disk /\ tree \in Checkout
  BY DEF WtInv, CheckoutOK, WtTyped
<1>1. ASSUME NEW p \in Cmd, RemoveCheckout(p) PROVE op[p].at = "remove" /\ op[p].force
  BY <1>0, <1>1 DEF RemoveCheckout, WorktreeRemove
<1>2. ASSUME NEW p \in Cmd, DeleteBranch(p) PROVE FALSE
  BY <1>0, <1>2 DEF DeleteBranch, Checkout
<1>3. ASSUME NEW p \in Cmd, CommandStep(p), ~RemoveCheckout(p), ~DeleteBranch(p) PROVE op[p].at \in {"added", "registered"}
  BY <1>0, <1>3, OtherStepsKeepTree
<1> QED BY <1>0, <1>1, <1>2, <1>3, OtherActionsKeepTree DEF TreesNext

-----------------------------------------------------------------------------
(* WIP refs: the invariant.                                                *)

Event == [type : {"pushed", "dropped"}, owner : Laptop, sha : Nat, hlc : Nat]
WipRow == [sha : Nat, observed : Nat, dropped : Nat, droppedSha : Nat]
Orphan == [sha : Nat, first : Nat]
Candidate == [owner : Laptop, sha : Nat, why : {"named", "terminal", "orphan"}]
WipCommand == [at : {"idle", "pushed", "apply", "applied", "delete", "look", "record", "plan", "sweep"},
               owner : Laptop \cup {"none"}, sha : Nat, why : {"none", "explicit", "named", "terminal", "orphan"},
               todo : SUBSET Candidate, read : {<<>>} \cup [Laptop -> WipRow], next : {<<>>} \cup [Laptop -> Orphan]]

\* Everything but the commands has its type.
PlaneTyped ==
    /\ ref \in [Laptop -> Nat] /\ date \in [Laptop -> Seq(Nat)] /\ row \in [Laptop -> [Laptop -> WipRow]]
    /\ stream \in [Laptop -> Seq(Event)] /\ taken \in [Laptop -> [Laptop -> Nat]]
    /\ stamp \in [Laptop -> Nat] /\ wall \in Nat /\ orphans \in [Laptop -> [Laptop -> Orphan]]

\* Each device's events: pushes are its own, and the times increase.
Announcing(s, S) ==
    /\ \A i \in 1..Len(S[s]) : S[s][i].hlc > 0 /\ (S[s][i].type = "pushed" => S[s][i].owner = s)
    /\ \A i, j \in 1..Len(S[s]) : i < j => S[s][i].hlc < S[s][j].hlc
Stamped == \A s \in Laptop : \A i \in 1..Len(stream[s]) : stream[s][i].hlc <= stamp[s]

\* A snapshot a lease proved gone, with refs R and commits D: no ref has it again.
Gone(o, sha, R, D) == sha # 0 => sha <= Len(D[o]) /\ R[o] # sha
DropsProved ==
    \A s \in Laptop : \A i \in 1..Len(stream[s]) :
        stream[s][i].type = "dropped" => Gone(stream[s][i].owner, stream[s][i].sha, ref, date)

\* The row r of owner o is what t[s] events of each stream S[s] amount to: the
\* last push of o, and of the drops the last, with the smallest sha.
Mirror(r, o, S, t) ==
    /\ \A i \in 1..t[o] : S[o][i].type = "pushed" => S[o][i].hlc <= r.observed
    /\ \/ r.observed = 0 /\ r.sha = 0
       \/ \E i \in 1..t[o] : S[o][i].type = "pushed" /\ S[o][i].hlc = r.observed /\ S[o][i].sha = r.sha
    /\ \A s \in Laptop : \A i \in 1..t[s] : S[s][i].type = "dropped" /\ S[s][i].owner = o =>
          S[s][i].hlc < r.dropped \/ (S[s][i].hlc = r.dropped /\ r.droppedSha <= S[s][i].sha)
    /\ \/ r.dropped = 0 /\ r.droppedSha = 0
       \/ \E s \in Laptop : \E i \in 1..t[s] : /\ S[s][i].type = "dropped" /\ S[s][i].owner = o
                                               /\ S[s][i].hlc = r.dropped /\ S[s][i].sha = r.droppedSha

\* The refs, the streams, what was applied of them, and the rows.
PlaneInv ==
    /\ PlaneTyped
    /\ \A o \in Laptop : ref[o] <= Len(date[o]) /\ Announcing(o, stream)
    /\ Stamped /\ DropsProved
    /\ \A d \in Laptop : taken[d][d] = Len(stream[d]) /\ \A s \in Laptop : taken[d][s] <= Len(stream[s])
    /\ \A d, o \in Laptop : Mirror(row[d][o], o, stream, taken[d])

Announced(o, sha, S) == \E i \in 1..Len(S[o]) : S[o][i].type = "pushed" /\ S[o][i].sha = sha

\* What device d's command w holds, with refs R, commits D, streams S, at time h:
\* an announced snapshot to apply, an aged one to delete, one whose lease held to
\* record, the orphans a sweep met, and candidates whose sha is a commit.
Holds(d, w, R, D, S, h) ==
    /\ w.at \in {"apply", "applied"} => w.owner \in Laptop /\ Announced(w.owner, w.sha, S)
    /\ w.at \in {"delete", "look", "record"} => w.owner \in Laptop
    /\ w.at = "delete" /\ w.why # "explicit" => w.sha \in 1..Len(D[w.owner]) /\ h + Skew[d] > D[w.owner][w.sha] + TTL
    /\ w.at = "record" => Gone(w.owner, w.sha, R, D)
    /\ w.at = "sweep" \/ (w.at \in {"delete", "look", "record"} /\ w.why # "explicit") => w.next \in [Laptop -> Orphan]
    /\ \A a \in w.todo : a.sha \in 1..Len(D[a.owner])

WipInv == PlaneInv /\ wip \in [Laptop -> WipCommand] /\ \A d \in Laptop : Holds(d, wip[d], ref, date, stream, wall)

-----------------------------------------------------------------------------
(* WIP refs: the mirror.                                                   *)

\* A row depends only on the events applied (DeliverWip: a stream only grows).
LEMMA MirrorPrefix ==
    ASSUME NEW S, NEW Z, NEW t \in [Laptop -> Nat], NEW r, NEW o \in Laptop,
           \A s \in Laptop : \A i \in 1..t[s] : Z[s][i] = S[s][i], Mirror(r, o, S, t)
    PROVE  Mirror(r, o, Z, t)
BY DEF Mirror

\* Two rows of the same events are the same row (UpsertDeviceWipTx,
\* TombstoneDeviceWipTx: the order of the streams does not matter).
LEMMA MirrorUnique ==
    ASSUME NEW S \in [Laptop -> Seq(Event)], NEW t \in [Laptop -> Nat], NEW o \in Laptop, t[o] <= Len(S[o]),
           Announcing(o, S), NEW r \in WipRow, NEW q \in WipRow, Mirror(r, o, S, t), Mirror(q, o, S, t),
           \A s \in Laptop : \A i \in 1..t[s] : S[s][i] \in Event /\ S[s][i].hlc > 0
    PROVE  r = q
<1>n. /\ r.sha \in Nat /\ r.observed \in Nat /\ r.dropped \in Nat /\ r.droppedSha \in Nat
      /\ q.sha \in Nat /\ q.observed \in Nat /\ q.dropped \in Nat /\ q.droppedSha \in Nat
    BY DEF WipRow
<1>e. \A s \in Laptop : \A i \in 1..t[s] : S[s][i].hlc \in Nat \ {0} /\ S[s][i].sha \in Nat
    <2> TAKE s \in Laptop
    <2> TAKE i \in 1..t[s]
    <2>1. S[s][i] \in Event /\ S[s][i].hlc > 0
        OBVIOUS
    <2>2. \A x \in Event : x.hlc \in Nat /\ x.sha \in Nat
        BY DEF Event
    <2>3. S[s][i].hlc \in Nat /\ S[s][i].sha \in Nat
        BY ONLY <2>1, <2>2
    <2> QED BY <2>1, <2>3
<1>p. r.observed = q.observed /\ r.sha = q.sha
    <2>1. CASE r.observed = 0 /\ r.sha = 0
        BY <1>n, <1>e, <2>1 DEF Mirror
    <2>2. CASE q.observed = 0 /\ q.sha = 0
        BY <1>n, <1>e, <2>2 DEF Mirror
    <2>3. CASE ~(r.observed = 0 /\ r.sha = 0) /\ ~(q.observed = 0 /\ q.sha = 0)
        <3>1. PICK i \in 1..t[o] : S[o][i].type = "pushed" /\ S[o][i].hlc = r.observed /\ S[o][i].sha = r.sha
            BY <2>3 DEF Mirror
        <3>2. PICK j \in 1..t[o] : S[o][j].type = "pushed" /\ S[o][j].hlc = q.observed /\ S[o][j].sha = q.sha
            BY <2>3 DEF Mirror
        <3>3. r.observed = q.observed
            BY <1>n, <3>1, <3>2 DEF Mirror
        <3>4. i \in 1..Len(S[o]) /\ j \in 1..Len(S[o])
            OBVIOUS
        <3>5. i = j
            BY <1>n, <3>1, <3>2, <3>3, <3>4 DEF Announcing
        <3> QED BY <3>1, <3>2, <3>3, <3>5
    <2> QED BY <2>1, <2>2, <2>3
<1>d. r.dropped = q.dropped /\ r.droppedSha = q.droppedSha
    <2>1. CASE r.dropped = 0 /\ r.droppedSha = 0
        BY SMTT(30), <1>n, <1>e, <2>1 DEF Mirror
    <2>2. CASE q.dropped = 0 /\ q.droppedSha = 0
        BY <1>n, <1>e, <2>2 DEF Mirror
    <2>3. CASE ~(r.dropped = 0 /\ r.droppedSha = 0) /\ ~(q.dropped = 0 /\ q.droppedSha = 0)
        <3>1. PICK s \in Laptop : \E i \in 1..t[s] : /\ S[s][i].type = "dropped" /\ S[s][i].owner = o
                                                     /\ S[s][i].hlc = r.dropped /\ S[s][i].sha = r.droppedSha
            BY <2>3 DEF Mirror
        <3>2. PICK z \in Laptop : \E i \in 1..t[z] : /\ S[z][i].type = "dropped" /\ S[z][i].owner = o
                                                     /\ S[z][i].hlc = q.dropped /\ S[z][i].sha = q.droppedSha
            BY <2>3 DEF Mirror
        <3>3. r.dropped < q.dropped \/ (r.dropped = q.dropped /\ q.droppedSha <= r.droppedSha)
            BY <3>1 DEF Mirror
        <3>4. q.dropped < r.dropped \/ (q.dropped = r.dropped /\ r.droppedSha <= q.droppedSha)
            BY <3>2 DEF Mirror
        <3> QED BY <1>n, <3>3, <3>4
    <2> QED BY <2>1, <2>2, <2>3
<1> QED BY <1>p, <1>d DEF WipRow

\* Drops are ordered by time, then by falling sha (TombstoneDeviceWip).
LEMMA LaterStill ==
    ASSUME NEW a \in Nat, NEW x \in Nat, NEW b \in Nat, NEW y \in Nat, NEW c \in Nat, NEW z \in Nat,
           a < b \/ (a = b /\ y <= x), b < c \/ (b = c /\ z <= y)
    PROVE  a < c \/ (a = c /\ z <= x)
OBVIOUS

\* The next event of a stream keeps the row the sum of what was applied
\* (UpsertDeviceWip overwrites with what is not older, TombstoneDeviceWip with
\* the later drop).
LEMMA MirrorApplies ==
    ASSUME NEW S \in [Laptop -> Seq(Event)], NEW t \in [Laptop -> Nat], NEW z \in Laptop, t[z] < Len(S[z]),
           \A s \in Laptop : t[s] <= Len(S[s]), Announcing(z, S), NEW o \in Laptop, NEW r \in WipRow, Mirror(r, o, S, t),
           NEW k \in [Laptop -> Nat], k = [t EXCEPT ![z] = t[z] + 1], NEW q,
           q = IF S[z][t[z] + 1].owner = o THEN Applied(r, S[z][t[z] + 1]) ELSE r
    PROVE  q \in WipRow /\ Mirror(q, o, S, k)
<1> DEFINE e == S[z][t[z] + 1]
<1>q. q = IF e.owner = o THEN Applied(r, e) ELSE r
    OBVIOUS
<1>n. r.sha \in Nat /\ r.observed \in Nat /\ r.dropped \in Nat /\ r.droppedSha \in Nat
    BY DEF WipRow
<1>e. e \in Event /\ e.hlc \in Nat /\ e.sha \in Nat /\ e.type \in {"pushed", "dropped"} /\ e.owner \in Laptop
    <2>1. S[z] \in Seq(Event) /\ t[z] \in Nat /\ t[z] + 1 \in 1..Len(S[z])
        OBVIOUS
    <2>2. e \in Event
        BY <2>1
    <2> HIDE DEF e
    <2> QED BY <2>2 DEF Event
<1>o. (e.type = "pushed" => e.owner = z) /\ e.hlc > 0
    BY DEF Announcing
<1>k. \A s \in Laptop : k[s] = IF s = z THEN t[z] + 1 ELSE t[s]
    OBVIOUS
<1>i. \A s \in Laptop : \A i \in 1..k[s] : i \in 1..t[s] \/ (s = z /\ S[s][i] = e)
    <2> TAKE s \in Laptop
    <2> TAKE i \in 1..k[s]
    <2>1. CASE s = z
        <3>1. i \in 1..(t[z] + 1)
            BY <1>k, <2>1
        <3>2. i \in 1..t[s] \/ i = t[z] + 1
            BY <3>1, <2>1
        <3> QED BY <3>2, <2>1
    <2>2. CASE s # z
        BY <1>k, <2>2
    <2> QED BY <2>1, <2>2
<1>j. \A s \in Laptop : \A i \in 1..t[s] : i \in 1..k[s]
    BY <1>k
<1>z. t[z] + 1 \in 1..k[z]
    BY <1>k
<1> HIDE DEF e
<1>1. CASE e.owner # o
    <2>1. q = r
        BY <1>1, <1>q
    <2> QED BY <1>1, <2>1, <1>i, <1>j, <1>o DEF Mirror, e
<1>2. CASE e.owner = o /\ e.type = "pushed"
    <2>1. o = z
        BY <1>2, <1>o
    <2>2. q = IF e.hlc >= r.observed THEN [r EXCEPT !.sha = e.sha, !.observed = e.hlc] ELSE r
        BY <1>2, <1>q DEF Applied, UpsertDeviceWip
    <2>3. q \in WipRow /\ q.dropped = r.dropped /\ q.droppedSha = r.droppedSha /\ q.observed \in Nat
        BY <2>2, <1>e DEF WipRow
    <2>4. /\ q.observed >= r.observed /\ q.observed >= e.hlc
          /\ (q.observed = e.hlc /\ q.sha = e.sha) \/ (q.observed = r.observed /\ q.sha = r.sha)
        <3>1. CASE e.hlc >= r.observed
            <4>1. q.observed = e.hlc /\ q.sha = e.sha
                BY <2>2, <3>1 DEF WipRow
            <4> QED BY ONLY <4>1, <3>1, <1>e, <1>n
        <3>2. CASE ~(e.hlc >= r.observed)
            <4>1. q.observed = r.observed /\ q.sha = r.sha
                BY <2>2, <3>2
            <4> QED BY ONLY <4>1, <3>2, <1>e, <1>n
        <3> QED BY <3>1, <3>2
    <2>6. \A i \in 1..k[o] : S[o][i].type = "pushed" => S[o][i].hlc <= q.observed
        <3> SUFFICES ASSUME NEW i \in 1..k[o], S[o][i].type = "pushed" PROVE S[o][i].hlc <= q.observed
            OBVIOUS
        <3>1. CASE i \in 1..t[o]
            <4>1. S[o][i].hlc <= r.observed
                BY <3>1 DEF Mirror
            <4>2. i \in 1..Len(S[o])
                BY <3>1, <2>1
            <4>3. S[o][i].hlc \in Nat
                <5>1. S[o] \in Seq(Event) /\ S[o][i] \in Event
                    BY <4>2
                <5> QED BY <5>1 DEF Event
            <4> QED BY <4>1, <4>3, <2>4, <2>3, <1>n
        <3>2. CASE S[o][i] = e
            BY <3>2, <2>4
        <3> QED BY <3>1, <3>2, <1>i
    <2>7. \/ q.observed = 0 /\ q.sha = 0
          \/ \E i \in 1..k[o] : S[o][i].type = "pushed" /\ S[o][i].hlc = q.observed /\ S[o][i].sha = q.sha
        <3>1. CASE q.observed = e.hlc /\ q.sha = e.sha
            BY <3>1, <1>2, <2>1, <1>z DEF e
        <3>2. CASE q.observed = r.observed /\ q.sha = r.sha
            BY <3>2, <1>j DEF Mirror
        <3> QED BY <3>1, <3>2, <2>4
    <2>8. /\ \A s \in Laptop : \A i \in 1..k[s] : S[s][i].type = "dropped" /\ S[s][i].owner = o =>
              S[s][i].hlc < q.dropped \/ (S[s][i].hlc = q.dropped /\ q.droppedSha <= S[s][i].sha)
          /\ \/ q.dropped = 0 /\ q.droppedSha = 0
             \/ \E s \in Laptop : \E i \in 1..k[s] : /\ S[s][i].type = "dropped" /\ S[s][i].owner = o
                                                     /\ S[s][i].hlc = q.dropped /\ S[s][i].sha = q.droppedSha
        <3>1. e.type # "dropped"
            BY <1>2
        <3>2. q.dropped = r.dropped /\ q.droppedSha = r.droppedSha
            BY <2>3
        <3>3. ASSUME NEW s \in Laptop, NEW i \in 1..k[s], S[s][i].type = "dropped" PROVE i \in 1..t[s]
            BY <3>1, <3>3, <1>i
        <3> QED BY <3>2, <3>3, <1>j DEF Mirror
    <2> QED BY <2>3, <2>6, <2>7, <2>8 DEF Mirror, e
<1>3. CASE e.owner = o /\ e.type = "dropped"
    <2>2. q = IF e.hlc > r.dropped \/ (e.hlc = r.dropped /\ e.sha < r.droppedSha)
              THEN [r EXCEPT !.dropped = e.hlc, !.droppedSha = e.sha] ELSE r
        BY <1>3, <1>q DEF Applied, TombstoneDeviceWip
    <2>3. q \in WipRow /\ q.sha = r.sha /\ q.observed = r.observed /\ q.dropped \in Nat /\ q.droppedSha \in Nat
        BY <2>2, <1>e DEF WipRow
    <2>4. /\ r.dropped < q.dropped \/ (r.dropped = q.dropped /\ q.droppedSha <= r.droppedSha)
          /\ e.hlc < q.dropped \/ (e.hlc = q.dropped /\ q.droppedSha <= e.sha)
        <3>1. CASE e.hlc > r.dropped \/ (e.hlc = r.dropped /\ e.sha < r.droppedSha)
            <4>1. q.dropped = e.hlc /\ q.droppedSha = e.sha
                BY <2>2, <3>1 DEF WipRow
            <4> QED BY ONLY <4>1, <3>1, <1>e, <1>n
        <3>2. CASE ~(e.hlc > r.dropped \/ (e.hlc = r.dropped /\ e.sha < r.droppedSha))
            <4>1. q.dropped = r.dropped /\ q.droppedSha = r.droppedSha
                BY <2>2, <3>2
            <4> QED BY ONLY SMTT(30), <4>1, <3>2, <1>e, <1>n
        <3> QED BY <3>1, <3>2
    <2>5. (q.dropped = e.hlc /\ q.droppedSha = e.sha) \/ (q.dropped = r.dropped /\ q.droppedSha = r.droppedSha)
        BY <2>2, <1>e, <1>n DEF WipRow
    <2>6. \A s \in Laptop : \A i \in 1..k[s] : S[s][i].type = "dropped" /\ S[s][i].owner = o =>
              S[s][i].hlc < q.dropped \/ (S[s][i].hlc = q.dropped /\ q.droppedSha <= S[s][i].sha)
        <3> SUFFICES ASSUME NEW s \in Laptop, NEW i \in 1..k[s], S[s][i].type = "dropped", S[s][i].owner = o
                     PROVE  S[s][i].hlc < q.dropped \/ (S[s][i].hlc = q.dropped /\ q.droppedSha <= S[s][i].sha)
            OBVIOUS
        <3>1. CASE i \in 1..t[s]
            <4>1. S[s][i].hlc < r.dropped \/ (S[s][i].hlc = r.dropped /\ r.droppedSha <= S[s][i].sha)
                BY <3>1 DEF Mirror
            <4>2. S[s] \in Seq(Event) /\ i \in 1..Len(S[s])
                BY <3>1
            <4>3. S[s][i] \in Event
                BY <4>2
            <4>4. S[s][i].hlc \in Nat /\ S[s][i].sha \in Nat
                BY <4>3 DEF Event
            <4>5. r.dropped < q.dropped \/ (r.dropped = q.dropped /\ q.droppedSha <= r.droppedSha)
                BY <2>4
            <4>6. q.dropped \in Nat /\ q.droppedSha \in Nat
                BY <2>3
            <4> DEFINE a == S[s][i].hlc
                       x == S[s][i].sha
            <4>7. a \in Nat /\ x \in Nat /\ (a < r.dropped \/ (a = r.dropped /\ r.droppedSha <= x))
                BY <4>1, <4>4
            <4> HIDE DEF a, x
            <4>8. a < q.dropped \/ (a = q.dropped /\ q.droppedSha <= x)
                <5>1. CASE a < r.dropped
                    <6>1. r.dropped <= q.dropped /\ a \in Nat
                        BY ONLY SMTT(30), <4>7, <4>5, <4>6, <1>n
                    <6>2. a < q.dropped
                        BY ONLY SMTT(30), <6>1, <5>1, <4>6, <1>n
                    <6> QED BY <6>2
                <5>2. CASE a = r.dropped /\ r.dropped < q.dropped
                    BY ONLY <5>2, <4>7, <4>5, <4>6, <1>n
                <5>3. CASE a = r.dropped /\ r.dropped = q.dropped
                    <6>1. r.droppedSha <= x /\ q.droppedSha <= r.droppedSha
                        BY ONLY <5>3, <4>7, <4>5, <4>6, <1>n
                    <6>2. q.droppedSha <= x
                        BY ONLY <6>1, <4>7, <4>6, <1>n
                    <6> QED BY <6>2, <5>3
                <5> QED BY ONLY <5>1, <5>2, <5>3, <4>7, <4>5
            <4> QED BY <4>8 DEF a, x
        <3>2. CASE S[s][i] = e
            BY <3>2, <2>4
        <3> QED BY <3>1, <3>2, <1>i
    <2>7. \/ q.dropped = 0 /\ q.droppedSha = 0
          \/ \E s \in Laptop : \E i \in 1..k[s] : /\ S[s][i].type = "dropped" /\ S[s][i].owner = o
                                                  /\ S[s][i].hlc = q.dropped /\ S[s][i].sha = q.droppedSha
        <3>1. CASE q.dropped = e.hlc /\ q.droppedSha = e.sha
            BY <3>1, <1>3, <1>z DEF e
        <3>2. CASE q.dropped = r.dropped /\ q.droppedSha = r.droppedSha
            BY <3>2, <1>j DEF Mirror
        <3> QED BY <3>1, <3>2, <2>5
    <2>8. /\ \A i \in 1..k[o] : S[o][i].type = "pushed" => S[o][i].hlc <= q.observed
          /\ \/ q.observed = 0 /\ q.sha = 0
             \/ \E i \in 1..k[o] : S[o][i].type = "pushed" /\ S[o][i].hlc = q.observed /\ S[o][i].sha = q.sha
        BY <2>3, <1>3, <1>i, <1>j DEF Mirror
    <2> QED BY <2>3, <2>6, <2>7, <2>8 DEF Mirror, e
<1> QED BY <1>1, <1>2, <1>3, <1>e
-----------------------------------------------------------------------------
(* WIP refs: what every step leaves alone.                                 *)

\* Commits and events are never taken back, a ref moves only forward or goes,
\* and time passes.
Later ==
    /\ wall <= wall'
    /\ \A o \in Laptop :
          /\ ref'[o] = ref[o] \/ ref'[o] = 0 \/ ref'[o] > Len(date[o])
          /\ Len(date[o]) <= Len(date'[o]) /\ \A i \in 1..Len(date[o]) : date'[o][i] = date[o][i]
          /\ Len(stream[o]) <= Len(stream'[o]) /\ \A i \in 1..Len(stream[o]) : stream'[o][i] = stream[o][i]

\* A snapshot that is gone stays gone (wip push makes a new commit).
LEMMA GoneLater ==
    ASSUME PlaneTyped, PlaneTyped', Later, NEW o \in Laptop, NEW sha \in Nat, Gone(o, sha, ref, date)
    PROVE  Gone(o, sha, ref', date')
<1>1. ref'[o] = ref[o] \/ ref'[o] = 0 \/ ref'[o] > Len(date[o])
    BY DEF Later
<1>2. Len(date[o]) <= Len(date'[o]) /\ Len(date[o]) \in Nat /\ Len(date'[o]) \in Nat /\ ref[o] \in Nat /\ ref'[o] \in Nat
    BY DEF Later, PlaneTyped
<1> QED BY <1>1, <1>2 DEF Gone

\* What a command holds, it holds while others act (LsRemoteRef, Corroborate:
\* what was read of origin stays true of the commits).
LEMMA HoldsLater ==
    ASSUME PlaneTyped, PlaneTyped', Later, NEW d \in Laptop, NEW w \in WipCommand, Holds(d, w, ref, date, stream, wall)
    PROVE  Holds(d, w, ref', date', stream', wall')
<1>t. w.sha \in Nat /\ (\A a \in w.todo : a.owner \in Laptop /\ a.sha \in Nat)
    BY DEF WipCommand, Candidate
<1>l. \A o \in Laptop : Len(date[o]) \in Nat /\ Len(date'[o]) \in Nat /\ Len(stream[o]) \in Nat /\ Len(stream'[o]) \in Nat
    <2> TAKE o \in Laptop
    <2>1. date[o] \in Seq(Nat) /\ date'[o] \in Seq(Nat)
        BY DEF PlaneTyped
    <2>2. stream[o] \in Seq(Event) /\ stream'[o] \in Seq(Event)
        BY DEF PlaneTyped
    <2> QED BY <2>1, <2>2
<1>1. w.at \in {"apply", "applied"} => w.owner \in Laptop /\ Announced(w.owner, w.sha, stream')
    <2> SUFFICES ASSUME w.at \in {"apply", "applied"} PROVE w.owner \in Laptop /\ Announced(w.owner, w.sha, stream')
        OBVIOUS
    <2>1. w.owner \in Laptop
        BY DEF Holds
    <2>2. PICK i \in 1..Len(stream[w.owner]) : stream[w.owner][i].type = "pushed" /\ stream[w.owner][i].sha = w.sha
        BY DEF Holds, Announced
    <2>3. i \in 1..Len(stream'[w.owner]) /\ stream'[w.owner][i] = stream[w.owner][i]
        BY <2>1, <2>2, <1>l DEF Later
    <2> QED BY <2>1, <2>2, <2>3 DEF Announced
<1>2. w.at \in {"delete", "look", "record"} => w.owner \in Laptop
    BY DEF Holds
<1>3. ASSUME w.at = "delete", w.why # "explicit"
      PROVE  w.sha \in 1..Len(date'[w.owner]) /\ wall' + Skew[d] > date'[w.owner][w.sha] + TTL
    <2>1. w.owner \in Laptop /\ w.sha \in 1..Len(date[w.owner]) /\ wall + Skew[d] > date[w.owner][w.sha] + TTL
        BY <1>3 DEF Holds
    <2>2. w.sha \in 1..Len(date'[w.owner]) /\ date'[w.owner][w.sha] = date[w.owner][w.sha] /\ wall <= wall'
        BY <2>1, <1>l DEF Later
    <2>3. wall \in Nat /\ wall' \in Nat /\ Skew[d] \in Nat /\ TTL \in Nat
        BY WipAssumption DEF PlaneTyped
    <2>4. date[w.owner] \in Seq(Nat)
        BY <2>1 DEF PlaneTyped
    <2>5. date[w.owner][w.sha] \in Nat
        BY ONLY <2>1, <2>4
    <2>6. wall' + Skew[d] > date[w.owner][w.sha] + TTL
        BY SMTT(30), <2>1, <2>2, <2>3, <2>5
    <2> QED BY <2>2, <2>6
<1>4. w.at = "record" => Gone(w.owner, w.sha, ref', date')
    BY <1>2, <1>t, GoneLater DEF Holds
<1>5. \A a \in w.todo : a.sha \in 1..Len(date'[a.owner])
    <2> TAKE a \in w.todo
    <2>1. a.owner \in Laptop /\ a.sha \in 1..Len(date[a.owner])
        BY <1>t DEF Holds
    <2>2. Len(date[a.owner]) <= Len(date'[a.owner])
        BY <2>1 DEF Later
    <2> QED BY <2>1, <2>2, <1>l
<1>6. w.at = "sweep" \/ (w.at \in {"delete", "look", "record"} /\ w.why # "explicit") => w.next \in [Laptop -> Orphan]
    BY DEF Holds
<1> QED BY <1>1, <1>2, <1>3, <1>4, <1>5, <1>6 DEF Holds

\* A step of device d's command, or of none (WipNext: one disjunct moves one).
LEMMA CommandMoves ==
    ASSUME WipInv, PlaneInv', Later, NEW d \in Laptop, wip' = [wip EXCEPT ![d] = wip'[d]], wip'[d] \in WipCommand,
           Holds(d, wip'[d], ref', date', stream', wall')
    PROVE  WipInv'
<1>1. PlaneTyped /\ PlaneTyped' /\ wip \in [Laptop -> WipCommand]
    BY DEF WipInv, PlaneInv
<1>2. wip' \in [Laptop -> WipCommand]
    BY <1>1
<1>3. ASSUME NEW e \in Laptop, e # d PROVE Holds(e, wip'[e], ref', date', stream', wall')
    <2>1. wip'[e] = wip[e] /\ wip[e] \in WipCommand /\ Holds(e, wip[e], ref, date, stream, wall)
        BY <1>1, <1>3 DEF WipInv
    <2> QED BY <1>1, <2>1, HoldsLater
<1> QED BY <1>2, <1>3 DEF WipInv

\* A step of no command.
LEMMA CommandsStay ==
    ASSUME WipInv, PlaneInv', Later, wip' = wip
    PROVE  WipInv'
<1>1. PlaneTyped /\ PlaneTyped' /\ wip \in [Laptop -> WipCommand]
    BY DEF WipInv, PlaneInv
<1>2. ASSUME NEW e \in Laptop PROVE Holds(e, wip'[e], ref', date', stream', wall')
    <2>1. wip'[e] = wip[e] /\ wip[e] \in WipCommand /\ Holds(e, wip[e], ref, date, stream, wall)
        BY <1>1 DEF WipInv
    <2> QED BY <1>1, <2>1, HoldsLater
<1> QED BY <1>1, <1>2 DEF WipInv

\* Drops go on to prove what they proved.
LEMMA DropsLater ==
    ASSUME PlaneInv, PlaneTyped', Later
    PROVE  \A s \in Laptop : \A i \in 1..Len(stream[s]) :
               stream[s][i].type = "dropped" => Gone(stream[s][i].owner, stream[s][i].sha, ref', date')
<1> SUFFICES ASSUME NEW s \in Laptop, NEW i \in 1..Len(stream[s]), stream[s][i].type = "dropped"
             PROVE  Gone(stream[s][i].owner, stream[s][i].sha, ref', date')
    OBVIOUS
<1>1. PlaneTyped /\ stream[s] \in Seq(Event)
    BY DEF PlaneInv, PlaneTyped
<1>2. stream[s][i] \in Event
    BY <1>1
<1>3. stream[s][i].owner \in Laptop /\ stream[s][i].sha \in Nat
    BY <1>2 DEF Event
<1>4. Gone(stream[s][i].owner, stream[s][i].sha, ref, date)
    BY DEF PlaneInv, DropsProved
<1> QED BY <1>1, <1>3, <1>4, GoneLater

\* A step that touches no event and no row (wip push on origin, a deletion
\* there, the passing of time, the orphan records).
LEMMA PlaneKeeps ==
    ASSUME PlaneInv, Later, UNCHANGED <<row, stream, taken, stamp>>, ref' \in [Laptop -> Nat],
           date' \in [Laptop -> Seq(Nat)], wall' \in Nat, orphans' \in [Laptop -> [Laptop -> Orphan]],
           \A o \in Laptop : ref'[o] <= Len(date'[o])
    PROVE  PlaneInv'
<1>1. PlaneTyped'
    BY DEF PlaneInv, PlaneTyped
<1>2. DropsProved'
    BY <1>1, DropsLater DEF DropsProved
<1>3. (\A o \in Laptop : Announcing(o, stream'))
    BY DEF PlaneInv
<1>4. Stamped'
    BY DEF PlaneInv, Stamped
<1>5. (\A d \in Laptop : taken[d][d] = Len(stream[d]) /\ \A s \in Laptop : taken[d][s] <= Len(stream[s]))'
    BY DEF PlaneInv
<1>6. \A d, o \in Laptop : Mirror(row'[d][o], o, stream', taken'[d])
    BY DEF PlaneInv
<1> QED BY <1>1, <1>2, <1>3, <1>4, <1>5, <1>6 DEF PlaneInv

\* The length of a stream is a number.
LEMMA StreamLength == \A S \in [Laptop -> Seq(Event)] : \A x \in Laptop : Len(S[x]) \in Nat
<1> TAKE S \in [Laptop -> Seq(Event)]
<1> TAKE x \in Laptop
<1>1. S[x] \in Seq(Event)
    OBVIOUS
<1> QED BY <1>1

\* What insertWipEvent appends: the event, at a time later than all it issued
\* or observed.
LEMMA Emits ==
    ASSUME PlaneTyped, NEW d \in Laptop, NEW t \in {"pushed", "dropped"}, NEW o \in Laptop, NEW s \in Nat,
           Emit(d, [type |-> t, owner |-> o, sha |-> s])
    PROVE  \E e \in Event :
               /\ e.type = t /\ e.owner = o /\ e.sha = s /\ e.hlc > stamp[d]
               /\ stream' = [stream EXCEPT ![d] = Append(stream[d], e)]
               /\ taken' = [taken EXCEPT ![d] = [taken[d] EXCEPT ![d] = taken[d][d] + 1]]
               /\ stamp' = [stamp EXCEPT ![d] = e.hlc]
<1> DEFINE h == larger(stamp[d] + 1, Clock(d) * Width)
<1>1. stamp[d] \in Nat /\ Clock(d) \in Nat /\ Width \in Nat
    BY SMTT(30), WipAssumption DEF PlaneTyped, Clock
<1>2. Clock(d) * Width \in Nat
    BY <1>1
<1>3. h \in Nat /\ h > stamp[d]
    BY <1>1, <1>2 DEF larger
<1> DEFINE e == [type |-> t, owner |-> o, sha |-> s, hlc |-> h]
<1>4. /\ stream' = [stream EXCEPT ![d] = Append(stream[d], e)]
      /\ taken' = [taken EXCEPT ![d] = [taken[d] EXCEPT ![d] = taken[d][d] + 1]]
      /\ stamp' = [stamp EXCEPT ![d] = h]
    BY DEF Emit, PlaneTyped
<1> HIDE DEF h
<1>5. e \in Event /\ e.type = t /\ e.owner = o /\ e.sha = s /\ e.hlc = h
    BY <1>3 DEF Event
<1> HIDE DEF e
<1> QED BY <1>3, <1>4, <1>5

\* A device's record of its own push or drop: the event and its row in one
\* transaction (RecordPush, dropWipRef).
LEMMA PlaneRecords ==
    ASSUME PlaneInv, NEW d \in Laptop, NEW t \in {"pushed", "dropped"}, NEW o \in Laptop, NEW s \in Nat,
           Emit(d, [type |-> t, owner |-> o, sha |-> s]), UNCHANGED <<ref, date, wall, orphans>>,
           row' = [row EXCEPT ![d][o] = Applied(row[d][o], stream'[d][Len(stream'[d])])],
           t = "pushed" => o = d, t = "dropped" => Gone(o, s, ref, date)
    PROVE  PlaneInv' /\ Later /\ (t = "pushed" => Announced(o, s, stream'))
<1>ty. PlaneTyped
    BY DEF PlaneInv
<1>0. PICK e \in Event :
          /\ e.type = t /\ e.owner = o /\ e.sha = s /\ e.hlc > stamp[d]
          /\ stream' = [stream EXCEPT ![d] = Append(stream[d], e)]
          /\ taken' = [taken EXCEPT ![d] = [taken[d] EXCEPT ![d] = taken[d][d] + 1]]
          /\ stamp' = [stamp EXCEPT ![d] = e.hlc]
    <2> HIDE DEF Emit
    <2> QED BY <1>ty, Emits
<1> DEFINE n == Len(stream[d])
           h == e.hlc
<1>e. e.type = t /\ e.owner = o /\ e.sha = s /\ e.hlc = h /\ h \in Nat /\ h > stamp[d]
    BY <1>0 DEF Event
<1>s. stream' = [stream EXCEPT ![d] = Append(stream[d], e)]
    BY <1>0
<1>k. taken' = [taken EXCEPT ![d] = [taken[d] EXCEPT ![d] = taken[d][d] + 1]]
    BY <1>0
<1>p. stamp' = [stamp EXCEPT ![d] = h]
    BY <1>0
<1> HIDE DEF h
<1>a. stream \in [Laptop -> Seq(Event)] /\ taken \in [Laptop -> [Laptop -> Nat]] /\ stamp \in [Laptop -> Nat]
    BY <1>ty DEF PlaneTyped
<1>n. n \in Nat /\ stream[d] \in Seq(Event)
    BY <1>a
<1>d. stream'[d] = Append(stream[d], e) /\ \A x \in Laptop : x # d => stream'[x] = stream[x]
    BY <1>s, <1>a
<1>l. Len(stream'[d]) = n + 1 /\ stream'[d][n + 1] = e /\ \A i \in 1..n : stream'[d][i] = stream[d][i]
    BY <1>d, <1>n, <1>e
<1>i. \A i \in 1..Len(stream'[d]) : i \in 1..n \/ i = n + 1
    BY <1>l, <1>n
<1>z. stream' \in [Laptop -> Seq(Event)]
    <2>1. Append(stream[d], e) \in Seq(Event)
        BY <1>n, <1>e
    <2> QED BY <2>1, <1>s, <1>a
<1> HIDE DEF n
<1>x. \A x \in Laptop : /\ Len(stream[x]) <= Len(stream'[x])
                        /\ \A i \in 1..Len(stream[x]) : stream'[x][i] = stream[x][i]
    <2> TAKE x \in Laptop
    <2>1. CASE x = d
        BY <2>1, <1>l, <1>n DEF n
    <2>2. CASE x # d
        <3>1. Len(stream[x]) \in Nat
            BY <1>a
        <3> QED BY <2>2, <1>d, <3>1
    <2> QED BY <2>1, <2>2
<1>L. Later
    <2>1. wall \in Nat /\ ref \in [Laptop -> Nat] /\ date \in [Laptop -> Seq(Nat)]
        BY <1>ty DEF PlaneTyped
    <2>2. \A x \in Laptop : Len(date[x]) \in Nat
        BY <2>1
    <2> QED BY <2>1, <2>2, <1>x DEF Later
<1>m. t = "pushed" => Announced(o, s, stream')
    <2> SUFFICES ASSUME t = "pushed" PROVE Announced(o, s, stream')
        OBVIOUS
    <2>1. n + 1 \in 1..Len(stream'[d])
        BY <1>l, <1>n
    <2> QED BY <2>1, <1>l, <1>e DEF Announced
<1>A. \A x \in Laptop : Announcing(x, stream')
    <2> TAKE x \in Laptop
    <2>0. Announcing(x, stream)
        BY DEF PlaneInv
    <2>1. CASE x # d
        BY <2>0, <2>1, <1>d DEF Announcing
    <2>2. CASE x = d
        <3>1. \A i \in 1..Len(stream'[d]) : stream'[d][i].hlc > 0 /\ (stream'[d][i].type = "pushed" => stream'[d][i].owner = d)
            <4>1. e.hlc > 0
                BY <1>e, <1>a
            <4>2. \A i \in 1..n : stream[d][i].hlc > 0 /\ (stream[d][i].type = "pushed" => stream[d][i].owner = d)
                BY <2>0, <2>2 DEF Announcing, n
            <4> QED BY <4>1, <4>2, <1>e, <1>l, <1>i
        <3>2. \A i, j \in 1..Len(stream'[d]) : i < j => stream'[d][i].hlc < stream'[d][j].hlc
            <4> SUFFICES ASSUME NEW i \in 1..Len(stream'[d]), NEW j \in 1..Len(stream'[d]), i < j
                         PROVE  stream'[d][i].hlc < stream'[d][j].hlc
                OBVIOUS
            <4>1. i \in 1..n
                BY <1>i, <1>l, <1>n
            <4>2. CASE j \in 1..n
                BY <4>1, <4>2, <2>0, <2>2, <1>l DEF Announcing, n
            <4>3. CASE j = n + 1
                <5>1. stream[d][i].hlc <= stamp[d] /\ stream[d][i] \in Event
                    BY <4>1, <1>n DEF PlaneInv, Stamped, n
                <5>2. stream[d][i].hlc \in Nat
                    BY <5>1 DEF Event
                <5>3. stream'[d][i].hlc = stream[d][i].hlc /\ stream'[d][j].hlc = h /\ stamp[d] \in Nat
                    BY <4>1, <4>3, <1>l, <1>e, <1>a
                <5> QED BY <5>1, <5>2, <5>3, <1>e
            <4> QED BY <4>2, <4>3, <1>i
        <3> QED BY <3>1, <3>2, <2>2 DEF Announcing
    <2> QED BY <2>1, <2>2
<1>S. Stamped'
    <2> SUFFICES ASSUME NEW x \in Laptop, NEW i \in 1..Len(stream'[x]) PROVE stream'[x][i].hlc <= stamp'[x]
        BY DEF Stamped
    <2>1. CASE x # d
        BY <2>1, <1>d, <1>p, <1>a DEF PlaneInv, Stamped
    <2>2. CASE x = d /\ i = n + 1
        <3>1. stream'[x][i].hlc = h /\ stamp'[x] = h
            BY <2>2, <1>l, <1>e, <1>p, <1>a
        <3> QED BY <3>1, <1>e
    <2>3. CASE x = d /\ i \in 1..n
        <3>1. stream[d][i].hlc <= stamp[d] /\ stream[d][i] \in Event
            BY <2>3, <1>n DEF PlaneInv, Stamped, n
        <3>2. stream[d][i].hlc \in Nat
            BY <3>1 DEF Event
        <3>3. stream'[x][i].hlc = stream[d][i].hlc /\ stamp'[x] = h /\ stamp[d] \in Nat
            BY <2>3, <1>l, <1>p, <1>a
        <3> QED BY <3>1, <3>2, <3>3, <1>e
    <2> QED BY <2>1, <2>2, <2>3, <1>i
<1>D. DropsProved'
    <2> SUFFICES ASSUME NEW x \in Laptop, NEW i \in 1..Len(stream'[x]), stream'[x][i].type = "dropped"
                 PROVE  Gone(stream'[x][i].owner, stream'[x][i].sha, ref, date)
        BY DEF DropsProved
    <2>1. CASE x # d
        BY <2>1, <1>d DEF PlaneInv, DropsProved
    <2>2. CASE x = d /\ i = n + 1
        BY <2>2, <1>l, <1>e
    <2>3. CASE x = d /\ i \in 1..n
        BY <2>3, <1>l DEF PlaneInv, DropsProved, n
    <2> QED BY <2>1, <2>2, <2>3, <1>i
<1>c. taken[d] \in [Laptop -> Nat] /\ taken[d][d] = n /\ \A x, y \in Laptop : taken[x][y] \in Nat /\ taken[x][y] <= Len(stream[y])
    BY <1>a DEF PlaneInv, n
<1>t. /\ taken' \in [Laptop -> [Laptop -> Nat]]
      /\ taken'[d] = [taken[d] EXCEPT ![d] = n + 1]
      /\ \A x \in Laptop : x # d => taken'[x] = taken[x]
    BY <1>k, <1>a, <1>c, <1>n
<1>C. \A x \in Laptop : taken'[x][x] = Len(stream'[x]) /\ \A y \in Laptop : taken'[x][y] <= Len(stream'[y])
    <2> TAKE x \in Laptop
    <2>1. \A y \in Laptop : Len(stream[y]) \in Nat /\ Len(stream'[y]) \in Nat
        BY <1>a, <1>z, StreamLength
    <2>2. CASE x # d
        <3>1. taken'[x][x] = Len(stream'[x])
            BY <2>2, <1>t, <1>d DEF PlaneInv
        <3>2. ASSUME NEW y \in Laptop PROVE taken'[x][y] <= Len(stream'[y])
            <4>1. taken'[x][y] = taken[x][y] /\ taken[x][y] <= Len(stream[y]) /\ Len(stream[y]) <= Len(stream'[y])
                BY <2>2, <1>c, <1>t, <1>x
            <4> QED BY <4>1, <2>1, <1>c
        <3> QED BY <3>1, <3>2
    <2>3. CASE x = d
        <3>1. taken'[d][d] = Len(stream'[d])
            BY <1>t, <1>c, <1>l
        <3>2. ASSUME NEW y \in Laptop, y # d PROVE taken'[d][y] <= Len(stream'[y])
            <4>1. taken'[d][y] = taken[d][y] /\ taken[d][y] <= Len(stream[y]) /\ Len(stream[y]) <= Len(stream'[y])
                BY <3>2, <1>c, <1>t, <1>x
            <4> QED BY <4>1, <2>1, <1>c
        <3> QED BY <3>1, <3>2, <2>1, <2>3
    <2> QED BY <2>2, <2>3
<1>P. \A x, y \in Laptop : Mirror(row[x][y], y, stream', taken[x])
    <2> TAKE x, y \in Laptop
    <2>1. \A q \in Laptop : \A i \in 1..taken[x][q] : stream'[q][i] = stream[q][i]
        <3> TAKE q \in Laptop
        <3> TAKE i \in 1..taken[x][q]
        <3>1. i \in 1..Len(stream[q])
            <4>1. taken[x][q] \in Nat /\ taken[x][q] <= Len(stream[q]) /\ Len(stream[q]) \in Nat
                BY <1>c, <1>a, StreamLength
            <4> QED BY <4>1
        <3> QED BY <3>1, <1>x
    <2>2. Mirror(row[x][y], y, stream, taken[x]) /\ taken[x] \in [Laptop -> Nat]
        BY <1>a DEF PlaneInv
    <2> QED BY ONLY <2>1, <2>2, MirrorPrefix
<1>r. row \in [Laptop -> [Laptop -> WipRow]] /\ row' = [row EXCEPT ![d][o] = Applied(row[d][o], e)]
    BY <1>ty, <1>l DEF PlaneTyped
<1>M. \A y \in Laptop : /\ (IF e.owner = y THEN Applied(row[d][y], e) ELSE row[d][y]) \in WipRow
                        /\ Mirror(IF e.owner = y THEN Applied(row[d][y], e) ELSE row[d][y], y, stream', taken'[d])
    <2> TAKE y \in Laptop
    <2>1. taken[d][d] < Len(stream'[d]) /\ stream'[d][taken[d][d] + 1] = e
        BY <1>c, <1>l, <1>n
    <2>2. \A q \in Laptop : taken[d][q] <= Len(stream'[q])
        <3> TAKE q \in Laptop
        <3>1. Len(stream[q]) \in Nat /\ Len(stream'[q]) \in Nat
            BY <1>a, <1>z, StreamLength
        <3>2. taken[d][q] \in Nat /\ taken[d][q] <= Len(stream[q]) /\ Len(stream[q]) <= Len(stream'[q])
            BY <1>c, <1>x
        <3> QED BY <3>1, <3>2
    <2>3. row[d][y] \in WipRow /\ Announcing(d, stream') /\ Mirror(row[d][y], y, stream', taken[d])
        BY <1>r, <1>A, <1>P
    <2>4. taken'[d] = [taken[d] EXCEPT ![d] = taken[d][d] + 1] /\ taken'[d] \in [Laptop -> Nat]
        BY <1>t, <1>c
    <2> DEFINE q == IF e.owner = y THEN Applied(row[d][y], e) ELSE row[d][y]
    <2>7. q = IF stream'[d][taken[d][d] + 1].owner = y THEN Applied(row[d][y], stream'[d][taken[d][d] + 1]) ELSE row[d][y]
        BY <2>1
    <2> HIDE DEF q
    <2>8. q \in WipRow /\ Mirror(q, y, stream', taken'[d])
        <3>1. ASSUME NEW S, S = stream', NEW m, m = taken[d], NEW k, k = taken'[d], NEW r, r = row[d][y]
              PROVE  q \in WipRow /\ Mirror(q, y, S, k)
            <4>1. S \in [Laptop -> Seq(Event)] /\ m \in [Laptop -> Nat] /\ k \in [Laptop -> Nat] /\ m[d] < Len(S[d])
                BY ONLY <3>1, <1>z, <1>c, <2>1, <2>4
            <4>2. Announcing(d, S) /\ r \in WipRow /\ Mirror(r, y, S, m) /\ k = [m EXCEPT ![d] = m[d] + 1]
                BY ONLY <3>1, <2>3, <2>4
            <4>3. \A x \in Laptop : m[x] <= Len(S[x])
                BY ONLY <3>1, <2>2
            <4>4. q = IF S[d][m[d] + 1].owner = y THEN Applied(r, S[d][m[d] + 1]) ELSE r
                BY ONLY <3>1, <2>7
            <4> HIDE <3>1
            <4> QED BY ONLY <4>1, <4>2, <4>3, <4>4, MirrorApplies
        <3> QED BY <3>1
    <2> QED BY <2>8 DEF q
<1>R. \A x, y \in Laptop : row'[x][y] = IF x = d /\ e.owner = y THEN Applied(row[x][y], e) ELSE row[x][y]
    BY <1>r, <1>e
<1>T. PlaneTyped'
    <2>1. row' \in [Laptop -> [Laptop -> WipRow]]
        <3>1. ASSUME NEW x \in Laptop, NEW y \in Laptop PROVE row'[x][y] \in WipRow
            BY <1>R, <1>M, <1>r
        <3>2. row' = [row EXCEPT ![d] = [row[d] EXCEPT ![o] = Applied(row[d][o], e)]] /\ Applied(row[d][o], e) \in WipRow
            BY <1>r, <1>M, <1>e
        <3> QED BY <3>2, <1>r
    <2>2. stamp' \in [Laptop -> Nat]
        BY <1>p, <1>a, <1>e
    <2> QED BY <2>1, <2>2, <1>t, <1>z, <1>ty DEF PlaneTyped
<1>Q. \A x, y \in Laptop : Mirror(row'[x][y], y, stream', taken'[x])
    <2> TAKE x, y \in Laptop
    <2>1. CASE x = d
        BY <2>1, <1>R, <1>M
    <2>2. CASE x # d
        <3>1. row'[x][y] = row[x][y] /\ taken'[x] = taken[x]
            BY <2>2, <1>R, <1>t
        <3> QED BY <3>1, <1>P
    <2> QED BY <2>1, <2>2
<1>f. \A x \in Laptop : ref'[x] <= Len(date'[x])
    BY DEF PlaneInv
<1> QED BY <1>T, <1>f, <1>A, <1>S, <1>D, <1>C, <1>Q, <1>L, <1>m DEF PlaneInv

\* A sync delivers the next event of another device (DeliverWip).
LEMMA PlaneDelivers ==
    ASSUME PlaneInv, NEW d \in Laptop, NEW o \in Laptop, DeliverWip(d, o)
    PROVE  PlaneInv' /\ Later
<1>ty. PlaneTyped
    BY DEF PlaneInv
<1> DEFINE e == stream[o][taken[d][o] + 1]
<1>a. stream \in [Laptop -> Seq(Event)] /\ taken \in [Laptop -> [Laptop -> Nat]] /\ stamp \in [Laptop -> Nat]
      /\ row \in [Laptop -> [Laptop -> WipRow]]
    BY <1>ty DEF PlaneTyped
<1>0. /\ d # o /\ taken[d][o] < Len(stream[o])
      /\ row' = [row EXCEPT ![d] = [row[d] EXCEPT ![e.owner] = Applied(row[d][e.owner], e)]]
      /\ stamp' = [stamp EXCEPT ![d] = larger(stamp[d], e.hlc)]
      /\ taken' = [taken EXCEPT ![d] = [taken[d] EXCEPT ![o] = taken[d][o] + 1]]
      /\ UNCHANGED <<ref, date, stream, wall, orphans>>
    BY <1>a DEF DeliverWip
<1>i. taken[d][o] \in Nat /\ taken[d][o] + 1 \in 1..Len(stream[o]) /\ stream[o] \in Seq(Event)
    BY <1>0, <1>a
<1>e. e \in Event
    BY <1>i
<1> HIDE DEF e
<1>h. e.hlc \in Nat /\ e.owner \in Laptop
    BY <1>e DEF Event
<1>L. Later
    <2>1. wall \in Nat /\ \A x \in Laptop : Len(date[x]) \in Nat /\ Len(stream[x]) \in Nat
        <3>1. date \in [Laptop -> Seq(Nat)] /\ wall \in Nat
            BY <1>ty DEF PlaneTyped
        <3>2. \A x \in Laptop : Len(date[x]) \in Nat
            BY <3>1
        <3> QED BY <3>1, <3>2, <1>a, StreamLength
    <2> QED BY <2>1, <1>0 DEF Later
<1>S. Stamped' /\ stamp' \in [Laptop -> Nat]
    <2>1. larger(stamp[d], e.hlc) \in Nat /\ larger(stamp[d], e.hlc) >= stamp[d] /\ stamp[d] \in Nat
        BY SMTT(30), <1>a, <1>h DEF larger
    <2>2. stamp' \in [Laptop -> Nat] /\ \A x \in Laptop : stamp'[x] >= stamp[x] /\ stamp[x] \in Nat /\ stamp'[x] \in Nat
        BY SMTT(30), <1>0, <1>a, <2>1
    <2>3. ASSUME NEW x \in Laptop, NEW i \in 1..Len(stream[x]) PROVE stream[x][i].hlc <= stamp'[x]
        <3>1. stream[x][i].hlc <= stamp[x] /\ stream[x][i] \in Event
            BY SMTT(30), <1>a DEF PlaneInv, Stamped
        <3>2. stream[x][i].hlc \in Nat
            BY <3>1 DEF Event
        <3> QED BY <3>1, <3>2, <2>2
    <2> QED BY <2>2, <2>3, <1>0 DEF Stamped
<1>c. taken[d] \in [Laptop -> Nat] /\ \A x, y \in Laptop : taken[x][y] \in Nat /\ taken[x][y] <= Len(stream[y])
    BY <1>a DEF PlaneInv
<1>t. /\ taken' \in [Laptop -> [Laptop -> Nat]]
      /\ taken'[d] = [taken[d] EXCEPT ![o] = taken[d][o] + 1]
      /\ \A x \in Laptop : x # d => taken'[x] = taken[x]
    BY <1>0, <1>a, <1>i
<1>C. \A x \in Laptop : taken'[x][x] = Len(stream'[x]) /\ \A y \in Laptop : taken'[x][y] <= Len(stream'[y])
    <2> TAKE x \in Laptop
    <2>1. taken'[x][x] = taken[x][x]
        BY <1>t, <1>0, <1>c
    <2>2. ASSUME NEW y \in Laptop PROVE taken'[x][y] <= Len(stream'[y])
        <3>1. CASE x = d /\ y = o
            BY <3>1, <1>t, <1>i, <1>0
        <3>2. CASE ~(x = d /\ y = o)
            BY <3>2, <1>t, <1>c, <1>0
        <3> QED BY <3>1, <3>2
    <2> QED BY <2>1, <2>2, <1>0 DEF PlaneInv
<1>M. \A y \in Laptop : /\ (IF e.owner = y THEN Applied(row[d][y], e) ELSE row[d][y]) \in WipRow
                        /\ Mirror(IF e.owner = y THEN Applied(row[d][y], e) ELSE row[d][y], y, stream, taken'[d])
    <2> TAKE y \in Laptop
    <2>3. row[d][y] \in WipRow /\ Announcing(o, stream) /\ Mirror(row[d][y], y, stream, taken[d])
        BY <1>a DEF PlaneInv
    <2>4. taken'[d] \in [Laptop -> Nat]
        BY <1>t, <1>c
    <2>5. e = stream[o][taken[d][o] + 1]
        BY DEF e
    <2> DEFINE q == IF e.owner = y THEN Applied(row[d][y], e) ELSE row[d][y]
    <2>7. q = IF stream[o][taken[d][o] + 1].owner = y THEN Applied(row[d][y], stream[o][taken[d][o] + 1]) ELSE row[d][y]
        BY <2>5
    <2> HIDE DEF q
    <2>8. q \in WipRow /\ Mirror(q, y, stream, taken'[d])
        <3>1. taken[d][o] < Len(stream[o])
            BY <1>0
        <3>2. taken'[d] = [taken[d] EXCEPT ![o] = taken[d][o] + 1]
            BY <1>t
        <3>3. stream \in [Laptop -> Seq(Event)] /\ \A x \in Laptop : taken[d][x] <= Len(stream[x])
            BY <1>a, <1>c
        <3> DEFINE t == taken[d]
                   k == taken'[d]
                   r == row[d][y]
        <3>4. t \in [Laptop -> Nat] /\ t[o] < Len(stream[o]) /\ k = [t EXCEPT ![o] = t[o] + 1] /\ k \in [Laptop -> Nat]
            BY <3>1, <3>2, <1>c, <2>4
        <3>5. \A x \in Laptop : t[x] <= Len(stream[x])
            BY <3>3
        <3>6. r \in WipRow /\ Mirror(r, y, stream, t)
            BY <2>3
        <3>7. q = IF stream[o][t[o] + 1].owner = y THEN Applied(r, stream[o][t[o] + 1]) ELSE r
            BY <2>7
        <3> HIDE DEF t, k, r
        <3>8. q \in WipRow /\ Mirror(q, y, stream, k)
            BY ONLY <3>3, <3>4, <3>5, <3>6, <3>7, <2>3, MirrorApplies
        <3> QED BY <3>8 DEF k
    <2> QED BY <2>8 DEF q
<1>R. \A x, y \in Laptop : row'[x][y] = IF x = d /\ e.owner = y THEN Applied(row[x][y], e) ELSE row[x][y]
    BY <1>0, <1>a, <1>h
<1>T. PlaneTyped'
    <2>1. row' \in [Laptop -> [Laptop -> WipRow]]
        BY <1>0, <1>a, <1>M, <1>h
    <2> QED BY <2>1, <1>0, <1>S, <1>t, <1>ty DEF PlaneTyped
<1>Q. \A x, y \in Laptop : Mirror(row'[x][y], y, stream', taken'[x])
    <2> TAKE x, y \in Laptop
    <2>1. CASE x = d
        <3>1. row'[x][y] = (IF e.owner = y THEN Applied(row[d][y], e) ELSE row[d][y]) /\ stream' = stream
            BY <2>1, <1>R, <1>0
        <3> QED BY <2>1, <3>1, <1>M
    <2>2. CASE x # d
        BY <2>2, <1>R, <1>t, <1>0 DEF PlaneInv
    <2> QED BY <2>1, <2>2
<1>f. \A x \in Laptop : ref'[x] <= Len(date'[x]) /\ Announcing(x, stream')
    BY <1>0 DEF PlaneInv
<1>D. DropsProved'
    BY <1>0 DEF PlaneInv, DropsProved
<1> QED BY <1>T, <1>f, <1>S, <1>D, <1>C, <1>Q, <1>L DEF PlaneInv
-----------------------------------------------------------------------------
(* WIP refs: the steps.                                                    *)

\* What the invariant says of one device.
LEMMA WipFacts ==
    ASSUME WipInv, NEW d \in Laptop
    PROVE  /\ PlaneInv /\ PlaneTyped /\ wip \in [Laptop -> WipCommand] /\ wip[d] \in WipCommand
           /\ Holds(d, wip[d], ref, date, stream, wall)
           /\ \A a \in wip[d].todo : a \in Candidate
<1>1. PlaneInv /\ PlaneTyped /\ wip \in [Laptop -> WipCommand] /\ Holds(d, wip[d], ref, date, stream, wall)
    BY DEF WipInv, PlaneInv
<1>2. wip[d] \in WipCommand
    BY <1>1
<1>3. wip[d].todo \in SUBSET Candidate
    BY <1>2 DEF WipCommand
<1> QED BY <1>1, <1>2, <1>3

\* No command holds nothing.
LEMMA QuietHolds ==
    ASSUME NEW d, NEW R, NEW D, NEW S, NEW h
    PROVE  Quiet \in WipCommand /\ Holds(d, Quiet, R, D, S, h) /\ Quiet.todo = {}
<1>1. Quiet \in WipCommand
    BY DEF Quiet, WipCommand
<1> QED BY <1>1 DEF Quiet, Holds

\* The rest of a sweep keeps its candidates (wip gc: one refusal does not stop it).
LEMMA ContinueHolds ==
    ASSUME NEW d, NEW w \in WipCommand, NEW R, NEW D, NEW S, NEW h, Holds(d, w, R, D, S, h),
           w.at \in {"look", "record"}
    PROVE  Continue(w) \in WipCommand /\ Holds(d, Continue(w), R, D, S, h) /\ Continue(w).todo \subseteq w.todo
<1>1. CASE w.why = "explicit"
    <2>1. Continue(w) = Quiet
        BY <1>1 DEF Continue
    <2> QED BY <2>1, QuietHolds
<1>2. CASE w.why # "explicit"
    <2> DEFINE x == [w EXCEPT !.at = "sweep", !.owner = "none", !.sha = 0]
    <2>1. Continue(w) = x
        BY <1>2 DEF Continue
    <2>2. x \in WipCommand /\ x.at = "sweep" /\ x.todo = w.todo /\ x.next = w.next
        BY DEF WipCommand
    <2> HIDE DEF x
    <2> QED BY <1>2, <2>1, <2>2 DEF Holds
<1> QED BY <1>1, <1>2

\* A step of commands alone.
LEMMA PlaneStays ==
    ASSUME PlaneInv, UNCHANGED <<ref, date, row, stream, taken, stamp, wall>>,
           orphans' \in [Laptop -> [Laptop -> Orphan]]
    PROVE  PlaneInv' /\ Later
<1>1. /\ ref \in [Laptop -> Nat] /\ date \in [Laptop -> Seq(Nat)] /\ wall \in Nat
      /\ stream \in [Laptop -> Seq(Event)]
    BY DEF PlaneInv, PlaneTyped
<1>2. \A x \in Laptop : Len(date[x]) \in Nat /\ Len(stream[x]) \in Nat
    <2>1. \A x \in Laptop : Len(date[x]) \in Nat
        BY <1>1
    <2> QED BY <2>1, <1>1, StreamLength
<1>3. Later
    BY <1>1, <1>2 DEF Later
<1>4. \A x \in Laptop : ref[x] <= Len(date[x])
    BY DEF PlaneInv
<1> QED BY <1>1, <1>3, <1>4, PlaneKeeps

\* The push lands on origin: a new commit, a new sha (WipPush).
LEMMA WipPushKeeps == ASSUME WipInv, NEW d \in Laptop, WipPush(d) PROVE WipInv'
<1> DEFINE n == Len(date[d])
           w == [Quiet EXCEPT !.at = "pushed", !.sha = n + 1]
<1>f. PlaneInv /\ PlaneTyped /\ wip \in [Laptop -> WipCommand]
    BY WipFacts
<1>t. /\ ref \in [Laptop -> Nat] /\ date \in [Laptop -> Seq(Nat)] /\ wall \in Nat /\ Skew[d] \in Nat
      /\ orphans \in [Laptop -> [Laptop -> Orphan]] /\ stream \in [Laptop -> Seq(Event)]
    BY <1>f, WipAssumption DEF PlaneTyped
<1>a. /\ date' = [date EXCEPT ![d] = Append(date[d], Clock(d))] /\ ref' = [ref EXCEPT ![d] = n + 1]
      /\ wip' = [wip EXCEPT ![d] = w]
      /\ UNCHANGED <<row, stream, taken, stamp, wall, orphans>>
    BY <1>t DEF WipPush
<1>n. n \in Nat /\ date[d] \in Seq(Nat) /\ Clock(d) \in Nat
    BY <1>t DEF Clock
<1>w. w \in WipCommand /\ w.at = "pushed" /\ w.todo = {}
    <2>1. n + 1 \in Nat
        BY <1>n
    <2> HIDE DEF n
    <2> QED BY <2>1 DEF Quiet, WipCommand
<1> HIDE DEF w
<1>d. /\ Append(date[d], Clock(d)) \in Seq(Nat) /\ Len(Append(date[d], Clock(d))) = n + 1
      /\ \A i \in 1..n : Append(date[d], Clock(d))[i] = date[d][i]
    BY <1>n
<1>e. date' \in [Laptop -> Seq(Nat)] /\ ref' \in [Laptop -> Nat]
    BY <1>a, <1>d, <1>t, <1>n
<1>g. \A x \in Laptop : Len(date[x]) \in Nat /\ Len(stream[x]) \in Nat
    <2>1. \A x \in Laptop : Len(date[x]) \in Nat
        BY <1>t
    <2> QED BY <2>1, <1>t, StreamLength
<1>h. \A x \in Laptop : /\ x # d => ref'[x] = ref[x] /\ date'[x] = date[x]
                        /\ x = d => ref'[x] = n + 1 /\ date'[x] = Append(date[d], Clock(d))
    BY <1>a, <1>t
<1>L. Later
    <2>1. ASSUME NEW x \in Laptop
          PROVE  /\ ref'[x] = ref[x] \/ ref'[x] = 0 \/ ref'[x] > Len(date[x])
                 /\ Len(date[x]) <= Len(date'[x]) /\ \A i \in 1..Len(date[x]) : date'[x][i] = date[x][i]
        <3>1. CASE x = d
            <4>1. ref'[x] = n + 1 /\ Len(date'[x]) = n + 1 /\ \A i \in 1..n : date'[x][i] = date[x][i]
                BY <3>1, <1>h, <1>d
            <4> QED BY <4>1, <3>1, <1>n
        <3>2. CASE x # d
            BY <3>2, <1>h, <1>g
        <3> QED BY <3>1, <3>2
    <2> QED BY <2>1, <1>a, <1>g, <1>t DEF Later
<1>r. \A x \in Laptop : ref'[x] <= Len(date'[x])
    <2> TAKE x \in Laptop
    <2>1. CASE x = d
        <3>1. ref'[x] = n + 1 /\ Len(date'[x]) = n + 1
            BY <2>1, <1>h, <1>d
        <3> QED BY <3>1, <1>n
    <2>2. CASE x # d
        BY <2>2, <1>h, <1>f DEF PlaneInv
    <2> QED BY <2>1, <2>2
<1>P. PlaneInv'
    BY <1>f, <1>L, <1>a, <1>e, <1>r, <1>t, PlaneKeeps
<1>H. Holds(d, w, ref', date', stream', wall')
    BY <1>w DEF Holds
<1>W. wip'[d] = w /\ wip' = [wip EXCEPT ![d] = wip'[d]]
    BY <1>a, <1>f
<1> QED BY <1>P, <1>L, <1>H, <1>W, <1>w, CommandMoves

\* The push is recorded with its event and its row (RecordPush).
LEMMA RecordPushKeeps == ASSUME WipInv, NEW d \in Laptop, RecordPush(d) PROVE WipInv'
<1>f. PlaneInv /\ PlaneTyped /\ wip \in [Laptop -> WipCommand] /\ wip[d] \in WipCommand
    BY WipFacts
<1>s. wip[d].sha \in Nat
    BY <1>f DEF WipCommand
<1>1. /\ Emit(d, [type |-> "pushed", owner |-> d, sha |-> wip[d].sha]) /\ UNCHANGED <<ref, date, wall, orphans>>
      /\ row' = [row EXCEPT ![d][d] = Applied(row[d][d], stream'[d][Len(stream'[d])])]
      /\ wip' = [wip EXCEPT ![d] = Quiet]
    BY DEF RecordPush
<1>2. PlaneInv' /\ Later
    BY <1>f, <1>s, <1>1, PlaneRecords
<1>3. wip'[d] = Quiet /\ wip' = [wip EXCEPT ![d] = wip'[d]]
    BY <1>1, <1>f
<1>4. wip'[d] \in WipCommand /\ Holds(d, wip'[d], ref', date', stream', wall')
    BY <1>3, QuietHolds
<1> QED BY <1>2, <1>3, <1>4, CommandMoves

\* A delivery (DeliverWip), in the middle of any command.
LEMMA DeliverWipKeeps == ASSUME WipInv, NEW d \in Laptop, NEW o \in Laptop, DeliverWip(d, o) PROVE WipInv'
<1>1. PlaneInv /\ wip' = wip
    BY DEF WipInv, DeliverWip
<1> QED BY <1>1, PlaneDelivers, CommandsStay

\* A command ends, or dies (Materialized, Abandon), or stores the orphans it met
\* (SaveOrphans).
LEMMA EndsKeep == ASSUME WipInv, NEW d \in Laptop, Materialized(d) \/ Abandon(d) \/ SaveOrphans(d) PROVE WipInv'
<1>f. PlaneInv /\ PlaneTyped /\ wip \in [Laptop -> WipCommand] /\ wip[d] \in WipCommand
    BY WipFacts
<1>1. wip' = [wip EXCEPT ![d] = Quiet] /\ UNCHANGED <<ref, date, row, stream, taken, stamp, wall>>
    BY DEF Materialized, Abandon, SaveOrphans
<1>2. wip'[d] = Quiet /\ wip' = [wip EXCEPT ![d] = wip'[d]]
    BY <1>1, <1>f
<1>3. wip'[d] \in WipCommand /\ Holds(d, wip'[d], ref', date', stream', wall')
    BY <1>2, QuietHolds
<1>4. orphans' \in [Laptop -> [Laptop -> Orphan]]
    <2>1. orphans \in [Laptop -> [Laptop -> Orphan]]
        BY <1>f DEF PlaneTyped
    <2>2. CASE SaveOrphans(d)
        <3>1. wip[d].next \in [Laptop -> Orphan]
            BY <2>2 DEF SaveOrphans, WipInv, Holds
        <3> QED BY <2>1, <2>2, <3>1 DEF SaveOrphans
    <2>3. CASE Materialized(d) \/ Abandon(d)
        BY <2>1, <2>3 DEF Materialized, Abandon
    <2> QED BY <2>2, <2>3
<1>5. PlaneInv' /\ Later
    BY <1>f, <1>1, <1>4, PlaneStays
<1> QED BY <1>2, <1>3, <1>5, CommandMoves

\* A step that only moves a command on (wip show, wip drop, wip gc between their
\* calls to git and the store).
LEMMA MovesOn ==
    ASSUME WipInv, NEW d \in Laptop, NEW w \in WipCommand, wip' = [wip EXCEPT ![d] = w],
           UNCHANGED <<ref, date, row, stream, taken, stamp, wall, orphans>>,
           Holds(d, w, ref, date, stream, wall)
    PROVE  WipInv'
<1>f. PlaneInv /\ PlaneTyped /\ wip \in [Laptop -> WipCommand]
    BY WipFacts
<1>1. orphans' \in [Laptop -> [Laptop -> Orphan]]
    BY <1>f DEF PlaneTyped
<1>2. PlaneInv' /\ Later
    BY <1>f, <1>1, PlaneStays
<1>3. wip'[d] = w /\ wip' = [wip EXCEPT ![d] = wip'[d]]
    BY <1>f
<1>4. Holds(d, wip'[d], ref', date', stream', wall')
    BY <1>3
<1> QED BY <1>2, <1>3, <1>4, CommandMoves

\* A row that is known is of a push that was announced (ListDeviceWip: the live
\* predicate of a row that only drops made is false).
LEMMA KnownAnnounced ==
    ASSUME PlaneInv, NEW d \in Laptop, NEW o \in Laptop, Known(row[d][o])
    PROVE  Announced(o, row[d][o].sha, stream)
<1>1. row[d][o] \in WipRow /\ Mirror(row[d][o], o, stream, taken[d])
    BY DEF PlaneInv, PlaneTyped
<1>2. CASE row[d][o].observed = 0 /\ row[d][o].sha = 0
    <2>1. row[d][o] # NoRow /\ deviceWipLivePredicate(row[d][o])
        BY DEF Known
    <2>2. row[d][o].dropped \in Nat /\ row[d][o].droppedSha \in Nat
        BY <1>1 DEF WipRow
    <2>3. row[d][o].dropped = 0
        BY <1>2, <2>1, <2>2 DEF deviceWipLivePredicate
    <2>4. row[d][o].droppedSha = 0
        <3>1. CASE \E s \in Laptop : \E i \in 1..taken[d][s] : stream[s][i].hlc = row[d][o].dropped
            <4>1. PICK s \in Laptop : \E i \in 1..taken[d][s] : stream[s][i].hlc = row[d][o].dropped
                BY <3>1
            <4>2. PICK i \in 1..taken[d][s] : stream[s][i].hlc = row[d][o].dropped
                BY <4>1
            <4>3. taken[d][s] \in Nat /\ taken[d][s] <= Len(stream[s]) /\ Len(stream[s]) \in Nat
                BY StreamLength DEF PlaneInv, PlaneTyped
            <4>4. i \in 1..Len(stream[s])
                BY <4>3
            <4>5. stream[s][i].hlc > 0
                BY <4>4 DEF PlaneInv, Announcing
            <4> QED BY <4>2, <4>5, <2>3
        <3> QED BY <1>1, <3>1 DEF Mirror
    <2> QED BY <1>1, <1>2, <2>1, <2>3, <2>4 DEF WipRow, NoRow
<1>3. CASE ~(row[d][o].observed = 0 /\ row[d][o].sha = 0)
    <2>1. PICK i \in 1..taken[d][o] : stream[o][i].type = "pushed" /\ stream[o][i].sha = row[d][o].sha
        BY <1>1, <1>3 DEF Mirror
    <2>2. taken[d][o] \in Nat /\ taken[d][o] <= Len(stream[o]) /\ Len(stream[o]) \in Nat
        BY StreamLength DEF PlaneInv, PlaneTyped
    <2>3. i \in 1..Len(stream[o])
        BY <2>2
    <2> QED BY <2>1, <2>3 DEF Announced
<1> QED BY <1>2, <1>3

\* A command begins (WipApply, WipDrop, SweepWipRefs).
LEMMA WipBeginsKeep ==
    ASSUME WipInv, NEW d \in Laptop, NEW o \in Laptop \cup {"none"},
           (o \in Laptop /\ (WipApply(d, o) \/ WipDrop(d, o))) \/ SweepWipRefs(d, o)
    PROVE  WipInv'
<1>f. PlaneInv /\ PlaneTyped
    BY WipFacts
<1>r. row[d] \in [Laptop -> WipRow]
    BY <1>f DEF PlaneTyped
<1>1. CASE o \in Laptop /\ WipApply(d, o)
    <2> DEFINE w == [Quiet EXCEPT !.at = "apply", !.owner = o, !.sha = row[d][o].sha]
    <2>1. wip' = [wip EXCEPT ![d] = w] /\ UNCHANGED <<ref, date, row, stream, taken, stamp, wall, orphans>> /\ Known(row[d][o])
        BY <1>1 DEF WipApply
    <2>2. row[d][o].sha \in Nat
        BY <1>1, <1>r DEF WipRow
    <2>3. w \in WipCommand /\ w.at = "apply" /\ w.owner = o /\ w.sha = row[d][o].sha /\ w.todo = {}
        BY <2>2 DEF Quiet, WipCommand
    <2>4. Announced(o, row[d][o].sha, stream)
        BY <1>1, <1>f, <2>1, KnownAnnounced
    <2> HIDE DEF w
    <2>5. Holds(d, w, ref, date, stream, wall)
        BY <1>1, <2>3, <2>4 DEF Holds
    <2> QED BY <2>1, <2>3, <2>5, MovesOn
<1>2. CASE o \in Laptop /\ WipDrop(d, o)
    <2> DEFINE w == [Quiet EXCEPT !.at = "delete", !.owner = o, !.sha = row[d][o].sha, !.why = "explicit"]
    <2>1. wip' = [wip EXCEPT ![d] = w] /\ UNCHANGED <<ref, date, row, stream, taken, stamp, wall, orphans>>
        BY <1>2 DEF WipDrop
    <2>2. row[d][o].sha \in Nat
        BY <1>2, <1>r DEF WipRow
    <2>3. w \in WipCommand /\ w.at = "delete" /\ w.owner = o /\ w.why = "explicit" /\ w.todo = {}
        BY <2>2, <1>2 DEF Quiet, WipCommand
    <2> HIDE DEF w
    <2>5. Holds(d, w, ref, date, stream, wall)
        BY <1>2, <2>3 DEF Holds
    <2> QED BY <2>1, <2>3, <2>5, MovesOn
<1>3. CASE SweepWipRefs(d, o)
    <2> DEFINE w == [Quiet EXCEPT !.at = "plan", !.owner = o, !.read = row[d]]
    <2>1. wip' = [wip EXCEPT ![d] = w] /\ UNCHANGED <<ref, date, row, stream, taken, stamp, wall, orphans>>
        BY <1>3 DEF SweepWipRefs
    <2>3. w \in WipCommand /\ w.at = "plan" /\ w.todo = {}
        BY <1>r DEF Quiet, WipCommand
    <2> HIDE DEF w
    <2>5. Holds(d, w, ref, date, stream, wall)
        BY <2>3 DEF Holds
    <2> QED BY <2>1, <2>3, <2>5, MovesOn
<1> QED BY <1>1, <1>2, <1>3

\* wip show and wip apply go on with the sha that was promised (Verified).
LEMMA VerifiedKeeps == ASSUME WipInv, NEW d \in Laptop, Verified(d) PROVE WipInv'
<1>f. wip[d] \in WipCommand /\ Holds(d, wip[d], ref, date, stream, wall) /\ wip \in [Laptop -> WipCommand]
    BY WipFacts
<1>u. UNCHANGED <<ref, date, row, stream, taken, stamp, wall, orphans>> /\ wip[d].at = "apply"
    BY DEF Verified
<1>1. CASE fetchVerifiedWip(d) = {}
    <2>1. wip' = [wip EXCEPT ![d] = Quiet]
        BY <1>1 DEF Verified
    <2> QED BY <2>1, <1>u, QuietHolds, MovesOn
<1>2. CASE fetchVerifiedWip(d) # {}
    <2> DEFINE z == CHOOSE s \in fetchVerifiedWip(d) : TRUE
               w == [wip[d] EXCEPT !.at = "applied", !.sha = z]
    <2>1. wip' = [wip EXCEPT ![d] = w]
        BY <1>2, <1>f DEF Verified
    <2>2. z \in fetchVerifiedWip(d)
        BY <1>2
    <2>3. z = wip[d].sha
        BY <2>2 DEF fetchVerifiedWip
    <2> HIDE DEF z
    <2>4. w \in WipCommand /\ w.at = "applied" /\ w.owner = wip[d].owner /\ w.sha = wip[d].sha /\ w.todo = wip[d].todo
        BY <1>f, <2>3 DEF WipCommand
    <2> HIDE DEF w
    <2>5. Holds(d, w, ref, date, stream, wall)
        BY <1>f, <1>u, <2>4 DEF Holds
    <2> QED BY <2>1, <2>4, <2>5, <1>u, MovesOn
<1> QED BY <1>1, <1>2

\* The deletion under its lease (DeleteRef): only the sha that was decided on goes.
LEMMA DeleteRefKeeps == ASSUME WipInv, NEW d \in Laptop, DeleteRef(d) PROVE WipInv'
<1>f. /\ PlaneInv /\ PlaneTyped /\ wip \in [Laptop -> WipCommand]
      /\ wip[d] \in WipCommand /\ Holds(d, wip[d], ref, date, stream, wall)
    BY WipFacts
<1>u. UNCHANGED <<date, row, stream, taken, stamp, wall, orphans>> /\ wip[d].at = "delete"
    BY DEF DeleteRef
<1>o. wip[d].owner \in Laptop
    BY <1>f, <1>u DEF Holds
<1>1. CASE ~LeaseHolds(d)
    <2> DEFINE w == [wip[d] EXCEPT !.at = "look"]
    <2>1. wip' = [wip EXCEPT ![d] = w] /\ ref' = ref
        BY <1>1, <1>f DEF DeleteRef
    <2>2. w \in WipCommand /\ w.at = "look" /\ w.owner = wip[d].owner /\ w.why = wip[d].why /\ w.next = wip[d].next /\ w.todo = wip[d].todo
        BY <1>f DEF WipCommand
    <2> HIDE DEF w
    <2>3. Holds(d, w, ref, date, stream, wall)
        BY <1>f, <1>u, <2>2 DEF Holds
    <2> QED BY <2>1, <2>2, <2>3, <1>u, MovesOn
<1>2. CASE LeaseHolds(d)
    <2> DEFINE w == [wip[d] EXCEPT !.at = "record"]
               o == wip[d].owner
    <2>1. wip' = [wip EXCEPT ![d] = w] /\ ref' = [ref EXCEPT ![o] = 0] /\ ref[o] = wip[d].sha
        BY <1>2, <1>f DEF DeleteRef, LeaseHolds
    <2>2. w \in WipCommand /\ w.at = "record" /\ w.owner = o /\ w.sha = wip[d].sha /\ w.why = wip[d].why /\ w.next = wip[d].next /\ w.todo = wip[d].todo
        BY <1>f DEF WipCommand
    <2> HIDE DEF w, o
    <2>t. /\ ref \in [Laptop -> Nat] /\ date \in [Laptop -> Seq(Nat)] /\ wall \in Nat /\ o \in Laptop
          /\ orphans' \in [Laptop -> [Laptop -> Orphan]] /\ stream \in [Laptop -> Seq(Event)]
        BY <1>f, <1>u, <1>o DEF PlaneTyped, o
    <2>g. \A x \in Laptop : Len(date[x]) \in Nat /\ Len(stream[x]) \in Nat
        <3>1. \A x \in Laptop : Len(date[x]) \in Nat
            BY <2>t
        <3> QED BY <3>1, <2>t, StreamLength
    <2>r. ref' \in [Laptop -> Nat] /\ \A x \in Laptop : ref'[x] = IF x = o THEN 0 ELSE ref[x]
        BY <2>1, <2>t
    <2>L. Later
        BY <2>r, <2>g, <2>t, <1>u DEF Later
    <2>e. \A x \in Laptop : ref'[x] <= Len(date[x])
        BY <2>r, <2>g, <1>f DEF PlaneInv
    <2>P. PlaneInv'
        BY <1>f, <1>u, <2>L, <2>r, <2>e, <2>t, PlaneKeeps
    <2>3. Gone(o, wip[d].sha, ref', date)
        <3>1. ref[o] <= Len(date[o]) /\ ref[o] = wip[d].sha /\ ref'[o] = 0
            BY <1>f, <2>1, <2>r, <2>t DEF PlaneInv
        <3> QED BY <3>1 DEF Gone
    <2>4. Holds(d, w, ref', date', stream', wall')
        BY <1>f, <1>u, <2>2, <2>3, <2>t DEF Holds
    <2>5. wip'[d] = w /\ wip' = [wip EXCEPT ![d] = wip'[d]]
        BY <2>1, <1>f
    <2> QED BY <2>P, <2>L, <2>2, <2>4, <2>5, CommandMoves
<1> QED BY <1>1, <1>2

\* A refused lease (LsRemoteRef): an absent ref is recorded without a sha.
LEMMA LsRemoteRefKeeps == ASSUME WipInv, NEW d \in Laptop, LsRemoteRef(d) PROVE WipInv'
<1>f. wip[d] \in WipCommand /\ Holds(d, wip[d], ref, date, stream, wall) /\ wip \in [Laptop -> WipCommand]
    BY WipFacts
<1>u. UNCHANGED <<ref, date, row, stream, taken, stamp, wall, orphans>> /\ wip[d].at = "look"
    BY DEF LsRemoteRef
<1>1. CASE ref[wip[d].owner] # 0
    <2>1. wip' = [wip EXCEPT ![d] = Continue(wip[d])]
        BY <1>1, <1>f DEF LsRemoteRef
    <2> QED BY <2>1, <1>f, <1>u, ContinueHolds, MovesOn
<1>2. CASE ref[wip[d].owner] = 0
    <2> DEFINE w == [wip[d] EXCEPT !.at = "record", !.sha = 0]
    <2>1. wip' = [wip EXCEPT ![d] = w]
        BY <1>2, <1>f DEF LsRemoteRef
    <2>2. w \in WipCommand /\ w.at = "record" /\ w.owner = wip[d].owner /\ w.sha = 0 /\ w.why = wip[d].why /\ w.next = wip[d].next /\ w.todo = wip[d].todo
        BY <1>f DEF WipCommand
    <2> HIDE DEF w
    <2>3. Holds(d, w, ref, date, stream, wall)
        BY <1>f, <1>u, <2>2 DEF Holds, Gone
    <2> QED BY <2>1, <2>2, <2>3, <1>u, MovesOn
<1> QED BY <1>1, <1>2

\* The drop is recorded with its event and its row (dropWipRef).
LEMMA dropWipRefKeeps == ASSUME WipInv, NEW d \in Laptop, dropWipRef(d) PROVE WipInv'
<1>f. /\ PlaneInv /\ PlaneTyped /\ wip \in [Laptop -> WipCommand]
      /\ wip[d] \in WipCommand /\ Holds(d, wip[d], ref, date, stream, wall)
    BY WipFacts
<1> DEFINE o == wip[d].owner
           s == wip[d].sha
<1>1. /\ wip[d].at = "record"
      /\ Emit(d, [type |-> "dropped", owner |-> o, sha |-> s]) /\ UNCHANGED <<ref, date, wall, orphans>>
      /\ row' = [row EXCEPT ![d][o] = Applied(row[d][o], stream'[d][Len(stream'[d])])]
      /\ wip' = [wip EXCEPT ![d] = Continue(wip[d])]
    BY <1>f DEF dropWipRef
<1>s. s \in Nat /\ o \in Laptop /\ Gone(o, s, ref, date)
    BY <1>f, <1>1 DEF WipCommand, Holds
<1>2. PlaneInv' /\ Later
    <2> HIDE DEF o, s
    <2> QED BY <1>f, <1>s, <1>1, PlaneRecords
<1>3. wip'[d] = Continue(wip[d]) /\ wip' = [wip EXCEPT ![d] = wip'[d]]
    BY <1>1, <1>f
<1>5. PlaneTyped'
    BY <1>2 DEF PlaneInv
<1>4. wip'[d] \in WipCommand /\ Holds(d, wip'[d], ref', date', stream', wall')
    <2>1. Holds(d, wip[d], ref', date', stream', wall')
        BY <1>f, <1>2, <1>5, HoldsLater
    <2> QED BY <1>1, <1>3, <1>f, <2>1, ContinueHolds
<1> QED BY <1>2, <1>3, <1>4, CommandMoves

\* The plan (planWipGC): every candidate's sha is what origin has now.
LEMMA planWipGCKeeps == ASSUME WipInv, NEW d \in Laptop, planWipGC(d) PROVE WipInv'
<1>f. PlaneInv /\ PlaneTyped /\ wip \in [Laptop -> WipCommand]
    BY WipFacts
<1> DEFINE rows == wip[d].read
           lone == OrphanRefs(d, rows, wip[d].owner)
           old == {o \in lone : orphans[d][o].sha = ref[o] /\ OlderThanTTL(d, orphans[d][o].first)}
           todo == RowCandidates(d, rows, wip[d].owner) \cup {[owner |-> o, sha |-> ref[o], why |-> "orphan"] : o \in old}
           next == [o \in Laptop |-> IF o \in lone THEN OrphanRecord(d, o) ELSE NoOrphan]
           w == [Quiet EXCEPT !.at = "sweep", !.todo = todo, !.next = next]
<1>u. UNCHANGED <<ref, date, row, stream, taken, stamp, wall, orphans>>
    BY DEF planWipGC
<1>1. wip' = [wip EXCEPT ![d] = w]
    BY <1>f DEF planWipGC
<1>t. /\ ref \in [Laptop -> Nat] /\ wall \in Nat /\ Skew[d] \in Nat /\ orphans[d] \in [Laptop -> Orphan]
      /\ date \in [Laptop -> Seq(Nat)]
    BY <1>f, WipAssumption DEF PlaneTyped
<1>c. \A o \in Laptop : ref[o] \in Nat /\ ref[o] <= Len(date[o]) /\ Len(date[o]) \in Nat
    BY <1>t, <1>f DEF PlaneInv
<1>2. lone \subseteq Laptop /\ \A o \in lone : ref[o] # 0
    BY DEF OrphanRefs
<1>3. \A a \in todo : a \in Candidate /\ a.sha \in 1..Len(date[a.owner])
    <2> SUFFICES ASSUME NEW a \in todo PROVE a \in Candidate /\ a.sha \in 1..Len(date[a.owner])
        OBVIOUS
    <2>1. PICK o \in Laptop : ref[o] # 0 /\ \E y \in {"named", "terminal", "orphan"} : a = [owner |-> o, sha |-> ref[o], why |-> y]
        <3>1. CASE a \in RowCandidates(d, rows, wip[d].owner)
            <4> HIDE DEF rows
            <4> QED BY <3>1 DEF RowCandidates
        <3>2. CASE a \in {[owner |-> o, sha |-> ref[o], why |-> "orphan"] : o \in old}
            <4> HIDE DEF lone
            <4> QED BY <3>2, <1>2
        <3> QED BY <3>1, <3>2
    <2>2. PICK y \in {"named", "terminal", "orphan"} : a = [owner |-> o, sha |-> ref[o], why |-> y]
        BY <2>1
    <2>3. a \in Candidate /\ a.owner = o /\ a.sha = ref[o]
        BY <2>2, <1>t DEF Candidate
    <2> QED BY <2>3, <2>1, <1>c
<1>4. next \in [Laptop -> Orphan]
    <2>1. ASSUME NEW o \in Laptop PROVE OrphanRecord(d, o) \in Orphan /\ NoOrphan \in Orphan
        <3>1. orphans[d][o] \in Orphan /\ Clock(d) \in Nat /\ ref[o] \in Nat
            BY <1>t DEF Clock
        <3> QED BY <3>1 DEF OrphanRecord, Orphan, NoOrphan
    <2> HIDE DEF lone
    <2> QED BY <2>1
<1> HIDE DEF todo, next
<1>5. w \in WipCommand /\ w.at = "sweep" /\ w.todo = todo /\ w.next = next
    BY <1>3, <1>4 DEF Quiet, WipCommand
<1> HIDE DEF w
<1>6. Holds(d, w, ref, date, stream, wall)
    BY <1>3, <1>4, <1>5 DEF Holds
<1> QED BY <1>1, <1>5, <1>6, <1>u, MovesOn

\* A candidate is corroborated or dropped (Corroborate): what is deleted is old
\* by the date bound into its sha.
LEMMA CorroborateKeeps == ASSUME WipInv, NEW d \in Laptop, Corroborate(d) PROVE WipInv'
<1>f. /\ wip[d] \in WipCommand /\ Holds(d, wip[d], ref, date, stream, wall) /\ wip \in [Laptop -> WipCommand]
      /\ \A a \in wip[d].todo : a \in Candidate
    BY WipFacts
<1>u. UNCHANGED <<ref, date, row, stream, taken, stamp, wall, orphans>> /\ wip[d].at = "sweep"
    BY DEF Corroborate
<1>a. PICK a \in wip[d].todo :
        wip' = [wip EXCEPT ![d] = IF Corroborated(d, a)
                    THEN [@ EXCEPT !.at = "delete", !.owner = a.owner, !.sha = a.sha, !.why = a.why, !.todo = wip[d].todo \ {a}]
                    ELSE [@ EXCEPT !.todo = wip[d].todo \ {a}]]
    BY DEF Corroborate
<1>c. /\ a.owner \in Laptop /\ a.sha \in Nat /\ a.why \in {"named", "terminal", "orphan"}
      /\ a.sha \in 1..Len(date[a.owner])
      /\ wip[d].todo \ {a} \subseteq Candidate
    BY <1>f DEF Candidate, Holds
<1>1. CASE ~Corroborated(d, a)
    <2> DEFINE w == [wip[d] EXCEPT !.todo = wip[d].todo \ {a}]
    <2>1. wip' = [wip EXCEPT ![d] = w]
        BY <1>1, <1>a
    <2>2. w \in WipCommand /\ w.at = "sweep" /\ w.next = wip[d].next /\ w.todo = wip[d].todo \ {a}
        BY <1>f, <1>u, <1>c DEF WipCommand
    <2> HIDE DEF w
    <2>3. Holds(d, w, ref, date, stream, wall)
        BY <1>f, <1>u, <2>2 DEF Holds
    <2> QED BY <2>1, <2>2, <2>3, <1>u, MovesOn
<1>2. CASE Corroborated(d, a)
    <2> DEFINE w == [wip[d] EXCEPT !.at = "delete", !.owner = a.owner, !.sha = a.sha, !.why = a.why, !.todo = wip[d].todo \ {a}]
    <2>1. wip' = [wip EXCEPT ![d] = w]
        BY <1>2, <1>a
    <2>2. /\ w \in WipCommand /\ w.at = "delete" /\ w.next = wip[d].next /\ w.todo = wip[d].todo \ {a}
          /\ w.owner = a.owner /\ w.sha = a.sha
        BY <1>f, <1>c DEF WipCommand
    <2>3. wall + Skew[d] > date[a.owner][a.sha] + TTL
        BY <1>2 DEF Corroborated, commitAgeExceeds, OlderThanTTL, Clock
    <2> HIDE DEF w
    <2>4. Holds(d, w, ref, date, stream, wall)
        BY <1>f, <1>u, <1>c, <2>2, <2>3 DEF Holds
    <2> QED BY <2>1, <2>2, <2>4, <1>u, MovesOn
<1> QED BY <1>1, <1>2

\* Time passes, a device is approved again, or nothing happens (Pass, ApproveAgain).
LEMMA WipEnvironmentKeeps ==
    ASSUME WipInv, Pass \/ (\E o \in Laptop : ApproveAgain(o)) \/ UNCHANGED wipvars
    PROVE  WipInv'
<1>f. PlaneInv /\ PlaneTyped
    BY DEF WipInv, PlaneInv
<1>1. UNCHANGED <<ref, date, row, stream, taken, stamp, orphans, wip>> /\ (wall' = wall \/ wall' = wall + 1)
    BY DEF Pass, ApproveAgain, wipvars
<1>t. /\ ref \in [Laptop -> Nat] /\ date \in [Laptop -> Seq(Nat)] /\ wall \in Nat
      /\ orphans \in [Laptop -> [Laptop -> Orphan]] /\ stream \in [Laptop -> Seq(Event)]
    BY <1>f DEF PlaneTyped
<1>2. \A x \in Laptop : Len(date[x]) \in Nat /\ Len(stream[x]) \in Nat
    <2>1. \A x \in Laptop : Len(date[x]) \in Nat
        BY <1>t
    <2> QED BY <2>1, <1>t, StreamLength
<1>3. Later
    BY <1>1, <1>2, <1>t DEF Later
<1>4. \A x \in Laptop : ref[x] <= Len(date[x])
    BY <1>f DEF PlaneInv
<1>5. PlaneInv'
    BY <1>f, <1>1, <1>3, <1>4, <1>t, PlaneKeeps
<1> QED BY <1>1, <1>3, <1>5, CommandsStay

\* No ref, no event, no row and no command at first (WipInit).
LEMMA WipInitKeeps == WipInit => WipInv
<1> SUFFICES ASSUME WipInit PROVE WipInv
    OBVIOUS
<1>1. PlaneTyped
    BY DEF WipInit, PlaneTyped, NoRow, NoOrphan, WipRow, Orphan
<1>2. /\ \A o \in Laptop : ref[o] = 0 /\ date[o] = <<>> /\ stream[o] = <<>> /\ stamp[o] = 0
      /\ \A d, o \in Laptop : taken[d][o] = 0 /\ row[d][o] = NoRow
    BY DEF WipInit
<1>3. \A o \in Laptop : Len(stream[o]) = 0 /\ Len(date[o]) = 0
    BY <1>2
<1>4. (\A o \in Laptop : ref[o] <= Len(date[o]) /\ Announcing(o, stream)) /\ Stamped /\ DropsProved
    BY <1>2, <1>3 DEF Announcing, Stamped, DropsProved
<1>5. \A d \in Laptop : taken[d][d] = Len(stream[d]) /\ \A s \in Laptop : taken[d][s] <= Len(stream[s])
    BY <1>2, <1>3
<1>6. \A d, o \in Laptop : Mirror(row[d][o], o, stream, taken[d])
    BY <1>2 DEF Mirror, NoRow
<1>7. wip \in [Laptop -> WipCommand] /\ \A d \in Laptop : Holds(d, wip[d], ref, date, stream, wall)
    BY QuietHolds DEF WipInit
<1> QED BY <1>1, <1>4, <1>5, <1>6, <1>7 DEF WipInv, PlaneInv

\* Every step of the plane keeps its invariant (WipNext).
LEMMA WipStep == WipInv /\ [WipNext]_wipvars => WipInv'
<1> SUFFICES ASSUME WipInv, [WipNext]_wipvars PROVE WipInv'
    OBVIOUS
<1>1. CASE UNCHANGED wipvars \/ Pass
    BY <1>1, WipEnvironmentKeeps
<1>2. ASSUME NEW d \in Laptop,
             \/ WipPush(d) \/ RecordPush(d) \/ Verified(d) \/ Materialized(d)
             \/ DeleteRef(d) \/ LsRemoteRef(d) \/ dropWipRef(d)
             \/ planWipGC(d) \/ Corroborate(d) \/ SaveOrphans(d) \/ Abandon(d) \/ ApproveAgain(d)
      PROVE  WipInv'
    BY <1>2, WipPushKeeps, RecordPushKeeps, VerifiedKeeps, EndsKeep, DeleteRefKeeps, LsRemoteRefKeeps,
       dropWipRefKeeps, planWipGCKeeps, CorroborateKeeps, WipEnvironmentKeeps
<1>3. ASSUME NEW d \in Laptop, NEW o \in Laptop, DeliverWip(d, o) \/ WipApply(d, o) \/ WipDrop(d, o)
      PROVE  WipInv'
    BY <1>3, DeliverWipKeeps, WipBeginsKeep
<1>4. ASSUME NEW d \in Laptop, NEW target \in Laptop \cup {"none"}, SweepWipRefs(d, target)
      PROVE  WipInv'
    BY <1>4, WipBeginsKeep
<1> QED BY <1>1, <1>2, <1>3, <1>4 DEF WipNext

-----------------------------------------------------------------------------
(* WIP refs: what the invariant gives.                                     *)

\* The devices' rows agree, complete and announced (device_wip.go).
LEMMA SnapshotsByInv == WipInv => SnapshotsHonest
<1> SUFFICES ASSUME WipInv PROVE SnapshotsHonest
    OBVIOUS
<1>f. PlaneInv /\ PlaneTyped
    BY DEF WipInv, PlaneInv
<1>a. /\ stream \in [Laptop -> Seq(Event)] /\ taken \in [Laptop -> [Laptop -> Nat]]
      /\ row \in [Laptop -> [Laptop -> WipRow]]
    BY <1>f DEF PlaneTyped
<1>c. \A d, s \in Laptop : \A i \in 1..taken[d][s] : i \in 1..Len(stream[s]) /\ stream[s][i] \in Event /\ stream[s][i].hlc > 0
    <2> TAKE d, s \in Laptop
    <2> TAKE i \in 1..taken[d][s]
    <2>1. taken[d][s] \in Nat /\ taken[d][s] <= Len(stream[s]) /\ Len(stream[s]) \in Nat
        BY <1>a, <1>f, StreamLength DEF PlaneInv
    <2>2. i \in 1..Len(stream[s]) /\ stream[s] \in Seq(Event)
        BY <2>1, <1>a
    <2>3. stream[s][i] \in Event
        BY ONLY <2>2
    <2>4. Announcing(s, stream)
        BY <1>f DEF PlaneInv
    <2> QED BY <2>2, <2>3, <2>4 DEF Announcing
<1>1. MirrorsAgree
    <2> SUFFICES ASSUME NEW d \in Laptop, NEW e \in Laptop, taken[d] = taken[e] PROVE row[d] = row[e]
        BY DEF MirrorsAgree
    <2>1. ASSUME NEW o \in Laptop PROVE row[d][o] = row[e][o]
        <3> DEFINE t == taken[d]
                   r == row[d][o]
                   q == row[e][o]
        <3>1. t \in [Laptop -> Nat] /\ r \in WipRow /\ q \in WipRow
            BY <1>a
        <3>2. Mirror(r, o, stream, t) /\ Mirror(q, o, stream, t) /\ t[o] <= Len(stream[o]) /\ Announcing(o, stream)
            BY <1>f DEF PlaneInv
        <3>3. \A s \in Laptop : \A i \in 1..t[s] : stream[s][i] \in Event /\ stream[s][i].hlc > 0
            BY <1>c
        <3> HIDE DEF t, r, q
        <3>4. r = q
            BY ONLY <1>a, <3>1, <3>2, <3>3, MirrorUnique
        <3> QED BY <3>4 DEF r, q
    <2>2. row[d] \in [Laptop -> WipRow] /\ row[e] \in [Laptop -> WipRow]
        BY <1>a
    <2> QED BY <2>1, <2>2
<1>2. SnapshotNotBuried
    <2> SUFFICES ASSUME NEW d \in Laptop, NEW o \in Laptop, ref[o] # 0, row[d][o].sha = ref[o],
                        o \notin ShaAgnosticTombstoneRefs(d)
                 PROVE  Known(row[d][o])
        BY DEF SnapshotNotBuried
    <2> DEFINE r == row[d][o]
    <2>1. /\ r \in WipRow /\ r.sha = ref[o] /\ r.sha # 0 /\ Mirror(r, o, stream, taken[d])
          /\ r.sha \in Nat /\ r.observed \in Nat /\ r.dropped \in Nat /\ r.droppedSha \in Nat
        <3>1. r \in WipRow /\ Mirror(r, o, stream, taken[d])
            BY <1>a, <1>f DEF PlaneInv
        <3> QED BY <3>1 DEF WipRow
    <2>2. ~(r.dropped > 0 /\ r.droppedSha = 0)
        BY <2>1 DEF ShaAgnosticTombstoneRefs
    <2> HIDE DEF r
    <2>3. r.observed > 0
        <3>1. PICK i \in 1..taken[d][o] : stream[o][i].hlc = r.observed
            BY <2>1 DEF Mirror
        <3> QED BY <3>1, <1>c
    <2>4. CASE r.dropped = 0 /\ r.droppedSha = 0
        BY <2>4, <2>1 DEF Known, NoRow, deviceWipLivePredicate, r
    <2>5. CASE ~(r.dropped = 0 /\ r.droppedSha = 0)
        <3>1. PICK s \in Laptop : \E i \in 1..taken[d][s] : /\ stream[s][i].type = "dropped" /\ stream[s][i].owner = o
                                                            /\ stream[s][i].hlc = r.dropped /\ stream[s][i].sha = r.droppedSha
            BY <2>1, <2>5 DEF Mirror
        <3>2. PICK i \in 1..taken[d][s] : /\ stream[s][i].type = "dropped" /\ stream[s][i].owner = o
                                          /\ stream[s][i].hlc = r.dropped /\ stream[s][i].sha = r.droppedSha
            BY <3>1
        <3>3. i \in 1..Len(stream[s]) /\ stream[s][i].hlc > 0
            BY <1>c
        <3>4. Gone(o, r.droppedSha, ref, date)
            BY <1>f, <3>2, <3>3 DEF PlaneInv, DropsProved
        <3>5. r.dropped > 0
            BY <3>2, <3>3
        <3>6. r.droppedSha # 0
            BY <3>5, <2>2
        <3>7. r.sha # r.droppedSha
            BY <3>4, <3>6, <2>1 DEF Gone
        <3> QED BY <2>1, <2>3, <3>6, <3>7 DEF Known, NoRow, deviceWipLivePredicate, r
    <2> QED BY <2>4, <2>5
<1>3. AppliedWasAnnounced
    BY DEF AppliedWasAnnounced, WipInv, Holds, Announced
<1> QED BY <1>1, <1>2, <1>3 DEF SnapshotsHonest

\* A deletion on origin is of what its command decided on, and of age (DeleteRef).
LEMMA AgedStep == WipInv /\ [WipNext]_wipvars =>
    \A o \in Laptop : ref[o] # 0 /\ ref'[o] = 0 =>
        \E d \in Laptop : /\ wip[d].at = "delete" /\ wip[d].owner = o /\ wip[d].sha = ref[o]
                          /\ wip[d].why = "explicit" \/ OlderThanTTL(d, date[o][ref[o]])
<1> SUFFICES ASSUME WipInv, [WipNext]_wipvars, NEW o \in Laptop, ref[o] # 0, ref'[o] = 0
             PROVE  \E d \in Laptop : /\ wip[d].at = "delete" /\ wip[d].owner = o /\ wip[d].sha = ref[o]
                                      /\ wip[d].why = "explicit" \/ OlderThanTTL(d, date[o][ref[o]])
    OBVIOUS
<1>f. PlaneInv /\ PlaneTyped /\ ref \in [Laptop -> Nat] /\ date \in [Laptop -> Seq(Nat)]
    BY DEF WipInv, PlaneInv, PlaneTyped
<1>1. PICK d \in Laptop : WipPush(d) \/ DeleteRef(d)
    <2>1. ref' # ref
        OBVIOUS
    <2>2. WipNext
        BY <2>1 DEF wipvars
    <2>3. ~Pass /\ \A d \in Laptop :
              /\ ~RecordPush(d) /\ ~Verified(d) /\ ~Materialized(d) /\ ~LsRemoteRef(d) /\ ~dropWipRef(d)
              /\ ~planWipGC(d) /\ ~Corroborate(d) /\ ~SaveOrphans(d) /\ ~Abandon(d) /\ ~ApproveAgain(d)
        BY <2>1 DEF RecordPush, Verified, Materialized, LsRemoteRef, dropWipRef, planWipGC, Corroborate,
                    SaveOrphans, Abandon, ApproveAgain, Pass
    <2>4. \A d \in Laptop : /\ \A x \in Laptop : ~DeliverWip(d, x) /\ ~WipApply(d, x) /\ ~WipDrop(d, x)
                            /\ \A x \in Laptop \cup {"none"} : ~SweepWipRefs(d, x)
        BY <2>1 DEF DeliverWip, WipApply, WipDrop, SweepWipRefs
    <2> QED BY <2>2, <2>3, <2>4 DEF WipNext
<1>2. ~WipPush(d)
    <2> SUFFICES ASSUME WipPush(d) PROVE FALSE
        OBVIOUS
    <2>1. ref' = [ref EXCEPT ![d] = Len(date[d]) + 1]
        BY DEF WipPush
    <2>2. Len(date[d]) \in Nat
        BY <1>f
    <2> QED BY <2>1, <2>2, <1>f
<1>3. wip[d].at = "delete" /\ LeaseHolds(d) /\ ref' = [ref EXCEPT ![wip[d].owner] = 0]
    BY <1>1, <1>2 DEF DeleteRef
<1>4. wip[d].owner = o /\ wip[d].sha = ref[o]
    BY <1>3, <1>f DEF LeaseHolds
<1>5. wip[d].why # "explicit" => wall + Skew[d] > date[o][ref[o]] + TTL
    BY <1>3, <1>4 DEF WipInv, Holds
<1> QED BY <1>3, <1>4, <1>5 DEF OlderThanTTL, Clock

\* No sweep decides to reap, as an orphan, what its mirror hides by a drop that
\* proved no sha (planWipGC reads shaAgnosticTombstoneRefs when it plans).
LEMMA HiddenStep == WipInv /\ [WipNext]_wipvars =>
    \A d \in Laptop : \A a \in wip'[d].todo \ wip[d].todo :
        a.why = "orphan" => ~(row[d][a.owner].sha = a.sha /\ a.owner \in
            {o \in Laptop : row[d][o].dropped > 0 /\ row[d][o].droppedSha = 0})
<1> SUFFICES ASSUME WipInv, [WipNext]_wipvars, NEW d \in Laptop, NEW a \in wip'[d].todo \ wip[d].todo,
                    a.why = "orphan", row[d][a.owner].sha = a.sha,
                    a.owner \in Laptop, row[d][a.owner].dropped > 0, row[d][a.owner].droppedSha = 0
             PROVE  FALSE
    OBVIOUS
<1>f. wip \in [Laptop -> WipCommand] /\ Quiet.todo = {}
    BY QuietHolds DEF WipInv
<1>1. planWipGC(d)
    <2>0. wip' # wip
        OBVIOUS
    <2>n. WipNext /\ ~Pass /\ ~(\E o \in Laptop : ApproveAgain(o)) /\ ~(\E e, o \in Laptop : DeliverWip(e, o))
        BY <2>0 DEF wipvars, Pass, ApproveAgain, DeliverWip
    <2>q. \A e \in Laptop : wip' # [wip EXCEPT ![e] = Quiet]
        BY <1>f
    <2>1. ASSUME NEW e \in Laptop, RecordPush(e) \/ Materialized(e) \/ SaveOrphans(e) \/ Abandon(e) PROVE FALSE
        BY <2>1, <2>q DEF RecordPush, Materialized, SaveOrphans, Abandon
    <2>2. ASSUME NEW e \in Laptop, NEW w, wip' = [wip EXCEPT ![e] = w], w.todo \subseteq wip[e].todo PROVE FALSE
        BY <2>2, <1>f
    <2>w. \A e \in Laptop : wip[e] \in WipCommand
        BY <1>f
    <2>3. ASSUME NEW e \in Laptop, WipPush(e) PROVE FALSE
        <3> DEFINE w == [Quiet EXCEPT !.at = "pushed", !.sha = Len(date[e]) + 1]
        <3>1. wip' = [wip EXCEPT ![e] = w] /\ w.todo = {}
            BY <2>3 DEF WipPush, Quiet
        <3> HIDE DEF w
        <3> QED BY <3>1, <2>2
    <2>4. ASSUME NEW e \in Laptop, Verified(e) PROVE FALSE
        <3>1. CASE fetchVerifiedWip(e) = {}
            BY <2>4, <2>q, <3>1 DEF Verified
        <3>2. CASE fetchVerifiedWip(e) # {}
            <4> DEFINE w == [wip[e] EXCEPT !.at = "applied", !.sha = CHOOSE s \in fetchVerifiedWip(e) : TRUE]
            <4>1. wip' = [wip EXCEPT ![e] = w]
                BY <2>4, <3>2, <1>f DEF Verified
            <4>2. w.todo = wip[e].todo
                BY <2>w DEF WipCommand
            <4> HIDE DEF w
            <4> QED BY <4>1, <4>2, <2>2
        <3> QED BY <3>1, <3>2
    <2>5. ASSUME NEW e \in Laptop, DeleteRef(e) PROVE FALSE
        <3>1. PICK s \in {"record", "look"} : wip' = [wip EXCEPT ![e] = [wip[e] EXCEPT !.at = s]]
            BY <2>5, <1>f DEF DeleteRef
        <3> DEFINE w == [wip[e] EXCEPT !.at = s]
        <3>2. wip' = [wip EXCEPT ![e] = w] /\ w.todo = wip[e].todo
            BY <3>1, <2>w DEF WipCommand
        <3> HIDE DEF w
        <3> QED BY <3>2, <2>2
    <2>c. ASSUME NEW e \in Laptop, wip[e].at \in {"look", "record"} PROVE Continue(wip[e]).todo \subseteq wip[e].todo
        BY <2>c, ContinueHolds, WipFacts
    <2>6. ASSUME NEW e \in Laptop, LsRemoteRef(e) PROVE FALSE
        <3>1. CASE ref[wip[e].owner] = 0
            <4> DEFINE w == [wip[e] EXCEPT !.at = "record", !.sha = 0]
            <4>1. wip' = [wip EXCEPT ![e] = w] /\ w.todo = wip[e].todo
                BY <2>6, <2>w, <1>f, <3>1 DEF LsRemoteRef, WipCommand
            <4> HIDE DEF w
            <4> QED BY <4>1, <2>2
        <3>2. CASE ref[wip[e].owner] # 0
            <4>1. wip' = [wip EXCEPT ![e] = Continue(wip[e])] /\ wip[e].at = "look"
                BY <2>6, <1>f, <3>2 DEF LsRemoteRef
            <4> QED BY <4>1, <2>c, <2>2
        <3> QED BY <3>1, <3>2
    <2>7. ASSUME NEW e \in Laptop, dropWipRef(e) PROVE FALSE
        <3>1. wip' = [wip EXCEPT ![e] = Continue(wip[e])] /\ wip[e].at = "record"
            BY <2>7, <1>f DEF dropWipRef
        <3> QED BY <3>1, <2>c, <2>2
    <2>8. ASSUME NEW e \in Laptop, Corroborate(e) PROVE FALSE
        <3>1. PICK c \in wip[e].todo :
                wip' = [wip EXCEPT ![e] = IF Corroborated(e, c)
                    THEN [wip[e] EXCEPT !.at = "delete", !.owner = c.owner, !.sha = c.sha, !.why = c.why, !.todo = wip[e].todo \ {c}]
                    ELSE [wip[e] EXCEPT !.todo = wip[e].todo \ {c}]]
            BY <2>8, <1>f DEF Corroborate
        <3> DEFINE w == IF Corroborated(e, c)
                    THEN [wip[e] EXCEPT !.at = "delete", !.owner = c.owner, !.sha = c.sha, !.why = c.why, !.todo = wip[e].todo \ {c}]
                    ELSE [wip[e] EXCEPT !.todo = wip[e].todo \ {c}]
        <3>2. wip' = [wip EXCEPT ![e] = w] /\ w.todo = wip[e].todo \ {c}
            BY <3>1, <2>w DEF WipCommand
        <3> HIDE DEF w
        <3> QED BY <3>2, <2>2
    <2>9. ASSUME NEW e \in Laptop, NEW o, WipApply(e, o) \/ WipDrop(e, o) \/ SweepWipRefs(e, o) PROVE FALSE
        <3>1. CASE WipApply(e, o)
            <4> DEFINE w == [Quiet EXCEPT !.at = "apply", !.owner = o, !.sha = row[e][o].sha]
            <4>1. wip' = [wip EXCEPT ![e] = w] /\ w.todo = {}
                BY <3>1 DEF WipApply, Quiet
            <4> HIDE DEF w
            <4> QED BY <4>1, <2>2
        <3>2. CASE WipDrop(e, o)
            <4> DEFINE w == [Quiet EXCEPT !.at = "delete", !.owner = o, !.sha = row[e][o].sha, !.why = "explicit"]
            <4>1. wip' = [wip EXCEPT ![e] = w] /\ w.todo = {}
                BY <3>2 DEF WipDrop, Quiet
            <4> HIDE DEF w
            <4> QED BY <4>1, <2>2
        <3>3. CASE SweepWipRefs(e, o)
            <4> DEFINE w == [Quiet EXCEPT !.at = "plan", !.owner = o, !.read = row[e]]
            <4>1. wip' = [wip EXCEPT ![e] = w] /\ w.todo = {}
                BY <3>3 DEF SweepWipRefs, Quiet
            <4> HIDE DEF w
            <4> QED BY <4>1, <2>2
        <3> QED BY <2>9, <3>1, <3>2, <3>3
    <2>10. ASSUME NEW e \in Laptop, e # d, planWipGC(e) PROVE FALSE
        BY <2>10, <1>f DEF planWipGC
    <2> QED BY <2>n, <2>1, <2>3, <2>4, <2>5, <2>6, <2>7, <2>8, <2>9, <2>10 DEF WipNext
<1> DEFINE rows == wip[d].read
           lone == OrphanRefs(d, rows, wip[d].owner)
           old == {o \in lone : orphans[d][o].sha = ref[o] /\ OlderThanTTL(d, orphans[d][o].first)}
           todo == RowCandidates(d, rows, wip[d].owner) \cup {[owner |-> o, sha |-> ref[o], why |-> "orphan"] : o \in old}
<1>2. wip'[d].todo = todo
    BY <1>1, <1>f DEF planWipGC, Quiet
<1>3. \A c \in RowCandidates(d, rows, wip[d].owner) : c.why # "orphan"
    BY DEF RowCandidates
<1>4. PICK o \in lone : a = [owner |-> o, sha |-> ref[o], why |-> "orphan"]
    <2> HIDE DEF lone, rows
    <2> QED BY <1>2, <1>3
<1>5. a.owner = o /\ a.sha = ref[o]
    BY <1>4
<1>6. o \in Laptop /\ ref[o] # 0 /\ o \notin ShaAgnosticTombstoneRefs(d)
    BY DEF OrphanRefs
<1> QED BY <1>5, <1>6 DEF ShaAgnosticTombstoneRefs

\* The mirror of the refs on origin is honest at every moment, whatever order the
\* streams arrive in and whoever pushes while a command runs.
THEOREM SnapshotsAreHonest == CheckoutsSpec => []SnapshotsHonest
<1>1. CheckoutsInit => WipInv
    BY WipInitKeeps DEF CheckoutsInit
<1>2. WipInv /\ [CheckoutsNext]_checkoutvars => WipInv'
    <2>1. [CheckoutsNext]_checkoutvars => [WipNext]_wipvars
        BY DEF CheckoutsNext, checkoutvars
    <2> QED BY <2>1, WipStep
<1> QED BY <1>1, <1>2, SnapshotsByInv, PTL DEF CheckoutsSpec

-----------------------------------------------------------------------------
(* All the parts together.                                                 *)

\* No command takes what a user wrote and did not tell it to take, at any step
\* of any number of devices, processes and commands, in every world.
THEOREM WorkIsKept == CheckoutsSpec => WorkKept
<1>1. CheckoutsInit => WipInv /\ HydrateInv /\ WtInv
    BY WipInitKeeps, HydrateInitKeeps, TreesInitKeeps DEF CheckoutsInit
<1>2. [CheckoutsNext]_checkoutvars => [WipNext]_wipvars /\ [HydrateNext]_hydrvars /\ [TreesNext]_wtvars
    BY DEF CheckoutsNext, checkoutvars
<1>3. WipInv /\ HydrateInv /\ WtInv /\ [CheckoutsNext]_checkoutvars => (WipInv /\ HydrateInv /\ WtInv)'
    BY <1>2, WipStep, HydrateStep, TreesStep
<1>4. CheckoutsSpec => [](WipInv /\ HydrateInv /\ WtInv) /\ [][CheckoutsNext]_checkoutvars
    BY <1>1, <1>3, PTL DEF CheckoutsSpec
<1>5. CheckoutsSpec => UserFilesKept
    <2>1. HydrateInv /\ [HydrateNext]_hydrvars =>
            [\A f \in mine \ mine' : \E j \in Job : job[j].at = "remove" /\ f \notin job[j].saw]_hydrvars
        BY UserFilesStep
    <2> QED BY <1>2, <1>4, <2>1, PTL DEF UserFilesKept
<1>6. CheckoutsSpec => CommitsKept
    <2>1. WtInv /\ [TreesNext]_wtvars =>
            [\A p \in Cmd : op[p].cmd = "cleanup" /\ op'[p] # op[p] =>
                        /\ tree.branch /\ ~tree'.branch => op[p].tip <= base.merged
                        /\ tree.disk /\ ~tree'.disk => op[p].loose = 0 \/ "detach" \in quota.cmds]_wtvars
        BY CommitsStep
    <2> QED BY <1>2, <1>4, <2>1, PTL DEF CommitsKept
<1>7. CheckoutsSpec => EditsKept
    <2>1. WtInv /\ [TreesNext]_wtvars =>
            [tree.dirty /\ ~tree'.disk =>
                        \E p \in Cmd : op[p].at \in {"added", "registered"} \/ (op[p].at = "remove" /\ op[p].force)]_wtvars
        BY EditsStep
    <2> QED BY <1>2, <1>4, <2>1, PTL DEF EditsKept
<1>8. CheckoutsSpec => OnlyAgedSnapshotsReaped
    <2>1. WipInv /\ [WipNext]_wipvars =>
            [\A o \in Laptop : ref[o] # 0 /\ ref'[o] = 0 =>
                     \E d \in Laptop : /\ wip[d].at = "delete" /\ wip[d].owner = o /\ wip[d].sha = ref[o]
                                       /\ wip[d].why = "explicit" \/ OlderThanTTL(d, date[o][ref[o]])]_wipvars
        BY AgedStep
    <2> QED BY <1>2, <1>4, <2>1, PTL DEF OnlyAgedSnapshotsReaped
<1>9. CheckoutsSpec => HiddenNotReaped
    <2>1. WipInv /\ [WipNext]_wipvars =>
            [\A d \in Laptop : \A a \in wip'[d].todo \ wip[d].todo :
                     a.why = "orphan" => ~(row[d][a.owner].sha = a.sha /\ a.owner \in
                         {o \in Laptop : row[d][o].dropped > 0 /\ row[d][o].droppedSha = 0})]_wipvars
        BY HiddenStep
    <2> QED BY <1>2, <1>4, <2>1, PTL DEF HiddenNotReaped
<1> QED BY <1>5, <1>6, <1>7, <1>8, <1>9 DEF WorkKept
=============================================================================
