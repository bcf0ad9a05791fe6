----------------------------- MODULE Worktrees -----------------------------
(***************************************************************************)
(* One linked worktree of a project and the agent runs bound to it: agent  *)
(* run, worktree new, worktree adopt, agent adopt, agent finish, agent pr, *)
(* worktree remove, cleanup --merged and the sweep of runs whose recorder  *)
(* died, in concurrent processes, while agents and people edit and commit  *)
(* in the checkout and upstream merges.                                    *)
(*                                                                         *)
(* Commits are counted: tip of them are on the branch, loose of them are on*)
(* a detached HEAD, the first merged of the branch's are upstream (merged  *)
(* or squashed), and the first fetched of those are known here.            *)
(***************************************************************************)
EXTENDS Naturals, FiniteSets

CONSTANTS
    Cmd,          \* the processes that run commands
    RunId,        \* the agent runs that can be recorded
    MaxCommits,   \* commits made in the worktree
    TreeWorld     \* how the worktree starts, the commands, how much happens, and
                  \* whether commands die and their clean-ups fail (deadly)

ASSUME TreeAssumption ==
    /\ "none" \notin Cmd
    /\ TreeWorld \subseteq [start : {"none", "created", "attached", "detached"},
                            cmds : SUBSET {"run", "new", "adopt", "agent adopt", "finish", "pr",
                                           "remove", "cleanup", "sweep", "detach"},
                            force : BOOLEAN, calls : Nat, mishaps : Nat, deadly : BOOLEAN]

VARIABLES
    tree,       \* the checkout and its branch in the repository
    base,       \* the remote base branch: merged, and fetched as this clone knows it
    reg,        \* the worktrees row
    agentrun,   \* the agent_runs rows; pid is the recorded recorder, if any
    rlock,      \* the holder of the project's repository lock
    op,         \* what each process is doing
    quota       \* what may still happen in this world

wtvars == <<tree, base, reg, agentrun, rlock, op, quota>>

NoRun == [status |-> "none", pid |-> "none", by |-> "none", wt |-> 0]
Unregistered == [id |-> 0, status |-> "none", by |-> "none", branch |-> FALSE]
Ready == [at |-> "ready", cmd |-> "none", force |-> FALSE, run |-> "none",
          stale |-> {}, tip |-> 0, loose |-> 0, row |-> Unregistered]
InsertWorktree(by, branch) == [id |-> reg.id + 1, status |-> "active", by |-> by, branch |-> branch]
Deregistered(row) == IF reg.id = row.id THEN [reg EXCEPT !.status = "removed"] ELSE reg
NoTree == [disk |-> FALSE, branch |-> FALSE, head |-> "branch", tip |-> 0, loose |-> 0, dirty |-> FALSE]
Spend(what) == quota[what] > 0 /\ quota' = [quota EXCEPT ![what] = @ - 1]
GoTo(p, s) == op' = [op EXCEPT ![p].at = s]

\* created: by worktree new, earlier; attached and detached: by another tool.
TreesInit ==
    /\ quota \in TreeWorld
    /\ tree = IF quota.start = "none" THEN NoTree
              ELSE [NoTree EXCEPT !.disk = TRUE, !.branch = quota.start # "detached",
                                  !.head = IF quota.start = "detached" THEN "detached" ELSE "branch"]
    /\ reg = IF quota.start = "created" THEN [id |-> 1, status |-> "active", by |-> "agent", branch |-> TRUE]
             ELSE Unregistered
    /\ base = [merged |-> 0, fetched |-> 0]
    /\ agentrun = [r \in RunId |-> NoRun]
    /\ rlock = "none" /\ op = [p \in Cmd |-> Ready]

\* The command returns; deferred unlocks run.
Return(p) == op' = [op EXCEPT ![p] = Ready] /\ rlock' = IF rlock = p THEN "none" ELSE rlock

Begin(p, cmd, first) ==
    /\ op[p] = Ready /\ cmd \in quota.cmds /\ Spend("calls")
    /\ \E f \in BOOLEAN : /\ f => quota.force /\ cmd \in {"remove", "cleanup"}
                          /\ op' = [op EXCEPT ![p] = [Ready EXCEPT !.at = first, !.cmd = cmd, !.force = f, !.row = reg]]
    /\ UNCHANGED <<tree, base, reg, agentrun, rlock>>

\* acquireRepoLock fails at once when the lock is held; cleanup skips then.
LockRepo(p) ==
    /\ op[p].at = "lock"
    /\ \/ rlock = "none" /\ rlock' = p /\ op' = [op EXCEPT ![p].at = "locked", ![p].tip = tree.tip, ![p].loose = tree.loose]
       \/ rlock # "none" /\ Return(p)
    /\ UNCHANGED <<tree, base, reg, agentrun, quota>>

(***************************************************************************)
(* worktree new and agent run.                                             *)
(***************************************************************************)
CreateFresh(p, cmd) == ~tree.disk /\ ~tree.branch /\ reg.status = "none" /\ Begin(p, cmd, "lock")

\* Fetch, resolve the base, git worktree add on a fresh branch; any of them fails.
AddWorktree(p) ==
    /\ op[p].at = "locked" /\ op[p].cmd \in {"run", "new"}
    /\ \/ /\ ~tree.disk /\ ~tree.branch /\ reg.status = "none"
          /\ tree' = [NoTree EXCEPT !.disk = TRUE, !.branch = TRUE]
          /\ GoTo(p, "added") /\ UNCHANGED <<rlock, quota>>
       \/ Spend("mishaps") /\ Return(p) /\ UNCHANGED tree
       \/ (tree.disk \/ tree.branch \/ reg.status # "none") /\ Return(p) /\ UNCHANGED <<tree, quota>>
    /\ UNCHANGED <<base, reg, agentrun>>

\* The checkout is removed by force, then the branch is deleted.  Either may fail
\* with a warning only (in a deadly world); a branch that is checked out stays.
RemoveOrphanWorktree ==
    \/ tree' = NoTree
    \/ quota.deadly /\ tree' \in {tree, [tree EXCEPT !.disk = FALSE, !.dirty = FALSE, !.loose = 0]}

\* The LFS policy, the sparse profile, then the row.
RegisterFresh(p) ==
    /\ op[p].at = "added"
    /\ \/ /\ reg' = InsertWorktree("agent", TRUE)
          /\ IF op[p].cmd = "run" THEN GoTo(p, "registered") /\ UNCHANGED rlock ELSE Return(p)
          /\ UNCHANGED <<tree, quota>>
       \/ Spend("mishaps") /\ RemoveOrphanWorktree /\ Return(p) /\ UNCHANGED reg
    /\ UNCHANGED <<base, agentrun>>

\* Mutation of InsertRun: the lock is let go once the worktree is registered.
InsertRunUnlocked(p) ==
    /\ op[p].at = "registered"
    /\ \/ rlock = p /\ rlock' = "none" /\ UNCHANGED <<agentrun, op>>
       \/ rlock # p /\ \E r \in RunId :
              /\ agentrun[r] = NoRun
              /\ agentrun' = [agentrun EXCEPT ![r] = [status |-> "running", pid |-> "alive", by |-> "run", wt |-> reg.id]]
              /\ op' = [op EXCEPT ![p].at = "working", ![p].run = r]
              /\ UNCHANGED rlock
    /\ UNCHANGED <<tree, base, reg, quota>>

\* The file policy is checked and the running row inserted under the same lock;
\* a failure removes the worktree and its row again.
InsertRun(p) ==
    /\ op[p].at = "registered"
    /\ \/ \E r \in RunId :
              /\ agentrun[r] = NoRun
              /\ agentrun' = [agentrun EXCEPT ![r] = [status |-> "running", pid |-> "alive", by |-> "run", wt |-> reg.id]]
              /\ op' = [op EXCEPT ![p].at = "working", ![p].run = r]
              /\ rlock' = "none" /\ UNCHANGED <<tree, reg, quota>>
       \/ Spend("mishaps") /\ RemoveOrphanWorktree /\ reg' = Deregistered(reg)
          /\ Return(p) /\ UNCHANGED agentrun
    /\ UNCHANGED base

\* The agent's command ends and its result is written; the process then exits.
\* When the agent's secrets cannot be resolved the command returns and the row
\* stays running.
FinishRun(p) ==
    /\ op[p].at = "working"
    /\ \/ \E s \in {"complete", "failed"} : agentrun' = [agentrun EXCEPT ![op[p].run].status = s, ![op[p].run].pid = "dead"]
          /\ UNCHANGED quota
       \/ Spend("mishaps") /\ agentrun' = [agentrun EXCEPT ![op[p].run].pid = "dead"]
    /\ Return(p) /\ UNCHANGED <<tree, base, reg>>

(***************************************************************************)
(* Adopting what other tools made.                                         *)
(***************************************************************************)
WorktreeAdopt(p) == tree.disk /\ Begin(p, "adopt", "inspect")

\* The identity, the base and the branch are read before the lock is taken.
InspectWorktree(p) ==
    /\ op[p].at = "inspect"
    /\ \/ tree.disk /\ op' = [op EXCEPT ![p].at = "lock", ![p].row.branch = (tree.head = "branch")] /\ UNCHANGED rlock
       \/ ~tree.disk /\ Return(p)
    /\ UNCHANGED <<tree, base, reg, agentrun, quota>>

\* A row of worktree new is left alone; an adopted one is refreshed; otherwise
\* a row is inserted.
RegisterAdopted(p) ==
    /\ op[p].at = "locked" /\ op[p].cmd = "adopt"
    /\ reg' = IF reg.status # "active" THEN InsertWorktree("adopted", op[p].row.branch)
              ELSE IF reg.by = "agent" THEN reg ELSE [reg EXCEPT !.branch = op[p].row.branch]
    /\ Return(p) /\ UNCHANGED <<tree, base, agentrun, quota>>

\* agent adopt finds the worktree's row first.
AgentAdopt(p) == reg.status = "active" /\ Begin(p, "agent adopt", "lock")

\* The run is inserted under the lock, for the row found before it, with the
\* pid the harness gave, if it gave one.
AdoptRun(p) ==
    /\ op[p].at = "locked" /\ op[p].cmd = "agent adopt"
    /\ \E r \in RunId, pid \in {"none", "alive"} :
           /\ agentrun[r] = NoRun
           /\ agentrun' = [agentrun EXCEPT ![r] = [status |-> "running", pid |-> pid, by |-> "adopt", wt |-> op[p].row.id]]
    /\ Return(p) /\ UNCHANGED <<tree, base, reg, quota>>

\* The status is read and checked, then written whatever it is by then.
AgentFinish(p) ==
    /\ \E r \in RunId : /\ agentrun[r].status \in {"running", "interrupted"} /\ agentrun[r].by = "adopt"
                        /\ op[p] = Ready /\ "finish" \in quota.cmds /\ Spend("calls")
                        /\ op' = [op EXCEPT ![p] = [Ready EXCEPT !.at = "report", !.cmd = "finish", !.run = r]]
    /\ UNCHANGED <<tree, base, reg, agentrun, rlock>>

UpdateAgentRunResult(p) ==
    /\ op[p].at = "report"
    /\ \E s \in {"complete", "failed"} : agentrun' = [agentrun EXCEPT ![op[p].run].status = s]
    /\ Return(p) /\ UNCHANGED <<tree, base, reg, quota>>

(***************************************************************************)
(* The sweep of runs whose recorder died.                                  *)
(***************************************************************************)
\* agent list, agent show and doctor sweep and do nothing else.
SweepCommand(p) == Begin(p, "sweep", "sweep")

RunningAgentRunsWithPID == {r \in RunId : agentrun[r].status = "running" /\ agentrun[r].pid # "none"}

AfterSweep(p) == IF op[p].cmd = "cleanup" THEN "list" ELSE IF op[p].cmd = "pr" THEN "gate" ELSE "swept"

ReadRunning(p) ==
    /\ op[p].at = "sweep" /\ op' = [op EXCEPT ![p].at = "mark", ![p].stale = RunningAgentRunsWithPID]
    /\ UNCHANGED <<tree, base, reg, agentrun, rlock, quota>>

\* Each row read is checked and written by itself, whatever its status is now.
MarkInterrupted(p) ==
    /\ op[p].at = "mark"
    /\ \/ \E r \in op[p].stale :
              /\ agentrun' = IF agentrun[r].pid = "alive" THEN agentrun
                             ELSE [agentrun EXCEPT ![r].status = "interrupted"]
              /\ op' = [op EXCEPT ![p].stale = @ \ {r}] /\ UNCHANGED rlock
       \/ /\ op[p].stale = {} /\ UNCHANGED agentrun
          /\ IF AfterSweep(p) = "swept" THEN Return(p) ELSE GoTo(p, AfterSweep(p)) /\ UNCHANGED rlock
    /\ UNCHANGED <<tree, base, reg, quota>>

(***************************************************************************)
(* worktree cleanup --merged.                                              *)
(***************************************************************************)
CleanupCommand(p) == Begin(p, "cleanup", "sweep")

\* Active rows are listed, with their branches, before any lock; adopted ones
\* only with --include-adopted.
ListWorktrees(p) ==
    /\ op[p].at = "list"
    /\ \/ reg.status = "active" /\ op' = [op EXCEPT ![p].at = "lock", ![p].row = reg] /\ UNCHANGED rlock
       \/ (reg.status # "active" \/ reg.by = "adopted") /\ Return(p)
    /\ UNCHANGED <<tree, base, reg, agentrun, quota>>

\* The recorded branch is merged or squash-merged into the base as fetched; a
\* row without a branch never is.
MergeEligible(p) == op[p].row.branch /\ tree.tip <= base'.fetched

\* Under the lock: a running run protects the worktree; a missing path is only
\* pruned; a dirty tree needs --force; the base is fetched, or that fails and
\* the local one serves.
CheckWorktree(p) ==
    /\ op[p].at = "locked" /\ op[p].cmd = "cleanup"
    /\ LET protected == \E r \in RunId : agentrun[r].status = "running" /\ agentrun[r].wt = op[p].row.id
           dirty == tree.dirty /\ ~op[p].force
       IN \/ (protected \/ (tree.disk /\ dirty)) /\ Return(p) /\ UNCHANGED <<reg, base>>
          \/ ~protected /\ ~tree.disk /\ reg' = Deregistered(op[p].row) /\ Return(p) /\ UNCHANGED base
          \/ /\ ~protected /\ tree.disk /\ ~dirty
             /\ base' \in {base, [base EXCEPT !.fetched = base.merged]}
             /\ IF MergeEligible(p) THEN GoTo(p, "recheck") /\ UNCHANGED rlock ELSE Return(p)
             /\ UNCHANGED reg
    /\ UNCHANGED <<tree, agentrun, quota>>

RecheckDirty(p) ==
    /\ op[p].at = "recheck"
    /\ IF tree.dirty /\ ~op[p].force THEN Return(p) ELSE GoTo(p, "remove") /\ UNCHANGED rlock
    /\ UNCHANGED <<tree, base, reg, agentrun, quota>>

\* git refuses a dirty checkout unless it is told to force.  What is only on
\* its detached HEAD goes with it.
WorktreeRemove(p) ==
    /\ ~tree.dirty \/ op[p].force
    /\ tree' = [tree EXCEPT !.disk = FALSE, !.dirty = FALSE, !.loose = 0]

RemoveCheckout(p) ==
    /\ op[p].at = "remove"
    /\ \/ WorktreeRemove(p) /\ GoTo(p, IF op[p].cmd = "cleanup" THEN "branch" ELSE "deregister") /\ UNCHANGED <<rlock, quota>>
       \/ Return(p) /\ UNCHANGED tree /\ IF tree.dirty /\ ~op[p].force THEN UNCHANGED quota ELSE Spend("mishaps")
    /\ UNCHANGED <<base, reg, agentrun>>

\* A branch that is checked out cannot be deleted; that is only a warning.
DeleteBranch(p) ==
    /\ op[p].at = "branch" /\ GoTo(p, "deregister")
    /\ \/ op[p].row.branch /\ ~(tree.disk /\ tree.head = "branch") /\ tree' = [tree EXCEPT !.branch = FALSE, !.tip = 0] /\ UNCHANGED quota
       \/ ~op[p].row.branch /\ UNCHANGED <<tree, quota>>
       \/ Spend("mishaps") /\ UNCHANGED tree
    /\ UNCHANGED <<base, reg, agentrun, rlock>>

MarkWorktreeRemoved(p) ==
    /\ op[p].at = "deregister" /\ Return(p) /\ reg' = Deregistered(op[p].row)
    /\ UNCHANGED <<tree, base, agentrun, quota>>

(***************************************************************************)
(* worktree remove and agent pr take no lock.                              *)
(***************************************************************************)
\* An adopted worktree is deregistered; with --prune it is removed too.
RemoveCommand(p) ==
    /\ reg.status = "active" /\ \E first \in {"deregister", "look"} :
           /\ first = "deregister" => reg.by = "adopted"
           /\ Begin(p, "remove", first)

LookBeforeRemove(p) ==
    /\ op[p].at = "look"
    /\ IF tree.disk
       THEN IF tree.dirty /\ ~op[p].force THEN Return(p) ELSE GoTo(p, "remove") /\ UNCHANGED rlock
       ELSE IF op[p].force THEN GoTo(p, "deregister") /\ UNCHANGED rlock ELSE Return(p)
    /\ UNCHANGED <<tree, base, reg, agentrun, quota>>

AgentPR(p) == Begin(p, "pr", "sweep")

\* Only of a complete run, from a branch; a branch made since the adoption is
\* read from HEAD and recorded.  The pushed branch is what upstream may merge.
OpenPR(p) ==
    /\ op[p].at = "gate"
    /\ \/ /\ \E r \in RunId : agentrun[r].status = "complete"
          /\ reg.branch \/ (tree.disk /\ tree.head = "branch")
          /\ reg' = [reg EXCEPT !.branch = TRUE]
       \/ ~(reg.branch \/ (tree.disk /\ tree.head = "branch")) /\ UNCHANGED reg
       \/ (\A r \in RunId : agentrun[r].status # "complete") /\ UNCHANGED reg
    /\ Return(p) /\ UNCHANGED <<tree, base, agentrun, quota>>

(***************************************************************************)
(* The checkout's user, upstream, and processes that die.                  *)
(***************************************************************************)
Edit == /\ tree.disk /\ ~tree.dirty /\ tree.tip + tree.loose < MaxCommits
        /\ tree' = [tree EXCEPT !.dirty = TRUE] /\ UNCHANGED <<base, reg, agentrun, rlock, op, quota>>

Commit ==
    /\ tree.disk /\ tree.dirty
    /\ tree' = [tree EXCEPT !.dirty = FALSE, !.tip = @ + IF tree.head = "branch" THEN 1 ELSE 0,
                            !.loose = @ + IF tree.head = "branch" THEN 0 ELSE 1]
    /\ UNCHANGED <<base, reg, agentrun, rlock, op, quota>>

\* git switch -c in a detached checkout, and git checkout --detach in another.
SwitchHead ==
    /\ tree.disk
    /\ \/ /\ tree.head = "detached" /\ ~tree.branch
          /\ tree' = [tree EXCEPT !.head = "branch", !.branch = TRUE, !.tip = tree.loose, !.loose = 0]
       \/ /\ tree.head = "branch" /\ "detach" \in quota.cmds
          /\ tree' = [tree EXCEPT !.head = "detached"]
    /\ UNCHANGED <<base, reg, agentrun, rlock, op, quota>>

MergeUpstream ==
    /\ base.merged < tree.tip /\ base' = [base EXCEPT !.merged = tree.tip]
    /\ UNCHANGED <<tree, reg, agentrun, rlock, op, quota>>

\* The harness behind an adopted run ends or dies.
HarnessExits(r) ==
    /\ agentrun[r].by = "adopt" /\ agentrun[r].pid = "alive"
    /\ agentrun' = [agentrun EXCEPT ![r].pid = "dead"]
    /\ UNCHANGED <<tree, base, reg, rlock, op, quota>>

\* A command dies; RepoLock has how its lock is reclaimed.
Die(p) ==
    /\ op[p] # Ready /\ quota.deadly /\ Spend("mishaps") /\ Return(p)
    /\ agentrun' = IF op[p].at = "working" THEN [agentrun EXCEPT ![op[p].run].pid = "dead"] ELSE agentrun
    /\ UNCHANGED <<tree, base, reg>>

CommandStep(p) ==
    \/ LockRepo(p) \/ AddWorktree(p) \/ RegisterFresh(p) \/ InsertRun(p) \/ FinishRun(p)
    \/ InspectWorktree(p) \/ RegisterAdopted(p) \/ AdoptRun(p) \/ UpdateAgentRunResult(p)
    \/ ReadRunning(p) \/ MarkInterrupted(p) \/ ListWorktrees(p) \/ CheckWorktree(p)
    \/ RecheckDirty(p) \/ RemoveCheckout(p) \/ DeleteBranch(p) \/ MarkWorktreeRemoved(p)
    \/ LookBeforeRemove(p) \/ OpenPR(p)

TreesNext ==
    \/ \E p \in Cmd : \/ CreateFresh(p, "run") \/ CreateFresh(p, "new") \/ WorktreeAdopt(p) \/ AgentAdopt(p)
                      \/ AgentFinish(p) \/ SweepCommand(p) \/ CleanupCommand(p) \/ RemoveCommand(p)
                      \/ AgentPR(p) \/ CommandStep(p) \/ Die(p)
    \/ Edit \/ Commit \/ SwitchHead \/ MergeUpstream
    \/ \E r \in RunId : HarnessExits(r)

TreesSpec == TreesInit /\ [][TreesNext]_wtvars

(***************************************************************************)
(* Properties.                                                             *)
(***************************************************************************)
\* The checkout of a run that agent run recorded stays registered and on disk
\* while its recorder lives, whatever cleanup runs beside it: the lock is held
\* from the creation of the worktree to the row that protects it (P7-GIT-01).
\* worktree remove is the user's own word and asks nobody.
AgentKeepsCheckout ==
    \A r \in RunId : agentrun[r].by = "run" /\ agentrun[r].status = "running" /\ agentrun[r].pid = "alive"
        => "remove" \in quota.cmds \/ (tree.disk /\ reg.status = "active")

\* cleanup takes no commit that was there when it took the lock and is not
\* upstream: not with the branch it deletes, and not with a detached HEAD unless
\* somebody detached a checkout whose branch is on record (cleanup looks at the
\* branch only).
CommitsKept ==
    [][\A p \in Cmd : op[p].cmd = "cleanup" /\ op'[p] # op[p] =>
           /\ tree.branch /\ ~tree'.branch => op[p].tip <= base.merged
           /\ tree.disk /\ ~tree'.disk => op[p].loose = 0 \/ "detach" \in quota.cmds]_wtvars

\* Uncommitted edits go only by a command told to force: an edit made between
\* the last check and the removal is refused by git itself.
EditsKept ==
    [][tree.dirty /\ ~tree'.disk =>
           \E p \in Cmd : op[p].at \in {"added", "registered"} \/ (op[p].at = "remove" /\ op[p].force)]_wtvars

\* A run is called interrupted only when its recorder is known to be dead; one
\* without a recorded pid is never swept.
LiveNotInterrupted == \A r \in RunId : agentrun[r].status = "interrupted" => agentrun[r].pid = "dead"

\* A command that failed leaves no checkout the database does not know
\* (P6-GIT-05); only a killed one does, or one whose clean-up failed too.
NoHiddenCheckout ==
    quota.start = "none" /\ tree.disk /\ reg.status # "active" =>
        quota.deadly \/ \E p \in Cmd : op[p].at = "added"

\* Checkouts, their rows and the runs in them stay together (worktree.go,
\* agent.go, agent_runs.go).
CheckoutsTracked == AgentKeepsCheckout /\ LiveNotInterrupted /\ NoHiddenCheckout
=============================================================================
