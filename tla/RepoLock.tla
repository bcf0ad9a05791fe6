------------------------------ MODULE RepoLock ------------------------------
(***************************************************************************)
(* The lock files of internal/cli/repo_lock.go: the per-repository lock and *)
(* the maintenance lock that keeps run-loop ticks, restores and backups    *)
(* apart.  O_EXCL creates the file, a second call writes the holder into   *)
(* it, and a contender that finds a dead holder removes it and tries once  *)
(* more.  Every file system call is a step.                                *)
(***************************************************************************)
EXTENDS Naturals, FiniteSets

CONSTANTS
    Procs,          \* processes of one host that want the lock
    MaxCrashes      \* bound: processes that die

ASSUME LockAssumption == MaxCrashes \in Nat

VARIABLES
    file,           \* the lock file: NoFile or a File
    old,            \* the file was last written more than repoLockStaleAfter ago
    pc,             \* pc[p]: where acquireRepoLock of p is
    before,         \* before[p]: the content removeStaleRepoLock read first
    turn            \* turn[p]: tells p's consecutive acquisitions apart (acquired_at)

vars == <<file, old, pc, before, turn>>

NoFile == [owner |-> {}, turn |-> 0, body |-> "none"]
File == [owner : {{p} : p \in Procs}, turn : {0, 1}, body : {"empty", "written"}]

\* What ReadFile returns: an empty file does not say who created it.
NoContent == [owner |-> {}, turn |-> 0]
Content(f) == IF f.body = "written" THEN [owner |-> f.owner, turn |-> f.turn] ELSE NoContent

Alive(p) == pc[p] # "dead"

Waiting == {"create", "probe", "before", "recheck", "reread", "remove", "recreate"}

Init ==
    /\ file = NoFile /\ old = FALSE
    /\ pc = [p \in Procs |-> "idle"]
    /\ before = [p \in Procs |-> NoContent]
    /\ turn = [p \in Procs |-> 0]

\* repoLockIsStale: no file is stale; a file that cannot be parsed is stale
\* when it is old; otherwise the holder must be dead (same host, same process).
Stale(f) ==
    \/ f.body = "none"
    \/ f.body = "empty" /\ old
    \/ f.body = "written" /\ \E p \in Procs : f.owner = {p} /\ ~Alive(p)

Goto(p, there) == pc' = [pc EXCEPT ![p] = there]

-----------------------------------------------------------------------------
Start(p) ==
    /\ pc[p] = "idle" /\ Goto(p, "create")
    /\ UNCHANGED <<file, old, before, turn>>

\* tryAcquireRepoLock, first half: O_CREATE|O_EXCL.  A second failure, after a
\* stale lock was removed, gives up.
Create(p) ==
    /\ pc[p] \in {"create", "recreate"}
    /\ \/ /\ file = NoFile
          /\ file' = [owner |-> {p}, turn |-> turn[p], body |-> "empty"]
          /\ old' = FALSE
          /\ Goto(p, "write")
       \/ /\ file # NoFile
          /\ Goto(p, IF pc[p] = "create" THEN "probe" ELSE "idle")
          /\ UNCHANGED <<file, old>>
    /\ UNCHANGED <<before, turn>>

\* Second half: the holder's identity goes into the file p created, unless
\* somebody removed it since.
Write(p) ==
    /\ pc[p] = "write"
    /\ IF file.owner = {p}
       THEN file' = [file EXCEPT !.body = "written"] /\ old' = FALSE
       ELSE UNCHANGED <<file, old>>
    /\ Goto(p, "holding")
    /\ UNCHANGED <<before, turn>>

\* The write fails: the path is removed, whatever it holds by then.
FailWrite(p) ==
    /\ pc[p] = "write"
    /\ file' = NoFile
    /\ Goto(p, "idle")
    /\ UNCHANGED <<old, before, turn>>

\* acquireRepoLock: a live holder refuses the caller.
Probe(p) ==
    /\ pc[p] = "probe"
    /\ Goto(p, IF Stale(file) THEN "before" ELSE "idle")
    /\ UNCHANGED <<file, old, before, turn>>

\* removeStaleRepoLock: read, judge, read again, remove.
ReadBefore(p) ==
    /\ pc[p] = "before"
    /\ before' = [before EXCEPT ![p] = Content(file)]
    /\ Goto(p, IF file = NoFile THEN "recreate" ELSE "recheck")
    /\ UNCHANGED <<file, old, turn>>

Recheck(p) ==
    /\ pc[p] = "recheck"
    /\ Goto(p, IF Stale(file) THEN "reread" ELSE "recreate")
    /\ UNCHANGED <<file, old, before, turn>>

Reread(p) ==
    /\ pc[p] = "reread"
    /\ Goto(p, IF file # NoFile /\ Content(file) = before[p] THEN "remove" ELSE "recreate")
    /\ UNCHANGED <<file, old, before, turn>>

RemoveStale(p) ==
    /\ pc[p] = "remove"
    /\ file' = NoFile
    /\ Goto(p, "recreate")
    /\ UNCHANGED <<old, before, turn>>

\* unlock: removes the path without looking.
Release(p) ==
    /\ pc[p] = "holding"
    /\ file' = NoFile
    /\ Goto(p, "idle")
    /\ turn' = [turn EXCEPT ![p] = 1 - @]
    /\ UNCHANGED <<old, before>>

-----------------------------------------------------------------------------
\* External: a process dies; half an hour passes.
Crash(p) ==
    /\ Alive(p) /\ Cardinality({q \in Procs : ~Alive(q)}) < MaxCrashes
    /\ Goto(p, "dead")
    /\ UNCHANGED <<file, old, before, turn>>

HalfHour ==
    /\ file # NoFile /\ ~old /\ old' = TRUE
    /\ \A p \in Procs : pc[p] # "write"
    /\ UNCHANGED <<file, pc, before, turn>>

Work(p) ==
    \/ Start(p) \/ Create(p) \/ Write(p) \/ Probe(p) \/ ReadBefore(p) \/ Recheck(p)
    \/ Reread(p) \/ RemoveStale(p) \/ Release(p)

Next ==
    \/ \E p \in Procs : Work(p) \/ FailWrite(p) \/ Crash(p)
    \/ HalfHour

\* Live processes run and keep wanting the lock; holders finish.
Fairness == WF_vars(HalfHour) /\ \A p \in Procs : WF_vars(Work(p))

Spec == Init /\ [][Next]_vars
FairSpec == Spec /\ Fairness

-----------------------------------------------------------------------------
TypeOK ==
    /\ file \in File \cup {NoFile} /\ old \in BOOLEAN
    /\ pc \in [Procs -> Waiting \cup {"idle", "write", "holding", "dead"}]
    /\ before \in [Procs -> [owner : {{}} \cup {{p} : p \in Procs}, turn : {0, 1}]]
    /\ turn \in [Procs -> {0, 1}]

\* A dead holder does not block the others for good: its file, empty or not, is
\* cleared away (GIT-01/P7-GIT-03).
DeadLockReclaimed ==
    \A p \in Procs : (file.owner = {p} /\ ~Alive(p)) ~> (file.owner # {p} \/ \A q \in Procs : ~Alive(q))
=============================================================================
