----------------------------- MODULE WatchPlane -----------------------------
(***************************************************************************)
(* The daemon's watch plane: a loop that resolves the roots on every tick  *)
(* and replaces the arm when it must, and arms that try the native         *)
(* watcher, wait out a short delay or, from degraded, a probation, and     *)
(* fall back to polling.  A cancelled arm overlaps with the one that       *)
(* replaces it.  What a section holding p.mu does is one step.             *)
(*                                                                         *)
(* Assumed of time: the steps an arm can take without waiting are over     *)
(* within a re-discovery interval, and a timer does not fire in the        *)
(* instant its arm is cancelled.                                           *)
(***************************************************************************)
EXTENDS Integers

CONSTANTS
    Arm,            \* bound: arms alive at a time; an arm stands for its generation
    NoArm,
    WatchWorld      \* bounds: changes of the roots and of the native watcher's
                    \* health, failures to read the roots or to poll, health reports

ASSUME WatchAssumption ==
    /\ NoArm \notin Arm
    /\ WatchWorld \subseteq [changes : Nat, blips : Nat, reports : Nat]

VARIABLES
    phase,          \* watchState.Phase
    counter,        \* watchState.counter is set: the count of a native watcher
    probationArm,   \* the arm serving a recovery probation
    arm,            \* arm[g]: where it is, whether it is cancelled, its roots
    current,        \* run: the roots and the arm last started
    roots,          \* external: what WatchRoots answers, 0 for none
    native,         \* external: the native watcher can watch them
    report,         \* the /v1/health reader
    room8

watchvars == <<phase, counter, probationArm, arm, current, roots, native, report, room8>>

NoArmed == [at |-> "none", cancelled |-> FALSE, roots |-> 0]
NoReport == [at |-> "idle", phase |-> "starting", known |-> FALSE]

WatchInit ==
    /\ room8 \in WatchWorld
    /\ phase = "starting" /\ counter = FALSE /\ probationArm = NoArm
    /\ arm = [g \in Arm |-> NoArmed]
    /\ current = [roots |-> 0, arm |-> NoArm]
    /\ roots \in {0, 1} /\ native \in BOOLEAN /\ report = NoReport

\* External: projects are materialized or go; descriptors run out or come back.
WatchRootsChange ==
    /\ room8.changes > 0 /\ room8' = [room8 EXCEPT !.changes = @ - 1]
    /\ \/ roots' \in {0, 1, 2} \ {roots} /\ UNCHANGED native
       \/ native' = ~native /\ UNCHANGED roots
    /\ UNCHANGED <<phase, counter, probationArm, arm, current, report>>

degrade == phase' = "degraded" /\ counter' = FALSE
idle == phase' = "idle" /\ counter' = FALSE
watching == phase' = "watching" /\ counter' = TRUE
same == UNCHANGED <<phase, counter>>

ArmTo(g, there) == arm' = [arm EXCEPT ![g].at = there]
ArmEnds(g) == arm' = [arm EXCEPT ![g] = NoArmed]
Cancelled == [g \in Arm |-> IF g = current.arm /\ arm[g].at # "none" THEN [arm[g] EXCEPT !.cancelled = TRUE] ELSE arm[g]]

\* The arm of the loop has not closed its channel.
armAlive == current.arm # NoArm /\ arm[current.arm].at # "none"

\* Only waits last longer than an interval.
Settled == \A g \in Arm : arm[g].at \in {"none", "select", "armed", "polling"}

\* Mutation of needsRearm: a degraded plane retries on every tick.
needsRearmAlways == ~armAlive \/ current.roots # roots \/ phase = "degraded"

needsRearm == ~armAlive \/ current.roots # roots \/ (phase = "degraded" /\ probationArm = NoArm)

\* One turn of run.
rediscover ==
    /\ Settled
    /\ IF roots = 0
       THEN arm' = Cancelled /\ current' = [roots |-> 0, arm |-> NoArm] /\ idle
       ELSE IF needsRearm
       THEN \E g \in Arm :
              /\ arm[g].at = "none" /\ g # current.arm
              /\ arm' = [Cancelled EXCEPT ![g] = [at |-> "new", cancelled |-> FALSE, roots |-> roots]]
              /\ current' = [roots |-> roots, arm |-> g] /\ same
       ELSE same /\ UNCHANGED <<arm, current>>
    /\ UNCHANGED <<probationArm, roots, native, report, room8>>

\* WatchRoots fails: a live arm is kept.
rediscoverFails ==
    /\ Settled /\ room8.blips > 0 /\ room8' = [room8 EXCEPT !.blips = @ - 1]
    /\ IF armAlive THEN same ELSE degrade
    /\ UNCHANGED <<probationArm, arm, current, roots, native, report>>

-----------------------------------------------------------------------------
\* From degraded the arm owes a probation.
armStarts(g) ==
    /\ arm[g].at = "new" /\ ArmTo(g, IF phase = "degraded" THEN "claim" ELSE "select")
    /\ UNCHANGED <<phase, counter, probationArm, current, roots, native, report, room8>>

beginProbation(g) ==
    /\ arm[g].at = "claim" /\ probationArm' = g /\ ArmTo(g, "select")
    /\ UNCHANGED <<phase, counter, current, roots, native, report, room8>>

endProbation(g) == probationArm' = IF probationArm = g THEN NoArm ELSE probationArm

\* The three ways out of the select: the watcher has failed ...
nativeFails(g) ==
    /\ arm[g].at = "select" /\ ~native /\ ~arm[g].cancelled
    /\ endProbation(g) /\ ArmTo(g, "failed")
    /\ UNCHANGED <<phase, counter, current, roots, native, report, room8>>

\* ... has survived ...
readyTimer(g) ==
    /\ arm[g].at = "select" /\ ~arm[g].cancelled
    /\ endProbation(g) /\ ArmTo(g, "ready")
    /\ UNCHANGED <<phase, counter, current, roots, native, report, room8>>

\* ... or the arm was cancelled.
armCancelled(g) ==
    /\ arm[g].at \in {"select", "armed", "polling"} /\ arm[g].cancelled
    /\ endProbation(g) /\ ArmEnds(g)
    /\ UNCHANGED <<phase, counter, current, roots, native, report, room8>>

announce(g) ==
    /\ arm[g].at = "ready" /\ watching /\ ArmTo(g, "armed")
    /\ UNCHANGED <<probationArm, current, roots, native, report, room8>>

nativeDies(g) ==
    /\ arm[g].at = "armed" /\ ~native /\ ~arm[g].cancelled /\ ArmTo(g, "failed")
    /\ UNCHANGED <<phase, counter, probationArm, current, roots, native, report, room8>>

\* An error falls back to polling; a watcher that just exits ends the arm.
degradeArm(g) ==
    /\ arm[g].at = "failed" /\ degrade
    /\ ArmTo(g, "polling") \/ ArmEnds(g)
    /\ UNCHANGED <<probationArm, current, roots, native, report, room8>>

pollFails(g) ==
    /\ arm[g].at = "polling" /\ ~arm[g].cancelled /\ degrade /\ ArmEnds(g)
    /\ room8.blips > 0 /\ room8' = [room8 EXCEPT !.blips = @ - 1]
    /\ UNCHANGED <<probationArm, current, roots, native, report>>

-----------------------------------------------------------------------------

\* snapshot: the counter is called between two critical sections.
beginSnapshot ==
    /\ report.at # "counting" /\ room8.reports > 0 /\ room8' = [room8 EXCEPT !.reports = @ - 1]
    /\ report' = [at |-> IF counter THEN "counting" ELSE "done", phase |-> phase, known |-> FALSE]
    /\ UNCHANGED <<phase, counter, probationArm, arm, current, roots, native>>

finishSnapshot ==
    /\ report.at = "counting" /\ report' = [at |-> "done", phase |-> phase, known |-> counter]
    /\ UNCHANGED <<phase, counter, probationArm, arm, current, roots, native, room8>>

ArmStep(g) ==
    armStarts(g) \/ beginProbation(g) \/ nativeFails(g) \/ armCancelled(g) \/ announce(g) \/ nativeDies(g) \/ degradeArm(g)

WatchNext ==
    \/ \E g \in Arm : ArmStep(g) \/ readyTimer(g) \/ pollFails(g)
    \/ rediscover \/ rediscoverFails \/ WatchRootsChange \/ beginSnapshot \/ finishSnapshot

-----------------------------------------------------------------------------
\* A watcher that works again is armed and announced, and roots that appeared are
\* watched: no tick restarts a probation, no forgotten probation suppresses the
\* retry, however the changes before overlapped.
Watchable == room8.changes = 0 /\ room8.blips = 0 /\ native /\ roots # 0

Watched == phase = "watching" /\ armAlive /\ arm[current.arm].at = "armed" /\ arm[current.arm].roots = roots

EventuallyWatched == Watchable ~> Watched

\* A degraded or idle plane never reports a count of the native arm before it.
CountHonest == report.known => report.phase = "watching"
=============================================================================
