----------------------------- MODULE Scheduler -----------------------------
(***************************************************************************)
(* The daemon's convergence scheduler: one cycle at a time, callers that   *)
(* arrive during a cycle join it, a full request that joins a weaker cycle *)
(* is owed a full one.  Callers are the periodic loop, the watch plane's   *)
(* hints and requests to /v1/sync, which may disconnect.                   *)
(*                                                                         *)
(* What a section holding s.mu does is one step.  A cycle (cliConverger)   *)
(* ends well or not: the maintenance lock may be taken, the hub away.      *)
(***************************************************************************)
EXTENDS Integers, Sequences

CONSTANTS
    Client,         \* requests to /v1/sync
    CycleWorld      \* bounds: cycles, requests per client

ASSUME CycleAssumption == CycleWorld \subseteq [cycles : Nat, requests : Nat]

Periodic == "periodic"
Hint == "hint"
Caller == Client \cup {Periodic, Hint}

VARIABLES
    inFlight,       \* the running cycle's number, 0 when none runs
    pendingMode,    \* a full cycle is owed
    cycles,         \* cycles[n]: mode, outcome, and whether its done channel is closed
    caller,         \* caller[c]: what Converge is doing for c
    log,            \* what was published on the event bus
    owed,           \* history: a full request joined a weaker cycle and no full one started since
    room6

schedvars == <<inFlight, pendingMode, cycles, caller, log, owed, room6>>

NotCalling == [at |-> "idle", cycle |-> 0, told |-> "nothing"]

CycleInit ==
    /\ room6 \in CycleWorld
    /\ inFlight = 0 /\ pendingMode = FALSE /\ cycles = <<>> /\ log = <<>> /\ owed = FALSE
    /\ caller = [c \in Caller |-> NotCalling]

\* The periodic loop asks for a full cycle, a hint for the namespace, a client for either.
Modes(c) == IF c = Periodic THEN {"full"} ELSE IF c = Hint THEN {"namespace-only"} ELSE {"full", "namespace-only"}

Join(c, mode) ==
    /\ pendingMode' = (pendingMode \/ (mode = "full" /\ cycles[inFlight].mode # "full"))
    /\ owed' = (owed \/ (mode = "full" /\ cycles[inFlight].mode # "full"))
    /\ caller' = [caller EXCEPT ![c] = [at |-> "joined", cycle |-> inFlight, told |-> "nothing"]]
    /\ UNCHANGED <<inFlight, cycles, log>>

Lead(c, mode) ==
    LET m == IF pendingMode THEN "full" ELSE mode IN
    /\ Len(cycles) < room6.cycles
    /\ cycles' = Append(cycles, [mode |-> m, outcome |-> "running", done |-> FALSE])
    /\ inFlight' = Len(cycles') /\ pendingMode' = FALSE
    /\ owed' = (owed /\ m # "full")
    /\ caller' = [caller EXCEPT ![c] = [at |-> "leading", cycle |-> Len(cycles'), told |-> "nothing"]]
    /\ UNCHANGED log

Converge(c, mode) ==
    /\ caller[c].at = "idle"
    /\ c \in Client => room6.requests > 0
    /\ room6' = [room6 EXCEPT !.requests = IF c \in Client THEN @ - 1 ELSE @]
    /\ IF inFlight # 0 THEN Join(c, mode) ELSE Lead(c, mode)

\* converge.started is published outside the lock.
PublishStarted(c) ==
    /\ caller[c].at = "leading" /\ log' = Append(log, "started")
    /\ caller' = [caller EXCEPT ![c].at = "running"]
    /\ UNCHANGED <<inFlight, pendingMode, cycles, owed, room6>>

\* The outcome, the free slot and the terminal event are one critical section.
CycleEnds(c) ==
    LET n == caller[c].cycle IN
    /\ caller[c].at = "running"
    /\ \E outcome \in {"ok", "failed"} : cycles' = [cycles EXCEPT ![n].outcome = outcome]
    /\ inFlight' = 0 /\ log' = Append(log, "ended")
    /\ caller' = [caller EXCEPT ![c].at = "closing"]
    /\ UNCHANGED <<pendingMode, owed, room6>>

\* Mutation of CloseDone: a failed cycle returns early.
CloseDoneOnSuccess(c) ==
    /\ caller[c].at = "closing"
    /\ cycles' = [cycles EXCEPT ![caller[c].cycle].done = cycles[caller[c].cycle].outcome = "ok"]
    /\ caller' = [caller EXCEPT ![c].at = "back", ![c].told = cycles[caller[c].cycle].outcome]
    /\ UNCHANGED <<inFlight, pendingMode, log, owed, room6>>

CloseDone(c) ==
    /\ caller[c].at = "closing"
    /\ cycles' = [cycles EXCEPT ![caller[c].cycle].done = TRUE]
    /\ caller' = [caller EXCEPT ![c].at = "back", ![c].told = cycles[caller[c].cycle].outcome]
    /\ UNCHANGED <<inFlight, pendingMode, log, owed, room6>>

Wake(c) ==
    /\ caller[c].at = "joined" /\ cycles[caller[c].cycle].done
    /\ caller' = [caller EXCEPT ![c].at = "back", ![c].told = cycles[caller[c].cycle].outcome]
    /\ UNCHANGED <<inFlight, pendingMode, cycles, log, owed, room6>>

\* A client that waits for somebody's cycle goes away.  (One that leads a cycle
\* cancels it: CycleEnds with "failed".)
Disconnect(c) ==
    /\ c \in Client /\ caller[c].at = "joined"
    /\ caller' = [caller EXCEPT ![c].at = "back", ![c].told = "canceled"]
    /\ UNCHANGED <<inFlight, pendingMode, cycles, log, owed, room6>>

\* runPeriodic waits out its interval or backoff, consume its floor.
NextCall(c) ==
    /\ caller[c].at = "back" /\ caller' = [caller EXCEPT ![c] = NotCalling]
    /\ UNCHANGED <<inFlight, pendingMode, cycles, log, owed, room6>>

ConvergeStep(c) == PublishStarted(c) \/ CycleEnds(c) \/ CloseDone(c) \/ Wake(c)

CycleNext ==
    \E c \in Caller :
        ConvergeStep(c) \/ Disconnect(c) \/ NextCall(c) \/ \E mode \in Modes(c) : Converge(c, mode)

-----------------------------------------------------------------------------
\* One cycle at a time, and its terminal event comes before the next cycle's
\* started, though started is published outside the lock.
EventsAlternate == \A i \in 1..Len(log) : log[i] = IF i % 2 = 1 THEN "started" ELSE "ended"

\* A caller is told the outcome of the very cycle it led or joined, however many
\* cycles ran before it woke.
ToldHonest == \A c \in Caller : caller[c].told \in {"ok", "failed"} => caller[c].told = cycles[caller[c].cycle].outcome

\* A full sync requested during a namespace-only cycle is not silently lost:
\* the next cycle, whoever starts it, is a full one.
FullNotLost == [][(owed /\ Len(cycles') > Len(cycles)) => cycles'[Len(cycles')].mode = "full"]_schedvars

\* No caller is left waiting, the periodic loop among them: a cycle somebody has
\* joined is over and closed, or still in its leader's hands, failed or not.
JoinedIsLed ==
    \A c \in Caller : caller[c].at = "joined" =>
        \/ cycles[caller[c].cycle].done
        \/ \E l \in Caller : caller[l].at \in {"leading", "running", "closing"} /\ caller[l].cycle = caller[c].cycle
=============================================================================
