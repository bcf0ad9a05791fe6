----------------------------- MODULE PullApply -----------------------------
(***************************************************************************)
(* The pull half of a sync on one device (internal/cli/sync.go             *)
(* pullAndApplyEvents): read the per-origin cursors, pull and decrypt,     *)
(* replay carriers quarantined earlier, apply the batch, advance the       *)
(* cursors, replay pointers whose project was missing; and the replay that *)
(* `devices approve` runs (internal/cli/devices.go).                       *)
(*                                                                         *)
(* Every database transaction is a step.  The maintenance lock keeps only  *)
(* run-loop ticks apart: a tick, a manual sync and an approval interleave, *)
(* and each may die between any two of its transactions.                   *)
(***************************************************************************)
EXTENDS Naturals, FiniteSets

CONSTANTS
    Origins,        \* the other devices of the workspace
    StreamLen,      \* bound: events each of them mints
    Epochs,         \* key epochs; events are sealed under one
    HeldEpochs,     \* those this device holds from the start
    Syncers,        \* processes that sync (daemon run-loop, CLI)
    Approvers,      \* processes that run `devices approve`
    Worlds          \* the worlds to explore

Procs == Syncers \cup Approvers
Ids == Origins \X (1..StreamLen)

\* What the code distinguishes in an event: the epoch it is sealed under, the
\* events whose project it points at, its place in the HLC order and in the
\* order of event ids, and what is wrong with it, if anything: a clock ahead of
\* ours, a clock no device can have had, ciphertext no key opens, a pointer,
\* mirror or trust payload that is rejected, a project payload that does not
\* decode.
Faults == {"none", "ahead", "implausible", "corrupt", "malformed", "unreadable"}
EventAttr == [epoch : Epochs, needs : SUBSET Ids, hlc : Nat, rank : Nat, fault : Faults]

\* A world: the streams; how much of them is on the hub at the start; the
\* origins approved from the start; the processes that run; and how many of
\* them may die mid-cycle.
ASSUME PullAssumption ==
    /\ StreamLen \in Nat /\ HeldEpochs \subseteq Epochs
    /\ Syncers \cap Approvers = {} /\ IsFiniteSet(Procs)
    /\ Worlds \subseteq [streams : [Ids -> EventAttr], hub : [Origins -> 0..StreamLen],
                         trusted : SUBSET Origins, procs : SUBSET Procs, deaths : Nat]

VARIABLES
    attr,           \* the streams of this behaviour
    cast,           \* its processes, and how many may die
    hub,            \* hub[o]: events of o the hub holds
    granted,        \* epochs whose key grant the hub holds
    keys,           \* epochs in this device's keyring
    expired,        \* epochs whose grant was waited for past the grace window
    caughtUp,       \* local time has reached the "ahead" events
    trusted,        \* origins this device has approved
    cursor,         \* cursor[o]: hub_device_cursors.last_seq_pulled
    log,            \* the events table
    rows,           \* open conflicts <<event, kind>>
    proc,           \* proc[p]: the memory of a running command
    crashes

env == <<hub, granted, expired, caughtUp>>
vars == <<attr, cast, env, keys, trusted, cursor, log, rows, proc, crashes>>

RowKinds == {"undecryptable", "verification", "pending", "skew", "chain"}
Replays == {"undecryptable", "verification", "pending"}

Verdicts == {"undecryptable", "implausible", "skew", "untrusted", "chain", "dup",
             "abort", "malformed", "pending", "applied"}

Idle ==
    [phase |-> "idle", subject |-> {}, base |-> [o \in Origins |-> 0], sealed |-> {},
     batch |-> {}, todo |-> {}, listed |-> FALSE, done |-> {}, stuck |-> {},
     cur |-> {}, verdict |-> "none"]

Init ==
    /\ \E w \in Worlds :
         /\ attr = w.streams /\ hub = w.hub /\ trusted = w.trusted
         /\ cast = [procs |-> w.procs, deaths |-> w.deaths]
    /\ granted = HeldEpochs /\ keys = HeldEpochs /\ expired = {}
    /\ caughtUp = FALSE
    /\ cursor = [o \in Origins |-> 0]
    /\ log = {} /\ rows = {}
    /\ proc = [p \in Procs |-> Idle]
    /\ crashes = 0

-----------------------------------------------------------------------------
(* External: peers push, an approver grants keys, time passes.             *)

Publish(o) ==
    /\ hub[o] < StreamLen
    /\ hub' = [hub EXCEPT ![o] = @ + 1]
    /\ UNCHANGED <<attr, cast, granted, expired, caughtUp, keys, trusted, cursor, log, rows, proc, crashes>>

\* The grant of an epoch some event is sealed under reaches the hub.
PostGrant(e) ==
    /\ e \notin granted /\ \E i \in Ids : attr[i].epoch = e
    /\ granted' = granted \cup {e}
    /\ UNCHANGED <<attr, cast, hub, expired, caughtUp, keys, trusted, cursor, log, rows, proc, crashes>>

\* The window opens when a carrier of the epoch is first pulled without its key.
GraceExpires(e) ==
    /\ e \notin keys \cup expired
    /\ \E i \in Ids : attr[i].epoch = e /\ i[2] <= hub[i[1]]
    /\ expired' = expired \cup {e}
    /\ UNCHANGED <<attr, cast, hub, granted, caughtUp, keys, trusted, cursor, log, rows, proc, crashes>>

ClockCatchesUp ==
    /\ ~caughtUp /\ \E i \in Ids : attr[i].fault = "ahead"
    /\ caughtUp' = TRUE
    /\ UNCHANGED <<attr, cast, hub, granted, expired, keys, trusted, cursor, log, rows, proc, crashes>>

-----------------------------------------------------------------------------
(* EncryptedHub.Pull.                                                      *)

Available == {i \in Ids : cursor[i[1]] < i[2] /\ i[2] <= hub[i[1]]}

\* A missing key defers the origin's tail while the grace window lasts.
Deferred(i, held) == attr[i].epoch \notin held \cup expired

Delivered(held) ==
    {i \in Available :
        \A j \in Available : j[1] = i[1] /\ j[2] <= i[2] => ~Deferred(j, held)}

Decryptable(i, held) == attr[i].epoch \in held /\ attr[i].fault # "corrupt"

\* Read the cursors, pull what lies beyond them, ingest the grants, decrypt;
\* what cannot be decrypted is forwarded sealed.
Pull(p) ==
    /\ p \in Syncers \cap cast.procs /\ proc[p].phase = "idle"
    /\ keys' = keys \cup granted
    /\ proc' = [proc EXCEPT ![p] =
         [Idle EXCEPT !.phase = "undecryptable", !.base = cursor,
                      !.batch = Delivered(keys'),
                      !.sealed = {i \in Delivered(keys') : ~Decryptable(i, keys')}]]
    /\ UNCHANGED <<attr, cast, env, trusted, cursor, log, rows, crashes>>

\* devices approve: pin the device, then replay what it had quarantined.
Approve(p, o) ==
    /\ p \in Approvers \cap cast.procs /\ proc[p].phase = "idle"
    /\ trusted' = trusted \cup {o}
    /\ proc' = [proc EXCEPT ![p] = [Idle EXCEPT !.phase = "verification", !.subject = {o}]]
    /\ UNCHANGED <<attr, cast, env, keys, cursor, log, rows, crashes>>

-----------------------------------------------------------------------------
(* ApplyEventsWithStats, for the batch and for each replayed event.        *)

TooFarAhead(i) == attr[i].fault = "ahead" /\ ~caughtUp

\* Mutation of ChainBroken: the prev-hash check dropped.
ChainBrokenNever(i) == FALSE

\* validatePrevEventHash: the event's predecessor is not in the log.
ChainBroken(i) == i[2] > 1 /\ <<i[1], i[2] - 1>> \notin log

\* The loop's early exits, then the checks of the insert transaction in order:
\* signature and trust, hash chain, duplicate, payload, missing project.
Verdict(i, isSealed) ==
    IF isSealed                             THEN "undecryptable"
    ELSE IF attr[i].fault = "implausible"   THEN "implausible"
    ELSE IF TooFarAhead(i)                  THEN "skew"
    ELSE IF i[1] \notin trusted             THEN "untrusted"
    ELSE IF ChainBroken(i)                  THEN "chain"
    ELSE IF i \in log                       THEN "dup"
    ELSE IF attr[i].fault = "unreadable"    THEN "abort"
    ELSE IF attr[i].fault = "malformed"     THEN "malformed"
    ELSE IF ~(attr[i].needs \subseteq log)  THEN "pending"
    ELSE "applied"

\* The conflict a verdict is recorded as; the other verdicts record none.
RowOf == [v \in Verdicts \ {"applied", "dup", "abort"} |->
            IF v \in {"implausible", "skew"} THEN "skew"
            ELSE IF v \in {"untrusted", "malformed"} THEN "verification"
            ELSE v]

\* Transiently skipped: the slot is held, everything else consumes it.
Holds(v) == v \in {"skew", "chain"}

\* The batch and the approval replay go by HLC; the per-cycle replays go by
\* details_json, that is by event id.
Position(p, i) == IF proc[p].phase \in {"batch", "verification"} THEN attr[i].hlc ELSE attr[i].rank

IsNext(p, i) ==
    /\ i \in proc[p].todo
    /\ \A j \in proc[p].todo : Position(p, i) <= Position(p, j)

\* OpenConflictsByType: a replay reads its list of open rows once.
ListRows(p) ==
    /\ proc[p].phase \in Replays /\ ~proc[p].listed
    /\ proc' = [proc EXCEPT
         ![p].listed = TRUE,
         ![p].todo = {i \in Ids : /\ <<i, proc[p].phase>> \in rows
                                  /\ proc[p].phase = "verification" => i[1] \in proc[p].subject}]
    /\ UNCHANGED <<attr, cast, env, keys, trusted, cursor, log, rows, crashes>>

\* ReplayUndecryptableConflicts passes over a carrier it cannot open yet, and
\* one whose clock is still ahead.
PassOver(p, i) == proc[p].phase = "undecryptable" /\ (~Decryptable(i, keys) \/ TooFarAhead(i))

SkipReplay(p, i) ==
    /\ proc[p].phase \in Replays /\ proc[p].cur = {} /\ IsNext(p, i) /\ PassOver(p, i)
    /\ proc' = [proc EXCEPT ![p].todo = @ \ {i}]
    /\ UNCHANGED <<attr, cast, env, keys, trusted, cursor, log, rows, crashes>>

\* record: the outcome of the event's slot in the batch, in memory.
Record(m, i, v) ==
    [m EXCEPT !.done = IF Holds(v) THEN @ ELSE @ \cup {i},
              !.stuck = IF Holds(v) THEN @ \cup {i} ELSE @,
              !.cur = {}, !.verdict = "none"]

\* Mutation of WaitingRows: a broken chain that has healed stays flagged.
WaitingRowsSkewOnly(i) == {<<i, "skew">>}

\* The rows that say "not yet", closed when the event applies.
WaitingRows(i) == {<<i, "skew">>, <<i, "chain">>}

\* One event through the gates and the insert transaction.  Applying it closes
\* the rows that earlier deliveries of it left behind.  An error that is none of
\* the known ones ends the command, except that an approval only warns.
ApplyEvent(p, i) ==
    /\ proc[p].phase \in Replays \cup {"batch"} /\ proc[p].cur = {}
    /\ IsNext(p, i) /\ ~PassOver(p, i)
    /\ LET m == [proc[p] EXCEPT !.todo = @ \ {i}]
           v == Verdict(i, m.phase = "batch" /\ i \in m.sealed)
       IN  /\ log' = IF v = "applied" THEN log \cup {i} ELSE log
           /\ rows' = IF v = "applied" THEN rows \ WaitingRows(i) ELSE rows
           /\ proc' = [proc EXCEPT ![p] =
                IF v = "abort" THEN IF m.phase = "verification" THEN m ELSE Idle
                ELSE IF m.phase = "batch" /\ v \in {"applied", "dup"} THEN Record(m, i, v)
                ELSE [m EXCEPT !.cur = {i}, !.verdict = v]]
    /\ UNCHANGED <<attr, cast, env, keys, trusted, cursor, crashes>>

\* insertEventConflictOnce and its siblings: a second transaction.
Quarantine(p, i) ==
    /\ proc[p].cur = {i} /\ proc[p].verdict \in DOMAIN RowOf
    /\ rows' = rows \cup {<<i, RowOf[proc[p].verdict]>>}
    /\ proc' = [proc EXCEPT ![p] =
         IF @.phase = "batch" THEN Record(@, i, @.verdict)
         ELSE [@ EXCEPT !.verdict = "quarantined"]]
    /\ UNCHANGED <<attr, cast, env, keys, trusted, cursor, log, crashes>>

\* Whether a replay closes the row it worked on: the approval replay looks the
\* event up, the pending replay asks whether it was quarantined again, the
\* undecryptable replay closes it in any case.
MayResolve(p, i) ==
    IF proc[p].phase = "verification" THEN i \in log
    ELSE IF proc[p].phase = "pending" THEN proc[p].verdict \in {"applied", "dup"}
    ELSE TRUE

ResolveRow(p, i) ==
    /\ proc[p].phase \in Replays /\ proc[p].cur = {i}
    /\ proc[p].verdict \in {"applied", "dup", "quarantined"}
    /\ rows' = IF MayResolve(p, i) THEN rows \ {<<i, proc[p].phase>>} ELSE rows
    /\ proc' = [proc EXCEPT ![p].cur = {}, ![p].verdict = "none"]
    /\ UNCHANGED <<attr, cast, env, keys, trusted, cursor, log, crashes>>

-----------------------------------------------------------------------------
(* The end of the batch and of the command.                                *)

\* Mutation of SafeCursor: the highest consumed slot, gaps and holds ignored.
SafeCursorHighest(p, o) ==
    LET reached == {n \in 0..StreamLen : n = proc[p].base[o] \/ <<o, n>> \in proc[p].done}
    IN  CHOOSE n \in reached : \A m \in reached : m <= n

\* Mutation of SafeCursor: one held event holds every origin.
SafeCursorGlobalHold(p, o) ==
    IF proc[p].stuck # {} THEN proc[p].base[o]
    ELSE CHOOSE n \in proc[p].base[o]..StreamLen :
            /\ \A s \in (proc[p].base[o] + 1)..n : <<o, s>> \in proc[p].done
            /\ <<o, n + 1>> \notin proc[p].done

\* The end of the contiguous consumed run that starts at the pulled cursor.
SafeCursor(p, o) ==
    CHOOSE n \in proc[p].base[o]..StreamLen :
        /\ \A s \in (proc[p].base[o] + 1)..n : <<o, s>> \in proc[p].done \ proc[p].stuck
        /\ <<o, n + 1>> \notin proc[p].done \ proc[p].stuck

ListDone(p) == proc[p].listed /\ proc[p].todo = {} /\ proc[p].cur = {}

\* The batch applies after the carriers recovered so far.
BeginBatch(p) ==
    /\ proc[p].phase = "undecryptable" /\ ListDone(p)
    /\ proc' = [proc EXCEPT ![p].phase = "batch", ![p].todo = proc[p].batch]
    /\ UNCHANGED <<attr, cast, env, keys, trusted, cursor, log, rows, crashes>>

\* The cursors to write, as <<origin, seq>> pairs.
EndBatch(p) ==
    /\ proc[p].phase = "batch" /\ ListDone(p)
    /\ proc' = [proc EXCEPT
         ![p].phase = "advance",
         ![p].todo = {<<o, SafeCursor(p, o)>> :
                        o \in {q \in Origins : SafeCursor(p, q) > proc[p].base[q]}}]
    /\ UNCHANGED <<attr, cast, env, keys, trusted, cursor, log, rows, crashes>>

\* Mutation of BeginPending: the command ends without that replay.
BeginPendingNever(p) ==
    /\ proc[p].phase \in {"advance", "verification"} /\ ListDone(p)
    /\ proc' = [proc EXCEPT ![p] = Idle]
    /\ UNCHANGED <<attr, cast, env, keys, trusted, cursor, log, rows, crashes>>

\* ReplayPendingProjectConflicts ends a sync and an approval alike.
BeginPending(p) ==
    /\ proc[p].phase \in {"advance", "verification"} /\ ListDone(p)
    /\ proc' = [proc EXCEPT ![p] = [Idle EXCEPT !.phase = "pending"]]
    /\ UNCHANGED <<attr, cast, env, keys, trusted, cursor, log, rows, crashes>>

Finish(p) ==
    /\ proc[p].phase = "pending" /\ ListDone(p)
    /\ proc' = [proc EXCEPT ![p] = Idle]
    /\ UNCHANGED <<attr, cast, env, keys, trusted, cursor, log, rows, crashes>>

\* Mutation of ForwardOnly: the last writer wins.
ForwardOnlyPlain(stored, seq) == seq

ForwardOnly(stored, seq) == IF seq > stored THEN seq ELSE stored

\* AdvanceHubDeviceCursor, one origin at a time in map order.
AdvanceCursor(p, target) ==
    /\ proc[p].phase = "advance" /\ target \in proc[p].todo
    /\ cursor' = [cursor EXCEPT ![target[1]] = ForwardOnly(@, target[2])]
    /\ proc' = [proc EXCEPT ![p].todo = @ \ {target}]
    /\ UNCHANGED <<attr, cast, env, keys, trusted, log, rows, crashes>>

\* The process dies, or a database error ends the command.
Crash(p) ==
    /\ proc[p].phase # "idle" /\ crashes < cast.deaths
    /\ proc' = [proc EXCEPT ![p] = Idle]
    /\ crashes' = crashes + 1
    /\ UNCHANGED <<attr, cast, env, keys, trusted, cursor, log, rows>>

Step(p) ==
    \/ ListRows(p)
    \/ \E i \in Ids : \/ SkipReplay(p, i) \/ ApplyEvent(p, i) \/ Quarantine(p, i)
                      \/ ResolveRow(p, i)
    \/ BeginBatch(p) \/ EndBatch(p) \/ BeginPending(p) \/ Finish(p)
    \/ \E target \in Ids : AdvanceCursor(p, target)

Next ==
    \/ \E o \in Origins : Publish(o)
    \/ \E e \in Epochs : PostGrant(e) \/ GraceExpires(e)
    \/ ClockCatchesUp
    \/ \E p \in Procs : Pull(p) \/ Step(p) \/ Crash(p) \/ \E o \in Origins : Approve(p, o)

\* Peers push, grants arrive and clocks catch up; the daemon keeps syncing; the
\* operator approves every device and approves again while events of it are
\* quarantined.
Fairness ==
    /\ \A o \in Origins : WF_vars(Publish(o))
    /\ \A e \in Epochs : WF_vars(PostGrant(e))
    /\ WF_vars(ClockCatchesUp)
    /\ \A p \in Syncers : WF_vars(Pull(p))
    /\ \A p \in Procs : WF_vars(Step(p))
    /\ \A p \in Approvers, o \in Origins : SF_vars(Approve(p, o))

Spec == Init /\ [][Next]_vars

FairSpec == Spec /\ Fairness

-----------------------------------------------------------------------------
Memory ==
    [phase : Replays \cup {"idle", "batch", "advance"}, subject : SUBSET Origins,
     base : [Origins -> 0..StreamLen], sealed : SUBSET Ids, batch : SUBSET Ids,
     todo : SUBSET Ids, listed : BOOLEAN, done : SUBSET Ids, stuck : SUBSET Ids,
     cur : SUBSET Ids, verdict : Verdicts \cup {"none", "quarantined"}]

TypeOK ==
    /\ attr \in [Ids -> EventAttr] /\ cast \in [procs : SUBSET Procs, deaths : Nat]
    /\ hub \in [Origins -> 0..StreamLen]
    /\ granted \subseteq Epochs /\ keys \subseteq granted /\ expired \subseteq Epochs
    /\ caughtUp \in BOOLEAN
    /\ trusted \subseteq Origins
    /\ cursor \in [Origins -> 0..StreamLen]
    /\ log \subseteq Ids /\ rows \subseteq Ids \X RowKinds
    /\ proc \in [Procs -> Memory]
    /\ crashes \in 0..cast.deaths

\* The cursor never passes an event this device could still lose: everything at
\* or below it is in the log, or is kept in a row some replay works on, or can
\* never be accepted.  Pull only returns what lies beyond the cursor, so an
\* event that is in none of these places is gone.
NoStranding ==
    \A i \in Ids :
        i[2] <= cursor[i[1]] =>
            \/ i \in log
            \/ \E k \in Replays : <<i, k>> \in rows
            \/ attr[i].fault = "implausible"

\* An event that applied leaves no "waiting" row behind once the commands that
\* handled it have ended: such a row blocks `hub gc`, and nothing else clears it.
\* (Where one process runs: of two, one may apply what the other then flags.)
AppliedUnflagged ==
    Cardinality(cast.procs) = 1 /\ (\A p \in Procs : proc[p].phase = "idle") =>
        \A i \in log : <<i, "skew">> \notin rows /\ <<i, "chain">> \notin rows

\* The cursor of an origin only moves forward, whoever writes it.
CursorForward == [][\A o \in Origins : cursor'[o] >= cursor[o]]_vars

\* Replays, retries, crashes and concurrent commands included, the log grows as
\* CausalDelivery says: one event at a time, in seq order, after its project.
Delivery == INSTANCE CausalDelivery WITH
                needs <- [i \in Ids |-> attr[i].needs], delivered <- log

ImplementsDelivery == Delivery!Spec

\* When nothing on the hub is damaged, every event reaches the log, whatever
\* keys, approvals, clocks and projects it had to wait for.
Sound == \A i \in Ids : attr[i].fault \in {"none", "ahead"}

EverythingDelivered == Sound => <>[](\A i \in Ids : i \in log)

\* A fault of one origin does not delay the others: an origin whose events are
\* all acceptable, and point only at projects whose streams are, is consumed to
\* the end (the per-device fault isolation that ApplyEvents documents).  An
\* unreadable project payload is exempt: it aborts the whole batch.
Acceptable(i) == \A s \in 1..i[2] : attr[<<i[1], s>>].fault \in {"none", "ahead"}

Clean(o) ==
    \A s \in 1..StreamLen :
        /\ Acceptable(<<o, s>>)
        /\ \A j \in attr[<<o, s>>].needs : Acceptable(j) /\ attr[j].needs = {}

FaultIsolation ==
    (\A i \in Ids : attr[i].fault # "unreadable") =>
        \A o \in Origins : Clean(o) ~> (cursor[o] = StreamLen)

\* The types, and no stale flags.
PullInv == TypeOK /\ AppliedUnflagged
=============================================================================
