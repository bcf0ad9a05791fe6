------------------------------ MODULE WipRefs ------------------------------
(***************************************************************************)
(* The work-in-progress recovery plane of one project.  Each device may    *)
(* push a snapshot of its uncommitted work to its own ref on the project's *)
(* origin; signed repo.wip.pushed and repo.wip.dropped events mirror those *)
(* refs into every device's device_wip table; wip drop and wip gc delete   *)
(* refs, on the word of that mirror, under a lease.                        *)
(*                                                                         *)
(* A sha is the number of a snapshot among its owner's, 0 standing for the *)
(* empty string; `date' has the committer dates bound into the shas.       *)
(* Events of one origin arrive in order, those of different origins in any *)
(* order.  Trust is one table: wip reads only who is revoked or lost.      *)
(***************************************************************************)
EXTENDS Naturals, Sequences, FiniteSets

CONSTANTS
    Laptop,        \* the devices
    Skew,          \* how far each device's clock is ahead
    Width,         \* HLC logical values per unit of physical time
    TTL,           \* wip gc --ttl
    MaxTime,       \* bound on the time that passes
    WipWorld       \* bounds: pushes, drops, sweeps, applies, mishaps, approvals; the
                   \* devices that push, that sweep, and that start revoked

ASSUME WipAssumption ==
    /\ Skew \in [Laptop -> Nat] /\ Width \in Nat \ {0} /\ TTL \in Nat
    /\ WipWorld \subseteq [pushes : Nat, drops : Nat, sweeps : Nat, applies : Nat, mishaps : Nat, approvals : Nat,
                           owners : SUBSET Laptop, sweepers : SUBSET Laptop, revoked : SUBSET Laptop]

VARIABLES
    ref,        \* the refs on origin, by owner
    date,       \* committer dates of the snapshots each device made
    row,        \* device_wip, by device and owner
    stream,     \* the wip events each device emitted
    taken,      \* how many events of each origin a device applied
    stamp,      \* the last HLC each device issued or observed
    wall,       \* physical time
    terminal,   \* devices whose trust state is revoked or lost
    orphans,    \* wip_gc_orphans, by device and owner
    wip,        \* the wip command each device is executing
    allow       \* what may still happen in this world

wipvars == <<ref, date, row, stream, taken, stamp, wall, terminal, orphans, wip, allow>>

larger(a, b) == IF a > b THEN a ELSE b
Quiet == [at |-> "idle", owner |-> "none", sha |-> 0, why |-> "none", todo |-> {}, read |-> <<>>, next |-> <<>>]
NoRow == [sha |-> 0, observed |-> 0, dropped |-> 0, droppedSha |-> 0]
NoOrphan == [sha |-> 0, first |-> 0]
TakeOne(what) == allow[what] > 0 /\ allow' = [allow EXCEPT ![what] = @ - 1]
Clock(d) == wall + Skew[d]
HLCPhysicalTime(h) == h \div Width
OlderThanTTL(d, t) == Clock(d) > t + TTL
Emit(d, e) ==
    LET h == larger(stamp[d] + 1, Clock(d) * Width) IN
    /\ stream' = [stream EXCEPT ![d] = Append(@, [type |-> e.type, owner |-> e.owner, sha |-> e.sha, hlc |-> h])]
    /\ taken' = [taken EXCEPT ![d][d] = @ + 1]
    /\ stamp' = [stamp EXCEPT ![d] = h]

WipInit ==
    /\ allow \in WipWorld
    /\ ref = [o \in Laptop |-> 0] /\ date = [o \in Laptop |-> <<>>]
    /\ row = [d \in Laptop |-> [o \in Laptop |-> NoRow]]
    /\ stream = [d \in Laptop |-> <<>>] /\ taken = [d \in Laptop |-> [o \in Laptop |-> 0]]
    /\ stamp = [d \in Laptop |-> 0] /\ wall = 0 /\ terminal = allow.revoked
    /\ orphans = [d \in Laptop |-> [o \in Laptop |-> NoOrphan]]
    /\ wip = [d \in Laptop |-> Quiet]

(***************************************************************************)
(* The mirror.                                                             *)
(***************************************************************************)
\* A push overwrites unless a newer observation is recorded.
UpsertDeviceWip(r, e) ==
    IF e.hlc >= r.observed THEN [r EXCEPT !.sha = e.sha, !.observed = e.hlc] ELSE r

\* A drop keeps the pair of the latest drop; of two at one time, the smaller sha.
TombstoneDeviceWip(r, e) ==
    IF e.hlc > r.dropped \/ (e.hlc = r.dropped /\ e.sha < r.droppedSha)
    THEN [r EXCEPT !.dropped = e.hlc, !.droppedSha = e.sha] ELSE r

Applied(r, e) == IF e.type = "pushed" THEN UpsertDeviceWip(r, e) ELSE TombstoneDeviceWip(r, e)

\* Mutation of deviceWipLivePredicate: only the times are compared.
deviceWipLivePredicateByTime(r) == r.observed > r.dropped

\* A drop under a lease proves only that its own sha is gone; a drop that found
\* the ref absent (sha 0) hides whatever is not newer.
deviceWipLivePredicate(r) ==
    \/ r.dropped = 0
    \/ r.observed > r.dropped
    \/ r.observed > 0 /\ r.droppedSha # 0 /\ r.sha # r.droppedSha

Known(r) == r # NoRow /\ deviceWipLivePredicate(r)

ShaAgnosticTombstoneRefs(d) ==
    {o \in Laptop : row[d][o].dropped > 0 /\ row[d][o].droppedSha = 0 /\ row[d][o].sha # 0}

\* A sync delivers the next event of another device.  The clock observes it.
DeliverWip(d, o) ==
    /\ d # o /\ taken[d][o] < Len(stream[o])
    /\ LET e == stream[o][taken[d][o] + 1] IN
       /\ row' = [row EXCEPT ![d][e.owner] = Applied(@, e)]
       /\ stamp' = [stamp EXCEPT ![d] = larger(@, e.hlc)]
    /\ taken' = [taken EXCEPT ![d][o] = @ + 1]
    /\ UNCHANGED <<ref, date, stream, wall, terminal, orphans, wip, allow>>

(***************************************************************************)
(* wip push: the snapshot lands on origin, then the event and the own row  *)
(* are recorded in one transaction.                                        *)
(***************************************************************************)
WipPush(d) ==
    /\ wip[d] = Quiet /\ d \in allow.owners /\ TakeOne("pushes")
    /\ date' = [date EXCEPT ![d] = Append(@, Clock(d))]
    /\ ref' = [ref EXCEPT ![d] = Len(date[d]) + 1]
    /\ wip' = [wip EXCEPT ![d] = [Quiet EXCEPT !.at = "pushed", !.sha = Len(date[d]) + 1]]
    /\ UNCHANGED <<row, stream, taken, stamp, wall, terminal, orphans>>

RecordPush(d) ==
    /\ wip[d].at = "pushed"
    /\ Emit(d, [type |-> "pushed", owner |-> d, sha |-> wip[d].sha])
    /\ row' = [row EXCEPT ![d][d] = Applied(@, stream'[d][Len(stream'[d])])]
    /\ wip' = [wip EXCEPT ![d] = Quiet]
    /\ UNCHANGED <<ref, date, wall, terminal, orphans, allow>>

(***************************************************************************)
(* wip show and wip apply: fetch the ref and refuse unless it is the sha   *)
(* the row promised.                                                       *)
(***************************************************************************)
WipApply(d, o) ==
    /\ wip[d] = Quiet /\ TakeOne("applies") /\ Known(row[d][o])
    /\ wip' = [wip EXCEPT ![d] = [Quiet EXCEPT !.at = "apply", !.owner = o, !.sha = row[d][o].sha]]
    /\ UNCHANGED <<ref, date, row, stream, taken, stamp, wall, terminal, orphans>>

fetchVerifiedWip(d) == {ref[wip[d].owner]} \cap {wip[d].sha}

Verified(d) ==
    /\ wip[d].at = "apply"
    /\ wip' = [wip EXCEPT ![d] = IF fetchVerifiedWip(d) = {} THEN Quiet
                                 ELSE [@ EXCEPT !.at = "applied", !.sha = CHOOSE s \in fetchVerifiedWip(d) : TRUE]]
    /\ UNCHANGED <<ref, date, row, stream, taken, stamp, wall, terminal, orphans, allow>>

Materialized(d) ==
    /\ wip[d].at = "applied" /\ wip' = [wip EXCEPT ![d] = Quiet]
    /\ UNCHANGED <<ref, date, row, stream, taken, stamp, wall, terminal, orphans, allow>>

(***************************************************************************)
(* wip drop, and the deletion it shares with wip gc.                       *)
(***************************************************************************)
WipDrop(d, o) ==
    /\ wip[d] = Quiet /\ TakeOne("drops")
    /\ Known(row[d][o]) /\ row[d][o].sha # 0
    /\ wip' = [wip EXCEPT ![d] = [Quiet EXCEPT !.at = "delete", !.owner = o, !.sha = row[d][o].sha, !.why = "explicit"]]
    /\ UNCHANGED <<ref, date, row, stream, taken, stamp, wall, terminal, orphans>>

\* The rest of a sweep, or nothing.
Continue(w) == IF w.why = "explicit" THEN Quiet ELSE [w EXCEPT !.at = "sweep", !.owner = "none", !.sha = 0]

LeaseHolds(d) == ref[wip[d].owner] = wip[d].sha

DeleteRef(d) ==
    /\ wip[d].at = "delete"
    /\ \/ /\ LeaseHolds(d)
          /\ ref' = [ref EXCEPT ![wip[d].owner] = 0]
          /\ wip' = [wip EXCEPT ![d].at = "record"]
       \/ /\ ~LeaseHolds(d)
          /\ wip' = [wip EXCEPT ![d].at = "look"] /\ UNCHANGED ref
    /\ UNCHANGED <<date, row, stream, taken, stamp, wall, terminal, orphans, allow>>

\* A refused lease: the ref is gone already, or its owner pushed a newer one.
LsRemoteRef(d) ==
    /\ wip[d].at = "look"
    /\ wip' = [wip EXCEPT ![d] = IF ref[@.owner] = 0 THEN [@ EXCEPT !.at = "record", !.sha = 0] ELSE Continue(@)]
    /\ UNCHANGED <<ref, date, row, stream, taken, stamp, wall, terminal, orphans, allow>>

dropWipRef(d) ==
    /\ wip[d].at = "record"
    /\ Emit(d, [type |-> "dropped", owner |-> wip[d].owner, sha |-> wip[d].sha])
    /\ row' = [row EXCEPT ![d][wip[d].owner] = Applied(@, stream'[d][Len(stream'[d])])]
    /\ wip' = [wip EXCEPT ![d] = Continue(@)]
    /\ UNCHANGED <<ref, date, wall, terminal, orphans, allow>>

(***************************************************************************)
(* wip gc: read the rows, enumerate origin, plan, corroborate each         *)
(* candidate, delete it, and store the orphan records last.                *)
(***************************************************************************)
SweepWipRefs(d, target) ==
    /\ wip[d] = Quiet /\ d \in allow.sweepers /\ TakeOne("sweeps")
    /\ wip' = [wip EXCEPT ![d] = [Quiet EXCEPT !.at = "plan", !.owner = target, !.read = row[d]]]
    /\ UNCHANGED <<ref, date, row, stream, taken, stamp, wall, terminal, orphans>>

Reapable(d, o, target) == o = d \/ o \in terminal \/ o = target

\* A live row nominates its ref once it is old and origin still has its sha.
\* Only a peer nobody revoked has to be named.
RowCandidates(d, rows, target) ==
    {[owner |-> o, sha |-> rows[o].sha, why |-> IF o \in {d, target} THEN "named" ELSE "terminal"] :
        o \in {o \in Laptop : /\ Known(rows[o]) /\ ref[o] # 0 /\ ref[o] = rows[o].sha
                              /\ OlderThanTTL(d, HLCPhysicalTime(rows[o].observed))
                              /\ Reapable(d, o, target)}}

\* Refs on origin without a live row, of owners whose refs may be reaped, unless
\* a drop that proved no sha may be hiding them.
OrphanRefs(d, rows, target) ==
    {o \in Laptop : /\ ref[o] # 0 /\ ~Known(rows[o]) /\ Reapable(d, o, target)
                    /\ o \notin ShaAgnosticTombstoneRefs(d)}

\* An orphan is timed from the first sweep that met it with this sha.
OrphanRecord(d, o) ==
    IF orphans[d][o].sha = ref[o] THEN orphans[d][o] ELSE [sha |-> ref[o], first |-> Clock(d)]

planWipGC(d) ==
    /\ wip[d].at = "plan"
    /\ LET rows == wip[d].read
           lone == OrphanRefs(d, rows, wip[d].owner)
           old == {o \in lone : orphans[d][o].sha = ref[o] /\ OlderThanTTL(d, orphans[d][o].first)}
       IN wip' = [wip EXCEPT ![d] = [Quiet EXCEPT !.at = "sweep",
              !.todo = RowCandidates(d, rows, wip[d].owner) \cup {[owner |-> o, sha |-> ref[o], why |-> "orphan"] : o \in old},
              !.next = [o \in Laptop |-> IF o \in lone THEN OrphanRecord(d, o) ELSE NoOrphan]]]
    /\ UNCHANGED <<ref, date, row, stream, taken, stamp, wall, terminal, orphans, allow>>

commitAgeExceeds(d, a) == OlderThanTTL(d, date[a.owner][a.sha])

\* The candidate must still be fetchable, old by the date bound into its sha,
\* and of a device that is still revoked when that was the reason.
Corroborated(d, a) ==
    ref[a.owner] # 0 /\ commitAgeExceeds(d, a) /\ (a.why = "terminal" => a.owner \in terminal)

Corroborate(d) ==
    /\ wip[d].at = "sweep"
    /\ \E a \in wip[d].todo :
          wip' = [wip EXCEPT ![d] = IF Corroborated(d, a)
                    THEN [@ EXCEPT !.at = "delete", !.owner = a.owner, !.sha = a.sha, !.why = a.why, !.todo = wip[d].todo \ {a}]
                    ELSE [@ EXCEPT !.todo = wip[d].todo \ {a}]]
    /\ UNCHANGED <<ref, date, row, stream, taken, stamp, wall, terminal, orphans, allow>>

SaveOrphans(d) ==
    /\ wip[d].at = "sweep" /\ wip[d].todo = {}
    /\ orphans' = [orphans EXCEPT ![d] = wip[d].next]
    /\ wip' = [wip EXCEPT ![d] = Quiet]
    /\ UNCHANGED <<ref, date, row, stream, taken, stamp, wall, terminal, allow>>

(***************************************************************************)
(* The environment: a command dies or gives up on a network error, time    *)
(* passes, a revoked device is approved again.                             *)
(***************************************************************************)
Abandon(d) ==
    /\ wip[d] # Quiet /\ TakeOne("mishaps") /\ wip' = [wip EXCEPT ![d] = Quiet]
    /\ UNCHANGED <<ref, date, row, stream, taken, stamp, wall, terminal, orphans>>

Pass ==
    /\ wall < MaxTime /\ wall' = wall + 1
    /\ UNCHANGED <<ref, date, row, stream, taken, stamp, terminal, orphans, wip, allow>>

ApproveAgain(o) ==
    /\ o \in terminal /\ TakeOne("approvals") /\ terminal' = terminal \ {o}
    /\ UNCHANGED <<ref, date, row, stream, taken, stamp, wall, orphans, wip>>

WipNext ==
    \/ \E d \in Laptop :
          \/ WipPush(d) \/ RecordPush(d) \/ Verified(d) \/ Materialized(d)
          \/ DeleteRef(d) \/ LsRemoteRef(d) \/ dropWipRef(d)
          \/ planWipGC(d) \/ Corroborate(d) \/ SaveOrphans(d) \/ Abandon(d) \/ ApproveAgain(d)
          \/ \E o \in Laptop : DeliverWip(d, o) \/ WipApply(d, o) \/ WipDrop(d, o)
          \/ \E target \in Laptop \cup {"none"} : SweepWipRefs(d, target)
    \/ Pass

WipSpec == WipInit /\ [][WipNext]_wipvars

(***************************************************************************)
(* Properties.                                                             *)
(***************************************************************************)
\* The mirror does not depend on the order in which the streams of different
\* devices arrive: two devices that applied the same events of everybody have
\* the same row for every owner (UpsertDeviceWipTx, TombstoneDeviceWipTx).
MirrorsAgree == \A d, e \in Laptop : taken[d] = taken[e] => row[d] = row[e]

\* A recovery snapshot that is on origin and that a device knows of is listed
\* by it, or hidden by a drop that proved no sha, which wip gc honours: a lease
\* that removed one snapshot never hides the one pushed after it.
SnapshotNotBuried ==
    \A d, o \in Laptop : ref[o] # 0 /\ row[d][o].sha = ref[o] =>
        Known(row[d][o]) \/ o \in ShaAgnosticTombstoneRefs(d)

\* A deletion on origin removes exactly the snapshot its command decided on:
\* the one the user named, or one older than the TTL by its own commit date,
\* of a device's own, of a named peer, or of a revoked one.
OnlyAgedSnapshotsReaped ==
    [][\A o \in Laptop : ref[o] # 0 /\ ref'[o] = 0 =>
        \E d \in Laptop : /\ wip[d].at = "delete" /\ wip[d].owner = o /\ wip[d].sha = ref[o]
                          /\ wip[d].why = "explicit" \/ OlderThanTTL(d, date[o][ref[o]])]_wipvars

\* What wip show and wip apply hand to the user is a snapshot some signed
\* record announced, also when its owner pushes while the command runs.
AppliedWasAnnounced ==
    \A d \in Laptop : wip[d].at = "applied" =>
        \E i \in 1..Len(stream[wip[d].owner]) :
            stream[wip[d].owner][i].type = "pushed" /\ stream[wip[d].owner][i].sha = wip[d].sha

\* A sweep never decides to destroy, as an orphan, a snapshot its mirror knows
\* and hides by a drop that proved no sha: it may be a newer push whose clock
\* was behind.  What a sync delivers after the plan comes too late for this.
HiddenNotReaped ==
    [][\A d \in Laptop : \A a \in wip'[d].todo \ wip[d].todo :
        a.why = "orphan" => ~(row[d][a.owner].sha = a.sha /\ a.owner \in
            {o \in Laptop : row[d][o].dropped > 0 /\ row[d][o].droppedSha = 0})]_wipvars

\* What the devices say of each other's snapshots agrees, is complete and was
\* announced (device_wip.go, internal/cli/wip.go).
SnapshotsHonest == MirrorsAgree /\ SnapshotNotBuried /\ AppliedWasAnnounced
=============================================================================
