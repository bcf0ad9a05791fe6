------------------------------- MODULE Fleet -------------------------------
(***************************************************************************)
(* The devices of a workspace: which devices each one trusts, which epochs *)
(* of the workspace content key (WCK) it holds, and the commands that      *)
(* change either: init/join, devices approve, devices revoke, keys rotate  *)
(* and the sync cycle (pull and ingest grants, apply, rotate when owed,    *)
(* finish the containment of a revoke, push).                              *)
(*                                                                         *)
(* A key is named by its epoch and the device that minted it.  A log holds *)
(* the local events in order; the hub holds, per origin, the pushed prefix *)
(* with the key each event was sealed under.  The module keeps what trust  *)
(* and keys depend on; PullApply has the apply pipeline in detail.  Device *)
(* states revoked and lost behave alike and are one value.                 *)
(***************************************************************************)
EXTENDS Naturals, SequencesExt, FiniteSets

CONSTANTS
    Device,        \* the devices of the fleet
    Joiner,        \* those initialized with --join
    World,         \* the worlds to explore: where a run starts and what may happen in it
    MaxBusy        \* bound on devices inside a command at the same time

\* A world starts from fresh inits or from an established fleet, and bounds the
\* namespace edits, the rotations nobody owes (keys rotate, key age), the
\* mishaps (a process dies, a rotation or a rewrap returns an error), and the
\* pairs <<d, e>> for which d may approve, and may revoke, e.
ASSUME FleetAssumption ==
    /\ Joiner \subseteq Device
    /\ IsFiniteSet(Device)
    /\ World \subseteq [fresh : BOOLEAN, edits : Nat, rotations : Nat, mishaps : Nat,
                       approvals : SUBSET (Device \X Device), revokes : SUBSET (Device \X Device)]

VARIABLES
    trust,     \* devices.trust_state: each device's table of the others
    held,      \* workspace_keys with origin
    waits,     \* key_grant_waits
    owed,      \* the wck_rotation_pending marker
    contain,   \* the revoke_containment_pending marker
    log,       \* each device's own events
    hub,       \* what the hub holds of each origin
    seen,      \* pull cursors
    quar,      \* events quarantined because their signer was not approved
    proc,      \* the command each device is executing
    left       \* what may still happen in this world

vars == <<trust, held, waits, owed, contain, log, hub, seen, quar, proc, left>>
keyvars == <<held, waits>>
trustvars == <<trust, owed, contain>>
streams == <<log, hub, seen, quar>>

Approving == {"approve", "pair"}
Idle == [at |-> "idle", cause |-> "none", todo |-> {}, who |-> "none", flag |-> FALSE]
None == [epoch |-> 0, by |-> "none"]

\* No command runs on d, and there is room for one more in the fleet.
Free(d) == proc[d] = Idle /\ Cardinality({e \in Device : proc[e] # Idle}) < MaxBusy

Goto(d, at) == proc' = [proc EXCEPT ![d].at = at]
Once(what, pair) == pair \in left[what] /\ left' = [left EXCEPT ![what] = @ \ {pair}]
Spend(what) == left[what] > 0 /\ left' = [left EXCEPT ![what] = @ - 1]

(***************************************************************************)
(* Keys.                                                                   *)
(***************************************************************************)
Keys(S) == {h.key : h \in S}
CurrentKeyEpoch(d) ==
    LET E == {h.key.epoch : h \in held[d]} \cup {0} IN CHOOSE n \in E : \A m \in E : m <= n
originRank(o) == IF o = "grant" THEN 2 ELSE 1
KeysAt(d, n) == {h \in held[d] : h.key.epoch = n}

\* The key of an epoch the fleet is meant to use: a granted key before a local
\* mint.  Held keys are ordered by key id and only a strictly higher rank
\* replaces the choice, so among equals one fixed key wins.
Preferred(S) == (CHOOSE h \in S : \A g \in S : originRank(g.origin) <= originRank(h.origin)).key
PushKey(d) == Preferred(KeysAt(d, CurrentKeyEpoch(d)))

\* RecordKeyEpoch: a row that exists keeps its origin; a wait of the epoch is
\* cleared by any key when it names no key, by the named key otherwise.
RecordKeyEpoch(d, new) ==
    /\ held' = [held EXCEPT ![d] = @ \cup {h \in new : h.key \notin Keys(held[d])}]
    /\ waits' = [waits EXCEPT ![d] = {w \in @ : \A h \in new :
                    h.key # w /\ (w.by = "none" => h.key.epoch # w.epoch)}]

HeldEpochs(d) == {h.key.epoch : h \in held[d]}

\* An approver that lacks an epoch, or has seen ciphertext it cannot read, may
\* not hand its incomplete key history to a new device.
checkEpochContiguity(d) ==
    CurrentKeyEpoch(d) = 0 \/ (HeldEpochs(d) = 1..CurrentKeyEpoch(d) /\ waits[d] = {})

(***************************************************************************)
(* Trust.                                                                  *)
(***************************************************************************)
ApprovedRecipients(d) == {e \in Device \ {d} : trust[d][e] = "approved"}
hasEnrolledDevices(d) == \E e \in Device : trust[d][e] \in {"approved", "revoked"}

\* Trust events need a currently approved signer; a grant needs one too once
\* any trust decision was made, and passes before that.
VerifiedTrust(d, e) == trust[d][e] = "approved"
VerifiedGrant(d, e) == trust[d][e] = "approved" \/ ~hasEnrolledDevices(d)

\* Mutation of SetWCKRotationPendingTx: only the device that revoked rotates.
SetWCKRotationPendingTxNever(d) == owed[d]

\* Learning of a revocation owes a rotation, when there is a key to replace.
SetWCKRotationPendingTx(d) == owed[d] \/ CurrentKeyEpoch(d) > 0

\* ApplyRemoteDeviceTrustTx and SetWCKRotationPendingTx in one transaction: a
\* device never flips itself, only pending or approved rows (and rows made for
\* the purpose) flip, and a flip owes a rotation when a key is held.
ApplyRevocations(d, targets) ==
    LET flip == {t \in targets \ {d} : trust[d][t] # "revoked"} IN
    /\ trust' = [trust EXCEPT ![d] = [e \in Device |-> IF e \in flip THEN "revoked" ELSE @[e]]]
    /\ owed' = [owed EXCEPT ![d] = IF flip = {} THEN @ ELSE SetWCKRotationPendingTx(d)]

(***************************************************************************)
(* init, join and the local edits.                                         *)
(***************************************************************************)
\* What init leaves behind: no key, and in the table of a joiner that pasted a
\* founder's pairing code that founder: approved when the fingerprint was
\* confirmed, pending otherwise.
runInit(pins) ==
    /\ trust = [d \in Device |-> [e \in Device |-> IF d \in Joiner /\ e \notin Joiner THEN pins[d] ELSE "none"]]
    /\ held = [d \in Device |-> {}] /\ log = [d \in Device |-> <<>>]
    /\ hub = [d \in Device |-> <<>>] /\ seen = [d \in Device |-> [e \in Device |-> 0]]

\* A fleet that finished pairing: f founded, approved and granted the first
\* key to everyone, all have synced and trust each other.
Established(f) ==
    LET first == [epoch |-> 1, by |-> f]
        grants == SetToSeq({[type |-> "grant", key |-> first, to |-> e] : e \in Device \ {f}})
    IN  /\ trust = [d \in Device |-> [e \in Device |-> IF d = e THEN "none" ELSE "approved"]]
        /\ held = [d \in Device |-> {[key |-> first, origin |-> IF d = f THEN "self" ELSE "grant"]}]
        /\ log = [d \in Device |-> IF d = f THEN grants ELSE <<>>]
        /\ hub = [d \in Device |-> [i \in 1..Len(log[d]) |-> [ev |-> log[d][i], key |-> None]]]
        /\ seen = [d \in Device |-> [e \in Device |-> IF e = f /\ d # f THEN Len(grants) ELSE 0]]

Init ==
    /\ left \in World
    /\ IF left.fresh THEN \E pins \in [Joiner -> {"pending", "approved"}] : runInit(pins)
                     ELSE \E f \in Device \ Joiner : Established(f)
    /\ waits = [d \in Device |-> {}]
    /\ owed = [d \in Device |-> FALSE] /\ contain = [d \in Device |-> {}]
    /\ quar = [d \in Device |-> {}]
    /\ proc = [d \in Device |-> Idle]

Edit(d) ==
    /\ Spend("edits")
    /\ log' = [log EXCEPT ![d] = Append(@, [type |-> "content"])]
    /\ UNCHANGED <<keyvars, trustvars, hub, seen, quar, proc>>

(***************************************************************************)
(* devices approve / enroll --approve: the trust row first, then one       *)
(* transaction per granted epoch, then the replay of the quarantine.       *)
(***************************************************************************)
SetDeviceTrustState(d, e, t) == trust' = [trust EXCEPT ![d][e] = t]

\* devices approve: only a row that exists, and that carries keys (a row made
\* by a synced revocation does not: it is revoked, never approved before).
approve(d, e) ==
    /\ Free(d) /\ d # e /\ trust[d][e] # "none"
    /\ checkEpochContiguity(d)
    /\ Once("approvals", <<d, e>>)
    /\ SetDeviceTrustState(d, e, "approved")
    /\ proc' = [proc EXCEPT ![d] = [Idle EXCEPT !.at = "grantAll", !.cause = "approve", !.who = e]]
    /\ UNCHANGED <<keyvars, owed, contain, streams>>

\* devices enroll --approve upserts the row with the keys it is given; pair
\* does it from the code the second device shows, on a founder only, and syncs
\* afterwards.
UpsertDevice(d, e) == trust' = [trust EXCEPT ![d][e] = "approved"]
runDeviceEnroll(d, e, cause) ==
    /\ Free(d) /\ d # e
    /\ checkEpochContiguity(d)
    /\ Once("approvals", <<d, e>>)
    /\ UpsertDevice(d, e)
    /\ proc' = [proc EXCEPT ![d] = [Idle EXCEPT !.at = "grantAll", !.cause = cause, !.who = e]]
    /\ UNCHANGED <<keyvars, owed, contain, streams>>
pair(d, e) == d \notin Joiner /\ runDeviceEnroll(d, e, "pair")

\* Mutation of mayFound: a joiner founds as well.
mayFoundAnyone(d, neverSynced) == CurrentKeyEpoch(d) = 0 /\ neverSynced

\* Only a device that did not join mints the first key, and in the push only
\* when nothing was ever seen on the hub; approving is the founder's word.
mayFound(d, neverSynced) == CurrentKeyEpoch(d) = 0 /\ d \notin Joiner /\ neverSynced

\* Without a key a joiner grants nothing and a founder founds; otherwise the
\* preferred key of every held epoch is granted.
grantWorkspaceKeyToApprovedDevice(d) ==
    LET e == proc[d].who
        founds == mayFound(d, TRUE)
        new == IF founds THEN {[key |-> [epoch |-> 1, by |-> d], origin |-> "self"]} ELSE {}
        all == held[d] \cup new
        best == {Preferred({h \in all : h.key.epoch = n}) : n \in {h.key.epoch : h \in all}}
    IN  /\ proc[d].at = "grantAll"
        /\ RecordKeyEpoch(d, new)
        /\ proc' = [proc EXCEPT ![d].at = "granting", ![d].todo = {<<k, e>> : k \in best}]
        /\ UNCHANGED <<trustvars, streams, left>>

\* One grant event, in a transaction of its own.
insertGrant(d) ==
    /\ proc[d].at = "granting"
    /\ \E g \in proc[d].todo :
        /\ log' = [log EXCEPT ![d] = Append(@, [type |-> "grant", key |-> g[1], to |-> g[2]])]
        /\ proc' = [proc EXCEPT ![d].todo = @ \ {g}]
    /\ UNCHANGED <<keyvars, trustvars, hub, seen, quar, left>>

replayedGrants(d, mine) == {q.ev.key : q \in {m \in mine : m.ev.type = "grant" /\ m.ev.to = d}}

\* The replay applies the quarantined events of the approved device: a
\* revocation flips its target, a grant is ingested by hand because the pull
\* cursor is past it.
replayQuarantinedEvents(d) ==
    LET e == proc[d].who
        mine == {q \in quar[d] : q.from = e}
        grants == replayedGrants(d, mine)
    IN  /\ proc[d].at = "granting" /\ proc[d].todo = {} /\ proc[d].cause \in Approving
        /\ ApplyRevocations(d, {q.ev.target : q \in {m \in mine : m.ev.type = "revoke"}})
        /\ RecordKeyEpoch(d, {[key |-> k, origin |-> "grant"] : k \in grants})
        /\ quar' = [quar EXCEPT ![d] = @ \ mine]
        /\ proc' = [proc EXCEPT ![d] = IF @.cause = "pair" THEN [Idle EXCEPT !.at = "sync"] ELSE Idle]
        /\ UNCHANGED <<contain, log, hub, seen, left>>

(***************************************************************************)
(* devices revoke/lost and keys rotate.                                    *)
(***************************************************************************)
markRevokeContainmentPendingTx(d, x) == contain' = [contain EXCEPT ![d] = @ \cup {x}]
clearRevokeContainmentPending(d, ids) == contain' = [contain EXCEPT ![d] = @ \ ids]

\* One transaction: the trust flip, the signed event, and the marker that
\* keeps the containment owed until rotation and rewrap are accounted for.
revoke(d, x) ==
    /\ Free(d) /\ x # d /\ trust[d][x] \notin {"none", "revoked"}
    /\ Once("revokes", <<d, x>>)
    /\ SetDeviceTrustState(d, x, "revoked")
    /\ markRevokeContainmentPendingTx(d, x)
    /\ log' = [log EXCEPT ![d] = Append(@, [type |-> "revoke", target |-> x])]
    /\ proc' = [proc EXCEPT ![d] = [Idle EXCEPT !.at = "rotate", !.cause = "revoke", !.who = x]]
    /\ UNCHANGED <<keyvars, owed, hub, seen, quar>>

keysRotate(d) ==
    /\ Free(d) /\ CurrentKeyEpoch(d) > 0
    /\ Spend("rotations")
    /\ proc' = [proc EXCEPT ![d] = [Idle EXCEPT !.at = "rotate", !.cause = "keys"]]
    /\ UNCHANGED <<keyvars, trustvars, streams>>

\* Rotate wraps to every approved recipient first, then records the epoch; the
\* grant events follow one by one (the grant a device makes to itself tells
\* nobody anything and is left out).
Rotate(d) ==
    LET k == [epoch |-> CurrentKeyEpoch(d) + 1, by |-> d] IN
    /\ proc[d].at = "rotate" /\ CurrentKeyEpoch(d) > 0
    /\ RecordKeyEpoch(d, {[key |-> k, origin |-> "self"]})
    /\ proc' = [proc EXCEPT ![d].at = "granting", ![d].todo = {<<k, e>> : e \in ApprovedRecipients(d)}]
    /\ UNCHANGED <<trustvars, streams, left>>

\* A revoke before any key exists has nothing to rotate.
skipRotation(d) ==
    /\ proc[d].at = "rotate" /\ CurrentKeyEpoch(d) = 0
    /\ Goto(d, "contain")
    /\ UNCHANGED <<keyvars, trustvars, streams, left>>

markWCKRotationPending(d) == owed' = [owed EXCEPT ![d] = TRUE]

\* Rotate returns an error, before the mint or between two grants.  A revoke
\* leaves the owed marker and goes on.
rotateWorkspaceKeyOnRevoke(d) ==
    /\ proc[d].at \in {"rotate", "granting"} /\ proc[d].cause = "revoke" /\ CurrentKeyEpoch(d) > 0
    /\ Spend("mishaps")
    /\ markWCKRotationPending(d)
    /\ proc' = [proc EXCEPT ![d].at = "contain", ![d].todo = {}]
    /\ UNCHANGED <<keyvars, trust, contain, streams>>

\* A sync that was retrying an owed rotation goes on too, unless the epoch
\* advanced; keys rotate, an age rotation and a half-done one end the command.
rotationFails(d) ==
    LET retrying == proc[d].cause = "sync" /\ proc[d].at = "rotate" /\ (proc[d].flag \/ contain[d] # {}) IN
    /\ proc[d].at \in {"rotate", "granting"} /\ proc[d].cause \in {"sync", "keys"}
    /\ Spend("mishaps")
    /\ IF retrying THEN markWCKRotationPending(d) /\ Goto(d, "contain")
                   ELSE proc' = [proc EXCEPT ![d] = Idle] /\ UNCHANGED owed
    /\ UNCHANGED <<keyvars, trust, contain, streams>>

\* Rotate returned.  Only this clears the owed marker: a newer epoch seen in a
\* pull does not prove that the revoked device was left out.
rotationDone(d) ==
    /\ proc[d].at = "granting" /\ proc[d].todo = {} /\ proc[d].cause \notin Approving
    /\ owed' = [owed EXCEPT ![d] = @ /\ proc[d].cause = "sync" /\ ~proc[d].flag]
    /\ IF proc[d].cause = "keys" THEN proc' = [proc EXCEPT ![d] = Idle] ELSE Goto(d, "contain")
    /\ UNCHANGED <<keyvars, trust, contain, streams, left>>

\* The rest of the containment: flag the secrets, rewrap the blobs, drop the
\* ack.  An error leaves the marker for the next sync.  The revoking command
\* clears its own device, a resumed containment every device it read.
revokeContainment(d, ok) ==
    /\ proc[d].at = "contain" /\ proc[d].cause = "revoke"
    /\ IF ok THEN clearRevokeContainmentPending(d, {proc[d].who}) /\ UNCHANGED left
             ELSE Spend("mishaps") /\ UNCHANGED contain
    /\ proc' = [proc EXCEPT ![d] = Idle]
    /\ UNCHANGED <<keyvars, trust, owed, streams>>

resumeRevokeContainment(d, ok) ==
    /\ proc[d].at = "contain" /\ proc[d].cause = "sync"
    /\ IF ok THEN clearRevokeContainmentPending(d, contain[d]) /\ UNCHANGED left
             ELSE contain[d] # {} /\ Spend("mishaps") /\ UNCHANGED contain
    /\ Goto(d, "push")
    /\ UNCHANGED <<keyvars, trust, owed, streams>>

(***************************************************************************)
(* The sync cycle.                                                         *)
(***************************************************************************)
Unread(d, e) == {i \in 1..Len(hub[e]) : i > seen[d][e]}
Grants(d, e) == {hub[e][i].ev.key : i \in {j \in Unread(d, e) : hub[e][j].ev.type = "grant" /\ hub[e][j].ev.to = d}}
Ingested(d) == {[key |-> k, origin |-> "grant"] :
                    k \in UNION {Grants(d, e) : e \in {f \in Device \ {d} : VerifiedGrant(d, f)}}}

\* First the grants of the whole batch are verified and ingested, then each
\* origin's stream is read up to the first event whose key is not held; the
\* missing key is noted, by epoch alone when no key of the epoch is held.
syncPull(d) ==
    LET keys == Keys(held[d] \cup Ingested(d))
        blocked(e) == {i \in Unread(d, e) : hub[e][i].ev.type # "grant" /\ hub[e][i].key \notin keys}
        first(e) == CHOOSE i \in blocked(e) : \A j \in blocked(e) : i <= j
        stop(e) == IF blocked(e) = {} THEN Len(hub[e]) ELSE first(e) - 1
        missing(e) == LET k == hub[e][first(e)].key IN
                      IF \E g \in keys : g.epoch = k.epoch THEN k ELSE [k EXCEPT !.by = "none"]
        others == Device \ {d}
    IN  /\ Free(d) \/ proc[d].at = "sync"
        /\ held' = [held EXCEPT ![d] = @ \cup {h \in Ingested(d) : h.key \notin Keys(@)}]
        /\ waits' = [waits EXCEPT ![d] =
                {w \in @ : w \notin keys /\ (w.by = "none" => \A g \in keys : g.epoch # w.epoch)}
                \cup {missing(e) : e \in {f \in others : blocked(f) # {}}}]
        /\ proc' = [proc EXCEPT ![d] = [Idle EXCEPT !.at = "apply", !.cause = "sync",
                !.flag = \A e \in others : Unread(d, e) = {},
                !.todo = {<<e, stop(e)>> : e \in {f \in others : stop(f) > seen[d][f]}}]]
        /\ UNCHANGED <<trustvars, streams, left>>

\* The events of one origin, as far as they were read.  A trust event or a
\* grant of a signer that is not approved is quarantined, and the cursor moves
\* over it.
applyStream(d) ==
    /\ proc[d].at = "apply"
    /\ \E s \in proc[d].todo :
        LET e == s[1]
            evs == {hub[e][i].ev : i \in {j \in Unread(d, e) : j <= s[2]}}
            revs == {v \in evs : v.type = "revoke"}
            grants == {v \in evs : v.type = "grant" /\ ~VerifiedGrant(d, e)}
            refused == grants \cup IF VerifiedTrust(d, e) THEN {} ELSE revs
        IN  /\ ApplyRevocations(d, IF VerifiedTrust(d, e) THEN {v.target : v \in revs} ELSE {})
            /\ quar' = [quar EXCEPT ![d] = @ \cup {[from |-> e, ev |-> v] : v \in refused}]
            /\ seen' = [seen EXCEPT ![d][e] = s[2]]
            /\ proc' = [proc EXCEPT ![d].todo = @ \ {s}]
    /\ UNCHANGED <<keyvars, contain, log, hub, left>>

\* Mutation of rotationOwing: switching off the age rotation switches off the
\* retry of an owed one.
rotationOwingContainOnly(d) == contain[d] # {}

rotationOwing(d) == owed[d] \/ contain[d] # {}

\* After the pull: rotate when a rotation is owed, a containment is pending or
\* the epoch is too old; a device without a key never rotates.  proc.flag
\* becomes what the marker read.
maybeRotateWorkspaceKey(d, aged) ==
    /\ proc[d].at = "apply" /\ proc[d].todo = {}
    /\ IF CurrentKeyEpoch(d) > 0 /\ (rotationOwing(d) \/ aged)
         THEN proc' = [proc EXCEPT ![d].at = "rotate", ![d].flag = owed[d]]
         ELSE Goto(d, IF CurrentKeyEpoch(d) = 0 THEN "contain" ELSE "push")
    /\ IF aged THEN CurrentKeyEpoch(d) > 0 /\ ~rotationOwing(d) /\ Spend("rotations") ELSE UNCHANGED left
    /\ UNCHANGED <<keyvars, trustvars, streams>>

LocalPendingEventsBySeq(d) == SubSeq(log[d], Len(hub[d]) + 1, Len(log[d]))

encryptEvents(events, key) ==
    [i \in 1..Len(events) |-> [ev |-> events[i], key |-> IF events[i].type = "grant" THEN None ELSE key]]

\* Without a key: found only if this device did not join, the pull saw an
\* empty hub and neither cursor ever moved; otherwise the push waits for a
\* grant.  With a key: seal everything but grants under the push key.  The push
\* cursor is the length of what the hub holds: a push repeated because the
\* process died before the cursor moved changes nothing there.
pushLocalEventsGated(d) ==
    LET neverSynced == proc[d].flag /\ hub[d] = <<>> /\ \A e \in Device : seen[d][e] = 0
        founds == mayFound(d, neverSynced)
        new == IF founds THEN {[key |-> [epoch |-> 1, by |-> d], origin |-> "self"]} ELSE {}
        key == IF founds THEN [epoch |-> 1, by |-> d] ELSE PushKey(d)
    IN  /\ proc[d].at = "push"
        /\ RecordKeyEpoch(d, new)
        /\ IF founds \/ CurrentKeyEpoch(d) > 0
             THEN hub' = [hub EXCEPT ![d] = @ \o encryptEvents(LocalPendingEventsBySeq(d), key)]
             ELSE UNCHANGED hub
        /\ proc' = [proc EXCEPT ![d] = Idle]
        /\ UNCHANGED <<trustvars, log, seen, quar, left>>

\* The process dies; what it committed stays.
Crash(d) ==
    /\ proc[d] # Idle /\ Spend("mishaps")
    /\ proc' = [proc EXCEPT ![d] = Idle]
    /\ UNCHANGED <<keyvars, trustvars, streams>>

SyncStep(d) ==
    \/ syncPull(d) \/ applyStream(d) \/ maybeRotateWorkspaceKey(d, FALSE)
    \/ pushLocalEventsGated(d)
CommandStep(d) ==
    \/ grantWorkspaceKeyToApprovedDevice(d) \/ insertGrant(d) \/ replayQuarantinedEvents(d)
    \/ Rotate(d) \/ skipRotation(d) \/ rotationDone(d) 
    \/ revokeContainment(d, TRUE) \/ resumeRevokeContainment(d, TRUE)

Next ==
    \E d \in Device :
        \/ Edit(d) \/ keysRotate(d)
        \/ \E e \in Device : approve(d, e) \/ runDeviceEnroll(d, e, "approve") \/ pair(d, e) \/ revoke(d, e)
        \/ SyncStep(d) \/ CommandStep(d)
        \/ maybeRotateWorkspaceKey(d, TRUE) \/ rotateWorkspaceKeyOnRevoke(d) \/ rotationFails(d)
        \/ revokeContainment(d, FALSE) \/ resumeRevokeContainment(d, FALSE) \/ Crash(d)

\* Operators issue commands when they like; a device that is up keeps syncing
\* (the run loop) and a command that was started goes on.  Starting a sync is
\* strongly fair only because MaxBusy makes devices wait for each other.
Spec ==
    /\ Init /\ [][Next]_vars
    /\ \A d \in Device : SF_vars(syncPull(d)) /\ WF_vars(SyncStep(d)) /\ WF_vars(CommandStep(d))

-----------------------------------------------------------------------------
Key == [epoch : Nat \ {0}, by : Device]
Event == [type : {"content"}] \cup [type : {"grant"}, key : Key, to : Device] \cup [type : {"revoke"}, target : Device]

\* Every variable stays in its type, and cursors inside their streams.
TypeOK ==
    /\ trust \in [Device -> [Device -> {"none", "pending", "approved", "revoked"}]]
    /\ \A d \in Device : \A h \in held[d] : h \in [key : Key, origin : {"self", "grant"}]
    /\ owed \in [Device -> BOOLEAN] /\ contain \in [Device -> SUBSET Device]
    /\ \A d \in Device :
        /\ log[d] \in Seq(Event) /\ Len(hub[d]) <= Len(log[d])
        /\ \A e \in Device : seen[d][e] <= Len(hub[e])
        /\ \A i \in 1..Len(hub[d]) : hub[d][i].ev = log[d][i]

\* What a device could unwrap: the keys it holds and those some log grants it.
Exposed(x) == Keys(held[x]) \cup
    {v.key : v \in UNION {{log[d][i] : i \in {j \in 1..Len(log[d]) : log[d][j].type = "grant" /\ log[d][j].to = x}} : d \in Device \ {x}}}

Quiet(d) == proc[d] = Idle /\ ~owed[d] /\ contain[d] = {} /\ Len(hub[d]) = Len(log[d]) /\ Ingested(d) \subseteq held[d]

Agreed(x) == \A d \in Device \ {x} : trust[d][x] = "revoked"

\* Once every other device has taken note of a revocation, owes nothing any
\* more, and has pushed and read all grants, nobody seals under a key the
\* revoked device can unwrap, whatever rotations failed, crashed, collided or
\* ran on devices that did not know yet (wck_rotation.go, revoke_containment.go).
RevokedLockedOut ==
    \A x \in Device :
        (Agreed(x) /\ \A d \in Device \ {x} : Quiet(d))
        => \A d \in Device \ {x} : held[d] # {} => PushKey(d) \notin Exposed(x)

\* A grant the pull cursor has passed is in the keyring, or still in the
\* quarantine that approving its signer replays: no order of approvals,
\* revocations, deferred streams and crashes loses a key that was granted.
GrantNeverLost ==
    \A d \in Device : \A e \in Device \ {d} : \A i \in 1..seen[d][e] :
        LET v == hub[e][i].ev IN
        (v.type = "grant" /\ v.to = d) => (v.key \in Keys(held[d]) \/ [from |-> e, ev |-> v] \in quar[d])

\* With one founder there is one first key, whoever syncs first, whatever is
\* approved before the first sync and wherever a process dies (the founder and
\* join gate of the push).
OneFoundingKey ==
    Cardinality(Device \ Joiner) = 1 =>
        Cardinality({k \in UNION {Keys(held[d]) : d \in Device} : k.epoch = 1}) <= 1

\* A fleet that agrees on a revocation does lock the device out in the end: no
\* rotation stays owed for ever, no mishap makes a device forget that it owes
\* one, and the grants of the new key get through to everyone.
EventuallyLockedOut ==
    \A x \in Device : <>[](Agreed(x) => \A d \in Device \ {x} : held[d] # {} => PushKey(d) \notin Exposed(x))

\* No key is founded twice or lost once granted.
KeysKept == TypeOK /\ OneFoundingKey /\ GrantNeverLost
=============================================================================
