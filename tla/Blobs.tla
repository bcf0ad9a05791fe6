------------------------------- MODULE Blobs -------------------------------
(***************************************************************************)
(* The encrypted blobs of one project, an env profile or a draft: written  *)
(* to the local cache by a capture, named by an event and a row, put on    *)
(* the hub before the event, fetched by the peers, re-encrypted when a     *)
(* device is revoked, and reclaimed by three collectors: the cache's       *)
(* gcUnreferencedBlobs at the end of a sync, the deletion of superseded    *)
(* ciphertext after a rewrap, and hub gc.                                  *)
(*                                                                         *)
(* A ref is the number of a blob in `made', which records the value inside *)
(* (the number of the capture) and whether the device being revoked can    *)
(* read it.  Encryption is randomized, so no two encryptions share a ref.  *)
(* The hub is an object store: every put, push and delete is a step.       *)
(***************************************************************************)
EXTENDS Integers, Sequences, FiniteSets

CONSTANTS
    Host,          \* the devices that stay, numbered: the order breaks HLC ties
    Grace,         \* hub gc --grace-window
    BlobWorld      \* bounds: captures, revokes and hub gcs by host, rotations, mishaps,
                   \* time; the kind of project; whether a revoke has a hub

ASSUME BlobAssumption ==
    /\ Host \subseteq Nat /\ IsFiniteSet(Host) /\ Grace \in Nat \ {0}
    /\ BlobWorld \subseteq [kind : {"env", "draft"}, captures : [Host -> Nat], revokes : SUBSET Host, rotates : Nat,
                            gcs : SUBSET Host, mishaps : Nat, ticks : Nat, direct : BOOLEAN]

VARIABLES
    made,       \* every blob ever encrypted
    blobs,      \* the hub's blobs: ref -> last modified
    stored,     \* the sequence numbers of each host's events that are on the hub
    told,       \* each host's own events
    sent,       \* the push watermark
    got,        \* the pull cursors
    rows,       \* secret_bindings or draft_snapshots: the refs a host keeps, with the
                \* coordinates of the event that brought them
    cache,      \* the blobs directory
    doomed,     \* pending_hub_deletes
    flag,       \* needs_rotation
    knows,      \* who has the device revoked
    contains,   \* revoke_containment_pending
    job,        \* the sync, revoke or gc a host executes
    hand,       \* the capture a host executes beside it
    tick,       \* time
    budget,     \* what may still happen in this world
    valued,       \* history: values a host valued when it learned of the revocation
    raced,      \* history: blobs lost in a window the code leaves open
    queued      \* history: refs queued for deletion and not put on the hub since

blobvars == <<made, blobs, stored, told, sent, got, rows, cache, doomed, flag, knows, contains, job, hand, tick, budget, valued, raced, queued>>
hubvars == <<blobs, stored, queued>>
localvars == <<rows, cache, flag, told>>
history == <<valued, raced>>

NoJob == [at |-> "idle", cmd |-> "none", todo |-> {}, old |-> 0, new |-> 0, events |-> {}, base |-> {}, whole |-> TRUE, now |-> 0]
NoHand == [at |-> "idle", ref |-> 0, rotate |-> FALSE]
Refs(S) == {r.ref : r \in S}
Step(h, at) == job' = [job EXCEPT ![h].at = at]
SpendB(what) == budget[what] > 0 /\ budget' = [budget EXCEPT ![what] = @ - 1]

BlobInit ==
    /\ budget \in BlobWorld
    /\ made = <<>> /\ blobs = <<>>
    /\ stored = [h \in Host |-> {}] /\ told = [h \in Host |-> <<>>]
    /\ sent = [h \in Host |-> 0] /\ got = [h \in Host |-> [o \in Host |-> 0]]
    /\ rows = [h \in Host |-> {}] /\ cache = [h \in Host |-> {}] /\ doomed = [h \in Host |-> {}]
    /\ flag = [h \in Host |-> FALSE] /\ knows = [h \in Host |-> FALSE] /\ contains = [h \in Host |-> FALSE]
    /\ job = [h \in Host |-> NoJob] /\ hand = [h \in Host |-> NoHand] /\ tick = 0
    /\ valued = [h \in Host |-> {}] /\ raced = {} /\ queued = {}

(***************************************************************************)
(* Rows and events.                                                        *)
(***************************************************************************)
envCoordLess(r, e) == r.hlc < e.hlc \/ (r.hlc = e.hlc /\ r.dev < e.dev)
LatestDraftSnapshot(S) == {r \in S : \A s \in S : ~envCoordLess(r, s)}

\* An env profile keeps the latest binding; draft snapshots accumulate.
RecordAll(S, E) == IF budget.kind = "env" THEN LatestDraftSnapshot(S \cup E) ELSE S \cup E

\* A new event is stamped above all its device has seen.
StampB(h) ==
    LET H == {0} \cup {told[h][i].hlc : i \in 1..Len(told[h])} \cup
             UNION {{told[o][i].hlc : i \in 1..got[h][o]} : o \in Host \ {h}}
    IN 1 + CHOOSE n \in H : \A m \in H : m <= n
EventB(h, type, ref) == [type |-> type, ref |-> ref, hlc |-> StampB(h), dev |-> h]

\* Replacing the bindings of a profile carries their rotation flag over.
UpsertEnvProfileTx(needed) == needed

\* Event and row in one transaction.
InsertNaming(h, ref) ==
    LET e == EventB(h, "blob", ref) IN
    /\ told' = [told EXCEPT ![h] = Append(@, e)]
    /\ rows' = [rows EXCEPT ![h] = RecordAll(@, {e})]
    /\ flag' = [flag EXCEPT ![h] = UpsertEnvProfileTx(@)]

(***************************************************************************)
(* env capture, draft snapshot create, env rotate.                         *)
(***************************************************************************)
\* Encrypt to the approved devices and write the cache.
captureEnvProfile(h, rotate) ==
    /\ hand[h] = NoHand /\ budget.captures[h] > 0
    /\ IF rotate THEN budget.rotates > 0 /\ flag[h] ELSE TRUE
    /\ budget' = [budget EXCEPT !.captures[h] = @ - 1, !.rotates = @ - IF rotate THEN 1 ELSE 0]
    /\ made' = Append(made, [value |-> Len(made) + 1, open |-> ~knows[h]])
    /\ cache' = [cache EXCEPT ![h] = @ \cup {Len(made) + 1}]
    /\ hand' = [hand EXCEPT ![h] = [at |-> "written", ref |-> Len(made) + 1, rotate |-> rotate]]
    /\ UNCHANGED <<hubvars, told, sent, got, rows, doomed, flag, knows, contains, job, tick, history>>

CommitCapture(h) ==
    /\ hand[h].at = "written"
    /\ InsertNaming(h, hand[h].ref)
    /\ hand' = [hand EXCEPT ![h] = IF @.rotate THEN [@ EXCEPT !.at = "clear"] ELSE NoHand]
    /\ UNCHANGED <<made, hubvars, sent, got, cache, doomed, knows, contains, job, tick, budget, history>>

ClearRotationForProject(h) ==
    /\ hand[h].at = "clear" /\ flag' = [flag EXCEPT ![h] = FALSE]
    /\ valued' = [valued EXCEPT ![h] = {}] /\ hand' = [hand EXCEPT ![h] = NoHand]
    /\ UNCHANGED <<made, hubvars, told, sent, got, rows, cache, doomed, knows, contains, job, tick, budget, raced>>

(***************************************************************************)
(* The first half of a sync, and of hub gc: pull, apply, fetch the blobs.  *)
(***************************************************************************)
\* The chain admits the events up to the first one missing.
Chained(o) == {n \in 0..Len(told[o]) : 1..n \subseteq stored[o]}
Reach(o) == CHOOSE n \in Chained(o) : \A m \in Chained(o) : m <= n
Arrived(h) == UNION {{told[o][i] : i \in (got[h][o] + 1)..Reach(o)} : o \in Host \ {h}}

pullAndApply(h, cmd) ==
    LET new == Arrived(h)
        named == {e \in new : e.type = "blob"}
        revocations == {e \in new : e.type = "revoked"}
        earlier == {e \in named : \A r \in revocations : envCoordLess(e, r)}
        then == RecordAll(rows[h], earlier)
        \* a revocation flags the bindings that are there when it applies
        marked == IF revocations = {} THEN flag[h] ELSE budget.kind = "env" /\ then # {}
    IN
    /\ job[h] = NoJob
    /\ got' = [got EXCEPT ![h] = [o \in Host |-> IF o = h THEN 0 ELSE Reach(o)]]
    /\ rows' = [rows EXCEPT ![h] = RecordAll(@, named)]
    /\ flag' = [flag EXCEPT ![h] = IF rows'[h] = IF revocations = {} THEN rows[h] ELSE then
                                   THEN marked ELSE UpsertEnvProfileTx(marked)]
    /\ valued' = [valued EXCEPT ![h] = IF revocations = {} THEN @ ELSE {made[r.ref].value : r \in then}]
    /\ knows' = [knows EXCEPT ![h] = @ \/ revocations # {}]
    /\ job' = [job EXCEPT ![h] = [NoJob EXCEPT !.at = "fetch", !.cmd = cmd, !.todo = Refs(named) \ cache[h],
                            !.whole = \A o \in Host \ {h} : stored[o] \subseteq 1..Reach(o)]]
    /\ UNCHANGED <<made, hubvars, told, sent, cache, doomed, contains, hand, tick, raced>>

\* A sync that finds nothing to pull, push, delete or collect changes nothing.
Useful(h) ==
    \/ Arrived(h) # {} \/ sent[h] < Len(told[h]) \/ contains[h] \/ doomed[h] # {}
    \/ cache[h] \ Refs(rows[h]) # {}

SyncBlobs(h) == Useful(h) /\ pullAndApply(h, "sync") /\ UNCHANGED budget

HubGC(h) == h \in budget.gcs /\ budget' = [budget EXCEPT !.gcs = @ \ {h}] /\ pullAndApply(h, "gc")

\* What is missing from the hub is counted, and never asked for again.
pullReferencedBlobs(h) ==
    /\ job[h].at = "fetch"
    /\ cache' = [cache EXCEPT ![h] = @ \cup (job[h].todo \cap DOMAIN blobs)]
    /\ job' = [job EXCEPT ![h].at = IF job[h].cmd = "gc" THEN "gate" ELSE "resume", ![h].todo = {}]
    /\ UNCHANGED <<made, hubvars, told, sent, got, rows, doomed, flag, knows, contains, hand, tick, budget, history>>

(***************************************************************************)
(* Revocation: trust, flags, and re-encryption of every ref a row names.   *)
(***************************************************************************)
revokeBlobs(h) ==
    /\ job[h] = NoJob /\ h \in budget.revokes /\ ~knows[h]
    /\ budget' = [budget EXCEPT !.revokes = @ \ {h}]
    /\ knows' = [knows EXCEPT ![h] = TRUE] /\ contains' = [contains EXCEPT ![h] = TRUE]
    /\ told' = [told EXCEPT ![h] = Append(@, EventB(h, "revoked", 0))]
    /\ valued' = [valued EXCEPT ![h] = {made[r.ref].value : r \in rows[h]}]
    /\ job' = [job EXCEPT ![h] = [NoJob EXCEPT !.at = "mark", !.cmd = "revoke"]]
    /\ UNCHANGED <<made, hubvars, sent, got, rows, cache, doomed, flag, hand, tick, raced>>

\* The sync's resumeRevokeContainment does nothing unless a revoke left its marker.
\* The events this cycle will push have been read by then.
resumeContainment(h) ==
    /\ job[h].at = "resume"
    /\ job' = [job EXCEPT ![h].at = IF contains[h] THEN "mark" ELSE "put",
                          ![h].events = (sent[h] + 1)..Len(told[h])]
    /\ UNCHANGED <<made, hubvars, told, sent, got, localvars, doomed, knows, contains, hand, tick, budget, history>>

MarkEncryptedBindingsNeedingRotation(h) ==
    /\ job[h].at = "mark"
    /\ flag' = [flag EXCEPT ![h] = budget.kind = "env" /\ rows[h] # {}]
    /\ job' = [job EXCEPT ![h].at = "rewrap", ![h].todo = Refs(rows[h])]
    /\ UNCHANGED <<made, hubvars, told, sent, got, rows, cache, doomed, knows, contains, hand, tick, budget, history>>

HasHub(h) == job[h].cmd = "sync" \/ budget.direct

\* A ref in neither the cache nor the hub is skipped.
rewrapBlob(h, r) ==
    /\ job[h].at = "rewrap" /\ r \in job[h].todo
    /\ \/ /\ r \in cache[h] \/ (HasHub(h) /\ r \in DOMAIN blobs)
          /\ made' = Append(made, [value |-> made[r].value, open |-> FALSE])
          /\ cache' = [cache EXCEPT ![h] = @ \cup {Len(made) + 1}]
          /\ job' = [job EXCEPT ![h].at = IF r \in Refs(rows[h]) THEN "emit" ELSE "repoint", ![h].todo = @ \ {r},
                                ![h].old = r, ![h].new = Len(made) + 1]
       \/ /\ r \notin cache[h] /\ ~(HasHub(h) /\ r \in DOMAIN blobs)
          /\ job' = [job EXCEPT ![h].todo = @ \ {r}] /\ UNCHANGED <<made, cache>>
    /\ UNCHANGED <<hubvars, told, sent, got, rows, doomed, flag, knows, contains, hand, tick, budget, history>>

emitSuperseding(h) ==
    /\ job[h].at = "emit" /\ InsertNaming(h, job[h].new) /\ Step(h, "repoint")
    /\ UNCHANGED <<made, hubvars, sent, got, cache, doomed, knows, contains, hand, tick, budget, history>>

UpdateBlobRef(h) ==
    /\ job[h].at = "repoint"
    /\ rows' = [rows EXCEPT ![h] = {IF r.ref = job[h].old THEN [r EXCEPT !.ref = job[h].new] ELSE r : r \in @}]
    /\ Step(h, IF HasHub(h) THEN "putnew" ELSE "queue")
    /\ UNCHANGED <<made, hubvars, told, sent, got, cache, doomed, flag, knows, contains, hand, tick, budget, history>>

\* A put of a blob that is there refreshes its time.
PutBlobs(refs) ==
    /\ blobs' = [r \in DOMAIN blobs \cup refs |-> IF r \in refs THEN tick ELSE blobs[r]]
    /\ queued' = queued \ refs
DeleteBlob(r) == blobs' = [s \in DOMAIN blobs \ {r} |-> blobs[s]] /\ UNCHANGED queued
OwnNaming(h, r) == {i \in 1..Len(told[h]) : told[h][i].ref = r}

\* rewrapHubCleanup: put the new blob, push the superseding event, and delete
\* the old blob once no row names it.  A failure keeps the old one.
rewrapPut(h) ==
    /\ job[h].at = "putnew" /\ PutBlobs({job[h].new}) /\ Step(h, "publish")
    /\ UNCHANGED <<made, stored, told, sent, got, localvars, doomed, knows, contains, hand, tick, budget, history>>

rewrapPush(h) ==
    /\ job[h].at = "publish"
    /\ stored' = [stored EXCEPT ![h] = @ \cup OwnNaming(h, job[h].new)] /\ Step(h, "unlink")
    /\ UNCHANGED <<made, blobs, queued, told, sent, got, localvars, doomed, knows, contains, hand, tick, budget, history>>

rewrapDelete(h) ==
    /\ job[h].at = "unlink"
    /\ IF job[h].old \in Refs(rows[h]) THEN UNCHANGED <<blobs, queued>> ELSE DeleteBlob(job[h].old)
    /\ Step(h, "rewrap")
    /\ UNCHANGED <<made, stored, told, sent, got, localvars, doomed, knows, contains, hand, tick, budget, history>>

rewrapFails(h) ==
    /\ job[h].at \in {"putnew", "publish", "unlink"} /\ SpendB("mishaps") /\ Step(h, "rewrap")
    /\ UNCHANGED <<made, hubvars, told, sent, got, localvars, doomed, knows, contains, hand, tick, history>>

QueuePendingHubDelete(h) ==
    /\ job[h].at = "queue" /\ doomed' = [doomed EXCEPT ![h] = @ \cup {job[h].old}] /\ Step(h, "rewrap")
    /\ queued' = queued \cup {job[h].old}
    /\ UNCHANGED <<made, blobs, stored, told, sent, got, localvars, knows, contains, hand, tick, budget, history>>

clearContainment(h) ==
    /\ job[h].at = "rewrap" /\ job[h].todo = {}
    /\ contains' = [contains EXCEPT ![h] = FALSE]
    /\ job' = [job EXCEPT ![h] = IF @.cmd = "sync" THEN [@ EXCEPT !.at = "put"] ELSE NoJob]
    /\ UNCHANGED <<made, hubvars, told, sent, got, localvars, doomed, knows, hand, tick, budget, history>>

(***************************************************************************)
(* The second half of a sync: blobs before events, then the queued         *)
(* deletions, then the local cache.                                        *)
(***************************************************************************)
ToPush(h) == {told[h][i].ref : i \in {i \in job[h].events : told[h][i].type = "blob"}}

\* A blob that is not in the cache fails the sync.
pushReferencedBlobs(h) ==
    /\ job[h].at = "put"
    /\ \/ ToPush(h) \subseteq cache[h] /\ PutBlobs(ToPush(h)) /\ Step(h, "push")
       \/ ~(ToPush(h) \subseteq cache[h]) /\ job' = [job EXCEPT ![h] = NoJob] /\ UNCHANGED <<blobs, queued>>
    /\ UNCHANGED <<made, stored, told, sent, got, localvars, doomed, knows, contains, hand, tick, budget, history>>

PushNaming(h) ==
    /\ job[h].at = "push"
    /\ stored' = [stored EXCEPT ![h] = @ \cup job[h].events] /\ Step(h, "watermark")
    /\ UNCHANGED <<made, blobs, queued, told, sent, got, localvars, doomed, knows, contains, hand, tick, budget, history>>

AdvancePushSeqCursor(h) ==
    /\ job[h].at = "watermark"
    /\ sent' = [sent EXCEPT ![h] = @ + Cardinality(job[h].events)]
    /\ job' = [job EXCEPT ![h].at = "drain", ![h].todo = doomed[h], ![h].events = {}]
    /\ UNCHANGED <<made, hubvars, told, got, localvars, doomed, knows, contains, hand, tick, budget, history>>

\* Mutation of drainPendingHubDelete: the entry is cleared, delete or not.
drainPendingHubDeleteForgets(h, r) ==
    /\ job[h].at = "drain" /\ r \in job[h].todo
    /\ (DeleteBlob(r) /\ UNCHANGED budget) \/ (SpendB("mishaps") /\ UNCHANGED <<blobs, queued>>)
    /\ doomed' = [doomed EXCEPT ![h] = @ \ {r}] /\ job' = [job EXCEPT ![h].todo = @ \ {r}]
    /\ UNCHANGED <<made, stored, told, sent, got, localvars, knows, contains, hand, tick, history>>

drainPendingHubDelete(h, r) ==
    /\ job[h].at = "drain" /\ r \in job[h].todo /\ job' = [job EXCEPT ![h].todo = @ \ {r}]
    /\ \/ /\ IF r \in Refs(rows[h]) THEN UNCHANGED <<blobs, queued>> ELSE DeleteBlob(r)
          /\ doomed' = [doomed EXCEPT ![h] = @ \ {r}] /\ UNCHANGED budget
       \/ r \notin Refs(rows[h]) /\ SpendB("mishaps") /\ UNCHANGED <<blobs, queued, doomed>>
    /\ UNCHANGED <<made, stored, told, sent, got, localvars, knows, contains, hand, tick, history>>

\* gcUnreferencedBlobs reads which refs the rows name, and later removes the rest.
BlobRefCount(h) ==
    /\ job[h].at = "drain" /\ job[h].todo = {}
    /\ job' = [job EXCEPT ![h].at = "reap", ![h].base = Refs(rows[h])]
    /\ UNCHANGED <<made, hubvars, told, sent, got, localvars, doomed, knows, contains, hand, tick, budget, history>>

\* The windows it leaves: a capture wrote its blob and its row is not, or was not
\* when the rows were read, committed; an event still to be pushed names a blob
\* whose row a later event replaced.
CaptureWindow(h) == {hand[h].ref} \cup (Refs(rows[h]) \ job[h].base)
Superseded(h) ==
    {e.ref : e \in {told[h][i] : i \in {i \in (sent[h] + 1)..Len(told[h]) : \E r \in rows[h] : envCoordLess(told[h][i], r)}}}

gcUnreferencedBlobs(h) ==
    /\ job[h].at = "reap"
    /\ cache' = [cache EXCEPT ![h] = @ \cap job[h].base]
    /\ raced' = raced \cup ((cache[h] \ job[h].base) \cap (CaptureWindow(h) \cup Superseded(h)))
    /\ job' = [job EXCEPT ![h] = NoJob]
    /\ UNCHANGED <<made, hubvars, told, sent, got, rows, doomed, flag, knows, contains, hand, tick, budget, valued>>

(***************************************************************************)
(* hub gc, after its pull.                                                 *)
(***************************************************************************)
refuseIfIncompleteView(h) == ~job[h].whole

\* Prune the draft rows to the latest, list the hub, and take what is neither
\* named by a row nor young.
gcMark(h) ==
    /\ job[h].at = "gate"
    /\ \/ /\ refuseIfIncompleteView(h) /\ job' = [job EXCEPT ![h] = NoJob] /\ UNCHANGED rows
       \/ /\ ~refuseIfIncompleteView(h)
          /\ rows' = [rows EXCEPT ![h] = LatestDraftSnapshot(@)]
          /\ job' = [job EXCEPT ![h].at = "sweep", ![h].now = tick,
                                ![h].todo = {r \in DOMAIN blobs \ Refs(rows'[h]) : tick - blobs[r] >= Grace}]
    /\ UNCHANGED <<made, hubvars, told, sent, got, cache, doomed, flag, knows, contains, hand, tick, budget, history>>

\* Mutation of StillOld: the listing is trusted.
StillOldListed(h, r) == TRUE

\* The object is looked at again before it is deleted: gone, or put again?
StillOld(h, r) == r \in DOMAIN blobs /\ job[h].now - blobs[r] >= Grace

gcStat(h, r) ==
    /\ job[h].at = "sweep" /\ r \in job[h].todo
    /\ job' = [job EXCEPT ![h].todo = @ \ {r}, ![h].old = r, ![h].at = IF StillOld(h, r) THEN "delete" ELSE "sweep",
                          ![h].base = {blobs[s] : s \in {r} \cap DOMAIN blobs}]
    /\ UNCHANGED <<made, hubvars, told, sent, got, localvars, doomed, knows, contains, hand, tick, budget, history>>

gcDelete(h) ==
    /\ job[h].at = "delete" /\ DeleteBlob(job[h].old) /\ Step(h, "sweep")
    \* put again between the look and the delete
    /\ raced' = raced \cup {r \in {job[h].old} \cap DOMAIN blobs : blobs[r] \notin job[h].base}
    /\ UNCHANGED <<made, stored, told, sent, got, localvars, doomed, knows, contains, hand, tick, budget, valued>>

gcDone(h) ==
    /\ job[h].at = "sweep" /\ job[h].todo = {} /\ job' = [job EXCEPT ![h] = NoJob]
    /\ UNCHANGED <<made, hubvars, told, sent, got, localvars, doomed, knows, contains, hand, tick, budget, history>>

(***************************************************************************)
(* External: processes die, time passes.  A push follows its puts, and hub *)
(* gc's listing its pull, well within the grace window.                    *)
(***************************************************************************)
CrashBlobs(h) ==
    /\ job[h] # NoJob \/ hand[h] # NoHand
    /\ SpendB("mishaps")
    /\ \/ job[h] # NoJob /\ job' = [job EXCEPT ![h] = NoJob] /\ UNCHANGED hand
       \/ hand[h] # NoHand /\ hand' = [hand EXCEPT ![h] = NoHand] /\ UNCHANGED job
    /\ UNCHANGED <<made, hubvars, told, sent, got, localvars, doomed, knows, contains, tick, history>>

TickBlobs ==
    /\ SpendB("ticks") /\ tick' = tick + 1
    /\ \A h \in Host : job[h].at \notin {"push", "publish", "gate"} /\ ~(job[h].at = "fetch" /\ job[h].cmd = "gc")
    /\ UNCHANGED <<made, hubvars, told, sent, got, localvars, doomed, knows, contains, job, hand, history>>

SyncWork(h) ==
    \/ SyncBlobs(h) \/ pullReferencedBlobs(h) \/ resumeContainment(h)
    \/ MarkEncryptedBindingsNeedingRotation(h) \/ (\E r \in job[h].todo : rewrapBlob(h, r) \/ drainPendingHubDelete(h, r) \/ gcStat(h, r))
    \/ emitSuperseding(h) \/ UpdateBlobRef(h) \/ rewrapPut(h) \/ rewrapPush(h) \/ rewrapDelete(h)
    \/ QueuePendingHubDelete(h) \/ clearContainment(h) \/ pushReferencedBlobs(h) \/ PushNaming(h)
    \/ AdvancePushSeqCursor(h) \/ BlobRefCount(h) \/ gcUnreferencedBlobs(h)
    \/ gcMark(h) \/ gcDelete(h) \/ gcDone(h)

BlobNext ==
    \/ \E h \in Host :
        \/ SyncWork(h) \/ HubGC(h) \/ revokeBlobs(h) \/ rewrapFails(h) \/ CrashBlobs(h)
        \/ \E rotate \in BOOLEAN : captureEnvProfile(h, rotate)
        \/ CommitCapture(h) \/ ClearRotationForProject(h)
    \/ TickBlobs

BlobSpec == BlobInit /\ [][BlobNext]_blobvars

-----------------------------------------------------------------------------
Published == UNION {{told[o][i] : i \in {i \in stored[o] : told[o][i].type = "blob"}} : o \in Host}
Unsent(h) == {told[h][i] : i \in {i \in (sent[h] + 1)..Len(told[h]) : told[h][i].type = "blob"}}

\* The hub holds the blob its latest event names (a peer that applies the event
\* must be able to fetch the ciphertext), or a device has the successor to push:
\* whatever is rewrapped, drained and swept, on any view, at any age.  Exempt is a
\* blob put again between hub gc's last look and its delete.
CurrentBlobKept ==
    \A e \in LatestDraftSnapshot(Published) :
        \/ e.ref \in DOMAIN blobs \cup raced
        \/ \E h \in Host : \E n \in Unsent(h) : envCoordLess(e, n) /\ n.ref \in cache[h] \cup raced

\* What a device has yet to push is in its cache: the sync that needs the blob
\* would otherwise fail now and in every later cycle (P6-DATA-01).  Exempt are the
\* windows gcUnreferencedBlobs leaves to a capture that runs beside it.
PendingPushable == \A h \in Host : \A e \in Unsent(h) : e.ref \in cache[h] \cup raced

\* A value a device held when it learned that one of its readers was revoked
\* stays flagged for rotation on that device, through rewraps and everybody's
\* superseding events, until the user rotates it (TRUST-01, P5-PROD-03).
ExposedFlagged ==
    \A h \in Host :
        (/\ budget.kind = "env" /\ knows[h] /\ ~contains[h]
         /\ \E r \in rows[h] : made[r.ref].value \in valued[h]) => flag[h]

\* Ciphertext that was queued for deletion because a revoked device can read it
\* and is on the hub is still queued, so that a later sync tries again: deletes
\* fail, processes die, rows come and go (P5-PROD-02).  What its author has put
\* there since, by repeating a push, is nobody's to delete but hub gc's.
OldCiphertextRemembered == queued \cap DOMAIN blobs \subseteq UNION {doomed[h] : h \in Host}

\* Whoever needs a blob finds it: a peer on the hub, its author in the cache.
BlobsAvailable == CurrentBlobKept /\ PendingPushable

\* What a revoked reader could see stays on somebody's list: the value to be
\* rotated, the old ciphertext to be deleted.
ExposureRemembered == ExposedFlagged /\ OldCiphertextRemembered
=============================================================================
